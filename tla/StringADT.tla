------------------------------ MODULE StringADT ------------------------------
(* adts/stringADT.c: a string in a buffer that grows. self.text is the     *)
(* bytes before the terminator, self.size the room the string believes to  *)
(* have and self.alloc what malloc gave it. A write behind alloc is        *)
(* undefined: of such a string the model keeps the text that was asked for *)
(* and calls nothing but destroy. Characters are counted from 0, as in C.  *)
EXTENDS Integers, Sequences

CONSTANTS Chars,        \* the characters that clients use
          Pieces,       \* the C strings that they pass
          INCREMENT,    \* stringADT.c
          MAXTEXT,      \* bound of the model: the longest string made, but that
                        \* replace may make it longer by one
          MAXSIZE       \* bound of the model: malloc and realloc fail above

VARIABLES self, ret

\* ctype.h, for the characters a model uses.
Letters == {"A", "B", "a", "b"}
IsUpper(c) == c \in {"A", "B"}
IsLower(c) == c \in {"a", "b"}
IsAlpha(c) == IsUpper(c) \/ IsLower(c)
IsDigit(c) == c \in {"0", "1"}
IsSpace(c) == c \in {" ", "\t", "\n"}
ToLower(c) == IF c = "A" THEN "a" ELSE IF c = "B" THEN "b" ELSE c
ToUpper(c) == IF c = "a" THEN "A" ELSE IF c = "b" THEN "B" ELSE c

\* The characters begin .. end - 1.
Sub(s, begin, end) == SubSeq(s, begin + 1, end)
\* strncmp(buf + i, w, strlen(w)) == 0
Match(s, i, w) == i + Len(w) <= Len(s) /\ Sub(s, i, i + Len(w)) = w

NewString(s) == [text |-> s, length |-> Len(s), size |-> Len(s) + 1,
                 alloc |-> Len(s) + 1]

Init == \E s \in Pieces : self = NewString(s) /\ ret = <<"create">>

Fits(std) == Len(std.text) + 1 <= std.alloc

\* st_copy, for a client that goes on with the copy: it takes over size,
\* but its buffer is as long as the text.
Copy ==
  \/ /\ self' = [self EXCEPT !.text = Sub(@, 0, self.length),
                             !.alloc = self.length + 1]
     /\ ret' = <<"copy", TRUE>>
  \/ UNCHANGED self /\ ret' = <<"copy", FALSE>>

End(end) == IF end = 0 THEN self.length ELSE end

\* For a client that goes on with the slice.
Slice(begin, end) ==
  \/ /\ begin >= 0 /\ End(end) <= self.length /\ begin < End(end)
     /\ self' = NewString(Sub(self.text, begin, End(end)))
     /\ ret' = <<"slice", TRUE>>
  \/ UNCHANGED self /\ ret' = <<"slice", FALSE>>

\* destroy, and a new string.
Destroy == \E s \in Pieces : self' = NewString(s) /\ ret' = <<"create">>

\* The buffer grows when it has no room for n characters more.
WithRoom(n) ==
  LET size == self.size + IF n > INCREMENT THEN n ELSE INCREMENT
  IN IF self.length + n + 1 <= self.size THEN {self}
     ELSE IF size <= MAXSIZE
     THEN {[self EXCEPT !.size = size, !.alloc = size]}
     ELSE {}
NoRoom(op, n) ==
  self.length + n + 1 > self.size /\ UNCHANGED self /\ ret' = <<op, FALSE>>

Suffixed(suffix) ==
  \/ /\ self.length + Len(suffix) <= MAXTEXT
     /\ \E std \in WithRoom(Len(suffix)) :
          self' = [std EXCEPT !.text = @ \o suffix,
                              !.length = Len(std.text \o suffix)]
     /\ ret' = <<"append", TRUE>>
  \/ NoRoom("append", Len(suffix))

Legal(index) == index >= 0 /\ index < self.length

Assign(chr, index) ==
  \/ /\ Legal(index)
     /\ self' = [self EXCEPT !.text[index + 1] = chr]
     /\ ret' = <<"assign", index, TRUE>>
  \/ ~Legal(index) /\ UNCHANGED self /\ ret' = <<"assign", index, FALSE>>

Clear == /\ self' = [self EXCEPT !.text = <<>>, !.length = 0]
         /\ ret' = <<"clear", TRUE>>

(* A plausible bug: the tail that moves up starts one character too late.   *)
Insert_LateTail(substr, index) ==
  \/ /\ index >= 0 /\ index <= self.length
     /\ self.length + Len(substr) <= MAXTEXT
     /\ \E std \in WithRoom(Len(substr)) :
          self' = [std EXCEPT
            !.text = Sub(@, 0, index) \o substr \o Sub(@, index + 1, Len(@)),
            !.length = @ + Len(substr)]
     /\ ret' = <<"insert", TRUE>>
  \/ /\ index < 0 \/ index > self.length
     /\ UNCHANGED self /\ ret' = <<"insert", FALSE>>
  \/ NoRoom("insert", Len(substr))

\* The tail and the terminator move up, and substr fills the gap.
Insert(substr, index) ==
  \/ /\ index >= 0 /\ index <= self.length
     /\ self.length + Len(substr) <= MAXTEXT
     /\ \E std \in WithRoom(Len(substr)) :
          self' = [std EXCEPT
            !.text = Sub(@, 0, index) \o substr \o Sub(@, index, Len(@)),
            !.length = @ + Len(substr)]
     /\ ret' = <<"insert", TRUE>>
  \/ /\ index < 0 \/ index > self.length
     /\ UNCHANGED self /\ ret' = <<"insert", FALSE>>
  \/ NoRoom("insert", Len(substr))

Changed(op, s) == /\ self' = [self EXCEPT !.text = s, !.length = Len(s)]
                  /\ ret' = <<op, TRUE>>

Lower == Changed("lower", [i \in DOMAIN self.text |-> ToLower(self.text[i])])
Upper == Changed("upper", [i \in DOMAIN self.text |-> ToUpper(self.text[i])])

\* The white space at the start ends before character Skipped(s).
Skipped(s) == CHOOSE i \in 0..Len(s) :
  /\ \A j \in 1..i : IsSpace(s[j])
  /\ i = Len(s) \/ ~IsSpace(s[i + 1])
\* What is left when the white space at the end is cut off.
Kept(s) == CHOOSE i \in 0..Len(s) :
  /\ \A j \in i + 1..Len(s) : IsSpace(s[j])
  /\ i = 0 \/ ~IsSpace(s[i])

LStripped(s) == Sub(s, Skipped(s), Len(s))
RStripped(s) == Sub(s, 0, Kept(s))

LStrip == Changed("lStrip", LStripped(self.text))
RStrip == Changed("rStrip", RStripped(self.text))
Strip == Changed("strip", RStripped(LStripped(self.text)))

Remove(index) ==
  \/ /\ Legal(index)
     /\ self' = [self EXCEPT
          !.text = Sub(@, 0, index) \o Sub(@, index + 1, self.length),
          !.length = @ - 1]
     /\ ret' = <<"remove", index, TRUE>>
  \/ ~Legal(index) /\ UNCHANGED self /\ ret' = <<"remove", index, FALSE>>

\* From left to right, each match of old becomes new.
Replaced(s, old, new) ==
  LET from[i \in 0..Len(s)] ==
        IF i = Len(s) THEN <<>>
        ELSE IF Match(s, i, old) THEN new \o from[i + Len(old)]
        ELSE <<s[i + 1]>> \o from[i + 1]
  IN from[0]

\* The room replace asks for: as if old were all there is.
NewSize(std, oldlen, newlen) ==
  LET nold == std.length \div oldlen + 1
      size == std.size - nold * oldlen + nold * newlen
  IN IF size < std.size THEN std.size ELSE size

\* Into a new buffer; malloc may fail.
Replace(old, new) ==
  LET s == Replaced(self.text, old, new)
      size == NewSize(self, Len(old), Len(new))
  IN \/ /\ Len(s) <= MAXTEXT + 1 /\ size <= MAXSIZE
        /\ self' = [text |-> s, length |-> Len(s), size |-> size, alloc |-> size]
        /\ ret' = <<"replace", TRUE>>
     \/ UNCHANGED self /\ ret' = <<"replace", FALSE>>

\* Of the twelve classes of characters, these differ on the model's.
ClassFuncs == [alpha |-> {c \in Chars : IsAlpha(c)},
               digit |-> {c \in Chars : IsDigit(c)},
               lower |-> {c \in Chars : IsLower(c)},
               space |-> {c \in Chars : IsSpace(c)},
               upper |-> {c \in Chars : IsUpper(c)}]

\* A class that is not in the table leaves the string as it is.
Translate(class, chr) ==
  LET To(c) == IF class \in DOMAIN ClassFuncs /\ c \in ClassFuncs[class]
               THEN chr ELSE c
  IN Changed("translate", [i \in DOMAIN self.text |-> To(self.text[i])])

Next ==
  \/ Destroy
  \/ /\ Fits(self)
     /\ \/ Copy \/ Clear \/ Lower \/ Upper \/ LStrip \/ RStrip \/ Strip
        \/ \E begin \in -1..MAXTEXT, end \in 0..MAXTEXT + 1 : Slice(begin, end)
        \/ \E s \in Pieces : Suffixed(s)
        \/ \E s \in Pieces, i \in -1..self.length + 1 : Insert(s, i)
        \/ \E c \in Chars, i \in -1..self.length : Assign(c, i)
        \/ \E i \in -1..self.length : Remove(i)
        \/ \E old, new \in Pieces : old # <<>> /\ Replace(old, new)
        \/ \E class \in DOMAIN ClassFuncs \cup {"none"}, c \in Chars :
             Translate(class, c)

-----------------------------------------------------------------------------
\* The methods that leave the string as it is, as functions of its text.

Less(c, d) == LET order == <<"\t", "\n", " ", "0", "1", "A", "B", "a", "b">>
                  At(x) == CHOOSE i \in DOMAIN order : order[i] = x
              IN At(c) < At(d)
\* The sign of strcmp.
Compare(s, t) ==
  LET n == CHOOSE n \in 0..Len(s) : /\ n <= Len(t) /\ Sub(s, 0, n) = Sub(t, 0, n)
                                    /\ \/ n = Len(s) \/ n = Len(t)
                                       \/ s[n + 1] # t[n + 1]
  IN IF n = Len(s) THEN IF n = Len(t) THEN 0 ELSE -1
     ELSE IF n = Len(t) THEN 1
     ELSE IF Less(s[n + 1], t[n + 1]) THEN -1 ELSE 1

Get(s, index) == IF index \in 0..Len(s) - 1 THEN <<TRUE, s[index + 1]>>
                 ELSE <<FALSE>>

\* strstr(s, w) != NULL
Contains(s, w) == \E i \in 0..Len(s) : Match(s, i, w)

To(s, end) == IF end = 0 THEN Len(s) ELSE end
StartsWith(s, prefix, begin, end) ==
  To(s, end) - begin >= Len(prefix) /\ Match(s, begin, prefix)
EndsWith(s, suffix, begin, end) ==
  /\ To(s, end) - begin >= Len(suffix)
  /\ Match(s, To(s, end) - Len(suffix), suffix)

(* A plausible bug: a match may go on behind end. *)
Found_Past(s, w, begin, end) ==
  {i \in begin..To(s, end) - 1 : Match(s, i, w)}

\* Where the loops of index and rindex, which count i and j together, can
\* stop; index takes the first of them and rindex the last.
Found(s, w, begin, end) ==
  {i \in begin..To(s, end) - 1 :
     To(s, end) - begin - (i - begin) >= Len(w) /\ Match(s, i, w)}
Index(s, w, begin, end) ==
  LET found == Found(s, w, begin, end)
  IN IF found = {} THEN -1 ELSE CHOOSE i \in found : \A j \in found : i <= j
RIndex(s, w, begin, end) ==
  LET found == Found(s, w, begin, end)
  IN IF found = {} THEN -1 ELSE CHOOSE i \in found : \A j \in found : i >= j

\* isAlpha, isDigit, isLower, isSpace and isUpper.
All(class, s) == Len(s) > 0 /\ \A i \in DOMAIN s : s[i] \in ClassFuncs[class]

\* The words between matches of sep: none after the last match when nothing
\* follows it.
SplitPat(s, sep) ==
  LET from[p \in 0..Len(s)] ==
        IF p = Len(s) THEN <<>>
        ELSE LET q == Index(s, sep, p, 0)
             IN IF q = -1 THEN <<Sub(s, p, Len(s))>>
                ELSE <<Sub(s, p, q)>> \o from[q + Len(sep)]
  IN from[0]

\* getword: where the word after position i begins and ends; both are the
\* length of s when there is none.
Word(s, i) ==
  LET begin == i + Skipped(Sub(s, i, Len(s)))
      end == CHOOSE e \in begin..Len(s) :
               /\ \A k \in begin + 1..e : ~IsSpace(s[k])
               /\ e = Len(s) \/ IsSpace(s[e + 1])
  IN [begin |-> begin, end |-> end]
SplitWhite(s) ==
  LET from[i \in 0..Len(s)] ==
        LET w == Word(s, i)
        IN IF w.begin = Len(s) THEN <<>>
           ELSE <<Sub(s, w.begin, w.end)>> \o from[w.end]
  IN from[0]

\* The list holds these words; it is NULL when there is none.
Split(s, sep) == IF sep = <<>> THEN SplitWhite(s) ELSE SplitPat(s, sep)

-----------------------------------------------------------------------------
T == INSTANCE Text WITH text <- self.text

\* The length is that of the text, which has room in the buffer unless the
\* string believes the buffer to be larger than it is.
BufferOK ==
  /\ self \in [text : Seq(Chars \cup Letters), length : Nat, size : Nat, alloc : Nat]
  /\ self.length = Len(self.text)
  /\ self.length + 1 <= self.size
  /\ self.alloc <= self.size
  /\ self.alloc = self.size => Fits(self)

\* A copy alone comes to believe that.
StepIsText ==
  [/\ T!TextNext
   /\ self'.alloc < self'.size => ret' = <<"copy", TRUE>> \/ self.alloc < self.size
  ]_<<self, ret>>

\* Where index and rindex say that w is in a part of s, and nowhere before
\* or behind.
IndexOK(s, w, begin, end) ==
  LET part == T!Part(s, begin, end)
      first == Index(s, w, begin, end)
      last == RIndex(s, w, begin, end)
      At(i) == T!At(part, i, w)
  IN IF ~T!IsIn(part, w) THEN first = -1 /\ last = -1
     ELSE /\ At(first - begin) /\ \A i \in 0..first - begin - 1 : ~At(i)
          /\ At(last - begin) /\ \A i \in last - begin + 1..Len(part) : ~At(i)

AnswersOK ==
  LET s == self.text
  IN /\ \A w \in Pieces :
          /\ Contains(s, w) = T!IsIn(s, w)
          /\ Compare(s, w) = 0 <=> s = w
          /\ Compare(s, w) = -Compare(w, s)
          /\ IF w = <<>> THEN T!SplitAtSpace(s, Split(s, w))
             ELSE T!SplitBy(s, w, Split(s, w))
          /\ \A begin \in 0..Len(s) : \A end \in {0} \cup begin + 1..Len(s) :
               LET part == T!Part(s, begin, end)
               IN /\ StartsWith(s, w, begin, end) = T!Starts(part, w)
                  /\ EndsWith(s, w, begin, end) = T!Ends(part, w)
                  /\ w # <<>> => IndexOK(s, w, begin, end)
     /\ \A i \in -1..Len(s) :
          Get(s, i) = IF Legal(i) THEN <<TRUE, T!Part(s, i, i + 1)[1]>> ELSE <<FALSE>>
     /\ All("space", s) = (s # <<>> /\ LStripped(s) = <<>>)
     /\ All("lower", s) => \A i \in DOMAIN s : ToLower(s[i]) = s[i]
=============================================================================
