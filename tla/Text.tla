-------------------------------- MODULE Text --------------------------------
(* What stringADT.h promises: a text, and for each method what becomes of  *)
(* it. Positions are counted from 0; `ret' is the last call that could     *)
(* change the text, with its position and whether it succeeded.            *)
EXTENDS Integers, Sequences, FiniteSets

CONSTANTS Chars, Pieces,
          IsSpace(_), IsUpper(_), ToLower(_), ToUpper(_)

VARIABLES text, ret

\* w is found at i.
At(s, i, w) == \A k \in DOMAIN w : i + k <= Len(s) /\ s[i + k] = w[k]
Part(s, begin, end) == SubSeq(s, begin + 1, IF end = 0 THEN Len(s) ELSE end)
Legal(begin, end) == /\ begin >= 0 /\ end <= Len(text)
                     /\ begin < (IF end = 0 THEN Len(text) ELSE end)

Failed(op) == ret' = <<op, FALSE>> /\ UNCHANGED text

New == ret' = <<"create">> /\ text' \in Pieces
Copy == ret'[1] = "copy" /\ UNCHANGED text
Slice == \/ /\ ret' = <<"slice", TRUE>>
            /\ \E begin \in 0..Len(text) - 1, end \in 0..Len(text) :
                 Legal(begin, end) /\ text' = Part(text, begin, end)
         \/ Failed("slice")
Extend == \/ ret' = <<"append", TRUE>> /\ \E s \in Pieces : text' = text \o s
          \/ Failed("append")
\* What was there and what is inserted are both found where they belong.
Insert == \/ /\ ret' = <<"insert", TRUE>>
             /\ \E s \in Pieces, i \in 0..Len(text) :
                  /\ Len(text') = Len(text) + Len(s)
                  /\ \A k \in 1..i : text'[k] = text[k]
                  /\ At(text', i, s)
                  /\ \A k \in i + 1..Len(text) : text'[k + Len(s)] = text[k]
          \/ Failed("insert")

\* A position outside the text is refused, and no other.
Assign == /\ ret'[1] = "assign"
          /\ LET i == ret'[2]
             IN IF i \in 0..Len(text) - 1
                THEN ret'[3] /\ \E c \in Chars : text' = [text EXCEPT ![i + 1] = c]
                ELSE ~ret'[3] /\ UNCHANGED text
Remove == /\ ret'[1] = "remove"
          /\ LET i == ret'[2]
             IN IF i \in 0..Len(text) - 1
                THEN /\ ret'[3]
                     /\ text' = [k \in 1..Len(text) - 1 |->
                                   text[IF k <= i THEN k ELSE k + 1]]
                ELSE ~ret'[3] /\ UNCHANGED text

Clear == ret'[1] = "clear" /\ text' = <<>>
Lower == /\ ret'[1] = "lower"
         /\ text' = [i \in DOMAIN text |-> ToLower(text[i])]
Upper == /\ ret'[1] = "upper"
         /\ text' = [i \in DOMAIN text |-> ToUpper(text[i])]
\* Every character of one class, or of none, becomes c.
Translate == /\ ret'[1] = "translate"
             /\ Len(text') = Len(text)
             /\ \E c \in Chars : \A i \in DOMAIN text : text'[i] \in {text[i], c}

\* The text is what is left between white space at the ends.
Blank(s) == \A i \in DOMAIN s : IsSpace(s[i])
Strip == /\ ret'[1] \in {"lStrip", "rStrip", "strip"}
         /\ \E n \in 0..Len(text) : \E m \in n..Len(text) :
              /\ text' = SubSeq(text, n + 1, m)
              /\ Blank(SubSeq(text, 1, n)) /\ Blank(SubSeq(text, m + 1, Len(text)))
              /\ ret'[1] = "rStrip" => n = 0
              /\ ret'[1] = "lStrip" => m = Len(text)
              /\ ret'[1] # "rStrip" /\ text' # <<>> => ~IsSpace(text'[1])
              /\ ret'[1] # "lStrip" /\ text' # <<>> => ~IsSpace(text'[Len(text')])

\* The matches that are replaced: no two overlap, and each match that is
\* not one of them overlaps one that begins before it.
Matches(s, w) == {i \in 0..Len(s) - Len(w) : At(s, i, w)}
Chosen(s, w) == CHOOSE M \in SUBSET Matches(s, w) :
  \A i \in Matches(s, w) :
    i \in M <=> \A j \in M : ~(j < i /\ i < j + Len(w))
SX == INSTANCE SequencesExt
Replaced(s, old, new) ==
  LET M == Chosen(s, old)
  IN SX!FlattenSeq([k \in DOMAIN s |->
       IF k - 1 \in M THEN new
       ELSE IF \E j \in M : j < k /\ k <= j + Len(old) THEN <<>> ELSE <<s[k]>>])
Replace ==
  \/ /\ ret' = <<"replace", TRUE>>
     /\ \E old \in Pieces \ {<<>>}, new \in Pieces :
          text' = Replaced(text, old, new)
  \/ Failed("replace")

TextNext == \/ New \/ Copy \/ Slice \/ Extend \/ Insert \/ Assign \/ Remove
            \/ Clear \/ Lower \/ Upper \/ Translate \/ Strip \/ Replace

-----------------------------------------------------------------------------
\* What the questions mean. A part is the text from begin to end - 1.
IsIn(s, w) == \E u \in 0..Len(s) : At(s, u, w)
Starts(s, w) == At(s, 0, w)
Ends(s, w) == Len(w) <= Len(s) /\ At(s, Len(s) - Len(w), w)

\* The words with sep between them are the text, but for a last sep that
\* nothing follows; no word has a sep inside.
Joined(words, sep) ==
  SX!FlattenSeq([i \in DOMAIN words |->
                   IF i = 1 THEN words[1] ELSE sep \o words[i]])
SplitBy(s, sep, words) ==
  /\ Joined(words, sep) = s \/ Joined(words, sep) \o sep = s
  /\ \A i \in DOMAIN words : ~IsIn(words[i], sep)
\* The words are the longest stretches without white space.
SplitAtSpace(s, words) ==
  LET Solid(c) == ~IsSpace(c)
  IN /\ SX!FlattenSeq(words) = SelectSeq(s, Solid)
     /\ \A i \in DOMAIN words : words[i] # <<>>
     /\ Len(words) = Cardinality({k \in DOMAIN s :
          Solid(s[k]) /\ (k = 1 \/ IsSpace(s[k - 1]))})
=============================================================================
