------------------------------- MODULE P1Fxns -------------------------------
(* P1/p1fxns.c: the string functions of project 1, on texts (sequences of  *)
(* characters, without the terminator). Positions are counted from 0.      *)
EXTENDS Integers, Sequences

SX == INSTANCE SequencesExt

At(s, i) == s[i + 1]
Drop(s, i) == SubSeq(s, i + 1, Len(s))

\* p1getline: what a call takes of the input, at most size - 1 characters
\* and none behind the end of a line.
GetLine(input, size) ==
  LET max == IF Len(input) < size - 1 THEN Len(input) ELSE size - 1
      n == CHOOSE n \in 0..max :
             /\ \A i \in 1..n - 1 : input[i] # "\n"
             /\ n = max \/ (n > 0 /\ input[n] = "\n")
  IN SubSeq(input, 1, n)

\* p1strchr
StrChr(s, c) ==
  LET found == {i \in 1..Len(s) : s[i] = c}
  IN IF found = {} THEN -1
     ELSE (CHOOSE i \in found : \A j \in found : i <= j) - 1

singlequote == <<"'">>
doublequote == <<"\"">>
whitespace == <<" ", "\t">>

\* The first position from i on whose character is one of tc, or is none.
Until(s, i, tc) == CHOOSE j \in i..Len(s) :
  /\ \A k \in i..j - 1 : StrChr(tc, At(s, k)) = -1
  /\ j = Len(s) \/ StrChr(tc, At(s, j)) # -1
Past(s, i, tc) == CHOOSE j \in i..Len(s) :
  /\ \A k \in i..j - 1 : StrChr(tc, At(s, k)) # -1
  /\ j = Len(s) \/ StrChr(tc, At(s, j)) = -1

\* p1getword: the word, and where to go on or -1; without a word, the
\* caller's buffer keeps `old'.
GetWord(s, i, old) ==
  LET begin == Past(s, i, whitespace)
      quote == IF begin = Len(s) THEN <<>>
               ELSE CASE At(s, begin) = "'" -> singlequote
                      [] At(s, begin) = "\"" -> doublequote
                      [] OTHER -> <<>>
      from == begin + Len(quote)
      end == Until(s, from, IF quote = <<>> THEN whitespace ELSE quote)
  IN IF begin = Len(s) THEN [next |-> -1, word |-> old]
     ELSE [next |-> IF end < Len(s) /\ quote # <<>> THEN end + 1 ELSE end,
           word |-> SubSeq(s, from + 1, end)]

digits == <<"0", "1", "2", "3", "4", "5", "6", "7", "8", "9">>
IsDigit(c) == StrChr(digits, c) # -1

\* p1atoi: the number that the digits at the start make, 0 if there is none.
Atoi(s) ==
  LET ans[i \in 0..Len(s)] ==
        IF i = 0 THEN 0 ELSE 10 * ans[i - 1] + StrChr(digits, s[i])
      n == CHOOSE n \in 0..Len(s) : /\ \A i \in 1..n : IsDigit(s[i])
                                    /\ n = Len(s) \/ ~IsDigit(s[n + 1])
  IN ans[n]

\* The digits of n > 0 as the loops of p1putint and p1itoa find them, the
\* last one first.
Backwards(n) ==
  LET tmp[m \in 0..n] ==
        IF m = 0 THEN <<>> ELSE <<digits[(m % 10) + 1]>> \o tmp[m \div 10]
  IN tmp[n]

\* p1putint, of what is not negative.
PutInt(number) == IF number = 0 THEN <<"0">> ELSE SX!Reverse(Backwards(number))

\* Mutant: the digits are not turned round.
Itoa_Backwards(number) ==
  IF number = 0 THEN <<"0">>
  ELSE IF number < 0 THEN <<"-">> \o Backwards(-number)
  ELSE Backwards(number)

\* p1itoa
Itoa(number) ==
  IF number = 0 THEN <<"0">>
  ELSE IF number < 0 THEN SX!Reverse(Append(Backwards(-number), "-"))
  ELSE SX!Reverse(Backwards(number))

\* p1strcat, into a buffer that is large enough.
StrCat(s, t) == s \o t

\* p1strpack: st filled up to |fw| characters, at the end or, when fw is
\* negative, at the start.
StrPack(st, fw, fc) ==
  LET nb == (IF fw < 0 THEN -fw ELSE fw) - Len(st)
      fill == [i \in 1..IF nb > 0 THEN nb ELSE 0 |-> fc]
  IN IF fw < 0 THEN fill \o st ELSE st \o fill

-----------------------------------------------------------------------------
\* The number that a text denotes.
Value(s) ==
  LET pow[k \in Nat] == IF k = 0 THEN 1 ELSE 10 * pow[k - 1]
      term[i \in 0..Len(s)] ==
        IF i = 0 THEN 0
        ELSE term[i - 1] + pow[Len(s) - i] * StrChr(digits, s[i])
  IN term[Len(s)]

(* Numbers up to N come back from their text, which has no more digits     *)
(* than it needs, and a packed field is as wide as it was to be and holds  *)
(* the text at the side that fw says.                                      *)
NumbersSurvive(N, widths) ==
  \A n \in 0..N :
    LET s == Itoa(n)
    IN /\ Atoi(s) = n /\ Value(s) = n /\ PutInt(n) = s
       /\ n > 0 => s[1] # "0" /\ Itoa(-n) = <<"-">> \o s
       /\ \A w \in widths :
            LET p == StrPack(s, w, "0")
                width == IF w < 0 THEN -w ELSE w
            IN /\ Len(p) = IF width > Len(s) THEN width ELSE Len(s)
               /\ IF w < 0 THEN Value(p) = n ELSE SubSeq(p, 1, Len(s)) = s

(* Lines that are read one after the other are the input again, each but   *)
(* the last complete or as long as the buffer allows.                      *)
LinesMakeTheInput(input, size) ==
  LET line == GetLine(input, size)
      rest == Drop(input, Len(line))
  IN /\ line \o rest = input
     /\ line = <<>> <=> input = <<>>
     /\ rest # <<>> => Len(line) = size - 1 \/ line[Len(line)] = "\n"
     /\ \A i \in 1..Len(line) - 1 : line[i] # "\n"
=============================================================================
