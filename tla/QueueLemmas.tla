---------------------------- MODULE QueueLemmas -----------------------------
(***************************************************************************)
(* What the proofs about queues, stacks, deques, lists, maps and free      *)
(* lists need of their data: sequences, that elements are put to or taken  *)
(* from at either end or anywhere; rings in an array; chains of linked     *)
(* nodes, in one or both directions; tables of buckets; and the dictionary *)
(* of a set of entries with names. The walk along a chain, the elements of *)
(* a table and its resize are recursive functions (module Linked). What    *)
(* they yield is shown by induction over a set of numbers, since the       *)
(* induction theorems of the library cannot be used: a set of numbers that *)
(* is not empty has a least element, which follows from the well-          *)
(* foundedness of the strict subsets of a finite set.                      *)
(***************************************************************************)
EXTENDS Integers, Sequences, Functions, Linked, FiniteSetTheorems, TLAPS

\* A queue that is written holds the new element besides the old ones, and
\* stays free of duplicates when the element was not in it.
LEMMA AppendElems ==
  ASSUME NEW S, NEW q \in Seq(S), NEW x \in S
  PROVE  /\ Append(q, x) \in Seq(S)
         /\ Range(Append(q, x)) = Range(q) \cup {x}
         /\ IsInjective(q) /\ x \notin Range(q) => IsInjective(Append(q, x))
<1> DEFINE r == Append(q, x)
<1>1. /\ r \in Seq(S)
      /\ DOMAIN r = 1 .. Len(q) + 1
      /\ DOMAIN q = 1 .. Len(q)
      /\ Len(q) \in Nat
  OBVIOUS
<1>2. r[Len(q) + 1] = x /\ \A i \in 1 .. Len(q) : r[i] = q[i]
  OBVIOUS
<1> HIDE DEF r
<1>3. Range(r) = Range(q) \cup {x}
  BY <1>1, <1>2 DEF Range
<1>4. IsInjective(q) /\ x \notin Range(q) => IsInjective(r)
  BY <1>1, <1>2 DEF Range, IsInjective
<1> QED
  BY <1>1, <1>3, <1>4 DEF r

\* Reading a queue removes its head and nothing else; from a queue free of
\* duplicates the head is then gone.
LEMMA TailElems ==
  ASSUME NEW S, NEW q \in Seq(S), q # <<>>
  PROVE  /\ Head(q) \in S
         /\ Tail(q) \in Seq(S)
         /\ Range(q) = {Head(q)} \cup Range(Tail(q))
         /\ IsInjective(q) => IsInjective(Tail(q)) /\ Head(q) \notin Range(Tail(q))
<1> DEFINE r == Tail(q)
<1>1. /\ r \in Seq(S)
      /\ DOMAIN r = 1 .. Len(q) - 1
      /\ DOMAIN q = 1 .. Len(q)
      /\ Len(q) \in Nat \ {0}
  OBVIOUS
<1>2. Head(q) = q[1] /\ q[1] \in S /\ \A i \in 1 .. Len(q) - 1 : r[i] = q[i + 1]
  OBVIOUS
<1> HIDE DEF r
<1>3. \A i \in 2 .. Len(q) : i - 1 \in 1 .. Len(q) - 1 /\ r[i - 1] = q[i]
  BY <1>1, <1>2
<1>4. Range(q) = {Head(q)} \cup Range(r)
  <2>1. ASSUME NEW i \in DOMAIN q
        PROVE  q[i] \in {Head(q)} \cup Range(r)
    <3>1. CASE i = 1
      BY <3>1, <1>2
    <3>2. CASE i \in 2 .. Len(q)
      BY <3>2, <1>1, <1>3 DEF Range
    <3> QED
      BY <3>1, <3>2, <1>1
  <2>2. ASSUME NEW i \in DOMAIN r
        PROVE  r[i] \in Range(q)
    BY <1>1, <1>2 DEF Range
  <2> QED
    BY SMTT(30), <2>1, <2>2, <1>1, <1>2 DEF Range
<1>5. ASSUME IsInjective(q)
      PROVE  IsInjective(r) /\ Head(q) \notin Range(r)
  <2>1. \A i, j \in 1 .. Len(q) : q[i] = q[j] => i = j
    BY <1>1, <1>5 DEF IsInjective
  <2>2. \A i, j \in 1 .. Len(q) - 1 : r[i] = r[j] => i + 1 = j + 1
    BY <1>1, <1>2, <2>1
  <2>3. \A i \in 1 .. Len(q) - 1 : r[i] # Head(q)
    BY <1>1, <1>2, <2>1
  <2> QED
    BY <1>1, <2>2, <2>3 DEF IsInjective, Range
<1> QED
  BY <1>1, <1>2, <1>4, <1>5 DEF r

-----------------------------------------------------------------------------
(* A sequence that is given by its length and its elements, recognised as  *)
(* what the operators on sequences make of another one.                    *)

\* The last element of a sequence that is appended to, and the others.
LEMMA AppendIs ==
  ASSUME NEW S, NEW n \in Nat, NEW s \in [1 .. n -> S], NEW e \in S,
         NEW t \in [1 .. n + 1 -> S],
         \A j \in 1 .. n + 1 : t[j] = IF j = n + 1 THEN e ELSE s[j]
  PROVE  t = Append(s, e)
<1>1. s \in Seq(S) /\ Len(s) = n
  OBVIOUS
<1>2. t \in Seq(S) /\ Len(t) = n + 1
  OBVIOUS
<1> QED
  BY <1>1, <1>2

\* The first element of a sequence that one is put before, and the others.
LEMMA ConsIs ==
  ASSUME NEW S, NEW n \in Nat, NEW s \in [1 .. n -> S], NEW e \in S,
         NEW t \in [1 .. n + 1 -> S],
         \A j \in 1 .. n + 1 : t[j] = IF j = 1 THEN e ELSE s[j - 1]
  PROVE  t = <<e>> \o s
<1>1. s \in Seq(S) /\ Len(s) = n
  OBVIOUS
<1>2. t \in Seq(S) /\ Len(t) = n + 1
  OBVIOUS
<1> QED
  BY <1>1, <1>2

\* The elements of a sequence without its first.
LEMMA TailIs ==
  ASSUME NEW S, NEW n \in Nat \ {0}, NEW s \in [1 .. n -> S],
         NEW t \in [1 .. n - 1 -> S],
         \A j \in 1 .. n - 1 : t[j] = s[j + 1]
  PROVE  t = Tail(s) /\ s # <<>>
<1>1. s \in Seq(S) /\ Len(s) = n
  OBVIOUS
<1>2. t \in Seq(S) /\ Len(t) = n - 1
  OBVIOUS
<1> QED
  BY <1>1, <1>2

\* The elements of a sequence without its last.
LEMMA FrontIs ==
  ASSUME NEW S, NEW n \in Nat \ {0}, NEW s \in [1 .. n -> S],
         NEW t \in [1 .. n - 1 -> S],
         \A j \in 1 .. n - 1 : t[j] = s[j]
  PROVE  t = SubSeq(s, 1, n - 1) /\ s # <<>>
<1>1. s \in Seq(S) /\ Len(s) = n
  OBVIOUS
<1>2. t \in Seq(S) /\ Len(t) = n - 1
  OBVIOUS
<1> QED
  BY <1>1, <1>2

-----------------------------------------------------------------------------
(* A ring of n slots, of which c hold a line of elements from slot o on.   *)

\* The slot of the j-th element.
Slot(o, j, n) == (o + j - 1) % n

RingLine(c, n, o, b) == [j \in 1 .. c |-> b[Slot(o, j, n)]]

\* The line's elements are in V, what other slots hold is in U.
RingHolds(c, n, o, b, V, U) ==
  /\ n \in Nat \ {0} /\ c \in 0 .. n /\ o \in 0 .. n - 1
  /\ V \subseteq U
  /\ b \in [0 .. n - 1 -> U]
  /\ \A j \in 1 .. c : b[Slot(o, j, n)] \in V

\* Going once around the ring.
LEMMA SlotIs ==
  ASSUME NEW n \in Nat \ {0}, NEW o \in 0 .. n - 1, NEW j \in 1 .. n + 1
  PROVE  /\ o + j - 1 < n => Slot(o, j, n) = o + j - 1
         /\ o + j - 1 >= n => Slot(o, j, n) = o + j - 1 - n
         /\ Slot(o, j, n) \in 0 .. n - 1
<1>1. \A a \in Nat : a < 2 * n => a % n = IF a < n THEN a ELSE a - n
  OBVIOUS
<1>2. o + j - 1 \in Nat /\ o + j - 1 < 2 * n
  OBVIOUS
<1> QED
  BY <1>1, <1>2 DEF Slot

\* Each slot is passed once.
LEMMA SlotsDiffer ==
  ASSUME NEW n \in Nat \ {0}, NEW o \in 0 .. n - 1,
         NEW j \in 1 .. n, NEW k \in 1 .. n, Slot(o, j, n) = Slot(o, k, n)
  PROVE  j = k
<1> DEFINE p == o + j - 1
           q == o + k - 1
<1>1. /\ p \in Int /\ q \in Int
      /\ p - q = j - k /\ p - q < n /\ q - p < n
  OBVIOUS
<1>2. /\ p < n => Slot(o, j, n) = p
      /\ p >= n => Slot(o, j, n) = p - n
      /\ q < n => Slot(o, j, n) = q
      /\ q >= n => Slot(o, j, n) = q - n
  BY SlotIs
<1> HIDE DEF p, q
<1>3. p = q
  BY <1>1, <1>2
<1> QED
  BY <1>1, <1>3

\* The slots from another one on, and from the one before.
LEMMA SlotsFrom ==
  ASSUME NEW n \in Nat \ {0}, NEW o \in 0 .. n - 1,
         NEW i \in 1 .. n + 1, NEW j \in 1 .. n + 1, i + j - 1 <= n + 1
  PROVE  Slot(Slot(o, i, n), j, n) = Slot(o, i + j - 1, n)
<1> DEFINE q == Slot(o, i, n)
           k == i + j - 1
<1>1. /\ q \in 0 .. n - 1
      /\ o + i - 1 < n => q = o + i - 1
      /\ o + i - 1 >= n => q = o + i - 1 - n
  BY SlotIs
<1> HIDE DEF q
<1>2. /\ q + j - 1 < n => Slot(q, j, n) = q + j - 1
      /\ q + j - 1 >= n => Slot(q, j, n) = q + j - 1 - n
  BY <1>1, SlotIs
<1>3. k \in 1 .. n + 1 /\ k = i + j - 1
  OBVIOUS
<1> HIDE DEF k
<1>4. /\ o + k - 1 < n => Slot(o, k, n) = o + k - 1
      /\ o + k - 1 >= n => Slot(o, k, n) = o + k - 1 - n
  BY <1>3, SlotIs
<1> QED
  BY <1>1, <1>2, <1>3, <1>4 DEF q, k

\* Slots counted from the one before the first.
LEMMA SlotsFromBefore ==
  ASSUME NEW n \in Nat \ {0}, NEW o \in 0 .. n - 1, NEW j \in 1 .. n
  PROVE  LET i == IF o = 0 THEN n - 1 ELSE o - 1 IN
         i \in 0 .. n - 1 /\ Slot(i, 1, n) = i /\ Slot(i, j + 1, n) = Slot(o, j, n)
<1> DEFINE i == IF o = 0 THEN n - 1 ELSE o - 1
<1>1. i \in 0 .. n - 1
  OBVIOUS
<1>2. Slot(i, 1, n) = i
  BY <1>1, SlotIs
<1>3. /\ o + j - 1 < n => Slot(o, j, n) = o + j - 1
      /\ o + j - 1 >= n => Slot(o, j, n) = o + j - 1 - n
  BY SlotIs
<1>4. /\ i + j < n => Slot(i, j + 1, n) = i + j
      /\ i + j >= n => Slot(i, j + 1, n) = i + j - n
  <2> HIDE DEF i
  <2>1. j + 1 \in 1 .. n + 1 /\ i + (j + 1) - 1 = i + j
    BY <1>1
  <2> QED
    BY <1>1, <2>1, SlotIs
<1> QED
  BY <1>1, <1>2, <1>3, <1>4

\* The elements of a ring's line.
LEMMA RingElems ==
  ASSUME NEW V, NEW U, NEW c, NEW n, NEW o, NEW b, RingHolds(c, n, o, b, V, U)
  PROVE  /\ n \in Nat \ {0} /\ c \in 0 .. n /\ o \in 0 .. n - 1
         /\ V \subseteq U
         /\ b \in [0 .. n - 1 -> U]
         /\ RingLine(c, n, o, b) \in [1 .. c -> V]
         /\ \A j \in 1 .. c : RingLine(c, n, o, b)[j] = b[Slot(o, j, n)]
BY DEF RingHolds, RingLine

\* What is stored in the slot behind the last element is the last element.
LEMMA RingAppend ==
  ASSUME NEW V, NEW U, NEW c, NEW n, NEW o, NEW b,
         RingHolds(c, n, o, b, V, U), c < n, NEW e \in V, NEW k, k = c + 1,
         NEW r, r = [b EXCEPT ![Slot(o, k, n)] = e]
  PROVE  /\ RingHolds(k, n, o, r, V, U)
         /\ RingLine(k, n, o, r) = Append(RingLine(c, n, o, b), e)
<1> DEFINE s == RingLine(c, n, o, b)
           t == [j \in 1 .. c + 1 |-> IF j = c + 1 THEN e ELSE s[j]]
<1>1. /\ n \in Nat \ {0} /\ c \in 0 .. n - 1 /\ o \in 0 .. n - 1
      /\ V \subseteq U
      /\ b \in [0 .. n - 1 -> U]
      /\ s \in [1 .. c -> V]
      /\ \A j \in 1 .. c : s[j] = b[Slot(o, j, n)]
  BY RingElems
<1> HIDE DEF s
<1>2. \A j \in 1 .. c + 1 :
        /\ Slot(o, j, n) \in 0 .. n - 1
        /\ Slot(o, j, n) = Slot(o, c + 1, n) => j = c + 1
  <2> SUFFICES ASSUME NEW j \in 1 .. c + 1
               PROVE  /\ Slot(o, j, n) \in 0 .. n - 1
                      /\ Slot(o, j, n) = Slot(o, c + 1, n) => j = c + 1
    OBVIOUS
  <2>1. j \in 1 .. n /\ j \in 1 .. n + 1 /\ c + 1 \in 1 .. n
    BY <1>1
  <2> QED
    BY <1>1, <2>1, SlotIs, SlotsDiffer
<1>3. /\ t \in [1 .. c + 1 -> V]
      /\ \A j \in 1 .. c + 1 : t[j] = IF j = c + 1 THEN e ELSE s[j]
  BY <1>1
<1>4. r \in [0 .. n - 1 -> U]
  BY <1>1
<1>5. \A j \in 1 .. c + 1 : r[Slot(o, j, n)] = t[j]
  BY <1>1, <1>2
<1> HIDE DEF t
<1>6. t = Append(s, e)
  BY <1>1, <1>3, AppendIs
<1>7. c + 1 \in 0 .. n
  BY <1>1
<1>8. RingHolds(c + 1, n, o, r, V, U)
  BY <1>1, <1>3, <1>4, <1>5, <1>7 DEF RingHolds
<1>9. RingLine(c + 1, n, o, r) = t
  BY <1>3, <1>5 DEF RingLine
<1> QED
  BY <1>6, <1>8, <1>9 DEF s

\* What is stored in the slot before the first element is the first element.
LEMMA RingCons ==
  ASSUME NEW V, NEW U, NEW c, NEW n, NEW o, NEW b,
         RingHolds(c, n, o, b, V, U), c < n, NEW e \in V, NEW k, k = c + 1,
         NEW i, i = (IF o = 0 THEN n - 1 ELSE o - 1),
         NEW r, r = [b EXCEPT ![i] = e]
  PROVE  /\ RingHolds(k, n, i, r, V, U)
         /\ RingLine(k, n, i, r) = <<e>> \o RingLine(c, n, o, b)
         /\ c > 0 => Slot(i, k, n) = Slot(o, c, n)
<1> DEFINE s == RingLine(c, n, o, b)
           t == [j \in 1 .. c + 1 |-> IF j = 1 THEN e ELSE s[j - 1]]
<1>1. /\ n \in Nat \ {0} /\ c \in 0 .. n - 1 /\ o \in 0 .. n - 1
      /\ V \subseteq U
      /\ b \in [0 .. n - 1 -> U]
      /\ s \in [1 .. c -> V]
      /\ \A j \in 1 .. c : s[j] = b[Slot(o, j, n)]
  BY RingElems
<1> HIDE DEF s
<1>2. /\ i \in 0 .. n - 1
      /\ Slot(i, 1, n) = i
      /\ \A j \in 1 .. c : Slot(i, j + 1, n) = Slot(o, j, n)
  <2>1. 1 \in 1 .. n /\ \A j \in 1 .. c : j \in 1 .. n
    BY <1>1
  <2> QED
    BY <1>1, <2>1, SlotsFromBefore
<1>3. /\ t \in [1 .. c + 1 -> V]
      /\ \A j \in 1 .. c + 1 : t[j] = IF j = 1 THEN e ELSE s[j - 1]
  BY <1>1
<1>4. r \in [0 .. n - 1 -> U]
  BY <1>1, <1>2
<1>5. \A j \in 1 .. c + 1 : r[Slot(i, j, n)] = t[j]
  <2>1. r[Slot(i, 1, n)] = t[1]
    BY <1>1, <1>2
  <2>2. ASSUME NEW j \in 2 .. c + 1 PROVE r[Slot(i, j, n)] = t[j]
    <3> DEFINE m == j - 1
    <3>1. m \in 1 .. c /\ j = m + 1 /\ 1 \in 1 .. n /\ j \in 1 .. n
      BY <1>1
    <3>2. Slot(i, j, n) = Slot(o, m, n)
      BY <1>2, <3>1
    <3>3. Slot(i, j, n) \in 0 .. n - 1
      <4>1. j \in 1 .. n + 1
        BY <1>1
      <4> QED
        BY <1>1, <1>2, <4>1, SlotIs
    <3>4. Slot(i, j, n) # Slot(i, 1, n)
      BY <1>1, <1>2, <3>1, SlotsDiffer
    <3>5. t[j] = s[m]
      BY <3>1, <1>1
    <3> HIDE DEF m
    <3>6. r[Slot(i, j, n)] = b[Slot(i, j, n)]
      BY <1>1, <1>2, <3>3, <3>4
    <3> QED
      BY <1>1, <3>1, <3>2, <3>5, <3>6
  <2>3. \A j \in 1 .. c + 1 : j = 1 \/ j \in 2 .. c + 1
    BY <1>1
  <2> QED
    BY <2>1, <2>2, <2>3
<1> HIDE DEF t
<1>6. t = <<e>> \o s
  BY <1>1, <1>3, ConsIs
<1>7. c + 1 \in 0 .. n
  BY <1>1
<1>8. RingHolds(c + 1, n, i, r, V, U)
  BY <1>1, <1>2, <1>3, <1>4, <1>5, <1>7 DEF RingHolds
<1>9. c > 0 => Slot(i, c + 1, n) = Slot(o, c, n)
  BY <1>1, <1>2
<1>10. RingLine(c + 1, n, i, r) = t
  BY <1>3, <1>5 DEF RingLine
<1> QED
  BY <1>6, <1>8, <1>9, <1>10 DEF s

\* Without its first element the line starts at the next slot.
LEMMA RingTail ==
  ASSUME NEW V, NEW U, NEW c, NEW n, NEW o, NEW b,
         RingHolds(c, n, o, b, V, U), c > 0,
         NEW k, k = c - 1, NEW q, q = Slot(o, 2, n)
  PROVE  /\ RingHolds(k, n, q, b, V, U)
         /\ RingLine(c, n, o, b) # <<>>
         /\ RingLine(c, n, o, b)[1] = b[o]
         /\ RingLine(k, n, q, b) = Tail(RingLine(c, n, o, b))
         /\ Slot(q, c, n) = Slot(o, c + 1, n)
<1> DEFINE s == RingLine(c, n, o, b)
           t == [j \in 1 .. c - 1 |-> s[j + 1]]
<1>1. /\ n \in Nat \ {0} /\ c \in 1 .. n /\ o \in 0 .. n - 1
      /\ V \subseteq U
      /\ b \in [0 .. n - 1 -> U]
      /\ s \in [1 .. c -> V]
      /\ \A j \in 1 .. c : s[j] = b[Slot(o, j, n)]
  BY RingElems
<1> HIDE DEF s
<1>2. q \in 0 .. n - 1 /\ Slot(o, 1, n) = o
  <2>1. 1 \in 1 .. n + 1 /\ 2 \in 1 .. n + 1 /\ o + 1 - 1 = o /\ o < n
    BY <1>1
  <2> QED
    BY <1>1, <2>1, SlotIs
<1>3. \A j \in 1 .. c : Slot(q, j, n) = Slot(o, j + 1, n)
  <2> SUFFICES ASSUME NEW j \in 1 .. c PROVE Slot(q, j, n) = Slot(o, j + 1, n)
    OBVIOUS
  <2>1. /\ 2 \in 1 .. n + 1 /\ j \in 1 .. n + 1
        /\ 2 + j - 1 = j + 1 /\ 2 + j - 1 <= n + 1
    BY <1>1
  <2> QED
    BY <1>1, <2>1, SlotsFrom
<1>4. /\ t \in [1 .. c - 1 -> V]
      /\ \A j \in 1 .. c - 1 : t[j] = s[j + 1]
  BY <1>1
<1> HIDE DEF t
<1>5. t = Tail(s) /\ s # <<>>
  BY <1>1, <1>4, TailIs
<1>6. ASSUME NEW j \in 1 .. c - 1 PROVE b[Slot(q, j, n)] = t[j]
  <2>1. j \in 1 .. c /\ j + 1 \in 1 .. c
    BY <1>1
  <2> QED
    BY <1>1, <1>3, <1>4, <2>1
<1>7. c - 1 \in 0 .. n /\ 1 \in 1 .. c /\ c \in 1 .. c
  BY <1>1
<1>8. RingHolds(c - 1, n, q, b, V, U)
  BY <1>1, <1>2, <1>4, <1>6, <1>7 DEF RingHolds
<1>9. s[1] = b[o] /\ Slot(q, c, n) = Slot(o, c + 1, n)
  BY <1>1, <1>2, <1>3, <1>7
<1>10. RingLine(c - 1, n, q, b) = t
  BY <1>4, <1>6 DEF RingLine
<1> QED
  BY <1>5, <1>8, <1>9, <1>10 DEF s

\* Without its last element the line starts where it did.
LEMMA RingFront ==
  ASSUME NEW V, NEW U, NEW c, NEW n, NEW o, NEW b,
         RingHolds(c, n, o, b, V, U), c > 0
  PROVE  /\ RingHolds(c - 1, n, o, b, V, U)
         /\ RingLine(c, n, o, b) # <<>>
         /\ RingLine(c, n, o, b)[c] = b[Slot(o, c, n)]
         /\ RingLine(c - 1, n, o, b) = SubSeq(RingLine(c, n, o, b), 1, c - 1)
<1> DEFINE s == RingLine(c, n, o, b)
           t == [j \in 1 .. c - 1 |-> s[j]]
<1>1. /\ n \in Nat \ {0} /\ c \in 1 .. n /\ o \in 0 .. n - 1
      /\ V \subseteq U
      /\ b \in [0 .. n - 1 -> U]
      /\ s \in [1 .. c -> V]
      /\ \A j \in 1 .. c : s[j] = b[Slot(o, j, n)]
  BY RingElems
<1> HIDE DEF s
<1>2. /\ t \in [1 .. c - 1 -> V]
      /\ \A j \in 1 .. c - 1 : t[j] = s[j]
  BY <1>1
<1> HIDE DEF t
<1>3. t = SubSeq(s, 1, c - 1) /\ s # <<>>
  BY <1>1, <1>2, FrontIs
<1>4. c - 1 \in 0 .. n /\ c \in 1 .. c /\ \A j \in 1 .. c - 1 : j \in 1 .. c
  BY <1>1
<1>5. RingHolds(c - 1, n, o, b, V, U)
  BY <1>1, <1>2, <1>4 DEF RingHolds
<1>6. RingLine(c - 1, n, o, b) = t
  BY <1>1, <1>2, <1>4 DEF RingLine
<1> QED
  BY <1>1, <1>3, <1>4, <1>5, <1>6 DEF s

\* In a larger ring the line is copied to the slots from the first one on.
LEMMA RingGrow ==
  ASSUME NEW V, NEW U, NEW c, NEW n, NEW o, NEW b, RingHolds(c, n, o, b, V, U),
         NEW g \in U, NEW k \in Nat, k >= n
  PROVE  LET r == [i \in 0 .. k - 1 |->
                     IF i < c THEN RingLine(c, n, o, b)[i + 1] ELSE g] IN
         /\ RingHolds(c, k, 0, r, V, U)
         /\ RingLine(c, k, 0, r) = RingLine(c, n, o, b)
<1> DEFINE s == RingLine(c, n, o, b)
           r == [i \in 0 .. k - 1 |-> IF i < c THEN s[i + 1] ELSE g]
<1>1. /\ n \in Nat \ {0} /\ c \in 0 .. n /\ V \subseteq U
      /\ s \in [1 .. c -> V]
  BY RingElems
<1> HIDE DEF s
<1>2. k \in Nat \ {0} /\ c \in 0 .. k /\ 0 \in 0 .. k - 1
  BY <1>1
<1>3. r \in [0 .. k - 1 -> U]
  BY <1>1, <1>2
<1>4. ASSUME NEW j \in 1 .. c PROVE r[Slot(0, j, k)] = s[j]
  <2>1. j \in 1 .. k + 1 /\ j - 1 \in 0 .. k - 1 /\ 0 + j - 1 = j - 1
    BY <1>2
  <2>2. Slot(0, j, k) = j - 1
    BY <1>2, <2>1, SlotIs
  <2> QED
    BY <1>1, <2>1, <2>2
<1> HIDE DEF r
<1>5. RingHolds(c, k, 0, r, V, U)
  BY <1>1, <1>2, <1>3, <1>4 DEF RingHolds
<1>6. RingLine(c, k, 0, r) = s
  BY <1>1, <1>4 DEF RingLine
<1> QED
  BY <1>5, <1>6 DEF r, s

\* A ring with no elements, wherever its line would start.
LEMMA RingEmpty ==
  ASSUME NEW V, NEW U, NEW n \in Nat \ {0}, NEW o \in 0 .. n - 1,
         V \subseteq U, NEW b \in [0 .. n - 1 -> U]
  PROVE  RingHolds(0, n, o, b, V, U) /\ RingLine(0, n, o, b) = <<>>
BY DEF RingHolds, RingLine

-----------------------------------------------------------------------------
(* Sequences and numbers.                                                  *)

\* Two sequences with the same elements.
LEMMA SameElems ==
  ASSUME NEW S, NEW s \in Seq(S), NEW t \in Seq(S), Len(s) = Len(t),
         \A j \in 1 .. Len(s) : s[j] = t[j]
  PROVE  s = t
OBVIOUS

\* The elements of two sequences, one behind the other.
LEMMA ConcatElems ==
  ASSUME NEW S, NEW s \in Seq(S), NEW t \in Seq(S)
  PROVE  /\ s \o t \in Seq(S)
         /\ Len(s \o t) = Len(s) + Len(t)
         /\ \A j \in 1 .. Len(s) : (s \o t)[j] = s[j]
         /\ \A j \in 1 .. Len(t) : (s \o t)[Len(s) + j] = t[j]
OBVIOUS

\* The elements of a part of a sequence.
LEMMA SubElems ==
  ASSUME NEW S, NEW s \in Seq(S), NEW i \in Nat \ {0}, NEW k \in Nat,
         i <= k + 1, k <= Len(s)
  PROVE  /\ SubSeq(s, i, k) \in Seq(S)
         /\ Len(SubSeq(s, i, k)) = k - i + 1
         /\ \A j \in 1 .. k - i + 1 : SubSeq(s, i, k)[j] = s[i + j - 1]
OBVIOUS

\* A sequence of one element.
LEMMA SingleElem ==
  ASSUME NEW S, NEW e \in S
  PROVE  <<e>> \in Seq(S) /\ Len(<<e>>) = 1 /\ <<e>>[1] = e
OBVIOUS

\* Every set of natural numbers has a least element.
LEMMA NatLeast ==
  ASSUME NEW T \in SUBSET Nat, T # {}
  PROVE  \E n \in T : \A m \in T : n <= m
<1>1. PICK m \in T : TRUE
  OBVIOUS
<1> DEFINE S == 0..m
           F == {0..k : k \in {l \in T : l <= m}}
<1>2. IsWellFoundedOn(StrictSubsetOrdering(S), SUBSET S)
  <2>1. IsFiniteSet(S)
    BY FS_Interval
  <2>2. FiniteSubsetsOf(S) = SUBSET S
    BY <2>1, FS_FiniteSubsetsOfFinite
  <2>3. IsWellFoundedOn(StrictSubsetOrdering(S), FiniteSubsetsOf(S))
    BY FS_StrictSubsetOrderingWellFounded
  <2> QED
    BY <2>2, <2>3
<1>3. F \subseteq SUBSET S /\ F # {}
  OBVIOUS
<1>4. PICK x \in F : \A y \in F : ~(<<y, x>> \in StrictSubsetOrdering(S))
  BY <1>2, <1>3, WFMin
<1>5. PICK n \in T : n <= m /\ x = 0..n
  BY <1>4
<1>6. ASSUME NEW k \in T, k < n PROVE FALSE
  <2>1. 0..k \in F /\ 0..k \in SUBSET S /\ x \in SUBSET S
    BY <1>3, <1>5, <1>6
  <2>2. 0..k \subseteq x /\ n \in x /\ n \notin 0..k
    BY <1>5, <1>6
  <2>3. <<0..k, x>> \in StrictSubsetOrdering(S)
    BY <2>1, <2>2 DEF StrictSubsetOrdering
  <2> QED
    BY <1>4, <2>1, <2>3
<1> QED
  BY <1>5, <1>6

\* Induction on a set of numbers.
LEMMA NatInduct ==
  ASSUME NEW T \in SUBSET Nat, 0 \in T, \A n \in T : n + 1 \in T
  PROVE  T = Nat
<1>1. SUFFICES ASSUME Nat \ T # {} PROVE FALSE
  OBVIOUS
<1>2. PICK n \in Nat \ T : \A m \in Nat \ T : n <= m
  BY <1>1, NatLeast
<1>3. n - 1 \in Nat /\ n - 1 \notin Nat \ T /\ n = (n - 1) + 1
  BY <1>2
<1> QED
  BY <1>2, <1>3

-----------------------------------------------------------------------------
(* Chains.                                                                 *)

\* Walking a list gives its nodes, in order.
LEMMA ChainIs ==
  ASSUME NEW first, NEW link, NEW nodes, NEW end, NEW s,
         IsChain(s, first, link, nodes, end)
  PROVE  Chain(first, link, nodes, end) = s
<1> DEFINE n == Len(s)
           V == Seq(nodes)
           D == nodes \cup {end}
           At(p) == CHOOSE i \in 1..n : s[i] = p
           g == [p \in D |-> IF p = end THEN <<>> ELSE SubSeq(s, At(p), n)]
           E(f) == [p \in D |-> IF p = end THEN <<>> ELSE <<p>> \o f[link[p]]]
           h == CHOOSE f : f = E(f)
<1>1. /\ s \in Seq(nodes) /\ end \notin nodes
      /\ nodes = {s[i] : i \in 1..n}
      /\ \A i, j \in 1..n : s[i] = s[j] => i = j
      /\ first = IF s = <<>> THEN end ELSE s[1]
      /\ \A i \in 1..n : link[s[i]] = IF i = n THEN end ELSE s[i + 1]
      /\ n \in Nat
  BY DEF IsChain
<1>2. \A i \in 1..n : s[i] \in nodes /\ At(s[i]) = i
  <2>1. ASSUME NEW i \in 1..n PROVE At(s[i]) \in 1..n /\ s[At(s[i])] = s[i]
    OBVIOUS
  <2> QED
    BY <1>1, <2>1
<1> HIDE DEF At
\* A suffix is its first element and the next suffix.
<1>3. ASSUME NEW i \in 1..n
      PROVE  SubSeq(s, i, n) = <<s[i]>> \o (IF i = n THEN <<>> ELSE SubSeq(s, i + 1, n))
  <2> DEFINE t == IF i = n THEN <<>> ELSE SubSeq(s, i + 1, n)
             u == <<s[i]>> \o t
             v == SubSeq(s, i, n)
  <2>1. i \in Nat \ {0} /\ i <= n /\ n \in Nat /\ i <= n + 1 /\ n - i + 1 = 1 + (n - i)
    BY <1>1
  <2>2. /\ t \in Seq(nodes) /\ Len(t) = n - i
        /\ \A j \in 1..n - i : t[j] = s[i + j]
    <3>1. CASE i = n
      BY <2>1, <3>1
    <3>2. CASE i # n
      <4> DEFINE k == i + 1
      <4>1. /\ k \in Nat \ {0} /\ k <= n + 1 /\ n - k + 1 = n - i
            /\ s \in Seq(nodes) /\ n \in Nat /\ n <= Len(s)
            /\ \A j \in 1 .. n - i : k + j - 1 = i + j
        BY <1>1, <2>1, <3>2
      <4>2. t = SubSeq(s, k, n)
        BY <3>2
      <4> HIDE DEF t, k, n
      <4>3. /\ t \in Seq(nodes) /\ Len(t) = n - k + 1
            /\ \A j \in 1 .. n - k + 1 : t[j] = s[k + j - 1]
        BY <4>1, <4>2, SubElems
      <4> QED
        BY <4>1, <4>3
    <3> QED
      BY <3>1, <3>2
  <2>3. /\ v \in Seq(nodes) /\ Len(v) = n - i + 1
        /\ \A j \in 1 .. n - i + 1 : v[j] = s[i + j - 1]
    BY SMTT(30), <1>1, <2>1, SubElems
  <2>4. <<s[i]>> \in Seq(nodes) /\ Len(<<s[i]>>) = 1 /\ <<s[i]>>[1] = s[i]
    BY <1>2, SingleElem
  <2> HIDE DEF t, v
  <2>5. /\ u \in Seq(nodes) /\ Len(u) = 1 + Len(t)
        /\ \A j \in 1 .. Len(<<s[i]>>) : u[j] = <<s[i]>>[j]
        /\ \A j \in 1 .. Len(t) : u[Len(<<s[i]>>) + j] = t[j]
    <3> DEFINE w == <<s[i]>>
    <3>1. w \in Seq(nodes) /\ t \in Seq(nodes)
      BY <2>2, <2>4
    <3>3. Len(w) = 1
      OBVIOUS
    <3> HIDE DEF w
    <3>2. /\ w \o t \in Seq(nodes) /\ Len(w \o t) = Len(w) + Len(t)
          /\ \A j \in 1 .. Len(w) : (w \o t)[j] = w[j]
          /\ \A j \in 1 .. Len(t) : (w \o t)[Len(w) + j] = t[j]
      BY <3>1, ConcatElems
    <3> QED
      BY <3>2, <3>3 DEF w
  <2> HIDE DEF u
  <2>6. u[1] = s[i] /\ \A j \in 1 .. n - i : u[1 + j] = t[j]
    BY <2>2, <2>4, <2>5
  <2>7. ASSUME NEW j \in 1..Len(v) PROVE v[j] = u[j]
    <3>1. CASE j = 1
      BY <2>1, <2>3, <2>6, <3>1
    <3>2. CASE j # 1
      <4>1. j - 1 \in 1..n - i /\ 1 + (j - 1) = j /\ i + (j - 1) = i + j - 1
        BY <2>1, <2>3, <3>2
      <4>2. u[j] = t[j - 1]
        BY <2>6, <4>1
      <4>3. t[j - 1] = s[i + j - 1]
        BY <2>2, <4>1
      <4>4. v[j] = s[i + j - 1]
        BY <2>1, <2>3
      <4> QED
        BY <4>2, <4>3, <4>4
    <3> QED
      BY <3>1, <3>2
  <2>8. Len(v) = Len(u)
    BY <2>1, <2>2, <2>3, <2>5
  <2> QED
    BY <2>3, <2>5, <2>7, <2>8, SameElems DEF u, v, t
<1>4. g = E(g)
  <2>1. ASSUME NEW p \in D PROVE g[p] = E(g)[p]
    <3>1. CASE p = end
      BY <3>1
    <3>2. CASE p # end
      <4>1. PICK i \in 1..n : p = s[i]
        BY <1>1, <3>2
      <4>2. g[p] = SubSeq(s, i, n)
        BY <1>2, <3>2, <4>1
      <4>3. g[link[p]] = IF i = n THEN <<>> ELSE SubSeq(s, i + 1, n)
        <5>1. CASE i = n
          BY <1>1, <4>1, <5>1
        <5>2. CASE i # n
          <6>1. i + 1 \in 1..n
            BY <1>1, <5>2
          <6>2. link[p] = s[i + 1] /\ s[i + 1] \in nodes /\ s[i + 1] # end /\ At(s[i + 1]) = i + 1
            BY <1>1, <1>2, <4>1, <5>2, <6>1
          <6> QED
            BY <5>2, <6>2
        <5> QED
          BY <5>1, <5>2
      <4> QED
        BY <1>3, <3>2, <4>1, <4>2, <4>3
    <3> QED
      BY <3>1, <3>2
  <2> QED
    BY <2>1
<1>5. h = E(h)
  <2> HIDE DEF g, E
  <2> QED
    BY <1>4
<1>6. ASSUME NEW k \in Nat, k < n PROVE h[s[n - k]] = SubSeq(s, n - k, n)
  <2> DEFINE T == {l \in Nat : l < n => h[s[n - l]] = SubSeq(s, n - l, n)}
  <2>1. ASSUME NEW i \in 1..n
        PROVE  h[s[i]] = <<s[i]>> \o h[link[s[i]]]
    <3>1. s[i] \in D /\ s[i] # end
      BY <1>1, <1>2
    <3> HIDE DEF h
    <3> QED
      BY <1>5, <3>1
  <2>2. h[end] = <<>>
    <3> HIDE DEF h
    <3> QED
      BY <1>5
  <2> HIDE DEF h
  <2>3. 0 \in T
    <3>1. ASSUME 0 < n PROVE h[s[n]] = SubSeq(s, n, n)
      <4>1. n \in 1..n
        BY <1>1, <3>1
      <4> HIDE DEF n
      <4> QED
        BY <1>1, <1>3, <2>1, <2>2, <4>1
    <3>2. n - 0 = n
      BY <1>1
    <3> QED
      BY <3>1, <3>2
  <2>4. ASSUME NEW l \in T PROVE l + 1 \in T
    <3>1. ASSUME l + 1 < n PROVE h[s[n - (l + 1)]] = SubSeq(s, n - (l + 1), n)
      <4> DEFINE i == n - (l + 1)
      <4>1. i \in 1..n /\ i # n /\ i + 1 = n - l /\ l < n
        BY SMTT(30), <1>1, <3>1
      <4>2. h[s[i + 1]] = SubSeq(s, i + 1, n)
        BY <2>4, <4>1
      <4> HIDE DEF i, n
      <4>3. h[s[i]] = <<s[i]>> \o SubSeq(s, i + 1, n)
        <5>1. link[s[i]] = s[i + 1]
          BY <1>1, <4>1
        <5> QED
          BY <2>1, <4>1, <4>2, <5>1
      <4>4. h[s[i]] = SubSeq(s, i, n)
        BY <1>3, <4>1, <4>3
      <4> QED
        BY <4>4 DEF i
    <3> QED
      BY <3>1
  <2>5. T = Nat
    <3> HIDE DEF T
    <3>1. T \in SUBSET Nat
      BY DEF T
    <3> QED
      BY <2>3, <2>4, <3>1, NatInduct
  <2> QED
    BY <1>6, <2>5
<1>7. Chain(first, link, nodes, end) = h[first]
  BY DEF Chain
<1>8. CASE s = <<>>
  <2> HIDE DEF h
  <2> QED
    BY <1>1, <1>5, <1>7, <1>8
<1>9. CASE s # <<>>
  <2>1. n - 1 \in Nat /\ n - 1 < n /\ n - (n - 1) = 1
    BY <1>1, <1>9
  <2>2. SubSeq(s, 1, n) = s
    BY <1>1
  <2> HIDE DEF h, n
  <2>3. h[s[1]] = SubSeq(s, 1, n)
    BY <1>6, <2>1
  <2> QED
    BY <1>1, <1>7, <1>9, <2>2, <2>3
<1> QED
  BY <1>8, <1>9

\* A node that is linked before the first one.
LEMMA ChainCons ==
  ASSUME NEW s, NEW first, NEW link, NEW nodes, NEW end,
         IsChain(s, first, link, nodes, end),
         NEW p, p \notin nodes, p # end, NEW new, new[p] = first,
         \A i \in 1 .. Len(s) : new[s[i]] = link[s[i]]
  PROVE  IsChain(<<p>> \o s, p, new, nodes \cup {p}, end)
<1> DEFINE t == <<p>> \o s
           n == Len(s)
           M == nodes \cup {p}
<1>1. /\ s \in Seq(nodes) /\ end \notin nodes /\ n \in Nat
      /\ nodes = {s[i] : i \in 1..n}
      /\ \A i, j \in 1..n : s[i] = s[j] => i = j
      /\ first = IF s = <<>> THEN end ELSE s[1]
      /\ \A i \in 1..n : link[s[i]] = IF i = n THEN end ELSE s[i + 1]
      /\ s = <<>> <=> n = 0
  BY DEF IsChain
<1>2. t \in Seq(M) /\ Len(t) = n + 1
      /\ t[1] = p /\ \A i \in 1 .. n : t[1 + i] = s[i]
  <2>1. <<p>> \in Seq(M) /\ Len(<<p>>) = 1 /\ <<p>>[1] = p
    BY SingleElem
  <2>2. s \in Seq(M)
    BY <1>1
  <2>3. /\ t \in Seq(M) /\ Len(t) = Len(<<p>>) + n
        /\ \A j \in 1 .. Len(<<p>>) : t[j] = <<p>>[j]
        /\ \A j \in 1 .. n : t[Len(<<p>>) + j] = s[j]
    BY <2>1, <2>2, ConcatElems
  <2> HIDE DEF t
  <2> QED
    BY <1>1, <2>1, <2>3
<1> HIDE DEF t, n, M
<1>3. \A i \in 2 .. n + 1 : i - 1 \in 1 .. n /\ t[i] = s[i - 1] /\ t[i] \in nodes
  <2>1. \A i \in 2 .. n + 1 : i - 1 \in 1 .. n /\ 1 + (i - 1) = i
    BY <1>1
  <2>2. \A i \in 1 .. n : s[i] \in nodes
    BY <1>1
  <2> QED
    BY <1>2, <2>1, <2>2
<1>4. M = {t[i] : i \in 1 .. n + 1}
  <2>1. ASSUME NEW x \in M PROVE \E i \in 1 .. n + 1 : x = t[i]
    <3>1. CASE x = p
      BY <1>1, <1>2, <3>1
    <3>2. CASE x \in nodes
      <4>1. PICK i \in 1 .. n : x = s[i]
        BY <1>1, <3>2
      <4>2. 1 + i \in 1 .. n + 1
        BY <1>1
      <4> QED
        BY <1>2, <4>1, <4>2
    <3> QED
      BY <3>1, <3>2 DEF M
  <2>2. ASSUME NEW i \in 1 .. n + 1 PROVE t[i] \in M
    <3>1. CASE i = 1
      BY <1>2, <3>1 DEF M
    <3>2. CASE i \in 2 .. n + 1
      BY <1>3, <3>2 DEF M
    <3> QED
      BY <1>1, <3>1, <3>2
  <2> QED
    BY <2>1, <2>2
<1>5. ASSUME NEW i \in 1 .. n + 1, NEW j \in 1 .. n + 1, t[i] = t[j]
      PROVE  i = j
  <2>1. CASE i = 1 /\ j = 1
    BY <2>1
  <2>2. CASE i = 1 /\ j \in 2 .. n + 1
    BY <1>2, <1>3, <1>5, <2>2
  <2>3. CASE i \in 2 .. n + 1 /\ j = 1
    BY <1>2, <1>3, <1>5, <2>3
  <2>4. CASE i \in 2 .. n + 1 /\ j \in 2 .. n + 1
    <3>1. i - 1 = j - 1
      BY <1>1, <1>3, <1>5, <2>4
    <3> QED
      BY <3>1
  <2> QED
    BY <1>1, <2>1, <2>2, <2>3, <2>4
<1>6. ASSUME NEW i \in 1 .. n + 1
      PROVE  new[t[i]] = IF i = n + 1 THEN end ELSE t[i + 1]
  <2>1. CASE i = 1
    <3>1. CASE n = 0
      BY <1>1, <1>2, <2>1, <3>1
    <3>2. CASE n # 0
      <4>1. 1 \in 1 .. n /\ 1 + 1 = 2 /\ n + 1 # 1
        BY <1>1, <3>2
      <4>2. t[2] = s[1]
        BY <1>2, <4>1
      <4> QED
        BY <1>1, <1>2, <2>1, <3>2, <4>1, <4>2
    <3> QED
      BY <3>1, <3>2
  <2>2. CASE i \in 2 .. n + 1
    <3>1. /\ i - 1 \in 1 .. n /\ t[i] = s[i - 1] /\ (i - 1 = n <=> i = n + 1)
          /\ (i - 1) + 1 = i
      BY <1>1, <1>3, <2>2
    <3>2. new[t[i]] = IF i - 1 = n THEN end ELSE s[i]
      <4>1. new[s[i - 1]] = link[s[i - 1]]
        BY <3>1 DEF n
      <4>2. link[s[i - 1]] = IF i - 1 = n THEN end ELSE s[(i - 1) + 1]
        BY <1>1, <3>1
      <4> QED
        BY <3>1, <4>1, <4>2
    <3>3. i # n + 1 => t[i + 1] = s[i]
      <4>1. i # n + 1 => i \in 1 .. n /\ 1 + i = i + 1
        BY <1>1, <2>2
      <4> QED
        BY <1>2, <4>1
    <3> QED
      BY <3>1, <3>2, <3>3
  <2> QED
    BY <1>1, <2>1, <2>2
<1>7. end \notin M /\ t # <<>>
  BY <1>1, <1>2 DEF M
<1> QED
  BY <1>2, <1>4, <1>5, <1>6, <1>7 DEF IsChain, M, t

\* A node that is linked behind the last one.
LEMMA ChainAppend ==
  ASSUME NEW s, NEW first, NEW link, NEW nodes, NEW end,
         IsChain(s, first, link, nodes, end),
         NEW p, p \notin nodes, p # end, NEW new, new[p] = end,
         \A i \in 1 .. Len(s) : new[s[i]] = IF i = Len(s) THEN p ELSE link[s[i]],
         NEW head, s = <<>> => head = p, s # <<>> => head = first
  PROVE  IsChain(Append(s, p), head, new, nodes \cup {p}, end)
<1> DEFINE t == Append(s, p)
           n == Len(s)
           M == nodes \cup {p}
<1>1. /\ s \in Seq(nodes) /\ end \notin nodes /\ n \in Nat
      /\ nodes = {s[i] : i \in 1..n}
      /\ \A i, j \in 1..n : s[i] = s[j] => i = j
      /\ first = IF s = <<>> THEN end ELSE s[1]
      /\ \A i \in 1..n : link[s[i]] = IF i = n THEN end ELSE s[i + 1]
      /\ s = <<>> <=> n = 0
  BY DEF IsChain
<1>2. t \in Seq(M) /\ Len(t) = n + 1 /\ t[n + 1] = p
      /\ \A i \in 1 .. n : t[i] = s[i] /\ t[i] \in nodes
  <2>1. s \in Seq(M) /\ \A i \in 1 .. n : s[i] \in nodes
    BY <1>1
  <2> QED
    BY SMTT(30), <1>1, <2>1
<1> HIDE DEF t, n, M
<1>3. M = {t[i] : i \in 1 .. n + 1}
  <2>1. ASSUME NEW x \in M PROVE \E i \in 1 .. n + 1 : x = t[i]
    <3>1. CASE x = p
      BY <1>1, <1>2, <3>1
    <3>2. CASE x \in nodes
      <4>1. PICK i \in 1 .. n : x = s[i]
        BY <1>1, <3>2
      <4> QED
        BY <1>1, <1>2, <4>1
    <3> QED
      BY <3>1, <3>2 DEF M
  <2>2. ASSUME NEW i \in 1 .. n + 1 PROVE t[i] \in M
    <3>1. i \in 1 .. n \/ i = n + 1
      BY <1>1
    <3> QED
      BY <1>2, <3>1 DEF M
  <2> QED
    BY <2>1, <2>2
<1>4. ASSUME NEW i \in 1 .. n + 1, NEW j \in 1 .. n + 1, t[i] = t[j]
      PROVE  i = j
  <2>1. i \in 1 .. n \/ i = n + 1
    BY <1>1
  <2>2. j \in 1 .. n \/ j = n + 1
    BY <1>1
  <2>3. CASE i \in 1 .. n /\ j \in 1 .. n
    <3>1. s[i] = s[j]
      BY <1>2, <1>4, <2>3
    <3> QED
      BY <1>1, <2>3, <3>1
  <2> QED
    BY <1>2, <1>4, <2>1, <2>2, <2>3
<1>5. ASSUME NEW i \in 1 .. n + 1
      PROVE  new[t[i]] = IF i = n + 1 THEN end ELSE t[i + 1]
  <2>1. CASE i = n + 1
    BY <1>2, <2>1
  <2>2. CASE i \in 1 .. n
    <3>1. i # n + 1 /\ t[i] = s[i]
      BY <1>1, <1>2, <2>2
    <3>2. new[t[i]] = IF i = n THEN p ELSE s[i + 1]
      BY <1>1, <2>2, <3>1 DEF n
    <3>3. i # n => i + 1 \in 1 .. n
      BY <1>1, <2>2
    <3> QED
      BY <1>2, <3>1, <3>2, <3>3
  <2> QED
    BY <1>1, <2>1, <2>2
<1>6. end \notin M /\ t # <<>>
  BY <1>1, <1>2 DEF M
<1>7. head = t[1]
  <2>1. CASE n = 0
    BY <1>1, <1>2, <2>1
  <2>2. CASE n # 0
    <3>1. 1 \in 1 .. n
      BY <1>1, <2>2
    <3> QED
      BY <1>1, <1>2, <2>2, <3>1
  <2> QED
    BY <2>1, <2>2
<1> QED
  BY <1>2, <1>3, <1>4, <1>5, <1>6, <1>7 DEF IsChain, M, t

\* The first node of a list, the only one when it leads to the end.
LEMMA ChainHead ==
  ASSUME NEW s, NEW first, NEW link, NEW nodes, NEW end,
         IsChain(s, first, link, nodes, end), s # <<>>
  PROVE  /\ first \in nodes /\ first = s[1] /\ first # end
         /\ 1 \in 1 .. Len(s) /\ Len(s) \in 1 .. Len(s)
         /\ link[first] = end <=> Len(s) = 1
<1>1. /\ s \in Seq(nodes) /\ end \notin nodes /\ Len(s) \in Nat \ {0}
      /\ first = s[1] /\ \A i \in 1 .. Len(s) : s[i] \in nodes
      /\ \A i \in 1 .. Len(s) : link[s[i]] = IF i = Len(s) THEN end ELSE s[i + 1]
  BY DEF IsChain
<1>2. 1 \in 1 .. Len(s) /\ Len(s) \in 1 .. Len(s)
  BY <1>1
<1>3. Len(s) # 1 => 1 + 1 \in 1 .. Len(s)
  <2> DEFINE n == Len(s)
  <2>1. n \in Nat \ {0}
    BY <1>1
  <2> HIDE DEF n
  <2>2. n # 1 => 1 + 1 \in 1 .. n
    BY <2>1
  <2> QED
    BY <2>2 DEF n
<1> QED
  BY <1>1, <1>2, <1>3

\* The first node is unlinked.
LEMMA ChainTail ==
  ASSUME NEW s, NEW first, NEW link, NEW nodes, NEW end,
         IsChain(s, first, link, nodes, end), s # <<>>,
         NEW new, \A i \in 2 .. Len(s) : new[s[i]] = link[s[i]]
  PROVE  IsChain(Tail(s), link[first], new, nodes \ {first}, end)
<1> DEFINE t == Tail(s)
           n == Len(s)
           M == nodes \ {first}
<1>1. /\ s \in Seq(nodes) /\ end \notin nodes /\ n \in Nat \ {0}
      /\ nodes = {s[i] : i \in 1..n}
      /\ \A i, j \in 1..n : s[i] = s[j] => i = j
      /\ first = s[1]
      /\ \A i \in 1..n : link[s[i]] = IF i = n THEN end ELSE s[i + 1]
  BY DEF IsChain
<1>2. t \in Seq(nodes) /\ Len(t) = n - 1 /\ \A i \in 1 .. n - 1 : t[i] = s[i + 1]
  BY <1>1
<1>0. n \in Nat \ {0}
  BY <1>1
<1> HIDE DEF t, n
<1>3. 1 \in 1 .. n /\ first \in nodes /\ first # end
  BY <1>1
<1>4. \A i \in 1 .. n : s[i] \in nodes
  BY <1>1
<1>5. \A i \in 1 .. n - 1 : i + 1 \in 1 .. n /\ i + 1 # 1 /\ t[i] \in M
  <2>1. \A i \in 1 .. n - 1 : i + 1 \in 1 .. n /\ i + 1 # 1
    BY <1>1
  <2>2. ASSUME NEW i \in 1 .. n - 1 PROVE t[i] \in M
    <3>1. s[i + 1] \in nodes /\ t[i] = s[i + 1]
      BY <1>2, <1>4, <2>1
    <3>2. s[i + 1] # s[1]
      BY <1>1, <1>3, <2>1
    <3> QED
      BY <1>1, <3>1, <3>2 DEF M
  <2> QED
    BY <2>1, <2>2
<1>6. t \in Seq(M)
  <2>1. \A i \in 1 .. Len(t) : t[i] \in M
    BY <1>1, <1>2, <1>5
  <2> HIDE DEF M
  <2> QED
    BY <1>2, <2>1
<1>7. M = {t[i] : i \in 1 .. n - 1}
  <2>1. ASSUME NEW x \in M PROVE \E i \in 1 .. n - 1 : x = t[i]
    <3>1. PICK i \in 1 .. n : x = s[i]
      BY <1>1 DEF M
    <3>2. i # 1
      BY <1>1, <3>1 DEF M
    <3>3. i - 1 \in 1 .. n - 1 /\ (i - 1) + 1 = i
      BY <1>1, <3>2
    <3> QED
      BY <1>2, <3>1, <3>3
  <2> QED
    BY <1>5, <2>1
<1>8. ASSUME NEW i \in 1 .. n - 1, NEW j \in 1 .. n - 1, t[i] = t[j]
      PROVE  i = j
  <2>1. s[i + 1] = s[j + 1] /\ i + 1 \in 1 .. n /\ j + 1 \in 1 .. n
    BY <1>2, <1>5, <1>8
  <2>2. i + 1 = j + 1
    BY <1>1, <2>1
  <2> QED
    BY <2>2
<1>9. ASSUME NEW i \in 1 .. n - 1
      PROVE  new[t[i]] = IF i = n - 1 THEN end ELSE t[i + 1]
  <2>1. i + 1 \in 2 .. n /\ i + 1 \in 1 .. n
    BY <1>1
  <2>2. new[t[i]] = link[s[i + 1]]
    BY <1>2, <2>1 DEF n
  <2>3. link[s[i + 1]] = IF i + 1 = n THEN end ELSE s[(i + 1) + 1]
    BY <1>1, <2>1
  <2>4. i + 1 = n <=> i = n - 1
    BY <1>0
  <2>5. i # n - 1 => i + 1 \in 1 .. n - 1
    BY <1>1
  <2> QED
    BY <1>2, <2>2, <2>3, <2>4, <2>5
<1>10. link[first] = IF n = 1 THEN end ELSE s[2]
  BY <1>1, <1>3
<1>11. n # 1 => 1 \in 1 .. n - 1 /\ 2 \in 1 .. n /\ t # <<>> /\ t[1] = s[2] /\ s[2] # end
  <2>1. n # 1 => 1 \in 1 .. n - 1 /\ 2 \in 1 .. n /\ 1 + 1 = 2
    BY <1>1
  <2> QED
    BY <1>1, <1>2, <1>4, <2>1
<1>12. n = 1 => t = <<>>
  BY <1>2
<1>13. link[first] = IF t = <<>> THEN end ELSE t[1]
  BY <1>10, <1>11, <1>12
<1>15. end \notin M
  BY <1>1 DEF M
<1> HIDE DEF M
<1>16. IsChain(t, link[first], new, M, end)
  BY <1>2, <1>6, <1>7, <1>8, <1>9, <1>13, <1>15 DEF IsChain
<1> QED
  BY <1>16 DEF t, M

\* The last node is unlinked.
LEMMA ChainFront ==
  ASSUME NEW s, NEW first, NEW link, NEW nodes, NEW end,
         IsChain(s, first, link, nodes, end), s # <<>>,
         NEW p, p = s[Len(s)], NEW new,
         \A i \in 1 .. Len(s) - 1 :
           new[s[i]] = IF i = Len(s) - 1 THEN end ELSE link[s[i]],
         NEW head, Len(s) = 1 => head = end, Len(s) # 1 => head = first
  PROVE  IsChain(SubSeq(s, 1, Len(s) - 1), head, new, nodes \ {p}, end)
<1> DEFINE n == Len(s)
           t == SubSeq(s, 1, n - 1)
           M == nodes \ {p}
<1>1. /\ s \in Seq(nodes) /\ end \notin nodes /\ n \in Nat \ {0}
      /\ nodes = {s[i] : i \in 1..n}
      /\ \A i, j \in 1..n : s[i] = s[j] => i = j
      /\ first = s[1] /\ p = s[n]
      /\ \A i \in 1..n : link[s[i]] = IF i = n THEN end ELSE s[i + 1]
  BY DEF IsChain
<1>2. t \in Seq(nodes) /\ Len(t) = n - 1 /\ \A i \in 1 .. n - 1 : t[i] = s[i]
  <2> DEFINE k == n - 1
  <2>1. /\ s \in Seq(nodes) /\ 1 \in Nat \ {0} /\ k \in Nat
        /\ 1 <= k + 1 /\ k <= Len(s) /\ k - 1 + 1 = k
        /\ \A j \in 1 .. k : 1 + j - 1 = j
    BY <1>1
  <2> HIDE DEF k
  <2>2. /\ SubSeq(s, 1, k) \in Seq(nodes)
        /\ Len(SubSeq(s, 1, k)) = k - 1 + 1
        /\ \A j \in 1 .. k - 1 + 1 : SubSeq(s, 1, k)[j] = s[1 + j - 1]
    BY <2>1, SubElems
  <2> QED
    BY <2>1, <2>2 DEF k
<1>3. ASSUME NEW i \in 1 .. n - 1
      PROVE  new[s[i]] = IF i = n - 1 THEN end ELSE link[s[i]]
  OBVIOUS
<1>0. n \in Nat \ {0}
  BY <1>1
<1> HIDE DEF t, n
<1>4. \A i \in 1 .. n - 1 : i \in 1 .. n /\ i # n
  BY <1>1
<1>5. n \in 1 .. n /\ \A i \in 1 .. n : s[i] \in nodes
  BY <1>1
<1>6. ASSUME NEW i \in 1 .. n - 1 PROVE t[i] \in M
  <2>1. i \in 1 .. n /\ i # n /\ t[i] = s[i] /\ s[i] \in nodes
    BY <1>2, <1>4, <1>5
  <2>2. s[i] # s[n]
    BY <1>1, <1>5, <2>1
  <2> QED
    BY <1>1, <2>1, <2>2 DEF M
<1>7. t \in Seq(M)
  <2> HIDE DEF M
  <2> QED
    BY <1>2, <1>6
<1>8. M = {t[i] : i \in 1 .. n - 1}
  <2>1. ASSUME NEW x \in M PROVE \E i \in 1 .. n - 1 : x = t[i]
    <3>1. PICK i \in 1 .. n : x = s[i]
      BY <1>1 DEF M
    <3>2. i # n
      BY <1>1, <3>1 DEF M
    <3>3. i \in 1 .. n - 1
      BY <1>1, <3>2
    <3> QED
      BY <1>2, <3>1, <3>3
  <2> QED
    BY <1>6, <2>1
<1>9. ASSUME NEW i \in 1 .. n - 1, NEW j \in 1 .. n - 1, t[i] = t[j]
      PROVE  i = j
  <2>1. s[i] = s[j] /\ i \in 1 .. n /\ j \in 1 .. n
    BY <1>2, <1>4, <1>9
  <2> QED
    BY <1>1, <2>1
<1>10. ASSUME NEW i \in 1 .. n - 1
       PROVE  new[t[i]] = IF i = n - 1 THEN end ELSE t[i + 1]
  <2>1. new[t[i]] = IF i = n - 1 THEN end ELSE link[s[i]]
    BY <1>2, <1>3
  <2>2. link[s[i]] = s[i + 1]
    BY <1>1, <1>4
  <2>3. i # n - 1 => i + 1 \in 1 .. n - 1
    BY <1>1
  <2> QED
    BY <1>2, <2>1, <2>2, <2>3
<1>11. head = IF t = <<>> THEN end ELSE t[1]
  <2>1. CASE n = 1
    <3>1. t = <<>>
      BY <1>2, <2>1
    <3> QED
      BY <2>1, <3>1 DEF n
  <2>2. CASE n # 1
    <3>1. 1 \in 1 .. n - 1
      BY <1>1, <2>2
    <3>2. t # <<>> /\ t[1] = s[1]
      BY <1>1, <1>2, <2>2, <3>1
    <3> QED
      BY <1>1, <2>2, <3>2 DEF n
  <2> QED
    BY <2>1, <2>2
<1>12. end \notin M
  BY <1>1 DEF M
<1> HIDE DEF M
<1>13. IsChain(t, head, new, M, end)
  BY <1>2, <1>7, <1>8, <1>9, <1>10, <1>11, <1>12 DEF IsChain
<1> QED
  BY <1>13 DEF t, M, n

\* No node: an empty list.
LEMMA ChainNone ==
  ASSUME NEW link, NEW end
  PROVE  IsChain(<<>>, end, link, {}, end)
BY DEF IsChain

\* A sequence without its last element.
LEMMA FrontElems ==
  ASSUME NEW S, NEW s \in Seq(S), s # <<>>
  PROVE  LET t == SubSeq(s, 1, Len(s) - 1) IN
         /\ t \in Seq(S) /\ Len(t) = Len(s) - 1
         /\ \A i \in 1 .. Len(s) - 1 : t[i] = s[i]
<1> DEFINE k == Len(s) - 1
<1>1. /\ 1 \in Nat \ {0} /\ k \in Nat
      /\ 1 <= k + 1 /\ k <= Len(s) /\ k - 1 + 1 = k
      /\ \A j \in 1 .. k : 1 + j - 1 = j
  OBVIOUS
<1> HIDE DEF k
<1>2. /\ SubSeq(s, 1, k) \in Seq(S)
      /\ Len(SubSeq(s, 1, k)) = k - 1 + 1
      /\ \A j \in 1 .. k - 1 + 1 : SubSeq(s, 1, k)[j] = s[1 + j - 1]
  BY <1>1, SubElems
<1> QED
  BY <1>1, <1>2 DEF k

\* What the nodes of a list hold, in the order of the list.
Along(s, f) == [i \in 1 .. Len(s) |-> f[s[i]]]

\* What f is along a sequence.
LEMMA AlongElems ==
  ASSUME NEW H, NEW s \in Seq(H), NEW f, NEW V, Along(s, f) \in Seq(V)
  PROVE  /\ Len(s) \in Nat
         /\ Along(s, f) \in [1 .. Len(s) -> V]
         /\ Len(Along(s, f)) = Len(s)
         /\ \A i \in 1 .. Len(s) : Along(s, f)[i] = f[s[i]] /\ f[s[i]] \in V
         /\ Along(s, f) = <<>> <=> s = <<>>
<1> DEFINE u == Along(s, f)
           n == Len(s)
<1>1. n \in Nat /\ (s = <<>> <=> n = 0)
  OBVIOUS
<1>2. u = [i \in 1 .. n |-> f[s[i]]]
  BY DEF Along
<1> HIDE DEF u, n
<1>3. Len(u) = n /\ \A i \in 1 .. n : u[i] = f[s[i]]
  BY <1>1, <1>2
<1>4. u \in Seq(V)
  BY DEF u
<1>5. u \in [1 .. n -> V] /\ (u = <<>> <=> n = 0) /\ \A i \in 1 .. n : u[i] \in V
  BY <1>3, <1>4
<1> QED
  BY <1>1, <1>3, <1>5 DEF u, n

\* f along a sequence that is appended to, when it stays along the old one.
LEMMA AlongAppend ==
  ASSUME NEW H, NEW s \in Seq(H), NEW f, NEW V, Along(s, f) \in Seq(V),
         NEW p, NEW g, g[p] \in V, \A i \in 1 .. Len(s) : g[s[i]] = f[s[i]]
  PROVE  Along(Append(s, p), g) = Append(Along(s, f), g[p])
<1> DEFINE n == Len(s)
           u == Along(s, f)
           t == Along(Append(s, p), g)
           a == Append(s, p)
<1>1. n \in Nat /\ u \in [1 .. n -> V] /\ \A i \in 1 .. n : u[i] = f[s[i]]
  BY AlongElems
<1>2. Len(a) = n + 1 /\ a[n + 1] = p /\ \A i \in 1 .. n : a[i] = s[i]
  OBVIOUS
<1>3. t = [i \in 1 .. n + 1 |-> g[a[i]]]
  BY <1>2 DEF Along
<1>4. \A i \in 1 .. n : g[s[i]] = f[s[i]] /\ f[s[i]] \in V
  BY AlongElems
<1> HIDE DEF a, n, t, u
<1>5. ASSUME NEW i \in 1 .. n + 1
      PROVE  g[a[i]] \in V /\ g[a[i]] = IF i = n + 1 THEN g[p] ELSE u[i]
  <2>1. i = n + 1 \/ i \in 1 .. n
    BY <1>1
  <2> QED
    BY <1>1, <1>2, <1>4, <2>1
<1>6. t \in [1 .. n + 1 -> V] /\ \A i \in 1 .. n + 1 : t[i] = IF i = n + 1 THEN g[p] ELSE u[i]
  BY <1>3, <1>5
<1>7. t = Append(u, g[p])
  BY <1>1, <1>6, AppendIs
<1> QED
  BY <1>7 DEF t, u, a

\* f along a sequence that an element is put before.
LEMMA AlongCons ==
  ASSUME NEW H, NEW s \in Seq(H), NEW f, NEW V, Along(s, f) \in Seq(V),
         NEW p, NEW g, g[p] \in V, \A i \in 1 .. Len(s) : g[s[i]] = f[s[i]]
  PROVE  Along(<<p>> \o s, g) = <<g[p]>> \o Along(s, f)
<1> DEFINE n == Len(s)
           u == Along(s, f)
           a == <<p>> \o s
           t == Along(a, g)
           M == H \cup {p}
<1>1. n \in Nat /\ u \in [1 .. n -> V] /\ \A i \in 1 .. n : u[i] = f[s[i]]
  BY AlongElems
<1>2. Len(a) = n + 1 /\ a[1] = p /\ \A i \in 1 .. n : a[1 + i] = s[i]
  <2>1. <<p>> \in Seq(M) /\ Len(<<p>>) = 1 /\ <<p>>[1] = p
    BY SingleElem
  <2>2. s \in Seq(M)
    OBVIOUS
  <2>3. /\ Len(a) = Len(<<p>>) + n
        /\ \A j \in 1 .. Len(<<p>>) : a[j] = <<p>>[j]
        /\ \A j \in 1 .. n : a[Len(<<p>>) + j] = s[j]
    BY <2>1, <2>2, ConcatElems
  <2> HIDE DEF a
  <2> QED
    BY <1>1, <2>1, <2>3
<1>3. t = [i \in 1 .. n + 1 |-> g[a[i]]]
  BY <1>2 DEF Along
<1>4. \A i \in 1 .. n : g[s[i]] = f[s[i]] /\ f[s[i]] \in V
  BY AlongElems
<1> HIDE DEF a, n, t, u
<1>5. ASSUME NEW i \in 1 .. n + 1
      PROVE  g[a[i]] \in V /\ g[a[i]] = IF i = 1 THEN g[p] ELSE u[i - 1]
  <2>1. CASE i = 1
    BY <1>2, <2>1
  <2>2. CASE i # 1
    <3>1. i - 1 \in 1 .. n /\ 1 + (i - 1) = i
      BY <1>1, <2>2
    <3>2. a[i] = s[i - 1]
      BY <1>2, <3>1
    <3> QED
      BY <1>1, <1>4, <2>2, <3>1, <3>2
  <2> QED
    BY <2>1, <2>2
<1>6. t \in [1 .. n + 1 -> V] /\ \A i \in 1 .. n + 1 : t[i] = IF i = 1 THEN g[p] ELSE u[i - 1]
  BY <1>3, <1>5
<1>7. t = <<g[p]>> \o u
  BY <1>1, <1>6, ConsIs
<1> QED
  BY <1>7 DEF t, u, a

\* f along a sequence without its first element.
LEMMA AlongTail ==
  ASSUME NEW H, NEW s \in Seq(H), s # <<>>, NEW f, NEW V, Along(s, f) \in Seq(V),
         NEW g, \A i \in 2 .. Len(s) : g[s[i]] = f[s[i]]
  PROVE  Along(Tail(s), g) = Tail(Along(s, f))
<1> DEFINE n == Len(s)
           u == Along(s, f)
           a == Tail(s)
           t == Along(a, g)
<1>1. n \in Nat \ {0} /\ u \in [1 .. n -> V] /\ \A i \in 1 .. n : u[i] = f[s[i]]
  <2>1. n \in Nat \ {0}
    OBVIOUS
  <2> QED
    BY <2>1, AlongElems
<1>2. Len(a) = n - 1 /\ \A i \in 1 .. n - 1 : a[i] = s[i + 1]
  OBVIOUS
<1>3. t = [i \in 1 .. n - 1 |-> g[a[i]]]
  BY <1>2 DEF Along
<1>0. \A i \in 1 .. n : f[s[i]] \in V
  BY AlongElems
<1>4. /\ \A i \in 1 .. n : f[s[i]] \in V
      /\ \A i \in 2 .. n : g[s[i]] = f[s[i]]
  BY <1>0
<1> HIDE DEF a, n, t, u
<1>5. ASSUME NEW i \in 1 .. n - 1 PROVE g[a[i]] \in V /\ g[a[i]] = u[i + 1]
  <2>1. i + 1 \in 1 .. n /\ i + 1 \in 2 .. n
    BY <1>1
  <2> QED
    BY <1>1, <1>2, <1>4, <2>1
<1>6. t \in [1 .. n - 1 -> V] /\ \A i \in 1 .. n - 1 : t[i] = u[i + 1]
  BY <1>3, <1>5
<1>7. t = Tail(u)
  BY <1>1, <1>6, TailIs
<1> QED
  BY <1>7 DEF t, u, a

\* f along a sequence without its last element.
LEMMA AlongFront ==
  ASSUME NEW H, NEW s \in Seq(H), s # <<>>, NEW f, NEW V, Along(s, f) \in Seq(V),
         NEW g, \A i \in 1 .. Len(s) - 1 : g[s[i]] = f[s[i]]
  PROVE  Along(SubSeq(s, 1, Len(s) - 1), g) = SubSeq(Along(s, f), 1, Len(s) - 1)
<1> DEFINE n == Len(s)
           u == Along(s, f)
           a == SubSeq(s, 1, n - 1)
           t == Along(a, g)
<1>1. n \in Nat \ {0} /\ u \in [1 .. n -> V] /\ \A i \in 1 .. n : u[i] = f[s[i]]
  <2>1. n \in Nat \ {0}
    OBVIOUS
  <2> QED
    BY <2>1, AlongElems
<1>2. Len(a) = n - 1 /\ \A i \in 1 .. n - 1 : a[i] = s[i]
  BY FrontElems
<1>3. t = [i \in 1 .. n - 1 |-> g[a[i]]]
  BY <1>2 DEF Along
<1>0. \A i \in 1 .. n : f[s[i]] \in V
  BY AlongElems
<1>4. /\ \A i \in 1 .. n : f[s[i]] \in V
      /\ \A i \in 1 .. n - 1 : g[s[i]] = f[s[i]]
  BY <1>0
<1> HIDE DEF a, n, t, u
<1>5. ASSUME NEW i \in 1 .. n - 1 PROVE g[a[i]] \in V /\ g[a[i]] = u[i]
  <2>1. i \in 1 .. n
    BY <1>1
  <2> QED
    BY <1>1, <1>2, <1>4, <2>1
<1>6. t \in [1 .. n - 1 -> V] /\ \A i \in 1 .. n - 1 : t[i] = u[i]
  BY <1>3, <1>5
<1>7. t = SubSeq(u, 1, n - 1)
  BY <1>1, <1>6, FrontIs
<1> QED
  BY <1>7 DEF t, u, a, n

\* A ring with links in both directions: s is its nodes forwards, t backwards.
Doubly(s, t, fore, back, nodes, end) ==
  /\ IsChain(s, fore[end], fore, nodes, end)
  /\ IsChain(t, back[end], back, nodes, end)
  /\ Len(t) = Len(s)
  /\ \A i \in 1 .. Len(s) : t[i] = s[Len(s) + 1 - i]

\* The nodes of a chain.
LEMMA ChainElems ==
  ASSUME NEW s, NEW first, NEW link, NEW nodes, NEW end,
         IsChain(s, first, link, nodes, end)
  PROVE  /\ s \in Seq(nodes) /\ Len(s) \in Nat /\ end \notin nodes
         /\ \A i \in 1 .. Len(s) : s[i] \in nodes
         /\ \A i, j \in 1 .. Len(s) : s[i] = s[j] => i = j
         /\ s = <<>> <=> Len(s) = 0
BY DEF IsChain

\* A list that is linked both ways is one backwards, too.
LEMMA DoublySame ==
  ASSUME NEW s, NEW t, NEW fore, NEW back, NEW nodes, NEW end,
         Doubly(s, t, fore, back, nodes, end)
  PROVE  Doubly(t, s, back, fore, nodes, end)
<1>1. Len(s) \in Nat
  BY DEF Doubly, IsChain
<1>2. ASSUME NEW i \in 1 .. Len(t) PROVE s[i] = t[Len(t) + 1 - i]
  <2>1. Len(s) + 1 - i \in 1 .. Len(s) /\ Len(s) + 1 - (Len(s) + 1 - i) = i
    BY <1>1 DEF Doubly
  <2> QED
    BY <2>1 DEF Doubly
<1> QED
  BY <1>2 DEF Doubly

\* What the links of the first node are.
LEMMA DoublyHead ==
  ASSUME NEW s, NEW t, NEW fore, NEW back, NEW nodes, NEW end,
         Doubly(s, t, fore, back, nodes, end)
  PROVE  /\ end \notin nodes /\ Len(s) \in Nat
         /\ s \in Seq(nodes) /\ t \in Seq(nodes)
         /\ s = <<>> <=> Len(s) = 0
         /\ t = <<>> <=> s = <<>>
         /\ fore[end] \in nodes \cup {end}
         /\ fore[end] = end <=> s = <<>>
         /\ s # <<>> => /\ fore[end] \in nodes
                        /\ fore[end] = s[1]
                        /\ t[Len(t)] = fore[end]
                        /\ back[fore[end]] = end
                        /\ fore[fore[end]] \in nodes \cup {end}
                        /\ Len(s) = 1 => fore[fore[end]] = end
                        /\ Len(s) # 1 => /\ fore[fore[end]] \in nodes
                                         /\ fore[fore[end]] = s[2]
                                         /\ t[Len(t) - 1] = s[2]
<1>1. /\ IsChain(s, fore[end], fore, nodes, end)
      /\ IsChain(t, back[end], back, nodes, end)
      /\ Len(t) = Len(s)
      /\ \A i \in 1 .. Len(s) : t[i] = s[Len(s) + 1 - i]
  BY DEF Doubly
<1>2. /\ s \in Seq(nodes) /\ Len(s) \in Nat /\ end \notin nodes
      /\ t \in Seq(nodes)
      /\ \A i \in 1 .. Len(s) : s[i] \in nodes /\ t[i] \in nodes
      /\ s = <<>> <=> Len(s) = 0
      /\ t = <<>> <=> Len(t) = 0
  BY <1>1, ChainElems
<1>3. s = <<>> => fore[end] = end
  BY <1>1 DEF IsChain
<1>4. ASSUME s # <<>>
      PROVE  /\ fore[end] \in nodes
             /\ fore[end] = s[1]
             /\ t[Len(t)] = fore[end]
             /\ back[fore[end]] = end
             /\ fore[fore[end]] \in nodes \cup {end}
             /\ Len(s) = 1 => fore[fore[end]] = end
             /\ Len(s) # 1 => /\ fore[fore[end]] \in nodes
                              /\ fore[fore[end]] = s[2]
                              /\ t[Len(t) - 1] = s[2]
  <2>1. /\ fore[end] \in nodes /\ fore[end] = s[1]
        /\ 1 \in 1 .. Len(s) /\ Len(s) \in 1 .. Len(s)
        /\ fore[fore[end]] = end <=> Len(s) = 1
    BY <1>1, <1>4, ChainHead
  <2>2. t[Len(t)] = fore[end]
    <3>1. Len(s) + 1 - Len(s) = 1
      BY <1>2
    <3> QED
      BY <1>1, <2>1, <3>1
  <2>3. back[t[Len(t)]] = end
    BY <1>1, <2>1 DEF IsChain
  <2>4. ASSUME Len(s) # 1
        PROVE  /\ fore[fore[end]] \in nodes
               /\ fore[fore[end]] = s[2]
               /\ t[Len(t) - 1] = s[2]
    <3>1. 1 + 1 = 2 /\ 2 \in 1 .. Len(s) /\ Len(s) - 1 \in 1 .. Len(s)
          /\ Len(s) + 1 - (Len(s) - 1) = 2
      <4>1. Len(s) \in Nat /\ Len(s) # 0 /\ Len(s) # 1
        BY <1>2, <1>4, <2>4
      <4> QED
        BY SMTT(30), <4>1
    <3>2. fore[s[1]] = s[2]
      BY <1>1, <2>1, <2>4, <3>1 DEF IsChain
    <3> QED
      BY <1>1, <1>2, <2>1, <3>1, <3>2
  <2> QED
    BY <2>1, <2>2, <2>3, <2>4
<1> QED
  BY <1>1, <1>2, <1>3, <1>4

\* A node that is linked between the sentinel and the first node.
LEMMA DoublyPut ==
  ASSUME NEW s, NEW t, NEW fore, NEW back, NEW nodes, NEW end,
         Doubly(s, t, fore, back, nodes, end),
         NEW p, p \notin nodes, p # end,
         NEW new, new[p] = fore[end], new[end] = p,
         \A q \in nodes : new[q] = fore[q],
         NEW old, old[p] = end, old[fore[end]] = p,
         \A q \in nodes \cup {end} : q # fore[end] => old[q] = back[q]
  PROVE  Doubly(<<p>> \o s, Append(t, p), new, old, nodes \cup {p}, end)
<1> DEFINE n == Len(s)
           u == <<p>> \o s
           v == Append(t, p)
           M == nodes \cup {p}
<1>1. /\ IsChain(s, fore[end], fore, nodes, end)
      /\ IsChain(t, back[end], back, nodes, end)
      /\ Len(t) = n
      /\ \A i \in 1 .. n : t[i] = s[n + 1 - i]
  BY DEF Doubly
<1>2. /\ s \in Seq(nodes) /\ n \in Nat /\ t \in Seq(nodes)
      /\ \A i \in 1 .. n : s[i] \in nodes /\ t[i] \in nodes
      /\ \A i, j \in 1 .. n : t[i] = t[j] => i = j
      /\ s = <<>> <=> n = 0
      /\ t = <<>> <=> n = 0
  BY <1>1, ChainElems
<1>3. IsChain(u, p, new, M, end)
  <2>1. \A i \in 1 .. Len(s) : new[s[i]] = fore[s[i]]
    BY <1>2
  <2> QED
    BY <1>1, <2>1, ChainCons
<1>4. IsChain(v, old[end], old, M, end)
  <2>1. /\ s = <<>> => fore[end] = end
        /\ s # <<>> => /\ t[n] = fore[end] /\ fore[end] \in nodes /\ fore[end] # end
                       /\ n \in 1 .. n
    <3>1. /\ end \notin nodes
          /\ fore[end] = end <=> s = <<>>
          /\ s # <<>> => fore[end] \in nodes /\ t[Len(t)] = fore[end]
      BY DoublyHead
    <3>2. s # <<>> => n \in 1 .. n
      <4>1. n \in Nat /\ (s = <<>> <=> n = 0)
        BY <1>2
      <4> HIDE DEF n
      <4> QED
        BY <4>1
    <3> QED
      BY <1>1, <3>1, <3>2
  <2>2. ASSUME NEW i \in 1 .. Len(t)
        PROVE  old[t[i]] = IF i = Len(t) THEN p ELSE back[t[i]]
    <3>1. i \in 1 .. n /\ t[i] \in nodes /\ s # <<>>
      BY <1>1, <1>2
    <3>2. t[i] = fore[end] <=> i = n
      BY <1>2, <2>1, <3>1
    <3> QED
      BY <1>1, <2>1, <3>1, <3>2
  <2>3. t = <<>> => old[end] = p
    BY <1>2, <2>1
  <2>4. t # <<>> => old[end] = back[end]
    BY <1>2, <2>1
  <2> QED
    BY <1>1, <2>2, <2>3, <2>4, ChainAppend
<1>5. /\ Len(u) = n + 1 /\ u[1] = p /\ \A i \in 1 .. n : u[1 + i] = s[i]
  <2>1. <<p>> \in Seq(M) /\ Len(<<p>>) = 1 /\ <<p>>[1] = p
    BY SingleElem
  <2>2. s \in Seq(M)
    BY <1>2
  <2>3. /\ Len(u) = Len(<<p>>) + n
        /\ \A j \in 1 .. Len(<<p>>) : u[j] = <<p>>[j]
        /\ \A j \in 1 .. n : u[Len(<<p>>) + j] = s[j]
    BY <2>1, <2>2, ConcatElems
  <2> HIDE DEF u
  <2> QED
    BY <1>2, <2>1, <2>3
<1>6. Len(v) = n + 1 /\ v[n + 1] = p /\ \A i \in 1 .. n : v[i] = t[i]
  BY <1>1, <1>2
<1> HIDE DEF u, v, n
<1>7. ASSUME NEW i \in 1 .. n + 1 PROVE v[i] = u[(n + 1) + 1 - i]
  <2>1. n \in Nat
    BY <1>2
  <2>2. CASE i = n + 1
    <3>1. (n + 1) + 1 - i = 1
      BY <2>1, <2>2
    <3> QED
      BY <1>5, <1>6, <2>2, <3>1
  <2>3. CASE i \in 1 .. n
    <3>1. n + 1 - i \in 1 .. n /\ 1 + (n + 1 - i) = (n + 1) + 1 - i
      BY <2>1, <2>3
    <3>2. u[1 + (n + 1 - i)] = s[n + 1 - i]
      BY <1>5, <3>1
    <3> QED
      BY <1>1, <1>6, <2>3, <3>1, <3>2
  <2> QED
    BY <2>1, <2>2, <2>3
<1>8. IsChain(u, new[end], new, M, end)
  BY <1>3
<1>9. Doubly(u, v, new, old, M, end)
  BY <1>4, <1>5, <1>6, <1>7, <1>8 DEF Doubly
<1> QED
  BY <1>9 DEF u, v, M

\* The first node is unlinked.
LEMMA DoublyTake ==
  ASSUME NEW s, NEW t, NEW fore, NEW back, NEW nodes, NEW end,
         Doubly(s, t, fore, back, nodes, end), s # <<>>,
         NEW p, p = fore[end],
         NEW new, new[end] = fore[p],
         \A q \in nodes : q # p => new[q] = fore[q],
         NEW old, old[fore[p]] = end,
         \A q \in nodes \cup {end} : q # p /\ q # fore[p] => old[q] = back[q]
  PROVE  Doubly(Tail(s), SubSeq(t, 1, Len(t) - 1), new, old, nodes \ {p}, end)
<1> DEFINE n == Len(s)
           u == Tail(s)
           v == SubSeq(t, 1, Len(t) - 1)
           M == nodes \ {p}
<1>1. /\ IsChain(s, fore[end], fore, nodes, end)
      /\ IsChain(t, back[end], back, nodes, end)
      /\ Len(t) = n
      /\ \A i \in 1 .. n : t[i] = s[n + 1 - i]
  BY DEF Doubly
<1>2. /\ s \in Seq(nodes) /\ n \in Nat \ {0} /\ t \in Seq(nodes) /\ t # <<>>
      /\ \A i \in 1 .. n : s[i] \in nodes /\ t[i] \in nodes
      /\ \A i, j \in 1 .. n : t[i] = t[j] => i = j
      /\ \A i, j \in 1 .. n : s[i] = s[j] => i = j
  BY <1>1, ChainElems
<1>3. /\ end \notin nodes
      /\ p \in nodes /\ p = s[1] /\ t[Len(t)] = p
      /\ fore[p] \in nodes \cup {end}
      /\ Len(s) = 1 => fore[p] = end
      /\ Len(s) # 1 => fore[p] \in nodes /\ fore[p] = s[2] /\ t[Len(t) - 1] = s[2]
  BY DoublyHead
<1>4. n \in Nat \ {0} /\ 1 \in 1 .. n /\ n \in 1 .. n
  BY <1>2
<1>5. IsChain(u, new[end], new, M, end)
  <2>1. ASSUME NEW i \in 2 .. Len(s) PROVE new[s[i]] = fore[s[i]]
    <3>1. i \in 1 .. n /\ i # 1
      BY <1>4
    <3>2. s[i] \in nodes /\ s[i] # p
      BY <1>2, <1>3, <1>4, <3>1
    <3> QED
      BY <3>2
  <2>2. IsChain(s, p, fore, nodes, end)
    BY <1>1
  <2>3. IsChain(Tail(s), fore[p], new, nodes \ {p}, end)
    BY <2>1, <2>2, ChainTail
  <2> QED
    BY <2>3
<1>6. IsChain(v, old[end], old, M, end)
  <2>1. ASSUME NEW i \in 1 .. Len(t) - 1
        PROVE  old[t[i]] = IF i = Len(t) - 1 THEN end ELSE back[t[i]]
    <3>0. Len(t) = n /\ n \in Nat \ {0}
      BY <1>1, <1>4
    <3>1. i \in 1 .. n /\ i # n /\ n # 1
      <4> HIDE DEF n
      <4> QED
        BY <3>0
    <3>2. t[i] \in nodes /\ t[i] # p /\ t[i] # end
      <4>1. t[i] \in nodes /\ t[n] = p
        BY <1>2, <1>3, <3>0, <3>1
      <4>2. t[i] # t[n]
        BY <1>2, <1>4, <3>1
      <4> QED
        BY <1>3, <4>1, <4>2
    <3>3. n - 1 \in 1 .. n /\ t[n - 1] = fore[p]
      <4>1. n - 1 \in 1 .. n
        BY <1>4, <3>1
      <4> QED
        BY <1>1, <1>3, <3>1, <4>1
    <3>4. t[i] = fore[p] <=> i = n - 1
      BY <1>2, <3>1, <3>3
    <3> QED
      BY <1>1, <3>2, <3>4
  <2>2. p = t[Len(t)]
    BY <1>3
  <2>3. Len(t) = 1 => old[end] = end
    BY <1>1, <1>3
  <2>4. Len(t) # 1 => old[end] = back[end]
    BY <1>1, <1>3
  <2>5. IsChain(t, back[end], back, nodes, end) /\ t # <<>>
    BY <1>1, <1>2
  <2> QED
    BY <2>1, <2>2, <2>3, <2>4, <2>5, ChainFront
<1>7. Len(u) = n - 1 /\ \A i \in 1 .. n - 1 : u[i] = s[i + 1]
  BY <1>2
<1>8. Len(v) = n - 1 /\ \A i \in 1 .. n - 1 : v[i] = t[i]
  BY <1>1, <1>2, FrontElems
<1> HIDE DEF u, v, n
<1>9. ASSUME NEW i \in 1 .. n - 1 PROVE v[i] = u[(n - 1) + 1 - i]
  <2>1. i \in 1 .. n /\ (n - 1) + 1 - i \in 1 .. n - 1
        /\ ((n - 1) + 1 - i) + 1 = n + 1 - i
    BY <1>4
  <2>2. u[(n - 1) + 1 - i] = s[n + 1 - i]
    BY <1>7, <2>1
  <2> QED
    BY <1>1, <1>8, <2>1, <2>2
<1>10. Doubly(u, v, new, old, M, end)
  BY <1>5, <1>6, <1>7, <1>8, <1>9 DEF Doubly
<1> QED
  BY <1>10 DEF u, v, M

-----------------------------------------------------------------------------
\* Elements put in the middle.

\* A sequence recognised as another one with an element inserted.
LEMMA InsertIs ==
  ASSUME NEW S, NEW s \in Seq(S), NEW e \in S, NEW i \in 0 .. Len(s),
         NEW t \in Seq(S), Len(t) = Len(s) + 1,
         \A j \in 1 .. Len(t) :
           t[j] = IF j <= i THEN s[j] ELSE IF j = i + 1 THEN e ELSE s[j - 1]
  PROVE  t = SubSeq(s, 1, i) \o <<e>> \o SubSeq(s, i + 1, Len(s))
<1> DEFINE n == Len(s)
           a == SubSeq(s, 1, i)
           b == SubSeq(s, i + 1, n)
           u == a \o <<e>>
           r == u \o b
<1>1. s \in Seq(S) /\ Len(s) = n /\ n \in Nat
  OBVIOUS
<1>2. /\ a \in Seq(S) /\ Len(a) = i
      /\ \A j \in 1 .. i : a[j] = s[j]
  BY <1>1
<1>3. /\ b \in Seq(S) /\ Len(b) = n - i
      /\ \A j \in 1 .. n - i : b[j] = s[j + i]
  BY <1>1
<1> HIDE DEF a, b
<1>4. /\ u \in Seq(S) /\ Len(u) = i + 1 /\ u[i + 1] = e
      /\ \A j \in 1 .. i : u[j] = s[j]
  BY <1>2
<1> HIDE DEF u
<1>5. /\ r \in Seq(S) /\ Len(r) = n + 1
      /\ \A j \in 1 .. i + 1 : r[j] = u[j]
      /\ \A j \in 1 .. n - i : r[i + 1 + j] = b[j]
  <2>1. u \in Seq(S) /\ b \in Seq(S)
    BY <1>3, <1>4
  <2>2. /\ r \in Seq(S) /\ Len(r) = Len(u) + Len(b)
        /\ \A j \in 1 .. Len(u) : r[j] = u[j]
        /\ \A j \in 1 .. Len(b) : r[Len(u) + j] = b[j]
    BY <2>1, ConcatElems
  <2>3. Len(u) = i + 1 /\ Len(b) = n - i /\ i + 1 + (n - i) = n + 1
    BY <1>1, <1>3, <1>4
  <2> HIDE DEF r, n
  <2>4. Len(r) = n + 1
    BY <2>2, <2>3
  <2>5. \A j \in 1 .. i + 1 : r[j] = u[j]
    BY <2>2, <2>3
  <2>6. ASSUME NEW j \in 1 .. n - i PROVE r[i + 1 + j] = b[j]
    BY <2>2, <2>3
  <2> QED
    BY <2>2, <2>4, <2>5, <2>6
<1> HIDE DEF r
<1>6. ASSUME NEW j \in 1 .. n + 1 PROVE r[j] = t[j]
  <2>3. t[j] = IF j <= i THEN s[j] ELSE IF j = i + 1 THEN e ELSE s[j - 1]
    BY <1>1
  <2>1. CASE j <= i + 1
    <3>1. r[j] = u[j]
      BY <1>1, <1>5, <2>1
    <3> QED
      BY <1>1, <1>4, <2>1, <2>3, <3>1
  <2>2. CASE j > i + 1
    <3> DEFINE k == j - i - 1
    <3>1. k \in 1 .. n - i /\ i + 1 + k = j /\ k + i = j - 1 /\ ~(j <= i) /\ j # i + 1
      BY <2>2
    <3>2. t[j] = s[k + i]
      BY <2>3, <3>1
    <3> HIDE DEF k
    <3>3. r[i + 1 + k] = b[k] /\ b[k] = s[k + i]
      BY <1>3, <1>5, <3>1
    <3> QED
      BY <3>1, <3>2, <3>3
  <2> QED
    BY <2>1, <2>2
<1>7. t \in Seq(S) /\ Len(t) = n + 1
  OBVIOUS
<1> HIDE DEF n
<1>8. t = r
  BY <1>1, <1>5, <1>6, <1>7
<1> QED
  BY <1>1, <1>8 DEF r, u, a, b, n

\* A sequence with an element put behind the first k.
With(s, k, e) ==
  [i \in 1 .. Len(s) + 1 |-> IF i <= k THEN s[i] ELSE IF i = k + 1 THEN e ELSE s[i - 1]]

\* t has e behind the first k of s.
Has(t, s, k, e, V) ==
  /\ t \in Seq(V) /\ Len(t) = Len(s) + 1
  /\ t[k + 1] = e
  /\ \A i \in 1 .. k : t[i] = s[i]
  /\ \A i \in k + 1 .. Len(s) : t[i + 1] = s[i]

\* A sequence with an element put behind the first k.
LEMMA WithElems ==
  ASSUME NEW V, NEW s \in Seq(V), NEW e \in V, NEW k \in 0 .. Len(s)
  PROVE  Has(With(s, k, e), s, k, e, V)
<1> DEFINE n == Len(s)
           t == With(s, k, e)
<1>1. n \in Nat /\ k \in 0 .. n /\ \A i \in 1 .. n : s[i] \in V
  OBVIOUS
<1>2. t = [i \in 1 .. n + 1 |-> IF i <= k THEN s[i] ELSE IF i = k + 1 THEN e ELSE s[i - 1]]
  BY DEF With
<1> HIDE DEF t, n
<1>3. \A i \in 1 .. n + 1 :
        t[i] = IF i <= k THEN s[i] ELSE IF i = k + 1 THEN e ELSE s[i - 1]
  BY <1>2
<1>4. ASSUME NEW i \in 1 .. n + 1 PROVE t[i] \in V
  <2>1. i <= k => i \in 1 .. n
    BY <1>1
  <2>2. ~ (i <= k) /\ i # k + 1 => i - 1 \in 1 .. n
    BY <1>1
  <2> QED
    BY <1>1, <1>3, <2>1, <2>2
<1>5. t \in [1 .. n + 1 -> V]
  BY <1>2, <1>4
<1>6. t \in Seq(V) /\ Len(t) = n + 1
  BY <1>1, <1>5
<1>7. t[k + 1] = e
  <2>1. k + 1 \in 1 .. n + 1 /\ ~ (k + 1 <= k)
    BY <1>1
  <2> QED
    BY <1>3, <2>1
<1>8. \A i \in 1 .. k : t[i] = s[i]
  <2>1. \A i \in 1 .. k : i \in 1 .. n + 1 /\ i <= k
    BY <1>1
  <2> QED
    BY <1>3, <2>1
<1>9. ASSUME NEW i \in k + 1 .. n PROVE t[i + 1] = s[i]
  <2>1. i + 1 \in 1 .. n + 1 /\ ~ (i + 1 <= k) /\ i + 1 # k + 1 /\ (i + 1) - 1 = i
    BY <1>1
  <2> QED
    BY <1>3, <2>1
<1> QED
  BY <1>6, <1>7, <1>8, <1>9 DEF Has, t, n

\* The same, as the two parts and the element between them.
LEMMA WithIs ==
  ASSUME NEW V, NEW s \in Seq(V), NEW e \in V, NEW k \in 0 .. Len(s)
  PROVE  With(s, k, e) = SubSeq(s, 1, k) \o <<e>> \o SubSeq(s, k + 1, Len(s))
<1> DEFINE t == With(s, k, e)
<1>1. t \in Seq(V) /\ Len(t) = Len(s) + 1
  BY WithElems DEF Has
<1>2. \A j \in 1 .. Len(s) + 1 :
        t[j] = IF j <= k THEN s[j] ELSE IF j = k + 1 THEN e ELSE s[j - 1]
  BY DEF With
<1> HIDE DEF t
<1>3. \A j \in 1 .. Len(t) :
        t[j] = IF j <= k THEN s[j] ELSE IF j = k + 1 THEN e ELSE s[j - 1]
  BY <1>1, <1>2
<1>4. t = SubSeq(s, 1, k) \o <<e>> \o SubSeq(s, k + 1, Len(s))
  BY <1>1, <1>3, InsertIs
<1> QED
  BY <1>4 DEF t

\* The links with p behind the first k nodes.
LinksWith(new, s, k, p, link, end) ==
  /\ new[p] = IF k = Len(s) THEN end ELSE s[k + 1]
  /\ \A i \in 1 .. Len(s) : new[s[i]] = IF i = k THEN p ELSE link[s[i]]

\* A node that is linked behind the first k.
LEMMA ChainWith ==
  ASSUME NEW s, NEW first, NEW link, NEW nodes, NEW end,
         IsChain(s, first, link, nodes, end),
         NEW p, p \notin nodes, p # end, NEW k \in 0 .. Len(s),
         NEW new, LinksWith(new, s, k, p, link, end),
         NEW head, k = 0 => head = p, k # 0 => head = first
  PROVE  IsChain(With(s, k, p), head, new, nodes \cup {p}, end)
<1> DEFINE t == With(s, k, p)
           n == Len(s)
           M == nodes \cup {p}
<1>1. /\ s \in Seq(nodes) /\ end \notin nodes /\ n \in Nat
      /\ nodes = {s[i] : i \in 1..n}
      /\ \A i, j \in 1..n : s[i] = s[j] => i = j
      /\ first = IF s = <<>> THEN end ELSE s[1]
      /\ \A i \in 1..n : link[s[i]] = IF i = n THEN end ELSE s[i + 1]
      /\ s = <<>> <=> n = 0
  <2>1. s \in Seq(nodes) /\ n \in Nat /\ (s = <<>> <=> n = 0)
    BY ChainElems
  <2> QED
    BY <2>1 DEF IsChain
<1>c. \A i \in 1 .. n : s[i] \in nodes
  BY <1>1
<1>2. /\ t \in Seq(M) /\ Len(t) = n + 1 /\ t[k + 1] = p
      /\ \A i \in 1 .. k : t[i] = s[i]
      /\ \A i \in k + 1 .. n : t[i + 1] = s[i]
  <2>1. s \in Seq(M) /\ p \in M
    BY <1>1
  <2> HIDE DEF M, t, n
  <2>2. s \in Seq(M) /\ p \in M /\ k \in 0 .. Len(s)
    BY <2>1
  <2>3. Has(With(s, k, p), s, k, p, M)
    BY <2>2, WithElems
  <2> QED
    BY <2>3 DEF Has, t, n
<1>a. n \in Nat /\ k \in 0 .. n
  BY <1>1
<1>b. /\ new[p] = IF k = n THEN end ELSE s[k + 1]
      /\ \A i \in 1 .. n : new[s[i]] = IF i = k THEN p ELSE link[s[i]]
  BY DEF LinksWith
<1> HIDE DEF t, n, M
\* Where an element of the new list comes from.
<1>3. ASSUME NEW i \in 1 .. n + 1
      PROVE  \/ i \in 1 .. k /\ i \in 1 .. n /\ t[i] = s[i]
             \/ i = k + 1 /\ t[i] = p
             \/ i - 1 \in k + 1 .. n /\ i - 1 \in 1 .. n /\ t[i] = s[i - 1]
  <2>1. CASE i <= k
    <3>1. i \in 1 .. k /\ i \in 1 .. n
      BY <1>a, <2>1
    <3> QED
      BY <1>2, <3>1
  <2>2. CASE i = k + 1
    BY <1>2, <2>2
  <2>3. CASE i > k + 1
    <3>1. i - 1 \in k + 1 .. n /\ i - 1 \in 1 .. n /\ (i - 1) + 1 = i
      BY <1>a, <2>3
    <3> QED
      BY <1>2, <3>1
  <2> QED
    BY <1>a, <2>1, <2>2, <2>3
<1>4. M = {t[i] : i \in 1 .. n + 1}
  <2>1. ASSUME NEW x \in M PROVE \E i \in 1 .. n + 1 : x = t[i]
    <3>1. CASE x = p
      <4>1. k + 1 \in 1 .. n + 1
        BY <1>a
      <4> QED
        BY <1>2, <3>1, <4>1
    <3>2. CASE x \in nodes
      <4>1. PICK i \in 1 .. n : x = s[i]
        BY <1>1, <3>2
      <4>2. i \in 1 .. n + 1 /\ i + 1 \in 1 .. n + 1 /\ (i \in 1 .. k \/ i \in k + 1 .. n)
        BY <1>a
      <4> QED
        BY <1>2, <4>1, <4>2
    <3> QED
      BY <3>1, <3>2 DEF M
  <2>2. ASSUME NEW i \in 1 .. n + 1 PROVE t[i] \in M
    BY <1>c, <1>3 DEF M
  <2> QED
    BY <2>1, <2>2
<1>5. ASSUME NEW i \in 1 .. n + 1, NEW j \in 1 .. n + 1, t[i] = t[j]
      PROVE  i = j
  <2>1. CASE i = k + 1 /\ t[i] = p
    <3>1. ~ (j \in 1 .. n /\ t[j] = s[j]) /\ ~ (j - 1 \in 1 .. n /\ t[j] = s[j - 1])
      BY <1>c, <1>5, <2>1
    <3> QED
      BY <1>3, <2>1, <3>1
  <2>2. CASE i \in 1 .. k /\ i \in 1 .. n /\ t[i] = s[i]
    <3>1. t[j] # p
      BY <1>c, <1>5, <2>2
    <3>2. CASE j \in 1 .. n /\ t[j] = s[j]
      BY <1>1, <1>5, <2>2, <3>2
    <3>3. CASE j - 1 \in k + 1 .. n /\ j - 1 \in 1 .. n /\ t[j] = s[j - 1]
      <4>1. i = j - 1
        BY <1>1, <1>5, <2>2, <3>3
      <4> QED
        BY <1>a, <2>2, <3>3, <4>1
    <3> QED
      BY <1>3, <3>1, <3>2, <3>3
  <2>3. CASE i - 1 \in k + 1 .. n /\ i - 1 \in 1 .. n /\ t[i] = s[i - 1]
    <3>1. t[j] # p
      BY <1>c, <1>5, <2>3
    <3>2. CASE j \in 1 .. k /\ j \in 1 .. n /\ t[j] = s[j]
      <4>1. i - 1 = j
        BY <1>1, <1>5, <2>3, <3>2
      <4> QED
        BY <1>a, <2>3, <3>2, <4>1
    <3>3. CASE j - 1 \in 1 .. n /\ t[j] = s[j - 1]
      <4>1. i - 1 = j - 1
        BY <1>1, <1>5, <2>3, <3>3
      <4> QED
        BY <4>1
    <3> QED
      BY <1>3, <3>1, <3>2, <3>3
  <2> QED
    BY <1>3, <2>1, <2>2, <2>3
<1>6. ASSUME NEW i \in 1 .. n + 1
      PROVE  new[t[i]] = IF i = n + 1 THEN end ELSE t[i + 1]
  <2>1. CASE i = k + 1 /\ t[i] = p
    <3>1. CASE k = n
      BY <1>b, <2>1, <3>1
    <3>2. CASE k # n
      <4>1. k + 1 \in k + 1 .. n /\ i # n + 1
        BY <1>a, <2>1, <3>2
      <4> QED
        BY <1>2, <1>b, <2>1, <3>2, <4>1
    <3> QED
      BY <3>1, <3>2
  <2>2. CASE i \in 1 .. k /\ i \in 1 .. n /\ t[i] = s[i]
    <3>1. i # n + 1
      BY <1>a, <2>2
    <3>2. CASE i = k
      BY <1>2, <1>b, <2>2, <3>1, <3>2
    <3>3. CASE i # k
      <4>1. i # n /\ i + 1 \in 1 .. k
        BY <1>a, <2>2, <3>3
      <4>2. new[s[i]] = s[i + 1]
        BY <1>1, <1>b, <2>2, <3>3, <4>1
      <4> QED
        BY <1>2, <2>2, <3>1, <4>1, <4>2
    <3> QED
      BY <3>2, <3>3
  <2>3. CASE i - 1 \in k + 1 .. n /\ i - 1 \in 1 .. n /\ t[i] = s[i - 1]
    <3>1. i - 1 # k /\ (i - 1 = n <=> i = n + 1) /\ (i - 1) + 1 = i
          /\ (i # n + 1 => i \in k + 1 .. n)
      BY <1>a, <2>3
    <3>2. new[s[i - 1]] = IF i - 1 = n THEN end ELSE s[(i - 1) + 1]
      BY <1>1, <1>b, <2>3, <3>1
    <3> QED
      BY <1>2, <2>3, <3>1, <3>2
  <2> QED
    BY <1>3, <2>1, <2>2, <2>3
<1>7. end \notin M
  BY <1>1 DEF M
<1>8. head = IF t = <<>> THEN end ELSE t[1]
  <2>1. t # <<>>
    BY <1>2, <1>a
  <2>2. CASE k = 0
    BY <1>2, <2>1, <2>2
  <2>3. CASE k # 0
    <3>1. 1 \in 1 .. k /\ n # 0
      BY <1>a, <2>3
    <3> QED
      BY <1>1, <1>2, <2>1, <2>3, <3>1
  <2> QED
    BY <2>2, <2>3
<1> QED
  BY <1>2, <1>4, <1>5, <1>6, <1>7, <1>8 DEF IsChain, M, t

\* f along a sequence with one more element.
LEMMA AlongWith ==
  ASSUME NEW H, NEW s \in Seq(H), NEW f, NEW V, Along(s, f) \in Seq(V),
         NEW p, NEW k \in 0 .. Len(s), NEW g, g[p] \in V,
         \A i \in 1 .. Len(s) : g[s[i]] = f[s[i]]
  PROVE  Along(With(s, k, p), g) = With(Along(s, f), k, g[p])
<1> DEFINE n == Len(s)
           t == With(s, k, p)
           M == H \cup {p}
           u == Along(s, f)
<1>1. n \in Nat /\ k \in 0 .. n /\ Len(u) = n /\ \A i \in 1 .. n : u[i] = f[s[i]]
  BY AlongElems
<1>2. t = [i \in 1 .. n + 1 |-> IF i <= k THEN s[i] ELSE IF i = k + 1 THEN p ELSE s[i - 1]]
  BY DEF With
<1>3. Len(t) = n + 1
  <2>1. s \in Seq(M) /\ p \in M
    OBVIOUS
  <2> HIDE DEF M
  <2> QED
    BY <2>1, WithElems DEF Has
<1>4. Along(t, g) = [i \in 1 .. n + 1 |-> g[t[i]]]
  BY <1>3 DEF Along
<1>5. With(u, k, g[p]) =
        [i \in 1 .. n + 1 |-> IF i <= k THEN u[i] ELSE IF i = k + 1 THEN g[p] ELSE u[i - 1]]
  BY <1>1 DEF With
<1>6. \A i \in 1 .. n : g[s[i]] = u[i]
  BY <1>1
<1> HIDE DEF n, t, u
<1>7. ASSUME NEW i \in 1 .. n + 1
      PROVE  g[t[i]] = IF i <= k THEN u[i] ELSE IF i = k + 1 THEN g[p] ELSE u[i - 1]
  <2>1. i <= k => i \in 1 .. n
    BY <1>1
  <2>2. ~ (i <= k) /\ i # k + 1 => i - 1 \in 1 .. n
    BY <1>1
  <2> QED
    BY <1>2, <1>6, <2>1, <2>2
<1>8. Along(t, g) = With(u, k, g[p])
  BY <1>4, <1>5, <1>7
<1> QED
  BY <1>8 DEF t, u

-----------------------------------------------------------------------------
(* Tables: n buckets, numbered from 0, each with a sequence of elements.   *)

Elems(s) == {s[i] : i \in 1 .. Len(s)}
Distinct(s) == \A i, j \in 1 .. Len(s) : s[i] = s[j] => i = j

\* A sequence without duplicates has as many elements as places.
LEMMA DistinctCount ==
  ASSUME NEW E, NEW s \in Seq(E), Distinct(s)
  PROVE  IsFiniteSet(Elems(s)) /\ Cardinality(Elems(s)) = Len(s)
<1> DEFINE n == Len(s)
<1>1. n \in Nat /\ s = [i \in 1 .. n |-> s[i]]
  OBVIOUS
<1>2. s \in Bijection(1 .. n, Elems(s))
  <2>1. s \in [1 .. n -> Elems(s)]
    BY <1>1 DEF Elems
  <2>2. \A i, j \in 1 .. n : s[i] = s[j] => i = j
    BY DEF Distinct
  <2>3. \A x \in Elems(s) : \E i \in 1 .. n : s[i] = x
    BY DEF Elems
  <2> QED
    BY <1>1, <2>1, <2>2, <2>3 DEF Bijection, Injection, Surjection, IsInjective
<1>3. IsFiniteSet(1 .. n) /\ Cardinality(1 .. n) = n
  <2>1. 1 \in Int /\ n \in Int /\ (1 > n => n = 0) /\ (~ (1 > n) => n - 1 + 1 = n)
    BY <1>1
  <2> HIDE DEF n
  <2>2. IsFiniteSet(1 .. n) /\ Cardinality(1 .. n) = IF 1 > n THEN 0 ELSE n - 1 + 1
    BY <2>1, FS_Interval
  <2> QED
    BY <2>1, <2>2
<1> QED
  BY <1>2, <1>3, FS_Bijection DEF ExistsBijection

\* Two sequences, one behind the other.
LEMMA ConcatDistinct ==
  ASSUME NEW E, NEW s \in Seq(E), NEW t \in Seq(E)
  PROVE  /\ s \o t \in Seq(E)
         /\ Elems(s \o t) = Elems(s) \cup Elems(t)
         /\ Distinct(s) /\ Distinct(t) /\ Elems(s) \cap Elems(t) = {} => Distinct(s \o t)
<1> DEFINE u == s \o t
           m == Len(s)
           n == Len(t)
<1>1. /\ u \in Seq(E) /\ m \in Nat /\ n \in Nat /\ Len(u) = m + n
      /\ \A j \in 1 .. m : u[j] = s[j]
      /\ \A j \in 1 .. n : u[m + j] = t[j]
  BY ConcatElems
<1> HIDE DEF u, m, n
<1>2. ASSUME NEW i \in 1 .. m + n
      PROVE  \/ i \in 1 .. m /\ u[i] = s[i]
             \/ i - m \in 1 .. n /\ u[i] = t[i - m]
  <2>1. CASE i <= m
    <3>1. i \in 1 .. m
      BY <1>1, <2>1
    <3> QED
      BY <1>1, <3>1
  <2>2. CASE i > m
    <3>1. i - m \in 1 .. n /\ m + (i - m) = i
      BY <1>1, <2>2
    <3> QED
      BY <1>1, <3>1
  <2> QED
    BY <1>1, <2>1, <2>2
<1>3. Elems(u) = Elems(s) \cup Elems(t)
  <2>1. ASSUME NEW x \in Elems(u) PROVE x \in Elems(s) \cup Elems(t)
    <3>1. PICK i \in 1 .. m + n : x = u[i]
      BY <1>1 DEF Elems
    <3> QED
      BY <1>2, <3>1 DEF Elems, m, n
  <2>2. ASSUME NEW x \in Elems(s) PROVE x \in Elems(u)
    <3>1. PICK i \in 1 .. m : x = s[i]
      BY DEF Elems, m
    <3>2. i \in 1 .. m + n /\ u[i] = s[i]
      BY <1>1
    <3> QED
      BY <1>1, <3>1, <3>2 DEF Elems
  <2>3. ASSUME NEW x \in Elems(t) PROVE x \in Elems(u)
    <3>1. PICK i \in 1 .. n : x = t[i]
      BY DEF Elems, n
    <3>2. m + i \in 1 .. m + n /\ u[m + i] = t[i]
      BY <1>1
    <3> QED
      BY <1>1, <3>1, <3>2 DEF Elems
  <2> QED
    BY <2>1, <2>2, <2>3
<1>4. ASSUME Distinct(s), Distinct(t), Elems(s) \cap Elems(t) = {} PROVE Distinct(u)
  <2>1. SUFFICES ASSUME NEW i \in 1 .. m + n, NEW j \in 1 .. m + n, u[i] = u[j]
                 PROVE  i = j
    BY <1>1 DEF Distinct
  <2>2. \A k \in 1 .. m, l \in 1 .. n : s[k] # t[l]
    BY <1>4 DEF Elems, m, n
  <2>3. CASE i \in 1 .. m /\ u[i] = s[i]
    <3>1. j \in 1 .. m /\ u[j] = s[j]
      BY <1>2, <2>1, <2>2, <2>3
    <3> QED
      BY <1>4, <2>1, <2>3, <3>1 DEF Distinct, m
  <2>4. CASE i - m \in 1 .. n /\ u[i] = t[i - m]
    <3>1. j - m \in 1 .. n /\ u[j] = t[j - m]
      BY <1>2, <2>1, <2>2, <2>4
    <3>2. i - m = j - m
      BY <1>4, <2>1, <2>4, <3>1 DEF Distinct, n
    <3> QED
      BY <1>1, <3>2
  <2> QED
    BY <1>2, <2>3, <2>4
<1> QED
  BY <1>1, <1>3, <1>4 DEF u

\* One element and a sequence behind it.
LEMMA ConsDistinct ==
  ASSUME NEW E, NEW e \in E, NEW s \in Seq(E)
  PROVE  /\ <<e>> \o s \in Seq(E)
         /\ Elems(<<e>> \o s) = Elems(s) \cup {e}
         /\ Distinct(s) /\ e \notin Elems(s) => Distinct(<<e>> \o s)
<1> DEFINE w == <<e>>
<1>1. w \in Seq(E) /\ Len(w) = 1 /\ w[1] = e
  OBVIOUS
<1> HIDE DEF w
<1>2. Elems(w) = {e} /\ Distinct(w)
  BY <1>1 DEF Elems, Distinct
<1>3. /\ w \o s \in Seq(E)
      /\ Elems(w \o s) = Elems(w) \cup Elems(s)
      /\ Distinct(w) /\ Distinct(s) /\ Elems(w) \cap Elems(s) = {} => Distinct(w \o s)
  BY <1>1, ConcatDistinct
<1>4. w \o s \in Seq(E) /\ Elems(w \o s) = Elems(s) \cup {e}
  BY <1>2, <1>3
<1>5. Distinct(s) /\ e \notin Elems(s) => Distinct(w \o s)
  BY <1>2, <1>3
<1> QED
  BY <1>4, <1>5 DEF w

\* The function d is b, but for what it has at i.
Replaces(d, b, i, c) == d = [b EXCEPT ![i] = c]

\* An element put in the place of another one.
LEMMA SetDistinct ==
  ASSUME NEW E, NEW s \in Seq(E), Distinct(s), NEW j \in 1 .. Len(s),
         NEW e \in E, e \notin Elems(s) \ {s[j]}, NEW t, Replaces(t, s, j, e)
  PROVE  /\ t \in Seq(E) /\ Distinct(t) /\ Len(t) = Len(s)
         /\ Elems(t) = (Elems(s) \ {s[j]}) \cup {e}
<1> DEFINE n == Len(s)
<1>1. /\ n \in Nat /\ t \in Seq(E) /\ Len(t) = n /\ t[j] = e
      /\ \A i \in 1 .. n : i # j => t[i] = s[i]
  BY DEF Replaces
<1>2. \A i, k \in 1 .. n : s[i] = s[k] => i = k
  BY DEF Distinct
<1>3. \A i \in 1 .. n : i # j => s[i] # e
  <2>1. \A i \in 1 .. n : i # j => s[i] \in Elems(s) \ {s[j]}
    BY <1>2 DEF Elems
  <2> QED
    BY <2>1
<1> HIDE DEF n
<1>4. \A i, k \in 1 .. n : t[i] = t[k] => i = k
  BY <1>1, <1>2, <1>3
<1>5. ASSUME NEW x PROVE x \in Elems(t) <=> x \in (Elems(s) \ {s[j]}) \cup {e}
  <2>1. x \in Elems(t) <=> \E i \in 1 .. n : x = t[i]
    BY <1>1 DEF Elems
  <2>2. x \in Elems(s) <=> \E i \in 1 .. n : x = s[i]
    BY DEF Elems, n
  <2>3. j \in 1 .. n
    BY DEF n
  <2> QED
    BY <1>1, <1>2, <2>1, <2>2, <2>3
<1>6. Elems(t) = (Elems(s) \ {s[j]}) \cup {e}
  BY <1>5
<1> QED
  BY <1>1, <1>4, <1>6 DEF Distinct, n

\* A bucket without one of its elements.
LEMMA UnlinkedDistinct ==
  ASSUME NEW E, NEW s \in Seq(E), Distinct(s), NEW j \in 1 .. Len(s)
  PROVE  /\ Unlinked(s, j) \in Seq(E) /\ Distinct(Unlinked(s, j))
         /\ Elems(Unlinked(s, j)) = Elems(s) \ {s[j]}
<1> DEFINE t == Unlinked(s, j)
           n == Len(s)
<1>1. n \in Nat \ {0} /\ j \in 1 .. n /\ \A i \in 1 .. n : s[i] \in E
  OBVIOUS
<1>2. t = [k \in 1 .. n - 1 |-> IF k < j THEN s[k] ELSE s[k + 1]]
  BY DEF Unlinked
<1>3. \A i, k \in 1 .. n : s[i] = s[k] => i = k
  BY DEF Distinct
<1> HIDE DEF t, n
<1>4. \A k \in 1 .. n - 1 : k \in 1 .. n /\ k + 1 \in 1 .. n
  BY <1>1
<1>5. \A k \in 1 .. n - 1 : t[k] = IF k < j THEN s[k] ELSE s[k + 1]
  BY <1>2
<1>6. t \in [1 .. n - 1 -> E]
  <2>1. \A k \in 1 .. n - 1 : t[k] \in E
    BY <1>1, <1>4, <1>5
  <2> QED
    BY <1>2, <2>1
<1>7. t \in Seq(E) /\ Len(t) = n - 1
  BY <1>1, <1>6
<1>8. ASSUME NEW i \in 1 .. n - 1, NEW k \in 1 .. n - 1, t[i] = t[k] PROVE i = k
  <2>1. CASE i < j /\ k < j
    BY <1>3, <1>4, <1>5, <1>8, <2>1
  <2>2. CASE ~ (i < j) /\ ~ (k < j)
    <3>1. i + 1 = k + 1
      BY <1>3, <1>4, <1>5, <1>8, <2>2
    <3> QED
      BY <3>1
  <2>3. CASE i < j /\ ~ (k < j)
    <3>1. i = k + 1
      BY <1>3, <1>4, <1>5, <1>8, <2>3
    <3> QED
      BY <1>1, <2>3, <3>1
  <2>4. CASE ~ (i < j) /\ k < j
    <3>1. i + 1 = k
      BY <1>3, <1>4, <1>5, <1>8, <2>4
    <3> QED
      BY <1>1, <2>4, <3>1
  <2> QED
    BY <2>1, <2>2, <2>3, <2>4
<1>9. ASSUME NEW x PROVE x \in Elems(t) <=> x \in Elems(s) /\ x # s[j]
  <2>1. ASSUME x \in Elems(t) PROVE x \in Elems(s) /\ x # s[j]
    <3>1. PICK k \in 1 .. n - 1 : x = t[k]
      BY <1>7, <2>1 DEF Elems
    <3>2. CASE k < j
      <4>1. x = s[k] /\ k \in 1 .. n /\ k # j
        BY <1>1, <1>4, <1>5, <3>1, <3>2
      <4> QED
        BY <1>1, <1>3, <4>1 DEF Elems, n
    <3>3. CASE ~ (k < j)
      <4>1. x = s[k + 1] /\ k + 1 \in 1 .. n /\ k + 1 # j
        BY <1>1, <1>4, <1>5, <3>1, <3>3
      <4> QED
        BY <1>1, <1>3, <4>1 DEF Elems, n
    <3> QED
      BY <3>2, <3>3
  <2>2. ASSUME x \in Elems(s), x # s[j] PROVE x \in Elems(t)
    <3>1. PICK k \in 1 .. n : x = s[k]
      BY <2>2 DEF Elems, n
    <3>2. k # j
      BY <2>2, <3>1
    <3>3. CASE k < j
      <4>1. k \in 1 .. n - 1 /\ t[k] = s[k]
        <5>1. k \in 1 .. n - 1
          BY <1>1, <3>3
        <5> QED
          BY <1>5, <3>3, <5>1
      <4> QED
        BY <1>7, <3>1, <4>1 DEF Elems
    <3>4. CASE k > j
      <4>1. k - 1 \in 1 .. n - 1 /\ ~ (k - 1 < j) /\ (k - 1) + 1 = k
        BY <1>1, <3>4
      <4>2. t[k - 1] = s[k]
        BY <1>5, <4>1
      <4> QED
        BY <1>7, <3>1, <4>1, <4>2 DEF Elems
    <3> QED
      BY <1>1, <3>2, <3>3, <3>4
  <2> QED
    BY <2>1, <2>2
<1>10. Elems(t) = Elems(s) \ {s[j]}
  BY <1>9
<1>11. Distinct(t)
  BY <1>7, <1>8 DEF Distinct
<1> QED
  BY <1>7, <1>10, <1>11 DEF t

\* What a loop of n turns makes of base.
Turned(g, n, base, turn) == g[0] = base /\ \A k \in 1 .. n : g[k] = turn[<<k, g[k - 1]>>]

\* N turns, each of which may depend on its number, have an outcome.
LEMMA Turns ==
  ASSUME NEW S, NEW N \in Nat, NEW base \in S, NEW turn \in [(1 .. N) \X S -> S]
  PROVE  \E g \in [0 .. N -> S] : Turned(g, N, base, turn)
<1> DEFINE T == {n \in Nat : n <= N => \E g \in [0 .. n -> S] : Turned(g, n, base, turn)}
<1>1. 0 \in T
  <2>1. [k \in 0 .. 0 |-> base] \in [0 .. 0 -> S] /\ Turned([k \in 0 .. 0 |-> base], 0, base, turn)
    BY DEF Turned
  <2> QED
    BY <2>1
<1>2. ASSUME NEW n \in T PROVE n + 1 \in T
  <2>0. n \in Nat
    OBVIOUS
  <2>1. SUFFICES ASSUME n + 1 <= N
                 PROVE  \E g \in [0 .. n + 1 -> S] : Turned(g, n + 1, base, turn)
    BY <2>0
  <2>2. PICK g \in [0 .. n -> S] : Turned(g, n, base, turn)
    BY <2>0, <2>1
  <2> DEFINE x == turn[<<n + 1, g[n]>>]
             f == [k \in 0 .. n + 1 |-> IF k = n + 1 THEN x ELSE g[k]]
  <2>3. x \in S
    <3>1. g[n] \in S /\ n + 1 \in 1 .. N
      BY <2>0, <2>1
    <3> QED
      BY <3>1
  <2> HIDE DEF x
  <2>4. f \in [0 .. n + 1 -> S]
    <3>1. \A k \in 0 .. n + 1 : k # n + 1 => k \in 0 .. n
      OBVIOUS
    <3>2. \A k \in 0 .. n + 1 : f[k] \in S
      BY <2>3, <3>1
    <3> QED
      BY <3>2
  <2>5. f[n + 1] = x /\ \A k \in 0 .. n : f[k] = g[k]
    OBVIOUS
  <2> HIDE DEF f
  <2>6. f[0] = base
    BY <2>0, <2>2, <2>5 DEF Turned
  <2>7. ASSUME NEW k \in 1 .. n + 1 PROVE f[k] = turn[<<k, f[k - 1]>>]
    <3>1. CASE k = n + 1
      <4>1. k - 1 = n /\ n \in 0 .. n
        BY <2>0, <3>1
      <4> QED
        BY <2>5, <3>1, <4>1 DEF x
    <3>2. CASE k # n + 1
      <4>1. k \in 1 .. n /\ k \in 0 .. n /\ k - 1 \in 0 .. n
        BY <2>0, <3>2
      <4> QED
        BY <2>2, <2>5, <4>1 DEF Turned
    <3> QED
      BY <3>1, <3>2
  <2>8. Turned(f, n + 1, base, turn)
    BY <2>6, <2>7 DEF Turned
  <2> QED
    BY <2>4, <2>8
<1>3. T = Nat
  <2>1. T \in SUBSET Nat
    OBVIOUS
  <2> HIDE DEF T
  <2> QED
    BY <1>1, <1>2, <2>1, NatInduct
<1>4. N \in T
  BY <1>3
<1> QED
  BY <1>4

\* Something that stays true in every turn.
LEMMA TurnByTurn ==
  ASSUME NEW n \in Nat, NEW P, 0 \in P, \A k \in 1 .. n : k - 1 \in P => k \in P
  PROVE  n \in P
<1> DEFINE T == {k \in Nat : k <= n => k \in P}
<1>1. 0 \in T
  OBVIOUS
<1>2. ASSUME NEW k \in T PROVE k + 1 \in T
  <2>1. k \in Nat /\ (k + 1) - 1 = k
    OBVIOUS
  <2>2. k + 1 <= n => k + 1 \in 1 .. n /\ k \in P
    BY <2>1
  <2> QED
    BY <2>1, <2>2
<1>3. T = Nat
  <2>1. T \in SUBSET Nat
    OBVIOUS
  <2> HIDE DEF T
  <2> QED
    BY <1>1, <1>2, <2>1, NatInduct
<1> QED
  BY <1>3

\* What is in the buckets.
Within(b, n) == UNION {Elems(b[i]) : i \in 0 .. n - 1}

\* n buckets of elements of E, each in the bucket of its hash h, and once.
Filed(b, n, E, h) ==
  /\ b \in [0 .. n - 1 -> Seq(E)]
  /\ \A i \in 0 .. n - 1 : Distinct(b[i]) /\ \A x \in Elems(b[i]) : h[x] % n = i

\* u[k] is the elements of the first k buckets.
IsUpto(u, b, n) == u[0] = <<>> /\ \A i \in 1 .. n : u[i] = u[i - 1] \o b[i - 1]

\* The elements of a table are gathered bucket by bucket.
LEMMA InBucketsUpto ==
  ASSUME NEW E, NEW n \in Nat, NEW b, b \in [0 .. n - 1 -> Seq(E)]
  PROVE  \E u \in [0 .. n -> Seq(E)] : IsUpto(u, b, n) /\ InBuckets(b, n) = u[n]
<1> DEFINE turn == [p \in (1 .. n) \X Seq(E) |-> p[2] \o b[p[1] - 1]]
           F(f) == [i \in 0 .. n |-> IF i = 0 THEN <<>> ELSE f[i - 1] \o b[i - 1]]
           u == CHOOSE f : f = F(f)
<1>1. \A k \in 1 .. n : k - 1 \in 0 .. n - 1 /\ k - 1 \in 0 .. n /\ k \in 0 .. n /\ k # 0
  OBVIOUS
<1>2. turn \in [(1 .. n) \X Seq(E) -> Seq(E)]
  <2>1. ASSUME NEW p \in (1 .. n) \X Seq(E) PROVE p[2] \o b[p[1] - 1] \in Seq(E)
    <3>1. p[2] \in Seq(E) /\ b[p[1] - 1] \in Seq(E)
      BY <1>1
    <3> QED
      BY <3>1, ConcatDistinct
  <2> QED
    BY <2>1
<1>3. <<>> \in Seq(E)
  OBVIOUS
<1>4. PICK g \in [0 .. n -> Seq(E)] : Turned(g, n, <<>>, turn)
  <2> HIDE DEF turn
  <2> QED
    BY <1>2, <1>3, Turns
<1>5. ASSUME NEW k \in 1 .. n PROVE g[k] = g[k - 1] \o b[k - 1]
  <2>1. <<k, g[k - 1]>> \in (1 .. n) \X Seq(E)
    BY <1>1, <1>4
  <2>2. turn[<<k, g[k - 1]>>] = g[k - 1] \o b[k - 1]
    BY <2>1
  <2> QED
    BY <1>4, <2>2 DEF Turned
<1>6. g[0] = <<>>
  BY <1>4 DEF Turned
<1>7. g = F(g)
  <2>0. \A i \in 0 .. n : i # 0 => i \in 1 .. n
    OBVIOUS
  <2>1. \A i \in 0 .. n : g[i] = IF i = 0 THEN <<>> ELSE g[i - 1] \o b[i - 1]
    BY <1>5, <1>6, <2>0
  <2> QED
    BY <2>1
<1>8. u = F(u)
  BY <1>7
<1>9. InBuckets(b, n) = u[n]
  BY DEF InBuckets
<1>10. u[0] = <<>> /\ \A i \in 1 .. n : u[i] = u[i - 1] \o b[i - 1]
  <2> HIDE DEF u
  <2>1. \A i \in 0 .. n : u[i] = IF i = 0 THEN <<>> ELSE u[i - 1] \o b[i - 1]
    BY <1>8
  <2>2. 0 \in 0 .. n
    OBVIOUS
  <2>3. u[0] = <<>>
    BY <2>1, <2>2
  <2>4. ASSUME NEW i \in 1 .. n PROVE u[i] = u[i - 1] \o b[i - 1]
    BY <1>1, <2>1
  <2> QED
    BY <2>3, <2>4
<1>11. u \in [0 .. n -> Seq(E)]
  <2>1. DOMAIN u = 0 .. n /\ u = [i \in 0 .. n |-> u[i]]
    <3> HIDE DEF u
    <3> QED
      BY <1>8
  <2> HIDE DEF u
  <2> DEFINE P == {k \in 0 .. n : u[k] \in Seq(E)}
  <2>2. 0 \in P
    <3>1. 0 \in 0 .. n
      OBVIOUS
    <3> QED
      BY <1>3, <1>10, <3>1
  <2>3. ASSUME NEW m \in 0 .. n PROVE m \in P
    <3>1. \A k \in 1 .. m : k - 1 \in P => k \in P
      <4>1. ASSUME NEW k \in 1 .. m, k - 1 \in P PROVE k \in P
        <5>1. k \in 1 .. n
          OBVIOUS
        <5>2. u[k - 1] \in Seq(E) /\ b[k - 1] \in Seq(E)
          BY <1>1, <4>1, <5>1
        <5>3. u[k - 1] \o b[k - 1] \in Seq(E)
          BY <5>2, ConcatDistinct
        <5> QED
          BY <1>1, <1>10, <5>1, <5>3
      <4> QED
        BY <4>1
    <3>2. m \in Nat
      OBVIOUS
    <3> HIDE DEF P
    <3> QED
      BY <2>2, <3>1, <3>2, TurnByTurn
  <2> QED
    BY <2>1, <2>3
<1> QED
  BY <1>9, <1>10, <1>11 DEF IsUpto

\* The elements of all buckets, one bucket behind the other.
LEMMA FiledLists ==
  ASSUME NEW E, NEW h, NEW n \in Nat, NEW b, Filed(b, n, E, h)
  PROVE  LET all == InBuckets(b, n) IN
         /\ all \in Seq(E) /\ Distinct(all) /\ Elems(all) = Within(b, n)
         /\ IsFiniteSet(Within(b, n)) /\ Len(all) = Cardinality(Within(b, n))
<1>1. /\ b \in [0 .. n - 1 -> Seq(E)]
      /\ \A i \in 0 .. n - 1 : Distinct(b[i]) /\ \A x \in Elems(b[i]) : h[x] % n = i
  BY DEF Filed
<1>2. PICK u \in [0 .. n -> Seq(E)] : IsUpto(u, b, n) /\ InBuckets(b, n) = u[n]
  BY <1>1, InBucketsUpto
<1>u. u[0] = <<>> /\ \A i \in 1 .. n : u[i] = u[i - 1] \o b[i - 1]
  BY <1>2 DEF IsUpto
<1> DEFINE P == {k \in 0 .. n : Distinct(u[k]) /\ Elems(u[k]) = Within(b, k)}
<1>3. 0 \in P
  <2>1. Elems(u[0]) = {} /\ Distinct(u[0])
    BY <1>u DEF Elems, Distinct
  <2>2. Within(b, 0) = {}
    BY DEF Within
  <2>3. 0 \in 0 .. n
    OBVIOUS
  <2> QED
    BY <2>1, <2>2, <2>3
<1>4. ASSUME NEW k \in 1 .. n, k - 1 \in P PROVE k \in P
  <2> DEFINE m == k - 1
  <2>1. /\ m \in 0 .. n - 1 /\ m \in 0 .. n /\ k \in 0 .. n
        /\ 0 .. k - 1 = (0 .. m - 1) \cup {m} /\ m \notin 0 .. m - 1
        /\ \A i \in 0 .. m - 1 : i \in 0 .. n - 1
    <3>1. m \in 0 .. n - 1 /\ k = m + 1
      OBVIOUS
    <3> HIDE DEF m
    <3> QED
      BY <3>1
  <2>2. u[k] = u[m] \o b[m] /\ Distinct(u[m]) /\ Elems(u[m]) = Within(b, m)
    BY <1>u, <1>4
  <2> HIDE DEF m, P
  <2>3. u[m] \in Seq(E) /\ b[m] \in Seq(E)
    BY <1>1, <2>1
  <2>4. Within(b, k) = Within(b, m) \cup Elems(b[m])
    BY <2>1 DEF Within
  <2>5. Within(b, m) \cap Elems(b[m]) = {}
    <3>1. ASSUME NEW x \in Within(b, m), x \in Elems(b[m]) PROVE FALSE
      <4>1. PICK i \in 0 .. m - 1 : x \in Elems(b[i])
        BY DEF Within
      <4>2. h[x] % n = i /\ h[x] % n = m
        BY <1>1, <2>1, <3>1, <4>1
      <4> QED
        BY <2>1, <4>1, <4>2
    <3> QED
      BY <3>1
  <2>6. Distinct(b[m])
    BY <1>1, <2>1
  <2>7. Elems(u[m]) \cap Elems(b[m]) = {}
    BY <2>2, <2>5
  <2>8. /\ Elems(u[m] \o b[m]) = Elems(u[m]) \cup Elems(b[m])
        /\ Distinct(u[m]) /\ Distinct(b[m]) /\ Elems(u[m]) \cap Elems(b[m]) = {}
             => Distinct(u[m] \o b[m])
    BY <2>3, ConcatDistinct
  <2>9. Distinct(u[k]) /\ Elems(u[k]) = Within(b, k)
    BY <2>2, <2>4, <2>6, <2>7, <2>8
  <2> QED
    BY <2>1, <2>9 DEF P
<1>5. n \in P
  <2> HIDE DEF P
  <2> QED
    BY <1>3, <1>4, TurnByTurn
<1>6. u[n] \in Seq(E) /\ Distinct(u[n]) /\ Elems(u[n]) = Within(b, n)
  BY <1>2, <1>5
<1>7. IsFiniteSet(Elems(u[n])) /\ Cardinality(Elems(u[n])) = Len(u[n])
  BY <1>6, DistinctCount
<1> QED
  BY <1>2, <1>6, <1>7

\* Another sequence in one bucket.
LEMMA BucketSet ==
  ASSUME NEW E, NEW h, NEW n \in Nat, NEW b, Filed(b, n, E, h), NEW i \in 0 .. n - 1,
         NEW c \in Seq(E), Distinct(c), \A x \in Elems(c) : h[x] % n = i,
         NEW d, Replaces(d, b, i, c)
  PROVE  /\ Filed(d, n, E, h)
         /\ Within(d, n) = (Within(b, n) \ Elems(b[i])) \cup Elems(c)
<1>1. /\ b \in [0 .. n - 1 -> Seq(E)]
      /\ \A k \in 0 .. n - 1 : Distinct(b[k]) /\ \A x \in Elems(b[k]) : h[x] % n = k
  BY DEF Filed
<1>2. d \in [0 .. n - 1 -> Seq(E)] /\ d[i] = c /\ \A k \in 0 .. n - 1 : k # i => d[k] = b[k]
  BY <1>1 DEF Replaces
<1>3. \A k \in 0 .. n - 1 : Distinct(d[k]) /\ \A x \in Elems(d[k]) : h[x] % n = k
  BY <1>1, <1>2
<1>4. ASSUME NEW x
      PROVE  x \in Within(d, n) <=> x \in (Within(b, n) \ Elems(b[i])) \cup Elems(c)
  <2>1. x \in Within(d, n) <=> \E k \in 0 .. n - 1 : x \in Elems(d[k])
    BY DEF Within
  <2>2. x \in Within(b, n) <=> \E k \in 0 .. n - 1 : x \in Elems(b[k])
    BY DEF Within
  <2>3. \A k \in 0 .. n - 1 : k # i /\ x \in Elems(b[k]) => x \notin Elems(b[i])
    BY <1>1
  <2> QED
    BY <1>2, <2>1, <2>2, <2>3
<1>5. Within(d, n) = (Within(b, n) \ Elems(b[i])) \cup Elems(c)
  BY <1>4
<1> QED
  BY <1>2, <1>3, <1>5 DEF Filed

\* The bucket of an element that is not there, or is.
LEMMA BucketOf ==
  ASSUME NEW E, NEW h \in [E -> Nat], NEW n \in Nat \ {0}, NEW b, Filed(b, n, E, h),
         NEW i \in 0 .. n - 1
  PROVE  /\ b[i] \in Seq(E) /\ Distinct(b[i])
         /\ Elems(b[i]) = {x \in Within(b, n) : h[x] % n = i}
         /\ Within(b, n) \subseteq E
<1>1. /\ b \in [0 .. n - 1 -> Seq(E)]
      /\ \A k \in 0 .. n - 1 : Distinct(b[k]) /\ \A x \in Elems(b[k]) : h[x] % n = k
  BY DEF Filed
<1>2. ASSUME NEW k \in 0 .. n - 1 PROVE Elems(b[k]) \subseteq E
  <2>1. b[k] \in Seq(E)
    BY <1>1
  <2> QED
    BY <2>1 DEF Elems
<1>3. Elems(b[i]) = {x \in Within(b, n) : h[x] % n = i}
  BY <1>1 DEF Within
<1>4. Within(b, n) \subseteq E
  BY <1>2 DEF Within
<1> QED
  BY <1>1, <1>3, <1>4

\* The bucket of e is i.
Hashes(h, e, n, i) == i = h[e] % n

\* A new element at the head of its bucket.
LEMMA FiledPush ==
  ASSUME NEW E, NEW h \in [E -> Nat], NEW n \in Nat \ {0}, NEW b, Filed(b, n, E, h),
         NEW e \in E, e \notin Within(b, n), NEW i, Hashes(h, e, n, i),
         NEW d, Replaces(d, b, i, <<e>> \o b[i])
  PROVE  Filed(d, n, E, h) /\ Within(d, n) = Within(b, n) \cup {e}
<1> DEFINE c == <<e>> \o b[i]
<1>1. i \in 0 .. n - 1 /\ h[e] % n = i
  <2>1. h[e] \in Nat
    OBVIOUS
  <2> QED
    BY <2>1 DEF Hashes
<1>2. /\ b[i] \in Seq(E) /\ Distinct(b[i])
      /\ Elems(b[i]) = {x \in Within(b, n) : h[x] % n = i}
  BY <1>1, BucketOf
<1>3. c \in Seq(E) /\ Elems(c) = Elems(b[i]) \cup {e} /\ Distinct(c)
  BY <1>2, ConsDistinct
<1>d. /\ Replaces(d, b, i, c) /\ n \in Nat /\ i \in 0 .. n - 1
      /\ Filed(b, n, E, h)
  BY <1>1
<1> HIDE DEF c
<1>4. \A x \in Elems(c) : h[x] % n = i
  BY <1>1, <1>2, <1>3
<1>5. Filed(d, n, E, h) /\ Within(d, n) = (Within(b, n) \ Elems(b[i])) \cup Elems(c)
  BY ONLY <1>3, <1>4, <1>d, BucketSet
<1>6. Within(d, n) = Within(b, n) \cup {e}
  BY <1>2, <1>3, <1>5
<1> QED
  BY <1>5, <1>6

\* e has the hash of the j-th element of bucket i, in whose place it goes.
Suits(e, h, b, n, i, j) ==
  h[e] = h[b[i][j]] /\ e \notin Within(b, n) \ {b[i][j]}
ReplacesAt(d, b, i, j, e) == d = [b EXCEPT ![i] = [b[i] EXCEPT ![j] = e]]

\* An element in the place of another one of the same hash.
LEMMA FiledReplace ==
  ASSUME NEW E, NEW h \in [E -> Nat], NEW n \in Nat \ {0}, NEW b, Filed(b, n, E, h),
         NEW i \in 0 .. n - 1, NEW j \in 1 .. Len(b[i]),
         NEW e \in E, Suits(e, h, b, n, i, j), NEW d, ReplacesAt(d, b, i, j, e)
  PROVE  Filed(d, n, E, h) /\ Within(d, n) = (Within(b, n) \ {b[i][j]}) \cup {e}
<1> DEFINE x == b[i][j]
           c == [b[i] EXCEPT ![j] = e]
<1>d. /\ Replaces(d, b, i, c) /\ n \in Nat /\ i \in 0 .. n - 1
      /\ Filed(b, n, E, h) /\ Replaces(c, b[i], j, e)
      /\ h[e] = h[x] /\ e \notin Within(b, n) \ {x}
  BY DEF Replaces, ReplacesAt, Suits
<1> HIDE DEF c
<1>1. /\ b[i] \in Seq(E) /\ Distinct(b[i])
      /\ Elems(b[i]) = {y \in Within(b, n) : h[y] % n = i}
  BY BucketOf
<1>2. x \in Elems(b[i])
  BY DEF Elems
<1>3. e \notin Elems(b[i]) \ {x} /\ h[e] % n = i
  BY <1>1, <1>2, <1>d
<1>4. c \in Seq(E) /\ Distinct(c) /\ Elems(c) = (Elems(b[i]) \ {x}) \cup {e}
  <2> DEFINE s == b[i]
  <2>1. /\ s \in Seq(E) /\ Distinct(s) /\ j \in 1 .. Len(s) /\ e \in E
        /\ e \notin Elems(s) \ {s[j]} /\ Replaces(c, s, j, e)
    BY <1>1, <1>3, <1>d
  <2> HIDE DEF s
  <2>2. /\ c \in Seq(E) /\ Distinct(c)
        /\ Elems(c) = (Elems(s) \ {s[j]}) \cup {e}
    BY ONLY <2>1, SetDistinct
  <2> QED
    BY <2>2 DEF s
<1> HIDE DEF x
<1>5. \A y \in Elems(c) : h[y] % n = i
  BY <1>1, <1>3, <1>4
<1>6. Filed(d, n, E, h) /\ Within(d, n) = (Within(b, n) \ Elems(b[i])) \cup Elems(c)
  BY ONLY <1>4, <1>5, <1>d, BucketSet
<1>7. Within(d, n) = (Within(b, n) \ {x}) \cup {e}
  BY <1>1, <1>2, <1>4, <1>6
<1> QED
  BY <1>6, <1>7 DEF x

\* An element that is taken out.
LEMMA FiledUnlink ==
  ASSUME NEW E, NEW h \in [E -> Nat], NEW n \in Nat \ {0}, NEW b, Filed(b, n, E, h),
         NEW i \in 0 .. n - 1, NEW j \in 1 .. Len(b[i]),
         NEW d, Replaces(d, b, i, Unlinked(b[i], j))
  PROVE  /\ Filed(d, n, E, h) /\ Within(d, n) = Within(b, n) \ {b[i][j]}
         /\ b[i][j] \in Within(b, n)
<1> DEFINE x == b[i][j]
           c == Unlinked(b[i], j)
<1>d. /\ Replaces(d, b, i, c) /\ n \in Nat /\ i \in 0 .. n - 1
      /\ Filed(b, n, E, h)
  OBVIOUS
<1>1. /\ b[i] \in Seq(E) /\ Distinct(b[i])
      /\ Elems(b[i]) = {y \in Within(b, n) : h[y] % n = i}
  BY BucketOf
<1>2. x \in Elems(b[i])
  BY DEF Elems
<1>3. c \in Seq(E) /\ Distinct(c) /\ Elems(c) = Elems(b[i]) \ {x}
  BY <1>1, UnlinkedDistinct
<1> HIDE DEF c, x
<1>4. \A y \in Elems(c) : h[y] % n = i
  BY <1>1, <1>3
<1>5. Filed(d, n, E, h) /\ Within(d, n) = (Within(b, n) \ Elems(b[i])) \cup Elems(c)
  BY ONLY <1>3, <1>4, <1>d, BucketSet
<1>6. Within(d, n) = Within(b, n) \ {x} /\ x \in Within(b, n)
  BY <1>1, <1>2, <1>3, <1>5
<1> QED
  BY <1>5, <1>6 DEF x

\* Empty buckets.
LEMMA FiledNone ==
  ASSUME NEW E, NEW h, NEW n \in Nat
  PROVE  LET b == [i \in 0 .. n - 1 |-> <<>>] IN
         Filed(b, n, E, h) /\ Within(b, n) = {} /\ InBuckets(b, n) = <<>>
<1> DEFINE b == [i \in 0 .. n - 1 |-> <<>>]
<1>1. b \in [0 .. n - 1 -> Seq(E)] /\ \A i \in 0 .. n - 1 : b[i] = <<>>
  OBVIOUS
<1> HIDE DEF b
<1>2. \A i \in 0 .. n - 1 : Elems(b[i]) = {} /\ Distinct(b[i])
  BY <1>1 DEF Elems, Distinct
<1>3. Filed(b, n, E, h) /\ Within(b, n) = {}
  BY <1>1, <1>2 DEF Filed, Within
<1>4. InBuckets(b, n) \in Seq(E) /\ Elems(InBuckets(b, n)) = {}
  BY <1>3, FiledLists
<1>5. InBuckets(b, n) = <<>>
  <2> DEFINE s == InBuckets(b, n)
  <2>1. s \in Seq(E) /\ Elems(s) = {}
    BY <1>4
  <2> HIDE DEF s
  <2>2. Len(s) \in Nat /\ (1 \in 1 .. Len(s) => s[1] \in Elems(s))
    BY <2>1 DEF Elems
  <2>3. Len(s) = 0
    BY <2>1, <2>2
  <2> QED
    BY <2>1, <2>3 DEF s
<1> QED
  BY <1>3, <1>5 DEF b

\* All elements of a sequence pushed on n buckets, each on that of its hash.
LEMMA FiledPushed ==
  ASSUME NEW E, NEW h \in [E -> Nat], NEW n \in Nat \ {0}, NEW all \in Seq(E),
         Distinct(all), NEW place, \A k \in 1 .. Len(all) : place[k] = h[all[k]] % n
  PROVE  LET b == Pushed(all, place, n) IN
         Filed(b, n, E, h) /\ Within(b, n) = Elems(all)
<1> DEFINE N == Len(all)
           S == [0 .. n - 1 -> Seq(E)]
           base == [i \in 0 .. n - 1 |-> <<>>]
           next(x, k) == [x EXCEPT ![place[k]] = <<all[k]>> \o @]
           turn == [p \in (1 .. N) \X S |-> next(p[2], p[1])]
           F(f) == [k \in 0 .. N |-> IF k = 0 THEN base ELSE next(f[k - 1], k)]
           a == CHOOSE f : f = F(f)
<1>1. N \in Nat /\ \A k \in 1 .. N : all[k] \in E /\ place[k] \in 0 .. n - 1
  <2>1. N \in Nat /\ \A k \in 1 .. N : all[k] \in E
    OBVIOUS
  <2>2. ASSUME NEW k \in 1 .. N PROVE place[k] \in 0 .. n - 1
    <3>1. h[all[k]] \in Nat /\ place[k] = h[all[k]] % n
      BY <2>1
    <3> QED
      BY <3>1
  <2> QED
    BY <2>1, <2>2
<1> HIDE DEF N
<1>2. base \in S
  OBVIOUS
<1>3. ASSUME NEW x \in S, NEW k \in 1 .. N PROVE next(x, k) \in S
  <2>1. x[place[k]] \in Seq(E) /\ all[k] \in E
    BY <1>1
  <2>2. <<all[k]>> \o x[place[k]] \in Seq(E)
    BY <2>1, ConsDistinct
  <2> QED
    BY <2>2
<1>4. turn \in [(1 .. N) \X S -> S]
  <2> HIDE DEF S, next
  <2> QED
    BY <1>3
<1>5. PICK g \in [0 .. N -> S] : Turned(g, N, base, turn)
  <2> HIDE DEF turn, S, base
  <2> QED
    BY <1>1, <1>2, <1>4, Turns
<1>6. \A k \in 1 .. N : k - 1 \in 0 .. N /\ k \in 0 .. N /\ k # 0
  BY <1>1
<1>7. \A k \in 0 .. N : k # 0 => k \in 1 .. N
  BY <1>1
<1>8. ASSUME NEW k \in 1 .. N PROVE g[k] = next(g[k - 1], k)
  <2> HIDE DEF S, next
  <2>1. <<k, g[k - 1]>> \in (1 .. N) \X S
    BY <1>5, <1>6
  <2>2. turn[<<k, g[k - 1]>>] = next(g[k - 1], k)
    BY <2>1
  <2> QED
    BY <1>5, <2>2 DEF Turned
<1>9. g = F(g)
  <2> HIDE DEF next, base
  <2>1. g[0] = base
    BY <1>5 DEF Turned
  <2>2. \A k \in 0 .. N : g[k] = IF k = 0 THEN base ELSE next(g[k - 1], k)
    BY <1>7, <1>8, <2>1
  <2> QED
    BY <2>2
<1>10. a = F(a)
  BY <1>9
<1>11. Pushed(all, place, n) = a[N]
  BY DEF Pushed, N
<1>12. a[0] = base /\ \A k \in 1 .. N : a[k] = next(a[k - 1], k)
  <2> HIDE DEF a, next, base
  <2>1. \A k \in 0 .. N : a[k] = IF k = 0 THEN base ELSE next(a[k - 1], k)
    BY <1>10
  <2>2. 0 \in 0 .. N
    BY <1>1
  <2>3. a[0] = base
    BY <2>1, <2>2
  <2>4. ASSUME NEW k \in 1 .. N PROVE a[k] = next(a[k - 1], k)
    BY <1>6, <2>1
  <2> QED
    BY <2>3, <2>4
<1> DEFINE Pre(k) == {all[j] : j \in 1 .. k}
           P == {k \in 0 .. N : Filed(a[k], n, E, h) /\ Within(a[k], n) = Pre(k)}
<1>13. 0 \in P
  <2> HIDE DEF a
  <2>1. Pre(0) = {} /\ n \in Nat
    OBVIOUS
  <2>2. Filed(base, n, E, h) /\ Within(base, n) = {}
    BY <2>1, FiledNone
  <2>3. 0 \in 0 .. N
    BY <1>1
  <2> QED
    BY <1>12, <2>1, <2>2, <2>3
<1>14. ASSUME NEW k \in 1 .. N, k - 1 \in P PROVE k \in P
  <2> DEFINE b == a[k - 1]
             i == place[k]
             e == all[k]
             d == a[k]
  <2>1. Filed(b, n, E, h) /\ Within(b, n) = Pre(k - 1)
    BY <1>14
  <2>2. Pre(k) = Pre(k - 1) \cup {e}
    <3>1. 1 .. k = (1 .. k - 1) \cup {k}
      BY <1>1
    <3> QED
      BY <3>1
  <2>3. e \notin Pre(k - 1)
    <3>1. \A j \in 1 .. k - 1 : j \in 1 .. N /\ j # k
      BY <1>1
    <3>2. \A j \in 1 .. k - 1 : all[j] # all[k]
      BY <3>1 DEF Distinct, N
    <3> QED
      BY <3>2
  <2>4. Replaces(d, b, i, <<e>> \o b[i])
    BY <1>12 DEF Replaces
  <2>5. e \in E /\ Hashes(h, e, n, i)
    BY <1>1 DEF N, Hashes
  <2> HIDE DEF a, b, i, e, d, Pre
  <2>6. e \notin Within(b, n)
    BY <2>1, <2>3
  <2>7. Filed(d, n, E, h) /\ Within(d, n) = Within(b, n) \cup {e}
    <3>1. n \in Nat \ {0} /\ h \in [E -> Nat]
      OBVIOUS
    <3> QED
      BY ONLY <2>1, <2>4, <2>5, <2>6, <3>1, FiledPush
  <2>8. Within(d, n) = Pre(k)
    BY <2>1, <2>2, <2>7
  <2> QED
    BY <1>6, <2>7, <2>8 DEF d
<1>15. N \in P
  <2> HIDE DEF P
  <2> QED
    BY <1>1, <1>13, <1>14, TurnByTurn
<1>16. Filed(a[N], n, E, h) /\ Within(a[N], n) = Pre(N)
  <2> HIDE DEF a
  <2> QED
    BY <1>15
<1>17. Pre(N) = Elems(all)
  BY DEF Elems, N
<1> QED
  <2> HIDE DEF a, Pre
  <2> QED
    BY <1>11, <1>16, <1>17

-----------------------------------------------------------------------------
(* Elements of which there is one per key h, as a function from the keys.  *)

Unique(C, h) == \A x, y \in C : h[x] = h[y] => x = y

IsDict(items, C, h, s) ==
  /\ items = [m \in DOMAIN items |-> items[m]]
  /\ DOMAIN items = {h[x] : x \in C}
  /\ \A x \in C : items[h[x]] = s[x]

IsWith(new, items, n, e) ==
  new = [m \in DOMAIN items \cup {n} |-> IF m = n THEN e ELSE items[m]]
IsWithout(new, items, n) == new = [m \in DOMAIN items \ {n} |-> items[m]]

\* The only element of a key is put there ...
LEMMA DictWith ==
  ASSUME NEW C, NEW D, NEW h, NEW s, NEW items, NEW new, NEW e,
         IsDict(items, C, h, s), IsDict(new, D, h, s), Unique(C, h),
         D = {x \in C : h[x] # h[e]} \cup {e}
  PROVE  IsWith(new, items, h[e], s[e]) /\ Unique(D, h)
<1> DEFINE f == [m \in DOMAIN items \cup {h[e]} |-> IF m = h[e] THEN s[e] ELSE items[m]]
<1>1. DOMAIN new = DOMAIN items \cup {h[e]}
  BY DEF IsDict
<1>2. ASSUME NEW m \in DOMAIN items \cup {h[e]}
      PROVE  new[m] = IF m = h[e] THEN s[e] ELSE items[m]
  <2>1. CASE m = h[e]
    BY <2>1 DEF IsDict
  <2>2. CASE m # h[e]
    <3>1. PICK x \in C : m = h[x]
      BY <2>2 DEF IsDict
    <3>2. x \in D
      BY <2>2, <3>1
    <3> QED
      BY <2>2, <3>1, <3>2 DEF IsDict
  <2> QED
    BY <2>1, <2>2
<1>3. new = [m \in DOMAIN new |-> new[m]]
  BY DEF IsDict
<1>4. new = f
  BY <1>1, <1>2, <1>3
<1>5. Unique(D, h)
  BY DEF Unique
<1> QED
  BY <1>4, <1>5 DEF IsWith

\* ... or taken away.
LEMMA DictWithout ==
  ASSUME NEW C, NEW D, NEW h, NEW s, NEW items, NEW new, NEW n,
         IsDict(items, C, h, s), IsDict(new, D, h, s), Unique(C, h),
         D = {x \in C : h[x] # n}
  PROVE  IsWithout(new, items, n) /\ Unique(D, h)
<1> DEFINE f == [m \in DOMAIN items \ {n} |-> items[m]]
<1>1. DOMAIN new = DOMAIN items \ {n}
  BY DEF IsDict
<1>2. ASSUME NEW m \in DOMAIN items \ {n} PROVE new[m] = items[m]
  <2>1. PICK x \in C : m = h[x]
    BY DEF IsDict
  <2>2. x \in D
    BY <2>1
  <2> QED
    BY <2>1, <2>2 DEF IsDict
<1>3. new = [m \in DOMAIN new |-> new[m]]
  BY DEF IsDict
<1>4. new = f
  BY <1>1, <1>2, <1>3
<1>5. Unique(D, h)
  BY DEF Unique
<1> QED
  BY <1>4, <1>5 DEF IsWithout

\* The function is determined by the elements.
LEMMA DictSame ==
  ASSUME NEW C, NEW h, NEW s, NEW items, NEW new,
         IsDict(items, C, h, s), IsDict(new, C, h, s)
  PROVE  new = items
<1>1. DOMAIN new = DOMAIN items
  BY DEF IsDict
<1>2. ASSUME NEW m \in DOMAIN items PROVE new[m] = items[m]
  <2>1. PICK x \in C : m = h[x]
    BY DEF IsDict
  <2> QED
    BY <2>1 DEF IsDict
<1>3. items = [m \in DOMAIN items |-> items[m]] /\ new = [m \in DOMAIN new |-> new[m]]
  BY DEF IsDict
<1> QED
  BY <1>1, <1>2, <1>3

\* It has as many entries as there are elements.
LEMMA DictCount ==
  ASSUME NEW C, NEW h, NEW s, NEW items,
         IsDict(items, C, h, s), Unique(C, h), IsFiniteSet(C)
  PROVE  IsFiniteSet(DOMAIN items) /\ Cardinality(DOMAIN items) = Cardinality(C)
<1> DEFINE D == DOMAIN items
           g == [x \in C |-> h[x]]
<1>1. D = {h[x] : x \in C}
  BY DEF IsDict
<1> HIDE DEF D
<1>2. g \in [C -> D] /\ \A x \in C : g[x] = h[x]
  BY <1>1
<1> HIDE DEF g
<1>3. DOMAIN g = C /\ \A x, y \in C : g[x] = g[y] => x = y
  BY <1>2 DEF Unique
<1>4. \A t \in D : \E x \in C : g[x] = t
  BY <1>1, <1>2
<1>5. g \in Bijection(C, D)
  BY <1>2, <1>3, <1>4 DEF Bijection, Injection, Surjection, IsInjective
<1>6. IsFiniteSet(D) /\ Cardinality(D) = Cardinality(C)
  BY <1>5, FS_Bijection DEF ExistsBijection
<1> QED
  BY <1>6 DEF D

\* The function as the maps build it of a list of the elements.
LEMMA DictIs ==
  ASSUME NEW E, NEW all \in Seq(E), NEW h, NEW s, Unique(Elems(all), h), NEW items,
         items = [m \in {h[all[i]] : i \in 1 .. Len(all)} |->
                    s[all[CHOOSE i \in 1 .. Len(all) : h[all[i]] = m]]]
  PROVE  IsDict(items, Elems(all), h, s)
<1> DEFINE n == Len(all)
           At(m) == CHOOSE i \in 1 .. n : h[all[i]] = m
<1>1. \A i \in 1 .. n : At(h[all[i]]) \in 1 .. n /\ h[all[At(h[all[i]])]] = h[all[i]]
  OBVIOUS
<1>2. DOMAIN items = {h[all[i]] : i \in 1 .. n} /\ items = [m \in DOMAIN items |-> items[m]]
  OBVIOUS
<1>3. \A i \in 1 .. n : items[h[all[i]]] = s[all[At(h[all[i]])]]
  OBVIOUS
<1> HIDE DEF At
<1>4. \A i \in 1 .. n : all[At(h[all[i]])] = all[i]
  <2>1. \A i \in 1 .. n : all[i] \in Elems(all)
    BY DEF Elems
  <2> QED
    BY <1>1, <2>1 DEF Unique
<1>5. ASSUME NEW x \in Elems(all) PROVE items[h[x]] = s[x]
  <2>1. PICK i \in 1 .. n : x = all[i]
    BY DEF Elems
  <2>2. items[h[all[i]]] = s[all[At(h[all[i]])]] /\ all[At(h[all[i]])] = all[i]
    BY <1>3, <1>4
  <2> QED
    BY <2>1, <2>2
<1>6. DOMAIN items = {h[x] : x \in Elems(all)}
  BY <1>2 DEF Elems
<1> QED
  BY <1>2, <1>5, <1>6 DEF IsDict

-----------------------------------------------------------------------------
(* The load of a table, in units of which there are a multiple of 2n.      *)
\* UNITS-ths of a load are exact: of n buckets, and of 2 * n.
Splits(U, n) == U % (2 * n) = 0
\* load is size/n, in U-ths.
IsLoad(load, n, size, U) == load * n = size * U

\* The load is counted in units that every capacity divides, and once more by two.
LEMMA UnitsSplit ==
  ASSUME NEW U \in Nat, NEW n \in Nat \ {0}, Splits(U, n)
  PROVE  (U \div n) * n = U /\ \E q \in Nat : U = 2 * (n * q)
<1> DEFINE m == 2 * n
           q == U \div m
<1>1. m \in Nat \ {0}
  OBVIOUS
<1>2. q \in Nat /\ U = m * q
  <2>1. U % m = 0
    BY DEF Splits
  <2> HIDE DEF m
  <2>2. U = m * (U \div m) + (U % m) /\ U \div m \in Nat
    BY <1>1
  <2> QED
    BY <1>1, <2>1, <2>2
<1>3. U = 2 * (n * q)
  BY <1>2
<1> HIDE DEF m, q
<1>4. U = n * (2 * q) /\ 2 * q \in Nat
  BY <1>2, <1>3
<1>5. U \div n = 2 * q
  <2> DEFINE r == 2 * q
  <2>1. r \in Nat /\ U = n * r
    BY <1>4
  <2> HIDE DEF r
  <2>2. U \div n = r
    BY <2>1
  <2> QED
    BY <2>2 DEF r
<1>6. (U \div n) * n = U
  <2> DEFINE r == 2 * q
  <2>1. r \in Nat /\ U = n * r /\ U \div n = r
    BY <1>4, <1>5
  <2> HIDE DEF r
  <2> QED
    BY <2>1
<1> QED
  BY <1>2, <1>3, <1>6

\* The load stays size/capacity when one increment is added or subtracted.
LEMMA LoadMore ==
  ASSUME NEW U \in Nat, NEW n \in Nat \ {0}, Splits(U, n),
         NEW load \in Int, NEW size \in Int, IsLoad(load, n, size, U)
  PROVE  /\ IsLoad(load + (U \div n), n, size + 1, U)
         /\ IsLoad(load - (U \div n), n, size - 1, U)
<1> DEFINE d == U \div n
<1>1. d * n = U /\ d \in Int
  <2>1. d * n = U
    BY UnitsSplit
  <2>2. d \in Int
    OBVIOUS
  <2> QED
    BY <2>1, <2>2
<1> HIDE DEF d
<1>2. (load + d) * n = load * n + d * n /\ (load - d) * n = load * n - d * n
  BY <1>1
<1>3. (size + 1) * U = size * U + U /\ (size - 1) * U = size * U - U
  OBVIOUS
<1>4. load * n = size * U
  BY DEF IsLoad
<1>5. (load + d) * n = (size + 1) * U /\ (load - d) * n = (size - 1) * U
  BY <1>1, <1>2, <1>3, <1>4
<1> QED
  BY <1>5 DEF d, IsLoad

\* The load stays size/capacity when the capacity is doubled and it is halved.
LEMMA LoadHalved ==
  ASSUME NEW U \in Nat, NEW n \in Nat \ {0}, Splits(U, n),
         NEW load \in Int, NEW size \in Int, IsLoad(load, n, size, U)
  PROVE  IsLoad(load \div 2, 2 * n, size, U)
<1>1. PICK q \in Nat : U = 2 * (n * q)
  BY UnitsSplit
<1> DEFINE p == size * q
<1>2. p \in Int
  OBVIOUS
<1>3. size * U = n * (2 * p)
  BY <1>1
<1> HIDE DEF p
<1>4. load * n = (2 * p) * n
  BY <1>2, <1>3 DEF IsLoad
<1>5. load = 2 * p
  BY <1>2, <1>4
<1>6. load \div 2 = p
  BY <1>2, <1>5
<1>7. p * (2 * n) = n * (2 * p)
  BY <1>2
<1> QED
  BY <1>3, <1>6, <1>7 DEF IsLoad

-----------------------------------------------------------------------------
(* Elements taken out of the middle.                                       *)

\* A sequence without its j-th element.
Lacks(t, s, j, E) ==
  /\ t \in Seq(E) /\ Len(t) = Len(s) - 1
  /\ \A i \in 1 .. Len(s) - 1 : t[i] = IF i < j THEN s[i] ELSE s[i + 1]

\* A sequence without its j-th element has the others, in their order.
LEMMA UnlinkedElems ==
  ASSUME NEW E, NEW s \in Seq(E), NEW j \in 1 .. Len(s)
  PROVE  Lacks(Unlinked(s, j), s, j, E)
<1> DEFINE t == Unlinked(s, j)
           n == Len(s)
<1>1. n \in Nat \ {0} /\ j \in 1 .. n /\ \A i \in 1 .. n : s[i] \in E
  OBVIOUS
<1>2. t = [k \in 1 .. n - 1 |-> IF k < j THEN s[k] ELSE s[k + 1]]
  BY DEF Unlinked
<1> HIDE DEF t, n
<1>3. \A k \in 1 .. n - 1 : k \in 1 .. n /\ k + 1 \in 1 .. n
  BY <1>1
<1>4. \A k \in 1 .. n - 1 : t[k] = IF k < j THEN s[k] ELSE s[k + 1]
  BY <1>2
<1>5. t \in [1 .. n - 1 -> E]
  <2>1. \A k \in 1 .. n - 1 : t[k] \in E
    BY <1>1, <1>3, <1>4
  <2> QED
    BY <1>2, <2>1
<1>6. t \in Seq(E) /\ Len(t) = n - 1
  BY <1>1, <1>5
<1> QED
  BY <1>4, <1>6 DEF Lacks, t, n

\* The links past the k-th node.
LinksPast(new, s, k, link, end) ==
  /\ new[end] = IF k = 1 THEN link[s[1]] ELSE link[end]
  /\ \A i \in 1 .. Len(s) :
       i # k => new[s[i]] = IF i = k - 1 THEN link[s[k]] ELSE link[s[i]]

\* A node that is unlinked.
LEMMA ChainPast ==
  ASSUME NEW s, NEW link, NEW nodes, NEW end,
         IsChain(s, link[end], link, nodes, end), NEW k \in 1 .. Len(s),
         NEW new, LinksPast(new, s, k, link, end)
  PROVE  IsChain(Unlinked(s, k), new[end], new, nodes \ {s[k]}, end)
<1> DEFINE t == Unlinked(s, k)
           n == Len(s)
           M == nodes \ {s[k]}
<1>1. /\ s \in Seq(nodes) /\ end \notin nodes /\ n \in Nat \ {0} /\ k \in 1 .. n
      /\ \A i, j \in 1..n : s[i] = s[j] => i = j
      /\ \A i \in 1..n : link[s[i]] = IF i = n THEN end ELSE s[i + 1]
      /\ \A i \in 1 .. n : s[i] \in nodes
      /\ link[end] = s[1] /\ nodes = Elems(s) /\ Distinct(s)
  <2>1. s \in Seq(nodes) /\ n \in Nat /\ (s = <<>> <=> n = 0)
        /\ \A i \in 1 .. n : s[i] \in nodes
    BY ChainElems
  <2>2. s # <<>> /\ n # 0
    BY <2>1
  <2> QED
    BY <2>1, <2>2 DEF IsChain, Elems, Distinct
<1>2. /\ t \in Seq(nodes) /\ Distinct(t) /\ Elems(t) = M
      /\ Len(t) = n - 1
      /\ \A i \in 1 .. n - 1 : t[i] = IF i < k THEN s[i] ELSE s[i + 1]
  BY <1>1, UnlinkedDistinct, UnlinkedElems DEF Lacks
<1>3. /\ new[end] = IF k = 1 THEN link[s[1]] ELSE link[end]
      /\ \A i \in 1 .. n : i # k => new[s[i]] = IF i = k - 1 THEN link[s[k]] ELSE link[s[i]]
  BY DEF LinksPast
<1>0. n \in Nat \ {0} /\ k \in 1 .. n
  BY <1>1
<1> HIDE DEF t, n, M
<1>4. t \in Seq(M) /\ M = {t[i] : i \in 1 .. Len(t)}
  <2>1. \A i \in 1 .. Len(t) : t[i] \in M
    BY <1>2 DEF Elems
  <2> QED
    BY <1>2, <2>1 DEF Elems
<1>5. \A i \in 1 .. n - 1 : /\ i \in 1 .. n /\ i + 1 \in 1 .. n
                            /\ i + 1 = n <=> i = n - 1
                            /\ i + 1 - 1 = i
                            /\ i < k => i # k
                            /\ ~ (i < k) => i + 1 # k /\ i + 1 # k - 1
  BY <1>0
<1>6. ASSUME NEW i \in 1 .. n - 1
      PROVE  new[t[i]] = IF i = n - 1 THEN end ELSE t[i + 1]
  <2>1. CASE ~ (i < k)
    <3>1. t[i] = s[i + 1] /\ new[s[i + 1]] = link[s[i + 1]]
      BY <1>2, <1>3, <1>5, <2>1
    <3>2. i # n - 1 => t[i + 1] = s[(i + 1) + 1]
      <4>1. i # n - 1 => i + 1 \in 1 .. n - 1 /\ ~ (i + 1 < k)
        BY <1>0, <2>1
      <4> QED
        BY <1>2, <4>1
    <3> QED
      BY <1>1, <1>5, <3>1, <3>2
  <2>2. CASE i < k - 1
    <3>1. i < k /\ i # k - 1 /\ i # k /\ i # n - 1 /\ i # n /\ i + 1 < k /\ i + 1 \in 1 .. n - 1
      BY <1>0, <2>2
    <3>2. t[i] = s[i] /\ new[s[i]] = link[s[i]] /\ t[i + 1] = s[i + 1]
      BY <1>2, <1>3, <1>5, <3>1
    <3> QED
      BY <1>1, <1>5, <3>1, <3>2
  <2>3. CASE i = k - 1
    <3>1. i < k /\ i # k /\ (k = n <=> i = n - 1) /\ k = i + 1
      BY <1>0, <2>3
    <3>2. t[i] = s[i] /\ new[s[i]] = link[s[k]]
      BY <1>2, <1>3, <1>5, <2>3, <3>1
    <3>3. i # n - 1 => t[i + 1] = s[k + 1]
      <4>1. i # n - 1 => i + 1 \in 1 .. n - 1 /\ ~ (i + 1 < k)
        BY <1>0, <2>3
      <4> QED
        BY <1>2, <3>1, <4>1
    <3> QED
      BY <1>0, <1>1, <3>1, <3>2, <3>3
  <2> QED
    BY <1>0, <2>1, <2>2, <2>3
<1>7. new[end] = IF t = <<>> THEN end ELSE t[1]
  <2>1. t = <<>> <=> n = 1
    BY <1>0, <1>2
  <2>2. n # 1 => 1 \in 1 .. n - 1
    BY <1>0
  <2>3. 1 \in 1 .. n /\ 1 + 1 = 2
    BY <1>0
  <2>4. CASE k = 1
    <3>1. n # 1 => t[1] = s[2]
      BY <1>2, <2>2, <2>3, <2>4
    <3>2. link[s[1]] = IF n = 1 THEN end ELSE s[2]
      BY <1>1, <2>3
    <3> QED
      BY <1>3, <2>1, <2>4, <3>1, <3>2
  <2>5. CASE k # 1
    <3>1. n # 1 /\ 1 < k
      BY <1>0, <2>5
    <3>2. t[1] = s[1]
      BY <1>2, <2>2, <3>1
    <3> QED
      BY <1>1, <1>3, <2>1, <2>5, <3>1, <3>2
  <2> QED
    BY <2>4, <2>5
<1>8. end \notin M
  BY <1>1 DEF M
<1>9. IsChain(t, new[end], new, M, end)
  BY <1>2, <1>4, <1>6, <1>7, <1>8 DEF IsChain, Distinct
<1> QED
  BY <1>9 DEF t, M

\* The neighbours of a node in a list that is linked both ways.
LEMMA DoublyAt ==
  ASSUME NEW s, NEW t, NEW fore, NEW back, NEW nodes, NEW end,
         Doubly(s, t, fore, back, nodes, end), NEW k \in 1 .. Len(s)
  PROVE  /\ fore[s[k]] = IF k = Len(s) THEN end ELSE s[k + 1]
         /\ back[s[k]] = IF k = 1 THEN end ELSE s[k - 1]
         /\ Len(s) + 1 - k \in 1 .. Len(t) /\ t[Len(s) + 1 - k] = s[k]
<1> DEFINE n == Len(s)
           m == n + 1 - k
<1>1. /\ n \in Nat /\ Len(t) = n /\ \A i \in 1 .. n : t[i] = s[n + 1 - i]
      /\ fore[s[k]] = IF k = n THEN end ELSE s[k + 1]
      /\ \A i \in 1 .. n : back[t[i]] = IF i = n THEN end ELSE t[i + 1]
  <2>1. /\ IsChain(s, fore[end], fore, nodes, end)
        /\ IsChain(t, back[end], back, nodes, end)
        /\ Len(t) = n /\ \A i \in 1 .. n : t[i] = s[n + 1 - i]
    BY DEF Doubly
  <2>2. n \in Nat
    BY <2>1, ChainElems
  <2> HIDE DEF n
  <2>3. \A i \in 1 .. n : fore[s[i]] = IF i = n THEN end ELSE s[i + 1]
    BY <2>1 DEF IsChain, n
  <2>4. \A i \in 1 .. n : back[t[i]] = IF i = n THEN end ELSE t[i + 1]
    BY <2>1 DEF IsChain
  <2> QED
    BY <2>1, <2>2, <2>3, <2>4 DEF n
<1>0. n \in Nat /\ k \in 1 .. n
  BY <1>1
<1> HIDE DEF n
<1>2. /\ m \in 1 .. n /\ n + 1 - m = k /\ (m = n <=> k = 1)
      /\ k # 1 => m + 1 \in 1 .. n /\ n + 1 - (m + 1) = k - 1
  BY <1>0
<1> HIDE DEF m
<1>3. t[m] = s[k] /\ (k # 1 => t[m + 1] = s[k - 1])
  BY <1>1, <1>2
<1>4. back[s[k]] = IF k = 1 THEN end ELSE s[k - 1]
  BY <1>1, <1>2, <1>3
<1> QED
  BY <1>1, <1>2, <1>3, <1>4 DEF n, m

\* new is the links but that from leads to its next but one, to.
Bypasses(new, links, p, from, to, all) ==
  /\ new[from] = to
  /\ \A q \in all : q # p /\ q # from => new[q] = links[q]

\* A chain whose k-th node is bypassed goes through the others.
LEMMA ForePast ==
  ASSUME NEW s, NEW t, NEW fore, NEW back, NEW nodes, NEW end,
         Doubly(s, t, fore, back, nodes, end), NEW k \in 1 .. Len(s),
         NEW new, Bypasses(new, fore, s[k], back[s[k]], fore[s[k]], nodes \cup {end})
  PROVE  IsChain(Unlinked(s, k), new[end], new, nodes \ {s[k]}, end)
<1> DEFINE n == Len(s)
           p == s[k]
<1>1. /\ IsChain(s, fore[end], fore, nodes, end)
      /\ n \in Nat /\ end \notin nodes
      /\ \A i \in 1 .. n : s[i] \in nodes /\ s[i] # end
      /\ \A i, j \in 1 .. n : s[i] = s[j] => i = j
  <2>1. IsChain(s, fore[end], fore, nodes, end)
    BY DEF Doubly
  <2> QED
    BY <2>1, ChainElems
<1>2. back[p] = IF k = 1 THEN end ELSE s[k - 1]
  BY DoublyAt
<1>3. /\ new[back[p]] = fore[p]
      /\ \A q \in nodes \cup {end} : q # p /\ q # back[p] => new[q] = fore[q]
  BY DEF Bypasses
<1>0. n \in Nat /\ k \in 1 .. n
  BY <1>1
<1> HIDE DEF n, p
<1>4. k # 1 => k - 1 \in 1 .. n
  BY <1>0
<1>5. \A i \in 1 .. n : /\ s[i] = p <=> i = k
                        /\ s[i] = back[p] <=> i = k - 1
  <2>1. p = s[k]
    BY DEF p
  <2>2. ASSUME NEW i \in 1 .. n PROVE s[i] = back[p] <=> i = k - 1
    <3>1. k = 1 => i # k - 1
      BY <1>0
    <3> QED
      BY <1>0, <1>1, <1>2, <1>4, <3>1
  <2> QED
    BY <1>0, <1>1, <2>1, <2>2
<1>6. ASSUME NEW i \in 1 .. n, i # k
      PROVE  new[s[i]] = IF i = k - 1 THEN fore[p] ELSE fore[s[i]]
  BY <1>1, <1>3, <1>5, <1>6
<1>7. new[end] = IF k = 1 THEN fore[s[1]] ELSE fore[end]
  <2>1. CASE k = 1
    <3>1. p = s[1]
      BY <2>1 DEF p
    <3> QED
      BY <1>2, <1>3, <2>1, <3>1
  <2>2. CASE k # 1
    <3>1. s[k - 1] # end /\ p # end
      BY <1>0, <1>1, <1>4, <2>2 DEF p
    <3> QED
      BY <1>2, <1>3, <2>2, <3>1
  <2> QED
    BY <2>1, <2>2
<1>8. LinksPast(new, s, k, fore, end)
  BY <1>6, <1>7 DEF LinksPast, n, p
<1> QED
  BY <1>1, <1>8, ChainPast

\* A node that is taken out of such a list.
LEMMA DoublyPast ==
  ASSUME NEW s, NEW t, NEW fore, NEW back, NEW nodes, NEW end,
         Doubly(s, t, fore, back, nodes, end), NEW k \in 1 .. Len(s), NEW p, p = s[k],
         NEW new, Bypasses(new, fore, p, back[p], fore[p], nodes \cup {end}),
         NEW old, Bypasses(old, back, p, fore[p], back[p], nodes \cup {end})
  PROVE  Doubly(Unlinked(s, k), Unlinked(t, Len(s) + 1 - k), new, old, nodes \ {p}, end)
<1> DEFINE n == Len(s)
           m == n + 1 - k
           u == Unlinked(s, k)
           v == Unlinked(t, m)
<1>1. /\ n \in Nat /\ Len(t) = n /\ \A i \in 1 .. n : t[i] = s[n + 1 - i]
      /\ s \in Seq(nodes) /\ t \in Seq(nodes)
  BY DEF Doubly, IsChain
<1>2. m \in 1 .. Len(t) /\ t[m] = p
  BY DoublyAt
<1>3. Doubly(t, s, back, fore, nodes, end)
  BY DoublySame
<1>4. IsChain(u, new[end], new, nodes \ {p}, end)
  BY ForePast
<1>5. IsChain(v, old[end], old, nodes \ {p}, end)
  <2>1. /\ m \in 1 .. Len(t)
        /\ Bypasses(old, back, t[m], fore[t[m]], back[t[m]], nodes \cup {end})
    BY <1>2
  <2> HIDE DEF m
  <2>2. IsChain(Unlinked(t, m), old[end], old, nodes \ {t[m]}, end)
    BY ONLY <1>3, <2>1, ForePast
  <2> QED
    BY <1>2, <2>2
<1>6. /\ Len(u) = n - 1 /\ \A i \in 1 .. n - 1 : u[i] = IF i < k THEN s[i] ELSE s[i + 1]
  BY <1>1, UnlinkedElems DEF Lacks
<1>7. /\ Len(v) = n - 1 /\ \A i \in 1 .. n - 1 : v[i] = IF i < m THEN t[i] ELSE t[i + 1]
  <2> HIDE DEF m
  <2> QED
    BY <1>1, <1>2, UnlinkedElems DEF Lacks
<1>0. n \in Nat /\ k \in 1 .. n
  BY <1>1
<1> HIDE DEF u, v, n
<1>8. ASSUME NEW i \in 1 .. n - 1 PROVE v[i] = u[(n - 1) + 1 - i]
  <2>1. CASE i < m
    <3>1. /\ ~ ((n - 1) + 1 - i < k) /\ (n - 1) + 1 - i \in 1 .. n - 1
          /\ ((n - 1) + 1 - i) + 1 = n + 1 - i /\ i \in 1 .. n
      BY <1>0, <2>1
    <3> HIDE DEF m
    <3>2. v[i] = t[i] /\ t[i] = s[n + 1 - i]
      BY <1>1, <1>7, <2>1, <3>1
    <3>3. u[(n - 1) + 1 - i] = s[((n - 1) + 1 - i) + 1]
      BY <1>6, <3>1
    <3> QED
      BY <3>1, <3>2, <3>3
  <2>2. CASE ~ (i < m)
    <3>1. /\ (n - 1) + 1 - i < k /\ (n - 1) + 1 - i \in 1 .. n - 1
          /\ n + 1 - (i + 1) = (n - 1) + 1 - i /\ i + 1 \in 1 .. n
      BY <1>0, <2>2
    <3> HIDE DEF m
    <3>2. v[i] = t[i + 1] /\ t[i + 1] = s[n + 1 - (i + 1)]
      BY <1>1, <1>7, <2>2, <3>1
    <3>3. u[(n - 1) + 1 - i] = s[(n - 1) + 1 - i]
      BY <1>6, <3>1
    <3> QED
      BY <3>1, <3>2, <3>3
  <2> QED
    BY <2>1, <2>2
<1>9. Doubly(u, v, new, old, nodes \ {p}, end)
  BY <1>4, <1>5, <1>6, <1>7, <1>8 DEF Doubly
<1> QED
  BY <1>9 DEF u, v, m, n

\* f along a sequence without one of its elements.
LEMMA AlongPast ==
  ASSUME NEW H, NEW s \in Seq(H), NEW f, NEW V, Along(s, f) \in Seq(V),
         NEW k \in 1 .. Len(s), NEW g,
         \A i \in 1 .. Len(s) : i # k => g[s[i]] = f[s[i]]
  PROVE  Along(Unlinked(s, k), g) = Unlinked(Along(s, f), k)
<1> DEFINE n == Len(s)
           t == Unlinked(s, k)
           u == Along(s, f)
<1>1. n \in Nat /\ k \in 1 .. n /\ Len(u) = n /\ \A i \in 1 .. n : u[i] = f[s[i]]
  BY AlongElems
<1>2. Len(t) = n - 1 /\ \A i \in 1 .. n - 1 : t[i] = IF i < k THEN s[i] ELSE s[i + 1]
  BY UnlinkedElems DEF Lacks
<1>3. Along(t, g) = [i \in 1 .. n - 1 |-> g[t[i]]]
  BY <1>2 DEF Along
<1>4. Unlinked(u, k) = [i \in 1 .. n - 1 |-> IF i < k THEN u[i] ELSE u[i + 1]]
  BY <1>1 DEF Unlinked
<1>5. \A i \in 1 .. n : i # k => g[s[i]] = u[i]
  BY <1>1
<1> HIDE DEF n, t, u
<1>6. ASSUME NEW i \in 1 .. n - 1 PROVE g[t[i]] = IF i < k THEN u[i] ELSE u[i + 1]
  <2>1. i \in 1 .. n /\ i + 1 \in 1 .. n /\ (i < k => i # k) /\ (~ (i < k) => i + 1 # k)
    BY <1>1
  <2> QED
    BY <1>2, <1>5, <2>1
<1>7. Along(t, g) = Unlinked(u, k)
  BY <1>3, <1>4, <1>6
<1> QED
  BY <1>7 DEF t, u

\* f along a sequence, after it was set at one of its elements.
LEMMA AlongSet ==
  ASSUME NEW H, NEW s \in Seq(H), Distinct(s), NEW f, NEW V, Along(s, f) \in Seq(V),
         NEW k \in 1 .. Len(s), NEW g, NEW e, g[s[k]] = e,
         \A q \in H : q # s[k] => g[q] = f[q]
  PROVE  Replaces(Along(s, g), Along(s, f), k, e)
<1> DEFINE n == Len(s)
           u == Along(s, f)
           v == Along(s, g)
<1>1. n \in Nat /\ k \in 1 .. n /\ \A i \in 1 .. n : s[i] \in H
  OBVIOUS
<1>2. u = [i \in 1 .. n |-> f[s[i]]] /\ v = [i \in 1 .. n |-> g[s[i]]]
  BY DEF Along
<1>3. \A i \in 1 .. n : g[s[i]] = IF i = k THEN e ELSE f[s[i]]
  <2>1. \A i \in 1 .. n : i # k => s[i] # s[k]
    BY DEF Distinct
  <2> QED
    BY <1>1, <2>1
<1> HIDE DEF n, u, v
<1>4. v = [u EXCEPT ![k] = e]
  BY <1>2, <1>3
<1> QED
  BY <1>4 DEF Replaces, u, v

\* A sequence with one more element at its end.
LEMMA AppendDistinct ==
  ASSUME NEW E, NEW e \in E, NEW s \in Seq(E), Distinct(s), e \notin Elems(s)
  PROVE  /\ Append(s, e) \in Seq(E) /\ Distinct(Append(s, e))
         /\ Elems(Append(s, e)) = Elems(s) \cup {e}
<1> DEFINE n == Len(s)
           t == Append(s, e)
<1>1. n \in Nat /\ t \in Seq(E) /\ Len(t) = n + 1 /\ t[n + 1] = e
      /\ \A i \in 1 .. n : t[i] = s[i]
  OBVIOUS
<1>2. \A i \in 1 .. n : s[i] # e
  BY DEF Elems
<1>3. \A i, j \in 1 .. n : s[i] = s[j] => i = j
  BY DEF Distinct
<1>4. \A x : x \in Elems(s) <=> \E i \in 1 .. n : x = s[i]
  BY DEF Elems
<1> HIDE DEF n, t
<1>5. \A i \in 1 .. n + 1 : i \in 1 .. n \/ i = n + 1
  BY <1>1
<1>6. Distinct(t)
  BY <1>1, <1>2, <1>3, <1>5 DEF Distinct
<1>7. ASSUME NEW x PROVE x \in Elems(t) <=> x \in Elems(s) \cup {e}
  <2>1. x \in Elems(t) <=> \E i \in 1 .. n + 1 : x = t[i]
    BY <1>1 DEF Elems
  <2>2. n + 1 \in 1 .. n + 1 /\ \A i \in 1 .. n : i \in 1 .. n + 1
    BY <1>1
  <2> QED
    BY <1>1, <1>4, <1>5, <2>1, <2>2
<1>8. Elems(t) = Elems(s) \cup {e}
  BY <1>7
<1> QED
  BY <1>1, <1>6, <1>8 DEF t
=============================================================================
