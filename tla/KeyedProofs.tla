---------------------------- MODULE KeyedProofs -----------------------------
(***************************************************************************)
(* What is kept in order, or in a table. Lemmas about the merge sort: what *)
(* Merge makes of two arrays in order, and MSort of any array; the two     *)
(* recursive functions are characterised by induction over a set of        *)
(* numbers: that there is a function with the equation of the definition,  *)
(* and then what any such function returns. And about the calls of the two *)
(* priority queues, on a list and in a heap, of the two maps in a table,   *)
(* with the client's keys and with copies of strings, and of the bag: each *)
(* leaves sound private data and is a call of what prioqueue.h, map.h,     *)
(* cskmap.h and bag.h promise.                                             *)
(***************************************************************************)
EXTENDS Keyed, QueueLemmas

KeyAndOrigin == Int \X Int

\* x comes before y: its key is less, or equal and it stood before.
Precedes(x, y) == cmp(x, y) < 0 \/ (cmp(x, y) = 0 /\ x[2] < y[2])
InOrder(s) == \A i, j \in 1 .. Len(s) : i < j => Precedes(s[i], s[j])

\* The order of the merge sort, by key and then by origin, is transitive.
LEMMA PrecedesTransitive ==
  ASSUME NEW x \in KeyAndOrigin, NEW y \in KeyAndOrigin, NEW z \in KeyAndOrigin,
         Precedes(x, y), Precedes(y, z)
  PROVE  Precedes(x, z)
BY DEF Precedes, cmp, KeyAndOrigin

-----------------------------------------------------------------------------
\* One turn of merge's loop.
Taken(left, right, f) ==
  [n \in 0 .. Len(left) + Len(right) |->
     IF n = 0 THEN 0
     ELSE IF IsLeft(left, right, f[n - 1] + 1, n - f[n - 1])
     THEN f[n - 1] + 1 ELSE f[n - 1]]

\* merge's loop has one outcome: n turns place n elements.
LEMMA MergeTaken ==
  ASSUME NEW left \in Seq(KeyAndOrigin), NEW right \in Seq(KeyAndOrigin)
  PROVE  \E f : /\ f = Taken(left, right, f)
                /\ Merge(left, right) =
                     [n \in 1 .. Len(left) + Len(right) |->
                        IF f[n] > f[n - 1] THEN left[f[n]] ELSE right[n - f[n]]]
<1> DEFINE m == Len(left) + Len(right)
           E(f) == Taken(left, right, f)
           h == CHOOSE f : f = E(f)
           T == {n \in Nat : \E f : \A k \in 0 .. m : k < n => f[k] = E(f)[k]}
<1>1. Merge(left, right) =
        [n \in 1 .. m |-> IF h[n] > h[n - 1] THEN left[h[n]] ELSE right[n - h[n]]]
  BY DEF Merge, Taken
<1>2. m \in Nat
  OBVIOUS
<1> HIDE DEF m
<1>3. 0 \in T
  BY <1>2
\* Each turn of the definition decides one element more.
<1>4. ASSUME NEW n \in Nat, NEW f, \A k \in 0 .. m : k < n => f[k] = E(f)[k],
             NEW k \in 0 .. m, k < n + 1
      PROVE  E(f)[k] = E(E(f))[k]
  <2>1. CASE k = 0
    BY <1>2, <2>1 DEF Taken, m
  <2>2. CASE k # 0
    <3>1. k - 1 \in 0 .. m /\ k - 1 < n
      BY <1>2, <1>4, <2>2
    <3>2. E(f)[k - 1] = f[k - 1]
      BY <1>4, <3>1
    <3> QED
      BY <2>2, <3>2 DEF Taken, m
  <2> QED
    BY <2>1, <2>2
<1>5. ASSUME NEW n \in T PROVE n + 1 \in T
  <2>1. PICK f : \A k \in 0 .. m : k < n => f[k] = E(f)[k]
    OBVIOUS
  <2>2. \A k \in 0 .. m : k < n + 1 => E(f)[k] = E(E(f))[k]
    BY <1>4, <2>1
  <2> QED
    BY <2>2
<1>6. T = Nat
  BY <1>3, <1>5, NatInduct
<1>7. PICK f : \A k \in 0 .. m : k < m => f[k] = E(f)[k]
  BY <1>2, <1>6
<1>8. \A k \in 0 .. m : E(f)[k] = E(E(f))[k]
  <2>1. \A k \in 0 .. m : k < m + 1
    BY <1>2
  <2> QED
    BY <1>2, <1>4, <1>7, <2>1
<1>9. E(f) = E(E(f))
  BY <1>8 DEF Taken, m
<1>10. h = E(h)
  BY <1>9
<1> QED
  BY <1>1, <1>10 DEF m

\* After n turns some are of left and the others of right, and a turn adds one
\* of the one or of the other: of left when IsLeft says so.
LEMMA TakenCounts ==
  ASSUME NEW left \in Seq(KeyAndOrigin), NEW right \in Seq(KeyAndOrigin),
         NEW f, f = Taken(left, right, f)
  PROVE  /\ f[0] = 0
         /\ \A n \in 0 .. Len(left) + Len(right) :
              f[n] \in 0 .. Len(left) /\ n - f[n] \in 0 .. Len(right)
         /\ \A n \in 1 .. Len(left) + Len(right) :
              /\ IsLeft(left, right, f[n - 1] + 1, n - f[n - 1]) => f[n] = f[n - 1] + 1
              /\ ~ IsLeft(left, right, f[n - 1] + 1, n - f[n - 1]) => f[n] = f[n - 1]
<1> DEFINE m == Len(left) + Len(right)
           T == {n \in Nat : n <= m => f[n] \in 0 .. Len(left) /\ n - f[n] \in 0 .. Len(right)}
<1>1. Len(left) \in Nat /\ Len(right) \in Nat /\ m = Len(left) + Len(right) /\ m \in Nat
  OBVIOUS
<1> HIDE DEF m
<1>2. f[0] = 0 /\ \A n \in 1 .. m :
        /\ IsLeft(left, right, f[n - 1] + 1, n - f[n - 1]) => f[n] = f[n - 1] + 1
        /\ ~ IsLeft(left, right, f[n - 1] + 1, n - f[n - 1]) => f[n] = f[n - 1]
  <2>1. \A n \in 0 .. m : f[n] =
          IF n = 0 THEN 0
          ELSE IF IsLeft(left, right, f[n - 1] + 1, n - f[n - 1])
          THEN f[n - 1] + 1 ELSE f[n - 1]
    BY <1>1 DEF Taken
  <2> QED
    BY <1>1, <2>1
<1>3. 0 \in T
  BY <1>1, <1>2
<1>4. ASSUME NEW n \in T PROVE n + 1 \in T
  <2>1. ASSUME n + 1 <= m PROVE f[n + 1] \in 0 .. Len(left) /\ n + 1 - f[n + 1] \in 0 .. Len(right)
    <3>1. f[n] \in 0 .. Len(left) /\ n - f[n] \in 0 .. Len(right)
      BY <1>1, <2>1
    <3>2. n + 1 \in 1 .. m /\ n + 1 - 1 = n
      BY <1>1, <2>1
    <3>3. CASE IsLeft(left, right, f[(n + 1) - 1] + 1, (n + 1) - f[(n + 1) - 1])
      <4>1. f[n + 1] = f[n] + 1
        BY <1>2, <3>2, <3>3
      <4>2. f[n] + 1 <= Len(left)
        BY <3>2, <3>3 DEF IsLeft
      <4> QED
        BY <1>1, <3>1, <4>1, <4>2
    <3>4. CASE ~ IsLeft(left, right, f[(n + 1) - 1] + 1, (n + 1) - f[(n + 1) - 1])
      <4>1. f[n + 1] = f[n]
        BY <1>2, <3>2, <3>4
      <4>2. f[n] + 1 > Len(left) \/ n + 1 - f[n] <= Len(right)
        <5>1. ~ IsLeft(left, right, f[n] + 1, (n + 1) - f[n])
          BY <3>2, <3>4
        <5>2. ~ (f[n] + 1 <= Len(left)) \/ ~ ((n + 1) - f[n] > Len(right))
          BY <5>1 DEF IsLeft
        <5>3. f[n] \in Int /\ n + 1 \in Int /\ Len(left) \in Int /\ Len(right) \in Int
          BY <1>1, <3>1
        <5> QED
          BY <5>2, <5>3
      <4> QED
        BY <1>1, <2>1, <3>1, <4>1, <4>2
    <3> QED
      BY <3>3, <3>4
  <2> QED
    BY <2>1
<1>5. T = Nat
  BY <1>3, <1>4, NatInduct
<1> QED
  BY <1>1, <1>2, <1>5

\* Neither number ever goes down.
LEMMA TakenGrows ==
  ASSUME NEW m \in Nat, NEW f,
         \A n \in 0 .. m : f[n] \in Nat,
         \A n \in 1 .. m : f[n] = f[n - 1] + 1 \/ f[n] = f[n - 1],
         NEW i \in 0 .. m, NEW k \in 0 .. m, i <= k
  PROVE  f[i] <= f[k] /\ i - f[i] <= k - f[k]
<1> DEFINE T == {n \in Nat : i + n <= m => f[i] <= f[i + n] /\ i - f[i] <= i + n - f[i + n]}
<1>1. 0 \in T
  OBVIOUS
<1>2. ASSUME NEW n \in T PROVE n + 1 \in T
  <2>1. ASSUME i + (n + 1) <= m
        PROVE  f[i] <= f[i + (n + 1)] /\ i - f[i] <= i + (n + 1) - f[i + (n + 1)]
    <3>1. i + n \in 0 .. m /\ i + (n + 1) \in 1 .. m /\ i + (n + 1) - 1 = i + n
      BY <2>1
    <3>2. f[i + (n + 1)] = f[i + n] + 1 \/ f[i + (n + 1)] = f[i + n]
      BY <3>1
    <3> QED
      BY <3>1, <3>2
  <2> QED
    BY <2>1
<1>3. T = Nat
  BY <1>1, <1>2, NatInduct
<1>4. k - i \in Nat /\ i + (k - i) = k
  OBVIOUS
<1>5. k - i \in T
  BY <1>3, <1>4
<1> QED
  BY <1>4, <1>5

\* Of equal elements, that of the first array stood before that of the second.
StoodBefore(left, right) ==
  \A a \in 1 .. Len(left), b \in 1 .. Len(right) :
    cmp(left[a], right[b]) = 0 => left[a][2] < right[b][2]

\* s has the elements of both arrays, in order.
IsMerged(s, left, right) ==
  /\ s \in Seq(KeyAndOrigin) /\ Len(s) = Len(left) + Len(right)
  /\ InOrder(s)
  /\ {s[n] : n \in 1 .. Len(s)} =
       {left[a] : a \in 1 .. Len(left)} \cup {right[b] : b \in 1 .. Len(right)}

\* Two arrays in order become one.
LEMMA MergeInOrder ==
  ASSUME NEW left \in Seq(KeyAndOrigin), NEW right \in Seq(KeyAndOrigin),
         InOrder(left), InOrder(right), StoodBefore(left, right)
  PROVE  IsMerged(Merge(left, right), left, right)
<1> DEFINE s == Merge(left, right)
<1> DEFINE ll == Len(left)
           lr == Len(right)
           m == ll + lr
<1>1. PICK f : f = Taken(left, right, f)
               /\ s = [n \in 1 .. m |-> IF f[n] > f[n - 1] THEN left[f[n]] ELSE right[n - f[n]]]
  <2>1. \E f : /\ f = Taken(left, right, f)
              /\ Merge(left, right) =
                   [n \in 1 .. Len(left) + Len(right) |->
                      IF f[n] > f[n - 1] THEN left[f[n]] ELSE right[n - f[n]]]
    BY MergeTaken, Zenon
  <2> QED
    BY <2>1
<1>2. /\ ll \in Nat /\ lr \in Nat /\ m \in Nat /\ m = ll + lr
      /\ \A a \in 1 .. ll : left[a] \in KeyAndOrigin
      /\ \A b \in 1 .. lr : right[b] \in KeyAndOrigin
      /\ \A i, j \in 1 .. ll : i < j => Precedes(left[i], left[j])
      /\ \A i, j \in 1 .. lr : i < j => Precedes(right[i], right[j])
      /\ \A a \in 1 .. ll, b \in 1 .. lr :
           cmp(left[a], right[b]) = 0 => left[a][2] < right[b][2]
  BY DEF InOrder, StoodBefore
<1>a. ll \in Nat /\ lr \in Nat /\ m \in Nat /\ m = ll + lr
  BY <1>2
<1>3. /\ f[0] = 0
      /\ \A n \in 0 .. m : f[n] \in 0 .. ll /\ n - f[n] \in 0 .. lr
      /\ \A n \in 1 .. m :
           /\ IsLeft(left, right, f[n - 1] + 1, n - f[n - 1]) => f[n] = f[n - 1] + 1
           /\ ~ IsLeft(left, right, f[n - 1] + 1, n - f[n - 1]) => f[n] = f[n - 1]
  BY <1>1, TakenCounts
<1> HIDE DEF m, ll, lr, s
<1>4. ASSUME NEW n \in 1 .. m
      PROVE  \/ /\ f[n] = f[n - 1] + 1 /\ f[n] \in 1 .. ll /\ s[n] = left[f[n]]
                /\ \/ n - f[n] + 1 > lr
                   \/ /\ n - f[n] + 1 \in 1 .. lr
                      /\ cmp(left[f[n]], right[n - f[n] + 1]) <= 0
             \/ /\ f[n] = f[n - 1] /\ n - f[n] \in 1 .. lr /\ s[n] = right[n - f[n]]
                /\ \/ f[n] + 1 > ll
                   \/ /\ f[n] + 1 \in 1 .. ll
                      /\ ~ (cmp(left[f[n] + 1], right[n - f[n]]) <= 0)
  <2>1. n - 1 \in 0 .. m /\ n \in 0 .. m
    BY <1>a
  <2>2. /\ f[n] \in 0 .. ll /\ f[n - 1] \in 0 .. ll
        /\ n - f[n] \in 0 .. lr /\ (n - 1) - f[n - 1] \in 0 .. lr
    BY <1>3, <2>1
  <2>3. s[n] = IF f[n] > f[n - 1] THEN left[f[n]] ELSE right[n - f[n]]
    BY <1>1
  <2>4. CASE IsLeft(left, right, f[n - 1] + 1, n - f[n - 1])
    <3>1. f[n] = f[n - 1] + 1
      BY <1>3, <2>4
    <3>2. n - f[n] + 1 = n - f[n - 1] /\ f[n] > f[n - 1]
      BY <2>2, <3>1
    <3>3. f[n] <= ll /\ (n - f[n] + 1 > lr \/ cmp(left[f[n]], right[n - f[n] + 1]) <= 0)
      BY <2>4, <3>1, <3>2 DEF IsLeft, ll, lr
    <3>4. f[n] \in 1 .. ll /\ s[n] = left[f[n]]
      BY <1>a, <2>2, <2>3, <3>1, <3>2, <3>3, SMTT(30)
    <3>5. n - f[n] + 1 > lr \/ n - f[n] + 1 \in 1 .. lr
      BY <1>a, <2>2, SMTT(30)
    <3> QED
      BY <3>1, <3>3, <3>4, <3>5
  <2>5. CASE ~ IsLeft(left, right, f[n - 1] + 1, n - f[n - 1])
    <3>1. f[n] = f[n - 1]
      BY <1>3, <2>5
    <3>2. ~ (f[n] > f[n - 1])
      BY <2>2, <3>1
    <3>3. n - f[n] \in 1 .. lr
      BY <1>a, <2>2, <3>1
    <3>4. f[n] + 1 > ll \/ f[n] + 1 \in 1 .. ll
      BY <1>a, <2>2
    <3>5. f[n] + 1 > ll \/ ~ (cmp(left[f[n] + 1], right[n - f[n]]) <= 0)
      <4>1. ~ IsLeft(left, right, f[n] + 1, n - f[n])
        BY <2>5, <3>1
      <4>2. ~ (f[n] + 1 <= ll) \/ ~ (cmp(left[f[n] + 1], right[n - f[n]]) <= 0)
        BY <4>1 DEF IsLeft, ll
      <4> QED
        BY <1>a, <2>2, <4>2
    <3> QED
      BY <2>3, <3>1, <3>2, <3>3, <3>4, <3>5
  <2> QED
    BY <2>4, <2>5
<1>5. s \in Seq(KeyAndOrigin) /\ Len(s) = m
  <2>1. \A n \in 1 .. m : s[n] \in KeyAndOrigin
    BY <1>2, <1>4
  <2>2. s = [n \in 1 .. m |-> s[n]]
    BY <1>1
  <2>3. s \in [1 .. m -> KeyAndOrigin]
    BY <2>1, <2>2
  <2>4. m \in Nat
    BY <1>a
  <2> QED
    BY <2>3, <2>4
<1>6. \A i, k \in 0 .. m : i <= k => f[i] <= f[k] /\ i - f[i] <= k - f[k]
  <2>1. \A n \in 0 .. m : f[n] \in Nat
    BY <1>2, <1>3
  <2>2. \A n \in 1 .. m : f[n] = f[n - 1] + 1 \/ f[n] = f[n - 1]
    BY <1>4
  <2> QED
    BY <1>2, <2>1, <2>2, TakenGrows
\* An element that is placed later is greater.
<1>7. ASSUME NEW i \in 1 .. m, NEW k \in 1 .. m, i < k
      PROVE  Precedes(s[i], s[k])
  <2>1. /\ i \in 0 .. m /\ k - 1 \in 0 .. m /\ i <= k - 1
        /\ f[i] \in Nat /\ f[k] \in Nat /\ f[k - 1] \in Nat /\ i \in Nat /\ k \in Nat
    <3>1. i \in 0 .. m /\ k - 1 \in 0 .. m /\ i <= k - 1 /\ k \in 0 .. m
      BY <1>a, <1>7
    <3>2. f[i] \in 0 .. ll /\ f[k] \in 0 .. ll /\ f[k - 1] \in 0 .. ll
      BY <1>3, <3>1
    <3>3. f[i] \in Nat /\ f[k] \in Nat /\ f[k - 1] \in Nat
      BY <1>a, <3>2
    <3> QED
      BY <1>a, <3>1, <3>3
  <2>2. f[i] <= f[k - 1] /\ i - f[i] <= (k - 1) - f[k - 1]
    BY <1>6, <2>1
  <2>3. CASE /\ f[i] \in 1 .. ll /\ s[i] = left[f[i]]
             /\ f[k] = f[k - 1] + 1 /\ f[k] \in 1 .. ll /\ s[k] = left[f[k]]
    <3>1. f[i] < f[k]
      BY <2>1, <2>2, <2>3, SMTT(30)
    <3> QED
      BY <1>2, <2>3, <3>1
  <2>4. CASE /\ i - f[i] \in 1 .. lr /\ s[i] = right[i - f[i]]
             /\ f[k] = f[k - 1] /\ k - f[k] \in 1 .. lr /\ s[k] = right[k - f[k]]
    <3>1. i - f[i] < k - f[k]
      BY <2>1, <2>2, <2>4, SMTT(30)
    <3> QED
      BY <1>2, <2>4, <3>1
  <2>5. CASE /\ f[i] \in 1 .. ll /\ s[i] = left[f[i]]
             /\ \/ i - f[i] + 1 > lr
                \/ /\ i - f[i] + 1 \in 1 .. lr
                   /\ cmp(left[f[i]], right[i - f[i] + 1]) <= 0
             /\ f[k] = f[k - 1] /\ k - f[k] \in 1 .. lr /\ s[k] = right[k - f[k]]
    <3> DEFINE a == f[i]
               b == i - f[i] + 1
               d == k - f[k]
    <3>1. b <= d /\ b \in Int /\ d \in Int
      <4>1. f[k] = f[k - 1]
        BY <2>5
      <4> QED
        BY <2>1, <2>2, <4>1
    <3>2. a \in 1 .. ll /\ d \in 1 .. lr /\ s[i] = left[a] /\ s[k] = right[d]
      BY <2>5
    <3>3. b \in 1 .. lr /\ cmp(left[a], right[b]) <= 0
      <4>1. (cmp(left[a], right[b]) <= 0 /\ b \in 1 .. lr) \/ b > lr
        BY <2>5
      <4> HIDE DEF a, b, d
      <4> QED
        BY <1>a, <3>1, <3>2, <4>1
    <3> HIDE DEF a, b, d
    <3>4. Precedes(left[a], right[b])
      <4>1. left[a] \in KeyAndOrigin /\ right[b] \in KeyAndOrigin
        BY <1>2, <3>2, <3>3
      <4>2. cmp(left[a], right[b]) \in Int
        BY <4>1 DEF cmp, KeyAndOrigin
      <4> QED
        <5>1. CASE cmp(left[a], right[b]) = 0
          BY <1>2, <3>2, <3>3, <5>1 DEF Precedes
        <5>2. CASE cmp(left[a], right[b]) # 0
          <6>1. cmp(left[a], right[b]) < 0
            BY <3>3, <4>2, <5>2
          <6> QED
            BY <6>1 DEF Precedes
        <5> QED
          BY <5>1, <5>2
    <3>5. b = d \/ Precedes(right[b], right[d])
      BY <1>2, <3>1, <3>2, <3>3
    <3>6. left[a] \in KeyAndOrigin /\ right[b] \in KeyAndOrigin /\ right[d] \in KeyAndOrigin
      BY <1>2, <3>2, <3>3
    <3> QED
      BY <3>2, <3>4, <3>5, <3>6, PrecedesTransitive
  <2>6. CASE /\ i - f[i] \in 1 .. lr /\ s[i] = right[i - f[i]]
             /\ \/ f[i] + 1 > ll
                \/ /\ f[i] + 1 \in 1 .. ll
                   /\ ~ (cmp(left[f[i] + 1], right[i - f[i]]) <= 0)
             /\ f[k] = f[k - 1] + 1 /\ f[k] \in 1 .. ll /\ s[k] = left[f[k]]
    <3> DEFINE a == f[i] + 1
               b == i - f[i]
               d == f[k]
    <3>1. a <= d /\ a \in Int /\ d \in Int
      <4>1. f[k] = f[k - 1] + 1
        BY <2>6
      <4> QED
        BY <2>1, <2>2, <4>1
    <3>2. b \in 1 .. lr /\ d \in 1 .. ll /\ s[i] = right[b] /\ s[k] = left[d]
      BY <2>6
    <3>3. a \in 1 .. ll /\ ~ (cmp(left[a], right[b]) <= 0)
      <4>1. (a \in 1 .. ll /\ ~ (cmp(left[a], right[b]) <= 0)) \/ a > ll
        BY <2>6
      <4> HIDE DEF a, b, d
      <4> QED
        BY <1>a, <3>1, <3>2, <4>1
    <3> HIDE DEF a, b, d
    <3>4. left[a] \in KeyAndOrigin /\ right[b] \in KeyAndOrigin /\ left[d] \in KeyAndOrigin
      BY <1>2, <3>2, <3>3
    <3>5. Precedes(right[b], left[a])
      <4>1. left[a][1] \in Int /\ right[b][1] \in Int
        BY <3>4 DEF KeyAndOrigin
      <4>2. left[a][1] - right[b][1] > 0
        BY <3>3, <4>1 DEF cmp
      <4>3. right[b][1] - left[a][1] < 0
        BY <4>1, <4>2
      <4> QED
        BY <4>3 DEF Precedes, cmp
    <3>6. a = d \/ Precedes(left[a], left[d])
      BY <1>2, <3>1, <3>2, <3>3
    <3> QED
      BY <3>2, <3>4, <3>5, <3>6, PrecedesTransitive
  <2> QED
    BY <1>4, <2>3, <2>4, <2>5, <2>6
\* After the last turn, both are used up.
<1>8. ASSUME NEW a \in 1 .. ll PROVE \E n \in 1 .. m : s[n] = left[a]
  <2> DEFINE T == {n \in 0 .. m : f[n] >= a}
  <2>1. m \in T
    <3>1. m \in 0 .. m /\ f[m] \in 0 .. ll /\ m - f[m] \in 0 .. lr
      BY <1>2, <1>3
    <3> QED
      BY <1>a, <3>1
  <2>2. PICK n \in T : \A k \in T : n <= k
    <3>1. T \in SUBSET Nat /\ T # {}
      BY <1>a, <2>1
    <3> HIDE DEF T
    <3> QED
      BY <3>1, NatLeast
  <2>3. n # 0 /\ n \in 1 .. m /\ n - 1 \in 0 .. m
    BY <1>a, <1>3, <2>2
  <2>4. f[n - 1] < a /\ f[n - 1] \in Nat /\ f[n] >= a
    <3>1. n - 1 \notin T
      BY <1>a, <2>2, <2>3
    <3>2. f[n - 1] \in Nat
      BY <1>a, <1>3, <2>3
    <3> QED
      BY <2>2, <2>3, <3>1, <3>2
  <2>5. f[n] = f[n - 1] + 1 /\ s[n] = left[f[n]]
    BY <1>4, <2>3, <2>4
  <2>6. f[n] = a
    BY <2>4, <2>5
  <2> QED
    BY <2>3, <2>5, <2>6
<1>9. ASSUME NEW b \in 1 .. lr PROVE \E n \in 1 .. m : s[n] = right[b]
  <2> DEFINE T == {n \in 0 .. m : n - f[n] >= b}
  <2>1. m \in T
    <3>1. m \in 0 .. m /\ f[m] \in 0 .. ll /\ m - f[m] \in 0 .. lr
      BY <1>2, <1>3
    <3> QED
      BY <1>a, <3>1
  <2>2. PICK n \in T : \A k \in T : n <= k
    <3>1. T \in SUBSET Nat /\ T # {}
      BY <1>a, <2>1
    <3> HIDE DEF T
    <3> QED
      BY <3>1, NatLeast
  <2>3. n # 0 /\ n \in 1 .. m /\ n - 1 \in 0 .. m
    BY <1>a, <1>3, <2>2
  <2>4. n - 1 - f[n - 1] < b /\ f[n - 1] \in Nat /\ n - f[n] >= b /\ n \in Nat
    <3>1. n - 1 \notin T
      BY <1>a, <2>2, <2>3
    <3>2. f[n - 1] \in Nat
      BY <1>a, <1>3, <2>3
    <3> QED
      BY <1>a, <2>2, <2>3, <3>1, <3>2
  <2>5. f[n] = f[n - 1] /\ s[n] = right[n - f[n]]
    <3>1. f[n] # f[n - 1] + 1
      BY <1>a, <2>4
    <3> QED
      BY <1>4, <2>3, <3>1
  <2>6. n - f[n] = b
    <3>1. n - 1 - f[n] < b /\ f[n] \in Nat /\ b \in Nat
      BY <1>a, <2>4, <2>5
    <3> QED
      BY <2>4, <3>1
  <2> QED
    BY <2>3, <2>5, <2>6
<1>10. {s[n] : n \in 1 .. m} = {left[a] : a \in 1 .. ll} \cup {right[b] : b \in 1 .. lr}
  <2>1. \A n \in 1 .. m : (\E a \in 1 .. ll : s[n] = left[a]) \/ (\E b \in 1 .. lr : s[n] = right[b])
    BY <1>4
  <2> QED
    BY <1>8, <1>9, <2>1
<1> QED
  BY <1>5, <1>7, <1>10 DEF IsMerged, InOrder, m, ll, lr, s

-----------------------------------------------------------------------------
\* What msort does with a stretch once shorter ones are sorted.
Stretches(size) == (0 .. size) \X (-1 .. size - 1)
Sorted(a, size, f) ==
  [r \in Stretches(size) |->
     IF r[1] < r[2]
     THEN Merge(f[<<r[1], (r[1] + r[2]) \div 2>>], f[<<((r[1] + r[2]) \div 2) + 1, r[2]>>])
     ELSE SubSeq(a, r[1] + 1, r[2] + 1)]

\* The halves are shorter.
LEMMA Halves ==
  ASSUME NEW low \in Int, NEW high \in Int, low < high
  PROVE  LET mid == (low + high) \div 2
         IN mid \in Int /\ low <= mid /\ mid < high
OBVIOUS

\* msort's recursion has one outcome.
LEMMA SortDefined ==
  ASSUME NEW a, NEW size \in Nat
  PROVE  \E f : f = Sorted(a, size, f) /\ MSort(a, size) = f[<<0, size - 1>>]
<1> DEFINE D == Stretches(size)
           E(f) == Sorted(a, size, f)
           h == CHOOSE f : f = E(f)
           T == {n \in Nat : \E f : \A r \in D : r[2] - r[1] < n => f[r] = E(f)[r]}
<1>1. MSort(a, size) = h[<<0, size - 1>>]
  BY DEF MSort, Sorted, Stretches
<1>2. 0 \in T
  <2> DEFINE f == [r \in D |-> SubSeq(a, r[1] + 1, r[2] + 1)]
  <2>1. \A r \in D : r[2] - r[1] < 0 => f[r] = E(f)[r]
    BY DEF Sorted, Stretches
  <2> HIDE DEF f
  <2> QED
    BY <2>1
<1>3. ASSUME NEW n \in Nat, NEW f, \A r \in D : r[2] - r[1] < n => f[r] = E(f)[r],
             NEW r \in D, r[2] - r[1] < n + 1
      PROVE  E(f)[r] = E(E(f))[r]
  <2>1. CASE ~ (r[1] < r[2])
    BY <2>1 DEF Sorted
  <2>2. CASE r[1] < r[2]
    <3> DEFINE low == r[1]
               high == r[2]
               mid == (low + high) \div 2
               g == E(f)
    <3>1. low \in 0 .. size /\ high \in -1 .. size - 1 /\ r = <<low, high>>
      BY DEF Stretches
    <3> HIDE DEF low, high
    <3>2. mid \in Int /\ low <= mid /\ mid < high
      BY <2>2, <3>1, Halves DEF low, high
    <3> HIDE DEF mid
    <3>3. <<low, mid>> \in D /\ mid - low < n
      BY <1>3, <3>1, <3>2 DEF Stretches, low, high
    <3>4. <<mid + 1, high>> \in D /\ high - (mid + 1) < n
      BY <1>3, <3>1, <3>2 DEF Stretches, low, high
    <3>5. f[<<low, mid>>] = g[<<low, mid>>] /\ f[<<mid + 1, high>>] = g[<<mid + 1, high>>]
      BY <1>3, <3>3, <3>4
    <3> HIDE DEF g
    <3>6. E(f)[r] = Merge(f[<<low, mid>>], f[<<mid + 1, high>>])
      BY <2>2 DEF Sorted, low, high, mid
    <3>7. E(g)[r] = Merge(g[<<low, mid>>], g[<<mid + 1, high>>])
      BY <2>2 DEF Sorted, low, high, mid
    <3> QED
      BY <3>5, <3>6, <3>7 DEF g
  <2> QED
    BY <2>1, <2>2
<1>4. ASSUME NEW n \in T PROVE n + 1 \in T
  <2>1. PICK f : \A r \in D : r[2] - r[1] < n => f[r] = E(f)[r]
    OBVIOUS
  <2>2. \A r \in D : r[2] - r[1] < n + 1 => E(f)[r] = E(E(f))[r]
    BY <1>3, <2>1
  <2> QED
    BY <2>2
<1>5. T = Nat
  BY <1>2, <1>4, NatInduct
<1>6. PICK f : \A r \in D : r[2] - r[1] < size => f[r] = E(f)[r]
  BY <1>5
<1>7. \A r \in D : E(f)[r] = E(E(f))[r]
  <2>1. \A r \in D : r[2] - r[1] < size + 1
    BY DEF Stretches
  <2> QED
    BY <1>3, <1>6, <2>1
<1>8. E(f) = E(E(f))
  BY <1>7 DEF Sorted
<1>9. h = E(h)
  BY <1>8
<1> QED
  BY <1>1, <1>9

\* Of two equal elements, the first is that which stood before.
Stood(a) == \A i, j \in 1 .. Len(a) : i < j /\ cmp(a[i], a[j]) = 0 => a[i][2] < a[j][2]

\* u has the elements of the stretch in order.
IsSorted(a, low, high, u) ==
  /\ u \in Seq(KeyAndOrigin) /\ Len(u) = high - low + 1
  /\ InOrder(u)
  /\ {u[k] : k \in 1 .. Len(u)} = {a[k] : k \in low + 1 .. high + 1}

\* Two sorted stretches side by side make one.
LEMMA HalvesSorted ==
  ASSUME NEW a \in Seq(KeyAndOrigin), Stood(a),
         NEW low \in 0 .. Len(a) - 1, NEW high \in 0 .. Len(a) - 1, NEW mid \in Int,
         low <= mid, mid < high,
         NEW u, IsSorted(a, low, mid, u), NEW v, IsSorted(a, mid + 1, high, v)
  PROVE  IsSorted(a, low, high, Merge(u, v))
<1>1. /\ u \in Seq(KeyAndOrigin) /\ v \in Seq(KeyAndOrigin) /\ InOrder(u) /\ InOrder(v)
      /\ Len(u) = mid - low + 1 /\ Len(v) = high - (mid + 1) + 1
      /\ {u[k] : k \in 1 .. Len(u)} = {a[k] : k \in low + 1 .. mid + 1}
      /\ {v[k] : k \in 1 .. Len(v)} = {a[k] : k \in (mid + 1) + 1 .. high + 1}
  BY DEF IsSorted
<1>2. ASSUME NEW i \in 1 .. Len(u), NEW j \in 1 .. Len(v), cmp(u[i], v[j]) = 0
      PROVE  u[i][2] < v[j][2]
  <2>1. PICK k \in low + 1 .. mid + 1 : u[i] = a[k]
    BY <1>1
  <2>2. PICK l \in (mid + 1) + 1 .. high + 1 : v[j] = a[l]
    BY <1>1
  <2>3. k \in 1 .. Len(a) /\ l \in 1 .. Len(a) /\ k < l
    OBVIOUS
  <2> QED
    BY <1>2, <2>1, <2>2, <2>3 DEF Stood
<1> DEFINE s == Merge(u, v)
<1>3. /\ s \in Seq(KeyAndOrigin) /\ Len(s) = Len(u) + Len(v) /\ InOrder(s)
      /\ {s[n] : n \in 1 .. Len(s)} =
           {u[i] : i \in 1 .. Len(u)} \cup {v[j] : j \in 1 .. Len(v)}
  <2>1. StoodBefore(u, v)
    BY <1>2 DEF StoodBefore
  <2>2. IsMerged(s, u, v)
    BY <1>1, <2>1, MergeInOrder
  <2> QED
    BY <2>2 DEF IsMerged
<1> HIDE DEF s
<1>4. Len(s) = high - low + 1
  BY <1>1, <1>3
<1>5. {a[k] : k \in low + 1 .. mid + 1} \cup {a[k] : k \in (mid + 1) + 1 .. high + 1}
        = {a[k] : k \in low + 1 .. high + 1}
  <2>1. \A k \in Int : k \in low + 1 .. high + 1 <=>
           k \in low + 1 .. mid + 1 \/ k \in (mid + 1) + 1 .. high + 1
    OBVIOUS
  <2> QED
    BY <2>1
<1>6. {s[n] : n \in 1 .. Len(s)} = {a[k] : k \in low + 1 .. high + 1}
  BY <1>1, <1>3, <1>5
<1> QED
  BY <1>3, <1>4, <1>6 DEF IsSorted, s

\* sort: the elements are all there, in the order of their keys, and equal ones
\* in the order in which they stood.
LEMMA SortInOrder ==
  ASSUME NEW a \in Seq(KeyAndOrigin), Stood(a)
  PROVE  IsSorted(a, 0, Len(a) - 1, MSort(a, Len(a)))
<1> DEFINE size == Len(a)
<1>1. size \in Nat
  OBVIOUS
<1>2. PICK f : f = Sorted(a, size, f) /\ MSort(a, size) = f[<<0, size - 1>>]
  BY <1>1, SortDefined
<1> DEFINE T == {n \in Nat : \A low, high \in 0 .. size - 1 :
                   low <= high /\ high - low < n => IsSorted(a, low, high, f[<<low, high>>])}
<1>3. ASSUME NEW low \in 0 .. size, NEW high \in -1 .. size - 1
      PROVE  f[<<low, high>>] =
               IF low < high
               THEN Merge(f[<<low, (low + high) \div 2>>], f[<<((low + high) \div 2) + 1, high>>])
               ELSE SubSeq(a, low + 1, high + 1)
  <2>1. <<low, high>> \in Stretches(size) /\ <<low, high>>[1] = low /\ <<low, high>>[2] = high
    BY DEF Stretches
  <2> HIDE DEF size
  <2>2. f[<<low, high>>] = Sorted(a, size, f)[<<low, high>>]
    BY <1>2
  <2> QED
    BY <2>1, <2>2 DEF Sorted
<1> HIDE DEF size
<1>4. 0 \in T
  OBVIOUS
<1>5. ASSUME NEW n \in T PROVE n + 1 \in T
  <2>1. ASSUME NEW low \in 0 .. size - 1, NEW high \in 0 .. size - 1, low <= high, high - low < n + 1
        PROVE  IsSorted(a, low, high, f[<<low, high>>])
    <3>0. low \in 0 .. size /\ high \in -1 .. size - 1
      BY <1>1
    <3>1. CASE low < high
      <4> DEFINE mid == (low + high) \div 2
      <4>1. mid \in Int /\ low <= mid /\ mid < high
        BY <1>1, <3>1, Halves
      <4>2. f[<<low, high>>] = Merge(f[<<low, mid>>], f[<<mid + 1, high>>])
        BY <1>3, <3>0, <3>1
      <4> HIDE DEF mid
      <4>3. /\ mid \in 0 .. size - 1 /\ mid + 1 \in 0 .. size - 1
            /\ mid - low < n /\ mid + 1 <= high /\ high - (mid + 1) < n
        BY <1>1, <2>1, <4>1
      <4>4. IsSorted(a, low, mid, f[<<low, mid>>]) /\ IsSorted(a, mid + 1, high, f[<<mid + 1, high>>])
        BY <1>5, <4>1, <4>3
      <4> QED
        BY <4>1, <4>2, <4>4, HalvesSorted DEF size
    <3>2. CASE low = high
      <4> DEFINE u == f[<<low, high>>]
                 k == low + 1
      <4>1. u = SubSeq(a, k, k)
        <5>2. ~ (low < high)
          BY <3>0, <3>2
        <5>1. f[<<low, high>>] = SubSeq(a, low + 1, high + 1)
          BY <1>3, <3>0, <5>2
        <5> QED
          BY <3>2, <5>1
      <4>2. k \in Nat \ {0} /\ k \in 1 .. size /\ k <= k + 1
        BY <1>1
      <4> HIDE DEF u, k
      <4>3. u \in Seq(KeyAndOrigin) /\ Len(u) = 1 /\ u[1] = a[k]
        <5>1. k \in Nat /\ k <= Len(a) /\ k - k + 1 = 1 /\ k + 1 - 1 = k /\ 1 \in 1 .. 1
          BY <4>2 DEF size
        <5>2. /\ SubSeq(a, k, k) \in Seq(KeyAndOrigin) /\ Len(SubSeq(a, k, k)) = k - k + 1
              /\ \A j \in 1 .. k - k + 1 : SubSeq(a, k, k)[j] = a[k + j - 1]
          BY <4>2, <5>1, SubElems
        <5> QED
          BY <4>1, <5>1, <5>2
      <4>4. InOrder(u) /\ {u[i] : i \in 1 .. Len(u)} = {a[k]}
        BY <4>3 DEF InOrder
      <4>5. {a[i] : i \in low + 1 .. high + 1} = {a[k]} /\ high - low + 1 = 1
        BY <1>1, <3>2 DEF k
      <4> QED
        BY <4>3, <4>4, <4>5 DEF IsSorted, u
    <3> QED
      BY <1>1, <2>1, <3>1, <3>2
  <2> QED
    BY <2>1
<1>6. T = Nat
  BY <1>4, <1>5, NatInduct
<1>7. CASE size = 0
  <2>1. f[<<0, size - 1>>] = SubSeq(a, 1, 0)
    <3>1. 0 \in 0 .. size /\ size - 1 \in -1 .. size - 1 /\ ~ (0 < size - 1) /\ 0 + 1 = 1 /\ size - 1 + 1 = 0
      BY <1>7
    <3> QED
      BY <1>3, <3>1
  <2>2. SubSeq(a, 1, 0) = <<>>
    OBVIOUS
  <2> DEFINE u == MSort(a, size)
  <2>3. u = <<>>
    BY <1>2, <2>1, <2>2
  <2> HIDE DEF u
  <2>4. u \in Seq(KeyAndOrigin) /\ Len(u) = 0 /\ InOrder(u)
    BY <2>3 DEF InOrder
  <2>5. IsSorted(a, 0, size - 1, u)
    BY <1>7, <2>4 DEF IsSorted
  <2> QED
    BY <2>5 DEF u, size
<1>8. CASE size # 0
  <2>0. size \in T
    <3> HIDE DEF T
    <3> QED
      BY <1>1, <1>6
  <2>1. 0 \in 0 .. size - 1 /\ size - 1 \in 0 .. size - 1 /\ size - 1 - 0 < size
    BY <1>1, <1>8
  <2>2. IsSorted(a, 0, size - 1, f[<<0, size - 1>>])
    BY <2>0, <2>1
  <2> QED
    BY <1>2, <2>2 DEF size
<1> QED
  BY <1>7, <1>8

-----------------------------------------------------------------------------
(* A priority queue on a list: its entries stay in the order of their       *)
(* priorities because an entry goes behind those its search passed.        *)

PrioEntry == [priority : Priorities, value : Values]

\* Nodes whose entries do not fall in priority.
InPriority(s, f) ==
  \A i, j \in 1 .. Len(s) : i < j => f[s[i]].priority <= f[s[j]].priority

\* The walk of the priority queue is that of the lemmas.
LEMMA PrioWalk ==
  ASSUME NEW s, NEW first, NEW link, NEW nodes, NEW end
  PROVE  /\ PQ!IsChain(s, first, link, nodes, end) <=> IsChain(s, first, link, nodes, end)
         /\ PQ!Chain(first, link, nodes, end) = Chain(first, link, nodes, end)
BY DEF PQ!IsChain, IsChain, PQ!Chain, Chain

\* Priorities are ints.
LEMMA PrioritiesAreInts == Priorities \subseteq Int
BY KeyedAssumption DEF HQ!HeapAssumption

\* A priority queue is sound when some sequence of nodes is its list; that
\* sequence is then the one the walk finds.
LEMMA PrioOfNodes ==
  ASSUME NEW d, NEW s,
         d = [size |-> d.size, head |-> d.head, tail |-> d.tail,
              heap |-> d.heap, next |-> d.next, entry |-> d.entry],
         IsChain(s, d.head, d.next, d.heap, NULL),
         d.size = Len(s),
         d.tail = IF s = <<>> THEN NULL ELSE s[Len(s)],
         d.heap \subseteq Nodes,
         d.next \in [Nodes -> Nodes \cup {NULL, garbage}],
         DOMAIN d.entry = Nodes,
         \A p \in d.heap : d.entry[p] \in PrioEntry,
         \A p \in Nodes \ d.heap : d.next[p] = garbage /\ d.entry[p] = garbage,
         InPriority(s, d.entry)
  PROVE  PQ!Holds(d) /\ PQ!ListNodes(d) = s
<1>1. PQ!ListNodes(d) = s
  <2>1. Chain(d.head, d.next, d.heap, NULL) = s
    BY ChainIs
  <2> QED
    BY <2>1, PrioWalk DEF PQ!ListNodes
<1>2. PQ!IsChain(s, d.head, d.next, d.heap, NULL)
  BY PrioWalk
<1> QED
  BY <1>1, <1>2 DEF PQ!Holds, PrioEntry, InPriority

\* What a sound priority queue's nodes are, and the entries in them.
LEMMA NodesOfPrio ==
  ASSUME NEW d, PQ!Holds(d)
  PROVE  LET s == PQ!ListNodes(d) IN
         /\ d = [size |-> d.size, head |-> d.head, tail |-> d.tail,
                 heap |-> d.heap, next |-> d.next, entry |-> d.entry]
         /\ IsChain(s, d.head, d.next, d.heap, NULL)
         /\ d.size = Len(s)
         /\ d.tail = IF s = <<>> THEN NULL ELSE s[Len(s)]
         /\ d.heap \subseteq Nodes
         /\ d.next \in [Nodes -> Nodes \cup {NULL, garbage}]
         /\ DOMAIN d.entry = Nodes
         /\ \A p \in d.heap : d.entry[p] \in PrioEntry
         /\ \A p \in Nodes \ d.heap : d.next[p] = garbage /\ d.entry[p] = garbage
         /\ InPriority(s, d.entry)
         /\ PQ!Entries(d) = Along(s, d.entry)
         /\ Along(s, d.entry) \in Seq(PrioEntry)
<1> DEFINE s == PQ!ListNodes(d)
<1>1. IsChain(s, d.head, d.next, d.heap, NULL)
  BY PrioWalk DEF PQ!Holds
<1>2. s \in Seq(d.heap) /\ Len(s) \in Nat /\ DOMAIN s = 1 .. Len(s)
      /\ \A i \in 1 .. Len(s) : s[i] \in d.heap
  BY <1>1 DEF IsChain
<1>3. \A p \in d.heap : d.entry[p] \in PrioEntry
  BY DEF PQ!Holds, PrioEntry
<1>4. PQ!Entries(d) = Along(s, d.entry)
  BY <1>2 DEF PQ!Entries, Along
<1>5. Along(s, d.entry) \in Seq(PrioEntry)
  <2>1. Along(s, d.entry) = [i \in 1 .. Len(s) |-> d.entry[s[i]]]
    BY DEF Along
  <2> HIDE DEF s
  <2>2. Along(s, d.entry) \in [1 .. Len(s) -> PrioEntry]
    BY <1>2, <1>3, <2>1
  <2> QED
    BY <1>2, <2>2
<1>6. InPriority(s, d.entry)
  BY DEF PQ!Holds, InPriority
<1> QED
  BY <1>1, <1>3, <1>4, <1>5, <1>6 DEF PQ!Holds

\* A new priority queue is sound, and empty.
LEMMA PrioNew == PQ!Holds(PQ!NewPrioQueue) /\ PQ!Entries(PQ!NewPrioQueue) = <<>>
<1> DEFINE r == PQ!NewPrioQueue
           s == <<>>
<1>1. /\ r = [size |-> r.size, head |-> r.head, tail |-> r.tail,
              heap |-> r.heap, next |-> r.next, entry |-> r.entry]
      /\ r.size = 0 /\ r.head = NULL /\ r.tail = NULL /\ r.heap = {}
      /\ r.next = [p \in Nodes |-> garbage] /\ r.entry = [p \in Nodes |-> garbage]
  BY DEF PQ!NewPrioQueue
<1> HIDE DEF r
<1>2. IsChain(s, r.head, r.next, r.heap, NULL)
  BY <1>1, ChainNone
<1>3. /\ r.size = Len(s)
      /\ r.tail = IF s = <<>> THEN NULL ELSE s[Len(s)]
      /\ r.heap \subseteq Nodes
      /\ r.next \in [Nodes -> Nodes \cup {NULL, garbage}]
      /\ DOMAIN r.entry = Nodes
      /\ \A p \in r.heap : r.entry[p] \in PrioEntry
      /\ \A p \in Nodes \ r.heap : r.next[p] = garbage /\ r.entry[p] = garbage
      /\ InPriority(s, r.entry)
  BY <1>1 DEF InPriority
<1> HIDE DEF s
<1>4. PQ!Holds(r) /\ PQ!ListNodes(r) = s
  BY <1>1, <1>2, <1>3, PrioOfNodes
<1>5. PQ!Entries(r) = Along(s, r.entry)
  BY <1>4, NodesOfPrio
<1>6. Along(s, r.entry) = <<>>
  BY DEF Along, s
<1> QED
  BY <1>4, <1>5, <1>6 DEF r

\* The search stops behind the first k nodes, those of no greater priority.
StopsBehind(d, priority, k) ==
  LET s == PQ!ListNodes(d) IN
  /\ PQ!Place(d, priority).prev = IF k = 0 THEN NULL ELSE s[k]
  /\ PQ!Place(d, priority).next = IF k = Len(s) THEN NULL ELSE s[k + 1]
  /\ \A i \in 1 .. k : d.entry[s[i]].priority <= priority
  /\ \A i \in k + 1 .. Len(s) : d.entry[s[i]].priority > priority

\* The search of the list stops behind some number of its nodes.
LEMMA PlaceIs ==
  ASSUME NEW d, PQ!Holds(d), NEW priority \in Priorities
  PROVE  \E k \in 0 .. Len(PQ!ListNodes(d)) : StopsBehind(d, priority, k)
<1> DEFINE s == PQ!ListNodes(d)
           n == Len(s)
           stops == {i \in DOMAIN s : priority < d.entry[s[i]].priority}
           at == IF stops = {} THEN n + 1 ELSE CHOOSE i \in stops : \A j \in stops : i <= j
           place == PQ!Place(d, priority)
<1>1. /\ s \in Seq(d.heap) /\ n \in Nat /\ DOMAIN s = 1 .. n
      /\ \A i \in 1 .. n : s[i] \in d.heap
  BY NodesOfPrio, ChainElems
<1>2. \A p \in d.heap : d.entry[p].priority \in Int
  BY NodesOfPrio, PrioritiesAreInts DEF PrioEntry
<1>3. \A i \in 1 .. n : d.entry[s[i]].priority \in Int
  BY <1>1, <1>2
<1>4. \A i, j \in 1 .. n : i < j => d.entry[s[i]].priority <= d.entry[s[j]].priority
  BY NodesOfPrio DEF InPriority
<1>5. priority \in Int
  BY PrioritiesAreInts
<1>6. place = [prev |-> IF at = 1 THEN NULL ELSE s[at - 1],
               next |-> IF at > Len(s) THEN NULL ELSE s[at]]
  BY DEF PQ!Place
<1> HIDE DEF s, n, place
<1>7. /\ at \in 1 .. n + 1
      /\ \A i \in 1 .. n : i < at => d.entry[s[i]].priority <= priority
      /\ \A i \in 1 .. n : i >= at => d.entry[s[i]].priority > priority
  <2>1. CASE stops = {}
    <3>1. at = n + 1
      BY <2>1
    <3>2. \A i \in 1 .. n : ~ (priority < d.entry[s[i]].priority)
      BY <1>1, <2>1
    <3> HIDE DEF at, stops
    <3>3. \A i \in 1 .. n : d.entry[s[i]].priority <= priority
      BY <1>3, <1>5, <3>2
    <3> QED
      BY <1>1, <3>1, <3>3
  <2>2. CASE stops # {}
    <3>1. stops \in SUBSET Nat
      BY <1>1
    <3>2. at = CHOOSE i \in stops : \A j \in stops : i <= j
      BY <2>2
    <3> HIDE DEF at
    <3>3. at \in stops /\ \A j \in stops : at <= j
      <4> HIDE DEF stops
      <4>1. \E i \in stops : \A j \in stops : i <= j
        BY <2>2, <3>1, NatLeast
      <4> QED
        BY <3>2, <4>1
    <3>4. at \in 1 .. n /\ priority < d.entry[s[at]].priority
      BY <1>1, <3>3
    <3>5. ASSUME NEW i \in 1 .. n, i < at PROVE d.entry[s[i]].priority <= priority
      <4>1. i \notin stops
        <5> HIDE DEF stops
        <5>1. ~ (at <= i)
          BY <3>4, <3>5
        <5> QED
          BY <3>3, <5>1
      <4>2. ~ (priority < d.entry[s[i]].priority)
        BY <1>1, <4>1
      <4> QED
        BY <1>3, <1>5, <4>2
    <3>6. ASSUME NEW i \in 1 .. n, i >= at PROVE d.entry[s[i]].priority > priority
      <4>1. d.entry[s[at]].priority <= d.entry[s[i]].priority
        <5>1. at = i \/ at < i
          BY <3>4, <3>6
        <5>2. d.entry[s[i]].priority \in Int
          BY <1>3
        <5> QED
          BY <1>4, <3>4, <5>1, <5>2
      <4>2. d.entry[s[at]].priority \in Int /\ d.entry[s[i]].priority \in Int
        BY <1>3, <3>4
      <4> QED
        BY <1>5, <3>4, <4>1, <4>2
    <3> QED
      BY <1>1, <3>4, <3>5, <3>6
  <2> QED
    BY <2>1, <2>2
<1> HIDE DEF at, stops
<1> DEFINE k == at - 1
<1>8. /\ k \in 0 .. n /\ k + 1 = at /\ (k = 0 <=> at = 1) /\ (k = n <=> at > n)
      /\ \A i \in 1 .. k : i \in 1 .. n /\ i < at
      /\ \A i \in k + 1 .. n : i \in 1 .. n /\ i >= at
  BY <1>1, <1>7
<1>9. place.prev = (IF at = 1 THEN NULL ELSE s[k]) /\ place.next = (IF at > n THEN NULL ELSE s[at])
  BY <1>6 DEF n
<1> HIDE DEF k
<1>10. StopsBehind(d, priority, k)
  <2>1. place.prev = (IF k = 0 THEN NULL ELSE s[k]) /\ place.next = (IF k = n THEN NULL ELSE s[k + 1])
    BY <1>8, <1>9
  <2>2. \A i \in 1 .. k : d.entry[s[i]].priority <= priority
    BY <1>7, <1>8
  <2>3. \A i \in k + 1 .. n : d.entry[s[i]].priority > priority
    BY <1>7, <1>8
  <2> QED
    BY <2>1, <2>2, <2>3 DEF StopsBehind, s, n, place
<1> QED
  BY <1>8, <1>10 DEF n, s

\* One node more, where the priority belongs, leaves the others in order.
LEMMA WithInPriority ==
  ASSUME NEW H, NEW s \in Seq(H), NEW f, NEW p, NEW k \in 0 .. Len(s), NEW g,
         \A i \in 1 .. Len(s) : g[s[i]] = f[s[i]] /\ f[s[i]].priority \in Int,
         InPriority(s, f), g[p].priority \in Int,
         \A i \in 1 .. k : f[s[i]].priority <= g[p].priority,
         \A i \in k + 1 .. Len(s) : f[s[i]].priority > g[p].priority
  PROVE  InPriority(With(s, k, p), g)
<1> DEFINE n == Len(s)
           t == With(s, k, p)
           M == H \cup {p}
<1>1. n \in Nat /\ k \in 0 .. n
  OBVIOUS
<1>2. Has(t, s, k, p, M)
  <2>1. s \in Seq(M) /\ p \in M
    OBVIOUS
  <2> HIDE DEF M
  <2> QED
    BY <2>1, WithElems
<1>3. /\ Len(t) = n + 1 /\ t[k + 1] = p
      /\ \A i \in 1 .. k : t[i] = s[i]
      /\ \A i \in k + 1 .. n : t[i + 1] = s[i]
  BY <1>2 DEF Has
<1>4. /\ \A i \in 1 .. n : g[s[i]] = f[s[i]] /\ f[s[i]].priority \in Int
      /\ \A i, j \in 1 .. n : i < j => f[s[i]].priority <= f[s[j]].priority
      /\ \A i \in k + 1 .. n : f[s[i]].priority > g[p].priority
  BY DEF InPriority
<1> HIDE DEF t, n
<1>5. ASSUME NEW i \in 1 .. n + 1
      PROVE  \/ i \in 1 .. k /\ i \in 1 .. n /\ t[i] = s[i]
             \/ i = k + 1 /\ t[i] = p
             \/ i - 1 \in k + 1 .. n /\ i - 1 \in 1 .. n /\ t[i] = s[i - 1]
  <2>1. CASE i <= k
    <3>1. i \in 1 .. k /\ i \in 1 .. n
      BY <1>1, <2>1
    <3> QED
      BY <1>3, <3>1
  <2>2. CASE i = k + 1
    BY <1>3, <2>2
  <2>3. CASE i > k + 1
    <3>1. i - 1 \in k + 1 .. n /\ i - 1 \in 1 .. n /\ (i - 1) + 1 = i
      BY <1>1, <2>3
    <3> QED
      BY <1>3, <3>1
  <2> QED
    BY <1>1, <2>1, <2>2, <2>3
<1>6. ASSUME NEW i \in 1 .. n + 1, NEW j \in 1 .. n + 1, i < j
      PROVE  g[t[i]].priority <= g[t[j]].priority
  <2>1. CASE i \in 1 .. k /\ i \in 1 .. n /\ t[i] = s[i]
    <3>0. g[t[i]] = f[s[i]] /\ f[s[i]].priority <= g[p].priority /\ f[s[i]].priority \in Int
      BY <1>4, <2>1
    <3>1. CASE j \in 1 .. k /\ j \in 1 .. n /\ t[j] = s[j]
      BY <1>4, <1>6, <2>1, <3>1
    <3>2. CASE j = k + 1 /\ t[j] = p
      BY <3>0, <3>2
    <3>3. CASE j - 1 \in k + 1 .. n /\ j - 1 \in 1 .. n /\ t[j] = s[j - 1]
      <4>1. i < j - 1
        BY <1>1, <2>1, <3>3
      <4> QED
        BY <1>4, <2>1, <3>3, <4>1
    <3> QED
      BY <1>5, <3>1, <3>2, <3>3
  <2>2. CASE i = k + 1 /\ t[i] = p
    <3>1. j - 1 \in k + 1 .. n /\ j - 1 \in 1 .. n /\ t[j] = s[j - 1]
      <4>1. ~ (j \in 1 .. k) /\ j # k + 1
        BY <1>1, <1>6, <2>2
      <4> QED
        BY <1>5, <4>1
    <3>2. g[t[j]] = f[s[j - 1]] /\ f[s[j - 1]].priority > g[p].priority
          /\ f[s[j - 1]].priority \in Int
      BY <1>4, <3>1
    <3> QED
      BY <2>2, <3>2
  <2>3. CASE i - 1 \in k + 1 .. n /\ i - 1 \in 1 .. n /\ t[i] = s[i - 1]
    <3>1. j - 1 \in 1 .. n /\ t[j] = s[j - 1]
      <4>1. ~ (j \in 1 .. k) /\ j # k + 1
        BY <1>1, <1>6, <2>3
      <4> QED
        BY <1>5, <4>1
    <3>2. i - 1 < j - 1
      BY <1>6
    <3> QED
      BY <1>4, <2>3, <3>1, <3>2
  <2> QED
    BY <1>5, <2>1, <2>2, <2>3
<1> QED
  BY <1>3, <1>6 DEF InPriority, t

\* An entry that is inserted is behind those of no greater priority.
LEMMA PrioInsertIsInsert ==
  ASSUME PQ!ListOK, NEW priority \in Priorities, NEW value \in Values,
         PQ!Insert(priority, value)
  PROVE  PQ!ListOK' /\ PQ!Q!Insert
<1> DEFINE s == PQ!ListNodes(self)
           u == PQ!Entries(self)
           p == PQ!Malloc(self)
           e == [priority |-> priority, value |-> value]
           prev == PQ!Place(self, priority).prev
           succ == PQ!Place(self, priority).next
           linked == [self.next EXCEPT ![p] = succ]
           next == IF prev = NULL THEN linked ELSE [linked EXCEPT ![prev] = p]
           entry == [self.entry EXCEPT ![p] = e]
           head == IF prev = NULL THEN p ELSE self.head
           tail == IF succ = NULL THEN p ELSE self.tail
           r == self'
<1>1. PQ!Holds(self)
  BY DEF PQ!ListOK
<1>2. CASE UNCHANGED self /\ ret' = <<"insert", FALSE>>
  <2>1. PQ!Entries(self)' = PQ!Entries(self)
    BY <1>2
  <2> QED
    BY <1>1, <1>2, <2>1 DEF PQ!ListOK, PQ!Q!Insert
<1>3. CASE /\ self.heap # Nodes
           /\ self' = [self EXCEPT !.heap = @ \cup {p}, !.entry[p] = e, !.next = next,
                         !.head = IF prev = NULL THEN p ELSE @,
                         !.tail = IF succ = NULL THEN p ELSE @, !.size = @ + 1]
           /\ ret' = <<"insert", TRUE>>
  <2>1. /\ self = [size |-> self.size, head |-> self.head, tail |-> self.tail,
                    heap |-> self.heap, next |-> self.next, entry |-> self.entry]
        /\ IsChain(s, self.head, self.next, self.heap, NULL)
        /\ self.size = Len(s)
        /\ self.tail = IF s = <<>> THEN NULL ELSE s[Len(s)]
        /\ self.heap \subseteq Nodes
        /\ self.next \in [Nodes -> Nodes \cup {NULL, garbage}]
        /\ DOMAIN self.entry = Nodes
        /\ \A q \in self.heap : self.entry[q] \in PrioEntry
        /\ \A q \in Nodes \ self.heap : self.next[q] = garbage /\ self.entry[q] = garbage
        /\ InPriority(s, self.entry)
        /\ u = Along(s, self.entry)
        /\ Along(s, self.entry) \in Seq(PrioEntry)
    BY <1>1, NodesOfPrio
  <2>2. p \in Nodes /\ p \notin self.heap /\ p # NULL /\ NULL \notin Nodes
    <3>1. \E q \in Nodes : q \notin self.heap
      BY <1>3, <2>1
    <3>2. NULL \notin Nodes
      BY KeyedAssumption DEF PQ!NodesAssumption
    <3> QED
      BY <3>1, <3>2 DEF PQ!Malloc
  <2>3. PICK k \in 0 .. Len(s) : StopsBehind(self, priority, k)
    BY <1>1, PlaceIs
  <2>4. /\ prev = IF k = 0 THEN NULL ELSE s[k]
        /\ succ = IF k = Len(s) THEN NULL ELSE s[k + 1]
        /\ \A i \in 1 .. k : self.entry[s[i]].priority <= priority
        /\ \A i \in k + 1 .. Len(s) : self.entry[s[i]].priority > priority
    BY <2>3 DEF StopsBehind
  <2>5. r = [self EXCEPT !.heap = self.heap \cup {p}, !.entry = entry, !.next = next,
               !.head = head, !.tail = tail, !.size = self.size + 1]
    BY <1>3
  <2> HIDE DEF p, s, u, prev, succ, linked, next, entry, head, tail, r, e
  <2>6. /\ r = [size |-> r.size, head |-> r.head, tail |-> r.tail,
                 heap |-> r.heap, next |-> r.next, entry |-> r.entry]
        /\ r.size = self.size + 1 /\ r.head = head /\ r.tail = tail
        /\ r.heap = self.heap \cup {p} /\ r.next = next /\ r.entry = entry
    BY <2>1, <2>5
  <2>7. /\ s \in Seq(self.heap) /\ Len(s) \in Nat
        /\ \A i \in 1 .. Len(s) : s[i] \in self.heap /\ s[i] \in Nodes /\ s[i] # NULL /\ s[i] # p
        /\ \A i, j \in 1 .. Len(s) : s[i] = s[j] => i = j
        /\ s = <<>> <=> Len(s) = 0
    <3>1. /\ s \in Seq(self.heap) /\ Len(s) \in Nat
          /\ \A i \in 1 .. Len(s) : s[i] \in self.heap
          /\ \A i, j \in 1 .. Len(s) : s[i] = s[j] => i = j
          /\ s = <<>> <=> Len(s) = 0
      BY <2>1, ChainElems
    <3> QED
      BY <2>1, <2>2, <3>1
  <2>8. /\ k \in 0 .. Len(s) /\ (k # 0 => k \in 1 .. Len(s))
        /\ (k # Len(s) => k + 1 \in 1 .. Len(s))
    BY <2>7
  <2>9. /\ prev = NULL <=> k = 0
        /\ succ = NULL <=> k = Len(s)
        /\ prev \in Nodes \cup {NULL} /\ succ \in Nodes \cup {NULL} /\ prev # p
    BY <2>2, <2>4, <2>7, <2>8
  <2>10. /\ linked \in [Nodes -> Nodes \cup {NULL, garbage}] /\ linked[p] = succ
         /\ \A q \in Nodes : q # p => linked[q] = self.next[q]
    BY <2>1, <2>2, <2>9 DEF linked
  <2>11. /\ next \in [Nodes -> Nodes \cup {NULL, garbage}] /\ next[p] = succ
         /\ \A q \in Nodes : q # p => next[q] = IF q = prev THEN p ELSE self.next[q]
    <3>1. CASE prev = NULL
      BY <2>2, <2>10, <3>1 DEF next
    <3>2. CASE prev # NULL
      BY <2>2, <2>9, <2>10, <3>2 DEF next
    <3> QED
      BY <3>1, <3>2
  <2>12. DOMAIN entry = Nodes /\ entry[p] = e
         /\ \A q \in Nodes : q # p => entry[q] = self.entry[q]
    BY <2>1, <2>2 DEF entry
  <2>13. e \in PrioEntry /\ e.priority = priority /\ priority \in Int
    BY PrioritiesAreInts DEF PrioEntry, e
  <2> DEFINE t == With(s, k, p)
  <2>14. ASSUME NEW i \in 1 .. Len(s)
         PROVE  /\ next[s[i]] = IF i = k THEN p ELSE self.next[s[i]]
                /\ entry[s[i]] = self.entry[s[i]]
                /\ self.entry[s[i]].priority \in Int
    <3>1. s[i] = prev <=> i = k
      BY <2>2, <2>4, <2>7, <2>8
    <3>2. self.entry[s[i]] \in PrioEntry
      BY <2>1, <2>7
    <3>3. self.entry[s[i]].priority \in Int
      BY <3>2, PrioritiesAreInts DEF PrioEntry
    <3> QED
      BY <2>7, <2>11, <2>12, <3>1, <3>3
  <2>15. IsChain(t, head, next, self.heap \cup {p}, NULL)
    <3> HIDE DEF t
    <3>1. IsChain(s, self.head, self.next, self.heap, NULL)
      BY <2>1
    <3>2. p \notin self.heap /\ p # NULL /\ k \in 0 .. Len(s)
      BY <2>2
    <3>3. next[p] = IF k = Len(s) THEN NULL ELSE s[k + 1]
      BY <2>4, <2>11
    <3>4. \A i \in 1 .. Len(s) : next[s[i]] = IF i = k THEN p ELSE self.next[s[i]]
      BY <2>14
    <3>5. (k = 0 => head = p) /\ (k # 0 => head = self.head)
      BY <2>9 DEF head
    <3>7. LinksWith(next, s, k, p, self.next, NULL)
      BY <3>3, <3>4 DEF LinksWith
    <3>6. IsChain(With(s, k, p), head, next, self.heap \cup {p}, NULL)
      BY <3>1, <3>2, <3>5, <3>7, ChainWith
    <3> QED
      BY <3>6 DEF t
  <2>16. Along(t, entry) = With(u, k, e)
    <3>1. /\ s \in Seq(self.heap) /\ Along(s, self.entry) \in Seq(PrioEntry)
          /\ entry[p] \in PrioEntry
          /\ \A i \in 1 .. Len(s) : entry[s[i]] = self.entry[s[i]]
      BY <2>1, <2>7, <2>12, <2>13, <2>14
    <3>2. Along(With(s, k, p), entry) = With(Along(s, self.entry), k, entry[p])
      BY <2>8, <3>1, AlongWith
    <3> QED
      BY <2>1, <2>12, <3>2
  <2>17. InPriority(t, entry)
    <3>1. /\ \A i \in 1 .. Len(s) : entry[s[i]] = self.entry[s[i]] /\ self.entry[s[i]].priority \in Int
          /\ InPriority(s, self.entry) /\ entry[p].priority \in Int
          /\ \A i \in 1 .. k : self.entry[s[i]].priority <= entry[p].priority
          /\ \A i \in k + 1 .. Len(s) : self.entry[s[i]].priority > entry[p].priority
      BY <2>1, <2>4, <2>12, <2>13, <2>14
    <3> QED
      BY <2>7, <2>8, <3>1, WithInPriority
  <2>18. /\ Len(t) = Len(s) + 1
         /\ tail = IF t = <<>> THEN NULL ELSE t[Len(t)]
    <3>1. Has(t, s, k, p, Nodes)
      <4>1. s \in Seq(Nodes)
        BY <2>1, <2>7
      <4> QED
        BY <2>2, <2>8, <4>1, WithElems
    <3>2. Len(t) = Len(s) + 1 /\ t[k + 1] = p /\ \A i \in k + 1 .. Len(s) : t[i + 1] = s[i]
      BY <3>1 DEF Has
    <3>3. t # <<>>
      BY <2>7, <3>2
    <3> HIDE DEF t
    <3>4. CASE k = Len(s)
      BY <2>9, <3>2, <3>3, <3>4 DEF tail
    <3>5. CASE k # Len(s)
      <4>1. Len(s) \in k + 1 .. Len(s) /\ Len(s) # 0
        BY <2>7, <2>8, <3>5
      <4>2. tail = s[Len(s)]
        BY <2>1, <2>7, <2>9, <3>5, <4>1 DEF tail
      <4> QED
        BY <3>2, <3>3, <4>1, <4>2
    <3> QED
      BY <3>2, <3>4, <3>5
  <2> HIDE DEF t
  <2>19. ASSUME NEW q \in r.heap PROVE r.entry[q] \in PrioEntry
    BY <2>1, <2>2, <2>6, <2>12, <2>13
  <2>20. ASSUME NEW q \in Nodes \ r.heap PROVE r.next[q] = garbage /\ r.entry[q] = garbage
    <3>1. q # p /\ q \notin self.heap
      BY <2>6
    <3>2. q # prev
      BY <2>2, <2>4, <2>7, <2>8, <3>1
    <3> QED
      BY <2>1, <2>6, <2>11, <2>12, <3>1, <3>2
  <2>21. PQ!Holds(r) /\ PQ!ListNodes(r) = t
    <3>1. r.size = Len(t) /\ r.heap \subseteq Nodes
      BY <2>1, <2>2, <2>6, <2>18
    <3>2. IsChain(t, r.head, r.next, r.heap, NULL) /\ InPriority(t, r.entry)
      BY <2>6, <2>15, <2>17
    <3>3. /\ r.next \in [Nodes -> Nodes \cup {NULL, garbage}] /\ DOMAIN r.entry = Nodes
          /\ r.tail = IF t = <<>> THEN NULL ELSE t[Len(t)]
      BY <2>6, <2>11, <2>12, <2>18
    <3> QED
      BY <2>6, <2>19, <2>20, <3>1, <3>2, <3>3, PrioOfNodes
  <2>22. PQ!Entries(r) = With(u, k, e)
    <3>1. PQ!Entries(r) = Along(t, r.entry)
      BY <2>21, NodesOfPrio
    <3> QED
      BY <2>6, <2>16, <3>1
  <2>23. /\ u \in Seq(PrioEntry) /\ Len(u) = Len(s)
         /\ \A i \in 1 .. Len(s) : u[i] = self.entry[s[i]]
    BY <2>1, <2>7, AlongElems
  <2>24. With(u, k, e) = SubSeq(u, 1, k) \o <<e>> \o SubSeq(u, k + 1, Len(u))
    BY <2>8, <2>13, <2>23, WithIs
  <2>25. /\ \A i \in 1 .. k : u[i].priority <= priority
         /\ \A i \in k + 1 .. Len(u) : u[i].priority > priority
    <3>1. /\ \A i \in 1 .. k : i \in 1 .. Len(s)
          /\ \A i \in k + 1 .. Len(s) : i \in 1 .. Len(s)
      BY <2>7, <2>8
    <3> QED
      BY <2>4, <2>23, <3>1
  <2>26. /\ ret' = <<"insert", TRUE>>
         /\ k \in 0 .. Len(u)
         /\ PQ!Entries(self') = SubSeq(u, 1, k) \o <<[priority |-> priority, value |-> value]>>
                                \o SubSeq(u, k + 1, Len(u))
    BY <1>3, <2>8, <2>22, <2>23, <2>24 DEF e, r
  <2>27. PQ!Q!Insert
    BY <2>25, <2>26 DEF PQ!Q!Insert, u
  <2> QED
    BY <2>21, <2>27 DEF PQ!ListOK, r
<1> QED
  BY <1>2, <1>3 DEF PQ!Insert

\* The first element is taken, and its node freed.
LEMMA PrioRemoveIsRemove ==
  ASSUME PQ!ListOK, PQ!RemoveMin
  PROVE  PQ!ListOK' /\ PQ!Q!RemoveMin
<1> DEFINE s == PQ!ListNodes(self)
           u == PQ!Entries(self)
           p == self.head
           next == [self.next EXCEPT ![p] = garbage]
           entry == [self.entry EXCEPT ![p] = garbage]
           head == self.next[p]
           tail == IF self.next[p] = NULL THEN NULL ELSE self.tail
           heap == self.heap \ {p}
           r == self'
           t == Tail(s)
<1>1. PQ!Holds(self)
  BY DEF PQ!ListOK
<1>2. /\ self = [size |-> self.size, head |-> self.head, tail |-> self.tail,
                 heap |-> self.heap, next |-> self.next, entry |-> self.entry]
      /\ IsChain(s, self.head, self.next, self.heap, NULL)
      /\ self.size = Len(s)
      /\ self.tail = IF s = <<>> THEN NULL ELSE s[Len(s)]
      /\ self.heap \subseteq Nodes
      /\ self.next \in [Nodes -> Nodes \cup {NULL, garbage}]
      /\ DOMAIN self.entry = Nodes
      /\ InPriority(s, self.entry)
      /\ \A q \in self.heap : self.entry[q] \in PrioEntry
      /\ \A q \in Nodes \ self.heap : self.next[q] = garbage /\ self.entry[q] = garbage
      /\ u = Along(s, self.entry)
      /\ Along(s, self.entry) \in Seq(PrioEntry)
  BY <1>1, NodesOfPrio
<1>3. /\ s \in Seq(self.heap) /\ Len(s) \in Nat /\ (s = <<>> <=> Len(s) = 0)
      /\ \A i \in 1 .. Len(s) : s[i] \in self.heap
      /\ \A i, j \in 1 .. Len(s) : s[i] = s[j] => i = j
  BY <1>2 DEF IsChain
<1>4. u = <<>> <=> s = <<>>
  <2> HIDE DEF s, u
  <2> QED
    BY <1>2, <1>3, AlongElems
<1>5. CASE self.size <= 0 /\ UNCHANGED self /\ ret' = <<"removeMin", FALSE>>
  <2>1. PQ!Entries(self)' = PQ!Entries(self)
    BY <1>5
  <2>2. u = <<>>
    <3> HIDE DEF s, u
    <3> QED
      BY <1>2, <1>3, <1>4, <1>5
  <2>3. ret'[1] = "removeMin"
    BY <1>5
  <2> QED
    BY <1>1, <1>5, <2>1, <2>2, <2>3 DEF PQ!ListOK, PQ!Q!RemoveMin
<1>6. CASE /\ self.size > 0
           /\ self' = [self EXCEPT !.head = head, !.tail = tail,
                !.size = @ - 1, !.heap = @ \ {p},
                !.next[p] = garbage, !.entry[p] = garbage]
           /\ ret' = <<"removeMin", TRUE, self.entry[self.head]>>
  <2>1. r = [self EXCEPT !.head = head, !.tail = tail, !.size = self.size - 1,
               !.heap = heap, !.next = next, !.entry = entry]
    BY <1>6
  <2> HIDE DEF s, u, p, next, entry, head, tail, heap, r
  <2>2. /\ r = [size |-> r.size, head |-> r.head, tail |-> r.tail,
                heap |-> r.heap, next |-> r.next, entry |-> r.entry]
        /\ r.size = self.size - 1 /\ r.head = head /\ r.tail = tail
        /\ r.heap = heap /\ r.next = next /\ r.entry = entry
    BY <1>2, <2>1
  <2>3. s # <<>> /\ 1 \in 1 .. Len(s)
    BY <1>2, <1>3, <1>6
  <2>4. p = s[1] /\ p \in self.heap /\ p \in Nodes
    <3>1. p = s[1]
      BY <1>2, <2>3 DEF IsChain, p
    <3> QED
      BY <1>2, <1>3, <2>3, <3>1
  <2>5. ASSUME NEW q \in Nodes, q # p
        PROVE  next[q] = self.next[q] /\ entry[q] = self.entry[q]
    BY <1>2, <2>5 DEF next, entry
  <2>6. ASSUME NEW i \in 2 .. Len(s) PROVE s[i] # p /\ s[i] \in Nodes
    <3>1. i \in 1 .. Len(s) /\ i # 1
      BY <1>3
    <3> QED
      BY <1>2, <1>3, <2>3, <2>4, <3>1
  <2>7. \A i \in 2 .. Len(s) : next[s[i]] = self.next[s[i]]
    BY <2>5, <2>6
  <2>8. /\ head = NULL <=> Len(s) = 1
        /\ IsChain(t, head, next, heap, NULL)
    <3>1. /\ IsChain(s, p, self.next, self.heap, NULL) /\ s # <<>>
          /\ \A i \in 2 .. Len(s) : next[s[i]] = self.next[s[i]]
      BY <1>2, <2>3, <2>7 DEF p
    <3>2. self.next[p] = NULL <=> Len(s) = 1
      BY <3>1, ChainHead
    <3>3. IsChain(Tail(s), self.next[p], next, self.heap \ {p}, NULL)
      BY <3>1, ChainTail
    <3> QED
      BY <3>2, <3>3 DEF head, heap
  <2>9. Along(t, entry) = Tail(u)
    <3>1. \A i \in 2 .. Len(s) : entry[s[i]] = self.entry[s[i]]
      BY <2>5, <2>6
    <3>2. s \in Seq(self.heap) /\ s # <<>> /\ Along(s, self.entry) \in Seq(PrioEntry)
          /\ t = Tail(s) /\ u = Along(s, self.entry)
      BY <1>2, <1>3, <2>3
    <3>3. Along(Tail(s), entry) = Tail(Along(s, self.entry))
      BY <3>1, <3>2, AlongTail
    <3> QED
      BY <3>2, <3>3
  <2>10. /\ t \in Seq(self.heap) /\ Len(t) = Len(s) - 1 /\ (t = <<>> <=> Len(s) = 1)
         /\ Len(s) > 1 => t[Len(t)] = s[Len(s)]
    <3>1. s \in Seq(self.heap) /\ s # <<>>
      BY <1>3, <2>3
    <3>2. t \in Seq(self.heap) /\ Len(t) = Len(s) - 1
          /\ \A i \in 1 .. Len(s) - 1 : t[i] = s[i + 1]
      BY <3>1
    <3> HIDE DEF t
    <3>3. t = <<>> <=> Len(s) = 1
      BY <1>3, <3>2
    <3>4. Len(s) > 1 => t[Len(t)] = s[Len(s)]
      BY <1>3, <3>2
    <3> QED
      BY <3>2, <3>3, <3>4
  <2>11. next \in [Nodes -> Nodes \cup {NULL, garbage}] /\ DOMAIN entry = Nodes
    BY <1>2 DEF next, entry
  <2>12. /\ r.size = Len(t)
         /\ r.tail = IF t = <<>> THEN NULL ELSE t[Len(t)]
         /\ r.heap \subseteq Nodes
    <3>1. tail = IF t = <<>> THEN NULL ELSE t[Len(t)]
      <4>1. CASE Len(s) = 1
        BY <2>8, <2>10, <4>1 DEF tail, head
      <4>2. CASE Len(s) # 1
        <5>1. t # <<>> /\ t[Len(t)] = s[Len(s)]
          BY <1>3, <2>3, <2>10, <4>2
        <5>2. tail = self.tail
          BY <2>8, <4>2 DEF tail, head
        <5> QED
          BY <1>2, <2>3, <5>1, <5>2
      <4> QED
        BY <4>1, <4>2
    <3> QED
      BY <1>2, <2>2, <2>10, <3>1 DEF heap
  <2>13. ASSUME NEW q \in r.heap PROVE r.entry[q] \in PrioEntry
    <3>1. q \in Nodes /\ q # p /\ q \in self.heap
      BY <1>2, <2>2 DEF heap
    <3> QED
      BY <1>2, <2>2, <2>5, <3>1
  <2>14. ASSUME NEW q \in Nodes \ r.heap PROVE r.next[q] = garbage /\ r.entry[q] = garbage
    <3>1. CASE q = p
      BY <1>2, <2>2, <2>4, <3>1 DEF next, entry
    <3>2. CASE q # p
      <4>1. q \notin self.heap
        BY <2>2, <3>2 DEF heap
      <4> QED
        BY <1>2, <2>2, <2>5, <3>2, <4>1
    <3> QED
      BY <3>1, <3>2
  <2>20. InPriority(t, entry)
    <3>1. t \in Seq(self.heap) /\ Len(t) = Len(s) - 1
          /\ \A i \in 1 .. Len(s) - 1 : t[i] = s[i + 1]
      BY <1>3, <2>3
    <3> HIDE DEF t
    <3>2. \A i \in 1 .. Len(t) : i + 1 \in 1 .. Len(s) /\ i + 1 \in 2 .. Len(s)
      BY <1>3, <3>1
    <3>3. \A i \in 1 .. Len(t) : entry[t[i]] = self.entry[s[i + 1]]
      BY <2>5, <2>6, <3>1, <3>2
    <3>4. \A i, j \in 1 .. Len(s) : i < j => self.entry[s[i]].priority <= self.entry[s[j]].priority
      BY <1>2 DEF InPriority
    <3>5. ASSUME NEW i \in 1 .. Len(t), NEW j \in 1 .. Len(t), i < j
          PROVE  entry[t[i]].priority <= entry[t[j]].priority
      <4>1. i + 1 < j + 1
        BY <3>5
      <4> QED
        BY <3>2, <3>3, <3>4, <4>1
    <3> QED
      BY <3>5 DEF InPriority
  <2> HIDE DEF t
  <2>15. PQ!Holds(r) /\ PQ!ListNodes(r) = t
    <3>1. /\ IsChain(t, r.head, r.next, r.heap, NULL)
          /\ r.next \in [Nodes -> Nodes \cup {NULL, garbage}] /\ DOMAIN r.entry = Nodes
          /\ InPriority(t, r.entry)
      BY <2>2, <2>8, <2>11, <2>20
    <3> QED
      BY <2>2, <2>12, <2>13, <2>14, <3>1, PrioOfNodes
  <2>16. PQ!Entries(r) = Tail(u)
    <3>1. PQ!Entries(r) = Along(t, r.entry)
      BY <2>15, NodesOfPrio
    <3> QED
      BY <2>2, <2>9, <3>1
  <2>17. u # <<>> /\ u[1] = self.entry[p]
    <3>1. u[1] = self.entry[s[1]]
      BY <1>2, <1>3, <2>3, AlongElems
    <3> QED
      BY <1>4, <2>3, <2>4, <3>1
  <2>18. ret' = <<"removeMin", TRUE, u[1]>>
    BY <1>6, <2>17 DEF p
  <2>19. ret'[1] = "removeMin"
    BY <2>18
  <2> QED
    BY <2>15, <2>16, <2>17, <2>18, <2>19 DEF PQ!ListOK, PQ!Q!RemoveMin, r, u
<1> QED
  BY <1>5, <1>6 DEF PQ!RemoveMin

\* What a sound priority queue tells and gives away is of its line.
LEMMA PrioCalls ==
  ASSUME PQ!ListOK, PQ!Next
  PROVE  PQ!ListOK' /\ PQ!Q!StableNext
<1> DEFINE s == PQ!ListNodes(self)
           u == PQ!Entries(self)
<1>1. PQ!Holds(self)
  BY DEF PQ!ListOK
<1>2. /\ IsChain(s, self.head, self.next, self.heap, NULL)
      /\ self.size = Len(s)
      /\ u = Along(s, self.entry)
      /\ Along(s, self.entry) \in Seq(PrioEntry)
  BY <1>1, NodesOfPrio
<1>3. self.size = Len(u) /\ self.size \in Nat /\ (u = <<>> <=> self.size = 0)
      /\ (self.size > 0 => u[1] = self.entry[self.head])
  <2>1. s \in Seq(self.heap) /\ (s # <<>> => self.head = s[1])
        /\ (s = <<>> <=> Len(s) = 0) /\ Len(s) \in Nat
    BY <1>2 DEF IsChain
  <2> HIDE DEF s, u
  <2>2. /\ Len(s) \in Nat /\ Len(Along(s, self.entry)) = Len(s)
        /\ \A i \in 1 .. Len(s) : Along(s, self.entry)[i] = self.entry[s[i]]
        /\ Along(s, self.entry) = <<>> <=> s = <<>>
    BY <1>2, <2>1, AlongElems
  <2>3. ASSUME self.size > 0 PROVE u[1] = self.entry[self.head]
    <3>1. 1 \in 1 .. Len(s) /\ s # <<>>
      BY <1>2, <2>1, <2>3
    <3> QED
      BY <1>2, <2>1, <2>2, <3>1
  <2> QED
    BY <1>2, <2>1, <2>2, <2>3
<1>4. UNCHANGED self => PQ!ListOK' /\ u' = u
  BY <1>1 DEF PQ!ListOK
<1>5. ASSUME NEW priority \in Priorities, NEW value \in Values, PQ!Insert(priority, value)
      PROVE  PQ!ListOK' /\ PQ!Q!StableNext
  BY <1>5, PrioInsertIsInsert DEF PQ!Q!StableNext
<1>6. CASE PQ!RemoveMin
  BY <1>6, PrioRemoveIsRemove DEF PQ!Q!StableNext
<1>7. ASSUME NEW op \in {"clear", "destroy"}, PQ!Clear(op)
      PROVE  PQ!ListOK' /\ PQ!Q!StableNext
  <2>1. PQ!Holds(self') /\ PQ!Entries(self') = <<>>
    BY <1>7, PrioNew DEF PQ!Clear
  <2>2. ret' = <<op, u>>
    BY <1>7 DEF PQ!Clear
  <2>3. ret'[1] \in {"clear", "destroy"} /\ ret'[2] = u
    BY <2>2
  <2>4. PQ!Q!Empty
    BY <2>1, <2>3 DEF PQ!Q!Empty
  <2> QED
    BY <2>1, <2>4 DEF PQ!ListOK, PQ!Q!StableNext
<1>8. CASE PQ!PeekMin
  <2>1. UNCHANGED self
    BY <1>8 DEF PQ!PeekMin
  <2>2. ret' = IF u = <<>> THEN <<"min", FALSE>> ELSE <<"min", TRUE, u[1]>>
    <3>1. CASE self.size > 0
      <4>1. u # <<>>
        BY <1>3, <3>1
      <4>2. ret' = <<"min", TRUE, u[1]>>
        BY <1>3, <1>8, <3>1 DEF PQ!PeekMin
      <4> QED
        BY <4>1, <4>2
    <3>2. CASE ~(self.size > 0)
      <4>1. u = <<>>
        BY <1>3, <3>2
      <4>2. ret' = <<"min", FALSE>>
        BY <1>8, <3>2 DEF PQ!PeekMin
      <4> QED
        BY <4>1, <4>2
    <3> QED
      BY <3>1, <3>2
  <2>3. ret'[1] = "min"
    BY <2>2
  <2>4. PQ!Q!PeekMin
    BY <1>4, <2>1, <2>2, <2>3 DEF PQ!Q!PeekMin
  <2> QED
    BY <1>4, <2>1, <2>4 DEF PQ!Q!StableNext
<1>9. CASE PQ!Size
  <2>1. PQ!Q!Size
    BY <1>3, <1>4, <1>9 DEF PQ!Size, PQ!Q!Size
  <2> QED
    BY <1>4, <1>9, <2>1 DEF PQ!Size, PQ!Q!StableNext
<1>10. CASE PQ!ToArray
  <2>1. PQ!Q!ToArray
    BY <1>4, <1>10 DEF PQ!ToArray, PQ!Q!ToArray
  <2> QED
    BY <1>4, <1>10, <2>1 DEF PQ!ToArray, PQ!Q!StableNext
<1>11. CASE PQ!ItCreate
  <2>1. PQ!Q!Iterate
    BY <1>3, <1>4, <1>11 DEF PQ!ItCreate, PQ!Q!Iterate
  <2> QED
    BY <1>4, <1>11, <2>1 DEF PQ!ItCreate, PQ!Q!StableNext
<1> QED
  BY <1>5, <1>6, <1>7, <1>8, <1>9, <1>10, <1>11 DEF PQ!Next

-----------------------------------------------------------------------------
(***************************************************************************)
(* The priority queue in a heap. siftup and siftdown keep an array that is *)
(* a heap but for one entry (Rising, Sinking), and the entries in the order *)
(* of realCmp (Enumerates) are the queue.                                  *)
(***************************************************************************)

HeapEntry == [priority : Priorities, value : Values, sequenceNo : Nat]

\* The order of realCmp.
Before(d, e) == \/ d.priority < e.priority
                \/ d.priority = e.priority /\ d.sequenceNo < e.sequenceNo
AtMost(d, e) == ~ Before(e, d)

\* Entries of the heap carry ints.
LEMMA EntryInts ==
  ASSUME NEW e \in HeapEntry
  PROVE  e.priority \in Int /\ e.sequenceNo \in Nat
BY KeyedAssumption DEF HeapEntry, HQ!HeapAssumption

\* A difference of numbers given out so far is an int.
LEMMA ToIntIs ==
  ASSUME NEW x \in Int, - INT_MAX <= x, x <= INT_MAX
  PROVE  HQ!ToInt(x) = x
<1>1. INT_MAX \in Nat
  BY KeyedAssumption DEF HQ!HeapAssumption
<1>2. \A n \in Nat \ {0} : \A a \in Nat : a < n => a % n = a
  OBVIOUS
<1> DEFINE n == 2 * INT_MAX + 2
           a == x + INT_MAX + 1
<1>3. n \in Nat \ {0} /\ a \in Nat /\ a < n
  BY <1>1
<1> HIDE DEF n, a
<1>4. a % n = a
  BY <1>2, <1>3
<1>5. (x + INT_MAX + 1) % (2 * INT_MAX + 2) = x + INT_MAX + 1
  BY <1>4 DEF n, a
<1>6. HQ!ToInt(x) = (x + INT_MAX + 1) - INT_MAX - 1
  BY <1>5 DEF HQ!ToInt
<1> QED
  BY <1>1, <1>6

\* RealCmp, which subtracts, decides the order of two entries as long as the
\* sequence numbers are small enough for an int.
LEMMA CmpIs ==
  ASSUME NEW d \in HeapEntry, NEW e \in HeapEntry,
         d.sequenceNo <= MAXSEQ, e.sequenceNo <= MAXSEQ
  PROVE  /\ HQ!RealCmp(d, e) < 0 <=> Before(d, e)
         /\ HQ!RealCmp(d, e) <= 0 <=> AtMost(d, e)
         /\ HQ!RealCmp(d, e) > 0 <=> Before(e, d)
<1>1. /\ d.priority \in Int /\ d.sequenceNo \in Nat
      /\ e.priority \in Int /\ e.sequenceNo \in Nat
  BY EntryInts
<1>2. INT_MAX \in Nat /\ MAXSEQ \in 0 .. INT_MAX
  BY KeyedAssumption DEF HQ!HeapAssumption
<1>3. HQ!ToInt(d.sequenceNo - e.sequenceNo) = d.sequenceNo - e.sequenceNo
  <2> DEFINE x == d.sequenceNo - e.sequenceNo
  <2>1. x \in Int /\ - INT_MAX <= x /\ x <= INT_MAX
    BY <1>1, <1>2
  <2> HIDE DEF x
  <2>2. HQ!ToInt(x) = x
    BY <2>1, ToIntIs
  <2> QED
    BY <2>2 DEF x
<1>4. HQ!RealCmp(d, e) = IF d.priority # e.priority THEN d.priority - e.priority
                         ELSE d.sequenceNo - e.sequenceNo
  BY <1>3 DEF HQ!RealCmp
<1> QED
  BY <1>1, <1>4 DEF Before, AtMost

\* By priority, then by sequence number, is a strict total order.
LEMMA BeforeIsOrder ==
  ASSUME NEW d \in HeapEntry, NEW e \in HeapEntry, NEW c \in HeapEntry
  PROVE  /\ ~ Before(d, d)
         /\ Before(d, e) => AtMost(d, e)
         /\ Before(d, e) /\ Before(e, c) => Before(d, c)
         /\ AtMost(d, e) /\ AtMost(e, c) => AtMost(d, c)
         /\ AtMost(d, e) \/ Before(e, d)
         /\ d.sequenceNo # e.sequenceNo => Before(d, e) \/ Before(e, d)
<1>1. /\ d.priority \in Int /\ d.sequenceNo \in Nat
      /\ e.priority \in Int /\ e.sequenceNo \in Nat
      /\ c.priority \in Int /\ c.sequenceNo \in Nat
  BY EntryInts
<1> QED
  BY <1>1 DEF Before, AtMost

\* The parent of an index of the heap is an index before it.
LEMMA HalfIs ==
  ASSUME NEW k \in Nat
  PROVE  /\ k \div 2 \in Nat /\ 2 * (k \div 2) <= k /\ k <= 2 * (k \div 2) + 1
         /\ k >= 1 => k \div 2 < k
         /\ k >= 2 => k \div 2 >= 1
<1>1. k \div 2 \in Nat /\ 2 * (k \div 2) <= k /\ k <= 2 * (k \div 2) + 1
  OBVIOUS
<1> DEFINE h == k \div 2
<1> HIDE DEF h
<1>2. h \in Nat /\ 2 * h <= k /\ k <= 2 * h + 1
  BY <1>1 DEF h
<1>3. (k >= 1 => h < k) /\ (k >= 2 => h >= 1)
  BY <1>2
<1> QED
  BY <1>1, <1>3 DEF h

\* The entries of an array, each with a number of its own below top.
Numbered(h, top) ==
  /\ h \in Seq(HeapEntry)
  /\ \A i \in 1 .. Len(h) : h[i].sequenceNo < top
  /\ \A i, j \in 1 .. Len(h) : h[i].sequenceNo = h[j].sequenceNo => i = j
\* The same entries in another order.
Alike(g, h, top) == Numbered(g, top) /\ Len(g) = Len(h) /\ Elems(g) = Elems(h)

\* In a heap whose entries are numbered RealCmp is the order of its entries.
LEMMA NumberedCmp ==
  ASSUME NEW top \in 0 .. MAXSEQ, NEW h, Numbered(h, top),
         NEW i \in 1 .. Len(h), NEW j \in 1 .. Len(h)
  PROVE  /\ h[i] \in HeapEntry /\ h[j] \in HeapEntry
         /\ HQ!RealCmp(h[i], h[j]) < 0 <=> Before(h[i], h[j])
         /\ HQ!RealCmp(h[i], h[j]) <= 0 <=> AtMost(h[i], h[j])
         /\ HQ!RealCmp(h[i], h[j]) > 0 <=> Before(h[j], h[i])
         /\ i # j => Before(h[i], h[j]) \/ Before(h[j], h[i])
<1>1. h[i] \in HeapEntry /\ h[j] \in HeapEntry
  BY DEF Numbered
<1>2. h[i].sequenceNo \in Nat /\ h[j].sequenceNo \in Nat
  BY <1>1, EntryInts
<1>3. MAXSEQ \in Int
  BY KeyedAssumption DEF HQ!HeapAssumption
<1>4. h[i].sequenceNo < top /\ h[j].sequenceNo < top
  BY DEF Numbered
<1>5. h[i].sequenceNo <= MAXSEQ /\ h[j].sequenceNo <= MAXSEQ
  BY <1>2, <1>3, <1>4
<1>6. i # j => h[i].sequenceNo # h[j].sequenceNo
  BY DEF Numbered
<1> QED
  BY <1>1, <1>5, <1>6, CmpIs, BeforeIsOrder

\* Two entries change places.
LEMMA SwappedIs ==
  ASSUME NEW top, NEW h, Numbered(h, top), NEW i \in 1 .. Len(h), NEW j \in 1 .. Len(h)
  PROVE  LET g == HQ!Swapped(h, i, j) IN
         /\ Alike(g, h, top)
         /\ g[i] = h[j] /\ g[j] = h[i]
         /\ \A k \in 1 .. Len(h) : k # i /\ k # j => g[k] = h[k]
<1> DEFINE g == HQ!Swapped(h, i, j)
           n == Len(h)
           s == [k \in 1 .. n |-> IF k = i THEN j ELSE IF k = j THEN i ELSE k]
<1>1. n \in Nat /\ h \in [1 .. n -> HeapEntry]
  BY DEF Numbered
<1>2. g = [h EXCEPT ![i] = h[j], ![j] = h[i]]
  BY DEF HQ!Swapped
<1>3. i \in 1 .. n /\ j \in 1 .. n
  OBVIOUS
<1> HIDE DEF g, n
<1>4. /\ g \in [1 .. n -> HeapEntry]
      /\ \A k \in 1 .. n : g[k] = IF k = j THEN h[i] ELSE IF k = i THEN h[j] ELSE h[k]
  BY <1>1, <1>2, <1>3
<1>5. g \in Seq(HeapEntry) /\ Len(g) = n
  BY <1>1, <1>4
<1>6. \A k \in 1 .. n : s[k] \in 1 .. n /\ g[k] = h[s[k]] /\ s[s[k]] = k
  BY <1>3, <1>4
<1> HIDE DEF s
<1>7. Elems(g) = Elems(h)
  <2>1. \A k \in 1 .. n : g[k] \in {h[m] : m \in 1 .. n}
    BY <1>6
  <2>2. ASSUME NEW k \in 1 .. n PROVE h[k] \in {g[m] : m \in 1 .. n}
    <3>1. s[k] \in 1 .. n /\ g[s[k]] = h[k]
      BY <1>6
    <3> QED
      BY <3>1
  <2> QED
    BY <1>5, <2>1, <2>2 DEF Elems, n
<1>8. \A k \in 1 .. n : g[k].sequenceNo < top
  BY <1>6 DEF Numbered, n
<1>9. ASSUME NEW k \in 1 .. n, NEW m \in 1 .. n, g[k].sequenceNo = g[m].sequenceNo
      PROVE  k = m
  <2>1. s[k] = s[m]
    BY <1>6, <1>9 DEF Numbered, n
  <2> QED
    BY <1>6, <2>1
<1>10. Alike(g, h, top)
  BY <1>5, <1>7, <1>8, <1>9 DEF Alike, Numbered, n
<1> QED
  BY <1>3, <1>4, <1>10 DEF g, n

\* No entry is less than its parent; and so it is but for entry i, which may
\* be less than its parent, or greater than its children.
Heaped(h) == \A k \in 2 .. Len(h) : AtMost(h[k \div 2], h[k])
Bridged(h, i) ==
  i >= 2 => \A k \in 2 .. Len(h) : k \div 2 = i => AtMost(h[i \div 2], h[k])
Rising(h, i) ==
  Bridged(h, i) /\ \A k \in 2 .. Len(h) : k # i => AtMost(h[k \div 2], h[k])
Sinking(h, i) ==
  Bridged(h, i) /\ \A k \in 2 .. Len(h) : k \div 2 # i => AtMost(h[k \div 2], h[k])

\* Entry i goes up.
LEMMA SwapRises ==
  ASSUME NEW top \in 0 .. MAXSEQ, NEW h, Numbered(h, top), NEW i \in 2 .. Len(h),
         Rising(h, i), Before(h[i], h[i \div 2])
  PROVE  Rising(HQ!Swapped(h, i \div 2, i), i \div 2)
<1> DEFINE p == i \div 2
           g == HQ!Swapped(h, p, i)
           n == Len(h)
<1>1. n \in Nat /\ i \in 2 .. n /\ \A k \in 1 .. n : h[k] \in HeapEntry
  BY DEF Numbered
<1>2. p \in 1 .. n /\ p < i /\ p \in Nat
  BY <1>1, HalfIs
<1>3. /\ Len(g) = n /\ g[p] = h[i] /\ g[i] = h[p]
      /\ \A k \in 1 .. n : k # p /\ k # i => g[k] = h[k]
  <2>1. p \in 1 .. Len(h) /\ i \in 1 .. Len(h) /\ Numbered(h, top)
    BY <1>1, <1>2
  <2> HIDE DEF g, n, p
  <2>2. /\ Alike(HQ!Swapped(h, p, i), h, top)
        /\ HQ!Swapped(h, p, i)[p] = h[i] /\ HQ!Swapped(h, p, i)[i] = h[p]
        /\ \A k \in 1 .. Len(h) : k # p /\ k # i => HQ!Swapped(h, p, i)[k] = h[k]
    BY <2>1, SwappedIs
  <2> QED
    BY <2>2 DEF Alike, g, n
<1>4. Before(h[i], h[p])
  OBVIOUS
<1>5. \A k \in 2 .. n : k # i => AtMost(h[k \div 2], h[k])
  BY DEF Rising
<1>6. \A k \in 2 .. n : k \div 2 = i => AtMost(h[p], h[k])
  BY <1>1 DEF Rising, Bridged
<1>h. \A k \in 2 .. n : k \div 2 \in 1 .. n /\ k \div 2 < k /\ k \in 1 .. n
  BY <1>1, HalfIs
<1> HIDE DEF g, p, n
<1>7. ASSUME NEW k \in 2 .. n, k # p PROVE AtMost(g[k \div 2], g[k])
  <2> DEFINE q == k \div 2
  <2>1. q \in 1 .. n /\ q < k /\ k \in 1 .. n
    BY <1>h
  <2>2. k = i => q = p
    BY DEF p
  <2>3. (k # i => AtMost(h[q], h[k])) /\ (q = i => AtMost(h[p], h[k]))
    BY <1>5, <1>6
  <2> SUFFICES AtMost(g[q], g[k])
    OBVIOUS
  <2> HIDE DEF q
  <2>4. CASE k = i
    <3>1. g[q] = h[i] /\ g[k] = h[p]
      BY <1>3, <2>2, <2>4
    <3> QED
      BY <1>1, <1>2, <1>4, <3>1, BeforeIsOrder
  <2>5. CASE k # i /\ q = p
    <3>1. g[q] = h[i] /\ g[k] = h[k] /\ AtMost(h[p], h[k])
      BY <1>3, <1>7, <2>1, <2>3, <2>5
    <3>2. AtMost(h[i], h[p])
      BY <1>1, <1>2, <1>4, BeforeIsOrder
    <3> QED
      BY <1>1, <1>2, <2>1, <3>1, <3>2, BeforeIsOrder
  <2>6. CASE k # i /\ q = i
    BY <1>3, <1>7, <2>1, <2>3, <2>6
  <2>7. CASE k # i /\ q # i /\ q # p
    BY <1>3, <1>7, <2>1, <2>3, <2>7
  <2> QED
    BY <2>4, <2>5, <2>6, <2>7
<1>8. ASSUME p >= 2, NEW k \in 2 .. n, k \div 2 = p PROVE AtMost(g[p \div 2], g[k])
  <2> DEFINE r == p \div 2
  <2>1. r \in 1 .. n /\ r < p /\ p \in 2 .. n
    BY <1>2, <1>8, <1>h
  <2>2. AtMost(h[r], h[p])
    BY <1>2, <1>5, <2>1
  <2>3. k \in 1 .. n /\ k > p
    BY <1>8, <1>h, <1>2
  <2>4. k # i => AtMost(h[p], h[k])
    BY <1>5, <1>8
  <2> SUFFICES AtMost(g[r], g[k])
    OBVIOUS
  <2> HIDE DEF r
  <2>5. g[r] = h[r]
    BY <1>2, <1>3, <2>1
  <2>6. CASE k = i
    BY <1>3, <2>2, <2>5, <2>6
  <2>7. CASE k # i
    <3>1. g[k] = h[k] /\ AtMost(h[p], h[k])
      BY <1>2, <1>3, <2>3, <2>4, <2>7
    <3> QED
      BY <1>1, <1>2, <2>1, <2>2, <2>3, <2>5, <3>1, BeforeIsOrder
  <2> QED
    BY <2>6, <2>7
<1> QED
  BY <1>3, <1>7, <1>8 DEF Rising, Bridged, g, p, n

\* Entry i goes down, to its lesser child.
LEMMA SwapSinks ==
  ASSUME NEW top \in 0 .. MAXSEQ, NEW h, Numbered(h, top), NEW i \in 1 .. Len(h),
         NEW c \in 2 .. Len(h), c \div 2 = i,
         Sinking(h, i), Before(h[c], h[i]),
         \A k \in 2 .. Len(h) : k \div 2 = i => AtMost(h[c], h[k])
  PROVE  Sinking(HQ!Swapped(h, i, c), c)
<1> DEFINE g == HQ!Swapped(h, i, c)
           n == Len(h)
<1>1. n \in Nat /\ i \in 1 .. n /\ c \in 2 .. n /\ \A k \in 1 .. n : h[k] \in HeapEntry
  BY DEF Numbered
<1>2. c \in 1 .. n /\ i < c
  BY <1>1, HalfIs
<1>3. /\ Len(g) = n /\ g[i] = h[c] /\ g[c] = h[i]
      /\ \A k \in 1 .. n : k # i /\ k # c => g[k] = h[k]
  <2>1. i \in 1 .. Len(h) /\ c \in 1 .. Len(h) /\ Numbered(h, top)
    BY <1>2
  <2> HIDE DEF g, n
  <2>2. /\ Alike(HQ!Swapped(h, i, c), h, top)
        /\ HQ!Swapped(h, i, c)[i] = h[c] /\ HQ!Swapped(h, i, c)[c] = h[i]
        /\ \A k \in 1 .. Len(h) : k # i /\ k # c => HQ!Swapped(h, i, c)[k] = h[k]
    BY <2>1, SwappedIs
  <2> QED
    BY <2>2 DEF Alike, g, n
<1>5. \A k \in 2 .. n : k \div 2 # i => AtMost(h[k \div 2], h[k])
  BY DEF Sinking
<1>6. i >= 2 => \A k \in 2 .. n : k \div 2 = i => AtMost(h[i \div 2], h[k])
  BY DEF Sinking, Bridged
<1>7. \A k \in 2 .. n : k \div 2 = i => AtMost(h[c], h[k])
  OBVIOUS
<1>h. \A k \in 2 .. n : k \div 2 \in 1 .. n /\ k \div 2 < k /\ k \in 1 .. n
  BY <1>1, HalfIs
<1>8. AtMost(h[c], h[i])
  BY <1>1, <1>2, BeforeIsOrder
<1> HIDE DEF g, n
<1>9. ASSUME NEW k \in 2 .. n, k \div 2 # c PROVE AtMost(g[k \div 2], g[k])
  <2> DEFINE q == k \div 2
  <2>1. q \in 1 .. n /\ q < k /\ k \in 1 .. n
    BY <1>h
  <2>2. /\ k = c => q = i
        /\ q # i => AtMost(h[q], h[k])
        /\ q = i => AtMost(h[c], h[k])
        /\ k = i => AtMost(h[q], h[c])
    <3>1. k = i => i >= 2
      OBVIOUS
    <3> QED
      BY <1>1, <1>5, <1>6, <1>7, <3>1
  <2>3. q # c
    BY <1>9
  <2> SUFFICES AtMost(g[q], g[k])
    OBVIOUS
  <2> HIDE DEF q
  <2>4. CASE k = c
    BY <1>3, <1>8, <2>2, <2>4
  <2>5. CASE k = i
    <3>2. q # i
      BY <1>1, <2>1, <2>5
    <3>1. g[k] = h[c] /\ q # i /\ g[q] = h[q]
      BY <1>3, <2>1, <2>3, <2>5, <3>2
    <3> QED
      BY <2>2, <2>5, <3>1
  <2>6. CASE k # c /\ k # i /\ q = i
    BY <1>3, <2>1, <2>2, <2>6
  <2>7. CASE k # c /\ k # i /\ q # i
    BY <1>3, <2>1, <2>2, <2>3, <2>7
  <2> QED
    BY <2>4, <2>5, <2>6, <2>7
<1>10. ASSUME NEW k \in 2 .. n, k \div 2 = c PROVE AtMost(g[c \div 2], g[k])
  <2>1. k \in 1 .. n /\ c < k /\ k # i /\ k # c
    BY <1>2, <1>10, <1>h
  <2>2. AtMost(h[c], h[k])
    BY <1>2, <1>5, <1>10
  <2>3. g[c \div 2] = h[c] /\ g[k] = h[k]
    BY <1>3, <2>1
  <2> QED
    BY <2>2, <2>3
<1> QED
  BY <1>3, <1>9, <1>10 DEF Sinking, Bridged, g, n

\* The root of a heap is its least entry.
LEMMA RootIsLeast ==
  ASSUME NEW top \in 0 .. MAXSEQ, NEW h, Numbered(h, top), Heaped(h),
         NEW i \in 1 .. Len(h)
  PROVE  AtMost(h[1], h[i])
<1> DEFINE T == {m \in Nat : \A k \in 1 .. Len(h) : k <= m => AtMost(h[1], h[k])}
<1>1. Len(h) \in Nat /\ \A k \in 1 .. Len(h) : h[k] \in HeapEntry
  BY DEF Numbered
<1>2. 0 \in T
  OBVIOUS
<1>3. ASSUME NEW m \in T PROVE m + 1 \in T
  <2>1. ASSUME NEW k \in 1 .. Len(h), k = m + 1 PROVE AtMost(h[1], h[k])
    <3>1. CASE k = 1
      BY <1>1, <3>1, BeforeIsOrder DEF AtMost
    <3>2. CASE k # 1
      <4> DEFINE q == k \div 2
      <4>1. q \in 1 .. Len(h) /\ q < k /\ k \in 2 .. Len(h)
        BY <1>1, <3>2, HalfIs
      <4>2. AtMost(h[q], h[k])
        BY <4>1 DEF Heaped
      <4> HIDE DEF q
      <4>3. q <= m
        BY <2>1, <4>1
      <4>4. AtMost(h[1], h[q])
        BY <4>1, <4>3
      <4>5. 1 \in 1 .. Len(h)
        BY <1>1
      <4> QED
        BY <1>1, <4>1, <4>2, <4>4, <4>5, BeforeIsOrder
    <3> QED
      BY <3>1, <3>2
  <2>2. \A k \in 1 .. Len(h) : k <= m + 1 => k <= m \/ k = m + 1
    OBVIOUS
  <2> QED
    BY <2>1, <2>2
<1>4. T = Nat
  <2>1. T \in SUBSET Nat
    OBVIOUS
  <2> HIDE DEF T
  <2> QED
    BY <1>2, <1>3, <2>1, NatInduct
<1>5. i \in T
  BY <1>4
<1> QED
  BY <1>5

\* A step repeated n times.
Runs(g, n, base, step) == g[0] = base /\ \A k \in 1 .. n : g[k] = step[g[k - 1]]

\* A step taken N times has an outcome.
LEMMA Iterated ==
  ASSUME NEW S, NEW N \in Nat, NEW base \in S, NEW step \in [S -> S]
  PROVE  \E g \in [0 .. N -> S] : Runs(g, N, base, step)
<1> DEFINE T == {n \in Nat : \E g \in [0 .. n -> S] : Runs(g, n, base, step)}
<1>1. 0 \in T
  <2>1. [k \in 0 .. 0 |-> base] \in [0 .. 0 -> S] /\ Runs([k \in 0 .. 0 |-> base], 0, base, step)
    BY DEF Runs
  <2> QED
    BY <2>1
<1>2. ASSUME NEW n \in T PROVE n + 1 \in T
  <2>1. PICK g \in [0 .. n -> S] : Runs(g, n, base, step)
    OBVIOUS
  <2> DEFINE f == [k \in 0 .. n + 1 |-> IF k = n + 1 THEN step[g[n]] ELSE g[k]]
  <2>2. n \in Nat /\ g[n] \in S
    OBVIOUS
  <2>3. \A k \in 0 .. n + 1 : f[k] \in S
    <3>1. \A k \in 0 .. n + 1 : k # n + 1 => k \in 0 .. n
      OBVIOUS
    <3> QED
      BY <2>2, <3>1
  <2>4. f \in [0 .. n + 1 -> S]
    BY <2>3
  <2>5. f[n + 1] = step[g[n]] /\ \A k \in 0 .. n : f[k] = g[k]
    OBVIOUS
  <2> HIDE DEF f
  <2>6. f[0] = base
    BY <2>1, <2>2, <2>5 DEF Runs
  <2>7. ASSUME NEW k \in 1 .. n + 1 PROVE f[k] = step[f[k - 1]]
    <3>1. CASE k = n + 1
      <4>1. k - 1 = n /\ n \in 0 .. n
        BY <2>2, <3>1
      <4> QED
        BY <2>5, <3>1, <4>1
    <3>2. CASE k # n + 1
      <4>1. k \in 1 .. n /\ k \in 0 .. n /\ k - 1 \in 0 .. n
        BY <2>2, <3>2
      <4> QED
        BY <2>1, <2>5, <4>1 DEF Runs
    <3> QED
      BY <3>1, <3>2
  <2>8. Runs(f, n + 1, base, step)
    BY <2>6, <2>7 DEF Runs
  <2> QED
    BY <2>2, <2>4, <2>8
<1>3. T = Nat
  <2>1. T \in SUBSET Nat
    OBVIOUS
  <2> HIDE DEF T
  <2> QED
    BY <1>1, <1>2, <2>1, NatInduct
<1>4. N \in T
  BY <1>3
<1> QED
  BY <1>4

\* The array during siftup, and during siftdown, with entry i on its way.
RiseStates(h, top) ==
  {s \in [heap : Seq(HeapEntry), i : Nat] :
     Alike(s.heap, h, top) /\ s.i \in 1 .. Len(h) /\ Rising(s.heap, s.i)}
SinkStates(h, top) ==
  {s \in [heap : Seq(HeapEntry), i : Nat] :
     Alike(s.heap, h, top) /\ s.i \in Nat \ {0} /\ Sinking(s.heap, s.i)}

\* A turn of siftup leaves a heap, or an entry that is nearer to the root.
LEMMA RiseTurns ==
  ASSUME NEW top \in 0 .. MAXSEQ, NEW h, NEW s \in RiseStates(h, top)
  PROVE  LET t == HQ!Rise(s) IN
         /\ t \in RiseStates(h, top)
         /\ \/ t = s /\ Heaped(s.heap)
            \/ t.i < s.i /\ ~ Heaped(s.heap)
<1> DEFINE g == s.heap
           i == s.i
           p == i \div 2
           t == HQ!Rise(s)
           n == Len(h)
<1>1. /\ Numbered(g, top) /\ Len(g) = n /\ Elems(g) = Elems(h)
      /\ i \in 1 .. n /\ Rising(g, i) /\ n \in Nat
  BY DEF RiseStates, Alike, Numbered
<1>2. t = IF i > 1 /\ HQ!RealCmp(g[p], g[i]) > 0
          THEN [heap |-> HQ!Swapped(g, p, i), i |-> p] ELSE s
  BY DEF HQ!Rise
<1> HIDE DEF g, i, p, t, n
<1>3. \A k \in 2 .. n : k \div 2 \in 1 .. n /\ k \div 2 < k /\ k \in 1 .. n
  BY <1>1, HalfIs
<1>4. \A k \in 1 .. n : g[k] \in HeapEntry
  BY <1>1 DEF Numbered
<1>5. CASE i > 1 /\ HQ!RealCmp(g[p], g[i]) > 0
  <2>1. i \in 2 .. n /\ p \in 1 .. n /\ p < i
    BY <1>1, <1>3, <1>5 DEF p
  <2>2. Before(g[i], g[p])
    BY <1>1, <1>5, <2>1, NumberedCmp
  <2>3. Alike(HQ!Swapped(g, p, i), g, top)
    BY <1>1, <2>1, SwappedIs
  <2>4. Rising(HQ!Swapped(g, p, i), p)
    BY <1>1, <2>1, <2>2, SwapRises DEF p
  <2>5. t.heap = HQ!Swapped(g, p, i) /\ t.i = p /\ t = [heap |-> t.heap, i |-> t.i]
    BY <1>2, <1>5
  <2>6. Alike(t.heap, h, top) /\ t.heap \in Seq(HeapEntry) /\ Rising(t.heap, t.i)
    BY <1>1, <2>3, <2>4, <2>5 DEF Alike, Numbered, n
  <2>7. t.i \in 1 .. n /\ t.i \in Nat /\ t.i < i
    BY <2>1, <2>5
  <2>8. t \in [heap : Seq(HeapEntry), i : Nat]
    BY <2>5, <2>6, <2>7
  <2>9. t \in RiseStates(h, top)
    BY <2>6, <2>7, <2>8 DEF RiseStates, n
  <2>10. ~ Heaped(g)
    <3>1. Heaped(g) => AtMost(g[p], g[i])
      BY <1>1, <2>1 DEF Heaped, p
    <3> QED
      BY <2>2, <3>1 DEF AtMost
  <2> QED
    BY <2>7, <2>9, <2>10 DEF g, i, t
<1>6. CASE ~ (i > 1 /\ HQ!RealCmp(g[p], g[i]) > 0)
  <2>1. t = s
    BY <1>2, <1>6
  <2>2. ASSUME NEW k \in 2 .. n PROVE AtMost(g[k \div 2], g[k])
    <3>1. CASE k # i
      BY <1>1, <3>1 DEF Rising
    <3>2. CASE k = i
      <4>1. p \in 1 .. n /\ i > 1 /\ p = k \div 2
        BY <1>1, <1>3, <3>2 DEF p
      <4>2. ~ Before(g[i], g[p])
        BY <1>1, <1>6, <4>1, NumberedCmp
      <4> QED
        BY <3>2, <4>1, <4>2 DEF AtMost
    <3> QED
      BY <3>1, <3>2
  <2>3. Heaped(g)
    BY <1>1, <2>2 DEF Heaped
  <2> QED
    BY <2>1, <2>3 DEF g, t
<1> QED
  BY <1>5, <1>6

\* siftup leaves the same entries as a heap.
LEMMA SiftsUp ==
  ASSUME NEW top \in 0 .. MAXSEQ, NEW h, Numbered(h, top), h # <<>>,
         Rising(h, Len(h))
  PROVE  Alike(HQ!SiftUp(h, Len(h)), h, top) /\ Heaped(HQ!SiftUp(h, Len(h)))
<1> DEFINE n == Len(h)
           S == RiseStates(h, top)
           base == [heap |-> h, i |-> n]
           E(f) == [k \in 0 .. n |-> IF k = 0 THEN base ELSE HQ!Rise(f[k - 1])]
           a == CHOOSE f : f = E(f)
           step == [s \in S |-> HQ!Rise(s)]
<1>1. n \in Nat /\ n \in 1 .. n /\ h \in Seq(HeapEntry)
  BY DEF Numbered
<1>2. base \in S
  <2>1. base \in [heap : Seq(HeapEntry), i : Nat] /\ base.heap = h /\ base.i = n
    BY <1>1
  <2>2. Alike(h, h, top)
    BY DEF Alike
  <2> HIDE DEF base
  <2> QED
    BY <1>1, <2>1, <2>2 DEF RiseStates
<1>3. HQ!SiftUp(h, n) = a[n].heap
  BY DEF HQ!SiftUp
<1> HIDE DEF n, base
<1>4. step \in [S -> S]
  BY RiseTurns
<1>5. a = E(a)
  <2>1. \E g \in [0 .. n -> S] : Runs(g, n, base, step)
    <3>1. n \in Nat /\ base \in S /\ step \in [S -> S]
      BY <1>1, <1>2, <1>4
    <3> HIDE DEF S, step, E, a
    <3> QED
      BY <3>1, Iterated
  <2>2. PICK g \in [0 .. n -> S] : g[0] = base /\ \A k \in 1 .. n : g[k] = step[g[k - 1]]
    BY <2>1 DEF Runs
  <2>3. ASSUME NEW k \in 0 .. n PROVE g[k] = IF k = 0 THEN base ELSE HQ!Rise(g[k - 1])
    <3>1. CASE k = 0
      BY <2>2, <3>1
    <3>2. CASE k # 0
      <4>1. k \in 1 .. n /\ k - 1 \in 0 .. n
        BY <1>1, <3>2
      <4>2. g[k - 1] \in S
        BY <4>1
      <4> QED
        BY <2>2, <3>2, <4>1, <4>2
    <3> QED
      BY <3>1, <3>2
  <2>4. g = E(g)
    BY <2>3
  <2> HIDE DEF E
  <2> QED
    BY <2>4
<1>6. a[0] = base /\ \A k \in 1 .. n : a[k] = HQ!Rise(a[k - 1])
  <2> HIDE DEF a
  <2>1. \A k \in 0 .. n : a[k] = IF k = 0 THEN base ELSE HQ!Rise(a[k - 1])
    BY <1>5
  <2>2. 0 \in 0 .. n /\ \A k \in 1 .. n : k \in 0 .. n /\ k # 0
    BY <1>1
  <2> QED
    BY <2>1, <2>2
<1> HIDE DEF a, S, E, step
<1> DEFINE T == {k \in Nat : k <= n => a[k] \in S /\ (Heaped(a[k].heap) \/ a[k].i <= n - k)}
<1>7. 0 \in T
  <2>1. base.i = n
    BY DEF base
  <2> QED
    BY <1>1, <1>2, <1>6, <2>1
<1>8. ASSUME NEW k \in T PROVE k + 1 \in T
  <2>1. ASSUME k + 1 <= n
        PROVE  a[k + 1] \in S /\ (Heaped(a[k + 1].heap) \/ a[k + 1].i <= n - (k + 1))
    <3>1. k \in Nat /\ a[k] \in S /\ (Heaped(a[k].heap) \/ a[k].i <= n - k)
      BY <1>1, <2>1
    <3>2. a[k + 1] = HQ!Rise(a[k])
      <4>1. k + 1 \in 1 .. n /\ (k + 1) - 1 = k
        BY <1>1, <2>1
      <4> QED
        BY <1>6, <4>1
    <3>3. /\ a[k + 1] \in S
          /\ \/ a[k + 1] = a[k] /\ Heaped(a[k].heap)
             \/ a[k + 1].i < a[k].i /\ ~ Heaped(a[k].heap)
      BY <3>1, <3>2, RiseTurns DEF S
    <3>4. a[k].i \in Nat /\ a[k + 1].i \in Nat
      BY <3>1, <3>3 DEF S, RiseStates
    <3> HIDE DEF T
    <3>5. a[k + 1].i < a[k].i /\ a[k].i <= n - k => a[k + 1].i <= n - (k + 1)
      BY <1>1, <3>1, <3>4
    <3> QED
      BY <3>1, <3>3, <3>5
  <2> QED
    BY <2>1
<1>9. T = Nat
  <2>1. T \in SUBSET Nat
    OBVIOUS
  <2> HIDE DEF T
  <2> QED
    BY <1>7, <1>8, <2>1, NatInduct
<1>10. a[n] \in S /\ (Heaped(a[n].heap) \/ a[n].i <= n - n)
  <2>1. n \in T
    BY <1>1, <1>9
  <2> QED
    BY <1>1, <2>1
<1>11. Alike(a[n].heap, h, top) /\ a[n].i \in 1 .. n
  BY <1>10 DEF S, RiseStates, n
<1>12. Heaped(a[n].heap)
  BY <1>1, <1>10, <1>11
<1> QED
  BY <1>3, <1>11, <1>12 DEF n

\* A turn of siftdown leaves a heap, or an entry that is farther from the root.
LEMMA SinkTurns ==
  ASSUME NEW top \in 0 .. MAXSEQ, NEW h, NEW s \in SinkStates(h, top)
  PROVE  LET t == HQ!Sink(s, Len(h)) IN
         /\ t \in SinkStates(h, top)
         /\ \/ t = s /\ Heaped(s.heap)
            \/ t.i > s.i /\ ~ Heaped(s.heap)
<1> DEFINE g == s.heap
           i == s.i
           n == Len(h)
           c == HQ!Child(g, n, i)
           t == HQ!Sink(s, n)
<1>1. /\ Numbered(g, top) /\ Len(g) = n /\ Elems(g) = Elems(h)
      /\ i \in Nat \ {0} /\ Sinking(g, i) /\ n \in Nat
  BY DEF SinkStates, Alike, Numbered
<1>2. t = IF 2 * i <= n /\ HQ!RealCmp(g[i], g[c]) > 0
          THEN [heap |-> HQ!Swapped(g, i, c), i |-> c] ELSE s
  BY DEF HQ!Sink
<1>3. c = IF 2 * i + 1 <= n /\ HQ!RealCmp(g[2 * i + 1], g[2 * i]) < 0
          THEN 2 * i + 1 ELSE 2 * i
  BY DEF HQ!Child
<1> HIDE DEF g, i, c, t, n
<1>4. \A k \in 1 .. n : g[k] \in HeapEntry
  BY <1>1 DEF Numbered
\* The children of an entry.
<1>5. ASSUME NEW k \in 2 .. n, k \div 2 = i PROVE k = 2 * i \/ k = 2 * i + 1
  <2>1. 2 * i <= k /\ k <= 2 * i + 1
    BY <1>1, <1>5, HalfIs
  <2> QED
    BY <1>1, <2>1
<1>6. ASSUME 2 * i <= n
      PROVE  /\ c \in 2 .. n /\ c \div 2 = i /\ i \in 1 .. n /\ c > i
             /\ \A k \in 2 .. n : k \div 2 = i => AtMost(g[c], g[k])
  <2>1. (2 * i) \div 2 = i /\ (2 * i + 1) \div 2 = i /\ 2 * i \in 2 .. n /\ i \in 1 .. n
    BY <1>1, <1>6
  <2>2. CASE 2 * i + 1 <= n /\ HQ!RealCmp(g[2 * i + 1], g[2 * i]) < 0
    <3>1. c = 2 * i + 1 /\ 2 * i + 1 \in 2 .. n
      BY <1>1, <1>3, <2>2
    <3>2. 2 * i \in 1 .. n /\ 2 * i + 1 \in 1 .. n
      BY <1>1, <2>1, <3>1
    <3>3. Before(g[2 * i + 1], g[2 * i])
      BY <1>1, <2>2, <3>2, NumberedCmp
    <3>4. AtMost(g[2 * i + 1], g[2 * i]) /\ AtMost(g[2 * i + 1], g[2 * i + 1])
      BY <1>4, <3>2, <3>3, BeforeIsOrder DEF AtMost
    <3>5. c > i /\ c \in 2 .. n /\ c \div 2 = i
      BY <1>1, <2>1, <3>1
    <3> QED
      BY <1>5, <2>1, <3>1, <3>4, <3>5
  <2>3. CASE ~ (2 * i + 1 <= n /\ HQ!RealCmp(g[2 * i + 1], g[2 * i]) < 0)
    <3>1. c = 2 * i /\ c > i
      BY <1>1, <1>3, <2>3
    <3>2. AtMost(g[2 * i], g[2 * i])
      BY <1>1, <1>4, <2>1, BeforeIsOrder DEF AtMost
    <3>3. ASSUME 2 * i + 1 \in 2 .. n PROVE AtMost(g[2 * i], g[2 * i + 1])
      <4>1. 2 * i \in 1 .. n /\ 2 * i + 1 \in 1 .. n /\ 2 * i + 1 <= n
        BY <1>1, <2>1, <3>3
      <4>2. ~ Before(g[2 * i + 1], g[2 * i])
        BY <1>1, <2>3, <4>1, NumberedCmp
      <4> QED
        BY <4>2 DEF AtMost
    <3> QED
      BY <1>5, <2>1, <3>1, <3>2, <3>3
  <2> QED
    BY <2>2, <2>3
<1>7. CASE 2 * i <= n /\ HQ!RealCmp(g[i], g[c]) > 0
  <2>1. /\ c \in 2 .. n /\ c \in 1 .. n /\ c \div 2 = i /\ i \in 1 .. n /\ c > i
        /\ \A k \in 2 .. n : k \div 2 = i => AtMost(g[c], g[k])
    <3>1. c \in 2 .. n /\ c \div 2 = i /\ i \in 1 .. n /\ c > i
          /\ \A k \in 2 .. n : k \div 2 = i => AtMost(g[c], g[k])
      BY <1>6, <1>7
    <3>2. c \in 1 .. n
      BY <1>1, <3>1
    <3> QED
      BY <3>1, <3>2
  <2>2. Before(g[c], g[i])
    BY <1>1, <1>7, <2>1, NumberedCmp
  <2>3. Alike(HQ!Swapped(g, i, c), g, top)
    BY <1>1, <2>1, SwappedIs
  <2>4. Sinking(HQ!Swapped(g, i, c), c)
    BY <1>1, <2>1, <2>2, SwapSinks
  <2>5. t.heap = HQ!Swapped(g, i, c) /\ t.i = c /\ t = [heap |-> t.heap, i |-> t.i]
    BY <1>2, <1>7
  <2>6. Alike(t.heap, h, top) /\ t.heap \in Seq(HeapEntry) /\ Sinking(t.heap, t.i)
    BY <1>1, <2>3, <2>4, <2>5 DEF Alike, Numbered, n
  <2>7. t.i \in Nat \ {0} /\ t.i > i
    BY <1>1, <2>1, <2>5
  <2>8. t \in [heap : Seq(HeapEntry), i : Nat]
    BY <2>5, <2>6, <2>7
  <2>9. t \in SinkStates(h, top)
    BY <2>6, <2>7, <2>8 DEF SinkStates
  <2>10. ~ Heaped(g)
    <3>1. Heaped(g) => AtMost(g[i], g[c])
      BY <1>1, <2>1 DEF Heaped
    <3> QED
      BY <2>2, <3>1 DEF AtMost
  <2> QED
    BY <2>7, <2>9, <2>10 DEF g, i, t, n
<1>8. CASE ~ (2 * i <= n /\ HQ!RealCmp(g[i], g[c]) > 0)
  <2>1. t = s
    BY <1>2, <1>8
  <2>2. ASSUME NEW k \in 2 .. n PROVE AtMost(g[k \div 2], g[k])
    <3>1. CASE k \div 2 # i
      BY <1>1, <3>1 DEF Sinking
    <3>2. CASE k \div 2 = i
      <4>1. 2 * i <= n
        BY <1>1, <1>5, <3>2
      <4>2. /\ c \in 1 .. n /\ i \in 1 .. n /\ k \in 1 .. n /\ AtMost(g[c], g[k])
        <5>1. c \in 2 .. n /\ i \in 1 .. n /\ AtMost(g[c], g[k])
          BY <1>6, <3>2, <4>1
        <5> QED
          BY <1>1, <5>1
      <4>3. AtMost(g[i], g[c])
        <5>1. ~ Before(g[c], g[i])
          BY <1>1, <1>8, <4>1, <4>2, NumberedCmp
        <5> QED
          BY <5>1 DEF AtMost
      <4> QED
        BY <1>4, <3>2, <4>2, <4>3, BeforeIsOrder
    <3> QED
      BY <3>1, <3>2
  <2>3. Heaped(g)
    BY <1>1, <2>2 DEF Heaped
  <2> QED
    BY <2>1, <2>3 DEF g, t, n
<1> QED
  BY <1>7, <1>8

\* siftdown leaves the same entries as a heap.
LEMMA SiftsDown ==
  ASSUME NEW top \in 0 .. MAXSEQ, NEW h, Numbered(h, top), Sinking(h, 1)
  PROVE  Alike(HQ!SiftDown(h, Len(h)), h, top) /\ Heaped(HQ!SiftDown(h, Len(h)))
<1> DEFINE n == Len(h)
           S == SinkStates(h, top)
           base == [heap |-> h, i |-> 1]
           E(f) == [k \in 0 .. n |-> IF k = 0 THEN base ELSE HQ!Sink(f[k - 1], n)]
           a == CHOOSE f : f = E(f)
           step == [s \in S |-> HQ!Sink(s, n)]
<1>1. n \in Nat /\ h \in Seq(HeapEntry)
  BY DEF Numbered
<1>2. base \in S
  <2>1. base \in [heap : Seq(HeapEntry), i : Nat] /\ base.heap = h /\ base.i = 1
    BY <1>1
  <2>2. Alike(h, h, top)
    BY DEF Alike
  <2> HIDE DEF base
  <2> QED
    BY <1>1, <2>1, <2>2 DEF SinkStates
<1>3. HQ!SiftDown(h, n) = a[n].heap
  BY DEF HQ!SiftDown
<1> HIDE DEF n, base
<1>4. step \in [S -> S]
  BY SinkTurns DEF n
<1>5. a = E(a)
  <2>1. \E g \in [0 .. n -> S] : Runs(g, n, base, step)
    <3>1. n \in Nat /\ base \in S /\ step \in [S -> S]
      BY <1>1, <1>2, <1>4
    <3> HIDE DEF S, step, E, a
    <3> QED
      BY <3>1, Iterated
  <2>2. PICK g \in [0 .. n -> S] : g[0] = base /\ \A k \in 1 .. n : g[k] = step[g[k - 1]]
    BY <2>1 DEF Runs
  <2>3. ASSUME NEW k \in 0 .. n PROVE g[k] = IF k = 0 THEN base ELSE HQ!Sink(g[k - 1], n)
    <3>1. CASE k = 0
      BY <2>2, <3>1
    <3>2. CASE k # 0
      <4>1. k \in 1 .. n /\ k - 1 \in 0 .. n
        BY <1>1, <3>2
      <4>2. g[k - 1] \in S
        BY <4>1
      <4> QED
        BY <2>2, <3>2, <4>1, <4>2
    <3> QED
      BY <3>1, <3>2
  <2>4. g = E(g)
    BY <2>3
  <2> HIDE DEF E
  <2> QED
    BY <2>4
<1>6. a[0] = base /\ \A k \in 1 .. n : a[k] = HQ!Sink(a[k - 1], n)
  <2> HIDE DEF a
  <2>1. \A k \in 0 .. n : a[k] = IF k = 0 THEN base ELSE HQ!Sink(a[k - 1], n)
    BY <1>5
  <2>2. 0 \in 0 .. n /\ \A k \in 1 .. n : k \in 0 .. n /\ k # 0
    BY <1>1
  <2> QED
    BY <2>1, <2>2
<1> HIDE DEF a, S, E, step
<1> DEFINE T == {k \in Nat : k <= n => a[k] \in S /\ (Heaped(a[k].heap) \/ a[k].i >= k + 1)}
<1>7. 0 \in T
  <2>1. base.i = 1
    BY DEF base
  <2> QED
    BY <1>1, <1>2, <1>6, <2>1
<1>8. ASSUME NEW k \in T PROVE k + 1 \in T
  <2>1. ASSUME k + 1 <= n
        PROVE  a[k + 1] \in S /\ (Heaped(a[k + 1].heap) \/ a[k + 1].i >= (k + 1) + 1)
    <3>1. k \in Nat /\ a[k] \in S /\ (Heaped(a[k].heap) \/ a[k].i >= k + 1)
      BY <1>1, <2>1
    <3>2. a[k + 1] = HQ!Sink(a[k], n)
      <4>1. k + 1 \in 1 .. n /\ (k + 1) - 1 = k
        BY <1>1, <2>1
      <4> QED
        BY <1>6, <4>1
    <3>3. /\ a[k + 1] \in S
          /\ \/ a[k + 1] = a[k] /\ Heaped(a[k].heap)
             \/ a[k + 1].i > a[k].i /\ ~ Heaped(a[k].heap)
      BY <3>1, <3>2, SinkTurns DEF S, n
    <3>4. a[k].i \in Nat /\ a[k + 1].i \in Nat
      BY <3>1, <3>3 DEF S, SinkStates
    <3> HIDE DEF T
    <3>5. a[k + 1].i > a[k].i /\ a[k].i >= k + 1 => a[k + 1].i >= (k + 1) + 1
      BY <1>1, <3>1, <3>4
    <3> QED
      BY <3>1, <3>3, <3>5
  <2> QED
    BY <2>1
<1>9. T = Nat
  <2>1. T \in SUBSET Nat
    OBVIOUS
  <2> HIDE DEF T
  <2> QED
    BY <1>7, <1>8, <2>1, NatInduct
<1>10. a[n] \in S /\ (Heaped(a[n].heap) \/ a[n].i >= n + 1)
  <2>1. n \in T
    BY <1>1, <1>9
  <2> QED
    BY <1>1, <2>1
<1>11. Alike(a[n].heap, h, top) /\ Sinking(a[n].heap, a[n].i) /\ a[n].i \in Nat
  BY <1>10 DEF S, SinkStates
<1>12. Heaped(a[n].heap)
  <2>1. CASE a[n].i >= n + 1
    <3>1. Len(a[n].heap) = n
      BY <1>11 DEF Alike, n
    <3>2. \A k \in 2 .. n : k \div 2 # a[n].i
      <4>1. \A k \in 2 .. n : k \div 2 < k
        BY <1>1, HalfIs
      <4>2. \A k \in 2 .. n : k \div 2 \in Int
        BY <1>1, HalfIs
      <4> QED
        BY <1>1, <1>11, <2>1, <4>1, <4>2
    <3> QED
      BY <1>11, <3>1, <3>2 DEF Sinking, Heaped
  <2> QED
    BY <1>10, <2>1
<1> QED
  BY <1>3, <1>11, <1>12 DEF n

\* The entries of a heap in the order of realCmp.
InTurn(u) == \A i, j \in 1 .. Len(u) : i < j => Before(u[i], u[j])
Enumerates(u, h) ==
  u \in Seq(HeapEntry) /\ Len(u) = Len(h) /\ Elems(u) = Elems(h) /\ InTurn(u)

\* What enumerates a heap in order has its entries.
LEMMA EnumElems ==
  ASSUME NEW h, NEW u, Enumerates(u, h)
  PROVE  /\ u \in Seq(HeapEntry) /\ Len(u) \in Nat /\ Len(u) = Len(h)
         /\ \A i \in 1 .. Len(u) : u[i] \in HeapEntry
         /\ \A i, j \in 1 .. Len(u) : i < j => Before(u[i], u[j])
         /\ Elems(u) = Elems(h)
         /\ \A i \in 1 .. Len(u) : \E j \in 1 .. Len(h) : u[i] = h[j]
         /\ \A j \in 1 .. Len(h) : \E i \in 1 .. Len(u) : u[i] = h[j]
<1>1. u \in Seq(HeapEntry) /\ Len(u) = Len(h) /\ Elems(u) = Elems(h) /\ InTurn(u)
  BY DEF Enumerates
<1>2. Elems(h) = {u[i] : i \in 1 .. Len(u)}
  BY <1>1 DEF Elems
<1>3. Elems(h) = {h[i] : i \in 1 .. Len(h)}
  BY DEF Elems
<1>4. \A i \in 1 .. Len(u) : u[i] \in Elems(h)
  BY <1>2
<1>5. \A i \in 1 .. Len(h) : h[i] \in Elems(h)
  BY <1>3
<1>6. \A i \in 1 .. Len(u) : \E j \in 1 .. Len(h) : u[i] = h[j]
  BY <1>3, <1>4
<1>7. \A j \in 1 .. Len(h) : \E i \in 1 .. Len(u) : u[i] = h[j]
  BY <1>2, <1>5
<1>8. Len(u) \in Nat /\ \A i \in 1 .. Len(u) : u[i] \in HeapEntry
  BY <1>1
<1> QED
  BY <1>1, <1>2, <1>6, <1>7, <1>8 DEF InTurn

\* An entry belongs behind the first k.
Belongs(e, u, k) ==
  /\ \A i \in 1 .. k : Before(u[i], e)
  /\ \A i \in k + 1 .. Len(u) : Before(e, u[i])

\* A new entry has a place in the order of the others.
LEMMA PlaceInTurn ==
  ASSUME NEW u \in Seq(HeapEntry), InTurn(u), NEW e \in HeapEntry,
         \A i \in 1 .. Len(u) : u[i].sequenceNo # e.sequenceNo
  PROVE  \E k \in 0 .. Len(u) : Belongs(e, u, k)
<1> DEFINE n == Len(u)
           stops == {i \in 1 .. n : Before(e, u[i])}
<1>1. n \in Nat /\ \A i \in 1 .. n : u[i] \in HeapEntry
  OBVIOUS
<1>2. \A i \in 1 .. n : Before(u[i], e) \/ Before(e, u[i])
  BY <1>1, BeforeIsOrder
<1>3. CASE stops = {}
  <2>1. n \in 0 .. n /\ (\A i \in 1 .. n : Before(u[i], e)) /\ n + 1 .. n = {}
    BY <1>1, <1>2, <1>3
  <2> QED
    BY <2>1 DEF Belongs
<1>4. CASE stops # {}
  <2>1. stops \in SUBSET Nat
    BY <1>1
  <2>2. PICK m \in stops : \A j \in stops : m <= j
    <3> HIDE DEF stops
    <3> QED
      BY <1>4, <2>1, NatLeast
  <2>3. m \in 1 .. n /\ Before(e, u[m])
    OBVIOUS
  <2>4. \A i \in 1 .. n : i < m => Before(u[i], e)
    <3>1. \A i \in 1 .. n : i < m => i \notin stops
      <4> HIDE DEF stops
      <4>1. \A i \in 1 .. n : i < m => ~ (m <= i)
        BY <1>1, <2>3
      <4> QED
        BY <2>2, <4>1
    <3> QED
      BY <1>2, <3>1
  <2>5. \A i \in 1 .. n : i > m => Before(e, u[i])
    <3>1. \A i \in 1 .. n : i > m => Before(u[m], u[i])
      BY <1>1, <2>3 DEF InTurn
    <3> QED
      BY <1>1, <2>3, <3>1, BeforeIsOrder
  <2> HIDE DEF stops, n
  <2> DEFINE k == m - 1
  <2>6. k \in 0 .. n /\ \A i \in 1 .. k : i \in 1 .. n /\ i < m
    BY <1>1, <2>3
  <2>7. \A i \in k + 1 .. n : i \in 1 .. n /\ (i = m \/ i > m)
    BY <1>1, <2>3
  <2> HIDE DEF k
  <2>8. Belongs(e, u, k)
    BY <2>3, <2>4, <2>5, <2>6, <2>7 DEF Belongs, n
  <2> QED
    BY <2>6, <2>8 DEF n
<1> QED
  BY <1>3, <1>4

\* One entry more, where it belongs.
LEMMA WithInTurn ==
  ASSUME NEW u \in Seq(HeapEntry), InTurn(u), NEW e \in HeapEntry,
         NEW k \in 0 .. Len(u), Belongs(e, u, k)
  PROVE  /\ InTurn(With(u, k, e)) /\ With(u, k, e) \in Seq(HeapEntry)
         /\ Len(With(u, k, e)) = Len(u) + 1
         /\ Elems(With(u, k, e)) = Elems(u) \cup {e}
<1> DEFINE n == Len(u)
           t == With(u, k, e)
<1>1. n \in Nat /\ k \in 0 .. n /\ \A i \in 1 .. n : u[i] \in HeapEntry
  OBVIOUS
<1>2. Has(t, u, k, e, HeapEntry)
  BY WithElems
<1>3. /\ Len(t) = n + 1 /\ t[k + 1] = e /\ t \in Seq(HeapEntry)
      /\ \A i \in 1 .. k : t[i] = u[i]
      /\ \A i \in k + 1 .. n : t[i + 1] = u[i]
  BY <1>2 DEF Has
<1>4. /\ \A i \in 1 .. k : Before(u[i], e)
      /\ \A i \in k + 1 .. n : Before(e, u[i])
      /\ \A i, j \in 1 .. n : i < j => Before(u[i], u[j])
  BY DEF Belongs, InTurn
<1> HIDE DEF t, n
<1>5. ASSUME NEW i \in 1 .. n + 1
      PROVE  \/ i \in 1 .. k /\ i \in 1 .. n /\ t[i] = u[i]
             \/ i = k + 1 /\ t[i] = e
             \/ i - 1 \in k + 1 .. n /\ i - 1 \in 1 .. n /\ t[i] = u[i - 1]
  <2>1. CASE i <= k
    <3>1. i \in 1 .. k /\ i \in 1 .. n
      BY <1>1, <2>1
    <3> QED
      BY <1>3, <3>1
  <2>2. CASE i = k + 1
    BY <1>3, <2>2
  <2>3. CASE i > k + 1
    <3>1. i - 1 \in k + 1 .. n /\ i - 1 \in 1 .. n /\ (i - 1) + 1 = i
      BY <1>1, <2>3
    <3> QED
      BY <1>3, <3>1
  <2> QED
    BY <1>1, <2>1, <2>2, <2>3
<1>6. ASSUME NEW i \in 1 .. n + 1, NEW j \in 1 .. n + 1, i < j
      PROVE  Before(t[i], t[j])
  <2>1. CASE i \in 1 .. k /\ i \in 1 .. n /\ t[i] = u[i]
    <3>1. CASE j \in 1 .. k /\ j \in 1 .. n /\ t[j] = u[j]
      BY <1>4, <1>6, <2>1, <3>1
    <3>2. CASE j = k + 1 /\ t[j] = e
      BY <1>4, <2>1, <3>2
    <3>3. CASE j - 1 \in k + 1 .. n /\ j - 1 \in 1 .. n /\ t[j] = u[j - 1]
      <4>1. i < j - 1
        BY <1>1, <2>1, <3>3
      <4> QED
        BY <1>4, <2>1, <3>3, <4>1
    <3> QED
      BY <1>5, <3>1, <3>2, <3>3
  <2>2. CASE i = k + 1 /\ t[i] = e
    <3>1. j - 1 \in k + 1 .. n /\ t[j] = u[j - 1]
      <4>1. ~ (j \in 1 .. k) /\ j # k + 1
        BY <1>1, <1>6, <2>2
      <4> QED
        BY <1>5, <4>1
    <3> QED
      BY <1>4, <2>2, <3>1
  <2>3. CASE i - 1 \in k + 1 .. n /\ i - 1 \in 1 .. n /\ t[i] = u[i - 1]
    <3>1. j - 1 \in 1 .. n /\ t[j] = u[j - 1]
      <4>1. ~ (j \in 1 .. k) /\ j # k + 1
        BY <1>1, <1>6, <2>3
      <4> QED
        BY <1>5, <4>1
    <3>2. i - 1 < j - 1
      BY <1>6
    <3> QED
      BY <1>4, <2>3, <3>1, <3>2
  <2> QED
    BY <1>5, <2>1, <2>2, <2>3
<1>7. ASSUME NEW x \in {u[i] : i \in 1 .. n} \cup {e}
      PROVE  x \in {t[i] : i \in 1 .. n + 1}
  <2>1. CASE x = e
    <3>1. k + 1 \in 1 .. n + 1
      BY <1>1
    <3> QED
      BY <1>3, <2>1, <3>1
  <2>2. CASE x \in {u[i] : i \in 1 .. n}
    <3>1. PICK i \in 1 .. n : x = u[i]
      BY <2>2
    <3>2. i \in 1 .. n + 1 /\ i + 1 \in 1 .. n + 1 /\ (i \in 1 .. k \/ i \in k + 1 .. n)
      BY <1>1
    <3> QED
      BY <1>3, <3>1, <3>2
  <2> QED
    BY <2>1, <2>2
<1>8. ASSUME NEW i \in 1 .. n + 1 PROVE t[i] \in {u[j] : j \in 1 .. n} \cup {e}
  BY <1>5
<1> QED
  BY <1>3, <1>6, <1>7, <1>8 DEF InTurn, Elems, n, t

\* Every heap has its entries in an order.
LEMMA Enumerated ==
  ASSUME NEW top, NEW h, Numbered(h, top)
  PROVE  \E u : Enumerates(u, h)
<1> DEFINE T == {n \in Nat : \A g \in Seq(HeapEntry) :
                   Numbered(g, top) /\ Len(g) = n => \E u : Enumerates(u, g)}
<1>1. 0 \in T
  <2>1. ASSUME NEW g \in Seq(HeapEntry), Len(g) = 0 PROVE Enumerates(g, g)
    BY <2>1 DEF Enumerates, InTurn
  <2> QED
    BY <2>1
<1>2. ASSUME NEW n \in T PROVE n + 1 \in T
  <2>1. ASSUME NEW g \in Seq(HeapEntry), Numbered(g, top), Len(g) = n + 1
        PROVE  \E u : Enumerates(u, g)
    <3> DEFINE f == [i \in 1 .. n |-> g[i]]
               e == g[n + 1]
    <3>1. n \in Nat /\ e \in HeapEntry /\ \A i \in 1 .. n : g[i] \in HeapEntry
      BY <2>1
    <3>2. f \in Seq(HeapEntry) /\ Len(f) = n /\ \A i \in 1 .. n : f[i] = g[i]
      BY <3>1
    <3>3. \A i \in 1 .. n + 1 : i \in 1 .. n \/ i = n + 1
      BY <3>1
    <3>4. \A i \in 1 .. n : i \in 1 .. n + 1 /\ i # n + 1
      BY <3>1
    <3>a. n + 1 \in 1 .. n + 1
      BY <3>1
    <3> HIDE DEF f
    <3>5. Numbered(f, top)
      BY <2>1, <3>2, <3>4 DEF Numbered
    <3>6. Elems(g) = Elems(f) \cup {e}
      <4>1. Elems(g) = {g[i] : i \in 1 .. n + 1} /\ Elems(f) = {g[i] : i \in 1 .. n}
        BY <2>1, <3>2 DEF Elems
      <4> QED
        BY <3>3, <3>4, <3>a, <4>1
    <3>7. PICK u : Enumerates(u, f)
      BY <3>2, <3>5
    <3>8. u \in Seq(HeapEntry) /\ Len(u) = n /\ Elems(u) = Elems(f) /\ InTurn(u)
      BY <3>2, <3>7 DEF Enumerates
    <3>9. \A i \in 1 .. Len(u) : u[i].sequenceNo # e.sequenceNo
      <4>1. \A i \in 1 .. n : \E j \in 1 .. n : u[i] = g[j]
        <5> HIDE DEF T, e
        <5>1. \A i \in 1 .. Len(u) : \E j \in 1 .. Len(f) : u[i] = f[j]
          BY <3>7, EnumElems
        <5> QED
          BY <3>2, <3>8, <5>1
      <4>2. \A j \in 1 .. n : g[j].sequenceNo # g[n + 1].sequenceNo
        BY <2>1, <3>4, <3>a DEF Numbered
      <4> QED
        BY <3>8, <4>1, <4>2
    <3> HIDE DEF e, T
    <3>10. PICK k \in 0 .. Len(u) : Belongs(e, u, k)
      BY <3>1, <3>8, <3>9, PlaceInTurn
    <3>11. Enumerates(With(u, k, e), g)
      BY <2>1, <3>1, <3>6, <3>8, <3>10, WithInTurn DEF Enumerates
    <3> QED
      BY <3>11
  <2> QED
    BY <2>1
<1>3. T = Nat
  <2>1. T \in SUBSET Nat
    OBVIOUS
  <2> HIDE DEF T
  <2> QED
    BY <1>1, <1>2, <2>1, NatInduct
<1>4. Len(h) \in T /\ h \in Seq(HeapEntry)
  BY <1>3 DEF Numbered
<1> QED
  BY <1>4

\* The m-th of them has m - 1 lesser ones, and no other has.
LEMMA LesserCount ==
  ASSUME NEW top \in 0 .. MAXSEQ, NEW h, Numbered(h, top), NEW u, Enumerates(u, h),
         NEW m \in 1 .. Len(u)
  PROVE  Cardinality({d \in Elems(h) : HQ!RealCmp(d, u[m]) < 0}) = m - 1
<1>1. /\ u \in Seq(HeapEntry) /\ Len(u) \in Nat /\ Elems(u) = Elems(h)
      /\ \A i \in 1 .. Len(u) : u[i] \in HeapEntry
      /\ \A i, j \in 1 .. Len(u) : i < j => Before(u[i], u[j])
  BY EnumElems
<1>a. Elems(h) = {u[i] : i \in 1 .. Len(u)}
  BY <1>1 DEF Elems
<1> DEFINE n == Len(u)
           L == {d \in Elems(h) : HQ!RealCmp(d, u[m]) < 0}
           f == [k \in 1 .. m - 1 |-> u[k]]
<1>b. /\ u \in Seq(HeapEntry) /\ n \in Nat /\ Elems(h) = {u[i] : i \in 1 .. n}
      /\ \A i \in 1 .. n : u[i] \in HeapEntry
      /\ \A i, j \in 1 .. n : i < j => Before(u[i], u[j])
  BY <1>1, <1>a
<1>2. \A i \in 1 .. n : HQ!RealCmp(u[i], u[m]) < 0 <=> Before(u[i], u[m])
  <2>1. ASSUME NEW i \in 1 .. n PROVE \E j \in 1 .. Len(h) : u[i] = h[j]
    BY EnumElems
  <2>2. m \in 1 .. n
    OBVIOUS
  <2>3. ASSUME NEW i \in 1 .. n
        PROVE  HQ!RealCmp(u[i], u[m]) < 0 <=> Before(u[i], u[m])
    <3>1. PICK j \in 1 .. Len(h) : u[i] = h[j]
      BY <2>1
    <3>2. PICK k \in 1 .. Len(h) : u[m] = h[k]
      BY <2>1, <2>2
    <3> QED
      BY <3>1, <3>2, NumberedCmp
  <2> QED
    BY <2>3
<1> HIDE DEF n
<1>3. \A i \in 1 .. n : Before(u[i], u[m]) <=> i < m
  <2>1. m \in 1 .. n
    BY DEF n
  <2>2. ASSUME NEW i \in 1 .. n PROVE Before(u[i], u[m]) <=> i < m
    <3>1. CASE i < m
      BY <1>b, <2>1, <3>1
    <3>2. CASE i = m
      BY <1>b, <2>1, <3>2, BeforeIsOrder
    <3>3. CASE i > m
      <4>1. Before(u[m], u[i])
        BY <1>b, <2>1, <3>3
      <4>2. ~ Before(u[i], u[m])
        BY <1>b, <2>1, <4>1, BeforeIsOrder DEF AtMost
      <4> QED
        BY <1>b, <2>1, <3>3, <4>2
    <3> QED
      BY <1>b, <2>1, <3>1, <3>2, <3>3
  <2> QED
    BY <2>2
<1>4. m \in 1 .. n /\ \A i \in 1 .. m - 1 : i \in 1 .. n /\ i < m
  BY <1>b DEF n
<1>5. \A i \in 1 .. n : i < m => i \in 1 .. m - 1
  BY <1>b, <1>4
<1>6. f \in [1 .. m - 1 -> L] /\ \A i \in 1 .. m - 1 : f[i] = u[i]
  BY <1>b, <1>2, <1>3, <1>4
<1>7. ASSUME NEW d \in L PROVE \E i \in 1 .. m - 1 : f[i] = d
  <2>1. PICK i \in 1 .. n : d = u[i]
    BY <1>b
  <2>2. i \in 1 .. m - 1
    BY <1>2, <1>3, <1>5, <2>1
  <2> QED
    BY <2>1, <2>2
<1>8. ASSUME NEW i \in 1 .. m - 1, NEW j \in 1 .. m - 1, f[i] = f[j] PROVE i = j
  <2>1. u[i] = u[j] /\ i \in 1 .. n /\ j \in 1 .. n
    BY <1>4, <1>6, <1>8
  <2>2. ~ Before(u[i], u[j]) /\ ~ Before(u[j], u[i])
    BY <1>b, <2>1, BeforeIsOrder
  <2>3. ~ (i < j) /\ ~ (j < i)
    BY <1>b, <2>1, <2>2
  <2> QED
    BY <1>b, <2>1, <2>3
<1> HIDE DEF f, L
<1>9. f \in Bijection(1 .. m - 1, L)
  BY <1>6, <1>7, <1>8 DEF Bijection, Injection, Surjection, IsInjective
<1>10. m - 1 \in Nat
  BY <1>b, <1>4
<1>11. Cardinality(L) = m - 1
  BY <1>9, <1>10, FS_CountingElements DEF ExistsBijection
<1> QED
  BY <1>11 DEF L

\* What Ordered gives.
Pairs(u) == [n \in 1 .. Len(u) |-> HQ!Pair(u[n])]

\* The abstract queue of a heap is its enumeration in order.
LEMMA OrderedIs ==
  ASSUME NEW top \in 0 .. MAXSEQ, NEW d, Numbered(d.heap, top), d.last = Len(d.heap),
         NEW u, Enumerates(u, d.heap)
  PROVE  HQ!Ordered(d) = Pairs(u)
<1> DEFINE h == d.heap
           n == Len(u)
           C(e) == HQ!Cardinality({x \in Elems(h) : HQ!RealCmp(x, e) < 0})
<1>1. n = Len(h) /\ n \in Nat /\ Elems(h) = {u[i] : i \in 1 .. n}
  <2>1. Len(u) = Len(h) /\ Len(u) \in Nat /\ Elems(u) = Elems(h)
    BY EnumElems
  <2> QED
    BY <2>1 DEF Elems
<1>2. \A m \in 1 .. n : C(u[m]) = m - 1
  <2>1. ASSUME NEW X PROVE HQ!Cardinality(X) = Cardinality(X)
    BY DEF HQ!Cardinality, Cardinality
  <2>2. ASSUME NEW m \in 1 .. n PROVE C(u[m]) = m - 1
    <3> DEFINE L == {x \in Elems(h) : HQ!RealCmp(x, u[m]) < 0}
    <3>1. Cardinality(L) = m - 1
      BY LesserCount
    <3>2. HQ!Cardinality(L) = Cardinality(L)
      BY <2>1
    <3> QED
      BY <3>1, <3>2
  <2> QED
    BY <2>2
<1>3. Elems(h) = {d.heap[i] : i \in 1 .. d.last} /\ d.last = n
  BY <1>1 DEF Elems
<1>4. HQ!Ordered(d) =
        [m \in 1 .. n |-> HQ!Pair(CHOOSE e \in Elems(h) : C(e) = m - 1)]
  <2> DEFINE G == {d.heap[i] : i \in 1 .. d.last}
  <2>1. HQ!Ordered(d) =
          [m \in 1 .. d.last |->
             HQ!Pair(CHOOSE e \in G : HQ!Cardinality({x \in G : HQ!RealCmp(x, e) < 0}) = m - 1)]
    BY DEF HQ!Ordered
  <2>2. G = Elems(h)
    BY <1>3
  <2> HIDE DEF G
  <2> QED
    BY <1>3, <2>1, <2>2
<1> HIDE DEF C, n, h
<1>5. ASSUME NEW m \in 1 .. n PROVE (CHOOSE e \in Elems(h) : C(e) = m - 1) = u[m]
  <2>1. u[m] \in Elems(h) /\ C(u[m]) = m - 1
    BY <1>1, <1>2
  <2>2. ASSUME NEW e \in Elems(h), C(e) = m - 1 PROVE e = u[m]
    <3>1. PICK i \in 1 .. n : e = u[i]
      BY <1>1
    <3>2. i - 1 = m - 1
      BY <1>2, <2>2, <3>1
    <3>3. i = m
      BY <1>1, <3>2
    <3> QED
      BY <3>1, <3>3
  <2> QED
    BY <2>1, <2>2
<1> QED
  BY <1>4, <1>5 DEF Pairs, n

\* A sound priority queue in a heap.
HeapQueue(d) ==
  /\ d \in [sequenceNo : 0 .. MAXSEQ, last : Nat, size : Nat, heap : Seq(HeapEntry)]
  /\ d.last < d.size
  /\ Len(d.heap) = d.last
  /\ Numbered(d.heap, d.sequenceNo)
  /\ Heaped(d.heap)

\* A sound heap, as the model and as the lemmas say it.
LEMMA HeapIs ==
  ASSUME NEW d
  PROVE  HQ!Holds(d) <=> HeapQueue(d)
<1> DEFINE n == d.last
           Formed == /\ d \in [sequenceNo : 0 .. MAXSEQ, last : Nat, size : Nat,
                              heap : Seq(HeapEntry)]
                    /\ n < d.size
                    /\ Len(d.heap) = n
           Numbers == /\ \A i \in 1 .. n : d.heap[i].sequenceNo < d.sequenceNo
                      /\ \A i, j \in 1 .. n :
                           d.heap[i].sequenceNo = d.heap[j].sequenceNo => i = j
           Order == \A i \in 2 .. n : HQ!RealCmp(d.heap[i \div 2], d.heap[i]) <= 0
<1>1. HQ!Holds(d) <=> Formed /\ Numbers /\ Order
  BY DEF HQ!Holds, HeapEntry
<1>2. HeapQueue(d) <=> Formed /\ Numbers /\ Heaped(d.heap)
  BY DEF HeapQueue, Numbered
<1>3. ASSUME Formed, Numbers PROVE Order <=> Heaped(d.heap)
  <2>1. Numbered(d.heap, d.sequenceNo) /\ d.sequenceNo \in 0 .. MAXSEQ /\ n \in Nat
        /\ Len(d.heap) = n
    BY <1>3 DEF Numbered
  <2>2. ASSUME NEW i \in 2 .. n
        PROVE  HQ!RealCmp(d.heap[i \div 2], d.heap[i]) <= 0
                 <=> AtMost(d.heap[i \div 2], d.heap[i])
    <3> DEFINE q == i \div 2
    <3>1. i \in 1 .. Len(d.heap) /\ q \in 1 .. Len(d.heap)
      BY <2>1, HalfIs
    <3> HIDE DEF q, Formed, Numbers, n
    <3>2. HQ!RealCmp(d.heap[q], d.heap[i]) <= 0 <=> AtMost(d.heap[q], d.heap[i])
      BY <2>1, <3>1, NumberedCmp
    <3> QED
      BY <3>2 DEF q
  <2> QED
    BY <2>1, <2>2 DEF Heaped
<1> QED
  BY <1>1, <1>2, <1>3

\* A new queue is sound, and so is an emptied one; both are empty.
LEMMA HeapNone ==
  ASSUME NEW d, d \in [sequenceNo : 0 .. MAXSEQ, last : Nat, size : Nat, heap : Seq(HeapEntry)],
         d.last = 0, d.heap = <<>>, d.size > 0
  PROVE  HeapQueue(d) /\ HQ!Ordered(d) = <<>>
<1>1. Len(d.heap) = 0 /\ d.sequenceNo \in 0 .. MAXSEQ
  OBVIOUS
<1>2. Numbered(d.heap, d.sequenceNo) /\ Heaped(d.heap)
  BY <1>1 DEF Numbered, Heaped
<1>3. HeapQueue(d)
  BY <1>1, <1>2 DEF HeapQueue
<1>4. Enumerates(<<>>, d.heap)
  BY DEF Enumerates, InTurn, Elems
<1>5. HQ!Ordered(d) = Pairs(<<>>)
  <2> DEFINE top == d.sequenceNo
             h == d.heap
             none == <<>>
  <2>1. top \in 0 .. MAXSEQ /\ Numbered(d.heap, top) /\ d.last = Len(d.heap)
        /\ Enumerates(none, d.heap)
    BY <1>1, <1>2, <1>4
  <2> HIDE DEF top, none
  <2>2. HQ!Ordered(d) = Pairs(none)
    BY <2>1, OrderedIs
  <2> QED
    BY <2>2 DEF none
<1>6. Pairs(<<>>) = <<>>
  BY DEF Pairs
<1> QED
  BY <1>3, <1>5, <1>6

\* A new heap is sound and empty.
LEMMA HeapNew == HQ!Holds(HQ!NewPrioQueue) /\ HQ!Ordered(HQ!NewPrioQueue) = <<>>
<1> DEFINE d == HQ!NewPrioQueue
<1>1. 0 \in 0 .. MAXSEQ /\ DEFAULT_CAPACITY \in Nat \ {0}
  BY KeyedAssumption DEF HQ!HeapAssumption
<1>2. /\ d \in [sequenceNo : 0 .. MAXSEQ, last : Nat, size : Nat, heap : Seq(HeapEntry)]
      /\ d.last = 0 /\ d.heap = <<>> /\ d.size > 0
  BY <1>1 DEF HQ!NewPrioQueue
<1> HIDE DEF d
<1>3. HeapQueue(d) /\ HQ!Ordered(d) = <<>>
  BY <1>2, HeapNone
<1> QED
  BY <1>3, HeapIs DEF d

\* What the caller sees of the entries, when one is put among them.
LEMMA PairsWith ==
  ASSUME NEW u \in Seq(HeapEntry), NEW e \in HeapEntry, NEW k \in 0 .. Len(u)
  PROVE  /\ Pairs(With(u, k, e)) =
              SubSeq(Pairs(u), 1, k) \o <<HQ!Pair(e)>> \o SubSeq(Pairs(u), k + 1, Len(u))
         /\ Len(Pairs(u)) = Len(u)
         /\ \A i \in 1 .. Len(u) : Pairs(u)[i].priority = u[i].priority
<1> DEFINE n == Len(u)
           V == [priority : Priorities, value : Values]
           q == Pairs(u)
           p == HQ!Pair(e)
           t == With(u, k, e)
<1>1. n \in Nat /\ k \in 0 .. n /\ \A i \in 1 .. n : u[i] \in HeapEntry
  OBVIOUS
<1>2. ASSUME NEW x \in HeapEntry PROVE HQ!Pair(x) \in V /\ HQ!Pair(x).priority = x.priority
  BY DEF HeapEntry, HQ!Pair
<1>3. q = [i \in 1 .. n |-> HQ!Pair(u[i])]
  BY DEF Pairs
<1>4. p \in V
  BY <1>2
<1>5. Has(t, u, k, e, HeapEntry)
  BY WithElems
<1> HIDE DEF n, q, V
<1>6. q \in [1 .. n -> V] /\ \A i \in 1 .. n : q[i] = HQ!Pair(u[i])
  BY <1>1, <1>2, <1>3
<1>7. q \in Seq(V) /\ Len(q) = n
  BY <1>1, <1>6
<1>8. t = [i \in 1 .. n + 1 |-> IF i <= k THEN u[i] ELSE IF i = k + 1 THEN e ELSE u[i - 1]]
  BY DEF With, n
<1>9. Len(t) = n + 1 /\ \A i \in 1 .. n + 1 :
        t[i] = IF i <= k THEN u[i] ELSE IF i = k + 1 THEN e ELSE u[i - 1]
  BY <1>5, <1>8 DEF Has, n
<1>10. With(q, k, p) = [i \in 1 .. n + 1 |->
                          IF i <= k THEN q[i] ELSE IF i = k + 1 THEN p ELSE q[i - 1]]
  BY <1>7 DEF With
<1> HIDE DEF p, t
<1>11. ASSUME NEW i \in 1 .. n + 1
       PROVE  HQ!Pair(t[i]) = IF i <= k THEN q[i] ELSE IF i = k + 1 THEN p ELSE q[i - 1]
  <2>1. CASE i <= k
    <3>1. i \in 1 .. n
      BY <1>1, <2>1
    <3> QED
      BY <1>6, <1>9, <2>1, <3>1
  <2>2. CASE ~ (i <= k) /\ i = k + 1
    BY <1>9, <2>2 DEF p
  <2>3. CASE ~ (i <= k) /\ i # k + 1
    <3>1. i - 1 \in 1 .. n
      BY <1>1, <2>3
    <3> QED
      BY <1>6, <1>9, <2>3, <3>1
  <2> QED
    BY <2>1, <2>2, <2>3
<1>12. Pairs(t) = With(q, k, p)
  <2>1. Pairs(t) = [i \in 1 .. n + 1 |-> HQ!Pair(t[i])]
    BY <1>9 DEF Pairs
  <2> QED
    BY <1>10, <1>11, <2>1
<1>13. With(q, k, p) = SubSeq(q, 1, k) \o <<p>> \o SubSeq(q, k + 1, Len(q))
  BY <1>1, <1>4, <1>7, WithIs
<1>14. \A i \in 1 .. n : q[i].priority = u[i].priority
  BY <1>1, <1>2, <1>6
<1> QED
  BY <1>7, <1>12, <1>13, <1>14 DEF n, p, q, t

\* An entry that is appended to a heap is the only one that may have to rise.
LEMMA AppendedRises ==
  ASSUME NEW top \in Nat, NEW h, Numbered(h, top), Heaped(h),
         NEW e \in HeapEntry, e.sequenceNo = top
  PROVE  /\ Numbered(Append(h, e), top + 1) /\ Rising(Append(h, e), Len(h) + 1)
         /\ Len(Append(h, e)) = Len(h) + 1 /\ Append(h, e) # <<>>
         /\ Elems(Append(h, e)) = Elems(h) \cup {e}
<1> DEFINE n == Len(h)
           g == Append(h, e)
<1>1. n \in Nat /\ h \in Seq(HeapEntry) /\ \A i \in 1 .. n : h[i] \in HeapEntry
  BY DEF Numbered
<1>2. /\ g \in Seq(HeapEntry) /\ Len(g) = n + 1 /\ g[n + 1] = e
      /\ \A i \in 1 .. n : g[i] = h[i]
  BY <1>1
<1>3. /\ \A i \in 1 .. n : h[i].sequenceNo < top
      /\ \A i, j \in 1 .. n : h[i].sequenceNo = h[j].sequenceNo => i = j
  BY DEF Numbered
<1>4. \A i \in 1 .. n : h[i].sequenceNo \in Nat
  BY <1>1, EntryInts
<1>5. \A i \in 1 .. n + 1 : i \in 1 .. n \/ i = n + 1
  BY <1>1
<1>6. \A i \in 2 .. n : AtMost(h[i \div 2], h[i])
  BY DEF Heaped
<1> HIDE DEF n, g
<1>7. \A i \in 1 .. n + 1 : g[i].sequenceNo < top + 1
  BY <1>2, <1>3, <1>4, <1>5
<1>8. ASSUME NEW i \in 1 .. n + 1, NEW j \in 1 .. n + 1, g[i].sequenceNo = g[j].sequenceNo
      PROVE  i = j
  <2>1. \A k \in 1 .. n : g[k].sequenceNo # top
    BY <1>2, <1>3, <1>4
  <2>2. g[n + 1].sequenceNo = top
    BY <1>2
  <2>3. CASE i = n + 1 \/ j = n + 1
    BY <1>5, <1>8, <2>1, <2>2, <2>3
  <2>4. CASE i # n + 1 /\ j # n + 1
    BY <1>2, <1>3, <1>5, <1>8, <2>4
  <2> QED
    BY <2>3, <2>4
<1>9. Numbered(g, top + 1)
  BY <1>2, <1>7, <1>8 DEF Numbered
<1>10. ASSUME NEW k \in 2 .. n + 1, k # n + 1 PROVE AtMost(g[k \div 2], g[k])
  <2> DEFINE q == k \div 2
  <2>1. k \in 2 .. n /\ k \in 1 .. n /\ q \in 1 .. n
    BY <1>1, <1>10, HalfIs
  <2>2. AtMost(h[q], h[k])
    BY <1>6, <2>1
  <2> HIDE DEF q
  <2>3. AtMost(g[q], g[k])
    BY <1>2, <2>1, <2>2
  <2> QED
    BY <2>3 DEF q
<1>11. ASSUME NEW k \in 2 .. n + 1 PROVE k \div 2 # n + 1
  <2>1. k \in Nat /\ k >= 1
    OBVIOUS
  <2>2. k \div 2 < k /\ k \div 2 \in Nat
    BY <2>1, HalfIs
  <2> QED
    BY <1>1, <2>2
<1>12. Rising(g, n + 1)
  BY <1>2, <1>10, <1>11 DEF Rising, Bridged
<1>13. Elems(g) = Elems(h) \cup {e}
  <2>1. Elems(g) = {g[i] : i \in 1 .. n + 1} /\ Elems(h) = {h[i] : i \in 1 .. n}
    BY <1>2 DEF Elems, n
  <2>2. \A i \in 1 .. n : i \in 1 .. n + 1
    BY <1>1
  <2>3. n + 1 \in 1 .. n + 1
    BY <1>1
  <2>4. ASSUME NEW x \in {g[i] : i \in 1 .. n + 1} PROVE x \in {h[i] : i \in 1 .. n} \cup {e}
    BY <1>2, <1>5
  <2>5. ASSUME NEW x \in {h[i] : i \in 1 .. n} \cup {e} PROVE x \in {g[i] : i \in 1 .. n + 1}
    BY <1>2, <2>2, <2>3
  <2> QED
    BY <2>1, <2>4, <2>5
<1>14. g # <<>>
  BY <1>1, <1>2
<1> QED
  BY <1>2, <1>9, <1>12, <1>13, <1>14 DEF g, n

\* The heap with a new entry, which is behind those of its priority.
LEMMA HeapInserted ==
  ASSUME NEW d, HeapQueue(d), d.sequenceNo < MAXSEQ,
         NEW priority \in Priorities, NEW value \in Values,
         NEW u, Enumerates(u, d.heap),
         NEW e, e = [priority |-> priority, value |-> value, sequenceNo |-> d.sequenceNo]
  PROVE  LET r == HQ!Inserted(d, priority, value) IN
         /\ r = [d EXCEPT !.heap = r.heap, !.sequenceNo = d.sequenceNo + 1,
                          !.last = d.last + 1]
         /\ r.heap \in Seq(HeapEntry) /\ Len(r.heap) = d.last + 1
         /\ Numbered(r.heap, d.sequenceNo + 1) /\ Heaped(r.heap)
         /\ \E k \in 0 .. Len(u) :
              Belongs(e, u, k) /\ Enumerates(With(u, k, e), r.heap)
<1> DEFINE r == HQ!Inserted(d, priority, value)
           h == d.heap
           top == d.sequenceNo
           g == Append(h, e)
           s == HQ!SiftUp(g, d.last + 1)
<1>1. /\ d \in [sequenceNo : 0 .. MAXSEQ, last : Nat, size : Nat, heap : Seq(HeapEntry)]
      /\ Len(h) = d.last /\ Numbered(h, top) /\ Heaped(h) /\ top \in 0 .. MAXSEQ
      /\ d.last \in Nat /\ h \in Seq(HeapEntry)
  BY DEF HeapQueue
<1>2. MAXSEQ \in Nat
  BY KeyedAssumption DEF HQ!HeapAssumption
<1>3. top \in Nat /\ top + 1 \in 0 .. MAXSEQ
  BY <1>1, <1>2
<1>4. e \in HeapEntry /\ e.sequenceNo = top
  BY <1>3 DEF HeapEntry
<1>5. r = [d EXCEPT !.heap = s, !.sequenceNo = d.sequenceNo + 1, !.last = d.last + 1]
  BY DEF HQ!Inserted
<1> HIDE DEF r, s
<1>6. r.heap = s
  BY <1>1, <1>5
<1> HIDE DEF h, top
<1>7. /\ Numbered(g, top + 1) /\ Rising(g, Len(h) + 1)
      /\ Len(g) = Len(h) + 1 /\ g # <<>>
      /\ Elems(g) = Elems(h) \cup {e}
  <2> HIDE DEF g
  <2>1. /\ Numbered(Append(h, e), top + 1) /\ Rising(Append(h, e), Len(h) + 1)
        /\ Len(Append(h, e)) = Len(h) + 1 /\ Append(h, e) # <<>>
        /\ Elems(Append(h, e)) = Elems(h) \cup {e}
    <3>1. top \in Nat /\ Numbered(h, top) /\ Heaped(h)
          /\ e \in HeapEntry /\ e.sequenceNo = top
      BY <1>1, <1>3, <1>4
    <3> QED
      BY ONLY <3>1, AppendedRises
  <2> QED
    BY <2>1 DEF g
<1> HIDE DEF g
<1>8. Alike(s, g, top + 1) /\ Heaped(s)
  <2> DEFINE t == top + 1
  <2>1. t \in 0 .. MAXSEQ /\ Numbered(g, t) /\ g # <<>> /\ Rising(g, Len(g))
    BY <1>3, <1>7
  <2> HIDE DEF t
  <2>2. Alike(HQ!SiftUp(g, Len(g)), g, t) /\ Heaped(HQ!SiftUp(g, Len(g)))
    BY <2>1, SiftsUp
  <2>3. s = HQ!SiftUp(g, Len(g))
    BY <1>1, <1>7 DEF s
  <2> QED
    BY <2>2, <2>3 DEF t
<1>9. /\ Numbered(s, top + 1) /\ Len(s) = Len(h) + 1 /\ Elems(s) = Elems(h) \cup {e}
      /\ s \in Seq(HeapEntry)
  BY <1>7, <1>8 DEF Alike, Numbered
<1>10. u \in Seq(HeapEntry) /\ Len(u) = Len(h) /\ Elems(u) = Elems(h) /\ InTurn(u)
  BY DEF Enumerates, h
<1>11. \A i \in 1 .. Len(u) : u[i].sequenceNo # e.sequenceNo
  <2>1. \A i \in 1 .. Len(u) : \E j \in 1 .. Len(h) : u[i] = h[j]
    <3>1. Enumerates(u, h)
      BY DEF h
    <3> QED
      BY ONLY <3>1, EnumElems
  <2>2. \A j \in 1 .. Len(h) : h[j].sequenceNo < top /\ h[j] \in HeapEntry
    BY <1>1 DEF Numbered
  <2>3. \A j \in 1 .. Len(h) : h[j].sequenceNo # top
    BY <1>3, <2>2, EntryInts
  <2> QED
    BY <1>4, <2>1, <2>3
<1>12. PICK k \in 0 .. Len(u) : Belongs(e, u, k)
  BY <1>4, <1>10, <1>11, PlaceInTurn
<1>13. Enumerates(With(u, k, e), s)
  BY <1>4, <1>9, <1>10, <1>12, WithInTurn DEF Enumerates
<1> QED
  BY <1>1, <1>5, <1>6, <1>8, <1>9, <1>12, <1>13 DEF r, h, top

\* insert is one of the queue that prioqueue.h promises.
LEMMA HeapInsertIsInsert ==
  ASSUME HQ!HeapOK, NEW priority \in Priorities, NEW value \in Values,
         HQ!Insert(priority, value)
  PROVE  HQ!HeapOK' /\ HQ!Q!Insert
<1>1. HeapQueue(self)
  BY HeapIs DEF HQ!HeapOK
<1>2. CASE UNCHANGED self /\ ret' = <<"insert", FALSE>>
  <2>1. HQ!Ordered(self)' = HQ!Ordered(self)
    BY <1>2
  <2> QED
    BY <1>2, <2>1 DEF HQ!HeapOK, HQ!Q!Insert, HQ!Items
<1>3. ASSUME NEW size \in Nat, self.last + 1 < size, self.sequenceNo < MAXSEQ,
             self' = [HQ!Inserted(self, priority, value) EXCEPT !.size = size],
             ret' = <<"insert", TRUE>>
      PROVE  HQ!HeapOK' /\ HQ!Q!Insert
  <2> DEFINE r == HQ!Inserted(self, priority, value)
             e == [priority |-> priority, value |-> value, sequenceNo |-> self.sequenceNo]
             p == [priority |-> priority, value |-> value]
             top == self.sequenceNo
  <2>1. /\ self \in [sequenceNo : 0 .. MAXSEQ, last : Nat, size : Nat, heap : Seq(HeapEntry)]
        /\ self.last = Len(self.heap) /\ Numbered(self.heap, top) /\ top \in 0 .. MAXSEQ
        /\ self.last \in Nat /\ MAXSEQ \in Nat
    BY <1>1, KeyedAssumption DEF HeapQueue, HQ!HeapAssumption
  <2>2. PICK u : Enumerates(u, self.heap)
    BY <2>1, Enumerated
  <2>3. /\ r = [self EXCEPT !.heap = r.heap, !.sequenceNo = top + 1, !.last = self.last + 1]
        /\ r.heap \in Seq(HeapEntry) /\ Len(r.heap) = self.last + 1
        /\ Numbered(r.heap, top + 1) /\ Heaped(r.heap)
        /\ \E k \in 0 .. Len(u) :
             Belongs(e, u, k) /\ Enumerates(With(u, k, e), r.heap)
    <3> HIDE DEF e
    <3>1. e = [priority |-> priority, value |-> value, sequenceNo |-> self.sequenceNo]
      BY DEF e
    <3> QED
      BY <1>1, <1>3, <2>2, <3>1, HeapInserted
  <2>4. PICK k \in 0 .. Len(u) : Belongs(e, u, k) /\ Enumerates(With(u, k, e), r.heap)
    BY <2>3
  <2>5. top + 1 \in 0 .. MAXSEQ
    BY <1>3, <2>1
  <2>6. e \in HeapEntry /\ HQ!Pair(e) = p /\ e.priority = priority /\ e.sequenceNo = top
    BY <2>1 DEF HeapEntry, HQ!Pair
  <2> HIDE DEF r, e
  <2>7. self' = [sequenceNo |-> top + 1, last |-> self.last + 1, size |-> size,
                 heap |-> r.heap]
    <3>1. r = [sequenceNo |-> top + 1, last |-> self.last + 1, size |-> self.size,
               heap |-> r.heap]
      BY <2>1, <2>3
    <3>2. self' = [r EXCEPT !.size = size]
      BY <1>3 DEF r
    <3>3. self' = [sequenceNo |-> top + 1, last |-> self.last + 1, size |-> size,
                   heap |-> r.heap]
      BY <3>1, <3>2
    <3> QED
      BY <3>3
  <2>8. /\ self' \in [sequenceNo : 0 .. MAXSEQ, last : Nat, size : Nat, heap : Seq(HeapEntry)]
        /\ self'.last = self.last + 1 /\ self'.size = size /\ self'.heap = r.heap
        /\ self'.sequenceNo = top + 1
    <3> HIDE DEF top
    <3>1. self.last + 1 \in Nat /\ r.heap \in Seq(HeapEntry)
      BY <2>1, <2>3
    <3> QED
      BY <2>5, <2>7, <3>1
  <2>9. HeapQueue(self')
    BY <1>3, <2>3, <2>8 DEF HeapQueue
  <2>10. HQ!HeapOK'
    BY <2>9, HeapIs DEF HQ!HeapOK
  <2>11. HQ!Ordered(self) = Pairs(u)
    <3> HIDE DEF top
    <3> QED
      BY <2>1, <2>2, OrderedIs
  <2>12. HQ!Ordered(self') = Pairs(With(u, k, e))
    <3> DEFINE w == With(u, k, e)
               t == top + 1
    <3>1. t \in 0 .. MAXSEQ /\ Numbered(self'.heap, t) /\ self'.last = Len(self'.heap)
          /\ Enumerates(w, self'.heap)
      BY <2>3, <2>4, <2>5, <2>8
    <3> HIDE DEF w, t
    <3>2. HQ!Ordered(self') = Pairs(w)
      BY <3>1, OrderedIs
    <3> QED
      BY <3>2 DEF w
  <2>13. u \in Seq(HeapEntry) /\ Len(u) \in Nat
         /\ \A i \in 1 .. Len(u) : \E j \in 1 .. Len(self.heap) : u[i] = self.heap[j]
    <3> DEFINE h == self.heap
    <3>1. Enumerates(u, h)
      BY <2>2
    <3> HIDE DEF h
    <3>2. u \in Seq(HeapEntry) /\ Len(u) \in Nat
          /\ \A i \in 1 .. Len(u) : \E j \in 1 .. Len(h) : u[i] = h[j]
      BY <3>1, EnumElems
    <3> QED
      BY <3>2 DEF h
  <2>14. /\ Pairs(With(u, k, e)) =
              SubSeq(Pairs(u), 1, k) \o <<HQ!Pair(e)>> \o SubSeq(Pairs(u), k + 1, Len(u))
         /\ Len(Pairs(u)) = Len(u)
         /\ \A i \in 1 .. Len(u) : Pairs(u)[i].priority = u[i].priority
    BY <2>6, <2>13, PairsWith
  <2>15. ASSUME NEW i \in 1 .. Len(u)
         PROVE  /\ u[i].priority \in Int /\ u[i].sequenceNo \in Nat /\ u[i].sequenceNo < top
                /\ priority \in Int
    <3>1. PICK j \in 1 .. Len(self.heap) : u[i] = self.heap[j]
      BY <2>13
    <3>2. u[i].sequenceNo < top
      BY <2>1, <3>1 DEF Numbered
    <3>3. u[i] \in HeapEntry
      BY <2>13
    <3> QED
      BY <2>6, <3>2, <3>3, EntryInts
  <2>16. ASSUME NEW i \in 1 .. k PROVE Pairs(u)[i].priority <= priority
    <3>1. i \in 1 .. Len(u) /\ Before(u[i], e)
      BY <2>4, <2>13 DEF Belongs
    <3>2. Before(u[i], e) => u[i].priority <= priority
      BY <2>6, <2>15, <3>1 DEF Before
    <3> QED
      BY <2>14, <3>1, <3>2
  <2>17. ASSUME NEW i \in k + 1 .. Len(u) PROVE Pairs(u)[i].priority > priority
    <3>1. i \in 1 .. Len(u) /\ Before(e, u[i])
      BY <2>4, <2>13 DEF Belongs
    <3>2. ~ (top < u[i].sequenceNo)
      BY <2>1, <2>15, <3>1
    <3>3. priority < u[i].priority
      BY <2>6, <3>1, <3>2 DEF Before
    <3>4. u[i].priority > priority
      BY <2>15, <3>1, <3>3
    <3> QED
      BY <2>14, <3>1, <3>4
  <2> DEFINE items == HQ!Ordered(self)
  <2>18. /\ Len(items) = Len(u) /\ k \in 0 .. Len(items)
         /\ \A i \in 1 .. k : items[i].priority <= priority
         /\ \A i \in k + 1 .. Len(items) : items[i].priority > priority
         /\ HQ!Ordered(self') = SubSeq(items, 1, k) \o <<p>>
                                \o SubSeq(items, k + 1, Len(items))
    <3>1. Len(items) = Len(u) /\ items = Pairs(u)
      BY <2>11, <2>14
    <3> HIDE DEF items
    <3> QED
      BY <2>6, <2>12, <2>14, <2>16, <2>17, <3>1
  <2> HIDE DEF items
  <2>19. HQ!Q!Insert
    BY <1>3, <2>18 DEF HQ!Q!Insert, HQ!Items, items
  <2> QED
    BY <2>10, <2>19
<1>4. CASE HQ!Insert(priority, value) /\ ~ (UNCHANGED self /\ ret' = <<"insert", FALSE>>)
  <2>1. /\ self \in [sequenceNo : 0 .. MAXSEQ, last : Nat, size : Nat, heap : Seq(HeapEntry)]
        /\ self.last \in Nat /\ self.size \in Nat /\ self.last < self.size
    BY <1>1 DEF HeapQueue
  <2> DEFINE r == HQ!Inserted(self, priority, value)
  <2>2. r.size = self.size /\ r = [r EXCEPT !.size = self.size]
        /\ [r EXCEPT !.size = 2 * @] = [r EXCEPT !.size = 2 * self.size]
    BY <2>1 DEF HQ!Inserted
  <2>3. self.sequenceNo < MAXSEQ /\ ret' = <<"insert", TRUE>>
    BY <1>4 DEF HQ!Insert
  <2>4. \/ self.last + 1 < self.size /\ self' = r
        \/ self.last + 1 >= self.size /\ self' = [r EXCEPT !.size = 2 * @]
    BY <1>4 DEF HQ!Insert
  <2> HIDE DEF r
  <2>5. CASE self.last + 1 < self.size /\ self' = r
    <3>1. self' = [r EXCEPT !.size = self.size]
      BY <2>2, <2>5
    <3> QED
      BY <1>3, <2>1, <2>3, <2>5, <3>1 DEF r
  <2>6. CASE self.last + 1 >= self.size /\ self' = [r EXCEPT !.size = 2 * @]
    <3> DEFINE size == 2 * self.size
    <3>1. size \in Nat
      BY <2>1
    <3>2. self.last + 1 < size
      BY <2>1, <2>6
    <3>3. self' = [r EXCEPT !.size = size]
      BY <2>2, <2>6
    <3> HIDE DEF size
    <3> QED
      BY <1>3, <2>3, <3>1, <3>2, <3>3 DEF r
  <2> QED
    BY <2>4, <2>5, <2>6
<1> QED
  BY <1>2, <1>4

\* g has the entries of h but for the root.
RootGone(g, h) == \A x : x \in Elems(g) <=> x \in Elems(h) /\ x # h[1]

\* The root, gone, with the last entry in its place.
LEMMA ToppedSinks ==
  ASSUME NEW top \in Nat, NEW h, Numbered(h, top), Heaped(h), NEW n \in Nat, Len(h) = n + 1,
         NEW g, g = [i \in 1 .. n |-> h[IF i = 1 THEN n + 1 ELSE i]]
  PROVE  /\ Numbered(g, top) /\ Sinking(g, 1) /\ Len(g) = n
         /\ RootGone(g, h)
<1> DEFINE m(i) == IF i = 1 THEN n + 1 ELSE i
<1>1. /\ h \in Seq(HeapEntry) /\ \A i \in 1 .. n + 1 : h[i] \in HeapEntry
      /\ \A i \in 1 .. n + 1 : h[i].sequenceNo < top
      /\ \A i, j \in 1 .. n + 1 : h[i].sequenceNo = h[j].sequenceNo => i = j
      /\ \A i \in 2 .. n + 1 : AtMost(h[i \div 2], h[i])
  BY DEF Numbered, Heaped
<1>2. \A i \in 1 .. n : m(i) \in 2 .. n + 1 /\ m(i) \in 1 .. n + 1
  OBVIOUS
<1>3. \A i, j \in 1 .. n : m(i) = m(j) => i = j
  OBVIOUS
<1>4. \A j \in 2 .. n + 1 : \E i \in 1 .. n : m(i) = j
  <2>1. ASSUME NEW j \in 2 .. n + 1 PROVE \E i \in 1 .. n : m(i) = j
    <3>1. CASE j = n + 1
      <4>1. 1 \in 1 .. n /\ m(1) = j
        BY <3>1
      <4> QED
        BY <4>1
    <3>2. CASE j # n + 1
      <4>1. j \in 1 .. n /\ m(j) = j
        BY <3>2
      <4> QED
        BY <4>1
    <3> QED
      BY <3>1, <3>2
  <2> QED
    BY <2>1
<1>5. \A i \in 1 .. n : g[i] = h[m(i)]
  OBVIOUS
<1>6. \A i \in 2 .. n : m(i) = i
  OBVIOUS
<1>7. g = [i \in 1 .. n |-> h[m(i)]]
  OBVIOUS
<1> HIDE DEF m
<1>8. g \in Seq(HeapEntry) /\ Len(g) = n
  <2>1. g \in [1 .. n -> HeapEntry]
    BY ONLY <1>1, <1>2, <1>7
  <2> QED
    BY <2>1
<1>9. Numbered(g, top)
  <2>1. \A i \in 1 .. n : g[i].sequenceNo < top
    BY <1>1, <1>2, <1>5
  <2>2. ASSUME NEW i \in 1 .. n, NEW j \in 1 .. n, g[i].sequenceNo = g[j].sequenceNo
        PROVE  i = j
    <3>1. m(i) = m(j)
      BY <1>1, <1>2, <1>5, <2>2
    <3> QED
      BY <1>3, <3>1
  <2> QED
    BY <1>8, <2>1, <2>2 DEF Numbered
<1>10. Sinking(g, 1)
  <2>1. ASSUME NEW k \in 2 .. n, k \div 2 # 1 PROVE AtMost(g[k \div 2], g[k])
    <3> DEFINE q == k \div 2
    <3>1. q \in 1 .. n /\ q < k
      BY HalfIs
    <3>2. q \in 2 .. n /\ k \in 2 .. n + 1 /\ k \in 1 .. n
      BY <2>1, <3>1
    <3>3. AtMost(h[q], h[k])
      BY <1>1, <3>2
    <3> HIDE DEF q
    <3>4. AtMost(g[q], g[k])
      BY <1>5, <1>6, <3>1, <3>2, <3>3
    <3> QED
      BY <3>4 DEF q
  <2> QED
    <3>1. Bridged(g, 1)
      BY DEF Bridged
    <3> QED
      BY ONLY <1>8, <2>1, <3>1 DEF Sinking
<1>11. ASSUME NEW x PROVE x \in Elems(g) <=> x \in Elems(h) /\ x # h[1]
  <2>1. Elems(g) = {g[i] : i \in 1 .. n} /\ Elems(h) = {h[i] : i \in 1 .. n + 1}
    BY <1>8 DEF Elems
  <2>2. ASSUME NEW i \in 1 .. n, x = g[i] PROVE x \in {h[j] : j \in 1 .. n + 1} /\ x # h[1]
    <3>1. m(i) \in 1 .. n + 1 /\ m(i) # 1 /\ x = h[m(i)] /\ 1 \in 1 .. n + 1
      BY <1>2, <1>5, <2>2
    <3>2. x # h[1]
      BY <1>1, <3>1
    <3> QED
      BY <3>1, <3>2
  <2>3. ASSUME NEW j \in 1 .. n + 1, x = h[j], x # h[1] PROVE x \in {g[i] : i \in 1 .. n}
    <3>1. j \in 2 .. n + 1
      BY <2>3
    <3>2. PICK i \in 1 .. n : m(i) = j
      BY <1>4, <3>1
    <3>3. x = g[i]
      BY <1>5, <2>3, <3>2
    <3> QED
      BY <3>3
  <2> QED
    BY <2>1, <2>2, <2>3
<1> QED
  BY <1>8, <1>9, <1>10, <1>11 DEF RootGone

\* The root is the first of the entries in their order.
LEMMA RootIsFirst ==
  ASSUME NEW top \in 0 .. MAXSEQ, NEW h, Numbered(h, top), Heaped(h), Len(h) > 0,
         NEW u, Enumerates(u, h)
  PROVE  u[1] = h[1]
<1> DEFINE n == Len(u)
<1>1. /\ n \in Nat /\ n = Len(h) /\ 1 \in 1 .. n
      /\ \A i \in 1 .. n : u[i] \in HeapEntry
      /\ \A i, j \in 1 .. n : i < j => Before(u[i], u[j])
      /\ \A i \in 1 .. n : \E j \in 1 .. n : u[i] = h[j]
      /\ \A j \in 1 .. n : \E i \in 1 .. n : u[i] = h[j]
  <2>1. /\ Len(u) \in Nat /\ Len(u) = Len(h)
        /\ \A i \in 1 .. Len(u) : u[i] \in HeapEntry
        /\ \A i, j \in 1 .. Len(u) : i < j => Before(u[i], u[j])
        /\ \A i \in 1 .. Len(u) : \E j \in 1 .. Len(h) : u[i] = h[j]
        /\ \A j \in 1 .. Len(h) : \E i \in 1 .. Len(u) : u[i] = h[j]
    BY EnumElems
  <2>2. 1 \in 1 .. n
    BY ONLY Len(h) > 0, <2>1
  <2> QED
    BY ONLY <2>1, <2>2
<1>2. PICK i \in 1 .. n : u[i] = h[1]
  BY <1>1
<1>3. PICK j \in 1 .. n : u[1] = h[j]
  BY <1>1
<1>4. AtMost(h[1], h[j])
  <2>1. j \in 1 .. Len(h)
    BY <1>1
  <2> QED
    BY <2>1, RootIsLeast
<1>5. ~ Before(u[1], u[i])
  BY <1>2, <1>3, <1>4 DEF AtMost
<1>6. i = 1
  BY <1>1, <1>5
<1> QED
  BY <1>2, <1>6

\* The rest of them, once the root has gone.
LEMMA RestInTurn ==
  ASSUME NEW h, NEW u, Enumerates(u, h), NEW g, NEW n \in Nat, Len(h) = n + 1, Len(g) = n,
         u[1] = h[1], RootGone(g, h)
  PROVE  /\ Enumerates(Tail(u), g)
         /\ \A i \in 1 .. n : Tail(u)[i] = u[i + 1]
<1> DEFINE t == Tail(u)
<1>1. /\ u \in Seq(HeapEntry) /\ Len(u) = n + 1 /\ Elems(u) = Elems(h)
      /\ \A i \in 1 .. n + 1 : u[i] \in HeapEntry
      /\ \A i, j \in 1 .. n + 1 : i < j => Before(u[i], u[j])
  BY EnumElems
<1>2. u # <<>>
  BY <1>1
<1>3. t \in Seq(HeapEntry) /\ Len(t) = n /\ \A i \in 1 .. n : t[i] = u[i + 1]
  BY <1>1, <1>2
<1> HIDE DEF t
<1>4. \A i \in 1 .. n : i + 1 \in 1 .. n + 1 /\ i + 1 > 1
  OBVIOUS
<1>5. InTurn(t)
  <2>1. ASSUME NEW i \in 1 .. n, NEW j \in 1 .. n, i < j PROVE Before(t[i], t[j])
    <3>1. i + 1 < j + 1
      BY <2>1
    <3> QED
      BY <1>1, <1>3, <1>4, <3>1
  <2> QED
    BY <1>3, <2>1 DEF InTurn
<1>6. ASSUME NEW x PROVE x \in Elems(t) <=> x \in Elems(g)
  <2>1. Elems(t) = {t[i] : i \in 1 .. n} /\ Elems(u) = {u[i] : i \in 1 .. n + 1}
    BY <1>1, <1>3 DEF Elems
  <2>2. x \in Elems(g) <=> x \in Elems(u) /\ x # u[1]
    BY <1>1 DEF RootGone
  <2>3. ASSUME NEW i \in 1 .. n, x = t[i] PROVE x \in {u[j] : j \in 1 .. n + 1} /\ x # u[1]
    <3>1. x = u[i + 1] /\ i + 1 \in 1 .. n + 1 /\ 1 \in 1 .. n + 1 /\ 1 < i + 1
      BY <1>3, <1>4, <2>3
    <3>2. Before(u[1], x) /\ ~ Before(x, x)
      BY <1>1, <3>1, BeforeIsOrder
    <3> QED
      BY <3>1, <3>2
  <2>4. ASSUME NEW j \in 1 .. n + 1, x = u[j], x # u[1] PROVE x \in {t[i] : i \in 1 .. n}
    <3>1. j - 1 \in 1 .. n /\ (j - 1) + 1 = j
      BY <2>4
    <3>2. x = t[j - 1]
      BY <1>3, <2>4, <3>1
    <3> QED
      BY <3>1, <3>2
  <2> QED
    BY <2>1, <2>2, <2>3, <2>4
<1>7. Elems(t) = Elems(g)
  BY <1>6
<1> QED
  BY <1>3, <1>5, <1>7 DEF Enumerates, t

\* A queue without its minimum is sound, and the rest is in the same order.
LEMMA HeapWithoutMin ==
  ASSUME NEW d, HeapQueue(d), d.last > 0, NEW u, Enumerates(u, d.heap)
  PROVE  LET r == HQ!WithoutMin(d) IN
         /\ HeapQueue(r) /\ r.last = d.last - 1
         /\ Enumerates(Tail(u), r.heap)
         /\ \A i \in 1 .. d.last - 1 : Tail(u)[i] = u[i + 1]
         /\ u[1] = d.heap[1]
<1> DEFINE r == HQ!WithoutMin(d)
           n == d.last - 1
           h == d.heap
           top == d.sequenceNo
           g == [i \in 1 .. n |-> h[IF i = 1 THEN d.last ELSE i]]
           s == HQ!SiftDown(g, n)
<1>1. /\ d \in [sequenceNo : 0 .. MAXSEQ, last : Nat, size : Nat, heap : Seq(HeapEntry)]
      /\ d.last \in Nat /\ d.last < d.size /\ Len(h) = d.last
      /\ Numbered(h, top) /\ Heaped(h) /\ top \in 0 .. MAXSEQ /\ d.size \in Nat
  BY DEF HeapQueue
<1>2. n \in Nat /\ Len(h) = n + 1 /\ d.last = n + 1
  BY <1>1
<1>3. r = [d EXCEPT !.last = n, !.heap = s]
  BY DEF HQ!WithoutMin
<1>4. g = [i \in 1 .. n |-> h[IF i = 1 THEN n + 1 ELSE i]]
  BY <1>2
<1> HIDE DEF r, n, top, g, s
<1>5. /\ Numbered(g, top) /\ Sinking(g, 1) /\ Len(g) = n
      /\ RootGone(g, h)
  <2> HIDE DEF h
  <2>1. top \in Nat /\ Numbered(h, top) /\ Heaped(h) /\ n \in Nat /\ Len(h) = n + 1
        /\ g = [i \in 1 .. n |-> h[IF i = 1 THEN n + 1 ELSE i]]
    BY <1>1, <1>2, <1>4
  <2> QED
    BY ONLY <2>1, ToppedSinks
<1>6. Alike(s, g, top) /\ Heaped(s)
  <2>1. top \in 0 .. MAXSEQ /\ Numbered(g, top) /\ Sinking(g, 1)
    BY <1>1, <1>5
  <2>2. Alike(HQ!SiftDown(g, Len(g)), g, top) /\ Heaped(HQ!SiftDown(g, Len(g)))
    BY <2>1, SiftsDown
  <2> QED
    BY <1>5, <2>2 DEF s
<1>7. Numbered(s, top) /\ Len(s) = n /\ Elems(s) = Elems(g) /\ s \in Seq(HeapEntry)
  BY <1>5, <1>6 DEF Alike, Numbered
<1>8. /\ r \in [sequenceNo : 0 .. MAXSEQ, last : Nat, size : Nat, heap : Seq(HeapEntry)]
      /\ r.last = n /\ r.heap = s /\ r.size = d.size /\ r.sequenceNo = top
  BY <1>1, <1>2, <1>3, <1>7 DEF top
<1>9. HeapQueue(r)
  BY <1>1, <1>2, <1>6, <1>7, <1>8 DEF HeapQueue
<1>10. u[1] = h[1]
  <2>1. Enumerates(u, h) /\ Len(h) > 0
    BY <1>2
  <2> HIDE DEF h
  <2> QED
    BY <1>1, <2>1, RootIsFirst
<1>11. Enumerates(Tail(u), s) /\ \A i \in 1 .. n : Tail(u)[i] = u[i + 1]
  <2>1. Enumerates(u, h) /\ RootGone(s, h)
    BY <1>5, <1>7 DEF RootGone
  <2> HIDE DEF h
  <2>2. n \in Nat /\ Len(h) = n + 1 /\ Len(s) = n /\ u[1] = h[1]
    BY <1>2, <1>7, <1>10
  <2> QED
    BY ONLY <2>1, <2>2, RestInTurn
<1> QED
  BY <1>8, <1>9, <1>10, <1>11 DEF r, n

\* genArray takes the entries in their order.
LEMMA HeapGenArray ==
  ASSUME NEW d, HeapQueue(d), NEW u, Enumerates(u, d.heap)
  PROVE  HQ!GenArray(d) = [i \in 1 .. d.last |-> u[i].value]
<1> DEFINE n == d.last
           D == [sequenceNo : 0 .. MAXSEQ, last : Nat, size : Nat, heap : Seq(HeapEntry)]
           S == {q \in D : HeapQueue(q)}
           E(f) == [k \in 0 .. n |-> IF k = 0 THEN d ELSE HQ!WithoutMin(f[k - 1])]
           a == CHOOSE f : f = E(f)
           step == [q \in S |-> IF q.last > 0 THEN HQ!WithoutMin(q) ELSE q]
           Rest(q, k) == \E v : /\ Enumerates(v, q.heap)
                                /\ \A i \in 1 .. n - k : v[i] = u[k + i]
<1>1. n \in Nat /\ d \in S
  BY DEF HeapQueue
<1>2. HQ!GenArray(d) = [i \in 1 .. n |-> a[i - 1].heap[1].value]
  BY DEF HQ!GenArray
<1>3. ASSUME NEW q \in S, q.last > 0
      PROVE  HQ!WithoutMin(q) \in S /\ HQ!WithoutMin(q).last = q.last - 1
  <2>1. HeapQueue(q)
    OBVIOUS
  <2>2. Numbered(q.heap, q.sequenceNo)
    BY <2>1 DEF HeapQueue
  <2>3. PICK v : Enumerates(v, q.heap)
    BY <2>2, Enumerated
  <2>4. HeapQueue(HQ!WithoutMin(q)) /\ HQ!WithoutMin(q).last = q.last - 1
    BY ONLY <1>3, <2>1, <2>3, HeapWithoutMin
  <2> QED
    BY <2>4 DEF HeapQueue
<1> HIDE DEF n, a
<1>4. step \in [S -> S] /\ \A q \in S : q.last > 0 => step[q] = HQ!WithoutMin(q)
  <2> HIDE DEF S
  <2>1. \A q \in S : (IF q.last > 0 THEN HQ!WithoutMin(q) ELSE q) \in S
    BY <1>3
  <2> QED
    BY <2>1
<1>5. a = E(a)
  <2>1. \E g \in [0 .. n -> S] : Runs(g, n, d, step)
    <3>1. n \in Nat /\ d \in S /\ step \in [S -> S]
      BY <1>1, <1>4
    <3> HIDE DEF S, step, E
    <3> QED
      BY ONLY <3>1, Iterated
  <2>2. PICK g \in [0 .. n -> S] : g[0] = d /\ \A k \in 1 .. n : g[k] = step[g[k - 1]]
    BY <2>1 DEF Runs
  <2> HIDE DEF S, step, E
  <2>3. \A k \in 0 .. n : g[k] \in S
    BY <2>2
  <2> DEFINE T == {k \in Nat : k <= n => g[k].last = n - k}
  <2>4. 0 \in T
    BY <1>1, <2>2 DEF n
  <2>5. ASSUME NEW k \in T PROVE k + 1 \in T
    <3>1. ASSUME k + 1 <= n PROVE g[k + 1].last = n - (k + 1)
      <4>1. k \in 0 .. n /\ k + 1 \in 1 .. n /\ (k + 1) - 1 = k /\ g[k].last = n - k
        BY <1>1, <3>1
      <4>2. g[k].last > 0 /\ g[k] \in S
        BY <1>1, <2>3, <3>1, <4>1
      <4>3. g[k + 1] = step[g[k]]
        BY <2>2, <4>1
      <4>4. g[k + 1] = HQ!WithoutMin(g[k])
        BY <1>4, <4>2, <4>3
      <4>5. g[k + 1].last = g[k].last - 1
        BY <1>3, <4>2, <4>4
      <4> QED
        BY <1>1, <4>1, <4>5
    <3> QED
      BY <3>1
  <2>6. T = Nat
    <3>1. T \in SUBSET Nat
      OBVIOUS
    <3> HIDE DEF T
    <3> QED
      BY <2>4, <2>5, <3>1, NatInduct
  <2>7. ASSUME NEW k \in 0 .. n PROVE g[k] = IF k = 0 THEN d ELSE HQ!WithoutMin(g[k - 1])
    <3>1. CASE k = 0
      BY <2>2, <3>1
    <3>2. CASE k # 0
      <4>1. k \in 1 .. n /\ k - 1 \in 0 .. n /\ k - 1 \in Nat
        BY <1>1, <3>2
      <4>2. g[k - 1].last = n - (k - 1)
        <5>1. k - 1 \in T
          BY <2>6, <4>1
        <5> QED
          BY <1>1, <4>1, <5>1
      <4>3. g[k - 1].last > 0 /\ g[k - 1] \in S
        BY <1>1, <2>3, <4>1, <4>2
      <4> QED
        BY <1>4, <2>2, <3>2, <4>1, <4>3
    <3> QED
      BY <3>1, <3>2
  <2>8. g = E(g)
    BY <2>2, <2>7 DEF E
  <2> QED
    BY ONLY <2>8 DEF a
<1>6. a[0] = d /\ \A k \in 1 .. n : a[k] = HQ!WithoutMin(a[k - 1])
  <2>1. \A k \in 0 .. n : a[k] = IF k = 0 THEN d ELSE HQ!WithoutMin(a[k - 1])
    BY <1>5
  <2>2. 0 \in 0 .. n /\ \A k \in 1 .. n : k \in 0 .. n /\ k # 0
    BY <1>1
  <2> QED
    BY <2>1, <2>2
<1> HIDE DEF E, step, Rest
<1> DEFINE T == {k \in Nat : k <= n => a[k] \in S /\ a[k].last = n - k /\ Rest(a[k], k)}
<1>7. 0 \in T
  <2>1. Rest(d, 0)
    <3>1. u \in Seq(HeapEntry) /\ Len(u) = Len(d.heap) /\ Len(d.heap) = n
      BY DEF Enumerates, HeapQueue, n
    <3>2. \A i \in 1 .. n - 0 : u[i] = u[0 + i]
      BY <1>1
    <3> QED
      BY <3>2 DEF Rest
  <2>2. d.last = n - 0
    BY <1>1 DEF n
  <2> QED
    BY <1>1, <1>6, <2>1, <2>2
<1>8. ASSUME NEW k \in T PROVE k + 1 \in T
  <2>0. k \in Nat /\ (k <= n => a[k] \in S /\ a[k].last = n - k /\ Rest(a[k], k))
    OBVIOUS
  <2>1. ASSUME k + 1 <= n
        PROVE  a[k + 1] \in S /\ a[k + 1].last = n - (k + 1) /\ Rest(a[k + 1], k + 1)
    <3>01. n \in Nat
      BY <1>1
    <3> HIDE DEF S, T, n
    <3>02. k \in Nat /\ k <= n /\ k + 1 \in 1 .. n /\ (k + 1) - 1 = k /\ n - k > 0
      BY ONLY <2>0, <2>1, <3>01
    <3>03. a[k] \in S /\ a[k].last = n - k /\ Rest(a[k], k)
      BY ONLY <2>0, <3>02
    <3>1. /\ k \in Nat /\ k + 1 \in 1 .. n /\ (k + 1) - 1 = k
          /\ a[k] \in S /\ a[k].last = n - k /\ Rest(a[k], k) /\ a[k].last > 0
      BY ONLY <3>02, <3>03
    <3>2. a[k + 1] = HQ!WithoutMin(a[k])
      BY <1>6, <3>1
    <3>3. PICK v : Enumerates(v, a[k].heap) /\ \A i \in 1 .. n - k : v[i] = u[k + i]
      BY <3>1 DEF Rest
    <3> DEFINE q == a[k]
    <3>4. HeapQueue(q) /\ q.last > 0 /\ Enumerates(v, q.heap)
      BY <3>1, <3>3 DEF S
    <3> HIDE DEF q
    <3>5. /\ HeapQueue(HQ!WithoutMin(q)) /\ HQ!WithoutMin(q).last = q.last - 1
          /\ Enumerates(Tail(v), HQ!WithoutMin(q).heap)
          /\ \A i \in 1 .. q.last - 1 : Tail(v)[i] = v[i + 1]
      BY ONLY <3>4, HeapWithoutMin
    <3>6. ASSUME NEW i \in 1 .. n - (k + 1) PROVE Tail(v)[i] = u[(k + 1) + i]
      <4>1. q.last - 1 = n - (k + 1) /\ i + 1 \in 1 .. n - k /\ k + (i + 1) = (k + 1) + i
        BY <1>1, <3>1 DEF q
      <4>2. Tail(v)[i] = v[i + 1]
        BY <3>5, <4>1
      <4>3. v[i + 1] = u[k + (i + 1)]
        BY <3>3, <4>1
      <4> QED
        BY <4>1, <4>2, <4>3
    <3>7. Rest(HQ!WithoutMin(q), k + 1)
      BY <3>5, <3>6 DEF Rest
    <3>8. HQ!WithoutMin(q) \in S
      BY <3>5 DEF S, HeapQueue
    <3>9. q.last - 1 = n - (k + 1)
      BY <1>1, <3>1 DEF q
    <3> QED
      BY <3>2, <3>5, <3>7, <3>8, <3>9 DEF q
  <2> QED
    BY <2>1
<1>9. T = Nat
  <2>1. T \in SUBSET Nat
    OBVIOUS
  <2> HIDE DEF T
  <2> QED
    BY <1>7, <1>8, <2>1, NatInduct
<1>10. ASSUME NEW i \in 1 .. n PROVE a[i - 1].heap[1] = u[i]
  <2> DEFINE k == i - 1
             q == a[k]
  <2>1. k \in Nat /\ k <= n /\ k \in T
    BY <1>1, <1>9
  <2>2. q \in S /\ q.last = n - k /\ Rest(q, k)
    BY <2>1
  <2>3. PICK v : Enumerates(v, q.heap) /\ \A j \in 1 .. n - k : v[j] = u[k + j]
    BY <2>2 DEF Rest
  <2>4. HeapQueue(q) /\ q.last > 0 /\ 1 \in 1 .. n - k /\ k + 1 = i
    BY <1>1, <2>2
  <2>5. v[1] = u[i]
    BY <2>3, <2>4
  <2> HIDE DEF q
  <2>6. v[1] = q.heap[1]
    BY ONLY <2>3, <2>4, HeapWithoutMin
  <2> QED
    BY <2>5, <2>6 DEF q
<1> QED
  BY <1>2, <1>10 DEF n

\* Where an array has an entry of a priority and a value.
Held(s, x) == {i \in 1 .. Len(s) : HQ!Pair(s[i]) = x}

\* What is freed entry by entry is what the queue has, whatever the order.
LEMMA HeapCounts ==
  ASSUME NEW top \in 0 .. MAXSEQ, NEW h, Numbered(h, top), NEW u, Enumerates(u, h), NEW x
  PROVE  Cardinality(Held(h, x)) = Cardinality(Held(u, x))
<1> DEFINE n == Len(h)
           A == {i \in 1 .. n : HQ!Pair(h[i]) = x}
           B == {i \in 1 .. n : HQ!Pair(u[i]) = x}
           At(i) == CHOOSE j \in 1 .. n : u[j] = h[i]
           f == [i \in A |-> At(i)]
<1>1. /\ Len(u) \in Nat /\ Len(u) = n
      /\ \A i \in 1 .. Len(u) : u[i] \in HeapEntry
      /\ \A i, j \in 1 .. Len(u) : i < j => Before(u[i], u[j])
      /\ \A i \in 1 .. Len(u) : \E j \in 1 .. n : u[i] = h[j]
      /\ \A j \in 1 .. n : \E i \in 1 .. Len(u) : u[i] = h[j]
  BY EnumElems
<1>2. \A i, j \in 1 .. n : h[i] = h[j] => i = j
  BY DEF Numbered
<1>3. ASSUME NEW i \in 1 .. n, NEW j \in 1 .. n, u[i] = u[j] PROVE i = j
  <2>1. ~ Before(u[i], u[j]) /\ ~ Before(u[j], u[i])
    BY <1>1, <1>3, BeforeIsOrder
  <2> HIDE DEF n
  <2>2. ~ (i < j) /\ ~ (j < i)
    BY <1>1, <2>1
  <2> QED
    BY <1>1, <2>2
<1>4. ASSUME NEW i \in 1 .. n PROVE At(i) \in 1 .. n /\ u[At(i)] = h[i]
  <2>1. \E j \in 1 .. n : u[j] = h[i]
    BY <1>1
  <2> QED
    BY <2>1
<1> HIDE DEF n, At
<1>5. f \in [A -> B]
  BY <1>4
<1>6. ASSUME NEW i \in A, NEW j \in A, f[i] = f[j] PROVE i = j
  <2>1. h[i] = h[j]
    BY <1>4, <1>6
  <2> QED
    BY <1>2, <2>1
<1>7. ASSUME NEW k \in B PROVE \E i \in A : f[i] = k
  <2>1. PICK i \in 1 .. n : u[k] = h[i]
    BY <1>1
  <2>2. At(i) = k
    BY <1>3, <1>4, <2>1
  <2>3. i \in A
    BY <2>1
  <2> QED
    BY <2>2, <2>3
<1>8. IsFiniteSet(A)
  <2>1. n \in Nat
    BY <1>1
  <2>2. IsFiniteSet(1 .. n) /\ A \subseteq 1 .. n
    BY <2>1, FS_Interval
  <2> QED
    BY <2>2, FS_Subset
<1> HIDE DEF f, A, B
<1>9. f \in Bijection(A, B)
  BY <1>5, <1>6, <1>7 DEF Bijection, Injection, Surjection, IsInjective
<1>10. Cardinality(B) = Cardinality(A)
  BY <1>8, <1>9, FS_Bijection DEF ExistsBijection
<1> QED
  BY <1>1, <1>10 DEF A, B, n, Held

\* The pairs of priority and value of a sequence of entries.
LEMMA PairsElems ==
  ASSUME NEW u \in Seq(HeapEntry)
  PROVE  /\ Pairs(u) \in Seq([priority : Priorities, value : Values])
         /\ Len(Pairs(u)) = Len(u) /\ (Pairs(u) = <<>> <=> Len(u) = 0)
         /\ \A i \in 1 .. Len(u) : Pairs(u)[i] = HQ!Pair(u[i]) /\ Pairs(u)[i].value = u[i].value
<1> DEFINE n == Len(u)
           V == [priority : Priorities, value : Values]
           q == Pairs(u)
<1>1. n \in Nat /\ \A i \in 1 .. n : u[i] \in HeapEntry
  OBVIOUS
<1>2. ASSUME NEW x \in HeapEntry PROVE HQ!Pair(x) \in V /\ HQ!Pair(x).value = x.value
  BY DEF HeapEntry, HQ!Pair
<1>3. q = [i \in 1 .. n |-> HQ!Pair(u[i])]
  BY DEF Pairs
<1> HIDE DEF n, q, V
<1>4. q \in [1 .. n -> V] /\ \A i \in 1 .. n : q[i] = HQ!Pair(u[i])
  BY <1>1, <1>2, <1>3
<1>5. q \in Seq(V) /\ Len(q) = n
  BY <1>1, <1>4
<1>6. q = <<>> <=> n = 0
  BY <1>5
<1>7. \A i \in 1 .. n : q[i].value = u[i].value
  BY <1>1, <1>2, <1>4
<1> QED
  BY <1>4, <1>5, <1>6, <1>7 DEF n, q, V

\* A sound queue, and the entries in the order in which they leave.
LEMMA HeapItems ==
  ASSUME NEW d, HeapQueue(d)
  PROVE  \E u : /\ Enumerates(u, d.heap) /\ u \in Seq(HeapEntry) /\ Len(u) = d.last
                /\ HQ!Ordered(d) = Pairs(u)
<1>1. /\ Numbered(d.heap, d.sequenceNo) /\ d.sequenceNo \in 0 .. MAXSEQ
      /\ Len(d.heap) = d.last
  BY DEF HeapQueue
<1>2. PICK u : Enumerates(u, d.heap)
  BY <1>1, Enumerated
<1>3. u \in Seq(HeapEntry) /\ Len(u) = d.last
  BY <1>1, <1>2 DEF Enumerates
<1>4. HQ!Ordered(d) = Pairs(u)
  <2> DEFINE top == d.sequenceNo
  <2>1. top \in 0 .. MAXSEQ /\ Numbered(d.heap, top) /\ d.last = Len(d.heap)
    BY <1>1
  <2> HIDE DEF top
  <2> QED
    BY <1>2, <2>1, OrderedIs
<1> QED
  BY <1>2, <1>3, <1>4

\* What leaves is the first of the queue.
LEMMA HeapRemoveIsRemove ==
  ASSUME HQ!HeapOK, HQ!RemoveMin
  PROVE  HQ!HeapOK' /\ HQ!Q!RemoveMin
<1>1. HeapQueue(self)
  BY HeapIs DEF HQ!HeapOK
<1>2. self.last \in Nat
  BY <1>1 DEF HeapQueue
<1>3. PICK u : /\ Enumerates(u, self.heap) /\ u \in Seq(HeapEntry) /\ Len(u) = self.last
               /\ HQ!Ordered(self) = Pairs(u)
  BY <1>1, HeapItems
<1>4. /\ Pairs(u) \in Seq([priority : Priorities, value : Values])
      /\ Len(Pairs(u)) = Len(u) /\ (Pairs(u) = <<>> <=> Len(u) = 0)
      /\ \A i \in 1 .. Len(u) : Pairs(u)[i] = HQ!Pair(u[i])
  BY <1>3, PairsElems
<1>5. CASE self.last > 0
  <2> DEFINE r == HQ!WithoutMin(self)
             t == Tail(u)
             q == Pairs(u)
             n == self.last - 1
  <2>1. self' = r /\ ret' = <<"removeMin", TRUE, HQ!Pair(self.heap[1])>>
    <3>1. ~ (self.last <= 0)
      BY <1>2, <1>5
    <3> QED
      BY ONLY HQ!RemoveMin, <3>1 DEF HQ!RemoveMin
  <2>2. /\ HeapQueue(r) /\ r.last = n /\ Enumerates(t, r.heap)
        /\ \A i \in 1 .. n : t[i] = u[i + 1]
        /\ u[1] = self.heap[1]
    <3> DEFINE d == self
    <3>1. HeapQueue(d) /\ d.last > 0 /\ Enumerates(u, d.heap)
      BY <1>1, <1>3, <1>5
    <3> HIDE DEF d, r, t, q, n
    <3>2. /\ HeapQueue(HQ!WithoutMin(d)) /\ HQ!WithoutMin(d).last = d.last - 1
          /\ Enumerates(Tail(u), HQ!WithoutMin(d).heap)
          /\ \A i \in 1 .. d.last - 1 : Tail(u)[i] = u[i + 1]
      BY ONLY <3>1, HeapWithoutMin
    <3>3. u[1] = d.heap[1]
      BY ONLY <3>1, HeapWithoutMin
    <3> QED
      BY <3>2, <3>3 DEF d, r, t, n
  <2> HIDE DEF r, t
  <2>3. n \in Nat /\ Len(u) = n + 1
    BY <1>2, <1>3, <1>5
  <2>4. /\ Numbered(r.heap, r.sequenceNo) /\ r.sequenceNo \in 0 .. MAXSEQ
        /\ Len(r.heap) = r.last
    BY <2>2 DEF HeapQueue
  <2>5. t \in Seq(HeapEntry) /\ Len(t) = n
    BY <2>2, <2>4 DEF Enumerates
  <2>6. HQ!Ordered(r) = Pairs(t)
    <3> DEFINE top == r.sequenceNo
    <3>1. top \in 0 .. MAXSEQ /\ Numbered(r.heap, top) /\ r.last = Len(r.heap)
      BY <2>4
    <3> HIDE DEF top
    <3> QED
      BY <2>2, <3>1, OrderedIs
  <2>7. /\ Pairs(t) \in Seq([priority : Priorities, value : Values])
        /\ Len(Pairs(t)) = n
        /\ \A i \in 1 .. n : Pairs(t)[i] = HQ!Pair(t[i])
    BY <2>5, PairsElems
  <2> HIDE DEF q, n
  <2>8. /\ q \in Seq([priority : Priorities, value : Values]) /\ Len(q) = n + 1
        /\ \A i \in 1 .. n + 1 : q[i] = HQ!Pair(u[i])
    BY <1>4, <2>3 DEF q
  <2>9. q # <<>>
    BY <2>3, <2>8
  <2>10. Pairs(t) = Tail(q)
    <3>1. /\ Tail(q) \in Seq([priority : Priorities, value : Values]) /\ Len(Tail(q)) = n
          /\ \A i \in 1 .. n : Tail(q)[i] = q[i + 1]
      BY <2>3, <2>8, <2>9
    <3>2. \A i \in 1 .. n : Pairs(t)[i] = Tail(q)[i]
      <4>1. \A i \in 1 .. n : i + 1 \in 1 .. n + 1
        BY <2>3
      <4> QED
        BY <2>2, <2>7, <2>8, <3>1, <4>1
    <3> QED
      BY <2>7, <3>1, <3>2, SameElems
  <2>11. q[1] = HQ!Pair(self.heap[1])
    <3>1. 1 \in 1 .. n + 1
      BY <2>3
    <3> QED
      BY <2>2, <2>8, <3>1
  <2>12. HQ!Ordered(self)' = Tail(HQ!Ordered(self))
    BY <1>3, <2>1, <2>6, <2>10 DEF q
  <2>13. HQ!HeapOK'
    BY <2>1, <2>2, HeapIs DEF HQ!HeapOK
  <2> DEFINE items == HQ!Ordered(self)
  <2>14. items # <<>> /\ ret' = <<"removeMin", TRUE, items[1]>>
    BY <1>3, <2>1, <2>9, <2>11 DEF q
  <2>15. ret'[1] = "removeMin"
    BY <2>14
  <2> HIDE DEF items
  <2>16. HQ!Q!RemoveMin
    BY <2>12, <2>14, <2>15 DEF HQ!Q!RemoveMin, HQ!Items, items
  <2> QED
    BY <2>13, <2>16
<1>6. CASE ~ (self.last > 0)
  <2>1. UNCHANGED self /\ ret' = <<"removeMin", FALSE>>
    BY <1>6 DEF HQ!RemoveMin
  <2>2. HQ!Ordered(self) = <<>>
    BY <1>2, <1>3, <1>4, <1>6
  <2>3. HQ!Ordered(self)' = HQ!Ordered(self)
    BY <2>1
  <2>4. ret'[1] = "removeMin"
    BY <2>1
  <2>5. HQ!Q!RemoveMin
    BY <2>1, <2>2, <2>3, <2>4 DEF HQ!Q!RemoveMin, HQ!Items
  <2> QED
    BY <1>1, <2>1, <2>5, HeapIs DEF HQ!HeapOK
<1> QED
  BY <1>5, <1>6

\* Every priority and value of the queue is freed once.
LEMMA HeapPurged ==
  ASSUME NEW d, HeapQueue(d)
  PROVE  /\ Len(HQ!Purged(d)) = Len(HQ!Ordered(d))
         /\ \A x : HQ!Q!Count(HQ!Purged(d), x) = HQ!Q!Count(HQ!Ordered(d), x)
<1> DEFINE h == d.heap
           n == d.last
           p == HQ!Purged(d)
<1>1. /\ Numbered(h, d.sequenceNo) /\ d.sequenceNo \in 0 .. MAXSEQ /\ Len(h) = n
      /\ n \in Nat
  BY DEF HeapQueue
<1>2. PICK u : /\ Enumerates(u, h) /\ u \in Seq(HeapEntry) /\ Len(u) = n
               /\ HQ!Ordered(d) = Pairs(u)
  BY HeapItems
<1>3. p = [i \in 1 .. n |-> HQ!Pair(h[i])]
  BY DEF HQ!Purged
<1>4. Pairs(u) = [i \in 1 .. n |-> HQ!Pair(u[i])]
  BY <1>2 DEF Pairs
<1> HIDE DEF n, p, h
<1>5. DOMAIN p = 1 .. n /\ \A i \in 1 .. n : p[i] = HQ!Pair(h[i])
  BY <1>3
<1>6. DOMAIN Pairs(u) = 1 .. n /\ \A i \in 1 .. n : Pairs(u)[i] = HQ!Pair(u[i])
  BY <1>4
<1>7. Len(p) = n /\ Len(Pairs(u)) = n
  <2>1. Len(Pairs(u)) = Len(u)
    BY <1>2, PairsElems
  <2>2. Len(p) = n
    <3>1. \A i \in 1 .. n : h[i] \in HeapEntry
      BY <1>1 DEF Numbered
    <3> DEFINE V == [priority : Priorities, value : Values]
    <3>2. \A i \in 1 .. n : HQ!Pair(h[i]) \in V
      BY <3>1 DEF HeapEntry, HQ!Pair
    <3> HIDE DEF V
    <3>3. p \in [1 .. n -> V]
      BY <1>3, <3>2
    <3> QED
      BY <1>1, <3>3
  <2> QED
    BY <1>2, <2>1, <2>2
<1>8. ASSUME NEW x PROVE HQ!Q!Count(p, x) = HQ!Q!Count(Pairs(u), x)
  <2> DEFINE A == {i \in 1 .. n : HQ!Pair(h[i]) = x}
             B == {i \in 1 .. n : HQ!Pair(u[i]) = x}
  <2>1. Cardinality(A) = Cardinality(B)
    <3> DEFINE top == d.sequenceNo
    <3>1. top \in 0 .. MAXSEQ /\ Numbered(h, top) /\ Enumerates(u, h)
      BY <1>1, <1>2
    <3> HIDE DEF top
    <3>2. Cardinality(Held(h, x)) = Cardinality(Held(u, x))
      BY ONLY <3>1, HeapCounts
    <3> QED
      BY <1>1, <1>2, <3>2 DEF Held
  <2>2. {i \in DOMAIN p : p[i] = x} = A
    BY <1>5
  <2>3. {i \in DOMAIN Pairs(u) : Pairs(u)[i] = x} = B
    BY <1>6
  <2>4. ASSUME NEW X PROVE HQ!Q!Cardinality(X) = Cardinality(X)
    BY DEF HQ!Q!Cardinality, Cardinality
  <2> HIDE DEF A, B
  <2> QED
    BY <2>1, <2>2, <2>3, <2>4 DEF HQ!Q!Count
<1> QED
  BY <1>2, <1>7, <1>8 DEF p

\* What a sound priority queue in a heap tells and gives away is of its line.
LEMMA HeapCalls ==
  ASSUME HQ!HeapOK, HQ!Next
  PROVE  HQ!HeapOK' /\ HQ!Q!StableNext
<1> DEFINE q == HQ!Ordered(self)
<1>1. HeapQueue(self)
  BY HeapIs DEF HQ!HeapOK
<1>2. PICK u : /\ Enumerates(u, self.heap) /\ u \in Seq(HeapEntry) /\ Len(u) = self.last
               /\ q = Pairs(u)
  BY <1>1, HeapItems
<1>3. /\ self \in [sequenceNo : 0 .. MAXSEQ, last : Nat, size : Nat, heap : Seq(HeapEntry)]
      /\ self.last \in Nat /\ self.last < self.size /\ Len(self.heap) = self.last
      /\ Numbered(self.heap, self.sequenceNo) /\ self.sequenceNo \in 0 .. MAXSEQ
      /\ Heaped(self.heap)
  BY <1>1 DEF HeapQueue
<1>4. /\ Len(q) = self.last /\ (q = <<>> <=> self.last = 0)
      /\ \A i \in 1 .. self.last : q[i] = HQ!Pair(u[i]) /\ q[i].value = u[i].value
      /\ q \in Seq([priority : Priorities, value : Values])
  BY <1>2, PairsElems
<1>5. UNCHANGED self => HQ!HeapOK' /\ q' = q /\ HQ!Items' = HQ!Items
  BY <1>1, HeapIs DEF HQ!HeapOK, HQ!Items
<1>6. self.last > 0 => q[1] = HQ!Pair(self.heap[1])
  <2>1. ASSUME self.last > 0 PROVE u[1] = self.heap[1]
    <3> DEFINE h == self.heap
               top == self.sequenceNo
    <3>1. top \in 0 .. MAXSEQ /\ Numbered(h, top) /\ Heaped(h) /\ Len(h) > 0 /\ Enumerates(u, h)
      BY <1>2, <1>3, <2>1
    <3> HIDE DEF h, top
    <3>2. u[1] = h[1]
      BY ONLY <3>1, RootIsFirst
    <3> QED
      BY <3>2 DEF h
  <2> QED
    BY <1>3, <1>4, <2>1
<1>7. HQ!GenArray(self) = [i \in DOMAIN q |-> q[i].value]
  <2> DEFINE d == self
  <2>1. HeapQueue(d) /\ Enumerates(u, d.heap)
    BY <1>1, <1>2
  <2> HIDE DEF d
  <2>2. HQ!GenArray(d) = [i \in 1 .. d.last |-> u[i].value]
    BY ONLY <2>1, HeapGenArray
  <2>3. DOMAIN q = 1 .. self.last
    BY <1>4
  <2> HIDE DEF q
  <2> QED
    BY <1>4, <2>2, <2>3 DEF d
<1> HIDE DEF q
<1>8. HQ!Items = q
  BY DEF q, HQ!Items
<1>9. ASSUME NEW priority \in Priorities, NEW value \in Values, HQ!Insert(priority, value)
      PROVE  HQ!HeapOK' /\ HQ!Q!StableNext
  BY <1>9, HeapInsertIsInsert DEF HQ!Q!StableNext
<1>10. CASE HQ!RemoveMin
  BY <1>10, HeapRemoveIsRemove DEF HQ!Q!StableNext
<1>11. ASSUME HQ!Clear \/ HQ!Destroy
       PROVE  HQ!HeapOK' /\ HQ!Q!StableNext
  <2>1. HeapQueue(self') /\ HQ!Ordered(self') = <<>>
    <3>1. CASE HQ!Clear
      <4> DEFINE d == self'
      <4>1. /\ d = [sequenceNo |-> self.sequenceNo, last |-> 0, size |-> self.size,
                     heap |-> <<>>]
            /\ self.size > 0 /\ self.size \in Nat
        <5>1. self.size > 0 /\ self.size \in Nat
          BY <1>3
        <5>2. d = [self EXCEPT !.last = 0, !.heap = <<>>]
          BY <3>1 DEF HQ!Clear
        <5> HIDE DEF d
        <5>3. d = [sequenceNo |-> self.sequenceNo, last |-> 0, size |-> self.size,
                   heap |-> <<>>]
          BY ONLY <1>3, <5>2
        <5> QED
          BY <5>1, <5>3
      <4> HIDE DEF d
      <4>2. /\ d \in [sequenceNo : 0 .. MAXSEQ, last : Nat, size : Nat, heap : Seq(HeapEntry)]
            /\ d.last = 0 /\ d.heap = <<>> /\ d.size > 0
        BY <1>3, <4>1
      <4>3. HeapQueue(d) /\ HQ!Ordered(d) = <<>>
        BY <4>2, HeapNone
      <4> QED
        BY <4>3 DEF d
    <3>2. CASE HQ!Destroy
      BY <3>2, HeapNew, HeapIs DEF HQ!Destroy
    <3> QED
      BY <1>11, <3>1, <3>2
  <2>2. ret'[1] \in {"clear", "destroy"} /\ ret'[2] = HQ!Purged(self)
    BY <1>11 DEF HQ!Clear, HQ!Destroy
  <2>3. /\ Len(HQ!Purged(self)) = Len(q)
        /\ \A x : HQ!Q!Count(HQ!Purged(self), x) = HQ!Q!Count(q, x)
    BY <1>1, HeapPurged DEF q
  <2>4. HQ!Q!Empty
    BY <1>8, <2>1, <2>2, <2>3 DEF HQ!Q!Empty, HQ!Items
  <2> QED
    BY <2>1, <2>4, HeapIs DEF HQ!HeapOK, HQ!Q!StableNext
<1>12. CASE HQ!PeekMin
  <2>1. UNCHANGED self
    BY <1>12 DEF HQ!PeekMin
  <2>2. ret' = IF q = <<>> THEN <<"min", FALSE>> ELSE <<"min", TRUE, q[1]>>
    <3>1. CASE self.last > 0
      <4>1. q # <<>> /\ q[1] = HQ!Pair(self.heap[1])
        BY <1>3, <1>4, <1>6, <3>1
      <4>2. ret' = <<"min", TRUE, q[1]>>
        BY <1>12, <3>1, <4>1 DEF HQ!PeekMin
      <4> QED
        BY <4>1, <4>2
    <3>2. CASE ~ (self.last > 0)
      <4>1. q = <<>>
        BY <1>3, <1>4, <3>2
      <4>2. ret' = <<"min", FALSE>>
        BY <1>12, <3>2 DEF HQ!PeekMin
      <4> QED
        BY <4>1, <4>2
    <3> QED
      BY <3>1, <3>2
  <2>3. ret'[1] = "min"
    BY <2>2
  <2>4. HQ!Q!PeekMin
    BY <1>5, <1>8, <2>1, <2>2, <2>3 DEF HQ!Q!PeekMin
  <2> QED
    BY <1>5, <2>1, <2>4 DEF HQ!Q!StableNext
<1>13. CASE HQ!Size
  <2>1. HQ!Q!Size
    BY <1>4, <1>5, <1>8, <1>13 DEF HQ!Size, HQ!Q!Size
  <2> QED
    BY <1>5, <1>13, <2>1 DEF HQ!Size, HQ!Q!StableNext
<1>14. CASE HQ!ToArray
  <2>1. HQ!Q!ToArray
    BY <1>5, <1>7, <1>8, <1>14 DEF HQ!ToArray, HQ!Q!ToArray
  <2> QED
    BY <1>5, <1>14, <2>1 DEF HQ!ToArray, HQ!Q!StableNext
<1>15. CASE HQ!ItCreate
  <2>1. HQ!Q!Iterate
    BY <1>4, <1>5, <1>7, <1>8, <1>15 DEF HQ!ItCreate, HQ!Q!Iterate
  <2> QED
    BY <1>5, <1>15, <2>1 DEF HQ!ItCreate, HQ!Q!StableNext
<1> QED
  BY <1>9, <1>10, <1>11, <1>12, <1>13, <1>14, <1>15 DEF HQ!Next

-----------------------------------------------------------------------------
(* Both, as Keyed has them.                                           *)

\* New priority queues are sound.
LEMMA PrioQueuesNew == CreatePrioQueue => PrioQueuesSound
<1>1. CASE kind = "HeapPrioQueue" /\ HQ!Init
  BY <1>1, HeapNew DEF HQ!Init, HQ!HeapOK, PrioQueuesSound
<1>2. CASE kind = "LListPrioQueue" /\ PQ!Init
  BY <1>2, PrioNew DEF PQ!Init, PQ!ListOK, PrioQueuesSound
<1> QED
  BY <1>1, <1>2 DEF CreatePrioQueue

\* A call keeps them sound and is one of the abstract queue.
LEMMA PrioQueuesCalled ==
  ASSUME PrioQueuesSound, CallPrioQueue, UNCHANGED kind
  PROVE  PrioQueuesSound' /\ StepIsStable
<1>1. CASE kind = "HeapPrioQueue" /\ HQ!Next
  <2>1. HQ!HeapOK
    BY <1>1 DEF PrioQueuesSound
  <2>2. HQ!HeapOK' /\ HQ!Q!StableNext
    BY <1>1, <2>1, HeapCalls
  <2> QED
    BY <1>1, <2>2 DEF PrioQueuesSound, StepIsStable, HQ!StepIsStable
<1>2. CASE kind = "LListPrioQueue" /\ PQ!Next
  <2>1. PQ!ListOK
    BY <1>2 DEF PrioQueuesSound
  <2>2. PQ!ListOK' /\ PQ!Q!StableNext
    BY <1>2, <2>1, PrioCalls
  <2> QED
    BY <1>2, <2>2 DEF PrioQueuesSound, StepIsStable, PQ!StepIsStable
<1> QED
  BY <1>1, <1>2 DEF CallPrioQueue

\* What leaves them alone is no step of them.
LEMMA PrioQueuesLeft ==
  ASSUME PrioQueuesSound, UNCHANGED <<kind, self, ret>>
  PROVE  PrioQueuesSound' /\ StepIsStable
<1>1. HQ!Items' = HQ!Items /\ PQ!Entries(self)' = PQ!Entries(self)
  BY DEF HQ!Items
<1>2. PrioQueuesSound'
  BY DEF PrioQueuesSound, HQ!HeapOK, PQ!ListOK
<1> QED
  BY <1>1, <1>2 DEF StepIsStable, HQ!StepIsStable, PQ!StepIsStable

-----------------------------------------------------------------------------
(* Maps in a table, with the names Ns: both hash maps use these methods.   *)

MapEntry(Ns) == [key : Ns \X Copies, value : Copies]
NameIn(Ns) == [e \in MapEntry(Ns) |-> e.key[1]]

\* What is in the table.
In(md) == Within(md.buckets, md.capacity)

\* TableOK and LoadIsSizeByCapacity, of any table.
IsTable(md, Ns) ==
  /\ {"size", "capacity", "changes", "load", "buckets"} \subseteq DOMAIN md
  /\ md.capacity \in 1 .. MAX_CAPACITY /\ md.changes \in Int /\ md.load \in Int
  /\ md.buckets \in [0 .. md.capacity - 1 -> Seq(MapEntry(Ns))]
  /\ \A i \in 0 .. md.capacity - 1 :
       LET chain == md.buckets[i]
       IN \A j, k \in 1 .. Len(chain) :
            /\ chain[j].key[1] % md.capacity = i
            /\ chain[j].key[1] = chain[k].key[1] => j = k
  /\ md.size = Len(InBuckets(md.buckets, md.capacity))
  /\ md.capacity < MAX_CAPACITY => md.load * md.capacity = md.size * UNITS

\* The same, said of what is in it.
Table(md, Ns) ==
  /\ {"size", "capacity", "changes", "load", "buckets"} \subseteq DOMAIN md
  /\ md.capacity \in 1 .. MAX_CAPACITY /\ md.changes \in Int /\ md.load \in Int
  /\ Filed(md.buckets, md.capacity, MapEntry(Ns), NameIn(Ns))
  /\ Unique(In(md), NameIn(Ns))
  /\ md.size = Cardinality(In(md))
  /\ md.capacity < MAX_CAPACITY => IsLoad(md.load, md.capacity, md.size, UNITS)

\* The name of an entry is that of its key.
LEMMA NameInIs ==
  ASSUME NEW Ns \in SUBSET Nat
  PROVE  /\ NameIn(Ns) \in [MapEntry(Ns) -> Nat]
         /\ \A e \in MapEntry(Ns) : NameIn(Ns)[e] = e.key[1] /\ e.key[1] \in Ns
<1>1. \A e \in MapEntry(Ns) : e.key[1] \in Ns
  BY DEF MapEntry
<1>2. \A e \in MapEntry(Ns) : e.key[1] \in Nat
  BY <1>1
<1> QED
  BY <1>1, <1>2 DEF NameIn

\* The constants of the tables.
LEMMA TableUnits ==
  /\ MAX_CAPACITY \in Nat /\ UNITS \in Nat /\ TRIGGER \in Int /\ Names \in SUBSET Nat
  /\ DEFAULT_CAPACITY \in 1 .. MAX_CAPACITY /\ TableSizes \subseteq Int
  /\ \A n \in 1 .. MAX_CAPACITY : Splits(UNITS, n)
BY KeyedAssumption DEF HM!TableAssumption, Splits

\* A sound table, as the model and as the lemmas say it.
LEMMA TableIs ==
  ASSUME NEW Ns \in SUBSET Nat, NEW md
  PROVE  IsTable(md, Ns) <=> Table(md, Ns)
<1> DEFINE E == MapEntry(Ns)
           h == NameIn(Ns)
           b == md.buckets
           n == md.capacity
<1>1. h \in [E -> Nat] /\ \A e \in E : h[e] = e.key[1]
  BY NameInIs
<1>2. n \in 1 .. MAX_CAPACITY => n \in Nat /\ n \in Nat \ {0}
  BY TableUnits
<1>3. ASSUME n \in 1 .. MAX_CAPACITY, Filed(b, n, E, h)
      PROVE  Len(InBuckets(b, n)) = Cardinality(In(md)) /\ In(md) \subseteq E
  <2>1. Len(InBuckets(b, n)) = Cardinality(Within(b, n))
    BY <1>2, <1>3, FiledLists
  <2>2. 0 \in 0 .. n - 1
    BY <1>2, <1>3
  <2>3. Within(b, n) \subseteq E
    BY <1>1, <1>2, <1>3, <2>2, BucketOf
  <2> QED
    BY <2>1, <2>3 DEF In
<1> DEFINE PerChain ==
      \A i \in 0 .. n - 1 :
        \A j, k \in 1 .. Len(b[i]) : /\ b[i][j].key[1] % n = i
                                     /\ b[i][j].key[1] = b[i][k].key[1] => j = k
<1>4. ASSUME n \in 1 .. MAX_CAPACITY, b \in [0 .. n - 1 -> Seq(E)], PerChain
      PROVE  Filed(b, n, E, h) /\ Unique(In(md), h)
  <2>1. \A i \in 0 .. n - 1 : \A j \in 1 .. Len(b[i]) : b[i][j] \in E
    BY <1>4
  <2>2. ASSUME NEW i \in 0 .. n - 1
        PROVE  Distinct(b[i]) /\ \A x \in Elems(b[i]) : h[x] % n = i
    <3>1. Distinct(b[i])
      BY <1>4 DEF Distinct
    <3>2. ASSUME NEW j \in 1 .. Len(b[i]) PROVE h[b[i][j]] % n = i
      <4>1. b[i][j] \in E /\ b[i][j].key[1] % n = i
        BY <1>4, <2>1
      <4>2. h[b[i][j]] = b[i][j].key[1]
        BY <1>1, <4>1
      <4> QED
        BY <4>1, <4>2
    <3> QED
      BY <3>1, <3>2 DEF Elems
  <2>3. Filed(b, n, E, h)
    BY <1>4, <2>2 DEF Filed
  <2>4. ASSUME NEW x \in In(md), NEW y \in In(md), h[x] = h[y] PROVE x = y
    <3>1. PICK i \in 0 .. n - 1 : x \in Elems(b[i])
      BY DEF In, Within
    <3>2. PICK k \in 0 .. n - 1 : y \in Elems(b[k])
      BY DEF In, Within
    <3>3. i = k
      BY <2>2, <2>4, <3>1, <3>2
    <3>4. PICK j \in 1 .. Len(b[i]) : x = b[i][j]
      BY <3>1 DEF Elems
    <3>5. PICK l \in 1 .. Len(b[i]) : y = b[i][l]
      BY <3>2, <3>3 DEF Elems
    <3>6. b[i][j].key[1] = b[i][l].key[1]
      BY <1>1, <2>1, <2>4, <3>4, <3>5
    <3>7. j = l
      BY <1>4, <3>6
    <3> QED
      BY <3>4, <3>5, <3>7
  <2> QED
    BY <2>3, <2>4 DEF Unique
<1>5. ASSUME n \in 1 .. MAX_CAPACITY, Filed(b, n, E, h), Unique(In(md), h)
      PROVE  b \in [0 .. n - 1 -> Seq(E)] /\ PerChain
  <2>1. b \in [0 .. n - 1 -> Seq(E)]
    BY <1>5 DEF Filed
  <2>2. ASSUME NEW i \in 0 .. n - 1, NEW j \in 1 .. Len(b[i]), NEW k \in 1 .. Len(b[i])
        PROVE  /\ b[i][j].key[1] % n = i
               /\ b[i][j].key[1] = b[i][k].key[1] => j = k
    <3>1. b[i][j] \in E /\ b[i][k] \in E
      <4>1. b[i] \in Seq(E)
        BY <2>1
      <4> HIDE DEF b, E
      <4> QED
        BY <4>1
    <3>2. b[i][j] \in Elems(b[i]) /\ b[i][k] \in Elems(b[i])
      BY DEF Elems
    <3>3. b[i][j] \in In(md) /\ b[i][k] \in In(md)
      BY <3>2 DEF In, Within
    <3>4. h[b[i][j]] % n = i /\ (b[i][j] = b[i][k] => j = k)
      BY <1>5, <3>2 DEF Filed, Distinct
    <3>5. h[b[i][j]] = h[b[i][k]] => b[i][j] = b[i][k]
      BY <1>5, <3>3 DEF Unique
    <3> QED
      BY <1>1, <3>1, <3>4, <3>5
  <2> QED
    BY <2>1, <2>2
<1>6. ASSUME IsTable(md, Ns) PROVE Table(md, Ns)
  <2>1. /\ n \in 1 .. MAX_CAPACITY /\ b \in [0 .. n - 1 -> Seq(E)] /\ PerChain
        /\ md.size = Len(InBuckets(b, n))
    BY <1>6 DEF IsTable
  <2>2. Filed(b, n, E, h) /\ Unique(In(md), h)
    BY <1>4, <2>1
  <2>3. md.size = Cardinality(In(md))
    BY <1>3, <2>1, <2>2
  <2> HIDE DEF PerChain
  <2> QED
    BY <1>6, <2>2, <2>3 DEF IsTable, Table, IsLoad
<1>7. ASSUME Table(md, Ns) PROVE IsTable(md, Ns)
  <2>1. /\ n \in 1 .. MAX_CAPACITY /\ Filed(b, n, E, h) /\ Unique(In(md), h)
        /\ md.size = Cardinality(In(md))
    BY <1>7 DEF Table
  <2>2. b \in [0 .. n - 1 -> Seq(E)] /\ PerChain
    BY <1>5, <2>1
  <2>3. md.size = Len(InBuckets(b, n))
    BY <1>3, <2>1
  <2> QED
    BY <1>7, <2>2, <2>3 DEF IsTable, Table, IsLoad
<1> QED
  BY <1>6, <1>7

\* The linked lists of the maps are those of Linked.
LEMMA TableData ==
  /\ \A b, n : HM!InBuckets(b, n) = InBuckets(b, n)
  /\ \A all, place, n : HM!Pushed(all, place, n) = Pushed(all, place, n)
  /\ \A c, j : HM!Unlinked(c, j) = Unlinked(c, j)
BY DEF HM!InBuckets, InBuckets, HM!Pushed, Pushed, HM!Unlinked, Unlinked

\* new has the fields of md, and its strings.
Kept(new, md) == /\ DOMAIN new = DOMAIN md
                 /\ "strings" \in DOMAIN md => new.strings = md.strings

\* What a sound table is, in the form the lemmas on tables ask for.
LEMMA TableFacts ==
  ASSUME NEW Ns \in SUBSET Nat, NEW md, Table(md, Ns)
  PROVE  /\ md.capacity \in Nat \ {0} /\ md.capacity \in Nat
         /\ md.capacity \in 1 .. MAX_CAPACITY
         /\ NameIn(Ns) \in [MapEntry(Ns) -> Nat]
         /\ Filed(md.buckets, md.capacity, MapEntry(Ns), NameIn(Ns))
         /\ Unique(In(md), NameIn(Ns)) /\ In(md) \subseteq MapEntry(Ns)
         /\ IsFiniteSet(In(md)) /\ md.size = Cardinality(In(md)) /\ md.size \in Nat
         /\ HM!Entries(md) = InBuckets(md.buckets, md.capacity)
         /\ HM!Entries(md) \in Seq(MapEntry(Ns)) /\ Distinct(HM!Entries(md))
         /\ Elems(HM!Entries(md)) = In(md) /\ Len(HM!Entries(md)) = md.size
<1> DEFINE n == md.capacity
           b == md.buckets
<1>1. /\ n \in 1 .. MAX_CAPACITY /\ Filed(b, n, MapEntry(Ns), NameIn(Ns))
      /\ Unique(In(md), NameIn(Ns)) /\ md.size = Cardinality(In(md))
  BY DEF Table
<1>2. n \in Nat \ {0} /\ n \in Nat /\ 0 \in 0 .. n - 1
  BY <1>1, TableUnits
<1>3. NameIn(Ns) \in [MapEntry(Ns) -> Nat]
  BY NameInIs
<1>4. HM!Entries(md) = InBuckets(b, n)
  BY TableData DEF HM!Entries
<1>5. In(md) = Within(b, n)
  BY DEF In
<1> HIDE DEF n, b
<1>6. Within(b, n) \subseteq MapEntry(Ns)
  BY <1>1, <1>2, <1>3, BucketOf
<1>7. /\ InBuckets(b, n) \in Seq(MapEntry(Ns)) /\ Distinct(InBuckets(b, n))
      /\ Elems(InBuckets(b, n)) = Within(b, n)
      /\ IsFiniteSet(Within(b, n)) /\ Len(InBuckets(b, n)) = Cardinality(Within(b, n))
  BY <1>1, <1>2, FiledLists
<1>8. md.size \in Nat
  BY <1>1, <1>5, <1>7, FS_CardinalityType
<1> QED
  BY <1>1, <1>2, <1>3, <1>4, <1>5, <1>6, <1>7, <1>8 DEF n, b

\* A larger table has the same entries.
LEMMA TableResized ==
  ASSUME NEW Ns \in SUBSET Nat, NEW md, Table(md, Ns)
  PROVE  LET new == HM!Resize(md) IN
         Table(new, Ns) /\ In(new) = In(md) /\ Kept(new, md)
<1> DEFINE n == md.capacity
           N == IF 2 * n > MAX_CAPACITY THEN MAX_CAPACITY ELSE 2 * n
           all == HM!Entries(md)
           E == MapEntry(Ns)
           h == NameIn(Ns)
           place == [k \in DOMAIN all |-> HM!Hash(HM!Name(all[k]), N)]
           b == Pushed(all, place, N)
           new == HM!Resize(md)
<1>1. /\ n \in Nat \ {0} /\ n \in 1 .. MAX_CAPACITY /\ h \in [E -> Nat]
      /\ Unique(In(md), h) /\ md.size = Cardinality(In(md)) /\ md.size \in Nat
      /\ all \in Seq(E) /\ Distinct(all) /\ Elems(all) = In(md)
  BY TableFacts
<1>2. new = IF N = n THEN md
            ELSE [md EXCEPT !.buckets = b, !.capacity = N, !.load = @ \div 2, !.changes = 0]
  BY TableData DEF HM!Resize
<1> HIDE DEF new
<1>3. CASE N = n
  <2>1. new = md
    BY <1>2, <1>3
  <2> QED
    BY <2>1 DEF Kept, new
<1>4. CASE N # n
  <2>1. MAX_CAPACITY \in Nat
    BY TableUnits
  <2>2. N \in 1 .. MAX_CAPACITY /\ N \in Nat \ {0} /\ N \in Nat
    BY <1>1, <2>1
  <2>3. \A k \in 1 .. Len(all) : place[k] = h[all[k]] % N
    <3>1. ASSUME NEW k \in 1 .. Len(all) PROVE place[k] = h[all[k]] % N
      <4>1. k \in DOMAIN all /\ all[k] \in E
        <5> HIDE DEF all, E
        <5> QED
          BY <1>1
      <4>2. h[all[k]] = all[k].key[1]
        BY <4>1, NameInIs
      <4> HIDE DEF all, N, h
      <4> QED
        BY <4>1, <4>2 DEF HM!Hash, HM!Name
    <3> QED
      BY <3>1
  <2> HIDE DEF place, all, N, E, h
  <2>4. Filed(b, N, E, h) /\ Within(b, N) = Elems(all)
    <3>1. /\ h \in [E -> Nat] /\ N \in Nat \ {0} /\ all \in Seq(E) /\ Distinct(all)
          /\ b = Pushed(all, place, N)
      BY <1>1, <2>2
    <3> HIDE DEF b
    <3> QED
      BY ONLY <2>3, <3>1, FiledPushed
  <2> HIDE DEF b
  <2>5. {"size", "capacity", "changes", "load", "buckets"} \subseteq DOMAIN md
    BY DEF Table
  <2>6. /\ DOMAIN new = DOMAIN md /\ new.buckets = b /\ new.capacity = N
        /\ new.load = md.load \div 2 /\ new.changes = 0 /\ new.size = md.size
    BY <1>2, <1>4, <2>5
  <2>7. Kept(new, md)
    BY <1>2, <1>4, <2>5, <2>6 DEF Kept
  <2>8. In(new) = In(md)
    BY <1>1, <2>4, <2>6 DEF In
  <2>9. md.load \in Int /\ (md.load \div 2) \in Int /\ UNITS \in Nat /\ md.size \in Int
    <3>1. md.load \in Int
      BY DEF Table
    <3> QED
      BY <1>1, <3>1, TableUnits
  <2>10. N < MAX_CAPACITY => IsLoad(md.load \div 2, N, md.size, UNITS)
    <3>1. SUFFICES ASSUME N < MAX_CAPACITY PROVE IsLoad(md.load \div 2, N, md.size, UNITS)
      OBVIOUS
    <3>2. N = 2 * n /\ n < MAX_CAPACITY
      BY <1>1, <2>1, <3>1 DEF N
    <3>3. IsLoad(md.load, n, md.size, UNITS)
      BY <3>2 DEF Table
    <3>4. Splits(UNITS, n)
      BY <1>1, TableUnits
    <3>6. UNITS \in Nat /\ n \in Nat \ {0} /\ md.load \in Int /\ md.size \in Int
      BY <1>1, <2>9
    <3> HIDE DEF n
    <3>5. IsLoad(md.load \div 2, 2 * n, md.size, UNITS)
      BY ONLY <3>6, <3>3, <3>4, LoadHalved
    <3> QED
      BY <3>2, <3>5
  <2>11. Filed(new.buckets, new.capacity, MapEntry(Ns), NameIn(Ns))
    BY <2>4, <2>6 DEF E, h
  <2>12. Unique(In(new), NameIn(Ns)) /\ new.size = Cardinality(In(new))
    BY <1>1, <2>6, <2>8 DEF h
  <2>13. {"size", "capacity", "changes", "load", "buckets"} \subseteq DOMAIN new
    BY <2>5, <2>6
  <2>14. /\ new.capacity \in 1 .. MAX_CAPACITY /\ new.changes \in Int /\ new.load \in Int
         /\ new.capacity < MAX_CAPACITY => IsLoad(new.load, new.capacity, new.size, UNITS)
    BY <2>2, <2>6, <2>9, <2>10
  <2>15. Table(new, Ns)
    BY <2>11, <2>12, <2>13, <2>14 DEF Table
  <2> QED
    BY <2>7, <2>8, <2>15 DEF new
<1> QED
  BY <1>3, <1>4 DEF new

\* So has any that put and putUnique start with.
LEMMA TableChecked ==
  ASSUME NEW Ns \in SUBSET Nat, NEW md, Table(md, Ns), NEW new \in HM!Checked(md)
  PROVE  Table(new, Ns) /\ In(new) = In(md) /\ Kept(new, md)
<1> DEFINE looked == [md EXCEPT !.changes = 0]
<1>1. new = md \/ new = looked \/ new = HM!Resize(looked)
  BY DEF HM!Checked
<1>2. {"size", "capacity", "changes", "load", "buckets"} \subseteq DOMAIN md
  BY DEF Table
<1>3. /\ DOMAIN looked = DOMAIN md /\ looked.buckets = md.buckets /\ looked.capacity = md.capacity
      /\ looked.load = md.load /\ looked.changes = 0 /\ looked.size = md.size
  BY <1>2
<1>4. Kept(looked, md)
  BY <1>2, <1>3 DEF Kept
<1> HIDE DEF looked
<1>5. In(looked) = In(md)
  BY <1>3 DEF In
<1>6. Table(looked, Ns)
  BY <1>3, <1>5 DEF Table
<1>7. /\ Table(HM!Resize(looked), Ns) /\ In(HM!Resize(looked)) = In(looked)
      /\ Kept(HM!Resize(looked), looked)
  BY <1>6, TableResized
<1>8. Kept(HM!Resize(looked), md)
  BY <1>4, <1>7 DEF Kept
<1>9. Kept(md, md)
  BY DEF Kept
<1> QED
  BY <1>1, <1>4, <1>5, <1>6, <1>7, <1>8, <1>9

\* j is the first place of a list at which P is true, or 0.
IsFirst(j, found) ==
  \/ j = 0 /\ found = {}
  \/ j \in found /\ \A k \in found : j <= k

\* The first of the places found, or 0.
LEMMA FirstIs ==
  ASSUME NEW found \in SUBSET Nat
  PROVE  IsFirst(IF found = {} THEN 0
                 ELSE CHOOSE j \in found : \A k \in found : j <= k, found)
BY NatLeast DEF IsFirst

Named(e, n) == e.key[1] = n
NoneNamed(C, n) == \A x \in C : x.key[1] # n
Others(C, n) == {x \in C : x.key[1] # n}

\* In a table the entry of the name n is the j-th of bucket i, or there is none.
Finds(md, n, i, j) ==
  /\ i \in 0 .. md.capacity - 1
  /\ \/ j = 0 /\ NoneNamed(In(md), n)
     \/ /\ j \in 1 .. Len(md.buckets[i]) /\ md.buckets[i][j] \in In(md)
        /\ Named(md.buckets[i][j], n)

\* findKey finds it.
LEMMA TableFind ==
  ASSUME NEW Ns \in SUBSET Nat, NEW md, Table(md, Ns), NEW n \in Nat
  PROVE  Finds(md, n, HM!Hash(n, md.capacity), HM!FindKey(md, n))
<1> DEFINE i == HM!Hash(n, md.capacity)
           j == HM!FindKey(md, n)
           N == md.capacity
           b == md.buckets
           c == b[i]
           E == MapEntry(Ns)
           h == NameIn(Ns)
           found == {k \in DOMAIN c : c[k].key[1] = n}
<1>1. /\ N \in Nat \ {0} /\ h \in [E -> Nat] /\ Filed(b, N, E, h)
      /\ In(md) = Within(b, N) /\ In(md) \subseteq E
  BY TableFacts DEF In
<1>2. i \in 0 .. N - 1 /\ i = n % N
  <2>1. i = n % N
    BY DEF HM!Hash
  <2> HIDE DEF N
  <2> QED
    BY <1>1, <2>1
<1>3. c \in Seq(E) /\ Elems(c) = {x \in Within(b, N) : h[x] % N = i}
  <2> HIDE DEF N, b, E, h
  <2> QED
    BY <1>1, <1>2, BucketOf DEF c
<1>4. IsFirst(j, found)
  <2>1. j = IF found = {} THEN 0 ELSE CHOOSE k \in found : \A l \in found : k <= l
    BY DEF HM!FindKey, HM!Name
  <2>2. found \in SUBSET Nat
    <3> HIDE DEF E, c
    <3>1. DOMAIN c \in SUBSET Nat
      BY <1>3
    <3> QED
      BY <3>1
  <2> HIDE DEF found
  <2> QED
    BY <2>1, <2>2, FirstIs
<1>5. DOMAIN c = 1 .. Len(c)
  <2> HIDE DEF c, E
  <2> QED
    BY <1>3
<1>6. ASSUME j \in found
      PROVE  j \in 1 .. Len(c) /\ c[j] \in In(md) /\ c[j].key[1] = n
  <2>1. j \in 1 .. Len(c) /\ c[j].key[1] = n
    BY <1>5, <1>6
  <2>2. c[j] \in Elems(c)
    BY <2>1 DEF Elems
  <2> QED
    BY <1>1, <1>3, <2>1, <2>2
<1>7. ASSUME found = {}, NEW x \in In(md), x.key[1] = n PROVE FALSE
  <2>1. x \in E /\ h[x] = n
    BY <1>1, <1>7, NameInIs
  <2>2. x \in Elems(c)
    BY <1>1, <1>2, <1>3, <2>1
  <2>3. PICK k \in 1 .. Len(c) : x = c[k]
    BY <2>2 DEF Elems
  <2>4. k \in found
    BY <1>5, <1>7, <2>3
  <2> QED
    BY <1>7, <2>4
<1> QED
  <2> HIDE DEF found
  <2>1. j \in found \/ (j = 0 /\ found = {})
    BY <1>4 DEF IsFirst
  <2> QED
    BY <1>2, <1>6, <1>7, <2>1 DEF Finds, Named, NoneNamed

\* The size of a set that changes by one element.
LEMMA OneMoreOrLess ==
  ASSUME NEW S, IsFiniteSet(S)
  PROVE  /\ \A e : e \notin S => Cardinality(S \cup {e}) = Cardinality(S) + 1
         /\ \A x \in S : /\ Cardinality(S \ {x}) = Cardinality(S) - 1
                         /\ \A e : e \notin S \ {x} =>
                              Cardinality((S \ {x}) \cup {e}) = Cardinality(S)
<1>1. ASSUME NEW e, e \notin S PROVE Cardinality(S \cup {e}) = Cardinality(S) + 1
  BY <1>1, FS_AddElement
<1>2. ASSUME NEW x \in S
      PROVE  IsFiniteSet(S \ {x}) /\ Cardinality(S \ {x}) = Cardinality(S) - 1
  BY FS_RemoveElement
<1>3. ASSUME NEW x \in S, NEW e, e \notin S \ {x}
      PROVE  Cardinality((S \ {x}) \cup {e}) = Cardinality(S)
  <2> DEFINE T == S \ {x}
  <2>1. IsFiniteSet(T) /\ Cardinality(T) = Cardinality(S) - 1 /\ e \notin T
    BY <1>2, <1>3
  <2>2. Cardinality(S) \in Nat
    BY FS_CardinalityType
  <2> HIDE DEF T
  <2>3. Cardinality(T \cup {e}) = Cardinality(T) + 1
    BY <2>1, FS_AddElement
  <2>4. Cardinality(T \cup {e}) = Cardinality(S)
    BY <2>1, <2>2, <2>3
  <2> QED
    BY <2>4 DEF T
<1> QED
  BY <1>1, <1>2, <1>3

\* A new entry.
LEMMA TableInsert ==
  ASSUME NEW Ns \in SUBSET Nat, NEW md, Table(md, Ns),
         NEW e \in MapEntry(Ns), NEW m, Named(e, m), NoneNamed(In(md), m)
  PROVE  LET new == HM!InsertEntry(md, e) IN
         Table(new, Ns) /\ In(new) = In(md) \cup {e} /\ Kept(new, md)
<1> DEFINE n == md.capacity
           b == md.buckets
           E == MapEntry(Ns)
           h == NameIn(Ns)
           i == HM!Hash(HM!Name(e), n)
           d == [b EXCEPT ![i] = <<e>> \o @]
           new == HM!InsertEntry(md, e)
<1>1. /\ n \in Nat \ {0} /\ h \in [E -> Nat] /\ Filed(b, n, E, h)
      /\ In(md) = Within(b, n) /\ In(md) \subseteq E
      /\ Unique(In(md), h) /\ IsFiniteSet(In(md)) /\ md.size = Cardinality(In(md))
      /\ md.size \in Nat /\ n \in 1 .. MAX_CAPACITY
  BY TableFacts DEF In
<1>2. {"size", "capacity", "changes", "load", "buckets"} \subseteq DOMAIN md
  BY DEF Table
<1>3. h[e] = e.key[1] /\ \A x \in In(md) : h[x] = x.key[1] /\ h[x] # h[e]
  BY <1>1, NameInIs DEF Named, NoneNamed
<1>4. e \notin In(md)
  BY <1>3
<1>5. Hashes(h, e, n, i)
  <2>1. i = e.key[1] % n
    BY DEF HM!Hash, HM!Name
  <2> HIDE DEF h, n
  <2> QED
    BY <1>3, <2>1 DEF Hashes
<1>6. i \in DOMAIN b
  <2>1. b \in [0 .. n - 1 -> Seq(E)] /\ i = h[e] % n /\ h[e] \in Nat
    BY <1>1, <1>5 DEF Filed, Hashes
  <2> HIDE DEF b, n, h, E
  <2> QED
    BY <1>1, <2>1
<1>7. Replaces(d, b, i, <<e>> \o b[i])
  <2> HIDE DEF i, b
  <2> QED
    BY <1>6 DEF Replaces
<1>8. Filed(d, n, E, h) /\ Within(d, n) = Within(b, n) \cup {e}
  <2>1. e \in E /\ e \notin Within(b, n)
    BY <1>1, <1>4
  <2>2. h \in [E -> Nat] /\ n \in Nat \ {0} /\ Filed(b, n, E, h)
    BY <1>1
  <2> HIDE DEF d, b, n, E, h, i
  <2> QED
    BY ONLY <1>5, <1>7, <2>1, <2>2, FiledPush
<1>9. /\ DOMAIN new = DOMAIN md /\ new.capacity = n /\ new.buckets = d
      /\ new.size = md.size + 1 /\ new.load = md.load + (UNITS \div n)
      /\ new.changes = md.changes + 1
      /\ "strings" \in DOMAIN md => new.strings = md.strings
  BY <1>2 DEF HM!InsertEntry, HM!Increment
<1> HIDE DEF new, d, i
<1>10. In(new) = In(md) \cup {e}
  BY <1>1, <1>8, <1>9 DEF In
<1>11. Unique(In(new), h)
  BY <1>1, <1>3, <1>10 DEF Unique
<1>12. new.size = Cardinality(In(new))
  BY <1>1, <1>4, <1>9, <1>10, OneMoreOrLess
<1>13. md.load \in Int /\ UNITS \in Nat /\ md.changes \in Int /\ (UNITS \div n) \in Int
  <2>1. md.load \in Int /\ UNITS \in Nat /\ md.changes \in Int
    BY TableUnits DEF Table
  <2> HIDE DEF n
  <2> QED
    BY <1>1, <2>1
<1>14. new.load \in Int /\ new.changes \in Int
  BY <1>9, <1>13
<1>15. n < MAX_CAPACITY => IsLoad(new.load, n, new.size, UNITS)
  <2>1. n < MAX_CAPACITY => IsLoad(md.load, n, md.size, UNITS)
    BY DEF Table
  <2>2. Splits(UNITS, n)
    BY <1>1, TableUnits
  <2>3. n \in Nat \ {0} /\ md.size \in Int
    BY <1>1
  <2>4. ASSUME n < MAX_CAPACITY PROVE IsLoad(md.load + (UNITS \div n), n, md.size + 1, UNITS)
    <3>1. IsLoad(md.load, n, md.size, UNITS)
      BY <2>1, <2>4
    <3> HIDE DEF n
    <3> QED
      BY ONLY <3>1, <1>13, <2>2, <2>3, LoadMore
  <2> QED
    BY <1>9, <2>4
<1>16. Table(new, Ns)
  BY <1>1, <1>2, <1>8, <1>9, <1>11, <1>12, <1>14, <1>15 DEF Table
<1> QED
  BY <1>9, <1>10, <1>16 DEF Kept, new

SetTo(C, D, x, e) == D = (C \ {x}) \cup {e}
EntrySet(new, md, i, j, e) == new = [md EXCEPT !.buckets[i][j] = e]

\* An entry in the place of one of that name.
LEMMA TableReplace ==
  ASSUME NEW Ns \in SUBSET Nat, NEW md, Table(md, Ns),
         NEW i \in 0 .. md.capacity - 1, NEW j \in 1 .. Len(md.buckets[i]),
         NEW e \in MapEntry(Ns), NEW m, Named(e, m), Named(md.buckets[i][j], m), NEW new,
         EntrySet(new, md, i, j, e)
  PROVE  /\ Table(new, Ns) /\ Kept(new, md)
         /\ md.buckets[i][j] \in In(md)
         /\ SetTo(In(md), In(new), md.buckets[i][j], e)
<1> DEFINE n == md.capacity
           b == md.buckets
           E == MapEntry(Ns)
           h == NameIn(Ns)
           x == b[i][j]
           d == [b EXCEPT ![i] = [b[i] EXCEPT ![j] = e]]
<1>1. /\ n \in Nat \ {0} /\ h \in [E -> Nat] /\ Filed(b, n, E, h)
      /\ In(md) = Within(b, n) /\ In(md) \subseteq E
      /\ Unique(In(md), h) /\ IsFiniteSet(In(md)) /\ md.size = Cardinality(In(md))
      /\ md.size \in Nat /\ n \in 1 .. MAX_CAPACITY
  BY TableFacts DEF In
<1>2. {"size", "capacity", "changes", "load", "buckets"} \subseteq DOMAIN md
  BY DEF Table
<1>3. x \in In(md)
  BY <1>1 DEF Within, Elems
<1>4. h[e] = h[x] /\ h[e] = e.key[1]
  BY <1>1, <1>3, NameInIs DEF Named
<1>5. e \notin Within(b, n) \ {x}
  BY <1>1, <1>3, <1>4 DEF Unique
<1>6. b \in [0 .. n - 1 -> Seq(E)]
  BY <1>1 DEF Filed
<1>7. ReplacesAt(d, b, i, j, e)
  BY DEF ReplacesAt
<1>8. Filed(d, n, E, h) /\ Within(d, n) = (Within(b, n) \ {x}) \cup {e}
  <2>1. /\ h \in [E -> Nat] /\ n \in Nat \ {0} /\ Filed(b, n, E, h)
        /\ i \in 0 .. n - 1 /\ j \in 1 .. Len(b[i]) /\ e \in E
    BY <1>1
  <2>2. Suits(e, h, b, n, i, j)
    BY <1>4, <1>5 DEF Suits
  <2> HIDE DEF d, b, n, E, h, x
  <2>3. Filed(d, n, E, h) /\ Within(d, n) = (Within(b, n) \ {b[i][j]}) \cup {e}
    BY ONLY <1>7, <2>1, <2>2, FiledReplace
  <2> QED
    BY <2>3 DEF x
<1>9. /\ DOMAIN new = DOMAIN md /\ new.capacity = n /\ new.buckets = d
      /\ new.size = md.size /\ new.load = md.load /\ new.changes = md.changes
      /\ "strings" \in DOMAIN md => new.strings = md.strings
  BY <1>2, <1>6 DEF EntrySet
<1> HIDE DEF d
<1>10. In(new) = (In(md) \ {x}) \cup {e}
  BY <1>1, <1>8, <1>9 DEF In
<1>11. Unique(In(new), h)
  BY <1>1, <1>3, <1>4, <1>10 DEF Unique
<1>12. new.size = Cardinality(In(new))
  <2> DEFINE S == In(md)
  <2>1. /\ IsFiniteSet(S) /\ x \in S /\ e \notin S \ {x}
        /\ new.size = Cardinality(S) /\ In(new) = (S \ {x}) \cup {e}
    BY <1>1, <1>3, <1>5, <1>9, <1>10
  <2> HIDE DEF x, S
  <2>2. Cardinality((S \ {x}) \cup {e}) = Cardinality(S)
    BY ONLY <2>1, OneMoreOrLess
  <2> QED
    BY ONLY <2>1, <2>2
<1>13. Table(new, Ns)
  BY <1>2, <1>8, <1>9, <1>11, <1>12 DEF Table
<1> QED
  BY <1>3, <1>9, <1>10, <1>13 DEF Kept, SetTo

\* new is md without the j-th entry of bucket i, but for who owns the strings.
Unlinks(new, md, i, j) ==
  /\ {"size", "capacity", "changes", "load", "buckets"} \subseteq DOMAIN new
  /\ new.capacity = md.capacity /\ new.changes = md.changes + 1
  /\ new.size = md.size - 1 /\ new.load = md.load - HM!Increment(md)
  /\ Replaces(new.buckets, md.buckets, i, Unlinked(md.buckets[i], j))

\* Without one of its entries.
LEMMA TableUnlink ==
  ASSUME NEW Ns \in SUBSET Nat, NEW md, Table(md, Ns),
         NEW i \in 0 .. md.capacity - 1, NEW j \in 1 .. Len(md.buckets[i]), NEW new,
         Unlinks(new, md, i, j)
  PROVE  /\ Table(new, Ns) /\ md.buckets[i][j] \in In(md)
         /\ In(new) = In(md) \ {md.buckets[i][j]}
<1> DEFINE n == md.capacity
           b == md.buckets
           E == MapEntry(Ns)
           h == NameIn(Ns)
           d == new.buckets
<1>0. /\ {"size", "capacity", "changes", "load", "buckets"} \subseteq DOMAIN new
      /\ new.capacity = md.capacity /\ new.changes = md.changes + 1
      /\ new.size = md.size - 1 /\ new.load = md.load - HM!Increment(md)
      /\ Replaces(new.buckets, md.buckets, i, Unlinked(md.buckets[i], j))
  BY DEF Unlinks
<1>1. /\ n \in Nat \ {0} /\ h \in [E -> Nat] /\ Filed(b, n, E, h)
      /\ In(md) = Within(b, n) /\ In(md) \subseteq E
      /\ Unique(In(md), h) /\ IsFiniteSet(In(md)) /\ md.size = Cardinality(In(md))
      /\ md.size \in Nat /\ n \in 1 .. MAX_CAPACITY
  BY TableFacts DEF In
<1>2. /\ Filed(d, n, E, h) /\ Within(d, n) = Within(b, n) \ {b[i][j]}
      /\ b[i][j] \in Within(b, n)
  <2>1. /\ h \in [E -> Nat] /\ n \in Nat \ {0} /\ Filed(b, n, E, h)
        /\ i \in 0 .. n - 1 /\ j \in 1 .. Len(b[i])
        /\ Replaces(d, b, i, Unlinked(b[i], j))
    BY <1>0, <1>1
  <2> HIDE DEF d, b, n, E, h
  <2> QED
    BY ONLY <2>1, FiledUnlink
<1>3. In(new) = In(md) \ {b[i][j]} /\ b[i][j] \in In(md)
  BY <1>0, <1>1, <1>2 DEF In
<1>4. Unique(In(new), h)
  BY <1>1, <1>3 DEF Unique
<1>5. new.size = Cardinality(In(new))
  BY <1>0, <1>1, <1>3, OneMoreOrLess
<1>6. md.load \in Int /\ UNITS \in Nat /\ md.changes \in Int /\ (UNITS \div n) \in Int
  <2>1. md.load \in Int /\ UNITS \in Nat /\ md.changes \in Int
    BY TableUnits DEF Table
  <2> HIDE DEF n
  <2> QED
    BY <1>1, <2>1
<1>7. new.load = md.load - (UNITS \div n)
  BY <1>0 DEF HM!Increment
<1>8. new.load \in Int /\ new.changes \in Int
  BY <1>0, <1>6, <1>7
<1>9. n < MAX_CAPACITY => IsLoad(new.load, n, new.size, UNITS)
  <2>1. n < MAX_CAPACITY => IsLoad(md.load, n, md.size, UNITS)
    BY DEF Table
  <2>2. Splits(UNITS, n)
    BY <1>1, TableUnits
  <2>3. n \in Nat \ {0} /\ md.size \in Int
    BY <1>1
  <2>4. ASSUME n < MAX_CAPACITY PROVE IsLoad(md.load - (UNITS \div n), n, md.size - 1, UNITS)
    <3>1. IsLoad(md.load, n, md.size, UNITS)
      BY <2>1, <2>4
    <3> HIDE DEF n
    <3> QED
      BY ONLY <3>1, <1>6, <2>2, <2>3, LoadMore
  <2> QED
    BY <1>0, <1>7, <2>4
<1>10. Table(new, Ns)
  BY <1>0, <1>1, <1>2, <1>4, <1>5, <1>8, <1>9 DEF Table
<1> QED
  BY <1>3, <1>10

\* A table without entries.
LEMMA TableEmpty ==
  ASSUME NEW Ns \in SUBSET Nat, NEW md,
         {"size", "capacity", "changes", "load", "buckets"} \subseteq DOMAIN md,
         md.capacity \in 1 .. MAX_CAPACITY, md.size = 0, md.changes = 0, md.load = 0,
         md.buckets = [i \in 0 .. md.capacity - 1 |-> <<>>]
  PROVE  Table(md, Ns) /\ In(md) = {}
<1> DEFINE n == md.capacity
           b == [i \in 0 .. n - 1 |-> <<>>]
<1>1. n \in Nat /\ UNITS \in Nat
  BY TableUnits
<1>2. Filed(b, n, MapEntry(Ns), NameIn(Ns)) /\ Within(b, n) = {}
  <2> HIDE DEF n
  <2> QED
    BY <1>1, FiledNone
<1>3. In(md) = {} /\ Filed(md.buckets, n, MapEntry(Ns), NameIn(Ns))
  BY <1>2 DEF In
<1>4. Unique(In(md), NameIn(Ns)) /\ md.size = Cardinality(In(md))
  BY <1>3, FS_EmptySet DEF Unique
<1>5. IsLoad(md.load, n, md.size, UNITS)
  <2> HIDE DEF n
  <2> QED
    BY <1>1 DEF IsLoad
<1> QED
  BY <1>3, <1>4, <1>5 DEF Table

\* The capacity of a new map is one a table can have.
LEMMA TableNew ==
  ASSUME NEW Ns \in SUBSET Nat, NEW capacity \in Int
  PROVE  LET new == HM!NewMap(capacity) IN
         /\ {"size", "capacity", "changes", "load", "buckets"} \subseteq DOMAIN new
         /\ new.capacity \in 1 .. MAX_CAPACITY /\ new.size = 0 /\ new.changes = 0
         /\ new.load = 0 /\ new.buckets = [i \in 0 .. new.capacity - 1 |-> <<>>]
         /\ Table(new, Ns) /\ In(new) = {}
<1> DEFINE cap == IF capacity > 0 THEN capacity ELSE DEFAULT_CAPACITY
           N == IF cap > MAX_CAPACITY THEN MAX_CAPACITY ELSE cap
           new == HM!NewMap(capacity)
<1>1. N \in 1 .. MAX_CAPACITY
  <2>1. cap \in Nat \ {0}
    BY TableUnits
  <2>2. MAX_CAPACITY \in Nat \ {0}
    BY TableUnits
  <2> HIDE DEF cap
  <2> QED
    BY <2>1, <2>2
<1>2. new = [size |-> 0, capacity |-> N, changes |-> 0, load |-> 0,
             buckets |-> [i \in 0 .. N - 1 |-> <<>>]]
  BY DEF HM!NewMap
<1> HIDE DEF new, N
<1>3. /\ {"size", "capacity", "changes", "load", "buckets"} \subseteq DOMAIN new
      /\ new.capacity \in 1 .. MAX_CAPACITY /\ new.size = 0 /\ new.changes = 0
      /\ new.load = 0 /\ new.buckets = [i \in 0 .. new.capacity - 1 |-> <<>>]
  BY <1>1, <1>2
<1>4. Table(new, Ns) /\ In(new) = {}
  BY <1>3, TableEmpty
<1> QED
  BY <1>3, <1>4 DEF new

-----------------------------------------------------------------------------
(* What a map shows of the list of its entries, of which there is one per  *)
(* name: the entries by name, as they are or without the number of the key. *)

Mapping(all, Ns) == /\ all \in Seq(MapEntry(Ns)) /\ Distinct(all)
                  /\ Unique(Elems(all), NameIn(Ns))

Whole(Ns) == [e \in MapEntry(Ns) |-> e]
Shown(Ns) == [e \in MapEntry(Ns) |-> [key |-> e.key[1], value |-> e.value]]

ItemsOf(all) ==
  [n \in {all[i].key[1] : i \in DOMAIN all} |->
     all[CHOOSE i \in DOMAIN all : all[i].key[1] = n]]
ShownOf(all) == [i \in DOMAIN all |-> [key |-> all[i].key[1], value |-> all[i].value]]
ShownItems(all) ==
  [n \in {ShownOf(all)[i].key : i \in DOMAIN ShownOf(all)} |->
     ShownOf(all)[CHOOSE i \in DOMAIN ShownOf(all) : ShownOf(all)[i].key = n]]

\* What all of an entry's functions are at an entry of the list.
LEMMA MapAt ==
  ASSUME NEW Ns \in SUBSET Nat, NEW all, Mapping(all, Ns)
  PROVE  /\ DOMAIN all = 1 .. Len(all) /\ Len(all) \in Nat
         /\ Elems(all) \subseteq MapEntry(Ns)
         /\ \A i \in 1 .. Len(all) : all[i] \in MapEntry(Ns) /\ all[i] \in Elems(all)
         /\ \A e \in MapEntry(Ns) :
              /\ NameIn(Ns)[e] = e.key[1] /\ e.key[1] \in Ns
              /\ Whole(Ns)[e] = e
              /\ Shown(Ns)[e] = [key |-> e.key[1], value |-> e.value]
         /\ IsFiniteSet(Elems(all)) /\ Cardinality(Elems(all)) = Len(all)
<1> DEFINE E == MapEntry(Ns)
<1>1. all \in Seq(E) /\ Distinct(all)
  BY DEF Mapping
<1>2. \A e \in E : /\ NameIn(Ns)[e] = e.key[1] /\ e.key[1] \in Ns
                   /\ Whole(Ns)[e] = e
                   /\ Shown(Ns)[e] = [key |-> e.key[1], value |-> e.value]
  BY NameInIs DEF Whole, Shown
<1> HIDE DEF E
<1>3. /\ DOMAIN all = 1 .. Len(all) /\ Len(all) \in Nat
      /\ \A i \in 1 .. Len(all) : all[i] \in E
  BY <1>1
<1>4. IsFiniteSet(Elems(all)) /\ Cardinality(Elems(all)) = Len(all)
  BY <1>1, DistinctCount
<1>5. Elems(all) \subseteq E /\ \A i \in 1 .. Len(all) : all[i] \in Elems(all)
  BY <1>3 DEF Elems
<1> QED
  BY <1>2, <1>3, <1>4, <1>5 DEF E

\* The map that a sequence of entries with different names stands for.
LEMMA MapDict ==
  ASSUME NEW Ns \in SUBSET Nat, NEW all, Mapping(all, Ns)
  PROVE  /\ IsDict(ItemsOf(all), Elems(all), NameIn(Ns), Whole(Ns))
         /\ IsDict(ShownItems(all), Elems(all), NameIn(Ns), Shown(Ns))
<1> DEFINE n == Len(all)
           h == NameIn(Ns)
           At(m) == CHOOSE i \in DOMAIN all : all[i].key[1] = m
           shown == ShownOf(all)
           Sat(m) == CHOOSE i \in DOMAIN shown : shown[i].key = m
           items == ItemsOf(all)
           sitems == ShownItems(all)
<1>1. /\ DOMAIN all = 1 .. n
      /\ \A i \in 1 .. n : /\ h[all[i]] = all[i].key[1] /\ Whole(Ns)[all[i]] = all[i]
                           /\ Shown(Ns)[all[i]] = [key |-> all[i].key[1], value |-> all[i].value]
  BY MapAt
<1>2. \A i, j \in 1 .. n : all[i].key[1] = all[j].key[1] => all[i] = all[j]
  <2>1. \A i \in 1 .. n : all[i] \in Elems(all) /\ h[all[i]] = all[i].key[1]
    <3>1. \A i \in 1 .. n : all[i] \in Elems(all)
      BY MapAt
    <3> QED
      BY <1>1, <3>1
  <2>2. Unique(Elems(all), h)
    BY DEF Mapping
  <2> HIDE DEF h
  <2> QED
    BY <2>1, <2>2 DEF Unique
<1>3. DOMAIN shown = 1 .. n /\ \A i \in 1 .. n : shown[i] = Shown(Ns)[all[i]]
                                                /\ shown[i].key = all[i].key[1]
  BY <1>1 DEF ShownOf
<1>4. \A i \in 1 .. n : /\ At(all[i].key[1]) \in 1 .. n
                        /\ all[At(all[i].key[1])].key[1] = all[i].key[1]
  BY <1>1
<1>5. \A i \in 1 .. n : /\ Sat(all[i].key[1]) \in 1 .. n
                        /\ all[Sat(all[i].key[1])].key[1] = all[i].key[1]
  BY <1>3
<1>6. /\ DOMAIN items = {all[i].key[1] : i \in 1 .. n}
      /\ items = [m \in DOMAIN items |-> items[m]]
      /\ \A i \in 1 .. n : items[all[i].key[1]] = all[At(all[i].key[1])]
  BY <1>1 DEF ItemsOf
<1>7. /\ DOMAIN sitems = {all[i].key[1] : i \in 1 .. n}
      /\ sitems = [m \in DOMAIN sitems |-> sitems[m]]
      /\ \A i \in 1 .. n : sitems[all[i].key[1]] = shown[Sat(all[i].key[1])]
  <2>1. /\ DOMAIN sitems = {shown[i].key : i \in 1 .. n}
        /\ sitems = [m \in DOMAIN sitems |-> sitems[m]]
        /\ \A m \in DOMAIN sitems : sitems[m] = shown[Sat(m)]
    BY <1>3 DEF ShownItems
  <2> HIDE DEF sitems, shown, Sat
  <2>2. {shown[i].key : i \in 1 .. n} = {all[i].key[1] : i \in 1 .. n}
    BY <1>3
  <2> QED
    BY <2>1, <2>2
<1> HIDE DEF At, Sat, items, sitems, shown
<1>8. \A i \in 1 .. n : /\ items[all[i].key[1]] = all[i]
                        /\ sitems[all[i].key[1]] = Shown(Ns)[all[i]]
  <2>1. SUFFICES ASSUME NEW i \in 1 .. n
                 PROVE  /\ items[all[i].key[1]] = all[i]
                        /\ sitems[all[i].key[1]] = Shown(Ns)[all[i]]
    OBVIOUS
  <2> DEFINE a == At(all[i].key[1])
             b == Sat(all[i].key[1])
  <2>2. a \in 1 .. n /\ all[a].key[1] = all[i].key[1] /\ items[all[i].key[1]] = all[a]
    BY <1>4, <1>6
  <2>3. /\ b \in 1 .. n /\ all[b].key[1] = all[i].key[1]
        /\ sitems[all[i].key[1]] = Shown(Ns)[all[b]]
    BY <1>3, <1>5, <1>7
  <2> HIDE DEF a, b
  <2>4. all[a] = all[i] /\ all[b] = all[i]
    BY <1>2, <2>2, <2>3
  <2> QED
    BY <2>2, <2>3, <2>4
<1>9. {h[x] : x \in Elems(all)} = {all[i].key[1] : i \in 1 .. n}
  <2> HIDE DEF h
  <2>1. ASSUME NEW x \in Elems(all) PROVE \E i \in 1 .. n : h[x] = all[i].key[1]
    <3>1. PICK i \in 1 .. n : x = all[i]
      BY DEF Elems
    <3> QED
      BY <1>1, <3>1
  <2>2. ASSUME NEW i \in 1 .. n
        PROVE  \E x \in Elems(all) : all[i].key[1] = h[x]
    <3>1. all[i] \in Elems(all)
      BY DEF Elems
    <3> QED
      BY <1>1, <3>1
  <2> QED
    BY <2>1, <2>2
<1>10. ASSUME NEW x \in Elems(all)
       PROVE  items[h[x]] = Whole(Ns)[x] /\ sitems[h[x]] = Shown(Ns)[x]
  <2>1. PICK i \in 1 .. n : x = all[i]
    BY DEF Elems
  <2> HIDE DEF h
  <2> QED
    BY <1>1, <1>8, <2>1
<1>11. IsDict(items, Elems(all), h, Whole(Ns))
  BY <1>6, <1>9, <1>10 DEF IsDict
<1>12. IsDict(sitems, Elems(all), h, Shown(Ns))
  BY <1>7, <1>9, <1>10 DEF IsDict
<1> QED
  BY <1>11, <1>12 DEF items, sitems

Leads(items, n, e) == n \in DOMAIN items /\ items[n] = e

\* The entries of the map.
LEMMA MapHas ==
  ASSUME NEW Ns \in SUBSET Nat, NEW all, Mapping(all, Ns), NEW e \in Elems(all),
         NEW n, Named(e, n)
  PROVE  /\ Leads(ItemsOf(all), n, e)
         /\ Leads(ShownItems(all), n, [key |-> n, value |-> e.value])
<1>1. IsDict(ItemsOf(all), Elems(all), NameIn(Ns), Whole(Ns))
  BY MapDict
<1>2. IsDict(ShownItems(all), Elems(all), NameIn(Ns), Shown(Ns))
  BY MapDict
<1>3. /\ NameIn(Ns)[e] = n /\ Whole(Ns)[e] = e
      /\ Shown(Ns)[e] = [key |-> n, value |-> e.value]
  BY MapAt DEF Named
<1>4. NameIn(Ns)[e] \in DOMAIN ItemsOf(all) /\ ItemsOf(all)[NameIn(Ns)[e]] = Whole(Ns)[e]
  BY <1>1 DEF IsDict
<1>5. /\ NameIn(Ns)[e] \in DOMAIN ShownItems(all)
      /\ ShownItems(all)[NameIn(Ns)[e]] = Shown(Ns)[e]
  BY <1>2 DEF IsDict
<1> QED
  BY <1>3, <1>4, <1>5 DEF Leads

\* A name that no entry has is not in the map.
LEMMA MapHasNot ==
  ASSUME NEW Ns \in SUBSET Nat, NEW all, Mapping(all, Ns), NEW n,
         NoneNamed(Elems(all), n)
  PROVE  n \notin DOMAIN ItemsOf(all) /\ n \notin DOMAIN ShownItems(all)
<1>1. /\ DOMAIN ItemsOf(all) = {NameIn(Ns)[x] : x \in Elems(all)}
      /\ DOMAIN ShownItems(all) = {NameIn(Ns)[x] : x \in Elems(all)}
  BY MapDict DEF IsDict
<1>2. \A x \in Elems(all) : NameIn(Ns)[x] = x.key[1]
  BY MapAt
<1> QED
  BY <1>1, <1>2 DEF NoneNamed

\* The entries D are C with e for the name n, or without one for it.
Gets(D, C, n, e) == D = Others(C, n) \cup {e}
Loses(D, C, n) == D = Others(C, n)

\* An entry is put, in the place of the one of its name ...
LEMMA MapWith ==
  ASSUME NEW Ns \in SUBSET Nat, NEW all, Mapping(all, Ns), NEW new, Mapping(new, Ns),
         NEW e \in MapEntry(Ns), NEW n, Named(e, n), Gets(Elems(new), Elems(all), n, e)
  PROVE  /\ IsWith(ItemsOf(new), ItemsOf(all), n, e)
         /\ IsWith(ShownItems(new), ShownItems(all), n, [key |-> n, value |-> e.value])
<1> DEFINE h == NameIn(Ns)
           C == Elems(all)
           D == Elems(new)
<1>1. /\ h[e] = n /\ Whole(Ns)[e] = e
      /\ Shown(Ns)[e] = [key |-> n, value |-> e.value]
  BY MapAt DEF Named
<1>2. D = {x \in C : h[x] # h[e]} \cup {e}
  <2>1. \A x \in C : h[x] = x.key[1]
    BY MapAt
  <2> HIDE DEF h
  <2> QED
    BY <1>1, <2>1 DEF Gets, Others
<1>3. Unique(C, h)
  BY DEF Mapping
<1>4. IsDict(ItemsOf(all), C, h, Whole(Ns)) /\ IsDict(ShownItems(all), C, h, Shown(Ns))
  BY MapDict
<1>5. IsDict(ItemsOf(new), D, h, Whole(Ns)) /\ IsDict(ShownItems(new), D, h, Shown(Ns))
  BY MapDict
<1> HIDE DEF h, C, D
<1>6. IsWith(ItemsOf(new), ItemsOf(all), h[e], Whole(Ns)[e])
  BY ONLY <1>2, <1>3, <1>4, <1>5, DictWith
<1>7. IsWith(ShownItems(new), ShownItems(all), h[e], Shown(Ns)[e])
  BY ONLY <1>2, <1>3, <1>4, <1>5, DictWith
<1> QED
  BY ONLY <1>1, <1>6, <1>7

\* ... or the one of a name is removed ...
LEMMA MapWithout ==
  ASSUME NEW Ns \in SUBSET Nat, NEW all, Mapping(all, Ns), NEW new, Mapping(new, Ns),
         NEW n, Loses(Elems(new), Elems(all), n)
  PROVE  /\ IsWithout(ItemsOf(new), ItemsOf(all), n)
         /\ IsWithout(ShownItems(new), ShownItems(all), n)
<1> DEFINE h == NameIn(Ns)
           C == Elems(all)
           D == Elems(new)
<1>1. D = {x \in C : h[x] # n}
  <2>1. \A x \in C : h[x] = x.key[1]
    BY MapAt
  <2> HIDE DEF h
  <2> QED
    BY <2>1 DEF Loses, Others
<1>2. Unique(C, h)
  BY DEF Mapping
<1>3. IsDict(ItemsOf(all), C, h, Whole(Ns)) /\ IsDict(ShownItems(all), C, h, Shown(Ns))
  BY MapDict
<1>4. IsDict(ItemsOf(new), D, h, Whole(Ns)) /\ IsDict(ShownItems(new), D, h, Shown(Ns))
  BY MapDict
<1> HIDE DEF h, C, D
<1> QED
  BY ONLY <1>1, <1>2, <1>3, <1>4, DictWithout

\* ... or the entries are listed in another order.
LEMMA MapSame ==
  ASSUME NEW Ns \in SUBSET Nat, NEW all, Mapping(all, Ns), NEW new, Mapping(new, Ns),
         Elems(new) = Elems(all)
  PROVE  ItemsOf(new) = ItemsOf(all) /\ ShownItems(new) = ShownItems(all)
<1>1. /\ IsDict(ItemsOf(all), Elems(all), NameIn(Ns), Whole(Ns))
      /\ IsDict(ShownItems(all), Elems(all), NameIn(Ns), Shown(Ns))
      /\ IsDict(ItemsOf(new), Elems(all), NameIn(Ns), Whole(Ns))
      /\ IsDict(ShownItems(new), Elems(all), NameIn(Ns), Shown(Ns))
  BY MapDict
<1> QED
  BY ONLY <1>1, DictSame

\* Two functions with the same values have the same range.
LEMMA SameRange ==
  ASSUME NEW f, NEW g, \A i \in DOMAIN f : \E m \in DOMAIN g : f[i] = g[m],
         \A m \in DOMAIN g : \E i \in DOMAIN f : f[i] = g[m]
  PROVE  {f[i] : i \in DOMAIN f} = {g[m] : m \in DOMAIN g}
<1>1. \A x \in {f[i] : i \in DOMAIN f} : x \in {g[m] : m \in DOMAIN g}
  OBVIOUS
<1>2. \A x \in {g[m] : m \in DOMAIN g} : x \in {f[i] : i \in DOMAIN f}
  OBVIOUS
<1> QED
  BY <1>1, <1>2

\* s has what items maps the names to, each once; names has the names.
Lists(s, items) ==
  /\ Len(s) = Cardinality(DOMAIN items)
  /\ {s[i] : i \in DOMAIN s} = {items[n] : n \in DOMAIN items}
ListsNames(names, items) ==
  /\ Len(names) = Cardinality(DOMAIN items)
  /\ {names[i] : i \in 1 .. Len(names)} = DOMAIN items

\* The map has as many names as there are entries, and these are listed.
LEMMA MapLists ==
  ASSUME NEW Ns \in SUBSET Nat, NEW all, Mapping(all, Ns)
  PROVE  /\ Lists(all, ItemsOf(all)) /\ Lists(ShownOf(all), ShownItems(all))
         /\ ListsNames([i \in DOMAIN all |-> all[i].key[1]], ItemsOf(all))
         /\ ListsNames([i \in DOMAIN ShownOf(all) |-> ShownOf(all)[i].key],
                       ShownItems(all))
         /\ Len(ShownOf(all)) = Len(all)
<1> DEFINE h == NameIn(Ns)
           C == Elems(all)
           items == ItemsOf(all)
           sitems == ShownItems(all)
           shown == ShownOf(all)
<1>1. IsDict(items, C, h, Whole(Ns)) /\ IsDict(sitems, C, h, Shown(Ns))
  BY MapDict
<1>2. /\ DOMAIN all = 1 .. Len(all) /\ Len(all) \in Nat
      /\ IsFiniteSet(C) /\ Cardinality(C) = Len(all)
      /\ \A i \in 1 .. Len(all) : /\ all[i] \in C /\ h[all[i]] = all[i].key[1]
                                  /\ Whole(Ns)[all[i]] = all[i]
                                  /\ Shown(Ns)[all[i]] = [key |-> all[i].key[1], value |-> all[i].value]
  BY MapAt
<1>3. Unique(C, h)
  BY DEF Mapping
<1>4. C = {all[i] : i \in 1 .. Len(all)}
  BY DEF Elems
<1>5. /\ DOMAIN shown = 1 .. Len(all)
      /\ \A i \in 1 .. Len(all) : shown[i] = Shown(Ns)[all[i]] /\ shown[i].key = h[all[i]]
  BY <1>2 DEF ShownOf
<1>6. Len(shown) = Len(all)
  <2>1. shown = [i \in 1 .. Len(all) |-> shown[i]]
    BY <1>2 DEF ShownOf
  <2> HIDE DEF shown
  <2> QED
    BY <1>2, <2>1
<1> HIDE DEF h, C, items, sitems, shown
<1>7. Cardinality(DOMAIN items) = Cardinality(C) /\ Cardinality(DOMAIN sitems) = Cardinality(C)
  BY ONLY <1>1, <1>2, <1>3, DictCount
<1>8. /\ DOMAIN items = {h[x] : x \in C} /\ DOMAIN sitems = {h[x] : x \in C}
      /\ \A x \in C : items[h[x]] = Whole(Ns)[x] /\ sitems[h[x]] = Shown(Ns)[x]
  BY <1>1 DEF IsDict
<1>9. {h[x] : x \in C} = {h[all[i]] : i \in 1 .. Len(all)}
  BY <1>4
<1>10. {all[i] : i \in DOMAIN all} = {items[n] : n \in DOMAIN items}
  <2>1. ASSUME NEW i \in 1 .. Len(all)
        PROVE  h[all[i]] \in DOMAIN items /\ items[h[all[i]]] = all[i]
    BY <1>2, <1>8
  <2>2. ASSUME NEW m \in DOMAIN items
        PROVE  \E i \in 1 .. Len(all) : m = h[all[i]] /\ items[m] = all[i]
    <3>1. PICK i \in 1 .. Len(all) : m = h[all[i]]
      BY <1>8, <1>9
    <3> QED
      BY <3>1, <2>1
  <2>3. /\ \A i \in DOMAIN all : \E m \in DOMAIN items : all[i] = items[m]
        /\ \A m \in DOMAIN items : \E i \in DOMAIN all : all[i] = items[m]
    BY <1>2, <2>1, <2>2
  <2> QED
    BY ONLY <2>3, SameRange
<1> DEFINE ns == [i \in DOMAIN all |-> all[i].key[1]]
           sns == [i \in DOMAIN shown |-> shown[i].key]
<1>11. /\ Len(ns) = Len(all)
       /\ {ns[i] : i \in 1 .. Len(ns)} = DOMAIN items
  <2>1. /\ ns = [i \in 1 .. Len(all) |-> ns[i]]
        /\ \A i \in 1 .. Len(all) : ns[i] = h[all[i]]
    BY <1>2
  <2> HIDE DEF ns
  <2>2. Len(ns) = Len(all)
    BY <1>2, <2>1
  <2>3. {ns[i] : i \in 1 .. Len(all)} = {h[all[i]] : i \in 1 .. Len(all)}
    BY ONLY <2>1
  <2> QED
    BY <1>8, <1>9, <2>2, <2>3
<1>12. {shown[i] : i \in DOMAIN shown} = {sitems[n] : n \in DOMAIN sitems}
  <2>1. ASSUME NEW i \in 1 .. Len(all)
        PROVE  h[all[i]] \in DOMAIN sitems /\ sitems[h[all[i]]] = shown[i]
    BY <1>2, <1>5, <1>8
  <2>2. ASSUME NEW m \in DOMAIN sitems
        PROVE  \E i \in 1 .. Len(all) : m = h[all[i]] /\ sitems[m] = shown[i]
    <3>1. PICK i \in 1 .. Len(all) : m = h[all[i]]
      BY <1>8, <1>9
    <3> QED
      BY <3>1, <2>1
  <2>3. /\ \A i \in DOMAIN shown : \E m \in DOMAIN sitems : shown[i] = sitems[m]
        /\ \A m \in DOMAIN sitems : \E i \in DOMAIN shown : shown[i] = sitems[m]
    BY <1>5, <2>1, <2>2
  <2> QED
    BY ONLY <2>3, SameRange
<1>13. /\ Len(sns) = Len(all)
       /\ {sns[i] : i \in 1 .. Len(sns)} = DOMAIN sitems
  <2>1. /\ sns = [i \in 1 .. Len(all) |-> sns[i]]
        /\ \A i \in 1 .. Len(all) : sns[i] = h[all[i]]
    BY <1>5
  <2> HIDE DEF sns
  <2>2. Len(sns) = Len(all)
    BY <1>2, <2>1
  <2>3. {sns[i] : i \in 1 .. Len(all)} = {h[all[i]] : i \in 1 .. Len(all)}
    BY ONLY <2>1
  <2> QED
    BY <1>8, <1>9, <2>2, <2>3
<1> HIDE DEF ns, sns
<1>14. Lists(all, items) /\ Lists(shown, sitems)
  BY <1>2, <1>6, <1>7, <1>10, <1>12 DEF Lists
<1>15. ListsNames(ns, items) /\ ListsNames(sns, sitems)
  BY <1>2, <1>7, <1>11, <1>13 DEF ListsNames
<1> QED
  BY <1>6, <1>14, <1>15 DEF items, sitems, shown, ns, sns

\* A map without entries.
LEMMA MapNone ==
  ASSUME NEW all, Elems(all) = {}, NEW Ns \in SUBSET Nat, Mapping(all, Ns)
  PROVE  ItemsOf(all) = [n \in {} |-> <<>>] /\ ShownItems(all) = [n \in {} |-> <<>>]
<1>1. \A i \in 1 .. Len(all) : FALSE
  BY DEF Elems
<1>2. DOMAIN all = 1 .. Len(all)
  BY MapAt
<1>3. DOMAIN all = {}
  BY <1>1, <1>2
<1> QED
  BY <1>3 DEF ItemsOf, ShownItems, ShownOf

\* The entries of a sound table stand for a map and are as many as its size.
LEMMA TableMapping ==
  ASSUME NEW Ns \in SUBSET Nat, NEW md, Table(md, Ns)
  PROVE  /\ Mapping(HM!Entries(md), Ns) /\ Elems(HM!Entries(md)) = In(md)
         /\ Len(HM!Entries(md)) = md.size
BY TableFacts DEF Mapping

\* The entries but those of a name are the entries but the one of that name.
LEMMA OneOfName ==
  ASSUME NEW Ns \in SUBSET Nat, NEW C \in SUBSET MapEntry(Ns), Unique(C, NameIn(Ns)),
         NEW x \in C, NEW n, Named(x, n)
  PROVE  C \ {x} = Others(C, n)
<1>1. \A y \in C : NameIn(Ns)[y] = y.key[1]
  BY NameInIs
<1>2. \A y \in C : y.key[1] = n => y = x
  BY <1>1 DEF Unique, Named
<1> QED
  BY <1>2 DEF Others, Named

\* Without an entry of that name, removing it removes nothing.
LEMMA NoneOfName ==
  ASSUME NEW C, NEW n, NoneNamed(C, n)
  PROVE  C = Others(C, n)
BY DEF NoneNamed, Others

-----------------------------------------------------------------------------
(* HashMap.                                                                *)

\* StructuresSound asks of a HashMap that it is a sound table.
LEMMA HMSound ==
  /\ HM!TableOK /\ HM!LoadIsSizeByCapacity <=> Table(self, Names)
  /\ HM!TableOK' /\ HM!LoadIsSizeByCapacity' <=> Table(self', Names)
<1>1. Names \in SUBSET Nat
  BY TableUnits
<1>2. HM!TableOK /\ HM!LoadIsSizeByCapacity <=> IsTable(self, Names)
  BY TableData DEF HM!TableOK, HM!LoadIsSizeByCapacity, IsTable, MapEntry, HM!Entries,
                   HM!Hash, HM!Name
<1>3. HM!TableOK' /\ HM!LoadIsSizeByCapacity' <=> IsTable(self', Names)
  BY TableData DEF HM!TableOK, HM!LoadIsSizeByCapacity, IsTable, MapEntry, HM!Entries,
                   HM!Hash, HM!Name
<1> QED
  BY <1>1, <1>2, <1>3, TableIs

\* The map a HashMap implements is that of its entries.
LEMMA HMItems ==
  /\ HM!Items = ItemsOf(HM!Entries(self))
  /\ HM!Items' = ItemsOf(HM!Entries(self'))
BY DEF HM!Items, ItemsOf, HM!Name

\* A new HashMap is sound.
LEMMA HMNew ==
  ASSUME HM!Init PROVE Table(self, Names)
<1>1. PICK capacity \in TableSizes : self = HM!NewMap(capacity)
  BY DEF HM!Init
<1>2. capacity \in Int /\ Names \in SUBSET Nat
  BY TableUnits
<1> QED
  BY <1>1, <1>2, TableNew

\* A new entry, or one for another.
LEMMA HMInsert ==
  ASSUME Table(self, Names), NEW md \in HM!Checked(self),
         NEW n \in Names, NEW copy \in Copies, NoneNamed(In(md), n),
         self' = HM!InsertEntry(md, HM!Entry(n, copy))
  PROVE  /\ Table(self', Names)
         /\ n \notin DOMAIN HM!Items /\ HM!Items' = HM!D!With(n, HM!D!Entry(n, copy))
<1> DEFINE e == HM!Entry(n, copy)
           all == HM!Entries(self)
           new == HM!Entries(self')
<1>1. Names \in SUBSET Nat /\ n \in Nat
  BY TableUnits
<1>2. e \in MapEntry(Names) /\ Named(e, n) /\ e = HM!D!Entry(n, copy)
  BY DEF HM!Entry, MapEntry, HM!D!Entry, HM!KeyStored, Named
<1> HIDE DEF e
<1>3. Table(md, Names) /\ In(md) = In(self)
  BY <1>1, TableChecked
<1>4. Table(self', Names) /\ In(self') = In(md) \cup {e}
  BY <1>1, <1>2, <1>3, TableInsert DEF e
<1>5. /\ Mapping(all, Names) /\ Elems(all) = In(self)
      /\ Mapping(new, Names) /\ Elems(new) = In(self')
  BY <1>1, <1>4, TableMapping
<1>6. Gets(Elems(new), Elems(all), n, e)
  BY <1>3, <1>4, <1>5, NoneOfName DEF Gets
<1> HIDE DEF all, new
<1>7. IsWith(ItemsOf(new), ItemsOf(all), n, e)
  BY <1>1, <1>2, <1>5, <1>6, MapWith
<1>8. n \notin DOMAIN ItemsOf(all)
  BY <1>1, <1>3, <1>5, MapHasNot
<1> QED
  BY <1>2, <1>4, <1>7, <1>8, HMItems DEF IsWith, HM!D!With, all, new

\* A HashMap that was resized, or not, is sound and the same map.
LEMMA HMUnchanged ==
  ASSUME Table(self, Names), NEW md \in HM!Checked(self), self' = md
  PROVE  Table(self', Names) /\ HM!Items' = HM!Items
<1>1. Names \in SUBSET Nat
  BY TableUnits
<1>2. Table(self', Names) /\ In(self') = In(self)
  BY <1>1, TableChecked
<1>3. /\ Mapping(HM!Entries(self), Names) /\ Elems(HM!Entries(self)) = In(self)
      /\ Mapping(HM!Entries(self'), Names) /\ Elems(HM!Entries(self')) = In(self')
  BY <1>1, <1>2, TableMapping
<1> QED
  BY <1>1, <1>2, <1>3, MapSame, HMItems

\* put leaves a HashMap sound and is put of the dictionary.
LEMMA HMPut ==
  ASSUME Table(self, Names), NEW n \in Names, NEW copy \in Copies, HM!Put(n, copy)
  PROVE  Table(self', Names) /\ HM!D!Put
<1> DEFINE e == HM!Entry(n, copy)
           all == HM!Entries(self)
           new == HM!Entries(self')
<1>1. PICK md \in HM!Checked(self) :
        LET j == HM!FindKey(md, n)
            i == HM!Hash(n, md.capacity)
        IN \/ /\ j # 0
              /\ self' = [md EXCEPT !.buckets[i][j] = e]
              /\ ret' = <<"put", TRUE, md.buckets[i][j]>>
           \/ /\ j = 0
              /\ \/ /\ self' = HM!InsertEntry(md, e)
                    /\ ret' = <<"put", TRUE>>
                 \/ self' = md /\ ret' = <<"put", FALSE>>
  BY DEF HM!Put
<1> DEFINE j == HM!FindKey(md, n)
           i == HM!Hash(n, md.capacity)
<1>2. Names \in SUBSET Nat /\ n \in Nat
  BY TableUnits
<1>3. Table(md, Names) /\ In(md) = In(self)
  BY <1>2, TableChecked
<1>4. Finds(md, n, i, j)
  BY <1>2, <1>3, TableFind
<1>5. CASE j = 0 /\ self' = HM!InsertEntry(md, e) /\ ret' = <<"put", TRUE>>
  <2>1. NoneNamed(In(md), n)
    BY <1>4, <1>5 DEF Finds
  <2>2. /\ Table(self', Names) /\ n \notin DOMAIN HM!Items
        /\ HM!Items' = HM!D!With(n, HM!D!Entry(n, copy))
    BY <1>5, <2>1, HMInsert
  <2> QED
    BY <1>5, <2>2 DEF HM!D!Put
<1>6. CASE j = 0 /\ self' = md /\ ret' = <<"put", FALSE>>
  <2>1. Table(self', Names) /\ HM!Items' = HM!Items
    BY <1>6, HMUnchanged
  <2>2. NoneNamed(In(md), n)
    BY <1>4, <1>6 DEF Finds
  <2>3. n \notin DOMAIN HM!Items
    BY <1>2, <1>3, <2>2, TableMapping, MapHasNot, HMItems
  <2> QED
    BY <1>6, <2>1, <2>3 DEF HM!D!Put
<1>7. CASE /\ j # 0 /\ self' = [md EXCEPT !.buckets[i][j] = e]
           /\ ret' = <<"put", TRUE, md.buckets[i][j]>>
  <2> DEFINE x == md.buckets[i][j]
  <2>1. e \in MapEntry(Names) /\ Named(e, n) /\ e = HM!D!Entry(n, copy)
    BY DEF HM!Entry, MapEntry, HM!D!Entry, HM!KeyStored, Named
  <2>2. /\ i \in 0 .. md.capacity - 1 /\ j \in 1 .. Len(md.buckets[i])
        /\ x \in In(md) /\ Named(x, n)
    BY <1>4, <1>7 DEF Finds
  <2> HIDE DEF e, j, i
  <2>a. EntrySet(self', md, i, j, e)
    BY <1>7 DEF EntrySet
  <2>3. Table(self', Names) /\ In(self') = (In(md) \ {x}) \cup {e}
    <3>1. /\ Names \in SUBSET Nat /\ Table(md, Names) /\ e \in MapEntry(Names)
          /\ i \in 0 .. md.capacity - 1 /\ j \in 1 .. Len(md.buckets[i])
          /\ Named(e, n) /\ Named(md.buckets[i][j], n) /\ EntrySet(self', md, i, j, e)
      BY <1>2, <1>3, <2>a, <2>1, <2>2
    <3>2. Table(self', Names) /\ SetTo(In(md), In(self'), md.buckets[i][j], e)
      BY ONLY <3>1, TableReplace
    <3> QED
      BY <3>2 DEF x, SetTo
  <2>4. /\ Mapping(all, Names) /\ Elems(all) = In(self)
        /\ Mapping(new, Names) /\ Elems(new) = In(self')
    BY <1>2, <2>3, TableMapping
  <2>5. In(md) \ {x} = Others(In(md), n)
    BY <1>2, <1>3, <2>2, TableFacts, OneOfName
  <2> HIDE DEF x, all, new
  <2>b. Gets(Elems(new), Elems(all), n, e)
    BY <1>3, <2>3, <2>4, <2>5 DEF Gets
  <2>6. IsWith(ItemsOf(new), ItemsOf(all), n, e)
    BY <1>2, <2>1, <2>4, <2>b, MapWith
  <2>7. n \in DOMAIN ItemsOf(all) /\ ItemsOf(all)[n] = x
    <3>1. Names \in SUBSET Nat /\ Mapping(all, Names) /\ x \in Elems(all) /\ Named(x, n)
      BY <1>2, <1>3, <2>2, <2>4
    <3>2. Leads(ItemsOf(all), n, x)
      BY ONLY <3>1, MapHas
    <3> QED
      BY <3>2 DEF Leads
  <2>8. HM!Items' = HM!D!With(n, HM!D!Entry(n, copy))
    BY <2>1, <2>6, HMItems DEF IsWith, HM!D!With, all, new
  <2>9. ret' = <<"put", TRUE, HM!EntryReplaced(HM!Items[n])>> /\ n \in DOMAIN HM!Items
    BY <1>7, <2>7, HMItems DEF HM!EntryReplaced, all, x
  <2> QED
    BY <2>3, <2>8, <2>9 DEF HM!D!Put
<1> QED
  BY <1>1, <1>5, <1>6, <1>7

\* putUnique leaves a HashMap sound and is putUnique of the dictionary.
LEMMA HMPutUnique ==
  ASSUME Table(self, Names), NEW n \in Names, NEW copy \in Copies, HM!PutUnique(n, copy)
  PROVE  Table(self', Names) /\ HM!D!PutUnique
<1>1. PICK md \in HM!Checked(self) :
        \/ /\ HM!FindKey(md, n) = 0
           /\ self' = HM!InsertEntry(md, HM!Entry(n, copy))
           /\ ret' = <<"putUnique", TRUE>>
        \/ self' = md /\ ret' = <<"putUnique", FALSE>>
  BY DEF HM!PutUnique
<1>2. Names \in SUBSET Nat /\ n \in Nat
  BY TableUnits
<1>3. Table(md, Names)
  BY <1>2, TableChecked
<1>4. CASE /\ HM!FindKey(md, n) = 0 /\ ret' = <<"putUnique", TRUE>>
           /\ self' = HM!InsertEntry(md, HM!Entry(n, copy))
  <2>1. NoneNamed(In(md), n)
    BY <1>2, <1>3, <1>4, TableFind DEF Finds
  <2>2. /\ Table(self', Names) /\ n \notin DOMAIN HM!Items
        /\ HM!Items' = HM!D!With(n, HM!D!Entry(n, copy))
    BY <1>4, <2>1, HMInsert
  <2> QED
    BY <1>4, <2>2 DEF HM!D!PutUnique
<1>5. CASE self' = md /\ ret' = <<"putUnique", FALSE>>
  <2>1. Table(self', Names) /\ HM!Items' = HM!Items
    BY <1>5, HMUnchanged
  <2> QED
    BY <1>5, <2>1 DEF HM!D!PutUnique
<1> QED
  BY <1>1, <1>4, <1>5

\* What a name leads to.
LEMMA HMFind ==
  ASSUME Table(self, Names), NEW n \in Names
  PROVE  LET j == HM!FindKey(self, n)
             i == HM!Hash(n, self.capacity)
         IN /\ (j # 0) <=> (n \in DOMAIN HM!Items)
            /\ j # 0 => HM!Items[n] = self.buckets[i][j]
<1> DEFINE j == HM!FindKey(self, n)
           i == HM!Hash(n, self.capacity)
           all == HM!Entries(self)
<1>1. Names \in SUBSET Nat /\ n \in Nat
  BY TableUnits
<1>2. Finds(self, n, i, j)
  BY <1>1, TableFind
<1>3. Mapping(all, Names) /\ Elems(all) = In(self) /\ HM!Items = ItemsOf(all)
  BY <1>1, TableMapping, HMItems
<1> HIDE DEF j, i, all
<1>4. CASE j = 0 /\ NoneNamed(In(self), n)
  BY <1>1, <1>3, <1>4, MapHasNot DEF j, i
<1>5. CASE /\ j \in 1 .. Len(self.buckets[i]) /\ self.buckets[i][j] \in In(self)
           /\ Named(self.buckets[i][j], n)
  <2> DEFINE x == self.buckets[i][j]
  <2>a. Names \in SUBSET Nat /\ Mapping(all, Names) /\ x \in Elems(all) /\ Named(x, n)
    BY <1>1, <1>3, <1>5
  <2> HIDE DEF x
  <2>b. Leads(ItemsOf(all), n, x)
    BY ONLY <2>a, MapHas
  <2>1. n \in DOMAIN ItemsOf(all) /\ ItemsOf(all)[n] = self.buckets[i][j]
    BY <2>b DEF x, Leads
  <2>2. j # 0
    BY <1>5
  <2> QED
    BY <1>3, <2>1, <2>2 DEF j, i
<1> QED
  BY <1>2, <1>4, <1>5 DEF Finds

\* A HashMap left alone stays sound and the same map.
LEMMA HMSame ==
  ASSUME Table(self, Names), UNCHANGED self
  PROVE  Table(self', Names) /\ HM!Items' = HM!Items
BY HMItems

\* containsKey and get are questions to the dictionary.
LEMMA HMGet ==
  ASSUME Table(self, Names), NEW n \in Names, HM!ContainsKey(n) \/ HM!Get(n)
  PROVE  Table(self', Names) /\ HM!D!Get
<1> DEFINE j == HM!FindKey(self, n)
           i == HM!Hash(n, self.capacity)
<1>1. UNCHANGED self
  BY DEF HM!ContainsKey, HM!Get
<1>2. Table(self', Names) /\ HM!Items' = HM!Items
  BY <1>1, HMSame
<1>3. /\ (j # 0) <=> (n \in DOMAIN HM!Items)
      /\ j # 0 => HM!Items[n] = self.buckets[i][j]
  BY HMFind
<1>4. \/ ret' = <<"containsKey", n, j # 0>>
      \/ ret' = IF j # 0 THEN <<"get", n, TRUE, self.buckets[i][j].value>>
                ELSE <<"get", n, FALSE>>
  BY DEF HM!ContainsKey, HM!Get
<1> HIDE DEF j, i
<1>5. CASE ret' = <<"containsKey", n, j # 0>>
  BY <1>2, <1>3, <1>5 DEF HM!D!Get
<1>6. CASE j # 0 /\ ret' = <<"get", n, TRUE, self.buckets[i][j].value>>
  BY <1>2, <1>3, <1>6 DEF HM!D!Get
<1>7. CASE j = 0 /\ ret' = <<"get", n, FALSE>>
  <2>1. n \notin DOMAIN HM!Items /\ ret'[1] = "get" /\ ret'[2] = n /\ ret'[3] = FALSE
    BY <1>3, <1>7
  <2>2. (n \in DOMAIN HM!Items) = FALSE
    BY <2>1
  <2> QED
    BY <1>2, <2>1, <2>2 DEF HM!D!Get
<1> QED
  BY <1>4, <1>5, <1>6, <1>7

\* remove leaves a HashMap sound and is remove of the dictionary.
LEMMA HMRemove ==
  ASSUME Table(self, Names), NEW n \in Names, HM!Remove(n)
  PROVE  Table(self', Names) /\ HM!D!Remove
<1> DEFINE j == HM!FindKey(self, n)
           i == HM!Hash(n, self.capacity)
           x == self.buckets[i][j]
           all == HM!Entries(self)
           new == HM!Entries(self')
<1>1. Names \in SUBSET Nat /\ n \in Nat
  BY TableUnits
<1>2. /\ (j # 0) <=> (n \in DOMAIN HM!Items)
      /\ j # 0 => HM!Items[n] = x
  BY HMFind
<1>3. CASE j = 0 /\ UNCHANGED self /\ ret' = <<"remove", n, FALSE>>
  <2>1. Table(self', Names) /\ HM!Items' = HM!Items
    BY <1>3, HMSame
  <2> QED
    BY <1>2, <1>3, <2>1 DEF HM!D!Remove
<1>4. CASE /\ j # 0 /\ ret' = <<"remove", n, TRUE, x>>
           /\ self' = [self EXCEPT !.buckets[i] = Unlinked(@, j), !.size = @ - 1,
                                   !.load = @ - HM!Increment(self), !.changes = @ + 1]
  <2>1. /\ i \in 0 .. self.capacity - 1
        /\ j \in 1 .. Len(self.buckets[i]) /\ x \in In(self) /\ Named(x, n)
    <3>1. Finds(self, n, i, j)
      BY <1>1, TableFind
    <3> QED
      BY <1>4, <3>1 DEF Finds
  <2> HIDE DEF i, j
  <2>2. {"size", "capacity", "changes", "load", "buckets"} \subseteq DOMAIN self
    BY DEF Table
  <2>3. Unlinks(self', self, i, j)
    BY <1>4, <2>2 DEF Unlinks, Replaces
  <2>4. Table(self', Names) /\ In(self') = In(self) \ {x}
    BY <1>1, <2>1, <2>3, TableUnlink
  <2>5. In(self) \ {x} = Others(In(self), n)
    BY <1>1, <2>1, TableFacts, OneOfName
  <2>6. /\ Mapping(all, Names) /\ Elems(all) = In(self)
        /\ Mapping(new, Names) /\ Elems(new) = In(self')
    BY <1>1, <2>4, TableMapping
  <2> HIDE DEF x, all, new
  <2>a. Loses(Elems(new), Elems(all), n)
    BY <2>4, <2>5, <2>6 DEF Loses
  <2>7. IsWithout(ItemsOf(new), ItemsOf(all), n)
    BY <1>1, <2>a, <2>6, MapWithout
  <2>8. HM!Items' = HM!D!Without(n)
    BY <2>7, HMItems DEF IsWithout, HM!D!Without, all, new
  <2> QED
    BY <1>2, <1>4, <2>4, <2>8 DEF HM!D!Remove
<1> QED
  BY <1>3, <1>4, TableData DEF HM!Remove

\* The entries of a HashMap list its map, each key once.
LEMMA HMLists ==
  ASSUME Table(self, Names)
  PROVE  LET all == HM!Entries(self)
             names == [i \in DOMAIN all |-> HM!Name(all[i])]
         IN /\ Lists(all, HM!Items) /\ ListsNames(names, HM!Items)
            /\ Cardinality(DOMAIN HM!Items) = self.size /\ self.size \in Nat
<1> DEFINE all == HM!Entries(self)
           names == [i \in DOMAIN all |-> HM!Name(all[i])]
<1>1. Names \in SUBSET Nat
  BY TableUnits
<1>2. /\ Mapping(all, Names) /\ Len(all) = self.size /\ HM!Items = ItemsOf(all)
      /\ self.size \in Nat
  BY <1>1, TableMapping, TableFacts, HMItems
<1>3. names = [i \in DOMAIN all |-> all[i].key[1]]
  BY DEF HM!Name
<1> HIDE DEF all, names
<1>4. Lists(all, HM!Items) /\ ListsNames(names, HM!Items)
  BY <1>1, <1>2, <1>3, MapLists
<1>5. Cardinality(DOMAIN HM!Items) = self.size
  BY <1>2, <1>4 DEF Lists
<1> QED
  BY <1>2, <1>4, <1>5 DEF all, names

\* The dictionary's Cardinality is the library's.
LEMMA HMCardinality ==
  /\ \A X : HM!D!Cardinality(X) = Cardinality(X)
  /\ \A s : Lists(s, HM!Items) => HM!D!Lists(s)
<1>1. \A X : HM!D!Cardinality(X) = Cardinality(X)
  BY DEF HM!D!Cardinality, Cardinality
<1>2. ASSUME NEW s, Lists(s, HM!Items) PROVE HM!D!Lists(s)
  BY <1>1, <1>2 DEF Lists, HM!D!Lists
<1> QED
  BY <1>1, <1>2

\* clear and destroy leave a sound, empty HashMap and free what was in it.
LEMMA HMEmpty ==
  ASSUME Table(self, Names), HM!Clear \/ HM!Destroy
  PROVE  Table(self', Names) /\ HM!D!Empty
<1>1. Names \in SUBSET Nat /\ Names \subseteq Nat
  BY TableUnits
<1>2. Table(self', Names) /\ In(self') = {}
  <2>1. CASE HM!Clear
    <3> DEFINE n == self.capacity
    <3>1. /\ {"size", "capacity", "changes", "load", "buckets"} \subseteq DOMAIN self
          /\ n \in 1 .. MAX_CAPACITY /\ DOMAIN self.buckets = 0 .. n - 1
      BY DEF Table, Filed
    <3>2. self' = [[self EXCEPT !.buckets = [i \in DOMAIN @ |-> <<>>]]
                     EXCEPT !.size = 0, !.load = 0, !.changes = 0]
      BY <2>1 DEF HM!Clear, HM!Purged
    <3>3. /\ {"size", "capacity", "changes", "load", "buckets"} \subseteq DOMAIN self'
          /\ self'.capacity = n /\ self'.size = 0 /\ self'.changes = 0 /\ self'.load = 0
          /\ self'.buckets = [i \in 0 .. n - 1 |-> <<>>]
      BY <3>1, <3>2
    <3> HIDE <3>2
    <3> QED
      BY <1>1, <3>1, <3>3, TableEmpty
  <2>2. CASE HM!Destroy
    <3>1. self.capacity \in Int
      BY TableUnits DEF Table
    <3> QED
      BY <1>1, <2>2, <3>1, TableNew DEF HM!Destroy
  <2> QED
    BY <2>1, <2>2
<1>3. Mapping(HM!Entries(self'), Names) /\ Elems(HM!Entries(self')) = {}
  BY <1>1, <1>2, TableMapping
<1>4. HM!Items' = HM!D!NoItems
  BY <1>1, <1>3, MapNone, HMItems DEF HM!D!NoItems
<1>5. HM!D!Lists(HM!Entries(self))
  BY HMLists, HMCardinality
<1>6. ret'[1] \in {"clear", "destroy"} /\ ret'[2] = HM!Entries(self)
  BY DEF HM!Clear, HM!Destroy
<1> QED
  BY <1>2, <1>4, <1>5, <1>6 DEF HM!D!Empty

\* size, entryArray and itCreate answer as the dictionary does.
LEMMA HMAsk ==
  ASSUME Table(self, Names), HM!Size \/ HM!ToArray \/ HM!ItCreate
  PROVE  Table(self', Names) /\ (HM!D!Size \/ HM!D!Array \/ HM!D!Iterate)
<1> DEFINE all == HM!Entries(self)
           names == [i \in DOMAIN all |-> HM!Name(all[i])]
<1>1. UNCHANGED self
  BY DEF HM!Size, HM!ToArray, HM!ItCreate
<1>2. Table(self', Names) /\ HM!Items' = HM!Items
  BY <1>1, HMSame
<1>3. /\ HM!D!Lists(all) /\ HM!D!Cardinality(DOMAIN HM!Items) = self.size
      /\ Len(names) = self.size /\ {names[i] : i \in 1 .. self.size} = DOMAIN HM!Items
  <2>1. /\ Lists(all, HM!Items) /\ Cardinality(DOMAIN HM!Items) = self.size
        /\ ListsNames(names, HM!Items)
    BY HMLists
  <2> HIDE DEF all, names
  <2> QED
    BY <2>1, HMCardinality DEF ListsNames
<1>4. CASE HM!Size
  BY <1>2, <1>3, <1>4 DEF HM!Size, HM!D!Size
<1>5. CASE HM!ToArray
  <2>1. ret' = <<"array", all>> \/ ret' = <<"array">>
    BY <1>5 DEF HM!ToArray
  <2> HIDE DEF all, names
  <2> QED
    BY <1>2, <1>3, <2>1 DEF HM!D!Array
<1>6. CASE HM!ItCreate
  <2>1. ret' = <<"iterator", self.size, names>> \/ ret' = <<"iterator">>
    BY <1>6 DEF HM!ItCreate
  <2> HIDE DEF all, names
  <2>2. CASE ret' = <<"iterator">>
    BY <1>2, <2>2 DEF HM!D!Iterate
  <2>3. CASE ret' = <<"iterator", self.size, names>>
    <3>1. ret'[1] = "iterator" /\ ret'[2] = self.size /\ ret'[3] = names
      BY <2>3
    <3> QED
      BY <1>2, <1>3, <3>1 DEF HM!D!Iterate
  <2> QED
    BY <2>1, <2>2, <2>3
<1> QED
  BY <1>2, <1>4, <1>5, <1>6

\* Every call leaves a sound table, and is a call of the dictionary.
LEMMA HMCalled ==
  ASSUME Table(self, Names), HM!Next
  PROVE  Table(self', Names) /\ HM!D!DictNext
<1>1. CASE \E n \in Names, copy \in Copies : HM!Put(n, copy) \/ HM!PutUnique(n, copy)
  BY <1>1, HMPut, HMPutUnique DEF HM!D!DictNext
<1>2. CASE \E n \in Names : HM!ContainsKey(n) \/ HM!Get(n) \/ HM!Remove(n)
  BY <1>2, HMGet, HMRemove DEF HM!D!DictNext
<1>3. CASE HM!Clear \/ HM!Destroy
  BY <1>3, HMEmpty DEF HM!D!DictNext
<1>4. CASE HM!Size \/ HM!ToArray \/ HM!ItCreate
  BY <1>4, HMAsk DEF HM!D!DictNext
<1> QED
  BY <1>1, <1>2, <1>3, <1>4 DEF HM!Next

-----------------------------------------------------------------------------
(* HashCSKMap.                                                             *)

\* The strings the map owns: the keys of its entries.
KeysOf(C) == {x.key : x \in C}

\* The key strings of the entries change with the entry that is removed or replaced.
LEMMA KeysOfOthers ==
  ASSUME NEW Ns \in SUBSET Nat, NEW C \in SUBSET MapEntry(Ns), Unique(C, NameIn(Ns)),
         NEW x \in C
  PROVE  /\ KeysOf(C \ {x}) = KeysOf(C) \ {x.key}
         /\ \A e : e.key = x.key => KeysOf((C \ {x}) \cup {e}) = KeysOf(C)
<1>1. \A y \in C : NameIn(Ns)[y] = y.key[1]
  BY NameInIs
<1>2. \A y \in C : y.key = x.key => y = x
  BY <1>1 DEF Unique
<1> QED
  BY <1>2 DEF KeysOf

\* A sound table whose keys are the strings that are allocated.
OwnTable(md) == /\ Table(md, StringNames)
                /\ "strings" \in DOMAIN md /\ md.strings = KeysOf(In(md))

TableFields == {"size", "capacity", "changes", "load", "buckets"}
SameTable(new, md) == \A f \in TableFields : f \in DOMAIN new /\ new[f] = md[f]

\* What differs from a table in other fields only is the same table.
LEMMA TableSame ==
  ASSUME NEW Ns \in SUBSET Nat, NEW md, Table(md, Ns), NEW new, SameTable(new, md)
  PROVE  Table(new, Ns) /\ In(new) = In(md)
<1>1. /\ TableFields \subseteq DOMAIN new
      /\ new.size = md.size /\ new.capacity = md.capacity /\ new.changes = md.changes
      /\ new.load = md.load /\ new.buckets = md.buckets
  BY DEF SameTable, TableFields
<1>2. In(new) = In(md)
  BY <1>1 DEF In
<1> QED
  BY <1>1, <1>2 DEF Table, TableFields

\* The operators of HashCSKMap are those of HashMap.
LEMMA HCData ==
  /\ StringNames \in SUBSET Nat
  /\ \A md : HC!M!Entries(md) = HM!Entries(md)
  /\ \A md, n : HC!FindKey(md, n) = HM!FindKey(md, n)
  /\ \A n, N : HC!Hash(n, N) = HM!Hash(n, N)
  /\ \A md : HC!Checked(md) = HM!Checked(md)
  /\ \A md, e : HC!M!InsertEntry(md, e) = HM!InsertEntry(md, e)
  /\ \A md : HC!M!Increment(md) = HM!Increment(md)
  /\ \A e : HC!M!Name(e) = e.key[1] /\ HC!Shown(e) = [key |-> e.key[1], value |-> e.value]
  /\ \A c : HC!M!NewMap(c) = HM!NewMap(c)
  /\ \A c, j : HC!Unlinked(c, j) = Unlinked(c, j)
  /\ HC!ShownEntries = ShownOf(HM!Entries(self))
<1>1. \A md : HC!M!Entries(md) = HM!Entries(md)
  BY DEF HC!M!Entries, HM!Entries, HC!M!InBuckets, HM!InBuckets
<1>2. \A e : HC!M!Name(e) = e.key[1] /\ HC!Shown(e) = [key |-> e.key[1], value |-> e.value]
  BY DEF HC!M!Name, HC!Shown
<1>3. StringNames \in SUBSET Nat
  BY KeyedAssumption
<1>4. \A md, n : HC!FindKey(md, n) = HM!FindKey(md, n)
  BY DEF HC!FindKey, HC!M!FindKey, HM!FindKey, HC!M!Hash, HM!Hash, HC!M!Name, HM!Name
<1>5. \A md : HC!M!Resize(md) = HM!Resize(md)
  BY DEF HC!M!Resize, HM!Resize, HC!M!Entries, HM!Entries, HC!M!InBuckets, HM!InBuckets,
         HC!M!Hash, HM!Hash, HC!M!Name, HM!Name, HC!M!Pushed, HM!Pushed
<1>6. \A md : HC!Checked(md) = HM!Checked(md)
  BY <1>5 DEF HC!Checked, HC!M!Checked, HM!Checked
<1>7. /\ \A n, N : HC!Hash(n, N) = HM!Hash(n, N)
      /\ \A md, e : HC!M!InsertEntry(md, e) = HM!InsertEntry(md, e)
      /\ \A md : HC!M!Increment(md) = HM!Increment(md)
      /\ \A c : HC!M!NewMap(c) = HM!NewMap(c)
      /\ \A c, j : HC!Unlinked(c, j) = Unlinked(c, j)
  BY DEF HC!Hash, HC!M!Hash, HM!Hash, HC!M!InsertEntry, HM!InsertEntry, HC!M!Increment,
         HM!Increment, HC!M!NewMap, HM!NewMap, HC!Unlinked, Unlinked, HC!M!Name, HM!Name
<1>8. HC!ShownEntries = ShownOf(HM!Entries(self))
  BY <1>1 DEF HC!ShownEntries, ShownOf, HC!Shown, HC!M!Name
<1> QED
  BY <1>1, <1>2, <1>3, <1>4, <1>6, <1>7, <1>8

\* The key strings of a table are those of its entries.
LEMMA KeysListed ==
  ASSUME NEW md, Table(md, StringNames)
  PROVE  HC!Keys(md) = KeysOf(In(md))
<1> DEFINE all == HM!Entries(md)
<1>1. HC!Keys(md) = {all[i].key : i \in DOMAIN all}
  BY HCData DEF HC!Keys
<1>2. Mapping(all, StringNames) /\ Elems(all) = In(md)
  BY HCData, TableMapping
<1>3. DOMAIN all = 1 .. Len(all)
  BY <1>2, HCData, MapAt
<1> HIDE DEF all
<1>4. {all[i].key : i \in DOMAIN all} = KeysOf(Elems(all))
  BY <1>3 DEF KeysOf, Elems
<1> QED
  BY <1>1, <1>2, <1>4

\* StructuresSound asks of a HashCSKMap that it is a sound table that owns its keys.
LEMMA HCSound ==
  /\ HC!TableOK /\ HC!LoadIsSizeByCapacity <=> OwnTable(self)
  /\ HC!TableOK' /\ HC!LoadIsSizeByCapacity' <=> OwnTable(self')
<1>1. HC!M!TableOK /\ HC!LoadIsSizeByCapacity <=> IsTable(self, StringNames)
  BY HCData, TableData DEF HC!M!TableOK, HC!LoadIsSizeByCapacity,
     HC!M!LoadIsSizeByCapacity, IsTable, MapEntry, HM!Entries, HC!M!Hash, HC!M!Name
<1>2. HC!M!TableOK' /\ HC!LoadIsSizeByCapacity' <=> IsTable(self', StringNames)
  BY HCData, TableData DEF HC!M!TableOK, HC!LoadIsSizeByCapacity,
     HC!M!LoadIsSizeByCapacity, IsTable, MapEntry, HM!Entries, HC!M!Hash, HC!M!Name
<1>3. HC!TableOK /\ HC!LoadIsSizeByCapacity <=> OwnTable(self)
  BY <1>1, TableIs, HCData, KeysListed DEF OwnTable, HC!TableOK
<1>4. HC!TableOK' /\ HC!LoadIsSizeByCapacity' <=> OwnTable(self')
  <2>1. /\ IsTable(self', StringNames) <=> Table(self', StringNames)
        /\ Table(self', StringNames) => HC!Keys(self') = KeysOf(In(self'))
    BY TableIs, HCData, KeysListed
  <2> QED
    BY <1>2, <2>1 DEF OwnTable, HC!TableOK
<1> QED
  BY <1>3, <1>4

\* The map a HashCSKMap implements is that of its entries, without their copies.
LEMMA HCItems ==
  /\ HC!Items = ShownItems(HM!Entries(self))
  /\ HC!Items' = ShownItems(HM!Entries(self'))
<1>1. HC!Items = ShownItems(HM!Entries(self))
  BY HCData DEF HC!Items, ShownItems
<1>2. HC!ShownEntries' = ShownOf(HM!Entries(self'))
  BY HCData DEF HC!ShownEntries, ShownOf, HC!Shown, HC!M!Name
<1>3. HC!Items' = ShownItems(HM!Entries(self'))
  BY <1>2 DEF HC!Items, ShownItems
<1> QED
  BY <1>1, <1>3

\* A new table is empty and owns no key.
LEMMA HCNewMap ==
  ASSUME NEW capacity \in Int
  PROVE  /\ OwnTable(HC!NewCSKMap(capacity)) /\ In(HC!NewCSKMap(capacity)) = {}
         /\ HC!NewCSKMap(capacity).strings = {}
<1> DEFINE md == HM!NewMap(capacity)
           new == HC!NewCSKMap(capacity)
<1>1. new = [size |-> md.size, capacity |-> md.capacity, changes |-> md.changes,
             load |-> md.load, buckets |-> md.buckets, strings |-> {}]
  BY HCData DEF HC!NewCSKMap
<1>2. Table(md, StringNames) /\ In(md) = {}
  BY HCData, TableNew
<1> HIDE DEF md, new
<1>3. SameTable(new, md)
  BY <1>1 DEF SameTable, TableFields
<1>4. Table(new, StringNames) /\ In(new) = {}
  BY <1>2, <1>3, HCData, TableSame
<1>5. "strings" \in DOMAIN new /\ new.strings = {}
  BY <1>1
<1> QED
  BY <1>4, <1>5 DEF OwnTable, KeysOf, new

\* A new HashCSKMap is sound.
LEMMA HCNew ==
  ASSUME HC!Init PROVE OwnTable(self)
BY HCNewMap, TableUnits DEF HC!Init

\* A HashCSKMap left alone stays sound and the same map.
LEMMA HCSame ==
  ASSUME OwnTable(self), UNCHANGED self
  PROVE  OwnTable(self') /\ HC!Items' = HC!Items
BY HCItems

\* What put and putUnique start with has the same entries.
LEMMA HCChecked ==
  ASSUME OwnTable(self), NEW md \in HM!Checked(self)
  PROVE  OwnTable(md) /\ In(md) = In(self)
BY HCData, TableChecked DEF OwnTable, Kept

\* A HashCSKMap that was resized, or not, is sound and the same map.
LEMMA HCUnchanged ==
  ASSUME OwnTable(self), NEW md \in HM!Checked(self), self' = md
  PROVE  OwnTable(self') /\ HC!Items' = HC!Items
<1>1. OwnTable(self') /\ In(self') = In(self)
  BY HCChecked
<1>2. /\ Mapping(HM!Entries(self), StringNames) /\ Elems(HM!Entries(self)) = In(self)
      /\ Mapping(HM!Entries(self'), StringNames) /\ Elems(HM!Entries(self')) = In(self')
  BY <1>1, HCData, TableMapping DEF OwnTable
<1> QED
  BY <1>1, <1>2, HCData, MapSame, HCItems

\* Where a name is.
LEMMA HCFind ==
  ASSUME NEW md, OwnTable(md), In(md) = In(self), OwnTable(self), NEW n \in StringNames
  PROVE  LET j == HC!FindKey(md, n)
             i == HC!Hash(n, md.capacity)
         IN /\ Finds(md, n, i, j)
            /\ (j # 0) <=> (n \in DOMAIN HC!Items)
            /\ j # 0 => HC!Items[n] = [key |-> n, value |-> md.buckets[i][j].value]
<1> DEFINE j == HC!FindKey(md, n)
           i == HC!Hash(n, md.capacity)
           x == md.buckets[i][j]
           all == HM!Entries(self)
<1>1. StringNames \in SUBSET Nat /\ n \in Nat
  BY HCData
<1>2. Finds(md, n, i, j)
  BY <1>1, HCData, TableFind DEF OwnTable
<1>3. Mapping(all, StringNames) /\ Elems(all) = In(self) /\ HC!Items = ShownItems(all)
  BY <1>1, TableMapping, HCItems DEF OwnTable
<1> HIDE DEF j, i, all, x
<1>4. CASE j = 0 /\ NoneNamed(In(self), n)
  <2>1. n \notin DOMAIN HC!Items
    BY <1>1, <1>3, <1>4, MapHasNot
  <2> QED
    BY <1>2, <1>4, <2>1 DEF j, i
<1>5. CASE j \in 1 .. Len(md.buckets[i]) /\ x \in In(self) /\ Named(x, n)
  <2>1. StringNames \in SUBSET Nat /\ Mapping(all, StringNames) /\ x \in Elems(all) /\ Named(x, n)
    BY <1>1, <1>3, <1>5
  <2>2. Leads(ShownItems(all), n, [key |-> n, value |-> x.value])
    BY ONLY <2>1, MapHas
  <2>3. n \in DOMAIN HC!Items /\ HC!Items[n] = [key |-> n, value |-> x.value]
    BY <1>3, <2>2 DEF Leads
  <2>4. j # 0
    BY <1>5
  <2> QED
    BY <1>2, <2>3, <2>4 DEF j, i, x
<1> QED
  BY <1>2, <1>4, <1>5 DEF Finds, x

\* strdup gives a string that is not yet allocated.
LEMMA StrdupIs ==
  ASSUME NEW md, OwnTable(md), NEW n \in StringNames, NEW value \in Copies,
         NoneNamed(In(md), n)
  PROVE  HC!Strdup(md, n) \in {n} \X Copies /\ HC!Strdup(md, n) \notin md.strings
<1>1. <<n, value>> \in {n} \X Copies
  OBVIOUS
<1>2. <<n, value>> \notin md.strings
  <2>1. SUFFICES ASSUME NEW x \in In(md), x.key = <<n, value>> PROVE FALSE
    BY DEF OwnTable, KeysOf
  <2>2. x.key[1] = n
    BY <2>1
  <2> QED
    BY <2>2 DEF NoneNamed
<1> QED
  BY <1>1, <1>2 DEF HC!Strdup

\* A new key is copied and its entry is inserted, or neither is.
LEMMA HCInsert ==
  ASSUME OwnTable(self), NEW md \in HM!Checked(self),
         NEW n \in StringNames, NEW value \in Copies, NoneNamed(In(md), n), NEW op,
         HC!InsertEntry(op, md, n, value)
  PROVE  /\ OwnTable(self') /\ n \notin DOMAIN HC!Items
         /\ \/ /\ HC!Items' = HC!D!With(n, HC!D!Entry(n, value))
               /\ ret' = <<op, TRUE>>
            \/ /\ HC!Items' = HC!Items
               /\ ret' = <<op, FALSE>>
<1> DEFINE k == HC!Strdup(md, n)
           e == [key |-> k, value |-> value]
           ins == HM!InsertEntry(md, e)
           all == HM!Entries(self)
           new == HM!Entries(self')
<1>1. /\ OwnTable(md) /\ In(md) = In(self) /\ StringNames \in SUBSET Nat
      /\ Table(md, StringNames) /\ Table(self, StringNames)
  BY HCChecked, HCData DEF OwnTable
<1>2. k \in {n} \X Copies
  BY <1>1, StrdupIs
<1>3. \/ self' = [ins EXCEPT !.strings = @ \cup {k}] /\ ret' = <<op, TRUE>>
      \/ self' = md /\ ret' = <<op, FALSE>>
  BY HCData DEF HC!InsertEntry
<1>4. Mapping(all, StringNames) /\ Elems(all) = In(self) /\ HC!Items = ShownItems(all)
  BY <1>1, TableMapping, HCItems
<1> HIDE DEF k, all, new
<1>5. n \notin DOMAIN HC!Items
  BY <1>1, <1>4, MapHasNot
<1>6. CASE self' = md /\ ret' = <<op, FALSE>>
  BY <1>5, <1>6, HCUnchanged
<1>7. CASE self' = [ins EXCEPT !.strings = @ \cup {k}] /\ ret' = <<op, TRUE>>
  <2>1. e \in MapEntry(StringNames) /\ Named(e, n) /\ e.key = k /\ e.value = value
    BY <1>2 DEF MapEntry, Named
  <2> HIDE DEF e
  <2>2. Table(ins, StringNames) /\ In(ins) = In(md) \cup {e} /\ Kept(ins, md)
    <3>1. /\ StringNames \in SUBSET Nat /\ Table(md, StringNames) /\ e \in MapEntry(StringNames)
          /\ Named(e, n) /\ NoneNamed(In(md), n)
      BY <1>1, <2>1
    <3> QED
      BY <3>1, TableInsert
  <2> HIDE DEF ins
  <2>3. TableFields \cup {"strings"} \subseteq DOMAIN ins /\ ins.strings = md.strings
    BY <1>1, <2>2 DEF OwnTable, Kept, Table, TableFields
  <2>4. SameTable(self', ins)
    BY <1>7, <2>3 DEF SameTable, TableFields
  <2>5. "strings" \in DOMAIN self' /\ self'.strings = md.strings \cup {k}
    BY <1>7, <2>3
  <2>6. Table(self', StringNames) /\ In(self') = In(md) \cup {e}
    BY <1>1, <2>2, <2>4, TableSame
  <2>7. self'.strings = KeysOf(In(self'))
    BY <1>1, <2>1, <2>5, <2>6 DEF OwnTable, KeysOf
  <2>8. OwnTable(self')
    BY <2>5, <2>6, <2>7 DEF OwnTable
  <2>9. Mapping(new, StringNames) /\ Elems(new) = In(self') /\ HC!Items' = ShownItems(new)
    BY <1>1, <2>6, TableMapping, HCItems DEF new
  <2>10. Gets(Elems(new), Elems(all), n, e)
    BY <1>1, <1>4, <2>6, <2>9, NoneOfName DEF Gets
  <2>11. IsWith(ShownItems(new), ShownItems(all), n, [key |-> n, value |-> e.value])
    BY <1>1, <1>4, <2>1, <2>9, <2>10, MapWith
  <2>12. HC!D!Entry(n, value) = [key |-> n, value |-> e.value]
    BY <2>1 DEF HC!D!Entry, HC!KeyStored
  <2>13. HC!Items' = HC!D!With(n, HC!D!Entry(n, value))
    BY <1>4, <2>9, <2>11, <2>12 DEF IsWith, HC!D!With
  <2> QED
    BY <1>5, <1>7, <2>8, <2>13
<1> QED
  BY <1>3, <1>6, <1>7

\* put leaves a HashCSKMap sound and is put of the dictionary.
LEMMA HCPut ==
  ASSUME OwnTable(self), NEW n \in StringNames, NEW value \in Copies, HC!Put(n, value)
  PROVE  OwnTable(self') /\ HC!D!Put
<1> DEFINE all == HM!Entries(self)
           new == HM!Entries(self')
<1>1. PICK md \in HC!Checked(self) :
        LET j == HC!FindKey(md, n)
            i == HC!Hash(n, md.capacity)
        IN \/ /\ j # 0
              /\ self' = [md EXCEPT !.buckets[i][j].value = value]
              /\ ret' = <<"put", TRUE, md.buckets[i][j].value>>
           \/ j = 0 /\ HC!InsertEntry("put", md, n, value)
  BY DEF HC!Put
<1> DEFINE j == HC!FindKey(md, n)
           i == HC!Hash(n, md.capacity)
           x == md.buckets[i][j]
           e == [key |-> x.key, value |-> value]
<1>2. /\ md \in HM!Checked(self) /\ StringNames \in SUBSET Nat
      /\ OwnTable(md) /\ In(md) = In(self) /\ Table(md, StringNames) /\ Table(self, StringNames)
  BY HCData, HCChecked DEF OwnTable
<1>3. /\ Finds(md, n, i, j)
      /\ (j # 0) <=> (n \in DOMAIN HC!Items)
      /\ j # 0 => HC!Items[n] = [key |-> n, value |-> x.value]
  BY <1>2, HCFind
<1>4. \/ /\ j # 0
         /\ self' = [md EXCEPT !.buckets[i][j].value = value]
         /\ ret' = <<"put", TRUE, x.value>>
      \/ j = 0 /\ HC!InsertEntry("put", md, n, value)
  BY <1>1
<1> HIDE DEF j, i
<1>5. CASE j = 0 /\ HC!InsertEntry("put", md, n, value)
  <2>1. NoneNamed(In(md), n)
    BY <1>3, <1>5 DEF Finds
  <2>2. /\ OwnTable(self') /\ n \notin DOMAIN HC!Items
        /\ \/ /\ HC!Items' = HC!D!With(n, HC!D!Entry(n, value))
              /\ ret' = <<"put", TRUE>>
           \/ HC!Items' = HC!Items /\ ret' = <<"put", FALSE>>
    BY <1>2, <1>5, <2>1, HCInsert
  <2>3. CASE /\ HC!Items' = HC!D!With(n, HC!D!Entry(n, value))
             /\ ret' = <<"put", TRUE>>
    BY <2>2, <2>3 DEF HC!D!Put
  <2>4. CASE HC!Items' = HC!Items /\ ret' = <<"put", FALSE>>
    BY <2>2, <2>4 DEF HC!D!Put
  <2> QED
    BY <2>2, <2>3, <2>4
<1>6. CASE /\ j # 0 /\ self' = [md EXCEPT !.buckets[i][j].value = value]
           /\ ret' = <<"put", TRUE, x.value>>
  <2>1. /\ i \in 0 .. md.capacity - 1 /\ j \in 1 .. Len(md.buckets[i])
        /\ x \in In(md) /\ Named(x, n)
    BY <1>3, <1>6 DEF Finds
  <2>2. x \in MapEntry(StringNames)
    BY <1>2, <2>1, TableFacts
  <2>3. /\ x = [key |-> x.key, value |-> x.value] /\ x.key \in StringNames \X Copies
    <3> HIDE DEF x
    <3> QED
      BY <2>2 DEF MapEntry
  <2>4. e \in MapEntry(StringNames) /\ Named(e, n) /\ e.key = x.key
    BY <2>1, <2>3 DEF MapEntry, Named
  <2>5. EntrySet(self', md, i, j, e)
    <3>1. [x EXCEPT !.value = value] = e
      <4> HIDE DEF x
      <4>1. x = [key |-> x.key, value |-> x.value]
        BY <2>3
      <4> QED
        BY <4>1
    <3>2. self' = [md EXCEPT !.buckets = [md.buckets EXCEPT ![i] =
                      [md.buckets[i] EXCEPT ![j] = [x EXCEPT !.value = value]]]]
      BY <1>6
    <3> HIDE DEF x, e
    <3>3. self' = [md EXCEPT !.buckets = [md.buckets EXCEPT ![i] =
                      [md.buckets[i] EXCEPT ![j] = e]]]
      BY <3>1, <3>2
    <3> QED
      BY <3>3 DEF EntrySet
  <2> HIDE DEF e
  <2>6. Table(self', StringNames) /\ Kept(self', md) /\ In(self') = (In(md) \ {x}) \cup {e}
    <3>1. /\ StringNames \in SUBSET Nat /\ Table(md, StringNames) /\ e \in MapEntry(StringNames)
          /\ i \in 0 .. md.capacity - 1 /\ j \in 1 .. Len(md.buckets[i])
          /\ Named(e, n) /\ Named(md.buckets[i][j], n) /\ EntrySet(self', md, i, j, e)
      BY <1>2, <2>1, <2>4, <2>5
    <3> HIDE DEF x
    <3>2. /\ Table(self', StringNames) /\ Kept(self', md)
          /\ SetTo(In(md), In(self'), md.buckets[i][j], e)
      BY ONLY <3>1, TableReplace
    <3> QED
      BY <3>2 DEF x, SetTo
  <2>7. OwnTable(self')
    <3> DEFINE C == In(md)
    <3>1. /\ StringNames \in SUBSET Nat /\ C \in SUBSET MapEntry(StringNames)
          /\ Unique(C, NameIn(StringNames)) /\ x \in C
      BY <1>2, <2>1, TableFacts
    <3> HIDE DEF C, x
    <3>2. KeysOf((C \ {x}) \cup {e}) = KeysOf(C)
      BY <2>4, <3>1, KeysOfOthers
    <3>3. "strings" \in DOMAIN self' /\ self'.strings = md.strings
      BY <1>2, <2>6 DEF Kept, OwnTable
    <3> QED
      BY <1>2, <2>6, <3>2, <3>3 DEF OwnTable, C
  <2>8. /\ Mapping(all, StringNames) /\ Elems(all) = In(self)
        /\ Mapping(new, StringNames) /\ Elems(new) = In(self')
    BY <1>2, <2>6, TableMapping
  <2>9. In(md) \ {x} = Others(In(md), n)
    BY <1>2, <2>1, TableFacts, OneOfName
  <2> HIDE DEF x, all, new
  <2>10. Gets(Elems(new), Elems(all), n, e)
    BY <1>2, <2>6, <2>8, <2>9 DEF Gets
  <2>11. IsWith(ShownItems(new), ShownItems(all), n, [key |-> n, value |-> e.value])
    BY <1>2, <2>4, <2>8, <2>10, MapWith
  <2>12. HC!D!Entry(n, value) = [key |-> n, value |-> e.value]
    BY DEF HC!D!Entry, HC!KeyStored, e
  <2>13. HC!Items' = HC!D!With(n, HC!D!Entry(n, value))
    BY <2>11, <2>12, HCItems DEF IsWith, HC!D!With, all, new
  <2>14. n \in DOMAIN HC!Items /\ ret' = <<"put", TRUE, HC!ValueReplaced(HC!Items[n])>>
    BY <1>3, <1>6 DEF HC!ValueReplaced
  <2> QED
    BY <2>7, <2>13, <2>14 DEF HC!D!Put
<1> QED
  BY <1>4, <1>5, <1>6

\* putUnique leaves a HashCSKMap sound and is putUnique of the dictionary.
LEMMA HCPutUnique ==
  ASSUME OwnTable(self), NEW n \in StringNames, NEW value \in Copies, HC!PutUnique(n, value)
  PROVE  OwnTable(self') /\ HC!D!PutUnique
<1>1. PICK md \in HM!Checked(self) :
        \/ HC!FindKey(md, n) = 0 /\ HC!InsertEntry("putUnique", md, n, value)
        \/ self' = md /\ ret' = <<"putUnique", FALSE>>
  BY HCData DEF HC!PutUnique
<1>2. OwnTable(md) /\ In(md) = In(self)
  BY HCChecked
<1>3. CASE HC!FindKey(md, n) = 0 /\ HC!InsertEntry("putUnique", md, n, value)
  <2>1. NoneNamed(In(md), n)
    <3>1. Finds(md, n, HC!Hash(n, md.capacity), HC!FindKey(md, n))
      BY <1>2, HCFind
    <3> QED
      BY <1>3, <3>1 DEF Finds
  <2>2. /\ OwnTable(self') /\ n \notin DOMAIN HC!Items
        /\ \/ /\ HC!Items' = HC!D!With(n, HC!D!Entry(n, value))
              /\ ret' = <<"putUnique", TRUE>>
           \/ HC!Items' = HC!Items /\ ret' = <<"putUnique", FALSE>>
    BY <1>3, <2>1, HCInsert
  <2>3. CASE /\ HC!Items' = HC!D!With(n, HC!D!Entry(n, value))
             /\ ret' = <<"putUnique", TRUE>>
    BY <2>2, <2>3 DEF HC!D!PutUnique
  <2>4. CASE HC!Items' = HC!Items /\ ret' = <<"putUnique", FALSE>>
    BY <2>2, <2>4 DEF HC!D!PutUnique
  <2> QED
    BY <2>2, <2>3, <2>4
<1>4. CASE self' = md /\ ret' = <<"putUnique", FALSE>>
  <2>1. OwnTable(self') /\ HC!Items' = HC!Items
    BY <1>4, HCUnchanged
  <2> QED
    BY <1>4, <2>1 DEF HC!D!PutUnique
<1> QED
  BY <1>1, <1>3, <1>4

\* containsKey and get are questions to the dictionary.
LEMMA HCGet ==
  ASSUME OwnTable(self), NEW n \in StringNames, HC!ContainsKey(n) \/ HC!Get(n)
  PROVE  OwnTable(self') /\ HC!D!Get
<1> DEFINE j == HC!FindKey(self, n)
           i == HC!Hash(n, self.capacity)
           v == self.buckets[i][j].value
<1>1. UNCHANGED self
  BY DEF HC!ContainsKey, HC!Get, HC!M!ContainsKey, HC!M!Get
<1>2. OwnTable(self') /\ HC!Items' = HC!Items
  BY <1>1, HCSame
<1>3. /\ (j # 0) <=> (n \in DOMAIN HC!Items)
      /\ j # 0 => HC!Items[n] = [key |-> n, value |-> v]
  BY HCFind
<1>4. \/ ret' = <<"containsKey", n, j # 0>>
      \/ ret' = IF j # 0 THEN <<"get", n, TRUE, v>> ELSE <<"get", n, FALSE>>
  BY DEF HC!ContainsKey, HC!Get, HC!M!ContainsKey, HC!M!Get, HC!FindKey, HC!Hash
<1> HIDE DEF j, v
<1>5. CASE ret' = <<"containsKey", n, j # 0>>
  BY <1>2, <1>3, <1>5 DEF HC!D!Get
<1>6. CASE j # 0 /\ ret' = <<"get", n, TRUE, v>>
  <2>1. n \in DOMAIN HC!Items /\ HC!Items[n].value = v
    BY <1>3, <1>6
  <2>2. /\ ret'[1] = "get" /\ ret'[2] = n /\ ret'[3] = TRUE /\ ret'[4] = v
        /\ (n \in DOMAIN HC!Items) = TRUE
    BY <1>6, <2>1
  <2> QED
    BY <1>2, <2>1, <2>2 DEF HC!D!Get
<1>7. CASE j = 0 /\ ret' = <<"get", n, FALSE>>
  <2>1. n \notin DOMAIN HC!Items /\ ret'[1] = "get" /\ ret'[2] = n /\ ret'[3] = FALSE
    BY <1>3, <1>7
  <2>2. (n \in DOMAIN HC!Items) = FALSE
    BY <2>1
  <2> QED
    BY <1>2, <2>1, <2>2 DEF HC!D!Get
<1> QED
  BY <1>4, <1>5, <1>6, <1>7

\* remove leaves a HashCSKMap sound, frees the key, and is remove of the dictionary.
LEMMA HCRemove ==
  ASSUME OwnTable(self), NEW n \in StringNames, HC!Remove(n)
  PROVE  OwnTable(self') /\ HC!D!Remove
<1> DEFINE j == HC!FindKey(self, n)
           i == HC!Hash(n, self.capacity)
           x == self.buckets[i][j]
           all == HM!Entries(self)
           new == HM!Entries(self')
<1>1. StringNames \in SUBSET Nat /\ Table(self, StringNames)
  BY HCData DEF OwnTable
<1>2. /\ Finds(self, n, i, j)
      /\ (j # 0) <=> (n \in DOMAIN HC!Items)
      /\ j # 0 => HC!Items[n] = [key |-> n, value |-> x.value]
  BY HCFind
<1>3. CASE j = 0 /\ UNCHANGED self /\ ret' = <<"remove", n, FALSE>>
  <2>1. OwnTable(self') /\ HC!Items' = HC!Items
    BY <1>3, HCSame
  <2> QED
    BY <1>2, <1>3, <2>1 DEF HC!D!Remove
<1>4. CASE /\ j # 0 /\ ret' = <<"remove", n, TRUE, HC!Shown(x)>>
           /\ self' = [self EXCEPT !.buckets[i] = Unlinked(@, j), !.size = @ - 1,
                                   !.load = @ - HM!Increment(self), !.changes = @ + 1,
                                   !.strings = @ \ {x.key}]
  <2>1. /\ i \in 0 .. self.capacity - 1
        /\ j \in 1 .. Len(self.buckets[i]) /\ x \in In(self) /\ Named(x, n)
    BY <1>2, <1>4 DEF Finds
  <2> HIDE DEF i, j
  <2>2. TableFields \cup {"strings"} \subseteq DOMAIN self
    BY DEF OwnTable, Table, TableFields
  <2>3. Unlinks(self', self, i, j)
    BY <1>4, <2>2 DEF Unlinks, Replaces, TableFields
  <2>4. "strings" \in DOMAIN self' /\ self'.strings = self.strings \ {x.key}
    BY <1>4, <2>2 DEF TableFields
  <2>5. Table(self', StringNames) /\ In(self') = In(self) \ {x}
    BY <1>1, <2>1, <2>3, TableUnlink
  <2>6. /\ In(self) \in SUBSET MapEntry(StringNames) /\ Unique(In(self), NameIn(StringNames))
    BY <1>1, TableFacts
  <2>7. /\ Mapping(all, StringNames) /\ Elems(all) = In(self)
        /\ Mapping(new, StringNames) /\ Elems(new) = In(self')
    BY <1>1, <2>5, TableMapping
  <2>8. HC!Shown(x) = [key |-> n, value |-> x.value]
    BY <2>1, HCData DEF Named
  <2> HIDE DEF x, all, new
  <2>9. In(self) \ {x} = Others(In(self), n)
    BY <1>1, <2>1, <2>6, OneOfName
  <2>10. KeysOf(In(self) \ {x}) = KeysOf(In(self)) \ {x.key}
    BY <1>1, <2>1, <2>6, KeysOfOthers
  <2>11. OwnTable(self')
    BY <2>4, <2>5, <2>10 DEF OwnTable
  <2>12. Loses(Elems(new), Elems(all), n)
    BY <2>5, <2>7, <2>9 DEF Loses
  <2>13. IsWithout(ShownItems(new), ShownItems(all), n)
    BY <1>1, <2>7, <2>12, MapWithout
  <2>14. HC!Items' = HC!D!Without(n)
    BY <2>13, HCItems DEF IsWithout, HC!D!Without, all, new
  <2> QED
    BY <1>2, <1>4, <2>8, <2>11, <2>14 DEF HC!D!Remove
<1>5. \/ /\ j # 0 /\ ret' = <<"remove", n, TRUE, HC!Shown(x)>>
         /\ self' = [self EXCEPT !.buckets[i] = Unlinked(@, j), !.size = @ - 1,
                                 !.load = @ - HM!Increment(self), !.changes = @ + 1,
                                 !.strings = @ \ {x.key}]
      \/ j = 0 /\ UNCHANGED self /\ ret' = <<"remove", n, FALSE>>
  BY HCData DEF HC!Remove
<1> QED
  BY <1>3, <1>4, <1>5

\* What lists a map with string keys, and the dictionary's Cardinality.
LEMMA HCLists ==
  ASSUME OwnTable(self)
  PROVE  /\ HC!D!Lists(HC!ShownEntries) /\ HC!D!Cardinality(DOMAIN HC!Items) = self.size
         /\ LET shown == HC!ShownEntries
                names == [i \in DOMAIN shown |-> shown[i].key]
            IN /\ Len(names) = self.size
               /\ {names[i] : i \in 1 .. self.size} = DOMAIN HC!Items
<1> DEFINE all == HM!Entries(self)
           shown == ShownOf(all)
           names == [i \in DOMAIN shown |-> shown[i].key]
<1>1. StringNames \in SUBSET Nat /\ Table(self, StringNames)
  BY HCData DEF OwnTable
<1>2. /\ Mapping(all, StringNames) /\ Len(all) = self.size /\ HC!Items = ShownItems(all)
      /\ HC!ShownEntries = shown
  BY <1>1, TableMapping, HCItems, HCData
<1>3. \A X : HC!D!Cardinality(X) = Cardinality(X)
  BY DEF HC!D!Cardinality, Cardinality
<1>4. Lists(shown, HC!Items) /\ ListsNames(names, HC!Items) /\ Len(shown) = self.size
  <2> HIDE DEF all
  <2> QED
    BY <1>1, <1>2, MapLists
<1> HIDE DEF shown
<1>5. HC!D!Lists(shown) /\ HC!D!Cardinality(DOMAIN HC!Items) = self.size
  BY <1>3, <1>4 DEF Lists, HC!D!Lists
<1> HIDE DEF names
<1>6. Len(names) = self.size /\ {names[i] : i \in 1 .. self.size} = DOMAIN HC!Items
  BY <1>3, <1>4, <1>5 DEF ListsNames
<1> QED
  BY <1>2, <1>5, <1>6 DEF names

\* clear and destroy leave a sound, empty HashCSKMap and free every key.
LEMMA HCEmpty ==
  ASSUME OwnTable(self), HC!Clear \/ HC!Destroy
  PROVE  OwnTable(self') /\ HC!D!Empty
<1>1. StringNames \in SUBSET Nat /\ Table(self, StringNames)
  BY HCData DEF OwnTable
<1>2. self.strings \ HC!Keys(self) = {}
  BY <1>1, KeysListed DEF OwnTable
<1>3. OwnTable(self') /\ In(self') = {}
  <2>1. CASE HC!Clear
    <3> DEFINE n == self.capacity
               purged == HC!Purged(self)
    <3>1. /\ TableFields \cup {"strings"} \subseteq DOMAIN self
          /\ n \in 1 .. MAX_CAPACITY /\ DOMAIN self.buckets = 0 .. n - 1
      BY <1>1 DEF OwnTable, Table, Filed, TableFields
    <3>2. purged = [[self EXCEPT !.buckets = [i \in DOMAIN @ |-> <<>>]]
                      EXCEPT !.strings = @ \ HC!Keys(self)]
      BY DEF HC!Purged, HC!M!Purged
    <3>3. /\ DOMAIN purged = DOMAIN self /\ purged.strings = {} /\ purged.capacity = n
          /\ purged.buckets = [i \in 0 .. n - 1 |-> <<>>]
      BY <1>2, <3>1, <3>2 DEF TableFields
    <3> HIDE DEF purged
    <3>4. self' = [purged EXCEPT !.size = 0, !.load = 0, !.changes = 0]
      BY <2>1 DEF HC!Clear, purged
    <3>5. /\ {"size", "capacity", "changes", "load", "buckets"} \subseteq DOMAIN self'
          /\ self'.capacity = n /\ self'.size = 0 /\ self'.changes = 0 /\ self'.load = 0
          /\ self'.buckets = [i \in 0 .. n - 1 |-> <<>>]
          /\ "strings" \in DOMAIN self' /\ self'.strings = {}
      BY <3>1, <3>3, <3>4 DEF TableFields
    <3> HIDE <3>4
    <3>6. Table(self', StringNames) /\ In(self') = {}
      BY <1>1, <3>1, <3>5, TableEmpty
    <3> QED
      BY <3>5, <3>6 DEF OwnTable, KeysOf
  <2>2. CASE HC!Destroy
    <3> DEFINE new == HC!NewCSKMap(self.capacity)
    <3>1. self.capacity \in Int
      BY <1>1, TableUnits DEF Table
    <3>2. OwnTable(new) /\ In(new) = {} /\ new.strings = {}
      BY <3>1, HCNewMap
    <3>3. HC!Purged(self).strings = {}
      <4>1. "strings" \in DOMAIN self /\ "buckets" \in DOMAIN self
        BY <1>1 DEF OwnTable, Table
      <4>2. HC!Purged(self) = [[self EXCEPT !.buckets = [i \in DOMAIN @ |-> <<>>]]
                                 EXCEPT !.strings = @ \ HC!Keys(self)]
        BY DEF HC!Purged, HC!M!Purged
      <4> QED
        BY <1>2, <4>1, <4>2
    <3> HIDE DEF new
    <3>4. self' = [new EXCEPT !.strings = {}]
      BY <2>2, <3>3 DEF HC!Destroy, new
    <3>5. TableFields \cup {"strings"} \subseteq DOMAIN new
      BY <3>2 DEF OwnTable, Table, TableFields
    <3>6. SameTable(self', new) /\ "strings" \in DOMAIN self' /\ self'.strings = {}
      BY <3>4, <3>5 DEF SameTable, TableFields
    <3>7. Table(self', StringNames) /\ In(self') = {}
      BY <1>1, <3>2, <3>6, TableSame DEF OwnTable
    <3> QED
      BY <3>6, <3>7 DEF OwnTable, KeysOf
  <2> QED
    BY <2>1, <2>2
<1>4. Mapping(HM!Entries(self'), StringNames) /\ Elems(HM!Entries(self')) = {}
  BY <1>1, <1>3, TableMapping DEF OwnTable
<1>5. HC!Items' = HC!D!NoItems
  BY <1>1, <1>4, MapNone, HCItems DEF HC!D!NoItems
<1>6. HC!D!Lists(HC!ShownEntries)
  BY HCLists
<1>7. ret'[1] \in {"clear", "destroy"} /\ ret'[2] = HC!ShownEntries
  BY DEF HC!Clear, HC!Destroy
<1> QED
  BY <1>3, <1>5, <1>6, <1>7 DEF HC!D!Empty

\* size, entryArray and itCreate answer as the dictionary does.
LEMMA HCAsk ==
  ASSUME OwnTable(self), HC!Size \/ HC!ToArray \/ HC!ItCreate
  PROVE  OwnTable(self') /\ (HC!D!Size \/ HC!D!Array \/ HC!D!Iterate)
<1> DEFINE shown == HC!ShownEntries
           names == [i \in DOMAIN shown |-> shown[i].key]
<1>1. UNCHANGED self
  BY DEF HC!Size, HC!M!Size, HC!ToArray, HC!ItCreate
<1>2. OwnTable(self') /\ HC!Items' = HC!Items
  BY <1>1, HCSame
<1>3. /\ HC!D!Lists(shown) /\ HC!D!Cardinality(DOMAIN HC!Items) = self.size
      /\ Len(names) = self.size /\ {names[i] : i \in 1 .. self.size} = DOMAIN HC!Items
  BY HCLists
<1>4. CASE HC!Size
  BY <1>2, <1>3, <1>4 DEF HC!Size, HC!M!Size, HC!D!Size
<1>5. CASE HC!ToArray
  <2>1. ret' = <<"array", shown>> \/ ret' = <<"array">>
    BY <1>5 DEF HC!ToArray
  <2> HIDE DEF shown, names
  <2> QED
    BY <1>2, <1>3, <2>1 DEF HC!D!Array
<1>6. CASE HC!ItCreate
  <2>1. ret' = <<"iterator", self.size, names>> \/ ret' = <<"iterator">>
    BY <1>6 DEF HC!ItCreate
  <2> HIDE DEF shown, names
  <2>2. CASE ret' = <<"iterator">>
    BY <1>2, <2>2 DEF HC!D!Iterate
  <2>3. CASE ret' = <<"iterator", self.size, names>>
    <3>1. ret'[1] = "iterator" /\ ret'[2] = self.size /\ ret'[3] = names
      BY <2>3
    <3> QED
      BY <1>2, <1>3, <3>1 DEF HC!D!Iterate
  <2> QED
    BY <2>1, <2>2, <2>3
<1> QED
  BY <1>2, <1>4, <1>5, <1>6

\* Every call leaves a HashCSKMap sound and is one of the dictionary.
LEMMA HCCalled ==
  ASSUME OwnTable(self), HC!Next
  PROVE  OwnTable(self') /\ HC!D!DictNext
<1>1. CASE \E n \in StringNames, value \in Copies : HC!Put(n, value) \/ HC!PutUnique(n, value)
  BY <1>1, HCPut, HCPutUnique DEF HC!D!DictNext
<1>2. CASE \E n \in StringNames : HC!ContainsKey(n) \/ HC!Get(n) \/ HC!Remove(n)
  BY <1>2, HCGet, HCRemove DEF HC!D!DictNext
<1>3. CASE HC!Clear \/ HC!Destroy
  BY <1>3, HCEmpty DEF HC!D!DictNext
<1>4. CASE HC!Size \/ HC!ToArray \/ HC!ItCreate
  BY <1>4, HCAsk DEF HC!D!DictNext
<1> QED
  BY <1>1, <1>2, <1>3, <1>4 DEF HC!Next

-----------------------------------------------------------------------------
(* HashBag: a table of members.                                            *)

BagName == [x \in BagMembers |-> x[1]]
BagFields == {"size", "capacity", "load", "buckets"}

BagTable(bd) ==
  /\ BagFields \subseteq DOMAIN bd
  /\ bd.capacity \in 1 .. MAX_CAPACITY /\ bd.load \in Int
  /\ Filed(bd.buckets, bd.capacity, BagMembers, BagName)
  /\ bd.size = Cardinality(In(bd))
  /\ bd.capacity < MAX_CAPACITY => IsLoad(bd.load, bd.capacity, bd.size, UNITS)

\* The operators of the bag on buckets are those of the tables.
LEMMA BagData ==
  /\ \A b, n : HB!InBuckets(b, n) = InBuckets(b, n)
  /\ \A all, place, n : HB!Pushed(all, place, n) = Pushed(all, place, n)
  /\ \A c, j : HB!Unlinked(c, j) = Unlinked(c, j)
  /\ \A X : HB!Cardinality(X) = Cardinality(X) /\ HB!M!Cardinality(X) = Cardinality(X)
<1>1. \A X : HB!Cardinality(X) = Cardinality(X) /\ HB!M!Cardinality(X) = Cardinality(X)
  BY DEF HB!Cardinality, HB!M!Cardinality, Cardinality
<1> QED
  BY <1>1 DEF HB!InBuckets, InBuckets, HB!Pushed, Pushed, HB!Unlinked, Unlinked

\* The name of a member is its first component.
LEMMA BagNameIs ==
  /\ BagName \in [BagMembers -> Nat]
  /\ \A x \in BagMembers : BagName[x] = x[1] /\ x[1] \in Nat /\ x = <<x[1], x[2]>>
<1>1. \A x \in BagMembers : x[1] \in Nat /\ x = <<x[1], x[2]>>
  BY KeyedAssumption DEF BagMembers
<1> QED
  BY <1>1 DEF BagName

\* What a sound bag is made of.
LEMMA BagFacts ==
  ASSUME NEW bd, BagTable(bd)
  PROVE  /\ bd.capacity \in Nat \ {0} /\ bd.capacity \in Nat
         /\ bd.capacity \in 1 .. MAX_CAPACITY
         /\ Filed(bd.buckets, bd.capacity, BagMembers, BagName)
         /\ In(bd) \subseteq BagMembers /\ In(bd) = Within(bd.buckets, bd.capacity)
         /\ IsFiniteSet(In(bd)) /\ bd.size = Cardinality(In(bd)) /\ bd.size \in Nat
         /\ HB!Elemts(bd) = InBuckets(bd.buckets, bd.capacity)
         /\ HB!Elemts(bd) \in Seq(BagMembers) /\ Distinct(HB!Elemts(bd))
         /\ Elems(HB!Elemts(bd)) = In(bd) /\ Len(HB!Elemts(bd)) = bd.size
<1> DEFINE n == bd.capacity
           b == bd.buckets
           E == BagMembers
<1>1. n \in 1 .. MAX_CAPACITY /\ Filed(b, n, E, BagName) /\ bd.size = Cardinality(In(bd))
  BY DEF BagTable
<1>2. n \in Nat \ {0} /\ n \in Nat /\ 0 \in 0 .. n - 1
  BY <1>1, TableUnits
<1>3. BagName \in [E -> Nat]
  BY BagNameIs
<1>4. HB!Elemts(bd) = InBuckets(b, n)
  BY BagData DEF HB!Elemts
<1>5. In(bd) = Within(b, n)
  BY DEF In
<1> HIDE DEF n, b, E
<1>6. Within(b, n) \subseteq E
  BY <1>1, <1>2, <1>3, BucketOf
<1>7. /\ InBuckets(b, n) \in Seq(E) /\ Distinct(InBuckets(b, n))
      /\ Elems(InBuckets(b, n)) = Within(b, n)
      /\ IsFiniteSet(Within(b, n)) /\ Len(InBuckets(b, n)) = Cardinality(Within(b, n))
  BY <1>1, <1>2, FiledLists
<1>8. bd.size \in Nat
  BY <1>1, <1>5, <1>7, FS_CardinalityType
<1> QED
  BY <1>1, <1>2, <1>3, <1>4, <1>5, <1>6, <1>7, <1>8 DEF n, b, E

\* TableOK and LoadIsSizeByCapacity say just that.
BagIs(bd) ==
  /\ BagFields \subseteq DOMAIN bd
  /\ bd.capacity \in 1 .. MAX_CAPACITY /\ bd.load \in Int
  /\ bd.buckets \in [0 .. bd.capacity - 1 -> Seq(BagMembers)]
  /\ \A i \in 0 .. bd.capacity - 1 :
       LET chain == bd.buckets[i]
       IN \A j, k \in 1 .. Len(chain) : /\ chain[j][1] % bd.capacity = i
                                        /\ chain[j] = chain[k] => j = k
  /\ bd.size = Len(InBuckets(bd.buckets, bd.capacity))
  /\ bd.capacity < MAX_CAPACITY => bd.load * bd.capacity = bd.size * UNITS

\* A sound bag, as the model and as the lemmas say it.
LEMMA BagTableIs ==
  ASSUME NEW bd
  PROVE  BagIs(bd) <=> BagTable(bd)
<1> DEFINE E == BagMembers
           n == bd.capacity
           b == bd.buckets
           PerChain ==
             \A i \in 0 .. n - 1 :
               \A j, k \in 1 .. Len(b[i]) : /\ b[i][j][1] % n = i
                                            /\ b[i][j] = b[i][k] => j = k
<1>1. n \in 1 .. MAX_CAPACITY => n \in Nat
  BY TableUnits
<1>2. ASSUME n \in 1 .. MAX_CAPACITY, b \in [0 .. n - 1 -> Seq(E)], PerChain
      PROVE  Filed(b, n, E, BagName)
  <2>1. ASSUME NEW i \in 0 .. n - 1
        PROVE  Distinct(b[i]) /\ \A x \in Elems(b[i]) : BagName[x] % n = i
    <3>1. Distinct(b[i])
      BY <1>2 DEF Distinct
    <3>2. ASSUME NEW j \in 1 .. Len(b[i]) PROVE BagName[b[i][j]] % n = i
      <4>1. b[i][j] \in E /\ b[i][j][1] % n = i
        BY <1>2
      <4>2. BagName[b[i][j]] = b[i][j][1]
        BY <4>1, BagNameIs
      <4> QED
        BY <4>1, <4>2
    <3> QED
      BY <3>1, <3>2 DEF Elems
  <2> QED
    BY <1>2, <2>1 DEF Filed
<1>3. ASSUME n \in 1 .. MAX_CAPACITY, Filed(b, n, E, BagName)
      PROVE  b \in [0 .. n - 1 -> Seq(E)] /\ PerChain
  <2>1. b \in [0 .. n - 1 -> Seq(E)]
    BY <1>3 DEF Filed
  <2>2. ASSUME NEW i \in 0 .. n - 1, NEW j \in 1 .. Len(b[i]), NEW k \in 1 .. Len(b[i])
        PROVE  b[i][j][1] % n = i /\ (b[i][j] = b[i][k] => j = k)
    <3>1. b[i][j] \in E
      <4>1. b[i] \in Seq(E)
        BY <2>1
      <4> HIDE DEF b, E
      <4> QED
        BY <4>1
    <3>2. b[i][j] \in Elems(b[i])
      BY DEF Elems
    <3>3. BagName[b[i][j]] % n = i /\ (b[i][j] = b[i][k] => j = k)
      BY <1>3, <3>2 DEF Filed, Distinct
    <3>4. BagName[b[i][j]] = b[i][j][1]
      BY <3>1, BagNameIs
    <3> QED
      BY <3>3, <3>4
  <2> QED
    BY <2>1, <2>2
<1>4. ASSUME n \in 1 .. MAX_CAPACITY, Filed(b, n, E, BagName)
      PROVE  Len(InBuckets(b, n)) = Cardinality(In(bd))
  BY <1>1, <1>4, FiledLists DEF In
<1>5. ASSUME BagIs(bd) PROVE BagTable(bd)
  <2>1. /\ n \in 1 .. MAX_CAPACITY /\ b \in [0 .. n - 1 -> Seq(E)] /\ PerChain
        /\ bd.size = Len(InBuckets(b, n))
    BY <1>5 DEF BagIs
  <2>2. Filed(b, n, E, BagName) /\ bd.size = Cardinality(In(bd))
    BY <1>2, <1>4, <2>1
  <2> HIDE DEF PerChain
  <2> QED
    BY <1>5, <2>2 DEF BagIs, BagTable, IsLoad
<1>6. ASSUME BagTable(bd) PROVE BagIs(bd)
  <2>1. n \in 1 .. MAX_CAPACITY /\ Filed(b, n, E, BagName) /\ bd.size = Cardinality(In(bd))
    BY <1>6 DEF BagTable
  <2>2. /\ b \in [0 .. n - 1 -> Seq(E)] /\ PerChain
        /\ bd.size = Len(InBuckets(b, n))
    BY <1>3, <1>4, <2>1
  <2> QED
    BY <1>6, <2>2 DEF BagIs, BagTable, IsLoad
<1> QED
  BY <1>5, <1>6

\* StructuresSound asks of a HashBag that it is a sound bag.
LEMMA BagSound ==
  /\ HB!TableOK /\ HB!LoadIsSizeByCapacity <=> BagTable(self)
  /\ HB!TableOK' /\ HB!LoadIsSizeByCapacity' <=> BagTable(self')
<1>1. HB!TableOK /\ HB!LoadIsSizeByCapacity <=> BagIs(self)
  BY BagData DEF HB!TableOK, HB!LoadIsSizeByCapacity, BagIs, BagFields,
                 HB!Elemts, HB!Hash, HB!Name
<1>2. HB!TableOK' /\ HB!LoadIsSizeByCapacity' <=> BagIs(self')
  BY BagData DEF HB!TableOK, HB!LoadIsSizeByCapacity, BagIs, BagFields,
                 HB!Elemts, HB!Hash, HB!Name
<1> QED
  BY <1>1, <1>2, BagTableIs

\* The bag's items are what is in its table, each listed once.
LEMMA BagItems ==
  /\ BagTable(self) => HB!Items = In(self) /\ HB!M!Lists(HB!Elemts(self))
                       /\ HB!M!Cardinality(HB!Items) = self.size
                       /\ \A x : HB!InBag(x) <=> x \in In(self)
  /\ BagTable(self') => HB!Items' = In(self')
<1>1. ASSUME NEW bd, BagTable(bd)
      PROVE  LET all == HB!Elemts(bd) IN {all[i] : i \in DOMAIN all} = In(bd)
  <2> DEFINE all == HB!Elemts(bd)
  <2>1. all \in Seq(BagMembers) /\ Elems(all) = In(bd)
    BY <1>1, BagFacts
  <2> HIDE DEF all
  <2>2. DOMAIN all = 1 .. Len(all)
    BY <2>1
  <2>3. {all[i] : i \in DOMAIN all} = In(bd)
    BY <2>1, <2>2 DEF Elems
  <2> QED
    BY <2>3 DEF all
<1>2. ASSUME BagTable(self)
      PROVE  /\ HB!Items = In(self) /\ HB!M!Lists(HB!Elemts(self))
             /\ HB!M!Cardinality(HB!Items) = self.size
             /\ \A x : HB!InBag(x) <=> x \in In(self)
  <2> DEFINE all == HB!Elemts(self)
  <2>1. {all[i] : i \in DOMAIN all} = In(self)
    BY <1>1, <1>2
  <2>2. HB!Items = In(self)
    BY <2>1 DEF HB!Items
  <2>3. Len(all) = Cardinality(In(self)) /\ self.size = Cardinality(In(self))
    BY <1>2, BagFacts
  <2> HIDE DEF all
  <2>4. HB!M!Lists(all)
    BY <2>1, <2>2, <2>3, BagData DEF HB!M!Lists
  <2>5. \A x : HB!InBag(x) <=> x \in In(self)
    BY <2>1 DEF HB!InBag, all
  <2> QED
    BY <2>2, <2>3, <2>4, <2>5, BagData DEF all
<1>3. ASSUME BagTable(self') PROVE HB!Items' = In(self')
  BY <1>1, <1>3 DEF HB!Items
<1> QED
  BY <1>2, <1>3

\* A table of empty buckets is a sound, empty bag.
LEMMA BagEmpty ==
  ASSUME NEW bd, BagFields \subseteq DOMAIN bd, bd.capacity \in 1 .. MAX_CAPACITY,
         bd.size = 0, bd.load = 0, bd.buckets = [i \in 0 .. bd.capacity - 1 |-> <<>>]
  PROVE  BagTable(bd) /\ In(bd) = {}
<1> DEFINE n == bd.capacity
           b == [i \in 0 .. n - 1 |-> <<>>]
<1>1. n \in Nat /\ UNITS \in Nat
  BY TableUnits
<1>2. Filed(b, n, BagMembers, BagName) /\ Within(b, n) = {}
  <2> HIDE DEF n
  <2> QED
    BY <1>1, FiledNone
<1>3. In(bd) = {} /\ Filed(bd.buckets, n, BagMembers, BagName)
  BY <1>2 DEF In
<1>4. bd.size = Cardinality(In(bd))
  BY <1>3, FS_EmptySet
<1>5. IsLoad(bd.load, n, bd.size, UNITS)
  <2> HIDE DEF n
  <2> QED
    BY <1>1 DEF IsLoad
<1> QED
  BY <1>3, <1>4, <1>5 DEF BagTable

\* HashBag() makes such a table, of any capacity it is asked for.
LEMMA BagNewIs ==
  ASSUME NEW capacity \in Int
  PROVE  BagTable(HB!NewBag(capacity)) /\ In(HB!NewBag(capacity)) = {}
<1> DEFINE cap == IF capacity > 0 THEN capacity ELSE DEFAULT_CAPACITY
           N == IF cap > MAX_CAPACITY THEN MAX_CAPACITY ELSE cap
           new == HB!NewBag(capacity)
<1>1. N \in 1 .. MAX_CAPACITY
  <2>1. cap \in Nat \ {0}
    BY TableUnits
  <2>2. MAX_CAPACITY \in Nat \ {0}
    BY TableUnits
  <2> HIDE DEF cap
  <2> QED
    BY <2>1, <2>2
<1>2. new = [size |-> 0, capacity |-> N, load |-> 0, buckets |-> [i \in 0 .. N - 1 |-> <<>>]]
  BY DEF HB!NewBag
<1> HIDE DEF new, N
<1>3. /\ BagFields \subseteq DOMAIN new /\ new.capacity \in 1 .. MAX_CAPACITY
      /\ new.size = 0 /\ new.load = 0
      /\ new.buckets = [i \in 0 .. new.capacity - 1 |-> <<>>]
  BY <1>1, <1>2 DEF BagFields
<1> QED
  BY <1>3, BagEmpty DEF new

\* A new HashBag is sound.
LEMMA BagNew ==
  ASSUME HB!Init PROVE BagTable(self)
BY BagNewIs, TableUnits DEF HB!Init

\* A resize keeps a bag sound and loses no member.
LEMMA BagResized ==
  ASSUME NEW bd, BagTable(bd)
  PROVE  BagTable(HB!Resize(bd)) /\ In(HB!Resize(bd)) = In(bd)
<1> DEFINE n == bd.capacity
           N == IF 2 * n > MAX_CAPACITY THEN MAX_CAPACITY ELSE 2 * n
           all == HB!Elemts(bd)
           E == BagMembers
           h == BagName
           place == [k \in DOMAIN all |-> HB!Hash(HB!Name(all[k]), N)]
           b == Pushed(all, place, N)
           new == HB!Resize(bd)
<1>1. /\ n \in Nat \ {0} /\ n \in 1 .. MAX_CAPACITY /\ h \in [E -> Nat]
      /\ bd.size = Cardinality(In(bd)) /\ bd.size \in Nat
      /\ all \in Seq(E) /\ Distinct(all) /\ Elems(all) = In(bd)
  BY BagFacts, BagNameIs
<1>2. new = IF N = n THEN bd
            ELSE [bd EXCEPT !.buckets = b, !.capacity = N, !.load = @ \div 2]
  BY BagData DEF HB!Resize
<1> HIDE DEF new
<1>3. CASE N = n
  BY <1>2, <1>3 DEF new
<1>4. CASE N # n
  <2>1. MAX_CAPACITY \in Nat
    BY TableUnits
  <2>2. N \in 1 .. MAX_CAPACITY /\ N \in Nat \ {0} /\ N \in Nat
    BY <1>1, <2>1
  <2>3. \A k \in 1 .. Len(all) : place[k] = h[all[k]] % N
    <3>1. ASSUME NEW k \in 1 .. Len(all) PROVE place[k] = h[all[k]] % N
      <4>1. k \in DOMAIN all /\ all[k] \in E
        <5> HIDE DEF all, E
        <5> QED
          BY <1>1
      <4>2. h[all[k]] = all[k][1]
        <5> HIDE DEF all
        <5> QED
          BY <4>1, BagNameIs
      <4> HIDE DEF all, N, h
      <4> QED
        BY <4>1, <4>2 DEF HB!Hash, HB!Name
    <3> QED
      BY <3>1
  <2> HIDE DEF place, all, N, E, h
  <2>4. Filed(b, N, E, h) /\ Within(b, N) = Elems(all)
    <3>1. /\ h \in [E -> Nat] /\ N \in Nat \ {0} /\ all \in Seq(E) /\ Distinct(all)
          /\ b = Pushed(all, place, N)
      BY <1>1, <2>2
    <3> HIDE DEF b
    <3> QED
      BY ONLY <2>3, <3>1, FiledPushed
  <2> HIDE DEF b
  <2>5. BagFields \subseteq DOMAIN bd
    BY DEF BagTable
  <2>6. /\ BagFields \subseteq DOMAIN new /\ new.buckets = b /\ new.capacity = N
        /\ new.load = bd.load \div 2 /\ new.size = bd.size
    BY <1>2, <1>4, <2>5 DEF BagFields
  <2>8. In(new) = In(bd)
    BY <1>1, <2>4, <2>6 DEF In
  <2>9. bd.load \in Int /\ (bd.load \div 2) \in Int /\ UNITS \in Nat /\ bd.size \in Int
    <3>1. bd.load \in Int
      BY DEF BagTable
    <3> QED
      BY <1>1, <3>1, TableUnits
  <2>10. N < MAX_CAPACITY => IsLoad(bd.load \div 2, N, bd.size, UNITS)
    <3>1. SUFFICES ASSUME N < MAX_CAPACITY PROVE IsLoad(bd.load \div 2, N, bd.size, UNITS)
      OBVIOUS
    <3>2. N = 2 * n /\ n < MAX_CAPACITY
      BY <1>1, <2>1, <3>1 DEF N
    <3>3. IsLoad(bd.load, n, bd.size, UNITS)
      BY <3>2 DEF BagTable
    <3>4. Splits(UNITS, n)
      BY <1>1, TableUnits
    <3>6. UNITS \in Nat /\ n \in Nat \ {0} /\ bd.load \in Int /\ bd.size \in Int
      BY <1>1, <2>9
    <3> HIDE DEF n
    <3>5. IsLoad(bd.load \div 2, 2 * n, bd.size, UNITS)
      BY ONLY <3>6, <3>3, <3>4, LoadHalved
    <3> QED
      BY <3>2, <3>5
  <2>11. Filed(new.buckets, new.capacity, BagMembers, BagName)
    BY <2>4, <2>6 DEF E, h
  <2>12. new.size = Cardinality(In(new))
    BY <1>1, <2>6, <2>8
  <2>14. /\ new.capacity \in 1 .. MAX_CAPACITY /\ new.load \in Int
         /\ new.capacity < MAX_CAPACITY => IsLoad(new.load, new.capacity, new.size, UNITS)
    BY <2>2, <2>6, <2>9, <2>10
  <2>15. BagTable(new)
    BY <2>6, <2>11, <2>12, <2>14 DEF BagTable
  <2> QED
    BY <2>8, <2>15 DEF new
<1> QED
  BY <1>3, <1>4 DEF new

\* A member that is inserted is in the bag besides the others.
LEMMA BagInsert ==
  ASSUME NEW bd, BagTable(bd), NEW e \in BagMembers, e \notin In(bd)
  PROVE  LET new == HB!InsertEntry(bd, e) IN BagTable(new) /\ In(new) = In(bd) \cup {e}
<1> DEFINE n == bd.capacity
           b == bd.buckets
           E == BagMembers
           h == BagName
           i == HB!Hash(HB!Name(e), n)
           d == [b EXCEPT ![i] = <<e>> \o @]
           new == HB!InsertEntry(bd, e)
<1>1. /\ n \in Nat \ {0} /\ h \in [E -> Nat] /\ Filed(b, n, E, h)
      /\ In(bd) = Within(b, n) /\ In(bd) \subseteq E
      /\ IsFiniteSet(In(bd)) /\ bd.size = Cardinality(In(bd))
      /\ bd.size \in Nat /\ n \in 1 .. MAX_CAPACITY
  BY BagFacts, BagNameIs DEF In
<1>2. BagFields \subseteq DOMAIN bd
  BY DEF BagTable
<1>3. h[e] = e[1]
  BY BagNameIs
<1>5. Hashes(h, e, n, i)
  <2>1. i = e[1] % n
    BY DEF HB!Hash, HB!Name
  <2> HIDE DEF h, n
  <2> QED
    BY <1>3, <2>1 DEF Hashes
<1> HIDE DEF i
<1>6. i \in DOMAIN b
  <2>1. b \in [0 .. n - 1 -> Seq(E)] /\ i = h[e] % n /\ h[e] \in Nat
    <3>1. h[e] \in Nat /\ i = h[e] % n
      <4>1. e \in E
        OBVIOUS
      <4> HIDE DEF h, E, n
      <4> QED
        BY <1>1, <1>5, <4>1 DEF Hashes
    <3> QED
      BY <1>1, <3>1 DEF Filed
  <2> HIDE DEF b, n, h, E
  <2> QED
    BY <1>1, <2>1
<1>7. Replaces(d, b, i, <<e>> \o b[i])
  <2> HIDE DEF b
  <2> QED
    BY <1>6 DEF Replaces
<1>8. Filed(d, n, E, h) /\ Within(d, n) = Within(b, n) \cup {e}
  <2>1. e \in E /\ e \notin Within(b, n)
    BY <1>1
  <2>2. h \in [E -> Nat] /\ n \in Nat \ {0} /\ Filed(b, n, E, h)
    BY <1>1
  <2> HIDE DEF d, b, n, E, h
  <2> QED
    BY ONLY <1>5, <1>7, <2>1, <2>2, FiledPush
<1>9. /\ BagFields \subseteq DOMAIN new /\ new.capacity = n /\ new.buckets = d
      /\ new.size = bd.size + 1 /\ new.load = bd.load + (UNITS \div n)
  BY <1>2 DEF HB!InsertEntry, HB!Increment, BagFields, i
<1> HIDE DEF new, d
<1>10. In(new) = In(bd) \cup {e}
  BY <1>1, <1>8, <1>9 DEF In
<1>12. new.size = Cardinality(In(new))
  BY <1>1, <1>9, <1>10, OneMoreOrLess
<1>13. bd.load \in Int /\ UNITS \in Nat /\ (UNITS \div n) \in Int
  <2>1. bd.load \in Int /\ UNITS \in Nat
    BY TableUnits DEF BagTable
  <2> HIDE DEF n
  <2> QED
    BY <1>1, <2>1
<1>14. new.load \in Int
  BY <1>9, <1>13
<1>15. n < MAX_CAPACITY => IsLoad(new.load, n, new.size, UNITS)
  <2>1. n < MAX_CAPACITY => IsLoad(bd.load, n, bd.size, UNITS)
    BY DEF BagTable
  <2>2. Splits(UNITS, n)
    BY <1>1, TableUnits
  <2>3. n \in Nat \ {0} /\ bd.size \in Int
    BY <1>1
  <2>4. ASSUME n < MAX_CAPACITY PROVE IsLoad(bd.load + (UNITS \div n), n, bd.size + 1, UNITS)
    <3>1. IsLoad(bd.load, n, bd.size, UNITS)
      BY <2>1, <2>4
    <3> HIDE DEF n
    <3> QED
      BY ONLY <3>1, <1>13, <2>2, <2>3, LoadMore
  <2> QED
    BY <1>9, <2>4
<1>16. BagTable(new)
  BY <1>1, <1>8, <1>9, <1>12, <1>14, <1>15 DEF BagTable
<1> QED
  BY <1>10, <1>16 DEF new

\* The bucket of a name has all members of that name; FindElemt gives the
\* first of them there, or 0.
OfName(C, n) == {x \in C : x[1] = n}
BagFinds(c, n, j) ==
  /\ c \in Seq(BagMembers) /\ Distinct(c)
  /\ OfName(Elems(c), n) = OfName(In(self), n)
  /\ IsFirst(j, {k \in 1 .. Len(c) : c[k][1] = n})

\* findElemt finds the first member of that name in its bucket.
LEMMA BagFind ==
  ASSUME BagTable(self), NEW n \in Nat
  PROVE  LET i == HB!Hash(n, self.capacity) IN
         /\ i \in 0 .. self.capacity - 1
         /\ BagFinds(self.buckets[i], n, HB!FindElemt(n))
<1> DEFINE i == HB!Hash(n, self.capacity)
           j == HB!FindElemt(n)
           N == self.capacity
           b == self.buckets
           c == b[i]
           E == BagMembers
           h == BagName
           found == {k \in DOMAIN c : c[k][1] = n}
<1>1. /\ N \in Nat \ {0} /\ h \in [E -> Nat] /\ Filed(b, N, E, h)
      /\ In(self) = Within(b, N) /\ In(self) \subseteq E
  BY BagFacts, BagNameIs DEF In
<1>2. i \in 0 .. N - 1 /\ i = n % N
  <2>1. i = n % N
    BY DEF HB!Hash
  <2> HIDE DEF N, i
  <2> QED
    BY <1>1, <2>1
<1>3. /\ c \in Seq(E) /\ Distinct(c) /\ Elems(c) = {x \in Within(b, N) : h[x] % N = i}
  <2> HIDE DEF N, b, E, h, i
  <2> QED
    BY <1>1, <1>2, BucketOf DEF c
<1>5. DOMAIN c = 1 .. Len(c)
  <2> HIDE DEF c, E
  <2> QED
    BY <1>3
<1>4. IsFirst(j, found)
  <2>1. j = IF found = {} THEN 0 ELSE CHOOSE k \in found : \A l \in found : k <= l
    BY DEF HB!FindElemt, HB!Name
  <2>2. found \in SUBSET Nat
    <3> HIDE DEF E, c
    <3>1. DOMAIN c \in SUBSET Nat
      BY <1>3
    <3> QED
      BY <3>1
  <2> HIDE DEF found, j
  <2> QED
    BY <2>1, <2>2, FirstIs
<1>6. OfName(Elems(c), n) = OfName(In(self), n)
  <2>1. \A x \in In(self) : h[x] = x[1]
    <3> HIDE DEF h
    <3> QED
      BY <1>1, BagNameIs DEF h
  <2> HIDE DEF c, b, N, h, i, E
  <2> QED
    BY <1>1, <1>2, <1>3, <2>1 DEF OfName
<1> HIDE DEF c, j, i
<1>7. BagFinds(c, n, j)
  BY <1>3, <1>4, <1>5, <1>6 DEF BagFinds
<1> QED
  BY <1>2, <1>7 DEF c, i, j

\* What it finds.
LEMMA BagFound ==
  ASSUME NEW c, NEW n, NEW j, BagFinds(c, n, j)
  PROVE  /\ j = 0 => OfName(In(self), n) = {}
         /\ j # 0 => j \in 1 .. Len(c) /\ c[j] \in OfName(In(self), n)
<1>1. Elems(c) = {c[k] : k \in 1 .. Len(c)}
  BY DEF Elems
<1>2. CASE j = 0 /\ {k \in 1 .. Len(c) : c[k][1] = n} = {}
  BY <1>1, <1>2 DEF BagFinds, OfName
<1>3. CASE j \in {k \in 1 .. Len(c) : c[k][1] = n}
  <2>1. j \in 1 .. Len(c) /\ c[j][1] = n /\ j # 0
    BY <1>3
  <2>2. c[j] \in OfName(Elems(c), n)
    BY <1>1, <2>1 DEF OfName
  <2> QED
    BY <2>1, <2>2 DEF BagFinds
<1> QED
  BY <1>2, <1>3 DEF BagFinds, IsFirst

\* new is bd without the j-th member of bucket i.
BagUnlinks(new, bd, i, j) ==
  /\ BagFields \subseteq DOMAIN new
  /\ new.capacity = bd.capacity
  /\ new.size = bd.size - 1 /\ new.load = bd.load - HB!Increment(bd)
  /\ Replaces(new.buckets, bd.buckets, i, Unlinked(bd.buckets[i], j))

\* A member that is unlinked is gone from the bag, the others are not.
LEMMA BagUnlink ==
  ASSUME NEW bd, BagTable(bd),
         NEW i \in 0 .. bd.capacity - 1, NEW j \in 1 .. Len(bd.buckets[i]), NEW new,
         BagUnlinks(new, bd, i, j)
  PROVE  BagTable(new) /\ In(new) = In(bd) \ {bd.buckets[i][j]}
<1> DEFINE n == bd.capacity
           b == bd.buckets
           E == BagMembers
           h == BagName
           d == new.buckets
<1>0. /\ BagFields \subseteq DOMAIN new
      /\ new.capacity = bd.capacity
      /\ new.size = bd.size - 1 /\ new.load = bd.load - HB!Increment(bd)
      /\ Replaces(new.buckets, bd.buckets, i, Unlinked(bd.buckets[i], j))
  BY DEF BagUnlinks
<1>1. /\ n \in Nat \ {0} /\ h \in [E -> Nat] /\ Filed(b, n, E, h)
      /\ In(bd) = Within(b, n) /\ In(bd) \subseteq E
      /\ IsFiniteSet(In(bd)) /\ bd.size = Cardinality(In(bd))
      /\ bd.size \in Nat /\ n \in 1 .. MAX_CAPACITY
  BY BagFacts, BagNameIs DEF In
<1>2. /\ Filed(d, n, E, h) /\ Within(d, n) = Within(b, n) \ {b[i][j]}
      /\ b[i][j] \in Within(b, n)
  <2>1. /\ h \in [E -> Nat] /\ n \in Nat \ {0} /\ Filed(b, n, E, h)
        /\ i \in 0 .. n - 1 /\ j \in 1 .. Len(b[i])
        /\ Replaces(d, b, i, Unlinked(b[i], j))
    BY <1>0, <1>1
  <2> HIDE DEF d, b, n, E, h
  <2> QED
    BY ONLY <2>1, FiledUnlink
<1>3. In(new) = In(bd) \ {b[i][j]} /\ b[i][j] \in In(bd)
  BY <1>0, <1>1, <1>2 DEF In
<1>5. new.size = Cardinality(In(new))
  BY <1>0, <1>1, <1>3, OneMoreOrLess
<1>6. bd.load \in Int /\ UNITS \in Nat /\ (UNITS \div n) \in Int
  <2>1. bd.load \in Int /\ UNITS \in Nat
    BY TableUnits DEF BagTable
  <2> HIDE DEF n
  <2> QED
    BY <1>1, <2>1
<1>7. new.load = bd.load - (UNITS \div n)
  BY <1>0 DEF HB!Increment
<1>8. new.load \in Int
  BY <1>0, <1>6, <1>7
<1>9. n < MAX_CAPACITY => IsLoad(new.load, n, new.size, UNITS)
  <2>1. n < MAX_CAPACITY => IsLoad(bd.load, n, bd.size, UNITS)
    BY DEF BagTable
  <2>2. Splits(UNITS, n)
    BY <1>1, TableUnits
  <2>3. n \in Nat \ {0} /\ bd.size \in Int
    BY <1>1
  <2>4. ASSUME n < MAX_CAPACITY PROVE IsLoad(bd.load - (UNITS \div n), n, bd.size - 1, UNITS)
    <3>1. IsLoad(bd.load, n, bd.size, UNITS)
      BY <2>1, <2>4
    <3> HIDE DEF n
    <3> QED
      BY ONLY <3>1, <1>6, <2>2, <2>3, LoadMore
  <2> QED
    BY <1>0, <1>7, <2>4
<1>10. BagTable(new)
  BY <1>0, <1>1, <1>2, <1>5, <1>8, <1>9 DEF BagTable
<1> QED
  BY <1>3, <1>10

\* From the first of them on the members of a name are counted in its bucket.
LEMMA BagCounted ==
  ASSUME NEW c, NEW n, NEW j, BagFinds(c, n, j)
  PROVE  Cardinality(OfName(In(self), n)) =
           IF j = 0 THEN 0 ELSE Cardinality({k \in j .. Len(c) : c[k][1] = n})
<1> DEFINE places == {k \in j .. Len(c) : c[k][1] = n}
           found == {k \in 1 .. Len(c) : c[k][1] = n}
<1>1. /\ c \in Seq(BagMembers) /\ Distinct(c)
      /\ OfName(Elems(c), n) = OfName(In(self), n) /\ IsFirst(j, found)
  BY DEF BagFinds
<1>2. CASE j = 0
  <2>1. OfName(In(self), n) = {}
    BY <1>2, BagFound
  <2> QED
    BY <1>2, <2>1, FS_EmptySet
<1>3. CASE j # 0
  <2>1. j \in found /\ \A k \in found : j <= k
    BY <1>1, <1>3 DEF IsFirst
  <2>2. j \in 1 .. Len(c) /\ Len(c) \in Nat
    BY <1>1, <2>1
  <2>3. places = found
    <3>1. ASSUME NEW k \in places PROVE k \in found
      BY <2>2
    <3>2. ASSUME NEW k \in found PROVE k \in places
      <4>1. j <= k /\ k \in 1 .. Len(c) /\ c[k][1] = n
        BY <2>1
      <4> QED
        BY <2>2, <4>1
    <3> HIDE DEF places, found
    <3> QED
      BY <3>1, <3>2
  <2>4. IsFiniteSet(found)
    <3>1. IsFiniteSet(1 .. Len(c))
      <4>1. 1 \in Int /\ Len(c) \in Int
        BY <2>2
      <4> QED
        BY ONLY <4>1, FS_Interval
    <3>2. found \subseteq 1 .. Len(c)
      OBVIOUS
    <3> HIDE DEF found
    <3> QED
      BY ONLY <3>1, <3>2, FS_Subset
  <2> DEFINE f == [k \in found |-> c[k]]
             T == OfName(In(self), n)
  <2>5. T = {c[k] : k \in found}
    BY <1>1 DEF OfName, Elems
  <2>6. f \in Bijection(found, T)
    <3>1. f \in [found -> T] /\ \A x \in T : \E k \in found : f[k] = x
      <4> HIDE DEF found, T
      <4> QED
        BY <2>5
    <3>2. \A k, l \in found : f[k] = f[l] => k = l
      BY <1>1 DEF Distinct
    <3> HIDE DEF f, found, T
    <3> QED
      BY <3>1, <3>2 DEF Bijection, Injection, Surjection, IsInjective
  <2> HIDE DEF found, T, f
  <2>7. Cardinality(T) = Cardinality(found)
    BY <2>4, <2>6, FS_Bijection DEF ExistsBijection
  <2> QED
    BY <1>3, <2>3, <2>7 DEF T
<1> QED
  BY <1>2, <1>3

\* The names of members are numbers.
LEMMA BagNames ==
  ASSUME NEW n \in {HB!Name(x) : x \in BagMembers}
  PROVE  n \in Nat
BY BagNameIs DEF HB!Name

\* A HashBag left alone stays sound and the same bag.
LEMMA BagSame ==
  ASSUME BagTable(self), UNCHANGED self
  PROVE  BagTable(self') /\ HB!Items' = HB!Items
BY BagItems

\* add leaves a HashBag sound and is add of the multiset.
LEMMA BagAdd ==
  ASSUME BagTable(self), NEW x \in BagMembers, ~ HB!InBag(x), HB!Add(x)
  PROVE  BagTable(self') /\ HB!M!Add
<1>1. PICK bd \in {self, HB!Resize(self)} :
        \/ self' = HB!InsertEntry(bd, x) /\ ret' = <<"add", TRUE>>
        \/ self' = bd /\ ret' = <<"add", FALSE>>
  BY DEF HB!Add
<1>2. BagTable(bd) /\ In(bd) = In(self)
  BY BagResized
<1>3. x \notin In(self) /\ HB!Items = In(self)
  BY BagItems
<1>4. CASE self' = HB!InsertEntry(bd, x) /\ ret' = <<"add", TRUE>>
  <2>1. BagTable(self') /\ In(self') = In(self) \cup {x}
    BY <1>2, <1>3, <1>4, BagInsert
  <2>2. HB!Items' = HB!Items \cup {x}
    BY <1>3, <2>1, BagItems
  <2>3. x \in BagMembers \ HB!Items /\ ret'[1] = "add"
    BY <1>3, <1>4
  <2> QED
    BY <1>4, <2>1, <2>2, <2>3 DEF HB!M!Add
<1>5. CASE self' = bd /\ ret' = <<"add", FALSE>>
  <2>1. BagTable(self') /\ HB!Items' = HB!Items
    BY <1>2, <1>3, <1>5, BagItems
  <2>2. ret'[1] = "add"
    BY <1>5
  <2> QED
    BY <1>5, <2>1, <2>2 DEF HB!M!Add
<1> QED
  BY <1>1, <1>4, <1>5

\* The members of a name.
LEMMA BagOf ==
  ASSUME BagTable(self), NEW n
  PROVE  HB!M!Of(n) = OfName(In(self), n)
BY BagItems DEF HB!M!Of, OfName

\* contains answers as the multiset does.
LEMMA BagContains ==
  ASSUME BagTable(self), NEW n \in Nat, HB!Contains(n)
  PROVE  BagTable(self') /\ HB!M!Contains
<1> DEFINE j == HB!FindElemt(n)
<1>1. UNCHANGED self /\ ret' = <<"contains", n, j # 0>>
  BY DEF HB!Contains
<1>2. (j # 0) <=> (OfName(In(self), n) # {})
  <2> DEFINE c == self.buckets[HB!Hash(n, self.capacity)]
  <2>1. BagFinds(c, n, j)
    BY BagFind
  <2> HIDE DEF c, j
  <2> QED
    BY <2>1, BagFound
<1>3. (HB!M!Of(n) # {}) = (j # 0)
  BY <1>2, BagOf
<1> HIDE DEF j
<1> QED
  BY <1>1, <1>3, BagSame DEF HB!M!Contains

\* count answers as the multiset does.
LEMMA BagCount ==
  ASSUME BagTable(self), NEW n \in Nat, HB!Count(n)
  PROVE  BagTable(self') /\ HB!M!Count
<1> DEFINE j == HB!FindElemt(n)
           c == self.buckets[HB!Hash(n, self.capacity)]
           N == IF j = 0 THEN 0 ELSE Cardinality({k \in j .. Len(c) : c[k][1] = n})
<1>1. UNCHANGED self /\ ret' = <<"count", n, N>>
  BY BagData DEF HB!Count, HB!Name
<1>2. Cardinality(OfName(In(self), n)) = N
  <2>1. BagFinds(c, n, j)
    BY BagFind
  <2> HIDE DEF c, j
  <2> QED
    BY <2>1, BagCounted
<1> HIDE DEF N
<1>3. HB!M!Cardinality(HB!M!Of(n)) = N
  BY <1>2, BagOf, BagData
<1> QED
  BY <1>1, <1>3, BagSame DEF HB!M!Count

\* remove leaves a HashBag sound and removes one member of that name.
LEMMA BagRemove ==
  ASSUME BagTable(self), NEW n \in Nat, HB!Remove(n)
  PROVE  BagTable(self') /\ HB!M!Remove
<1> DEFINE j == HB!FindElemt(n)
           i == HB!Hash(n, self.capacity)
           x == self.buckets[i][j]
<1>1. /\ i \in 0 .. self.capacity - 1
      /\ j = 0 => OfName(In(self), n) = {}
      /\ j # 0 => j \in 1 .. Len(self.buckets[i]) /\ x \in OfName(In(self), n)
  <2> DEFINE c == self.buckets[i]
  <2>1. i \in 0 .. self.capacity - 1 /\ BagFinds(c, n, j)
    BY BagFind
  <2> HIDE DEF c, j, i
  <2>2. /\ j = 0 => OfName(In(self), n) = {}
        /\ j # 0 => j \in 1 .. Len(c) /\ c[j] \in OfName(In(self), n)
    BY <2>1, BagFound
  <2> QED
    BY <2>1, <2>2 DEF c
<1>2. HB!Items = In(self) /\ HB!M!Of(n) = OfName(In(self), n)
  BY BagItems, BagOf
<1>3. CASE /\ j # 0 /\ ret' = <<"remove", n, TRUE, x>>
           /\ self' = [self EXCEPT !.buckets[i] = Unlinked(@, j), !.size = @ - 1,
                                   !.load = @ - HB!Increment(self)]
  <2>1. BagFields \subseteq DOMAIN self
    BY DEF BagTable
  <2> HIDE DEF i, j
  <2>2. BagUnlinks(self', self, i, j)
    BY <1>3, <2>1 DEF BagUnlinks, BagFields, Replaces
  <2>3. BagTable(self') /\ In(self') = In(self) \ {x}
    BY <1>1, <1>3, <2>2, BagUnlink
  <2>4. HB!Items' = HB!Items \ {x}
    BY <1>2, <2>3, BagItems
  <2>5. x \in HB!M!Of(n) /\ x[1] = n
    BY <1>1, <1>2, <1>3 DEF OfName
  <2> HIDE DEF x
  <2>6. ret'[1] = "remove" /\ ret'[2] = n /\ ret' = <<"remove", x[1], TRUE, x>>
    BY <1>3, <2>5
  <2> QED
    BY <2>3, <2>4, <2>5, <2>6 DEF HB!M!Remove
<1>4. CASE j = 0 /\ UNCHANGED self /\ ret' = <<"remove", n, FALSE>>
  <2>1. ret'[1] = "remove" /\ ret'[2] = n /\ ret' = <<"remove", ret'[2], FALSE>>
    BY <1>4
  <2>2. HB!M!Of(n) = {}
    BY <1>1, <1>2, <1>4
  <2> QED
    BY <1>4, <2>1, <2>2, BagSame DEF HB!M!Remove
<1> QED
  BY <1>3, <1>4, BagData DEF HB!Remove

\* clear and destroy leave a sound, empty HashBag and free its members.
LEMMA BagClear ==
  ASSUME BagTable(self), HB!Clear \/ HB!Destroy
  PROVE  BagTable(self') /\ HB!M!Empty
<1>1. BagTable(self') /\ In(self') = {}
  <2>1. CASE HB!Clear
    <3> DEFINE n == self.capacity
    <3>1. /\ BagFields \subseteq DOMAIN self
          /\ n \in 1 .. MAX_CAPACITY /\ DOMAIN self.buckets = 0 .. n - 1
      BY DEF BagTable, Filed
    <3>2. self' = [self EXCEPT !.buckets = [i \in DOMAIN @ |-> <<>>], !.size = 0, !.load = 0]
      BY <2>1 DEF HB!Clear
    <3>3. /\ BagFields \subseteq DOMAIN self'
          /\ self'.capacity = n /\ self'.size = 0 /\ self'.load = 0
          /\ self'.buckets = [i \in 0 .. n - 1 |-> <<>>]
      BY <3>1, <3>2 DEF BagFields
    <3> HIDE <3>2
    <3> QED
      BY <3>1, <3>3, BagEmpty
  <2>2. CASE HB!Destroy
    <3>1. self.capacity \in Int
      BY TableUnits DEF BagTable
    <3> QED
      BY <2>2, <3>1, BagNewIs DEF HB!Destroy
  <2> QED
    BY <2>1, <2>2
<1>2. HB!Items' = {}
  BY <1>1, BagItems
<1>3. HB!M!Lists(HB!Elemts(self))
  BY BagItems
<1>4. ret'[1] \in {"clear", "destroy"} /\ ret'[2] = HB!Elemts(self)
  BY DEF HB!Clear, HB!Destroy
<1> QED
  BY <1>1, <1>2, <1>3, <1>4 DEF HB!M!Empty

\* size, toArray and itCreate answer as the multiset does.
LEMMA BagAsk ==
  ASSUME BagTable(self), HB!Size \/ HB!ToArray \/ HB!ItCreate
  PROVE  BagTable(self') /\ (HB!M!Size \/ HB!M!Array \/ HB!M!Iterate)
<1> DEFINE all == HB!Elemts(self)
<1>1. UNCHANGED self
  BY DEF HB!Size, HB!ToArray, HB!ItCreate
<1>2. BagTable(self') /\ HB!Items' = HB!Items
  BY <1>1, BagSame
<1>3. HB!M!Lists(all) /\ HB!M!Cardinality(HB!Items) = self.size
  BY BagItems
<1>4. CASE HB!Size
  BY <1>2, <1>3, <1>4 DEF HB!Size, HB!M!Size
<1>5. CASE HB!ToArray
  <2>1. ret' = <<"array", all>> \/ ret' = <<"array">>
    BY <1>5 DEF HB!ToArray
  <2> HIDE DEF all
  <2> QED
    BY <1>2, <1>3, <2>1 DEF HB!M!Array
<1>6. CASE HB!ItCreate
  <2>1. ret' = <<"iterator", self.size, all>> \/ ret' = <<"iterator">>
    BY <1>6 DEF HB!ItCreate
  <2> HIDE DEF all
  <2> QED
    BY <1>2, <1>3, <2>1 DEF HB!M!Iterate
<1> QED
  BY <1>2, <1>4, <1>5, <1>6

\* Every call leaves a sound bag, and is a call of the multiset.
LEMMA BagCalled ==
  ASSUME BagTable(self), HB!Next
  PROVE  BagTable(self') /\ HB!M!BagNext
<1>1. CASE \E x \in BagMembers : ~ HB!InBag(x) /\ HB!Add(x)
  BY <1>1, BagAdd DEF HB!M!BagNext
<1>2. CASE \E n \in {HB!Name(x) : x \in BagMembers} :
             HB!Contains(n) \/ HB!Count(n) \/ HB!Remove(n)
  BY <1>2, BagNames, BagContains, BagCount, BagRemove DEF HB!M!BagNext
<1>3. CASE HB!Clear \/ HB!Destroy
  BY <1>3, BagClear DEF HB!M!BagNext
<1>4. CASE HB!Size \/ HB!ToArray \/ HB!ItCreate
  BY <1>4, BagAsk DEF HB!M!BagNext
<1> QED
  BY <1>1, <1>2, <1>3, <1>4 DEF HB!Next
=============================================================================
