---------------------------- MODULE HeapPrioQueue ----------------------------
(* adts/heapprioqueue.c: a priority queue in a binary heap; heap[1] is the *)
(* minimum, heap[0] is never used, and a sequence number keeps entries of  *)
(* equal priority in the order they came. Of the array only the entries    *)
(* heap[1..last] are kept, as a sequence.                                  *)
EXTENDS Integers, Sequences, FiniteSets

CONSTANTS Priorities, Values,
          DEFAULT_HEAP_SIZE,
          INT_MAX,   \* limits.h: the greatest int
          MAXSIZE,   \* bound of the model: realloc fails above
          MAXSEQ     \* bound of the model: insertions in one queue's life

HeapAssumption == /\ Priorities \subseteq Int
                  /\ DEFAULT_HEAP_SIZE \in Nat \ {0}
                  /\ INT_MAX \in Nat
                  /\ MAXSEQ \in 0..INT_MAX

VARIABLES self, ret

NewPrioQueue == [sequenceNo |-> 0, last |-> 0, size |-> DEFAULT_HEAP_SIZE,
                 heap |-> <<>>]

Init == self = NewPrioQueue /\ ret = <<"create">>

ToInt(long) == ((long + INT_MAX + 1) % (2 * INT_MAX + 2)) - INT_MAX - 1

\* cmp, which the client supplies, compares the numbers.
RealCmp(p1, p2) ==
  IF p1.priority # p2.priority THEN p1.priority - p2.priority
  ELSE ToInt(p1.sequenceNo - p2.sequenceNo)

Swapped(heap, i, j) == [heap EXCEPT ![i] = heap[j], ![j] = heap[i]]

\* A turn of siftup: entry i goes up if its parent is greater.
Rise(h) ==
  LET p == h.i \div 2
  IN IF h.i > 1 /\ RealCmp(h.heap[p], h.heap[h.i]) > 0
     THEN [heap |-> Swapped(h.heap, p, h.i), i |-> p] ELSE h

\* Entry `last' rises; there are fewer turns than entries.
SiftUp(heap, last) ==
  LET after[n \in 0..last] ==
        IF n = 0 THEN [heap |-> heap, i |-> last] ELSE Rise(after[n - 1])
  IN after[last].heap

(* A plausible bug: the left child, whichever is less. *)
Child_Left(heap, last, i) == 2 * i

\* The lesser child, or the only one.
Child(heap, last, i) ==
  IF 2 * i + 1 <= last /\ RealCmp(heap[2 * i + 1], heap[2 * i]) < 0
  THEN 2 * i + 1 ELSE 2 * i

\* A turn of siftdown: entry i goes down if its lesser child is less.
Sink(h, last) ==
  LET c == Child(h.heap, last, h.i)
  IN IF 2 * h.i <= last /\ RealCmp(h.heap[h.i], h.heap[c]) > 0
     THEN [heap |-> Swapped(h.heap, h.i, c), i |-> c] ELSE h

\* Entry 1 sinks; again there are fewer turns than entries.
SiftDown(heap, last) ==
  LET after[n \in 0..last] ==
        IF n = 0 THEN [heap |-> heap, i |-> 1] ELSE Sink(after[n - 1], last)
  IN after[last].heap

\* The queue without its minimum: the last entry takes its place and sinks.
WithoutMin(pqd) ==
  LET n == pqd.last - 1
      topped == [i \in 1..n |-> pqd.heap[IF i = 1 THEN pqd.last ELSE i]]
  IN [pqd EXCEPT !.last = n,
                 !.heap = SiftDown(topped, n)]

\* The values in the order genArray takes them, from a copy of the heap.
GenArray(pqd) ==
  LET after[n \in 0..pqd.last] ==
        IF n = 0 THEN pqd ELSE WithoutMin(after[n - 1])
  IN [i \in 1..pqd.last |-> after[i - 1].heap[1].value]

Inserted(pqd, priority, value) ==
  LET i == pqd.last + 1
      e == [priority |-> priority, value |-> value,
            sequenceNo |-> pqd.sequenceNo]
  IN [pqd EXCEPT !.heap = SiftUp(Append(@, e), i),
                 !.sequenceNo = @ + 1, !.last = i]

Insert(priority, value) ==
  /\ self.sequenceNo < MAXSEQ
  /\ \/ /\ self.last + 1 < self.size
        /\ self' = Inserted(self, priority, value)
        /\ ret' = <<"insert", TRUE>>
     \/ /\ self.last + 1 >= self.size
        /\ 2 * self.size <= MAXSIZE
        /\ self' = [Inserted(self, priority, value) EXCEPT !.size = 2 * @]
        /\ ret' = <<"insert", TRUE>>
     \/ /\ self.last + 1 >= self.size
        /\ UNCHANGED self
        /\ ret' = <<"insert", FALSE>>

\* What the caller sees of an entry.
Pair(e) == [priority |-> e.priority, value |-> e.value]

PeekMin ==
  /\ UNCHANGED self
  /\ ret' = IF self.last > 0 THEN <<"min", TRUE, Pair(self.heap[1])>>
            ELSE <<"min", FALSE>>

RemoveMin ==
  \/ /\ self.last > 0
     /\ self' = WithoutMin(self)
     /\ ret' = <<"removeMin", TRUE, Pair(self.heap[1])>>
  \/ self.last <= 0 /\ UNCHANGED self /\ ret' = <<"removeMin", FALSE>>

Purged(pqd) == [i \in 1..pqd.last |-> Pair(pqd.heap[i])]

Clear == /\ self' = [self EXCEPT !.last = 0, !.heap = <<>>]
         /\ ret' = <<"clear", Purged(self)>>

\* destroy; the client goes on with a new queue that pq_create made of this.
Destroy == self' = NewPrioQueue /\ ret' = <<"destroy", Purged(self)>>

Size == UNCHANGED self /\ ret' = <<"size", self.last>>

ToArray ==
  /\ UNCHANGED self
  /\ \/ /\ self.last > 0
        /\ ret' = <<"toArray", GenArray(self)>>
     \/ ret' = <<"toArray">>

ItCreate ==
  /\ UNCHANGED self
  /\ \/ self.last > 0 /\ ret' = <<"iterator", self.last, GenArray(self)>>
     \/ ret' = <<"iterator">>

Next == \/ \E priority \in Priorities, value \in Values : Insert(priority, value)
        \/ PeekMin \/ RemoveMin \/ Clear \/ Destroy \/ Size \/ ToArray \/ ItCreate

Spec == Init /\ [][Next]_<<self, ret>>

-----------------------------------------------------------------------------
\* "postcondition: heap(1,last)": no entry is less than its parent; and every
\* entry has a sequence number of its own that was given out.
Holds(pqd) ==
  /\ pqd \in [sequenceNo : 0..MAXSEQ, last : Nat, size : Nat,
               heap : Seq([priority : Priorities, value : Values, sequenceNo : Nat])]
  /\ pqd.last < pqd.size
  /\ Len(pqd.heap) = pqd.last
  /\ \A i \in 1..pqd.last : pqd.heap[i].sequenceNo < pqd.sequenceNo
  /\ \A i, j \in 1..pqd.last :
       pqd.heap[i].sequenceNo = pqd.heap[j].sequenceNo => i = j
  /\ \A i \in 2..pqd.last : RealCmp(pqd.heap[i \div 2], pqd.heap[i]) <= 0

HeapOK == Holds(self)

\* The entries in the order of realCmp: the n-th is greater than n - 1.
Ordered(pqd) ==
  LET entries == {pqd.heap[i] : i \in 1..pqd.last}
      Lesser(e) == {d \in entries : RealCmp(d, e) < 0}
  IN [n \in 1..pqd.last |->
        Pair(CHOOSE e \in entries : Cardinality(Lesser(e)) = n - 1)]
Items == Ordered(self)
Q == INSTANCE StableQueue WITH items <- Items
StepIsStable == [Q!StableNext]_<<Items, ret>>
=============================================================================
