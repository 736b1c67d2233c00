----------------------------- MODULE ArrayQueue -----------------------------
(* adts/arrayqueue.c: a FIFO queue in a circular array that doubles when   *)
(* it is full. `self' is the instance's QData, `ret' the last call and its *)
(* results. A slot that was never written holds `garbage'.                 *)
EXTENDS Integers, Sequences

CONSTANTS Values, garbage,
          DEFAULT_QUEUE_CAPACITY,  \* queue.h
          Capacities,              \* what clients pass to ArrayQueue()
          MAXSIZE                  \* bound of the model: malloc fails above

CapacityAssumption ==
  /\ DEFAULT_QUEUE_CAPACITY \in Nat \ {0}
  /\ Capacities \subseteq Int
  /\ MAXSIZE \in Nat
GarbageAssumption == garbage \notin Values

VARIABLES self, ret

NewQueue(capacity) ==
  LET cap == IF capacity <= 0 THEN DEFAULT_QUEUE_CAPACITY ELSE capacity
  IN [count |-> 0, size |-> cap, in |-> 0, out |-> 0,
      buffer |-> [i \in 0..cap - 1 |-> garbage]]

Init == /\ \E capacity \in Capacities : self = NewQueue(capacity)
        /\ ret = <<"create">>

\* The occupied slots in order, as purge, the copy to a larger array and
\* genArray visit them.
GenArray(qd) ==
  [j \in 1..qd.count |-> qd.buffer[(qd.out + j - 1) % qd.size]]

(* A plausible bug: the elements keep their slots, which the larger ring   *)
(* does not wrap.                                                          *)
Grown_KeepsOut(qd) == [qd EXCEPT !.size = 2 * @, !.in = qd.count,
  !.buffer = [i \in 0..2 * qd.size - 1 |->
                IF i < qd.size THEN qd.buffer[i] ELSE garbage]]

Grown(qd) ==
  [count |-> qd.count, size |-> 2 * qd.size, in |-> qd.count, out |-> 0,
   buffer |-> [i \in 0..2 * qd.size - 1 |->
                 IF i < qd.count THEN GenArray(qd)[i + 1] ELSE garbage]]

Stored(qd, element) ==
  [qd EXCEPT !.buffer[qd.in] = element,
             !.in = (qd.in + 1) % qd.size,
             !.count = qd.count + 1]

\* When the array is full, malloc of a larger one succeeds or fails.
Enqueue(element) ==
  \/ /\ self.count < self.size
     /\ self' = Stored(self, element)
     /\ ret' = <<"putLast", TRUE>>
  \/ /\ self.count >= self.size
     /\ 2 * self.size <= MAXSIZE
     /\ self' = Stored(Grown(self), element)
     /\ ret' = <<"putLast", TRUE>>
  \/ /\ self.count >= self.size
     /\ UNCHANGED self
     /\ ret' = <<"putLast", FALSE>>

PeekFront ==
  /\ UNCHANGED self
  /\ ret' = IF self.count > 0 THEN <<"first", TRUE, self.buffer[self.out]>>
            ELSE <<"first", FALSE>>

Dequeue ==
  \/ /\ self.count > 0
     /\ self' = [self EXCEPT !.out = (self.out + 1) % self.size,
                             !.count = self.count - 1]
     /\ ret' = <<"takeFirst", TRUE, self.buffer[self.out]>>
  \/ self.count = 0 /\ UNCHANGED self /\ ret' = <<"takeFirst", FALSE>>

Clear == /\ self' = [self EXCEPT !.count = 0, !.in = 0, !.out = 0]
         /\ ret' = <<"clear", GenArray(self)>>

\* destroy; the client goes on with a new queue that q_create made of this.
Destroy == /\ self' = NewQueue(DEFAULT_QUEUE_CAPACITY)
           /\ ret' = <<"destroy", GenArray(self)>>

Size == UNCHANGED self /\ ret' = <<"size", self.count>>

\* NULL when the queue is empty or malloc fails.
ToArray ==
  /\ UNCHANGED self
  /\ \/ self.count > 0 /\ ret' = <<"toArray", GenArray(self)>>
     \/ ret' = <<"toArray">>

ItCreate ==
  /\ UNCHANGED self
  /\ \/ self.count > 0 /\ ret' = <<"iterator", self.count, GenArray(self)>>
     \/ ret' = <<"iterator">>

Next == \/ \E v \in Values : Enqueue(v)
        \/ Dequeue \/ PeekFront \/ Clear \/ Destroy \/ Size
        \/ ToArray \/ ItCreate

Spec == Init /\ [][Next]_<<self, ret>>

-----------------------------------------------------------------------------
\* A QData whose counters agree and whose occupied slots hold elements.
Ring(qd) ==
  /\ qd = [count |-> qd.count, size |-> qd.size, in |-> qd.in,
           out |-> qd.out, buffer |-> qd.buffer]
  /\ qd.size \in Nat \ {0}
  /\ qd.count \in 0..qd.size
  /\ qd.in \in 0..qd.size - 1 /\ qd.out \in 0..qd.size - 1
  /\ qd.buffer \in [0..qd.size - 1 -> Values \cup {garbage}]
  /\ qd.in = (qd.out + qd.count) % qd.size
  /\ \A j \in 1..qd.count : GenArray(qd)[j] \in Values

RingOK == Ring(self)

L == INSTANCE Line WITH items <- GenArray(self)

\* Every call is one of a line's: first in, first out, nothing lost,
\* whatever the position of the ring when it wraps or grows.
StepIsLine == [L!LineNext]_<<GenArray(self), ret>>
IsLine == L!LineSpec
=============================================================================
