----------------------------- MODULE ArrayDeque -----------------------------
(* adts/arraydeque.c: a deque in a circular array that doubles when it is  *)
(* full. head and tail are the slots of the first and the last element.    *)
EXTENDS Integers, Sequences

CONSTANTS Values, garbage,
          DEFAULT_DEQUE_CAPACITY,  \* deque.h
          Capacities,              \* what clients pass to ArrayDeque()
          MAXSIZE                  \* bound of the model: malloc fails above

VARIABLES self, ret

NewDeque(capacity) ==
  LET cap == IF capacity > 0 THEN capacity ELSE DEFAULT_DEQUE_CAPACITY
  IN [size |-> cap, count |-> 0, head |-> 0, tail |-> 0,
      buffer |-> [i \in 0..cap - 1 |-> garbage]]

Init == /\ \E capacity \in Capacities : self = NewDeque(capacity)
        /\ ret = <<"create">>

\* The elements from head on, as purge, resizeArray and genArray visit them.
GenArray(dd) ==
  [j \in 1..dd.count |-> dd.buffer[(dd.head + j - 1) % dd.size]]

ResizeArray(dd) ==
  [size |-> 2 * dd.size, count |-> dd.count, head |-> 0,
   tail |-> dd.count - 1,
   buffer |-> [i \in 0..2 * dd.size - 1 |->
                 IF i < dd.count THEN GenArray(dd)[i + 1] ELSE garbage]]

\* Into slot 0 of an empty deque, wherever head and tail had come to.
Only(dd, element) == [dd EXCEPT !.head = 0, !.tail = 0,
                                !.buffer[0] = element, !.count = 1]

AsFirst(dd, element) ==
  LET i == IF dd.head = 0 THEN dd.size - 1 ELSE dd.head - 1
  IN IF dd.count = 0 THEN Only(dd, element)
     ELSE [dd EXCEPT !.buffer[i] = element, !.head = i, !.count = @ + 1]
AsLast(dd, element) ==
  LET i == IF dd.tail + 1 = dd.size THEN 0 ELSE dd.tail + 1
  IN IF dd.count = 0 THEN Only(dd, element)
     ELSE [dd EXCEPT !.buffer[i] = element, !.tail = i, !.count = @ + 1]

\* A full array is doubled first, unless malloc fails.
WithRoom == IF self.count < self.size THEN {self}
            ELSE IF 2 * self.size <= MAXSIZE THEN {ResizeArray(self)} ELSE {}
NoRoom(op) ==
  self.count >= self.size /\ UNCHANGED self /\ ret' = <<op, FALSE>>

InsertFirst(element) ==
  \/ /\ \E dd \in WithRoom : self' = AsFirst(dd, element)
     /\ ret' = <<"putFirst", TRUE>>
  \/ NoRoom("putFirst")
InsertLast(element) ==
  \/ /\ \E dd \in WithRoom : self' = AsLast(dd, element)
     /\ ret' = <<"putLast", TRUE>>
  \/ NoRoom("putLast")

First ==
  /\ UNCHANGED self
  /\ ret' = IF self.count > 0 THEN <<"first", TRUE, self.buffer[self.head]>>
            ELSE <<"first", FALSE>>
Last ==
  /\ UNCHANGED self
  /\ ret' = IF self.count > 0 THEN <<"last", TRUE, self.buffer[self.tail]>>
            ELSE <<"last", FALSE>>

RemoveFirst ==
  \/ /\ self.count > 0
     /\ self' = [self EXCEPT !.head = (self.head + 1) % self.size,
                             !.count = @ - 1]
     /\ ret' = <<"removeFirst", TRUE, self.buffer[self.head]>>
  \/ self.count = 0 /\ UNCHANGED self /\ ret' = <<"removeFirst", FALSE>>
RemoveLast ==
  \/ /\ self.count > 0
     /\ self' = [self EXCEPT
          !.tail = IF self.tail = 0 THEN self.size - 1 ELSE self.tail - 1,
          !.count = @ - 1]
     /\ ret' = <<"takeLast", TRUE, self.buffer[self.tail]>>
  \/ self.count = 0 /\ UNCHANGED self /\ ret' = <<"takeLast", FALSE>>

Clear == /\ self' = [self EXCEPT !.count = 0, !.head = 0, !.tail = 0]
         /\ ret' = <<"clear", GenArray(self)>>

\* destroy; the client goes on with a new deque that d_create made of this.
Destroy == /\ self' = NewDeque(DEFAULT_DEQUE_CAPACITY)
           /\ ret' = <<"destroy", GenArray(self)>>

Size == UNCHANGED self /\ ret' = <<"size", self.count>>

\* The array; its third part is the length the caller is told in *len.
ToArray ==
  /\ UNCHANGED self
  /\ \/ self.count > 0 /\ ret' = <<"toArray", GenArray(self), self.size>>
     \/ ret' = <<"toArray">>

\* The elements, as many as there are, and the size of the ring.
ItCreate ==
  /\ UNCHANGED self
  /\ \/ self.count > 0 /\ ret' = <<"iterator", self.size, GenArray(self)>>
     \/ ret' = <<"iterator">>

Next == \/ \E v \in Values : InsertFirst(v) \/ InsertLast(v)
        \/ First \/ Last \/ RemoveFirst \/ RemoveLast
        \/ Clear \/ Destroy \/ Size \/ ToArray \/ ItCreate

Spec == Init /\ [][Next]_<<self, ret>>

-----------------------------------------------------------------------------
\* A deque whose counters agree and whose occupied slots hold elements.
Ring(dd) ==
  /\ dd = [size |-> dd.size, count |-> dd.count, head |-> dd.head,
           tail |-> dd.tail, buffer |-> dd.buffer]
  /\ dd.size \in Nat \ {0}
  /\ dd.count \in 0..dd.size
  /\ dd.head \in 0..dd.size - 1 /\ dd.tail \in 0..dd.size - 1
  /\ dd.buffer \in [0..dd.size - 1 -> Values \cup {garbage}]
  /\ dd.count > 0 => dd.tail = (dd.head + dd.count - 1) % dd.size
  /\ \A j \in 1..dd.count : GenArray(dd)[j] \in Values

DequeOK == Ring(self)

\* What is compared with a sequence: not the length that goes with the array
\* of toArray and the iterator, which is the size of the ring and not the number
\* of the elements (d_toArray, line 219; d_itCreate, line 229): of that,
\* LengthsTold of Containers says what deque.h promises.
Told ==
  IF Len(ret) = 3 /\ ret[1] = "toArray" THEN <<"toArray", ret[2]>>
  ELSE IF Len(ret) = 3 /\ ret[1] = "iterator" THEN <<"iterator", Len(ret[3]), ret[3]>>
  ELSE ret
L == INSTANCE Line WITH items <- GenArray(self), ret <- Told
StepIsLine == [L!LineNext]_<<GenArray(self), ret>>
=============================================================================
