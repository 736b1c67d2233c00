------------------------------ MODULE ArrayList ------------------------------
(* adts/arraylist.c: a list with positions in an array that doubles when   *)
(* it is full, and that the client may enlarge or trim.  Trimming an empty *)
(* list frees the array (External: realloc to 0 bytes of glibc), though    *)
(* the list keeps the pointer and the capacity; theArray is then <<>>, and *)
(* calls that use it, for which C defines no outcome, are not made.        *)
EXTENDS Integers, Sequences

CONSTANTS Values, garbage,
          DEFAULT_ARRAYLIST_CAPACITY,  \* arraylist.h
          Capacities,                  \* what clients pass to ArrayList_create
          MAXSIZE                      \* bound of the model: realloc fails above

VARIABLES self, ret

NewList(capacity) ==
  LET cap == IF capacity <= 0 THEN DEFAULT_ARRAYLIST_CAPACITY ELSE capacity
  IN [capacity |-> cap, size |-> 0,
      theArray |-> [i \in 0..cap - 1 |-> garbage]]

Init == /\ \E capacity \in Capacities : self = NewList(capacity)
        /\ ret = <<"create">>

ArrayDupl(ald) == [j \in 1..ald.size |-> ald.theArray[j - 1]]

\* realloc keeps the slots there are.
Realloc(ald, capacity) ==
  [ald EXCEPT !.capacity = capacity,
     !.theArray = [i \in 0..capacity - 1 |->
                     IF i < ald.capacity THEN ald.theArray[i] ELSE garbage]]

HasArray(ald) == ald.theArray # <<>>

\* A full array is doubled first, unless realloc fails.
WithRoom ==
  IF ~HasArray(self) THEN {}
  ELSE IF self.capacity > self.size THEN {self}
  ELSE IF 2 * self.capacity <= MAXSIZE THEN {Realloc(self, 2 * self.capacity)}
  ELSE {}
NoRoom(op) ==
  self.capacity <= self.size /\ UNCHANGED self /\ ret' = <<op, FALSE>>

Add(element) ==
  \/ /\ \E ald \in WithRoom :
          self' = [ald EXCEPT !.theArray[ald.size] = element, !.size = @ + 1]
     /\ ret' = <<"putLast", TRUE>>
  \/ NoRoom("putLast")

\* The elements from index on slide up. index is not tested against 0:
\* "legal values of i are in the interval [0, N]".
Insert(index, element) ==
  \/ index > self.size /\ UNCHANGED self /\ ret' = <<"insert", FALSE>>
  \/ /\ index <= self.size
     /\ \E ald \in WithRoom :
          self' = [ald EXCEPT !.size = @ + 1,
            !.theArray = [j \in DOMAIN @ |->
              IF j = index THEN element
              ELSE IF j \in index + 1..ald.size THEN @[j - 1] ELSE @[j]]]
     /\ ret' = <<"insert", TRUE>>
  \/ index <= self.size /\ NoRoom("insert")

Occupied(index) == index >= 0 /\ index < self.size

Get(index) ==
  /\ UNCHANGED self
  /\ ret' = IF Occupied(index)
            THEN <<"get", index, TRUE, self.theArray[index]>>
            ELSE <<"get", index, FALSE>>

Remove(index) ==
  \/ /\ Occupied(index)
     /\ self' = [self EXCEPT !.size = @ - 1,
          !.theArray = [j \in DOMAIN @ |->
            IF j \in index..self.size - 2 THEN @[j + 1] ELSE @[j]]]
     /\ ret' = <<"remove", index, TRUE, self.theArray[index]>>
  \/ ~Occupied(index) /\ UNCHANGED self /\ ret' = <<"remove", index, FALSE>>

Set(index, element) ==
  \/ /\ Occupied(index)
     /\ self' = [self EXCEPT !.theArray[index] = element]
     /\ ret' = <<"set", index, TRUE, self.theArray[index]>>
  \/ ~Occupied(index) /\ UNCHANGED self /\ ret' = <<"set", index, FALSE>>

EnsureCapacity(minCapacity) ==
  \/ /\ self.capacity < minCapacity /\ HasArray(self)
     /\ \/ /\ self' = Realloc(self, minCapacity)
           /\ ret' = <<"ensureCapacity", TRUE>>
        \/ UNCHANGED self /\ ret' = <<"ensureCapacity", FALSE>>
  \/ /\ self.capacity >= minCapacity
     /\ UNCHANGED self
     /\ ret' = <<"ensureCapacity", TRUE>>

\* realloc frees the array of an empty list and returns NULL, which the list
\* takes for a failure.
TrimToSize ==
  /\ HasArray(self)
  /\ \/ /\ self.size > 0
        /\ self' = Realloc(self, self.size)
        /\ ret' = <<"trimToSize", TRUE>>
     \/ /\ self.size > 0
        /\ UNCHANGED self
        /\ ret' = <<"trimToSize", FALSE>>
     \/ /\ self.size = 0
        /\ self' = [self EXCEPT !.theArray = <<>>]
        /\ ret' = <<"trimToSize", FALSE>>

\* purge also sets the slots to NULL, which nobody reads.
Clear == /\ self' = [self EXCEPT !.size = 0,
              !.theArray = [j \in DOMAIN @ |->
                 IF j < self.size THEN garbage ELSE @[j]]]
         /\ ret' = <<"clear", ArrayDupl(self)>>

\* destroy; the client goes on with a new list.
Destroy == /\ HasArray(self)
           /\ self' = NewList(0)
           /\ ret' = <<"destroy", ArrayDupl(self)>>

Size == UNCHANGED self /\ ret' = <<"size", self.size>>

ToArray ==
  /\ UNCHANGED self
  /\ \/ self.size > 0 /\ ret' = <<"toArray", ArrayDupl(self)>>
     \/ ret' = <<"toArray">>

ItCreate ==
  /\ UNCHANGED self
  /\ \/ self.size > 0 /\ ret' = <<"iterator", self.size, ArrayDupl(self)>>
     \/ ret' = <<"iterator">>

\* The positions a client tries: the occupied ones, the end, and past it.
Next ==
  \/ \E v \in Values : Add(v)
  \/ \E i \in 0..self.size + 1, v \in Values : Insert(i, v) \/ Set(i, v)
  \/ \E i \in -1..self.size + 1 : Get(i) \/ Remove(i)
  \/ \E n \in 0..MAXSIZE : EnsureCapacity(n)
  \/ TrimToSize \/ Clear \/ Destroy \/ Size \/ ToArray \/ ItCreate

Spec == Init /\ [][Next]_<<self, ret>>

-----------------------------------------------------------------------------
\* A list whose elements are in the slots below size.
Filled(ald) ==
  /\ ald = [capacity |-> ald.capacity, size |-> ald.size,
            theArray |-> ald.theArray]
  /\ ald.capacity \in Nat \ {0}
  /\ ald.size \in 0..ald.capacity
  /\ ald.theArray \in [0..ald.capacity - 1 -> Values \cup {garbage}]
  /\ \A i \in 0..ald.size - 1 : ald.theArray[i] \in Values

\* An empty list whose array was freed.
Trimmed(ald) ==
  /\ ald = [capacity |-> ald.capacity, size |-> 0, theArray |-> <<>>]
  /\ ald.capacity \in Nat \ {0}

ListOK == Filled(self) \/ Trimmed(self)

L == INSTANCE Line WITH items <- ArrayDupl(self)
StepIsLine == [L!LineNext]_<<ArrayDupl(self), ret>>
=============================================================================
