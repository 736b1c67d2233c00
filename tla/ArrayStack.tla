----------------------------- MODULE ArrayStack -----------------------------
(* adts/arraystack.c: a stack in an array that doubles when it is full.    *)
EXTENDS Integers, Sequences

CONSTANTS Values, garbage,
          DEFAULT_STACK_CAPACITY,  \* stack.h
          Capacities,              \* what clients pass to ArrayStack()
          MAXSIZE                  \* bound of the model: realloc fails above

VARIABLES self, ret

NewStack(capacity) ==
  LET cap == IF capacity <= 0 THEN DEFAULT_STACK_CAPACITY ELSE capacity
  IN [capacity |-> cap, next |-> 0, theArray |-> [i \in 0..cap - 1 |-> garbage]]

Init == /\ \E capacity \in Capacities : self = NewStack(capacity)
        /\ ret = <<"create">>

\* realloc keeps the old slots.
Grown(std) ==
  [capacity |-> 2 * std.capacity, next |-> std.next,
   theArray |-> [i \in 0..2 * std.capacity - 1 |->
                   IF i < std.capacity THEN std.theArray[i] ELSE garbage]]

Stored(std, element) == [std EXCEPT !.theArray[std.next] = element,
                                    !.next = std.next + 1]

Push(element) ==
  \/ /\ self.next < self.capacity
     /\ self' = Stored(self, element)
     /\ ret' = <<"putFirst", TRUE>>
  \/ /\ self.next >= self.capacity
     /\ 2 * self.capacity <= MAXSIZE
     /\ self' = Stored(Grown(self), element)
     /\ ret' = <<"putFirst", TRUE>>
  \/ /\ self.next >= self.capacity
     /\ UNCHANGED self
     /\ ret' = <<"putFirst", FALSE>>

Pop ==
  \/ /\ self.next > 0
     /\ self' = [self EXCEPT !.next = self.next - 1]
     /\ ret' = <<"takeFirst", TRUE, self.theArray[self.next - 1]>>
  \/ self.next <= 0 /\ UNCHANGED self /\ ret' = <<"takeFirst", FALSE>>

Peek ==
  /\ UNCHANGED self
  /\ ret' = IF self.next > 0
            THEN <<"first", TRUE, self.theArray[self.next - 1]>>
            ELSE <<"first", FALSE>>

\* From the top down; purge goes from the bottom up.
ArrayDupl(std) == [j \in 1..std.next |-> std.theArray[std.next - j]]
Purged(std) == [j \in 1..std.next |-> std.theArray[j - 1]]

Clear == /\ self' = [self EXCEPT !.next = 0]
         /\ ret' = <<"clear", Purged(self)>>

\* destroy; the client goes on with a new stack that st_create made of this.
Destroy == /\ self' = NewStack(DEFAULT_STACK_CAPACITY)
           /\ ret' = <<"destroy", Purged(self)>>

Size == UNCHANGED self /\ ret' = <<"size", self.next>>

ToArray ==
  /\ UNCHANGED self
  /\ \/ self.next > 0 /\ ret' = <<"toArray", ArrayDupl(self)>>
     \/ ret' = <<"toArray">>

ItCreate ==
  /\ UNCHANGED self
  /\ \/ self.next > 0 /\ ret' = <<"iterator", self.next, ArrayDupl(self)>>
     \/ ret' = <<"iterator">>

Next == \/ \E v \in Values : Push(v)
        \/ Pop \/ Peek \/ Clear \/ Destroy \/ Size \/ ToArray \/ ItCreate

Spec == Init /\ [][Next]_<<self, ret>>

-----------------------------------------------------------------------------
\* A stack whose elements are in the slots below next.
Filled(std) ==
  /\ std = [capacity |-> std.capacity, next |-> std.next,
            theArray |-> std.theArray]
  /\ std.capacity \in Nat \ {0}
  /\ std.next \in 0..std.capacity
  /\ std.theArray \in [0..std.capacity - 1 -> Values \cup {garbage}]
  /\ \A i \in 0..std.next - 1 : std.theArray[i] \in Values

StackOK == Filled(self)

L == INSTANCE Line WITH items <- ArrayDupl(self)
\* Last in, first out.
StepIsLine == [L!LineNext]_<<ArrayDupl(self), ret>>
=============================================================================
