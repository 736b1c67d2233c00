----------------------------- MODULE StableQueue -----------------------------
(* What prioqueue.h promises: elements leave in the order of their         *)
(* priorities, and those of equal priority in the order they came.         *)
(* `items' is the queue in the order in which it would leave.              *)
EXTENDS Integers, Sequences, FiniteSets

CONSTANTS Priorities, Values

VARIABLES items, ret

StableInit == items = <<>> /\ ret = <<"create">>

\* Behind those of a priority that is not greater, before all others.
Insert == \E priority \in Priorities, value \in Values :
  \/ /\ ret' = <<"insert", TRUE>>
     /\ \E k \in 0..Len(items) :
          /\ \A i \in 1..k : items[i].priority <= priority
          /\ \A i \in k + 1..Len(items) : items[i].priority > priority
          /\ items' = SubSeq(items, 1, k)
                      \o <<[priority |-> priority, value |-> value]>>
                      \o SubSeq(items, k + 1, Len(items))
  \/ ret' = <<"insert", FALSE>> /\ UNCHANGED items

PeekMin == /\ ret'[1] = "min"
           /\ ret' = IF items = <<>> THEN <<"min", FALSE>>
                     ELSE <<"min", TRUE, items[1]>>
           /\ UNCHANGED items
RemoveMin ==
  /\ ret'[1] = "removeMin"
  /\ \/ items = <<>> /\ ret' = <<"removeMin", FALSE>> /\ UNCHANGED items
     \/ /\ items # <<>>
        /\ ret' = <<"removeMin", TRUE, items[1]>>
        /\ items' = Tail(items)

Count(s, e) == Cardinality({i \in DOMAIN s : s[i] = e})

\* Each priority and each value is handed to its free function once.
Empty ==
  /\ ret'[1] \in {"clear", "destroy"}
  /\ items' = <<>>
  /\ Len(ret'[2]) = Len(items)
  /\ \A i \in DOMAIN items : Count(ret'[2], items[i]) = Count(items, items[i])

Size == ret'[1] = "size" /\ ret'[2] = Len(items) /\ UNCHANGED items
ToArray == /\ ret'[1] = "toArray"
           /\ \/ ret' = <<"toArray", [i \in DOMAIN items |-> items[i].value]>>
              \/ ret' = <<"toArray">>
           /\ UNCHANGED items
Iterate ==
  /\ ret'[1] = "iterator"
  /\ \/ ret' = <<"iterator", Len(items), [i \in DOMAIN items |-> items[i].value]>>
     \/ ret' = <<"iterator">>
  /\ UNCHANGED items

StableNext == Insert \/ PeekMin \/ RemoveMin \/ Empty \/ Size \/ ToArray
              \/ Iterate

StableSpec == StableInit /\ [][StableNext]_<<items, ret>>
=============================================================================
