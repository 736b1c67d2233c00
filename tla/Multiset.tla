------------------------------- MODULE Multiset -------------------------------
(* What P0's bag.h promises: equal members are all kept and counted.       *)
(* A member is an object <<name, copy>>; those of one name compare equal.  *)
EXTENDS Integers, Sequences, FiniteSets

CONSTANTS Members

VARIABLES items, ret   \* items is the set of the objects in the bag

BagInit == items = {} /\ ret = <<"create">>

Of(name) == {x \in items : x[1] = name}

Add == /\ ret'[1] = "add"
       /\ \/ ret' = <<"add", TRUE>>
             /\ \E x \in Members \ items : items' = items \cup {x}
          \/ ret' = <<"add", FALSE>> /\ UNCHANGED items
Contains == /\ ret'[1] = "contains" /\ ret'[3] = (Of(ret'[2]) # {})
            /\ UNCHANGED items
Count == /\ ret'[1] = "count" /\ ret'[3] = Cardinality(Of(ret'[2]))
         /\ UNCHANGED items
\* One member of that name goes, whichever, and is freed.
Remove == /\ ret'[1] = "remove"
          /\ \/ \E x \in Of(ret'[2]) :
                  ret' = <<"remove", x[1], TRUE, x>> /\ items' = items \ {x}
             \/ /\ Of(ret'[2]) = {}
                /\ ret' = <<"remove", ret'[2], FALSE>>
                /\ UNCHANGED items

Lists(s) == /\ Len(s) = Cardinality(items)
            /\ {s[i] : i \in DOMAIN s} = items
Empty == /\ ret'[1] \in {"clear", "destroy"} /\ Lists(ret'[2]) /\ items' = {}
Size == /\ ret'[1] = "size" /\ ret'[2] = Cardinality(items)
        /\ UNCHANGED items
Array == /\ ret'[1] = "array" /\ (Len(ret') = 2 => Lists(ret'[2]))
         /\ UNCHANGED items
Iterate == /\ ret'[1] = "iterator"
           /\ Len(ret') = 3 => ret'[2] = Cardinality(items) /\ Lists(ret'[3])
           /\ UNCHANGED items

BagNext == Add \/ Contains \/ Count \/ Remove \/ Empty \/ Size \/ Array
           \/ Iterate
=============================================================================
