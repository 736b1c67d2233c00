------------------------------ MODULE Dictionary ------------------------------
(* What map.h and cskmap.h promise: at most one entry per key. A client    *)
(* passes a key and a value, the objects number copy of their name; keys   *)
(* of one name compare equal. `items' maps the names in the map to their   *)
(* entries; `ret' is the last call, its results, and the objects it freed. *)
EXTENDS Integers, Sequences, FiniteSets

CONSTANTS Names, Copies,
          Key(_, _),    \* Key(n, copy): the key that an insertion stores
          Replaced(_)   \* what put frees of an entry it replaces

VARIABLES items, ret

NoItems == [n \in {} |-> <<>>]
Entry(n, copy) == [key |-> Key(n, copy), value |-> copy]
With(n, e) == [m \in DOMAIN items \cup {n} |-> IF m = n THEN e ELSE items[m]]
Without(n) == [m \in DOMAIN items \ {n} |-> items[m]]

DictInit == items = NoItems /\ ret = <<"create">>

\* A new entry, when malloc does not fail; an entry of that name is
\* replaced, and what it no longer needs is freed.
Put == /\ ret'[1] = "put"
       /\ \E n \in Names, copy \in Copies :
            IF n \in DOMAIN items
            THEN ret' = <<"put", TRUE, Replaced(items[n])>>
                 /\ items' = With(n, Entry(n, copy))
            ELSE \/ ret' = <<"put", TRUE>> /\ items' = With(n, Entry(n, copy))
                 \/ ret' = <<"put", FALSE>> /\ UNCHANGED items
\* Only when there is none of that name.
PutUnique ==
  /\ ret'[1] = "putUnique"
  /\ \/ \E n \in Names \ DOMAIN items, copy \in Copies :
          ret' = <<"putUnique", TRUE>> /\ items' = With(n, Entry(n, copy))
     \/ ret' = <<"putUnique", FALSE>> /\ UNCHANGED items

Get == /\ ret'[1] \in {"get", "containsKey"}
       /\ LET n == ret'[2] IN
          ret'[3] = (n \in DOMAIN items)
          /\ (ret'[1] = "get" /\ n \in DOMAIN items => ret'[4] = items[n].value)
       /\ UNCHANGED items

\* The entry goes, and its key and value are freed.
Remove == /\ ret'[1] = "remove"
          /\ LET n == ret'[2]
             IN IF n \in DOMAIN items
                THEN ret' = <<"remove", n, TRUE, items[n]>> /\ items' = Without(n)
                ELSE ret' = <<"remove", n, FALSE>> /\ UNCHANGED items

\* A sequence that has each entry once.
Lists(s) == /\ Len(s) = Cardinality(DOMAIN items)
            /\ {s[i] : i \in DOMAIN s} = {items[n] : n \in DOMAIN items}

Empty == /\ ret'[1] \in {"clear", "destroy"}
         /\ Lists(ret'[2])
         /\ items' = NoItems

Size == /\ ret'[1] = "size" /\ ret'[2] = Cardinality(DOMAIN items)
        /\ UNCHANGED items
Array == /\ \/ ret' = <<"array">>
            \/ ret'[1] = "array" /\ Len(ret') = 2 /\ Lists(ret'[2])
         /\ UNCHANGED items
\* An iterator has each key of the map once.
Iterate == /\ \/ ret' = <<"iterator">>
              \/ /\ ret'[1] = "iterator" /\ ret'[2] = Cardinality(DOMAIN items)
                 /\ Len(ret'[3]) = ret'[2]
                 /\ {ret'[3][i] : i \in 1..ret'[2]} = DOMAIN items
           /\ UNCHANGED items

DictNext == Put \/ PutUnique \/ Get \/ Remove \/ Empty \/ Size \/ Array
            \/ Iterate
=============================================================================
