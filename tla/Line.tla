-------------------------------- MODULE Line --------------------------------
(* What queue.h, stack.h, deque.h and arraylist.h promise: a finite        *)
(* sequence of elements, and for each call what the caller gets back.      *)
(* `ret' is the last call and its results; a call that frees elements      *)
(* (clear, destroy, remove, set) lists them there. A queue is a line whose *)
(* clients only call putLast and takeFirst; a stack, whose first element   *)
(* is its top, one whose clients only call putFirst and takeFirst.         *)
EXTENDS Naturals, Sequences, FiniteSets

CONSTANT Values

VARIABLES items, ret

line == <<items, ret>>

LineInit == items = <<>> /\ ret = <<"create">>

\* An insertion succeeds, or fails for want of memory and changes nothing.
Put(op, grown) ==
  \/ ret' = <<op, TRUE>> /\ items' = grown
  \/ ret' = <<op, FALSE>> /\ UNCHANGED items

PutFirst == \E v \in Values : Put("putFirst", <<v>> \o items)
PutLast == \E v \in Values : Put("putLast", Append(items, v))
Insert ==
  /\ ret'[1] = "insert"
  /\ \E v \in Values, i \in 0..Len(items) :
       Put("insert",
           SubSeq(items, 1, i) \o <<v>> \o SubSeq(items, i + 1, Len(items)))

\* A call that needs an element fails exactly when there is none.
PeekFirst == /\ ret'[1] = "first"
             /\ ret' = IF items = <<>> THEN <<"first", FALSE>>
                       ELSE <<"first", TRUE, items[1]>>
             /\ UNCHANGED items
PeekLast == /\ ret'[1] = "last"
            /\ ret' = IF items = <<>> THEN <<"last", FALSE>>
                      ELSE <<"last", TRUE, items[Len(items)]>>
            /\ UNCHANGED items

TakeFirst ==
  /\ ret'[1] = "takeFirst"
  /\ \/ items = <<>> /\ ret' = <<"takeFirst", FALSE>> /\ UNCHANGED items
     \/ /\ items # <<>>
        /\ ret' = <<"takeFirst", TRUE, items[1]>>
        /\ items' = Tail(items)
\* removeFirst of the deques. Of an empty one deque.h:102 says "true if the
\* deque is empty" where all its neighbours say false, as the code returns.
RemoveFirst ==
  /\ ret'[1] = "removeFirst"
  /\ \/ /\ items = <<>>
        /\ \E status \in BOOLEAN : ret' = <<"removeFirst", status>>
        /\ UNCHANGED items
     \/ /\ items # <<>>
        /\ ret' = <<"removeFirst", TRUE, items[1]>>
        /\ items' = Tail(items)
TakeLast ==
  /\ ret'[1] = "takeLast"
  /\ \/ items = <<>> /\ ret' = <<"takeLast", FALSE>> /\ UNCHANGED items
     \/ /\ items # <<>>
        /\ ret' = <<"takeLast", TRUE, items[Len(items)]>>
        /\ items' = SubSeq(items, 1, Len(items) - 1)

\* Positions are counted from 0, as in C; ret'[2] is the one asked for.
Occupied(i) == i \in 0..Len(items) - 1

Get ==
  /\ ret'[1] = "get"
  /\ LET i == ret'[2]
     IN ret' = IF Occupied(i) THEN <<"get", i, TRUE, items[i + 1]>>
               ELSE <<"get", i, FALSE>>
  /\ UNCHANGED items
Set ==
  /\ ret'[1] = "set"
  /\ \E i \in 0..Len(items) - 1, v \in Values :
       /\ ret' = <<"set", i, TRUE, items[i + 1]>>
       /\ items' = [items EXCEPT ![i + 1] = v]
Remove ==
  /\ ret'[1] = "remove"
  /\ \E i \in 0..Len(items) - 1 :
       /\ ret' = <<"remove", i, TRUE, items[i + 1]>>
       /\ items' = SubSeq(items, 1, i) \o SubSeq(items, i + 2, Len(items))
Misplaced ==
  /\ ret'[1] \in {"set", "remove"}
  /\ ~Occupied(ret'[2])
  /\ ret' = <<ret'[1], ret'[2], FALSE>>
  /\ UNCHANGED items

Count(s, v) == Cardinality({i \in DOMAIN s : s[i] = v})

\* Each element is handed to freeValue once, in any order, and the line is
\* empty.
Empty ==
  /\ ret'[1] \in {"clear", "destroy"}
  /\ items' = <<>>
  /\ Len(ret'[2]) = Len(items)
  /\ \A v \in Values : Count(ret'[2], v) = Count(items, v)

Size == ret'[1] = "size" /\ ret'[2] = Len(items) /\ UNCHANGED items
ToArray ==
  /\ ret'[1] = "toArray"
  /\ \/ ret' = <<"toArray", items>>
     \/ ret' = <<"toArray">>
  /\ UNCHANGED items
\* An iterator is made of a copy of the elements and of their number.
Iterate ==
  /\ ret'[1] = "iterator"
  /\ \/ ret' = <<"iterator", Len(items), items>>
     \/ ret' = <<"iterator">>
  /\ UNCHANGED items
\* The capacity is not part of the line.
Resize == ret'[1] \in {"ensureCapacity", "trimToSize"} /\ UNCHANGED items

LineNext ==
  \/ PutFirst \/ PutLast \/ Insert
  \/ PeekFirst \/ PeekLast \/ TakeFirst \/ RemoveFirst \/ TakeLast
  \/ Get \/ Set \/ Remove \/ Misplaced
  \/ Empty \/ Size \/ ToArray \/ Iterate \/ Resize

LineSpec == LineInit /\ [][LineNext]_line
=============================================================================
