----------------------------- MODULE LListDeque -----------------------------
(* adts/llistdeque.c: a deque in a doubly linked ring of nodes with a      *)
(* sentinel. `self' is as in LListQueue; the sentinel is no heap node.     *)
EXTENDS Integers, Sequences, Linked

CONSTANTS Values, garbage, SENTINEL,
          Nodes   \* bound of the model: malloc fails when all are allocated

VARIABLES self, ret

NewDeque ==
  [size |-> 0, heap |-> {},
   next |-> [p \in Nodes \cup {SENTINEL} |->
               IF p = SENTINEL THEN SENTINEL ELSE garbage],
   prev |-> [p \in Nodes \cup {SENTINEL} |->
               IF p = SENTINEL THEN SENTINEL ELSE garbage],
   element |-> [p \in Nodes |-> garbage]]

Init == self = NewDeque /\ ret = <<"create">>

Malloc(dd) == CHOOSE p \in Nodes : p \notin dd.heap

Link(dd, before, p, after) ==
  [dd EXCEPT !.next = [@ EXCEPT ![p] = after, ![before] = p],
             !.prev = [@ EXCEPT ![p] = before, ![after] = p]]

Unlink(dd, p) == [dd EXCEPT !.next[dd.prev[p]] = dd.next[p],
                            !.prev[dd.next[p]] = dd.prev[p]]

Free(dd, p) == [dd EXCEPT !.heap = @ \ {p}, !.element[p] = garbage,
                          !.next[p] = garbage, !.prev[p] = garbage]

\* The nodes as purge, freeList and genArray visit them.
Walk(link, dd) == Chain(link[SENTINEL], link, dd.heap, SENTINEL)
GenArray(dd) ==
  LET nodes == Walk(dd.next, dd)
  IN [i \in DOMAIN nodes |-> dd.element[nodes[i]]]

\* A new node with the element, linked between before and after.
Inserted(before, after, element) ==
  LET p == Malloc(self)
  IN [Link(self, before, p, after) EXCEPT
        !.heap = @ \cup {p}, !.element[p] = element, !.size = @ + 1]

InsertFirst(element) ==
  \/ /\ self.heap # Nodes
     /\ self' = Inserted(SENTINEL, self.next[SENTINEL], element)
     /\ ret' = <<"putFirst", TRUE>>
  \/ UNCHANGED self /\ ret' = <<"putFirst", FALSE>>
InsertLast(element) ==
  \/ /\ self.heap # Nodes
     /\ self' = Inserted(self.prev[SENTINEL], SENTINEL, element)
     /\ ret' = <<"putLast", TRUE>>
  \/ UNCHANGED self /\ ret' = <<"putLast", FALSE>>

First ==
  LET p == self.next[SENTINEL]
  IN /\ UNCHANGED self
     /\ ret' = IF p # SENTINEL THEN <<"first", TRUE, self.element[p]>>
               ELSE <<"first", FALSE>>
Last ==
  LET p == self.prev[SENTINEL]
  IN /\ UNCHANGED self
     /\ ret' = IF p # SENTINEL THEN <<"last", TRUE, self.element[p]>>
               ELSE <<"last", FALSE>>

Removed(p) == [Free(Unlink(self, p), p) EXCEPT !.size = @ - 1]

RemoveFirst ==
  LET p == self.next[SENTINEL]
  IN \/ /\ p # SENTINEL
        /\ self' = Removed(p)
        /\ ret' = <<"removeFirst", TRUE, self.element[p]>>
     \/ p = SENTINEL /\ UNCHANGED self /\ ret' = <<"removeFirst", FALSE>>
RemoveLast ==
  LET p == self.prev[SENTINEL]
  IN \/ /\ p # SENTINEL
        /\ self' = Removed(p)
        /\ ret' = <<"takeLast", TRUE, self.element[p]>>
     \/ p = SENTINEL /\ UNCHANGED self /\ ret' = <<"takeLast", FALSE>>

\* clear; or destroy, after which the client goes on with a new deque.
Clear(op) == self' = NewDeque /\ ret' = <<op, GenArray(self)>>

Size == UNCHANGED self /\ ret' = <<"size", self.size>>

ToArray ==
  /\ UNCHANGED self
  /\ \/ self.size > 0 /\ ret' = <<"toArray", GenArray(self)>>
     \/ ret' = <<"toArray">>

ItCreate ==
  /\ UNCHANGED self
  /\ \/ self.size > 0 /\ ret' = <<"iterator", self.size, GenArray(self)>>
     \/ ret' = <<"iterator">>

Next == \/ \E v \in Values : InsertFirst(v) \/ InsertLast(v)
        \/ \E op \in {"clear", "destroy"} : Clear(op)
        \/ First \/ Last \/ RemoveFirst \/ RemoveLast \/ Size \/ ToArray \/ ItCreate

Spec == Init /\ [][Next]_<<self, ret>>

-----------------------------------------------------------------------------
\* The ring has every allocated node once, prev is the way back, and size
\* agrees with it.
Holds(dd) ==
  LET nodes == Walk(dd.next, dd)
      back == Walk(dd.prev, dd)
      links == Nodes \cup {SENTINEL}
  IN /\ dd = [size |-> dd.size, heap |-> dd.heap, next |-> dd.next,
              prev |-> dd.prev, element |-> dd.element]
     /\ IsChain(nodes, dd.next[SENTINEL], dd.next, dd.heap, SENTINEL)
     /\ IsChain(back, dd.prev[SENTINEL], dd.prev, dd.heap, SENTINEL)
     /\ dd.size = Len(nodes) /\ Len(back) = Len(nodes)
     /\ \A i \in 1..Len(nodes) : back[i] = nodes[Len(nodes) + 1 - i]
     /\ dd.heap \subseteq Nodes
     /\ dd.next \in [links -> links \cup {garbage}]
     /\ dd.prev \in [links -> links \cup {garbage}]
     /\ dd.element \in [Nodes -> Values \cup {garbage}]
     /\ \A p \in dd.heap : dd.element[p] \in Values
     /\ \A p \in Nodes \ dd.heap : dd.next[p] = garbage

ListOK == Holds(self)

L == INSTANCE Line WITH items <- GenArray(self)
StepIsLine == [L!LineNext]_<<GenArray(self), ret>>
=============================================================================
