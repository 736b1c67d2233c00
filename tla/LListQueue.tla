----------------------------- MODULE LListQueue -----------------------------
(* adts/llistqueue.c: a FIFO queue in a singly linked list. The instance's *)
(* QData and the fields of its nodes are in `self'; self.heap holds the    *)
(* allocated nodes, and a freed node's fields are `garbage'.               *)
EXTENDS Integers, Sequences, Linked

CONSTANTS Values, garbage, NULL,
          Nodes   \* bound of the model: malloc fails when all are allocated

NodesAssumption == NULL \notin Nodes

VARIABLES self, ret

NewQueue == [count |-> 0, head |-> NULL, tail |-> NULL, heap |-> {},
             next |-> [p \in Nodes |-> garbage],
             value |-> [p \in Nodes |-> garbage]]

Init == self = NewQueue /\ ret = <<"create">>

Malloc(qd) == CHOOSE p \in Nodes : p \notin qd.heap

\* The nodes from head on, as purge, freeList and genArray visit them.
ListNodes(qd) == Chain(qd.head, qd.next, qd.heap, NULL)
GenArray(qd) ==
  LET nodes == ListNodes(qd)
  IN [i \in DOMAIN nodes |-> qd.value[nodes[i]]]

Enqueue(element) ==
  \/ /\ self.heap # Nodes
     /\ LET p == Malloc(self)
            linked == [self.next EXCEPT ![p] = NULL]
        IN self' = [self EXCEPT
             !.heap = @ \cup {p},
             !.value[p] = element,
             !.next = IF self.tail = NULL THEN linked
                      ELSE [linked EXCEPT ![self.tail] = p],
             !.head = IF self.tail = NULL THEN p ELSE @,
             !.tail = p,
             !.count = @ + 1]
     /\ ret' = <<"putLast", TRUE>>
  \/ UNCHANGED self /\ ret' = <<"putLast", FALSE>>

PeekFront ==
  /\ UNCHANGED self
  /\ ret' = IF self.count > 0 THEN <<"first", TRUE, self.value[self.head]>>
            ELSE <<"first", FALSE>>

Dequeue ==
  \/ /\ self.count > 0
     /\ LET p == self.head
        IN self' = [self EXCEPT
             !.head = self.next[p],
             !.tail = IF self.next[p] = NULL THEN NULL ELSE @,
             !.count = @ - 1,
             !.heap = @ \ {p}, !.next[p] = garbage, !.value[p] = garbage]
     /\ ret' = <<"takeFirst", TRUE, self.value[self.head]>>
  \/ self.count <= 0 /\ UNCHANGED self /\ ret' = <<"takeFirst", FALSE>>

\* clear; or destroy, after which the client goes on with a new queue.
Clear(op) == self' = NewQueue /\ ret' = <<op, GenArray(self)>>

Size == UNCHANGED self /\ ret' = <<"size", self.count>>

ToArray ==
  /\ UNCHANGED self
  /\ \/ self.count > 0 /\ ret' = <<"toArray", GenArray(self)>>
     \/ ret' = <<"toArray">>

ItCreate ==
  /\ UNCHANGED self
  /\ \/ self.count > 0 /\ ret' = <<"iterator", self.count, GenArray(self)>>
     \/ ret' = <<"iterator">>

Next == \/ \E v \in Values : Enqueue(v)
        \/ \E op \in {"clear", "destroy"} : Clear(op)
        \/ Dequeue \/ PeekFront \/ Size \/ ToArray \/ ItCreate

Spec == Init /\ [][Next]_<<self, ret>>

-----------------------------------------------------------------------------
\* The list has every allocated node once; count and tail agree with it.
Holds(qd) ==
  LET nodes == ListNodes(qd)
  IN /\ qd = [count |-> qd.count, head |-> qd.head, tail |-> qd.tail,
              heap |-> qd.heap, next |-> qd.next, value |-> qd.value]
     /\ IsChain(nodes, qd.head, qd.next, qd.heap, NULL)
     /\ qd.count = Len(nodes)
     /\ qd.tail = IF nodes = <<>> THEN NULL ELSE nodes[Len(nodes)]
     /\ qd.heap \subseteq Nodes
     /\ qd.next \in [Nodes -> Nodes \cup {NULL, garbage}]
     /\ qd.value \in [Nodes -> Values \cup {garbage}]
     /\ \A p \in qd.heap : qd.value[p] \in Values
     /\ \A p \in Nodes \ qd.heap : qd.next[p] = garbage

ListOK == Holds(self)

L == INSTANCE Line WITH items <- GenArray(self)
StepIsLine == [L!LineNext]_<<GenArray(self), ret>>
=============================================================================
