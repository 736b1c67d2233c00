--------------------------- MODULE LListPrioQueue ---------------------------
(* adts/llistprioqueue.c: a priority queue in a sorted singly linked list. *)
(* `self' is as in LListQueue.                                             *)
EXTENDS Integers, Sequences, Linked

CONSTANTS Priorities, Values, garbage, NULL,
          Nodes   \* bound of the model: malloc fails when all are allocated

NodesAssumption == NULL \notin Nodes

VARIABLES self, ret

NewPrioQueue == [size |-> 0, head |-> NULL, tail |-> NULL, heap |-> {},
                 next |-> [p \in Nodes |-> garbage],
                 entry |-> [p \in Nodes |-> garbage]]

Init == self = NewPrioQueue /\ ret = <<"create">>

Malloc(pqd) == CHOOSE p \in Nodes : p \notin pqd.heap

\* The nodes from head on, as purge, freeList and genArray visit them.
ListNodes(pqd) == Chain(pqd.head, pqd.next, pqd.heap, NULL)
Entries(pqd) ==
  LET nodes == ListNodes(pqd)
  IN [i \in DOMAIN nodes |-> pqd.entry[nodes[i]]]

\* Where the search stops: the first node with a greater priority, or NULL,
\* and the node before it, or NULL.
Place(pqd, priority) ==
  LET nodes == ListNodes(pqd)
      stops == {i \in DOMAIN nodes : priority < pqd.entry[nodes[i]].priority}
      at == IF stops = {} THEN Len(nodes) + 1
            ELSE CHOOSE i \in stops : \A j \in stops : i <= j
  IN [prev |-> IF at = 1 THEN NULL ELSE nodes[at - 1],
      next |-> IF at > Len(nodes) THEN NULL ELSE nodes[at]]

Insert(priority, value) ==
  \/ /\ self.heap # Nodes
     /\ LET new == Malloc(self)
            place == Place(self, priority)
            linked == [self.next EXCEPT ![new] = place.next]
        IN self' = [self EXCEPT
             !.heap = @ \cup {new},
             !.entry[new] = [priority |-> priority, value |-> value],
             !.next = IF place.prev = NULL THEN linked
                      ELSE [linked EXCEPT ![place.prev] = new],
             !.head = IF place.prev = NULL THEN new ELSE @,
             !.tail = IF place.next = NULL THEN new ELSE @,
             !.size = @ + 1]
     /\ ret' = <<"insert", TRUE>>
  \/ UNCHANGED self /\ ret' = <<"insert", FALSE>>

PeekMin ==
  /\ UNCHANGED self
  /\ ret' = IF self.size > 0 THEN <<"min", TRUE, self.entry[self.head]>>
            ELSE <<"min", FALSE>>

RemoveMin ==
  \/ /\ self.size > 0
     /\ LET p == self.head
        IN self' = [self EXCEPT
             !.head = self.next[p],
             !.tail = IF self.next[p] = NULL THEN NULL ELSE @,
             !.size = @ - 1,
             !.heap = @ \ {p}, !.next[p] = garbage, !.entry[p] = garbage]
     /\ ret' = <<"removeMin", TRUE, self.entry[self.head]>>
  \/ self.size <= 0 /\ UNCHANGED self /\ ret' = <<"removeMin", FALSE>>

\* clear; or destroy, after which the client goes on with a new queue.
Clear(op) == self' = NewPrioQueue /\ ret' = <<op, Entries(self)>>

Size == UNCHANGED self /\ ret' = <<"size", self.size>>

ToArray ==
  /\ UNCHANGED self
  /\ \/ /\ self.size > 0
        /\ ret' = <<"toArray", [i \in DOMAIN Entries(self) |->
                                  Entries(self)[i].value]>>
     \/ ret' = <<"toArray">>

ItCreate ==
  /\ UNCHANGED self
  /\ \/ /\ self.size > 0
        /\ ret' = <<"iterator", self.size,
                   [i \in DOMAIN Entries(self) |-> Entries(self)[i].value]>>
     \/ ret' = <<"iterator">>

Next == \/ \E priority \in Priorities, value \in Values : Insert(priority, value)
        \/ \E op \in {"clear", "destroy"} : Clear(op)
        \/ PeekMin \/ RemoveMin \/ Size \/ ToArray \/ ItCreate

Spec == Init /\ [][Next]_<<self, ret>>

-----------------------------------------------------------------------------
\* The list has every allocated node once, the least priority first; size and
\* tail agree with it.
Holds(pqd) ==
  LET nodes == ListNodes(pqd)
  IN /\ pqd = [size |-> pqd.size, head |-> pqd.head, tail |-> pqd.tail,
               heap |-> pqd.heap, next |-> pqd.next, entry |-> pqd.entry]
     /\ IsChain(nodes, pqd.head, pqd.next, pqd.heap, NULL)
     /\ pqd.size = Len(nodes)
     /\ pqd.tail = IF nodes = <<>> THEN NULL ELSE nodes[Len(nodes)]
     /\ pqd.heap \subseteq Nodes
     /\ pqd.next \in [Nodes -> Nodes \cup {NULL, garbage}]
     /\ DOMAIN pqd.entry = Nodes
     /\ \A p \in pqd.heap : pqd.entry[p] \in [priority : Priorities, value : Values]
     /\ \A p \in Nodes \ pqd.heap : pqd.next[p] = garbage /\ pqd.entry[p] = garbage
     /\ \A i, j \in 1..Len(nodes) :
          i < j => pqd.entry[nodes[i]].priority <= pqd.entry[nodes[j]].priority

ListOK == Holds(self)

Q == INSTANCE StableQueue WITH items <- Entries(self)
StepIsStable == [Q!StableNext]_<<Entries(self), ret>>
=============================================================================
