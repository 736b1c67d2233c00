----------------------------- MODULE LListStack -----------------------------
(* adts/lliststack.c: a stack in a singly linked list, its top at the head *)
(* of the list. `self' is as in LListQueue.                                *)
EXTENDS Integers, Sequences, Linked

CONSTANTS Values, garbage, NULL,
          Nodes   \* bound of the model: malloc fails when all are allocated

VARIABLES self, ret

NewStack == [count |-> 0, head |-> NULL, heap |-> {},
             next |-> [p \in Nodes |-> garbage],
             value |-> [p \in Nodes |-> garbage]]

Init == self = NewStack /\ ret = <<"create">>

Malloc(std) == CHOOSE p \in Nodes : p \notin std.heap

\* The nodes from head on, as purge, freeList and genArray visit them.
ListNodes(std) == Chain(std.head, std.next, std.heap, NULL)
GenArray(std) ==
  LET nodes == ListNodes(std)
  IN [i \in DOMAIN nodes |-> std.value[nodes[i]]]

Push(element) ==
  \/ /\ self.heap # Nodes
     /\ LET p == Malloc(self)
        IN self' = [self EXCEPT !.heap = @ \cup {p},
                                !.value[p] = element, !.next[p] = self.head,
                                !.head = p, !.count = @ + 1]
     /\ ret' = <<"putFirst", TRUE>>
  \/ UNCHANGED self /\ ret' = <<"putFirst", FALSE>>

Pop ==
  \/ /\ self.count > 0
     /\ LET p == self.head
        IN self' = [self EXCEPT
             !.head = self.next[p], !.count = @ - 1,
             !.heap = @ \ {p}, !.next[p] = garbage, !.value[p] = garbage]
     /\ ret' = <<"takeFirst", TRUE, self.value[self.head]>>
  \/ self.count <= 0 /\ UNCHANGED self /\ ret' = <<"takeFirst", FALSE>>

Peek ==
  /\ UNCHANGED self
  /\ ret' = IF self.count > 0 THEN <<"first", TRUE, self.value[self.head]>>
            ELSE <<"first", FALSE>>

\* clear; or destroy, after which the client goes on with a new stack.
Clear(op) == self' = NewStack /\ ret' = <<op, GenArray(self)>>

Size == UNCHANGED self /\ ret' = <<"size", self.count>>

ToArray ==
  /\ UNCHANGED self
  /\ \/ self.count > 0 /\ ret' = <<"toArray", GenArray(self)>>
     \/ ret' = <<"toArray">>

ItCreate ==
  /\ UNCHANGED self
  /\ \/ self.count > 0 /\ ret' = <<"iterator", self.count, GenArray(self)>>
     \/ ret' = <<"iterator">>

Next == \/ \E v \in Values : Push(v)
        \/ \E op \in {"clear", "destroy"} : Clear(op)
        \/ Pop \/ Peek \/ Size \/ ToArray \/ ItCreate

Spec == Init /\ [][Next]_<<self, ret>>

-----------------------------------------------------------------------------
\* The list has every allocated node once, and count agrees with it.
Holds(std) ==
  LET nodes == ListNodes(std)
  IN /\ std = [count |-> std.count, head |-> std.head, heap |-> std.heap,
               next |-> std.next, value |-> std.value]
     /\ IsChain(nodes, std.head, std.next, std.heap, NULL)
     /\ std.count = Len(nodes)
     /\ std.heap \subseteq Nodes
     /\ std.next \in [Nodes -> Nodes \cup {NULL, garbage}]
     /\ std.value \in [Nodes -> Values \cup {garbage}]
     /\ \A p \in std.heap : std.value[p] \in Values
     /\ \A p \in Nodes \ std.heap : std.next[p] = garbage

ListOK == Holds(self)

L == INSTANCE Line WITH items <- GenArray(self)
StepIsLine == [L!LineNext]_<<GenArray(self), ret>>
=============================================================================
