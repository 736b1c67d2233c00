------------------------------ MODULE LListMap ------------------------------
(* adts/llistmap.c: a map in a doubly linked ring with a sentinel, in the  *)
(* order of insertion. `self' is as in LListDeque.                         *)
EXTENDS Integers, Sequences, Linked

CONSTANTS Names, Copies,   \* a key is <<name, copy>>
          garbage, SENTINEL,
          Nodes   \* bound of the model: malloc fails when all are allocated

VARIABLES self, ret

NewMap ==
  [size |-> 0, heap |-> {},
   next |-> [p \in Nodes \cup {SENTINEL} |->
               IF p = SENTINEL THEN SENTINEL ELSE garbage],
   prev |-> [p \in Nodes \cup {SENTINEL} |->
               IF p = SENTINEL THEN SENTINEL ELSE garbage],
   entry |-> [p \in Nodes |-> garbage]]

Init == self = NewMap /\ ret = <<"create">>

Malloc(md) == CHOOSE p \in Nodes : p \notin md.heap

\* The nodes in the order in which purge, findKey, keys and entries go.
Walk(link, md) == Chain(link[SENTINEL], link, md.heap, SENTINEL)
Entries(md) ==
  LET nodes == Walk(md.next, md)
  IN [i \in DOMAIN nodes |-> md.entry[nodes[i]]]

Entry(name, copy) == [key |-> <<name, copy>>, value |-> copy]
Name(e) == e.key[1]

\* The first node of that name, or SENTINEL for the NULL of the code.
FindKey(name) ==
  LET nodes == Walk(self.next, self)
      found == {i \in DOMAIN nodes : Name(self.entry[nodes[i]]) = name}
  IN IF found = {} THEN SENTINEL
     ELSE nodes[CHOOSE i \in found : \A j \in found : i <= j]

Link(md, before, p, after) ==
  [md EXCEPT !.next = [@ EXCEPT ![p] = after, ![before] = p],
             !.prev = [@ EXCEPT ![p] = before, ![after] = p]]

Unlink(md, p) == [md EXCEPT !.next[md.prev[p]] = md.next[p],
                            !.prev[md.next[p]] = md.prev[p]]

\* At the end of the list; malloc may fail.
InsertEntry(op, e) ==
  \/ /\ self.heap # Nodes
     /\ LET p == Malloc(self)
        IN self' = [Link(self, self.prev[SENTINEL], p, SENTINEL) EXCEPT
                      !.heap = @ \cup {p}, !.entry[p] = e, !.size = @ + 1]
     /\ ret' = <<op, TRUE>>
  \/ UNCHANGED self /\ ret' = <<op, FALSE>>

\* The key and the value are objects that are not in the map.
Fresh(name, copy) ==
  \A p \in self.heap : self.entry[p] # Entry(name, copy)

Put(name, copy) ==
  LET p == FindKey(name)
  IN /\ Fresh(name, copy)
     /\ \/ /\ p # SENTINEL
           /\ self' = [self EXCEPT !.entry[p] = Entry(name, copy)]
           /\ ret' = <<"put", TRUE, self.entry[p]>>
        \/ p = SENTINEL /\ InsertEntry("put", Entry(name, copy))

PutUnique(name, copy) ==
  LET p == FindKey(name)
  IN /\ Fresh(name, copy)
     /\ \/ p = SENTINEL /\ InsertEntry("putUnique", Entry(name, copy))
        \/ p # SENTINEL /\ UNCHANGED self /\ ret' = <<"putUnique", FALSE>>

ContainsKey(name) ==
  /\ UNCHANGED self
  /\ ret' = <<"containsKey", name, FindKey(name) # SENTINEL>>

Get(name) ==
  LET p == FindKey(name)
  IN /\ UNCHANGED self
     /\ ret' = IF p # SENTINEL THEN <<"get", name, TRUE, self.entry[p].value>>
               ELSE <<"get", name, FALSE>>

Remove(name) ==
  LET p == FindKey(name)
  IN \/ /\ p # SENTINEL
        /\ self' = [Unlink(self, p) EXCEPT
                      !.size = @ - 1, !.heap = @ \ {p}, !.entry[p] = garbage,
                      !.next[p] = garbage, !.prev[p] = garbage]
        /\ ret' = <<"remove", name, TRUE, self.entry[p]>>
     \/ p = SENTINEL /\ UNCHANGED self /\ ret' = <<"remove", name, FALSE>>

\* clear; or destroy, after which the client goes on with a new map.
Clear(op) == self' = NewMap /\ ret' = <<op, Entries(self)>>

Size == UNCHANGED self /\ ret' = <<"size", self.size>>

\* keyArray and entryArray: NULL when the map is empty or malloc fails.
ToArray ==
  /\ UNCHANGED self
  /\ \/ self.size > 0 /\ ret' = <<"array", Entries(self)>>
     \/ ret' = <<"array">>

\* The iterator has pointers to the entries, here the names of their keys.
ItCreate ==
  /\ UNCHANGED self
  /\ \/ /\ self.size > 0
        /\ ret' = <<"iterator", self.size,
                   [i \in DOMAIN Entries(self) |-> Name(Entries(self)[i])]>>
     \/ ret' = <<"iterator">>

Next ==
  \/ \E n \in Names, copy \in Copies : Put(n, copy) \/ PutUnique(n, copy)
  \/ \E n \in Names : ContainsKey(n) \/ Get(n) \/ Remove(n)
  \/ \E op \in {"clear", "destroy"} : Clear(op)
  \/ Size \/ ToArray \/ ItCreate

Spec == Init /\ [][Next]_<<self, ret>>

-----------------------------------------------------------------------------
\* The ring has every allocated node once, prev is the way back, size
\* agrees with it, and no name is there twice.
ListOK ==
  LET nodes == Walk(self.next, self)
      back == Walk(self.prev, self)
      links == Nodes \cup {SENTINEL}
  IN /\ {"size", "heap", "next", "prev", "entry"} \subseteq DOMAIN self
     /\ IsChain(nodes, self.next[SENTINEL], self.next, self.heap, SENTINEL)
     /\ IsChain(back, self.prev[SENTINEL], self.prev, self.heap, SENTINEL)
     /\ self.size = Len(nodes) /\ Len(back) = Len(nodes)
     /\ \A i \in 1..Len(nodes) : back[i] = nodes[Len(nodes) + 1 - i]
     /\ \A i, j \in 1..Len(nodes) :
          Name(self.entry[nodes[i]]) = Name(self.entry[nodes[j]]) => i = j
     /\ self.heap \subseteq Nodes
     /\ self.next \in [links -> links \cup {garbage}]
     /\ self.prev \in [links -> links \cup {garbage}]
     /\ DOMAIN self.entry = Nodes
     /\ \A p \in self.heap : self.entry[p] \in [key : Names \X Copies, value : Copies]
     /\ \A p \in Nodes \ self.heap : self.entry[p] = garbage

Items ==
  LET all == Entries(self)
  IN [n \in {Name(all[i]) : i \in DOMAIN all} |->
        all[CHOOSE i \in DOMAIN all : Name(all[i]) = n]]
\* The map keeps the client's objects; put frees the old key and value.
KeyStored(n, copy) == <<n, copy>>
EntryReplaced(e) == e
D == INSTANCE Dictionary WITH items <- Items, Key <- KeyStored,
                              Replaced <- EntryReplaced
StepIsDict == [D!DictNext]_<<Items, ret>>
=============================================================================
