----------------------------- MODULE LListCSKMap -----------------------------
(* adts/llistcskmap.c: the map of llistmap.c for keys that are C strings,  *)
(* of which it stores copies, as hashcskmap.c does. `self' is as in        *)
(* LListMap, and self.strings is the set of the allocated copies.          *)
EXTENDS Integers, Sequences

CONSTANTS Names, Copies, garbage, SENTINEL, Nodes

VARIABLES self, ret

M == INSTANCE LListMap

NewCSKMap == [size |-> M!NewMap.size, heap |-> M!NewMap.heap,
              next |-> M!NewMap.next, prev |-> M!NewMap.prev,
              entry |-> M!NewMap.entry, strings |-> {}]

Init == self = NewCSKMap /\ ret = <<"create">>

FindKey(name) == M!FindKey(name)
Link(md, before, p, after) == M!Link(md, before, p, after)
Unlink(md, p) == M!Unlink(md, p)

\* strdup.
Strdup(name) == CHOOSE s \in {name} \X Copies : s \notin self.strings

\* At the end of the list, linked only when malloc and strdup have succeeded.
InsertEntry(op, name, value) ==
  \/ /\ self.heap # Nodes
     /\ LET p == M!Malloc(self)
            k == Strdup(name)
        IN self' = [Link(self, self.prev[SENTINEL], p, SENTINEL) EXCEPT
                      !.heap = @ \cup {p}, !.strings = @ \cup {k},
                      !.entry[p] = [key |-> k, value |-> value], !.size = @ + 1]
     /\ ret' = <<op, TRUE>>
  \/ UNCHANGED self /\ ret' = <<op, FALSE>>

\* The value is an object that is not in the map.
Fresh(name, value) ==
  \A p \in self.heap :
    M!Name(self.entry[p]) # name \/ self.entry[p].value # value

Put(name, value) ==
  LET p == FindKey(name)
  IN /\ Fresh(name, value)
     /\ \/ /\ p # SENTINEL
           /\ self' = [self EXCEPT !.entry[p].value = value]
           /\ ret' = <<"put", TRUE, self.entry[p].value>>
        \/ p = SENTINEL /\ InsertEntry("put", name, value)

PutUnique(name, value) ==
  LET p == FindKey(name)
  IN /\ Fresh(name, value)
     /\ \/ p = SENTINEL /\ InsertEntry("putUnique", name, value)
        \/ p # SENTINEL /\ UNCHANGED self /\ ret' = <<"putUnique", FALSE>>

ContainsKey(name) == M!ContainsKey(name)
Get(name) == M!Get(name)

\* An entry as a client sees it: the string, not which copy of it.
Shown(e) == [key |-> M!Name(e), value |-> e.value]
ShownEntries ==
  LET all == M!Entries(self) IN [i \in DOMAIN all |-> Shown(all[i])]

Remove(name) ==
  LET p == FindKey(name)
  IN \/ /\ p # SENTINEL
        /\ self' = [Unlink(self, p) EXCEPT
                      !.size = @ - 1, !.strings = @ \ {self.entry[p].key},
                      !.heap = @ \ {p}, !.entry[p] = garbage,
                      !.next[p] = garbage, !.prev[p] = garbage]
        /\ ret' = <<"remove", name, TRUE, Shown(self.entry[p])>>
     \/ p = SENTINEL /\ UNCHANGED self /\ ret' = <<"remove", name, FALSE>>

\* clear; or destroy, after which the client goes on with a new map. The key
\* of each entry is freed, and its value.
Clear(op) ==
  /\ self' = [NewCSKMap EXCEPT
                !.strings = self.strings \ {self.entry[p].key : p \in self.heap}]
  /\ ret' = <<op, ShownEntries>>

Size == M!Size

\* keyArray and entryArray: NULL when the map is empty or malloc fails.
ToArray ==
  /\ UNCHANGED self
  /\ \/ self.size > 0 /\ ret' = <<"array", ShownEntries>>
     \/ ret' = <<"array">>

\* The iterator has pointers to the entries, here the names of their keys.
ItCreate ==
  /\ UNCHANGED self
  /\ \/ /\ self.size > 0
        /\ ret' = <<"iterator", self.size,
                   [i \in DOMAIN ShownEntries |-> ShownEntries[i].key]>>
     \/ ret' = <<"iterator">>

Next ==
  \/ \E n \in Names, value \in Copies : Put(n, value) \/ PutUnique(n, value)
  \/ \E n \in Names : ContainsKey(n) \/ Get(n) \/ Remove(n)
  \/ \E op \in {"clear", "destroy"} : Clear(op)
  \/ Size \/ ToArray \/ ItCreate

-----------------------------------------------------------------------------
\* As for LListMap; and the copies that are allocated are the entries' keys.
ListOK == /\ M!ListOK
          /\ "strings" \in DOMAIN self
          /\ self.strings = {self.entry[p].key : p \in self.heap}

Items ==
  LET all == ShownEntries
  IN [n \in {all[i].key : i \in DOMAIN all} |->
        all[CHOOSE i \in DOMAIN all : all[i].key = n]]
KeyStored(n, copy) == n
ValueReplaced(e) == e.value
D == INSTANCE Dictionary WITH items <- Items, Key <- KeyStored,
                              Replaced <- ValueReplaced
StepIsDict == [D!DictNext]_<<Items, ret>>
=============================================================================
