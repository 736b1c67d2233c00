----------------------------- MODULE HashCSKMap -----------------------------
(* adts/hashcskmap.c: the map of hashmap.c for keys that are C strings. It *)
(* stores a copy of each key that it makes and frees itself: put keeps the *)
(* key of an entry it replaces. Names stand for what the loop of hash()    *)
(* adds up. `self' is as in HashMap, and self.strings is the set of the    *)
(* copies <<name, copy>> that are allocated.                               *)
EXTENDS Integers, Sequences, Linked

CONSTANTS Names, Copies,
          DEFAULT_CAPACITY, MAX_CAPACITY, TRIGGER, UNITS, LoadFactor,
          Capacities

VARIABLES self, ret

M == INSTANCE HashMap

NewCSKMap(capacity) ==
  LET md == M!NewMap(capacity)
  IN [size |-> md.size, capacity |-> md.capacity, changes |-> md.changes,
      load |-> md.load, buckets |-> md.buckets, strings |-> {}]

Init == /\ \E capacity \in Capacities : self = NewCSKMap(capacity)
        /\ ret = <<"create">>

Hash(name, N) == M!Hash(name, N)
FindKey(md, name) == M!FindKey(md, name)
Checked(md) == M!Checked(md)

\* strdup.
Strdup(md, name) == CHOOSE s \in {name} \X Copies : s \notin md.strings

\* When malloc or strdup fails there is no entry and nothing stays allocated.
InsertEntry(op, md, name, value) ==
  LET k == Strdup(md, name)
  IN \/ /\ self' = [M!InsertEntry(md, [key |-> k, value |-> value]) EXCEPT
                      !.strings = @ \cup {k}]
        /\ ret' = <<op, TRUE>>
     \/ self' = md /\ ret' = <<op, FALSE>>

\* The value is an object that is not in the map.
Fresh(name, value) ==
  LET all == M!Entries(self)
  IN \A i \in DOMAIN all : M!Name(all[i]) # name \/ all[i].value # value

Put(name, value) ==
  /\ Fresh(name, value)
  /\ \E md \in Checked(self) :
       LET j == FindKey(md, name)
           i == Hash(name, md.capacity)
       IN \/ /\ j # 0
             /\ self' = [md EXCEPT !.buckets[i][j].value = value]
             /\ ret' = <<"put", TRUE, md.buckets[i][j].value>>
          \/ j = 0 /\ InsertEntry("put", md, name, value)

PutUnique(name, value) ==
  /\ Fresh(name, value)
  /\ \E md \in Checked(self) :
       \/ FindKey(md, name) = 0 /\ InsertEntry("putUnique", md, name, value)
       \/ /\ FindKey(md, name) # 0
          /\ self' = md /\ ret' = <<"putUnique", FALSE>>

ContainsKey(name) == M!ContainsKey(name)
Get(name) == M!Get(name)

\* An entry as a client sees it: the string, not which copy of it.
Shown(e) == [key |-> M!Name(e), value |-> e.value]
ShownEntries ==
  LET all == M!Entries(self) IN [i \in DOMAIN all |-> Shown(all[i])]

Remove(name) ==
  LET j == FindKey(self, name)
      i == Hash(name, self.capacity)
      e == self.buckets[i][j]
  IN \/ /\ j # 0
        /\ self' = [self EXCEPT !.buckets[i] = Unlinked(@, j),
                                !.size = @ - 1,
                                !.load = @ - M!Increment(self),
                                !.changes = @ + 1,
                                !.strings = @ \ {e.key}]
        /\ ret' = <<"remove", name, TRUE, Shown(e)>>
     \/ j = 0 /\ UNCHANGED self /\ ret' = <<"remove", name, FALSE>>

\* The key of each entry is freed, and its value.
Keys(md) == LET all == M!Entries(md) IN {all[i].key : i \in DOMAIN all}
Purged(md) == [M!Purged(md) EXCEPT !.strings = @ \ Keys(md)]

Clear == /\ self' = [Purged(self) EXCEPT !.size = 0, !.load = 0, !.changes = 0]
         /\ ret' = <<"clear", ShownEntries>>

\* destroy; the client goes on with a new map that m_create made of this.
Destroy == /\ self' = [NewCSKMap(self.capacity) EXCEPT
                         !.strings = Purged(self).strings]
           /\ ret' = <<"destroy", ShownEntries>>

Size == M!Size

\* keyArray and entryArray: NULL when the map is empty or malloc fails.
ToArray ==
  /\ UNCHANGED self
  /\ \/ self.size > 0 /\ ret' = <<"array", ShownEntries>>
     \/ ret' = <<"array">>

\* The iterator has pointers to the entries, here the names of their keys.
ItCreate ==
  /\ UNCHANGED self
  /\ \/ /\ self.size > 0
        /\ ret' = <<"iterator", self.size,
                   [i \in DOMAIN ShownEntries |-> ShownEntries[i].key]>>
     \/ ret' = <<"iterator">>

Next ==
  \/ \E n \in Names, value \in Copies : Put(n, value) \/ PutUnique(n, value)
  \/ \E n \in Names : ContainsKey(n) \/ Get(n) \/ Remove(n)
  \/ Clear \/ Destroy \/ Size \/ ToArray \/ ItCreate

-----------------------------------------------------------------------------
\* As for HashMap; and the copies that are allocated are the entries' keys.
TableOK ==
  /\ M!TableOK
  /\ "strings" \in DOMAIN self /\ self.strings = Keys(self)
LoadIsSizeByCapacity == M!LoadIsSizeByCapacity

Items ==
  LET all == ShownEntries
  IN [n \in {all[i].key : i \in DOMAIN all} |->
        all[CHOOSE i \in DOMAIN all : all[i].key = n]]
KeyStored(n, copy) == n
ValueReplaced(e) == e.value
D == INSTANCE Dictionary WITH items <- Items, Key <- KeyStored,
                              Replaced <- ValueReplaced
StepIsDict == [D!DictNext]_<<Items, ret>>
=============================================================================
