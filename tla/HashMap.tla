------------------------------- MODULE HashMap -------------------------------
(* adts/hashmap.c: a map in a table of buckets, each a linked list (here a *)
(* sequence of entries, the head first). The table doubles when enough has *)
(* changed since the last look and its load is above the load factor. The  *)
(* load, a double, is counted in UNITS-ths: exact where rounding is not.   *)
EXTENDS Integers, Sequences, Linked

CONSTANTS Names, Copies,      \* a key is <<name, copy>>
          DEFAULT_CAPACITY, MAX_CAPACITY, TRIGGER,
          UNITS, LoadFactor,  \* LoadFactor is in UNITS-ths
          Capacities          \* what clients pass to HashMap()

TableAssumption ==
  /\ Names \subseteq Nat /\ Capacities \subseteq Int
  /\ MAX_CAPACITY \in Nat /\ TRIGGER \in Int /\ UNITS \in Nat
  /\ DEFAULT_CAPACITY \in 1..MAX_CAPACITY
  /\ \A n \in 1..MAX_CAPACITY : UNITS % (2 * n) = 0
  /\ LoadFactor \in 1..UNITS

VARIABLES self, ret

NewMap(capacity) ==
  LET cap == IF capacity > 0 THEN capacity ELSE DEFAULT_CAPACITY
      N == IF cap > MAX_CAPACITY THEN MAX_CAPACITY ELSE cap
  IN [size |-> 0, capacity |-> N, changes |-> 0, load |-> 0,
      buckets |-> [i \in 0..N - 1 |-> <<>>]]

Init == /\ \E capacity \in Capacities : self = NewMap(capacity)
        /\ ret = <<"create">>

\* hash and cmp are the client's: names are numbers.
Hash(name, N) == name % N
Name(e) == e.key[1]
Increment(md) == UNITS \div md.capacity

\* All entries, bucket by bucket, as purge, resize, keys and entries do.
Entries(md) == InBuckets(md.buckets, md.capacity)

\* The first node of that name in its bucket, or 0.
FindKey(md, name) ==
  LET chain == md.buckets[Hash(name, md.capacity)]
      found == {j \in DOMAIN chain : Name(chain[j]) = name}
  IN IF found = {} THEN 0 ELSE CHOOSE j \in found : \A k \in found : j <= k

(* Plausible bugs: the load stays as it was; the entries keep their bucket. *)
Resize_KeepsLoad(md) ==
  LET N == IF 2 * md.capacity > MAX_CAPACITY THEN MAX_CAPACITY
           ELSE 2 * md.capacity
      all == Entries(md)
      place == [k \in DOMAIN all |-> Hash(Name(all[k]), N)]
  IN IF N = md.capacity THEN md
     ELSE [md EXCEPT !.buckets = Pushed(all, place, N),
                     !.capacity = N, !.changes = 0]

Resize_SameBucket(md) ==
  LET N == IF 2 * md.capacity > MAX_CAPACITY THEN MAX_CAPACITY
           ELSE 2 * md.capacity
  IN IF N = md.capacity THEN md
     ELSE [md EXCEPT !.buckets = [i \in 0..N - 1 |->
                        IF i < md.capacity THEN md.buckets[i] ELSE <<>>],
                     !.capacity = N, !.load = @ \div 2, !.changes = 0]

\* Twice the buckets, at most MAX_CAPACITY; each entry is pushed in turn on
\* its new bucket.
Resize(md) ==
  LET N == IF 2 * md.capacity > MAX_CAPACITY THEN MAX_CAPACITY
           ELSE 2 * md.capacity
      all == Entries(md)
      place == [k \in DOMAIN all |-> Hash(Name(all[k]), N)]
  IN IF N = md.capacity THEN md
     ELSE [md EXCEPT !.buckets = Pushed(all, place, N),
                     !.capacity = N, !.load = @ \div 2, !.changes = 0]

\* What put and putUnique start with; malloc of the table may fail.
Checked(md) ==
  LET seen == [md EXCEPT !.changes = 0]
  IN IF md.changes <= TRIGGER THEN {md}
     ELSE IF md.load > LoadFactor THEN {seen, Resize(seen)} ELSE {seen}

InsertEntry(md, e) ==
  LET i == Hash(Name(e), md.capacity)
  IN [md EXCEPT !.buckets[i] = <<e>> \o @, !.size = @ + 1,
                !.load = @ + Increment(md), !.changes = @ + 1]

Entry(name, copy) == [key |-> <<name, copy>>, value |-> copy]

\* The key and the value are objects that are not in the map.
Fresh(name, copy) ==
  \A i \in DOMAIN Entries(self) : Entries(self)[i] # Entry(name, copy)

Put(name, copy) ==
  /\ Fresh(name, copy)
  /\ \E md \in Checked(self) :
       LET j == FindKey(md, name)
           i == Hash(name, md.capacity)
       IN \/ /\ j # 0
             /\ self' = [md EXCEPT !.buckets[i][j] = Entry(name, copy)]
             /\ ret' = <<"put", TRUE, md.buckets[i][j]>>
          \/ /\ j = 0
             /\ \/ /\ self' = InsertEntry(md, Entry(name, copy))
                   /\ ret' = <<"put", TRUE>>
                \/ self' = md /\ ret' = <<"put", FALSE>>

PutUnique(name, copy) ==
  /\ Fresh(name, copy)
  /\ \E md \in Checked(self) :
       \/ /\ FindKey(md, name) = 0
          /\ self' = InsertEntry(md, Entry(name, copy))
          /\ ret' = <<"putUnique", TRUE>>
       \/ self' = md /\ ret' = <<"putUnique", FALSE>>

ContainsKey(name) ==
  /\ UNCHANGED self
  /\ ret' = <<"containsKey", name, FindKey(self, name) # 0>>

Get(name) ==
  LET j == FindKey(self, name)
  IN /\ UNCHANGED self
     /\ ret' = IF j # 0
               THEN <<"get", name, TRUE,
                      self.buckets[Hash(name, self.capacity)][j].value>>
               ELSE <<"get", name, FALSE>>

Remove(name) ==
  LET j == FindKey(self, name)
      i == Hash(name, self.capacity)
  IN \/ /\ j # 0
        /\ self' = [self EXCEPT !.buckets[i] = Unlinked(@, j),
                                !.size = @ - 1,
                                !.load = @ - Increment(self),
                                !.changes = @ + 1]
        /\ ret' = <<"remove", name, TRUE, self.buckets[i][j]>>
     \/ j = 0 /\ UNCHANGED self /\ ret' = <<"remove", name, FALSE>>

Purged(md) == [md EXCEPT !.buckets = [i \in DOMAIN @ |-> <<>>]]

Clear == /\ self' = [Purged(self) EXCEPT !.size = 0, !.load = 0, !.changes = 0]
         /\ ret' = <<"clear", Entries(self)>>

\* destroy; the client goes on with a new map that m_create made of this.
Destroy == self' = NewMap(self.capacity) /\ ret' = <<"destroy", Entries(self)>>

Size == UNCHANGED self /\ ret' = <<"size", self.size>>

\* keyArray and entryArray: NULL when the map is empty or malloc fails.
ToArray ==
  /\ UNCHANGED self
  /\ \/ self.size > 0 /\ ret' = <<"array", Entries(self)>>
     \/ ret' = <<"array">>

\* The iterator has pointers to the entries, here the names of their keys.
ItCreate ==
  /\ UNCHANGED self
  /\ \/ /\ self.size > 0
        /\ ret' = <<"iterator", self.size,
                   [i \in DOMAIN Entries(self) |-> Name(Entries(self)[i])]>>
     \/ ret' = <<"iterator">>

Next ==
  \/ \E n \in Names, copy \in Copies : Put(n, copy) \/ PutUnique(n, copy)
  \/ \E n \in Names : ContainsKey(n) \/ Get(n) \/ Remove(n)
  \/ Clear \/ Destroy \/ Size \/ ToArray \/ ItCreate

Spec == Init /\ [][Next]_<<self, ret>>

-----------------------------------------------------------------------------
\* Every entry is in the bucket of its key, one per name, and size counts
\* them.
TableOK ==
  /\ {"size", "capacity", "changes", "load", "buckets"} \subseteq DOMAIN self
  /\ self.capacity \in 1..MAX_CAPACITY /\ self.changes \in Int /\ self.load \in Int
  /\ self.buckets \in [0..self.capacity - 1 ->
                         Seq([key : Names \X Copies, value : Copies])]
  /\ \A i \in 0..self.capacity - 1 :
       LET chain == self.buckets[i]
       IN \A j, k \in 1..Len(chain) :
            /\ Hash(Name(chain[j]), self.capacity) = i
            /\ Name(chain[j]) = Name(chain[k]) => j = k
  /\ self.size = Len(Entries(self))

(* The load is size / capacity, through every insertion, removal and       *)
(* resize, as long as the table can grow: what decides when it does.       *)
LoadIsSizeByCapacity ==
  self.capacity < MAX_CAPACITY =>
    self.load * self.capacity = self.size * UNITS

Items ==
  LET all == Entries(self)
  IN [n \in {Name(all[i]) : i \in DOMAIN all} |->
        all[CHOOSE i \in DOMAIN all : Name(all[i]) = n]]
\* The map keeps the client's objects; put frees the old key and value.
KeyStored(n, copy) == <<n, copy>>
EntryReplaced(e) == e
D == INSTANCE Dictionary WITH items <- Items, Key <- KeyStored,
                              Replaced <- EntryReplaced
StepIsDict == [D!DictNext]_<<Items, ret>>
=============================================================================
