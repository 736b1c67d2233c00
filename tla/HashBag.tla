------------------------------- MODULE HashBag -------------------------------
(* P0's hashbag.c: a bag in a table of buckets, each a linked list (here a *)
(* sequence, the head first), which doubles when its load is above the     *)
(* load factor. The load, a double, is counted in UNITS-ths.               *)
EXTENDS Integers, Sequences, FiniteSets, Linked

CONSTANTS Members,            \* objects <<name, copy>>, names in Nat
          DEFAULT_CAPACITY, MAX_CAPACITY,
          UNITS, LoadFactor,  \* LoadFactor is in UNITS-ths
          Capacities          \* what clients pass to HashBag()

VARIABLES self, ret

NewBag(capacity) ==
  LET cap == IF capacity > 0 THEN capacity ELSE DEFAULT_CAPACITY
      N == IF cap > MAX_CAPACITY THEN MAX_CAPACITY ELSE cap
  IN [size |-> 0, capacity |-> N, load |-> 0,
      buckets |-> [i \in 0..N - 1 |-> <<>>]]

Init == /\ \E capacity \in Capacities : self = NewBag(capacity)
        /\ ret = <<"create">>

\* hash and cmpF are the client's: names are numbers.
Hash(name, N) == name % N
Name(x) == x[1]
Increment(bd) == UNITS \div bd.capacity

\* All members, bucket by bucket, as purge, resize and elemts do.
Elemts(bd) == InBuckets(bd.buckets, bd.capacity)

\* The first node of that name in its bucket, or 0.
FindElemt(name) ==
  LET chain == self.buckets[Hash(name, self.capacity)]
      found == {j \in DOMAIN chain : Name(chain[j]) = name}
  IN IF found = {} THEN 0 ELSE CHOOSE j \in found : \A k \in found : j <= k

\* Twice the buckets, at most MAX_CAPACITY; each member is pushed in turn on
\* its new bucket.
Resize(bd) ==
  LET N == IF 2 * bd.capacity > MAX_CAPACITY THEN MAX_CAPACITY
           ELSE 2 * bd.capacity
      all == Elemts(bd)
      place == [k \in DOMAIN all |-> Hash(Name(all[k]), N)]
  IN IF N = bd.capacity THEN bd
     ELSE [bd EXCEPT !.buckets = Pushed(all, place, N),
                     !.capacity = N, !.load = @ \div 2]

InsertEntry(bd, x) ==
  LET i == Hash(Name(x), bd.capacity)
  IN [bd EXCEPT !.buckets[i] = <<x>> \o @, !.size = @ + 1,
                !.load = @ + Increment(bd)]

\* The malloc of the larger table, and that of the node, may fail.
Add(x) ==
  \E bd \in IF self.load > LoadFactor THEN {self, Resize(self)} ELSE {self} :
    \/ self' = InsertEntry(bd, x) /\ ret' = <<"add", TRUE>>
    \/ self' = bd /\ ret' = <<"add", FALSE>>

Contains(name) ==
  UNCHANGED self /\ ret' = <<"contains", name, FindElemt(name) # 0>>

(* A plausible bug: only the first match in the bucket counts. *)
Count_First(name) ==
  UNCHANGED self /\ ret' = <<"count", name, IF FindElemt(name) = 0 THEN 0 ELSE 1>>

\* From the first member of that name on to the end of the bucket.
Count(name) ==
  LET chain == self.buckets[Hash(name, self.capacity)]
      from == FindElemt(name)
  IN /\ UNCHANGED self
     /\ ret' = <<"count", name,
                 IF from = 0 THEN 0
                 ELSE Cardinality({j \in from..Len(chain) : Name(chain[j]) = name})>>

Remove(name) ==
  LET j == FindElemt(name)
      i == Hash(name, self.capacity)
  IN \/ /\ j # 0
        /\ self' = [self EXCEPT !.buckets[i] = Unlinked(@, j),
                                !.size = @ - 1,
                                !.load = @ - Increment(self)]
        /\ ret' = <<"remove", name, TRUE, self.buckets[i][j]>>
     \/ j = 0 /\ UNCHANGED self /\ ret' = <<"remove", name, FALSE>>

Clear == /\ self' = [self EXCEPT !.buckets = [i \in DOMAIN @ |-> <<>>],
                                 !.size = 0, !.load = 0]
         /\ ret' = <<"clear", Elemts(self)>>

\* destroy; the client goes on with a new bag that b_create made of this.
Destroy == self' = NewBag(self.capacity) /\ ret' = <<"destroy", Elemts(self)>>

Size == UNCHANGED self /\ ret' = <<"size", self.size>>

ToArray ==
  /\ UNCHANGED self
  /\ \/ self.size > 0 /\ ret' = <<"array", Elemts(self)>>
     \/ ret' = <<"array">>

\* A client adds an object that is not in the bag.
InBag(x) == \E i \in DOMAIN Elemts(self) : Elemts(self)[i] = x

ItCreate ==
  /\ UNCHANGED self
  /\ \/ self.size > 0 /\ ret' = <<"iterator", self.size, Elemts(self)>>
     \/ ret' = <<"iterator">>

Next ==
  \/ \E x \in Members : ~InBag(x) /\ Add(x)
  \/ \E n \in {Name(x) : x \in Members} : Contains(n) \/ Count(n) \/ Remove(n)
  \/ Clear \/ Destroy \/ Size \/ ToArray \/ ItCreate

Spec == Init /\ [][Next]_<<self, ret>>

-----------------------------------------------------------------------------
\* Every member is in the bucket of its hash, once, and size counts them.
TableOK ==
  /\ {"size", "capacity", "load", "buckets"} \subseteq DOMAIN self
  /\ self.capacity \in 1..MAX_CAPACITY /\ self.load \in Int
  /\ self.buckets \in [0..self.capacity - 1 -> Seq(Members)]
  /\ \A i \in 0..self.capacity - 1 :
       LET chain == self.buckets[i]
       IN \A j, k \in 1..Len(chain) : /\ Hash(Name(chain[j]), self.capacity) = i
                                      /\ chain[j] = chain[k] => j = k
  /\ self.size = Len(Elemts(self))

LoadIsSizeByCapacity ==
  self.capacity < MAX_CAPACITY =>
    self.load * self.capacity = self.size * UNITS

Items == {Elemts(self)[i] : i \in DOMAIN Elemts(self)}
M == INSTANCE Multiset WITH items <- Items
StepIsBag == [M!BagNext]_<<Items, ret>>
=============================================================================
