-------------------------- MODULE ContainersProofs --------------------------
(***************************************************************************)
(* What is proved of the ADT library, and of P0's bag, as their client in  *)
(* Containers sees them: queues, stacks, deques and lists are well formed  *)
(* after every call, and all of them implement one line of elements; the   *)
(* merge sort sorts, and keeps the order of what is equal; the priority    *)
(* queues, on a list and in a heap, are well formed and implement the      *)
(* queue of prioqueue.h; the maps, in a table and on a ring of nodes, with *)
(* the client's keys and with their own, are well formed and implement one *)
(* dictionary, and the bag a multiset; a string fits its buffer; so that   *)
(* all of StructuresSound holds; and the iterators of all of them give     *)
(* what is in them. The calls of the maps on a ring, of strings and of     *)
(* iterators are here, those of the others in LinesProofs and KeyedProofs. *)
(***************************************************************************)
EXTENDS Containers, LinesProofs, KeyedProofs

LineKinds == {"ArrayQueue", "LListQueue", "ArrayStack", "LListStack", "ArrayDeque",
              "LListDeque", "ArrayList"}

\* No other object is a line.
LEMMA OtherKinds ==
  /\ Create /\ kind \in LineKinds => CreateLine
  /\ Call /\ kind \in LineKinds => CallLine
  /\ kind \notin LineKinds => LinesSound /\ StepIsLine
BY DEF Create, Call, CreatePrioQueue, CallPrioQueue, CreateMap, CallMap, LineKinds,
       LinesSound, StepIsLine

\* Every step leaves the private data of a line well formed, and is one of
\* the line.
LEMMA LinesStep ==
  ASSUME LinesSound, [Next]_vars
  PROVE  LinesSound' /\ StepIsLine
<1>1. CASE CallMethod /\ UNCHANGED kind /\ kind \in LineKinds
  <2>1. CallLine
    BY <1>1, OtherKinds DEF CallMethod
  <2> QED
    BY <1>1, <2>1, LinesCalled
<1>2. CASE UNCHANGED kind /\ kind \notin LineKinds
  <2>1. LinesSound'
    BY <1>2 DEF LinesSound, LineKinds
  <2> QED
    BY <1>2, <2>1, OtherKinds
<1>3. CASE Iterate /\ UNCHANGED kind
  BY <1>3, LinesLeft DEF Iterate
<1>4. CASE UNCHANGED vars
  BY <1>4, LinesLeft DEF vars
<1> QED
  BY <1>1, <1>2, <1>3, <1>4 DEF Next

\* The private data of queues, stacks, deques and lists are well formed after
\* every call, that of trimming an empty list included, which leaves a list that
\* has no array (arraylist.c:207): their part of StructuresSound.
THEOREM LinesAreSound == Spec => []LinesSound
<1>1. Init => LinesSound
  BY LinesNew, OtherKinds DEF Init
<1>2. LinesSound /\ [Next]_vars => LinesSound'
  BY LinesStep
<1> QED
  BY <1>1, <1>2, PTL DEF Spec

\* Queues, stacks, deques and lists implement one sequence: every call returns,
\* keeps and frees what the calls before it say (queue.h, stack.h, deque.h,
\* arraylist.h), for any capacity, any number of nodes and any values, however
\* often an array wrapped, grew or was trimmed. Of the lengths that an ArrayDeque
\* reports with its arrays nothing is shown (LengthsTold).
THEOREM LinesKeepTheirOrder == Spec => SequencesAreLines
<1>1. LinesSound /\ [Next]_vars => [StepIsLine]_vars
  BY LinesStep
<1>2. Spec => [][StepIsLine]_vars
  BY <1>1, LinesAreSound, PTL DEF Spec
<1> QED
  BY <1>2 DEF SequencesAreLines

-----------------------------------------------------------------------------
\* The array of sort's client: equal elements are in the order of their origin.
ArrayStood == kind = "sort" => self \in Seq(KeyAndOrigin) /\ Stood(self)

\* A new array's elements are numbered from the left.
LEMMA ArrayNew ==
  ASSUME kind = "sort", NewArray
  PROVE  ArrayStood
<1>1. PICK n \in 0 .. MAXLEN : \E keys \in [1 .. n -> Priorities] :
        self = [i \in 1 .. n |-> <<keys[i], i>>]
  BY DEF NewArray
<1>2. PICK keys \in [1 .. n -> Priorities] : self = [i \in 1 .. n |-> <<keys[i], i>>]
  BY <1>1
<1>3. \A i \in 1 .. n : <<keys[i], i>> \in KeyAndOrigin
  <2>1. Priorities \subseteq Int
    BY KeyedAssumption DEF HQ!HeapAssumption
  <2>2. \A i \in 1 .. n : keys[i] \in Priorities
    BY <1>2
  <2>3. \A i \in 1 .. n : i \in Int
    OBVIOUS
  <2> QED
    BY <2>1, <2>2, <2>3 DEF KeyAndOrigin
<1>4. n \in Nat
  OBVIOUS
<1>5. self \in [1 .. n -> KeyAndOrigin]
  BY <1>2, <1>3
<1>6. self \in Seq(KeyAndOrigin) /\ Len(self) = n
  BY <1>4, <1>5
<1>7. \A i \in 1 .. n : self[i][2] = i
  BY <1>2
<1>8. Stood(self)
  BY <1>6, <1>7 DEF Stood
<1> QED
  BY <1>6, <1>8 DEF ArrayStood

\* What sort leaves is in order.
LEMMA ArraySorted ==
  ASSUME kind = "sort", ArrayStood, Sort
  PROVE  /\ self' \in Seq(KeyAndOrigin) /\ Stood(self')
         /\ StepSorts
<1> DEFINE u == MSort(self, Len(self))
<1>1. self \in Seq(KeyAndOrigin) /\ Stood(self) /\ Len(self) \in Nat
  BY DEF ArrayStood
<1>2. self' = u
  BY DEF Sort
<1>3. IsSorted(self, 0, Len(self) - 1, u)
  BY <1>1, SortInOrder
<1> HIDE DEF u
<1>4. /\ u \in Seq(KeyAndOrigin) /\ Len(u) = Len(self) - 1 - 0 + 1 /\ InOrder(u)
      /\ {u[k] : k \in 1 .. Len(u)} = {self[k] : k \in 0 + 1 .. Len(self) - 1 + 1}
  BY <1>3 DEF IsSorted
<1>5. Len(u) = Len(self) /\ Len(self) - 1 + 1 = Len(self) /\ 0 + 1 = 1
  BY <1>1, <1>4
<1>6. DOMAIN self = 1 .. Len(self) /\ DOMAIN u = 1 .. Len(self)
  BY <1>1, <1>4, <1>5
<1>7. {u[k] : k \in DOMAIN u} = {self[k] : k \in DOMAIN self}
  BY <1>4, <1>5, <1>6
<1>8. \A i, j \in 1 .. Len(u) : i < j => Precedes(u[i], u[j])
  BY <1>4 DEF InOrder
<1>9. ASSUME NEW i \in 1 .. Len(u), NEW j \in 1 .. Len(u), i < j
      PROVE  /\ u[i][1] - u[j][1] < 0 \/ (u[i][1] - u[j][1] = 0 /\ u[i][2] < u[j][2])
             /\ cmp(u[i], u[j]) = 0 => u[i][2] < u[j][2]
  <2>1. u[i][1] \in Int /\ u[j][1] \in Int
    BY <1>4 DEF KeyAndOrigin
  <2>2. u[i][1] - u[j][1] < 0 \/ (u[i][1] - u[j][1] = 0 /\ u[i][2] < u[j][2])
    BY <1>8, <1>9 DEF Precedes, cmp
  <2> QED
    BY <2>1, <2>2 DEF cmp
<1>10. Stood(u)
  BY <1>9 DEF Stood
<1>11. \A i, j \in DOMAIN u : i < j =>
         u[i][1] - u[j][1] < 0 \/ (u[i][1] - u[j][1] = 0 /\ u[i][2] < u[j][2])
  BY <1>5, <1>6, <1>9
<1> QED
  BY <1>2, <1>4, <1>5, <1>7, <1>10, <1>11 DEF StepSorts, cmp

\* Only sort changes an array.
LEMMA ArrayStep ==
  ASSUME ArrayStood, [Next]_vars
  PROVE  ArrayStood' /\ (kind = "sort" => StepSorts)
<1>1. UNCHANGED kind
  BY DEF Next, vars
<1>2. CASE kind # "sort"
  BY <1>1, <1>2 DEF ArrayStood
<1>3. CASE kind = "sort"
  <2>1. CASE Sort
    <3>1. self' \in Seq(KeyAndOrigin) /\ Stood(self') /\ StepSorts
      BY <1>3, <2>1, ArraySorted
    <3> QED
      BY <3>1 DEF ArrayStood
  <2>2. CASE UNCHANGED <<self, ret>>
    <3>1. Stood(self) => Stood(self')
      BY <2>2
    <3> QED
      BY <1>3, <2>2, <3>1 DEF ArrayStood, StepSorts
  <2>3. Call => Sort
    BY <1>3 DEF Call, CallLine, CallPrioQueue, CallMap
  <2> QED
    BY <2>1, <2>2, <2>3 DEF Next, CallMethod, Iterate, vars
<1> QED
  BY <1>2, <1>3

\* sort puts an array of any length, with any keys, in order and keeps the order
\* of equal elements (sort.c:23).
THEOREM SortStays == Spec => SortIsStable
<1>1. Init => ArrayStood
  <2>1. Create /\ kind = "sort" => NewArray
    BY DEF Create, CreateLine, CreatePrioQueue, CreateMap
  <2> QED
    BY <2>1, ArrayNew DEF Init, ArrayStood
<1>2. ArrayStood /\ [Next]_vars => ArrayStood'
  BY ArrayStep
<1>3. ArrayStood /\ [Next]_vars => [kind = "sort" => StepSorts]_vars
  BY ArrayStep
<1>4. Spec => [][kind = "sort" => StepSorts]_vars
  BY <1>1, <1>2, <1>3, PTL DEF Spec
<1> QED
  BY <1>4 DEF SortIsStable

-----------------------------------------------------------------------------
PrioKinds == {"HeapPrioQueue", "LListPrioQueue"}

\* No other object is a priority queue.
LEMMA OtherPrioKinds ==
  /\ Create /\ kind \in PrioKinds => CreatePrioQueue
  /\ Call /\ kind \in PrioKinds => CallPrioQueue
  /\ kind \notin PrioKinds => PrioQueuesSound /\ StepIsStable
BY DEF Create, Call, CreateLine, CallLine, CreateMap, CallMap, PrioKinds,
       PrioQueuesSound, StepIsStable

\* Every step leaves the private data of a priority queue well formed, and is
\* one of the queue of prioqueue.h.
LEMMA PrioQueuesStep ==
  ASSUME PrioQueuesSound, [Next]_vars
  PROVE  PrioQueuesSound' /\ StepIsStable
<1>1. CASE CallMethod /\ UNCHANGED kind /\ kind \in PrioKinds
  <2>1. CallPrioQueue
    BY <1>1, OtherPrioKinds DEF CallMethod
  <2> QED
    BY <1>1, <2>1, PrioQueuesCalled
<1>2. CASE UNCHANGED kind /\ kind \notin PrioKinds
  <2>1. PrioQueuesSound'
    BY <1>2 DEF PrioQueuesSound, PrioKinds
  <2> QED
    BY <1>2, <2>1, OtherPrioKinds
<1>3. CASE Iterate /\ UNCHANGED kind
  BY <1>3, PrioQueuesLeft DEF Iterate
<1>4. CASE UNCHANGED vars
  BY <1>4, PrioQueuesLeft DEF vars
<1> QED
  BY <1>1, <1>2, <1>3, <1>4 DEF Next

\* The array of a priority queue is a heap after every call, and last, size and
\* the sequence numbers agree with it; the list of one has every allocated node
\* once, in the order of the priorities, and agrees with head, tail and size:
\* their part of StructuresSound (heapprioqueue.c:98, llistprioqueue.c:75).
THEOREM PrioQueuesAreSound == Spec => []PrioQueuesSound
<1>1. Init => PrioQueuesSound
  BY PrioQueuesNew, OtherPrioKinds DEF Init
<1>2. PrioQueuesSound /\ [Next]_vars => PrioQueuesSound'
  BY PrioQueuesStep
<1> QED
  BY <1>1, <1>2, PTL DEF Spec

\* Both priority queues give the least priority first, and keep the order of
\* arrival within one priority, for any priorities, values and number of nodes,
\* and as many insertions as there are ints (prioqueue.h, heapprioqueue.c:52).
THEOREM PrioritiesStay == Spec => PrioritiesAreStable
<1>1. PrioQueuesSound /\ [Next]_vars => [StepIsStable]_vars
  BY PrioQueuesStep
<1>2. Spec => [][StepIsStable]_vars
  BY <1>1, PrioQueuesAreSound, PTL DEF Spec
<1> QED
  BY <1>2 DEF PrioritiesAreStable

-----------------------------------------------------------------------------
(* Maps in a ring of nodes, with the names Ns: both linked maps.           *)

RingFields == {"size", "heap", "next", "prev", "entry"}
RingLinks == Nodes \cup {NULL}

Forward(md) == Chain(md.next[NULL], md.next, md.heap, NULL)
Backward(md) == Chain(md.prev[NULL], md.prev, md.heap, NULL)
\* The entries, in the order of the ring.
RingEntries(md) == Along(Forward(md), md.entry)

\* s is the nodes of the ring forwards, t backwards.
RingOf(md, s, t, Ns) ==
  /\ RingFields \subseteq DOMAIN md
  /\ Doubly(s, t, md.next, md.prev, md.heap, NULL)
  /\ md.size = Len(s)
  /\ md.heap \subseteq Nodes
  /\ md.next \in [RingLinks -> RingLinks \cup {garbage}]
  /\ md.prev \in [RingLinks -> RingLinks \cup {garbage}]
  /\ DOMAIN md.entry = Nodes
  /\ \A p \in Nodes \ md.heap : md.entry[p] = garbage
  /\ Mapping(Along(s, md.entry), Ns)

Ring(md, Ns) == RingOf(md, Forward(md), Backward(md), Ns)

\* What follows the links of a ring, both ways, are its two chains.
LEMMA RingIs ==
  ASSUME NEW Ns, NEW md, NEW s, NEW t, RingOf(md, s, t, Ns)
  PROVE  Ring(md, Ns) /\ Forward(md) = s /\ Backward(md) = t
<1>1. /\ IsChain(s, md.next[NULL], md.next, md.heap, NULL)
      /\ IsChain(t, md.prev[NULL], md.prev, md.heap, NULL)
  BY DEF RingOf, Doubly
<1>2. Forward(md) = s /\ Backward(md) = t
  BY <1>1, ChainIs DEF Forward, Backward
<1> QED
  BY <1>2 DEF Ring

\* What a sound ring is, in the form the lemmas on lists ask for.
LEMMA RingFacts ==
  ASSUME NEW Ns \in SUBSET Nat, NEW md, Ring(md, Ns)
  PROVE  LET s == Forward(md)
             t == Backward(md) IN
         /\ RingOf(md, s, t, Ns) /\ RingFields \subseteq DOMAIN md
         /\ Doubly(s, t, md.next, md.prev, md.heap, NULL)
         /\ IsChain(s, md.next[NULL], md.next, md.heap, NULL)
         /\ s \in Seq(md.heap) /\ Distinct(s) /\ md.heap = Elems(s) /\ Len(s) \in Nat
         /\ DOMAIN s = 1 .. Len(s)
         /\ md.size = Len(s) /\ Len(RingEntries(md)) = Len(s) /\ md.size \in Nat
         /\ md.heap \subseteq Nodes /\ NULL \notin Nodes
         /\ RingEntries(md) = Along(s, md.entry)
         /\ Mapping(RingEntries(md), Ns) /\ RingEntries(md) \in Seq(MapEntry(Ns))
         /\ \A i \in 1 .. Len(s) : /\ s[i] \in md.heap /\ s[i] # NULL
                                   /\ RingEntries(md)[i] = md.entry[s[i]]
<1> DEFINE s == Forward(md)
           t == Backward(md)
<1>1. RingOf(md, s, t, Ns)
  BY DEF Ring
<1>2. RingEntries(md) = Along(s, md.entry)
  BY DEF RingEntries
<1> HIDE DEF s, t
<1>3. /\ RingFields \subseteq DOMAIN md
      /\ Doubly(s, t, md.next, md.prev, md.heap, NULL)
      /\ IsChain(s, md.next[NULL], md.next, md.heap, NULL)
      /\ md.size = Len(s) /\ md.heap \subseteq Nodes /\ Mapping(RingEntries(md), Ns)
  BY <1>1, <1>2 DEF RingOf, Doubly
<1>4. /\ s \in Seq(md.heap) /\ Len(s) \in Nat
      /\ \A i \in 1 .. Len(s) : s[i] \in md.heap
      /\ \A i, j \in 1 .. Len(s) : s[i] = s[j] => i = j
  BY <1>3, ChainElems
<1>5. Distinct(s) /\ md.heap = Elems(s) /\ DOMAIN s = 1 .. Len(s)
  BY <1>3, <1>4 DEF Distinct, Elems, IsChain
<1>6. NULL \notin Nodes
  BY KeyedAssumption DEF PQ!NodesAssumption
<1>7. RingEntries(md) \in Seq(MapEntry(Ns))
  BY <1>3 DEF Mapping
<1>8. Len(RingEntries(md)) = Len(s) /\ \A i \in 1 .. Len(s) : RingEntries(md)[i] = md.entry[s[i]]
  <2>1. Along(s, md.entry) \in Seq(MapEntry(Ns))
    BY <1>2, <1>7
  <2> QED
    BY <1>2, <1>4, <2>1, AlongElems
<1> QED
  BY <1>1, <1>2, <1>3, <1>4, <1>5, <1>6, <1>7, <1>8 DEF s, t

\* What two entries of links set at once leave.
SetTwice(g, h, a, x, b, y) == g = [h EXCEPT ![a] = x, ![b] = y]

IsTwice(g, h, a, x, b, y, S, T) ==
  /\ g \in [S -> T] /\ g[a] = x /\ g[b] = y
  /\ \A q \in S : q # a /\ q # b => g[q] = h[q]

\* A function that is set at two places.
LEMMA TwoSet ==
  ASSUME NEW S, NEW T, NEW h \in [S -> T],
         NEW a \in S, NEW x \in T, NEW b \in S, NEW y \in T, a # b,
         NEW g, SetTwice(g, h, a, x, b, y)
  PROVE  IsTwice(g, h, a, x, b, y, S, T)
BY DEF SetTwice, IsTwice

\* new is md with the node p, which has e, at its end.
RingPuts(new, md, p, e) ==
  /\ RingFields \subseteq DOMAIN new
  /\ new.size = md.size + 1 /\ new.heap = md.heap \cup {p}
  /\ new.next = [md.next EXCEPT ![p] = NULL, ![md.prev[NULL]] = p]
  /\ new.prev = [md.prev EXCEPT ![p] = md.prev[NULL], ![NULL] = p]
  /\ new.entry = [md.entry EXCEPT ![p] = e]

\* A node put at the end of the ring is in it besides the others.
LEMMA RingPut ==
  ASSUME NEW Ns \in SUBSET Nat, NEW md, Ring(md, Ns), NEW p \in Nodes, p \notin md.heap,
         NEW e \in MapEntry(Ns), NEW m, Named(e, m), NoneNamed(Elems(RingEntries(md)), m),
         NEW new, RingPuts(new, md, p, e)
  PROVE  Ring(new, Ns) /\ Elems(RingEntries(new)) = Elems(RingEntries(md)) \cup {e}
<1> DEFINE s == Forward(md)
           t == Backward(md)
           f == md.prev[NULL]
           a == Append(s, p)
           b == <<p>> \o t
           E == MapEntry(Ns)
           T == RingLinks \cup {garbage}
<1>1. /\ RingOf(md, s, t, Ns)
      /\ Doubly(s, t, md.next, md.prev, md.heap, NULL)
      /\ s \in Seq(md.heap) /\ Len(s) \in Nat
      /\ \A i \in 1 .. Len(s) : s[i] \in md.heap
      /\ md.size = Len(s) /\ md.heap \subseteq Nodes /\ NULL \notin Nodes
      /\ RingEntries(md) = Along(s, md.entry) /\ RingEntries(md) \in Seq(E) /\ Mapping(RingEntries(md), Ns)
  BY RingFacts
<1>2. /\ md.next \in [RingLinks -> T] /\ md.prev \in [RingLinks -> T]
      /\ DOMAIN md.entry = Nodes
      /\ \A q \in Nodes \ md.heap : md.entry[q] = garbage
  BY <1>1 DEF RingOf
<1>3. /\ RingFields \subseteq DOMAIN new
      /\ new.size = md.size + 1 /\ new.heap = md.heap \cup {p}
      /\ new.next = [md.next EXCEPT ![p] = NULL, ![f] = p]
      /\ new.prev = [md.prev EXCEPT ![p] = f, ![NULL] = p]
      /\ new.entry = [md.entry EXCEPT ![p] = e]
  BY DEF RingPuts
<1> HIDE DEF s, t, f, E
<1>4. Doubly(t, s, md.prev, md.next, md.heap, NULL)
  BY <1>1, DoublySame
<1>5. f \in md.heap \cup {NULL}
  BY <1>4, DoublyHead DEF f
<1>6. /\ f \in RingLinks /\ f # p /\ NULL \in RingLinks /\ p \in RingLinks /\ p # NULL
      /\ md.heap \subseteq RingLinks
      /\ f \in T /\ NULL \in T /\ p \in T
  BY <1>1, <1>5 DEF RingLinks
<1> HIDE DEF T
<1>7. /\ new.prev \in [RingLinks -> T] /\ new.prev[p] = f /\ new.prev[NULL] = p
      /\ \A q \in RingLinks : q # p /\ q # NULL => new.prev[q] = md.prev[q]
  <2> DEFINE g == new.prev
             h == md.prev
  <2>1. /\ h \in [RingLinks -> T] /\ p \in RingLinks /\ NULL \in RingLinks /\ p # NULL
        /\ f \in T /\ NULL \in T /\ p \in T
        /\ SetTwice(g, h, p, f, NULL, p)
    BY <1>2, <1>3, <1>6 DEF SetTwice, T
  <2> HIDE DEF g, h
  <2>2. IsTwice(g, h, p, f, NULL, p, RingLinks, T)
    BY ONLY <2>1, TwoSet
  <2> QED
    BY <2>2 DEF g, h, IsTwice
<1>8. /\ new.next \in [RingLinks -> T] /\ new.next[p] = NULL /\ new.next[f] = p
      /\ \A q \in RingLinks : q # p /\ q # f => new.next[q] = md.next[q]
  <2> DEFINE g == new.next
             h == md.next
  <2>1. /\ h \in [RingLinks -> T] /\ p \in RingLinks /\ f \in RingLinks /\ p # f
        /\ f \in T /\ NULL \in T /\ p \in T
        /\ SetTwice(g, h, p, NULL, f, p)
    BY <1>2, <1>3, <1>6 DEF SetTwice, T
  <2> HIDE DEF g, h
  <2>2. IsTwice(g, h, p, NULL, f, p, RingLinks, T)
    BY ONLY <2>1, TwoSet
  <2> QED
    BY <2>2 DEF g, h, IsTwice
<1>9. Doubly(b, a, new.prev, new.next, md.heap \cup {p}, NULL)
  <2> DEFINE fore == md.prev
             back == md.next
             nodes == md.heap
             nf == new.prev
             nb == new.next
  <2>1. /\ Doubly(t, s, fore, back, nodes, NULL)
        /\ p \notin nodes /\ p # NULL
        /\ nf[p] = fore[NULL] /\ nf[NULL] = p
        /\ nb[p] = NULL /\ nb[fore[NULL]] = p
    BY <1>4, <1>6, <1>7, <1>8 DEF f
  <2>2. ASSUME NEW q \in nodes PROVE nf[q] = fore[q]
    BY <1>1, <1>6, <1>7
  <2>3. ASSUME NEW q \in nodes \cup {NULL}, q # fore[NULL] PROVE nb[q] = back[q]
    BY <1>1, <1>6, <1>8, <2>3 DEF f
  <2> HIDE DEF fore, back, nodes, nf, nb
  <2>4. Doubly(<<p>> \o t, Append(s, p), nf, nb, nodes \cup {p}, NULL)
    BY <2>1, <2>2, <2>3, DoublyPut
  <2> QED
    BY <2>4 DEF nodes, nf, nb
<1>10. Doubly(a, b, new.next, new.prev, new.heap, NULL)
  BY <1>3, <1>9, DoublySame
<1>11. /\ DOMAIN new.entry = Nodes /\ new.entry[p] = e
       /\ \A q \in Nodes : q # p => new.entry[q] = md.entry[q]
  BY <1>2, <1>3
<1>12. Along(a, new.entry) = Append(RingEntries(md), e)
  <2> DEFINE g == new.entry
             h == md.entry
             H == md.heap
  <2>1. /\ s \in Seq(H) /\ Along(s, h) \in Seq(E) /\ g[p] \in E
        /\ \A i \in 1 .. Len(s) : g[s[i]] = h[s[i]]
    BY <1>1, <1>11 DEF E
  <2> HIDE DEF g, h, H
  <2>2. Along(Append(s, p), g) = Append(Along(s, h), g[p])
    BY ONLY <2>1, AlongAppend
  <2> QED
    BY <1>1, <1>11, <2>2 DEF g, h
<1>13. Len(a) = Len(s) + 1
  BY <1>1
<1>14. e \notin Elems(RingEntries(md))
  BY DEF Named, NoneNamed
<1>15. /\ Append(RingEntries(md), e) \in Seq(E) /\ Distinct(Append(RingEntries(md), e))
       /\ Elems(Append(RingEntries(md), e)) = Elems(RingEntries(md)) \cup {e}
  <2>1. RingEntries(md) \in Seq(E) /\ Distinct(RingEntries(md)) /\ e \in E
    BY <1>1 DEF Mapping, E
  <2> QED
    BY ONLY <1>14, <2>1, AppendDistinct
<1>16. Unique(Elems(RingEntries(md)) \cup {e}, NameIn(Ns))
  <2>1. Unique(Elems(RingEntries(md)), NameIn(Ns))
    BY <1>1 DEF Mapping
  <2>2. /\ \A x \in Elems(RingEntries(md)) : NameIn(Ns)[x] = x.key[1]
        /\ NameIn(Ns)[e] = e.key[1]
    <3>1. Elems(RingEntries(md)) \subseteq MapEntry(Ns)
      BY <1>1, MapAt
    <3> QED
      BY <3>1, NameInIs
  <2> QED
    BY <2>1, <2>2 DEF Unique, Named, NoneNamed
<1>17. Mapping(Along(a, new.entry), Ns)
  BY <1>12, <1>15, <1>16 DEF Mapping, E
<1> HIDE DEF a, b
<1>18. RingOf(new, a, b, Ns)
  <2>1. new.size = Len(a) /\ new.heap \subseteq Nodes
        /\ \A q \in Nodes \ new.heap : new.entry[q] = garbage
    BY <1>1, <1>2, <1>3, <1>11, <1>13
  <2>2. /\ new.next \in [RingLinks -> RingLinks \cup {garbage}]
        /\ new.prev \in [RingLinks -> RingLinks \cup {garbage}]
    BY <1>7, <1>8 DEF T
  <2> QED
    BY <1>3, <1>10, <1>11, <1>17, <2>1, <2>2 DEF RingOf
<1>19. Ring(new, Ns) /\ RingEntries(new) = Append(RingEntries(md), e)
  <2>1. Ring(new, Ns) /\ Forward(new) = a
    BY <1>18, RingIs
  <2> QED
    BY <1>12, <2>1 DEF RingEntries
<1> QED
  BY <1>15, <1>19

\* ListOK of the linked maps, of any ring.
IsRing(md, Ns) ==
  LET s == Forward(md)
      t == Backward(md) IN
  /\ RingFields \subseteq DOMAIN md
  /\ IsChain(s, md.next[NULL], md.next, md.heap, NULL)
  /\ IsChain(t, md.prev[NULL], md.prev, md.heap, NULL)
  /\ md.size = Len(s) /\ Len(t) = Len(s)
  /\ \A i \in 1 .. Len(s) : t[i] = s[Len(s) + 1 - i]
  /\ \A i, j \in 1 .. Len(s) :
       md.entry[s[i]].key[1] = md.entry[s[j]].key[1] => i = j
  /\ md.heap \subseteq Nodes
  /\ md.next \in [RingLinks -> RingLinks \cup {garbage}]
  /\ md.prev \in [RingLinks -> RingLinks \cup {garbage}]
  /\ DOMAIN md.entry = Nodes
  /\ \A p \in md.heap : md.entry[p] \in MapEntry(Ns)
  /\ \A p \in Nodes \ md.heap : md.entry[p] = garbage

\* A sound ring, as the model and as the lemmas say it.
LEMMA RingSame ==
  ASSUME NEW Ns \in SUBSET Nat, NEW md
  PROVE  IsRing(md, Ns) <=> Ring(md, Ns)
<1> DEFINE s == Forward(md)
           t == Backward(md)
           all == RingEntries(md)
           E == MapEntry(Ns)
           h == NameIn(Ns)
<1>1. \A e \in E : h[e] = e.key[1]
  BY NameInIs
<1>2. RingEntries(md) = Along(s, md.entry)
  BY DEF RingEntries
<1>3. ASSUME IsRing(md, Ns) PROVE Ring(md, Ns)
  <2>1. /\ IsChain(s, md.next[NULL], md.next, md.heap, NULL)
        /\ IsChain(t, md.prev[NULL], md.prev, md.heap, NULL)
        /\ Len(t) = Len(s) /\ \A i \in 1 .. Len(s) : t[i] = s[Len(s) + 1 - i]
        /\ \A i, j \in 1 .. Len(s) :
             md.entry[s[i]].key[1] = md.entry[s[j]].key[1] => i = j
        /\ \A p \in md.heap : md.entry[p] \in E
    BY <1>3 DEF IsRing
  <2> HIDE DEF s, t, E, h
  <2>2. /\ s \in Seq(md.heap) /\ Len(s) \in Nat
        /\ \A i \in 1 .. Len(s) : s[i] \in md.heap
    BY <2>1, ChainElems
  <2>3. all = [i \in 1 .. Len(s) |-> md.entry[s[i]]]
    BY <1>2 DEF Along
  <2> HIDE DEF all
  <2>4. \A i \in 1 .. Len(s) : all[i] \in E /\ all[i] = md.entry[s[i]]
    BY <2>1, <2>2, <2>3
  <2>5. all \in Seq(E) /\ Len(all) = Len(s)
    <3>1. all \in [1 .. Len(s) -> E]
      BY <2>3, <2>4
    <3> QED
      BY <2>2, <3>1
  <2>6. \A i, j \in 1 .. Len(s) : all[i].key[1] = all[j].key[1] => i = j
    BY <2>1, <2>4
  <2>7. Distinct(all)
    BY <2>5, <2>6 DEF Distinct
  <2>8. Unique(Elems(all), h)
    <3>1. ASSUME NEW x \in Elems(all), NEW y \in Elems(all), h[x] = h[y] PROVE x = y
      <4>1. PICK i \in 1 .. Len(s) : x = all[i]
        BY <2>5 DEF Elems
      <4>2. PICK j \in 1 .. Len(s) : y = all[j]
        BY <2>5 DEF Elems
      <4>3. all[i].key[1] = all[j].key[1]
        BY <1>1, <2>4, <3>1, <4>1, <4>2
      <4> QED
        BY <2>6, <4>1, <4>2, <4>3
    <3> QED
      BY <3>1 DEF Unique
  <2>9. Mapping(Along(s, md.entry), Ns)
    BY <1>2, <2>5, <2>7, <2>8 DEF Mapping, E, h, all
  <2>10. Doubly(s, t, md.next, md.prev, md.heap, NULL)
    BY <2>1 DEF Doubly
  <2>11. RingOf(md, s, t, Ns)
    BY <1>3, <2>9, <2>10 DEF RingOf, IsRing, s
  <2> QED
    BY <2>11 DEF Ring, s, t
<1>4. ASSUME Ring(md, Ns) PROVE IsRing(md, Ns)
  <2>1. /\ RingOf(md, s, t, Ns)
        /\ Doubly(s, t, md.next, md.prev, md.heap, NULL)
        /\ Len(s) \in Nat /\ md.heap = Elems(s)
        /\ Mapping(all, Ns) /\ all \in Seq(E) /\ Len(all) = Len(s)
        /\ \A i \in 1 .. Len(s) : s[i] \in md.heap /\ all[i] = md.entry[s[i]]
    BY <1>4, RingFacts
  <2> HIDE DEF s, t, E, h, all
  <2>2. /\ IsChain(s, md.next[NULL], md.next, md.heap, NULL)
        /\ IsChain(t, md.prev[NULL], md.prev, md.heap, NULL)
        /\ Len(t) = Len(s) /\ \A i \in 1 .. Len(s) : t[i] = s[Len(s) + 1 - i]
    BY <2>1 DEF Doubly
  <2>3. \A i \in 1 .. Len(s) : all[i] \in E /\ all[i] \in Elems(all)
    BY <2>1 DEF Elems
  <2>4. Distinct(all) /\ Unique(Elems(all), h)
    BY <2>1 DEF Mapping, h
  <2>5. ASSUME NEW i \in 1 .. Len(s), NEW j \in 1 .. Len(s),
               md.entry[s[i]].key[1] = md.entry[s[j]].key[1]
        PROVE  i = j
    <3>1. h[all[i]] = h[all[j]]
      BY <1>1, <2>1, <2>3, <2>5
    <3>2. all[i] = all[j]
      BY <2>3, <2>4, <3>1 DEF Unique
    <3> QED
      BY <2>1, <2>4, <3>2 DEF Distinct
  <2>6. ASSUME NEW p \in md.heap PROVE md.entry[p] \in E
    <3>1. PICK i \in 1 .. Len(s) : p = s[i]
      BY <2>1 DEF Elems
    <3> QED
      BY <2>1, <2>3, <3>1
  <2>7. /\ RingFields \subseteq DOMAIN md /\ md.size = Len(s)
        /\ md.heap \subseteq Nodes
        /\ md.next \in [RingLinks -> RingLinks \cup {garbage}]
        /\ md.prev \in [RingLinks -> RingLinks \cup {garbage}]
        /\ DOMAIN md.entry = Nodes
        /\ \A p \in Nodes \ md.heap : md.entry[p] = garbage
    BY <2>1 DEF RingOf
  <2> QED
    BY <2>2, <2>5, <2>6, <2>7 DEF IsRing, s, t, E
<1> QED
  BY <1>3, <1>4

\* The fields of a sound ring.
LEMMA RingTypes ==
  ASSUME NEW Ns \in SUBSET Nat, NEW md, Ring(md, Ns)
  PROVE  /\ md.next \in [RingLinks -> RingLinks \cup {garbage}]
         /\ md.prev \in [RingLinks -> RingLinks \cup {garbage}]
         /\ DOMAIN md.entry = Nodes
         /\ \A q \in Nodes \ md.heap : md.entry[q] = garbage
         /\ md.heap \subseteq RingLinks /\ NULL \in RingLinks
<1>1. RingOf(md, Forward(md), Backward(md), Ns) /\ md.heap \subseteq Nodes
  BY RingFacts
<1> QED
  BY <1>1 DEF RingOf, RingLinks

\* new is md with e at the node p.
RingSets(new, md, p, e) ==
  /\ RingFields \subseteq DOMAIN new
  /\ new.size = md.size /\ new.heap = md.heap
  /\ new.next = md.next /\ new.prev = md.prev
  /\ new.entry = [md.entry EXCEPT ![p] = e]

\* An entry in the place of one of that name.
LEMMA RingSet ==
  ASSUME NEW Ns \in SUBSET Nat, NEW md, Ring(md, Ns), NEW p \in md.heap,
         NEW e \in MapEntry(Ns), NEW m, Named(e, m), Named(md.entry[p], m),
         NEW new, RingSets(new, md, p, e)
  PROVE  /\ Ring(new, Ns) /\ md.entry[p] \in Elems(RingEntries(md))
         /\ SetTo(Elems(RingEntries(md)), Elems(RingEntries(new)), md.entry[p], e)
<1> DEFINE s == Forward(md)
           t == Backward(md)
           all == RingEntries(md)
           C == Elems(all)
           E == MapEntry(Ns)
           x == md.entry[p]
           aft == Along(s, new.entry)
<1>1. /\ Doubly(s, t, md.next, md.prev, md.heap, NULL)
      /\ s \in Seq(md.heap) /\ Len(s) \in Nat /\ Distinct(s) /\ md.heap = Elems(s)
      /\ md.size = Len(s) /\ md.heap \subseteq Nodes
      /\ all = Along(s, md.entry) /\ all \in Seq(E) /\ Mapping(all, Ns)
      /\ Len(all) = Len(s)
      /\ \A i \in 1 .. Len(s) : all[i] = md.entry[s[i]]
  BY RingFacts
<1>2. /\ md.next \in [RingLinks -> RingLinks \cup {garbage}]
      /\ md.prev \in [RingLinks -> RingLinks \cup {garbage}]
      /\ DOMAIN md.entry = Nodes
      /\ \A q \in Nodes \ md.heap : md.entry[q] = garbage
  BY RingTypes
<1>3. /\ RingFields \subseteq DOMAIN new /\ new.size = md.size /\ new.heap = md.heap
      /\ new.next = md.next /\ new.prev = md.prev
      /\ new.entry = [md.entry EXCEPT ![p] = e]
  BY DEF RingSets
<1> HIDE DEF s, t, all, E
<1>4. PICK j \in 1 .. Len(s) : p = s[j]
  BY <1>1 DEF Elems
<1>5. /\ DOMAIN new.entry = Nodes /\ new.entry[p] = e
      /\ \A q \in Nodes : q # p => new.entry[q] = md.entry[q]
  BY <1>1, <1>2, <1>3
<1>6. Replaces(aft, all, j, e)
  <2> DEFINE g == new.entry
             f == md.entry
             H == md.heap
  <2>1. /\ s \in Seq(H) /\ Distinct(s) /\ Along(s, f) \in Seq(E) /\ j \in 1 .. Len(s)
        /\ g[s[j]] = e /\ \A q \in H : q # s[j] => g[q] = f[q]
    BY <1>1, <1>4, <1>5
  <2> HIDE DEF g, f, H
  <2>2. Replaces(Along(s, g), Along(s, f), j, e)
    BY ONLY <2>1, AlongSet
  <2> QED
    BY <1>1, <2>2 DEF g, f
<1>7. Distinct(all) /\ Unique(C, NameIn(Ns)) /\ C \subseteq E
  <2>1. Distinct(all) /\ Unique(C, NameIn(Ns))
    BY <1>1 DEF Mapping
  <2>2. Elems(all) \subseteq MapEntry(Ns)
    BY <1>1, MapAt
  <2> QED
    BY <2>1, <2>2 DEF E
<1>8. x \in C /\ all[j] = x
  BY <1>1, <1>4 DEF Elems
<1> HIDE DEF x, C, aft
<1>9. C \ {x} = Others(C, m)
  <2>1. /\ Ns \in SUBSET Nat /\ C \in SUBSET MapEntry(Ns) /\ Unique(C, NameIn(Ns)) /\ x \in C
        /\ Named(x, m)
    BY <1>7, <1>8 DEF E, x
  <2> QED
    BY ONLY <2>1, OneOfName
<1>10. e \notin C \ {x}
  BY <1>9 DEF Others, Named
<1>11. /\ aft \in Seq(E) /\ Distinct(aft) /\ Len(aft) = Len(all)
       /\ Elems(aft) = (C \ {x}) \cup {e}
  <2>1. /\ all \in Seq(E) /\ Distinct(all) /\ j \in 1 .. Len(all) /\ e \in E
        /\ e \notin Elems(all) \ {all[j]} /\ Replaces(aft, all, j, e)
    BY <1>1, <1>4, <1>6, <1>7, <1>8, <1>10 DEF C, E
  <2>2. /\ aft \in Seq(E) /\ Distinct(aft) /\ Len(aft) = Len(all)
        /\ Elems(aft) = (Elems(all) \ {all[j]}) \cup {e}
    BY ONLY <2>1, SetDistinct
  <2> QED
    BY <1>8, <2>2 DEF C
<1>12. Unique(Elems(aft), NameIn(Ns))
  <2>1. \A y \in E : NameIn(Ns)[y] = y.key[1]
    BY NameInIs DEF E
  <2>2. \A y \in C \ {x} : NameIn(Ns)[y] # m /\ y \in C
    BY <1>7, <1>9, <2>1 DEF Others
  <2>3. NameIn(Ns)[e] = m
    BY <2>1 DEF Named, E
  <2> QED
    BY <1>7, <1>11, <2>2, <2>3 DEF Unique
<1>13. RingOf(new, s, t, Ns)
  <2>1. Mapping(aft, Ns)
    BY <1>11, <1>12 DEF Mapping, E
  <2>2. \A q \in Nodes \ new.heap : new.entry[q] = garbage
    BY <1>2, <1>3, <1>5
  <2> QED
    BY <1>1, <1>2, <1>3, <1>5, <2>1, <2>2 DEF RingOf, aft
<1>14. Ring(new, Ns) /\ RingEntries(new) = aft
  <2>1. Ring(new, Ns) /\ Forward(new) = s
    BY <1>13, RingIs
  <2> QED
    BY <2>1 DEF RingEntries, aft
<1> QED
  BY <1>8, <1>11, <1>14 DEF SetTo, C, x, all

\* new is md without the node p.
RingDrops(new, md, p) ==
  /\ RingFields \subseteq DOMAIN new
  /\ new.size = md.size - 1 /\ new.heap = md.heap \ {p}
  /\ new.next = [[md.next EXCEPT ![md.prev[p]] = md.next[p]] EXCEPT ![p] = garbage]
  /\ new.prev = [[md.prev EXCEPT ![md.next[p]] = md.prev[p]] EXCEPT ![p] = garbage]
  /\ new.entry = [md.entry EXCEPT ![p] = garbage]

\* A link of a ring past a node, whose own link is lost.
LosesLink(g, h, p, from, to) == g = [[h EXCEPT ![from] = to] EXCEPT ![p] = garbage]

\* A link is led past a node, whose own becomes indeterminate.
LEMMA LinkLost ==
  ASSUME NEW h \in [RingLinks -> RingLinks \cup {garbage}], NEW p \in RingLinks,
         NEW from \in RingLinks, NEW to \in RingLinks, from # p,
         NEW g, LosesLink(g, h, p, from, to), NEW nodes \in SUBSET RingLinks
  PROVE  g \in [RingLinks -> RingLinks \cup {garbage}] /\ Bypasses(g, h, p, from, to, nodes)
<1> DEFINE T == RingLinks \cup {garbage}
<1>1. to \in T /\ garbage \in T /\ h \in [RingLinks -> T]
  OBVIOUS
<1> HIDE DEF T
<1>2. g \in [RingLinks -> T]
  BY <1>1 DEF LosesLink
<1>3. g[from] = to /\ \A q \in nodes : q # p /\ q # from => g[q] = h[q]
  BY <1>1 DEF LosesLink
<1> QED
  BY <1>2, <1>3 DEF Bypasses, T

\* A node that is unlinked and freed is gone from the ring, the others are not.
LEMMA RingDrop ==
  ASSUME NEW Ns \in SUBSET Nat, NEW md, Ring(md, Ns), NEW p \in md.heap,
         NEW new, RingDrops(new, md, p)
  PROVE  /\ Ring(new, Ns) /\ md.entry[p] \in Elems(RingEntries(md))
         /\ Elems(RingEntries(new)) = Elems(RingEntries(md)) \ {md.entry[p]}
<1> DEFINE s == Forward(md)
           t == Backward(md)
           all == RingEntries(md)
           C == Elems(all)
           E == MapEntry(Ns)
           x == md.entry[p]
           before == md.prev[p]
           after == md.next[p]
<1>1. /\ Doubly(s, t, md.next, md.prev, md.heap, NULL)
      /\ s \in Seq(md.heap) /\ Len(s) \in Nat /\ Distinct(s) /\ md.heap = Elems(s)
      /\ md.size = Len(s) /\ md.heap \subseteq Nodes
      /\ all = Along(s, md.entry) /\ all \in Seq(E) /\ Mapping(all, Ns)
      /\ Len(all) = Len(s) /\ NULL \notin Nodes
      /\ \A i \in 1 .. Len(s) : s[i] \in md.heap /\ all[i] = md.entry[s[i]]
  BY RingFacts
<1>2. /\ md.next \in [RingLinks -> RingLinks \cup {garbage}]
      /\ md.prev \in [RingLinks -> RingLinks \cup {garbage}]
      /\ DOMAIN md.entry = Nodes
      /\ \A q \in Nodes \ md.heap : md.entry[q] = garbage
      /\ md.heap \subseteq RingLinks /\ NULL \in RingLinks
  BY RingTypes
<1>3. /\ RingFields \subseteq DOMAIN new /\ new.size = md.size - 1 /\ new.heap = md.heap \ {p}
      /\ LosesLink(new.next, md.next, p, before, after)
      /\ LosesLink(new.prev, md.prev, p, after, before)
      /\ new.entry = [md.entry EXCEPT ![p] = garbage]
  BY DEF RingDrops, LosesLink
<1> HIDE DEF s, t, all, E
<1>4. PICK k \in 1 .. Len(s) : p = s[k]
  BY <1>1 DEF Elems
<1>5. \A i \in 1 .. Len(s) : i # k => s[i] # p
  BY <1>1, <1>4 DEF Distinct
<1>6. /\ after = IF k = Len(s) THEN NULL ELSE s[k + 1]
      /\ before = IF k = 1 THEN NULL ELSE s[k - 1]
  <2> DEFINE fore == md.next
             back == md.prev
             nodes == md.heap
  <2>1. Doubly(s, t, fore, back, nodes, NULL) /\ k \in 1 .. Len(s)
    BY <1>1
  <2> HIDE DEF fore, back, nodes
  <2>2. /\ fore[s[k]] = IF k = Len(s) THEN NULL ELSE s[k + 1]
        /\ back[s[k]] = IF k = 1 THEN NULL ELSE s[k - 1]
    BY ONLY <2>1, DoublyAt
  <2> QED
    BY <1>4, <2>2 DEF fore, back
<1>7. /\ after \in RingLinks /\ after # p /\ before \in RingLinks /\ before # p
      /\ p \in RingLinks
  <2>1. p # NULL /\ p \in RingLinks
    BY <1>1, <1>2
  <2>2. k # Len(s) => k + 1 \in 1 .. Len(s) /\ k + 1 # k
    BY <1>1
  <2>3. k # 1 => k - 1 \in 1 .. Len(s) /\ k - 1 # k
    BY <1>1
  <2> QED
    BY <1>1, <1>2, <1>5, <1>6, <2>1, <2>2, <2>3
<1>8. /\ new.next \in [RingLinks -> RingLinks \cup {garbage}]
      /\ Bypasses(new.next, md.next, p, before, after, md.heap \cup {NULL})
      /\ new.prev \in [RingLinks -> RingLinks \cup {garbage}]
      /\ Bypasses(new.prev, md.prev, p, after, before, md.heap \cup {NULL})
  <2> DEFINE nodes == md.heap \cup {NULL}
             g == new.next
             h == md.next
             u == new.prev
             v == md.prev
  <2>1. /\ nodes \in SUBSET RingLinks /\ h \in [RingLinks -> RingLinks \cup {garbage}]
        /\ v \in [RingLinks -> RingLinks \cup {garbage}]
        /\ p \in RingLinks /\ before \in RingLinks /\ after \in RingLinks
        /\ before # p /\ after # p
        /\ LosesLink(g, h, p, before, after) /\ LosesLink(u, v, p, after, before)
    BY <1>2, <1>3, <1>7
  <2> HIDE DEF nodes, g, h, u, v, before, after
  <2>2. g \in [RingLinks -> RingLinks \cup {garbage}] /\ Bypasses(g, h, p, before, after, nodes)
    BY ONLY <2>1, LinkLost
  <2>3. u \in [RingLinks -> RingLinks \cup {garbage}] /\ Bypasses(u, v, p, after, before, nodes)
    BY ONLY <2>1, LinkLost
  <2> QED
    BY <2>2, <2>3 DEF nodes, g, h, u, v
<1> DEFINE a == Unlinked(s, k)
           b == Unlinked(t, Len(s) + 1 - k)
           aft == Along(a, new.entry)
<1>9. Doubly(a, b, new.next, new.prev, new.heap, NULL)
  <2> DEFINE fore == md.next
             back == md.prev
             nodes == md.heap
             nf == new.next
             nb == new.prev
  <2>1. /\ Doubly(s, t, fore, back, nodes, NULL) /\ k \in 1 .. Len(s) /\ p = s[k]
        /\ Bypasses(nf, fore, p, back[p], fore[p], nodes \cup {NULL})
        /\ Bypasses(nb, back, p, fore[p], back[p], nodes \cup {NULL})
    BY <1>1, <1>4, <1>8
  <2> HIDE DEF fore, back, nodes, nf, nb
  <2>2. Doubly(a, b, nf, nb, nodes \ {p}, NULL)
    BY ONLY <2>1, DoublyPast
  <2> QED
    BY <1>3, <2>2 DEF nodes, nf, nb
<1>10. /\ DOMAIN new.entry = Nodes /\ new.entry[p] = garbage
       /\ \A q \in Nodes : q # p => new.entry[q] = md.entry[q]
  BY <1>1, <1>2, <1>3
<1>11. aft = Unlinked(all, k)
  <2> DEFINE g == new.entry
             f == md.entry
             H == md.heap
  <2>1. /\ s \in Seq(H) /\ Along(s, f) \in Seq(E) /\ k \in 1 .. Len(s)
        /\ \A i \in 1 .. Len(s) : i # k => g[s[i]] = f[s[i]]
    BY <1>1, <1>5, <1>10
  <2> HIDE DEF g, f, H
  <2>2. Along(Unlinked(s, k), g) = Unlinked(Along(s, f), k)
    BY ONLY <2>1, AlongPast
  <2> QED
    BY <1>1, <2>2 DEF g, f
<1>12. Len(a) = Len(s) - 1
  <2> DEFINE H == md.heap
  <2>1. s \in Seq(H) /\ k \in 1 .. Len(s)
    BY <1>1
  <2> HIDE DEF H, a
  <2>2. Lacks(Unlinked(s, k), s, k, H)
    BY ONLY <2>1, UnlinkedElems
  <2> QED
    BY <2>2 DEF Lacks, a
<1>13. Distinct(all) /\ Unique(C, NameIn(Ns))
  BY <1>1 DEF Mapping
<1>14. x \in C /\ all[k] = x
  BY <1>1, <1>4 DEF Elems
<1> HIDE DEF x, C
<1>15. aft \in Seq(E) /\ Distinct(aft) /\ Elems(aft) = C \ {x}
  <2>1. all \in Seq(E) /\ Distinct(all) /\ k \in 1 .. Len(all)
    BY <1>1, <1>13
  <2>2. /\ Unlinked(all, k) \in Seq(E) /\ Distinct(Unlinked(all, k))
        /\ Elems(Unlinked(all, k)) = Elems(all) \ {all[k]}
    BY ONLY <2>1, UnlinkedDistinct
  <2> HIDE DEF aft
  <2> QED
    BY <1>11, <1>14, <2>2 DEF C
<1> HIDE DEF a, b
<1>16. RingOf(new, a, b, Ns)
  <2>1. Mapping(aft, Ns)
    <3>1. Unique(Elems(aft), NameIn(Ns))
      BY <1>13, <1>15 DEF Unique
    <3> QED
      BY <1>15, <3>1 DEF Mapping, E
  <2>2. \A q \in Nodes \ new.heap : new.entry[q] = garbage
    BY <1>2, <1>3, <1>10
  <2>3. new.heap \subseteq Nodes /\ new.size = Len(a)
    BY <1>1, <1>3, <1>12
  <2> QED
    BY <1>3, <1>8, <1>9, <1>10, <2>1, <2>2, <2>3 DEF RingOf
<1>17. Ring(new, Ns) /\ RingEntries(new) = aft
  <2>1. Ring(new, Ns) /\ Forward(new) = a
    BY <1>16, RingIs
  <2> QED
    BY <2>1 DEF RingEntries
<1> QED
  BY <1>14, <1>15, <1>17 DEF C, x, all

\* A ring of the sentinel alone.
LEMMA RingNone ==
  ASSUME NEW Ns \in SUBSET Nat, NEW md, RingFields \subseteq DOMAIN md,
         md.size = 0, md.heap = {},
         md.next = [p \in RingLinks |-> IF p = NULL THEN NULL ELSE garbage],
         md.prev = [p \in RingLinks |-> IF p = NULL THEN NULL ELSE garbage],
         md.entry = [p \in Nodes |-> garbage]
  PROVE  Ring(md, Ns) /\ Elems(RingEntries(md)) = {}
<1>1. NULL \in RingLinks
  BY DEF RingLinks
<1>2. /\ md.next \in [RingLinks -> RingLinks \cup {garbage}] /\ md.next[NULL] = NULL
      /\ md.prev \in [RingLinks -> RingLinks \cup {garbage}] /\ md.prev[NULL] = NULL
      /\ DOMAIN md.entry = Nodes /\ \A p \in Nodes : md.entry[p] = garbage
  BY <1>1
<1>3. /\ IsChain(<<>>, md.next[NULL], md.next, md.heap, NULL)
      /\ IsChain(<<>>, md.prev[NULL], md.prev, md.heap, NULL)
  BY <1>2 DEF IsChain
<1>4. Doubly(<<>>, <<>>, md.next, md.prev, md.heap, NULL)
  BY <1>3 DEF Doubly
<1>5. Along(<<>>, md.entry) = <<>>
  BY DEF Along
<1>6. Elems(<<>>) = {}
  BY DEF Elems
<1>7. Mapping(Along(<<>>, md.entry), Ns)
  <2>1. <<>> \in Seq(MapEntry(Ns)) /\ Distinct(<<>>)
    BY DEF Distinct
  <2>2. Unique({}, NameIn(Ns))
    BY DEF Unique
  <2>3. Mapping(<<>>, Ns)
    BY <1>6, <2>1, <2>2 DEF Mapping
  <2> QED
    BY <1>5, <2>3
<1>8. RingOf(md, <<>>, <<>>, Ns)
  BY <1>2, <1>4, <1>7 DEF RingOf
<1>9. Ring(md, Ns) /\ Forward(md) = <<>>
  BY <1>8, RingIs
<1> QED
  BY <1>5, <1>6, <1>9 DEF RingEntries

\* The node p has the name n in the ring, or it is NULL and none has.
FoundAt(md, p, n) ==
  \/ p = NULL /\ NoneNamed(Elems(RingEntries(md)), n)
  \/ p \in md.heap /\ Named(md.entry[p], n) /\ md.entry[p] \in Elems(RingEntries(md))

\* findKey finds it.
LEMMA RingFind ==
  ASSUME NEW Ns \in SUBSET Nat, NEW md, Ring(md, Ns), NEW n
  PROVE  LET s == Forward(md)
             found == {i \in DOMAIN s : md.entry[s[i]].key[1] = n}
         IN FoundAt(md, IF found = {} THEN NULL
                        ELSE s[CHOOSE i \in found : \A j \in found : i <= j], n)
<1> DEFINE s == Forward(md)
           found == {i \in DOMAIN s : md.entry[s[i]].key[1] = n}
           i == CHOOSE j \in found : \A k \in found : j <= k
           all == RingEntries(md)
<1>1. /\ Len(s) \in Nat /\ DOMAIN s = 1 .. Len(s) /\ Len(all) = Len(s)
      /\ \A j \in 1 .. Len(s) : s[j] \in md.heap /\ all[j] = md.entry[s[j]]
  BY RingFacts
<1> HIDE DEF s, all
<1>2. CASE found = {}
  <2>1. ASSUME NEW x \in Elems(all) PROVE x.key[1] # n
    <3>1. PICK j \in 1 .. Len(s) : x = all[j]
      BY <1>1 DEF Elems
    <3>2. j \notin found
      BY <1>2
    <3> QED
      BY <1>1, <3>1, <3>2
  <2>2. FoundAt(md, NULL, n)
    BY <2>1 DEF FoundAt, NoneNamed, all
  <2> QED
    BY <1>2, <2>2 DEF s
<1>3. CASE found # {}
  <2>1. found \subseteq Nat
    BY <1>1
  <2>2. i \in found
    <3>1. \E j \in found : \A k \in found : j <= k
      <4> HIDE DEF found
      <4> QED
        BY <1>3, <2>1, NatLeast
    <3> HIDE DEF found
    <3> QED
      BY <3>1
  <2>3. i \in 1 .. Len(s) /\ md.entry[s[i]].key[1] = n
    <3> HIDE DEF i
    <3> QED
      BY <1>1, <2>2
  <2> HIDE DEF i
  <2>4. s[i] \in md.heap /\ Named(md.entry[s[i]], n) /\ md.entry[s[i]] \in Elems(all)
    BY <1>1, <2>3 DEF Named, Elems
  <2>5. FoundAt(md, s[i], n)
    BY <2>4 DEF FoundAt, all
  <2> QED
    BY <1>3, <2>5 DEF s, i
<1> QED
  BY <1>2, <1>3

\* A node that malloc gives is not in the ring.
LEMMA RingMalloc ==
  ASSUME NEW md, md.heap \subseteq Nodes, md.heap # Nodes
  PROVE  LM!Malloc(md) \in Nodes /\ LM!Malloc(md) \notin md.heap
<1>1. \E p \in Nodes : p \notin md.heap
  OBVIOUS
<1> QED
  BY <1>1 DEF LM!Malloc

\* As many entries are held as the ring says.
LEMMA RingMapping ==
  ASSUME NEW Ns \in SUBSET Nat, NEW md, Ring(md, Ns)
  PROVE  Mapping(RingEntries(md), Ns) /\ Len(RingEntries(md)) = md.size /\ md.size \in Nat
         /\ {md.entry[p] : p \in md.heap} = Elems(RingEntries(md))
         /\ LM!Entries(md) = RingEntries(md)
<1> DEFINE s == Forward(md)
           all == RingEntries(md)
<1>1. /\ Len(s) \in Nat /\ DOMAIN s = 1 .. Len(s) /\ Len(all) = Len(s)
      /\ md.heap = Elems(s) /\ md.size = Len(s) /\ Mapping(all, Ns) /\ md.size \in Nat
      /\ all = Along(s, md.entry)
      /\ \A j \in 1 .. Len(s) : s[j] \in md.heap /\ all[j] = md.entry[s[j]]
  BY RingFacts
<1>2. LM!Walk(md.next, md) = s
  BY DEF LM!Walk, LM!Chain, Forward, Chain
<1> HIDE DEF s, all
<1>3. LM!Entries(md) = all
  BY <1>1, <1>2 DEF LM!Entries, Along
<1>4. \A p \in md.heap : md.entry[p] \in Elems(all)
  BY <1>1 DEF Elems
<1>5. \A x \in Elems(all) : \E p \in md.heap : x = md.entry[p]
  BY <1>1 DEF Elems
<1>6. {md.entry[p] : p \in md.heap} = Elems(all)
  BY <1>4, <1>5
<1> QED
  BY <1>1, <1>3, <1>6 DEF all

-----------------------------------------------------------------------------
(* LListMap.                                                               *)

\* StructuresSound asks of an LListMap that it is a sound ring.
LEMMA LMSound ==
  /\ LM!ListOK <=> Ring(self, Names)
  /\ LM!ListOK' <=> Ring(self', Names)
<1>1. Names \in SUBSET Nat
  BY TableUnits
<1>2. LM!ListOK <=> IsRing(self, Names)
  BY DEF LM!ListOK, IsRing, LM!Walk, LM!Chain, LM!IsChain, Forward, Backward, Chain,
         IsChain, RingFields, RingLinks, LM!Name, MapEntry
<1>3. LM!ListOK' <=> IsRing(self', Names)
  BY DEF LM!ListOK, IsRing, LM!Walk, LM!Chain, LM!IsChain, Forward, Backward, Chain,
         IsChain, RingFields, RingLinks, LM!Name, MapEntry
<1> QED
  BY <1>1, <1>2, <1>3, RingSame

\* The map an LListMap implements is that of its entries.
LEMMA LMItems ==
  /\ Ring(self, Names) => LM!Items = ItemsOf(RingEntries(self))
  /\ Ring(self', Names) => LM!Items' = ItemsOf(RingEntries(self'))
<1>1. Names \in SUBSET Nat
  BY TableUnits
<1>2. LM!Items = ItemsOf(LM!Entries(self)) /\ LM!Items' = ItemsOf(LM!Entries(self'))
  BY DEF LM!Items, ItemsOf, LM!Name
<1> QED
  BY <1>1, <1>2, RingMapping

\* A new ring is empty.
LEMMA LMNewMap ==
  ASSUME NEW Ns \in SUBSET Nat
  PROVE  Ring(LM!NewMap, Ns) /\ Elems(RingEntries(LM!NewMap)) = {}
BY RingNone DEF LM!NewMap, RingFields, RingLinks

\* A new LListMap is sound.
LEMMA LMNew ==
  ASSUME LM!Init PROVE Ring(self, Names)
BY LMNewMap, TableUnits DEF LM!Init

\* An LListMap left alone stays sound and the same map.
LEMMA LMSame ==
  ASSUME Ring(self, Names), UNCHANGED self
  PROVE  Ring(self', Names) /\ LM!Items' = LM!Items
BY LMItems

\* Where a name is.
LEMMA LMFind ==
  ASSUME Ring(self, Names), NEW n \in Names
  PROVE  LET p == LM!FindKey(n) IN
         /\ FoundAt(self, p, n)
         /\ (p # NULL) <=> (n \in DOMAIN LM!Items)
         /\ p # NULL => p \in self.heap /\ LM!Items[n] = self.entry[p]
<1> DEFINE p == LM!FindKey(n)
           all == RingEntries(self)
           x == self.entry[p]
<1>1. Names \in SUBSET Nat /\ n \in Nat
  BY TableUnits
<1>2. FoundAt(self, p, n)
  <2> DEFINE s == Forward(self)
             found == {i \in DOMAIN s : self.entry[s[i]].key[1] = n}
             first == IF found = {} THEN NULL
                      ELSE s[CHOOSE i \in found : \A j \in found : i <= j]
  <2>1. LM!Walk(self.next, self) = s
    BY DEF LM!Walk, LM!Chain, Forward, Chain
  <2> HIDE DEF s
  <2>2. p = first
    BY <2>1 DEF LM!FindKey, LM!Name
  <2>3. FoundAt(self, first, n)
    BY <1>1, RingFind DEF s
  <2> QED
    BY ONLY <2>2, <2>3
<1>3. Mapping(all, Names) /\ LM!Items = ItemsOf(all)
  BY <1>1, RingMapping, LMItems
<1>4. NULL \notin Nodes /\ self.heap \subseteq Nodes
  BY <1>1, RingFacts
<1> HIDE DEF p, all
<1>5. CASE p = NULL /\ NoneNamed(Elems(all), n)
  <2>1. n \notin DOMAIN LM!Items
    BY <1>1, <1>3, <1>5, MapHasNot
  <2> QED
    BY <1>2, <1>5, <2>1 DEF p
<1>6. CASE p \in self.heap /\ Named(x, n) /\ x \in Elems(all)
  <2> HIDE DEF x
  <2>1. Names \in SUBSET Nat /\ Mapping(all, Names) /\ x \in Elems(all) /\ Named(x, n)
    BY <1>1, <1>3, <1>6
  <2>2. Leads(ItemsOf(all), n, x)
    BY ONLY <2>1, MapHas
  <2>3. n \in DOMAIN LM!Items /\ LM!Items[n] = x
    BY <1>3, <2>2 DEF Leads
  <2> QED
    BY <1>2, <1>4, <1>6, <2>3 DEF p, x
<1> QED
  BY <1>2, <1>5, <1>6 DEF FoundAt, all

\* A new entry, when malloc does not fail.
LEMMA LMInsert ==
  ASSUME Ring(self, Names), NEW n \in Names, NEW copy \in Copies,
         NoneNamed(Elems(RingEntries(self)), n), NEW op, LM!InsertEntry(op, LM!Entry(n, copy))
  PROVE  /\ Ring(self', Names) /\ n \notin DOMAIN LM!Items
         /\ \/ /\ LM!Items' = LM!D!With(n, LM!D!Entry(n, copy))
               /\ ret' = <<op, TRUE>>
            \/ /\ LM!Items' = LM!Items
               /\ ret' = <<op, FALSE>>
<1> DEFINE e == LM!Entry(n, copy)
           all == RingEntries(self)
           new == RingEntries(self')
           p == LM!Malloc(self)
<1>1. Names \in SUBSET Nat /\ n \in Nat
  BY TableUnits
<1>2. /\ Mapping(all, Names) /\ LM!Items = ItemsOf(all) /\ self.heap \subseteq Nodes
      /\ RingFields \subseteq DOMAIN self
  BY <1>1, RingMapping, LMItems, RingFacts
<1>3. n \notin DOMAIN LM!Items
  BY <1>1, <1>2, MapHasNot
<1>4. CASE UNCHANGED self /\ ret' = <<op, FALSE>>
  BY <1>3, <1>4, LMSame
<1>5. CASE /\ self.heap # Nodes /\ ret' = <<op, TRUE>>
           /\ self' = [LM!Link(self, self.prev[NULL], p, NULL) EXCEPT
                         !.heap = @ \cup {p}, !.entry[p] = e, !.size = @ + 1]
  <2>1. p \in Nodes /\ p \notin self.heap
    BY <1>2, <1>5, RingMalloc
  <2>2. e \in MapEntry(Names) /\ Named(e, n) /\ e = LM!D!Entry(n, copy)
    BY DEF LM!Entry, MapEntry, LM!D!Entry, LM!KeyStored, Named
  <2> HIDE DEF p, e, all, new
  <2>3. RingPuts(self', self, p, e)
    BY <1>2, <1>5 DEF RingPuts, LM!Link, RingFields
  <2>4. Ring(self', Names) /\ Elems(new) = Elems(all) \cup {e}
    <3>1. /\ Names \in SUBSET Nat /\ Ring(self, Names) /\ p \in Nodes /\ p \notin self.heap
          /\ e \in MapEntry(Names) /\ Named(e, n) /\ NoneNamed(Elems(RingEntries(self)), n)
          /\ RingPuts(self', self, p, e)
      BY <1>1, <2>1, <2>2, <2>3
    <3>2. Ring(self', Names) /\ Elems(RingEntries(self')) = Elems(RingEntries(self)) \cup {e}
      BY ONLY <3>1, RingPut
    <3> QED
      BY <3>2 DEF all, new
  <2>5. Mapping(new, Names) /\ LM!Items' = ItemsOf(new)
    BY <1>1, <2>4, RingMapping, LMItems DEF new
  <2>6. Gets(Elems(new), Elems(all), n, e)
    BY <2>4, NoneOfName DEF Gets, all
  <2>7. IsWith(ItemsOf(new), ItemsOf(all), n, e)
    BY <1>1, <1>2, <2>2, <2>5, <2>6, MapWith
  <2>8. LM!Items' = LM!D!With(n, LM!D!Entry(n, copy))
    BY <1>2, <2>2, <2>5, <2>7 DEF IsWith, LM!D!With
  <2> QED
    BY <1>3, <1>5, <2>4, <2>8
<1> QED
  BY <1>4, <1>5 DEF LM!InsertEntry

\* put leaves an LListMap sound and is put of the dictionary.
LEMMA LMPut ==
  ASSUME Ring(self, Names), NEW n \in Names, NEW copy \in Copies, LM!Put(n, copy)
  PROVE  Ring(self', Names) /\ LM!D!Put
<1> DEFINE e == LM!Entry(n, copy)
           p == LM!FindKey(n)
           x == self.entry[p]
           all == RingEntries(self)
           new == RingEntries(self')
<1>1. Names \in SUBSET Nat /\ n \in Nat
  BY TableUnits
<1>2. /\ FoundAt(self, p, n)
      /\ (p # NULL) <=> (n \in DOMAIN LM!Items)
      /\ p # NULL => p \in self.heap /\ LM!Items[n] = x
  BY LMFind
<1>3. \/ /\ p # NULL
         /\ self' = [self EXCEPT !.entry[p] = e]
         /\ ret' = <<"put", TRUE, x>>
      \/ p = NULL /\ LM!InsertEntry("put", e)
  BY DEF LM!Put
<1> HIDE DEF p
<1>4. CASE p = NULL /\ LM!InsertEntry("put", e)
  <2>1. NoneNamed(Elems(RingEntries(self)), n)
    <3>1. p \notin self.heap
      BY <1>1, <1>4, RingFacts
    <3> QED
      BY <1>2, <3>1 DEF FoundAt
  <2>2. /\ Ring(self', Names) /\ n \notin DOMAIN LM!Items
        /\ \/ /\ LM!Items' = LM!D!With(n, LM!D!Entry(n, copy))
              /\ ret' = <<"put", TRUE>>
           \/ LM!Items' = LM!Items /\ ret' = <<"put", FALSE>>
    BY <1>4, <2>1, LMInsert
  <2>3. CASE /\ LM!Items' = LM!D!With(n, LM!D!Entry(n, copy))
             /\ ret' = <<"put", TRUE>>
    BY <2>2, <2>3 DEF LM!D!Put
  <2>4. CASE LM!Items' = LM!Items /\ ret' = <<"put", FALSE>>
    BY <2>2, <2>4 DEF LM!D!Put
  <2> QED
    BY <2>2, <2>3, <2>4
<1>5. CASE /\ p # NULL /\ self' = [self EXCEPT !.entry[p] = e]
           /\ ret' = <<"put", TRUE, x>>
  <2>1. e \in MapEntry(Names) /\ Named(e, n) /\ e = LM!D!Entry(n, copy)
    BY DEF LM!Entry, MapEntry, LM!D!Entry, LM!KeyStored, Named
  <2>2. p \in self.heap /\ Named(x, n)
    BY <1>2, <1>5 DEF FoundAt
  <2>3. RingFields \subseteq DOMAIN self
    BY <1>1, RingFacts
  <2> HIDE DEF e
  <2>4. RingSets(self', self, p, e)
    BY <1>5, <2>3 DEF RingSets, RingFields
  <2>5. /\ Ring(self', Names) /\ x \in Elems(all)
        /\ Elems(new) = (Elems(all) \ {x}) \cup {e}
    <3>1. /\ Names \in SUBSET Nat /\ Ring(self, Names) /\ p \in self.heap
          /\ e \in MapEntry(Names) /\ Named(e, n) /\ Named(self.entry[p], n)
          /\ RingSets(self', self, p, e)
      BY <1>1, <2>1, <2>2, <2>4
    <3>2. /\ Ring(self', Names) /\ self.entry[p] \in Elems(RingEntries(self))
          /\ SetTo(Elems(RingEntries(self)), Elems(RingEntries(self')), self.entry[p], e)
      BY ONLY <3>1, RingSet
    <3> QED
      BY <3>2 DEF SetTo, x, all, new
  <2>6. /\ Mapping(all, Names) /\ LM!Items = ItemsOf(all)
        /\ Mapping(new, Names) /\ LM!Items' = ItemsOf(new)
    BY <1>1, <2>5, RingMapping, LMItems
  <2> HIDE DEF x, all, new
  <2>7. Elems(all) \ {x} = Others(Elems(all), n)
    <3>1. Elems(all) \in SUBSET MapEntry(Names) /\ Unique(Elems(all), NameIn(Names))
      BY <1>1, <2>6, MapAt DEF Mapping
    <3>2. /\ Names \in SUBSET Nat /\ x \in Elems(all) /\ Named(x, n)
      BY <1>1, <2>2, <2>5
    <3> QED
      BY ONLY <3>1, <3>2, OneOfName
  <2>8. Gets(Elems(new), Elems(all), n, e)
    BY <2>5, <2>7 DEF Gets
  <2>9. IsWith(ItemsOf(new), ItemsOf(all), n, e)
    BY <1>1, <2>1, <2>6, <2>8, MapWith
  <2>10. LM!Items' = LM!D!With(n, LM!D!Entry(n, copy))
    BY <2>1, <2>6, <2>9 DEF IsWith, LM!D!With
  <2>11. ret' = <<"put", TRUE, LM!EntryReplaced(LM!Items[n])>> /\ n \in DOMAIN LM!Items
    BY <1>2, <1>5 DEF LM!EntryReplaced
  <2> QED
    BY <2>5, <2>10, <2>11 DEF LM!D!Put
<1> QED
  BY <1>3, <1>4, <1>5

\* putUnique leaves an LListMap sound and is putUnique of the dictionary.
LEMMA LMPutUnique ==
  ASSUME Ring(self, Names), NEW n \in Names, NEW copy \in Copies, LM!PutUnique(n, copy)
  PROVE  Ring(self', Names) /\ LM!D!PutUnique
<1> DEFINE p == LM!FindKey(n)
<1>1. \/ p = NULL /\ LM!InsertEntry("putUnique", LM!Entry(n, copy))
      \/ UNCHANGED self /\ ret' = <<"putUnique", FALSE>>
  BY DEF LM!PutUnique
<1>2. FoundAt(self, p, n)
  BY LMFind
<1> HIDE DEF p
<1>3. CASE p = NULL /\ LM!InsertEntry("putUnique", LM!Entry(n, copy))
  <2>1. NoneNamed(Elems(RingEntries(self)), n)
    <3>1. p \notin self.heap
      BY <1>3, TableUnits, RingFacts
    <3> QED
      BY <1>2, <3>1 DEF FoundAt
  <2>2. /\ Ring(self', Names) /\ n \notin DOMAIN LM!Items
        /\ \/ /\ LM!Items' = LM!D!With(n, LM!D!Entry(n, copy))
              /\ ret' = <<"putUnique", TRUE>>
           \/ LM!Items' = LM!Items /\ ret' = <<"putUnique", FALSE>>
    BY <1>3, <2>1, LMInsert
  <2>3. CASE /\ LM!Items' = LM!D!With(n, LM!D!Entry(n, copy))
             /\ ret' = <<"putUnique", TRUE>>
    BY <2>2, <2>3 DEF LM!D!PutUnique
  <2>4. CASE LM!Items' = LM!Items /\ ret' = <<"putUnique", FALSE>>
    BY <2>2, <2>4 DEF LM!D!PutUnique
  <2> QED
    BY <2>2, <2>3, <2>4
<1>4. CASE UNCHANGED self /\ ret' = <<"putUnique", FALSE>>
  <2>1. Ring(self', Names) /\ LM!Items' = LM!Items
    BY <1>4, LMSame
  <2> QED
    BY <1>4, <2>1 DEF LM!D!PutUnique
<1> QED
  BY <1>1, <1>3, <1>4

\* containsKey and get are questions to the dictionary.
LEMMA LMGet ==
  ASSUME Ring(self, Names), NEW n \in Names, LM!ContainsKey(n) \/ LM!Get(n)
  PROVE  Ring(self', Names) /\ LM!D!Get
<1> DEFINE p == LM!FindKey(n)
           v == self.entry[p].value
<1>1. UNCHANGED self
  BY DEF LM!ContainsKey, LM!Get
<1>2. Ring(self', Names) /\ LM!Items' = LM!Items
  BY <1>1, LMSame
<1>3. /\ (p # NULL) <=> (n \in DOMAIN LM!Items)
      /\ p # NULL => LM!Items[n].value = v
  BY LMFind
<1>4. \/ ret' = <<"containsKey", n, p # NULL>>
      \/ ret' = IF p # NULL THEN <<"get", n, TRUE, v>> ELSE <<"get", n, FALSE>>
  BY DEF LM!ContainsKey, LM!Get
<1> HIDE DEF p, v
<1>5. CASE ret' = <<"containsKey", n, p # NULL>>
  BY <1>2, <1>3, <1>5 DEF LM!D!Get
<1>6. CASE p # NULL /\ ret' = <<"get", n, TRUE, v>>
  <2>1. n \in DOMAIN LM!Items /\ LM!Items[n].value = v
    BY <1>3, <1>6
  <2>2. /\ ret'[1] = "get" /\ ret'[2] = n /\ ret'[3] = TRUE /\ ret'[4] = v
        /\ (n \in DOMAIN LM!Items) = TRUE
    BY <1>6, <2>1
  <2> QED
    BY <1>2, <2>1, <2>2 DEF LM!D!Get
<1>7. CASE p = NULL /\ ret' = <<"get", n, FALSE>>
  <2>1. n \notin DOMAIN LM!Items /\ ret'[1] = "get" /\ ret'[2] = n /\ ret'[3] = FALSE
    BY <1>3, <1>7
  <2>2. (n \in DOMAIN LM!Items) = FALSE
    BY <2>1
  <2> QED
    BY <1>2, <2>1, <2>2 DEF LM!D!Get
<1> QED
  BY <1>4, <1>5, <1>6, <1>7

\* remove leaves an LListMap sound and is remove of the dictionary.
LEMMA LMRemove ==
  ASSUME Ring(self, Names), NEW n \in Names, LM!Remove(n)
  PROVE  Ring(self', Names) /\ LM!D!Remove
<1> DEFINE p == LM!FindKey(n)
           x == self.entry[p]
           all == RingEntries(self)
           new == RingEntries(self')
<1>1. Names \in SUBSET Nat /\ n \in Nat
  BY TableUnits
<1>2. /\ FoundAt(self, p, n)
      /\ (p # NULL) <=> (n \in DOMAIN LM!Items)
      /\ p # NULL => p \in self.heap /\ LM!Items[n] = x
  BY LMFind
<1>3. \/ /\ p # NULL
         /\ self' = [LM!Unlink(self, p) EXCEPT
                       !.size = @ - 1, !.heap = @ \ {p}, !.entry[p] = garbage,
                       !.next[p] = garbage, !.prev[p] = garbage]
         /\ ret' = <<"remove", n, TRUE, x>>
      \/ p = NULL /\ UNCHANGED self /\ ret' = <<"remove", n, FALSE>>
  BY DEF LM!Remove
<1> HIDE DEF p
<1>4. CASE p = NULL /\ UNCHANGED self /\ ret' = <<"remove", n, FALSE>>
  <2>1. Ring(self', Names) /\ LM!Items' = LM!Items
    BY <1>4, LMSame
  <2> QED
    BY <1>2, <1>4, <2>1 DEF LM!D!Remove
<1>5. CASE /\ p # NULL
           /\ self' = [LM!Unlink(self, p) EXCEPT
                         !.size = @ - 1, !.heap = @ \ {p}, !.entry[p] = garbage,
                         !.next[p] = garbage, !.prev[p] = garbage]
           /\ ret' = <<"remove", n, TRUE, x>>
  <2>1. p \in self.heap /\ Named(x, n)
    BY <1>2, <1>5 DEF FoundAt
  <2>2. RingFields \subseteq DOMAIN self
    BY <1>1, RingFacts
  <2>3. RingDrops(self', self, p)
    BY <1>5, <2>2 DEF RingDrops, RingFields, LM!Unlink
  <2>4. /\ Ring(self', Names) /\ x \in Elems(all) /\ Elems(new) = Elems(all) \ {x}
    <3>1. /\ Names \in SUBSET Nat /\ Ring(self, Names) /\ p \in self.heap
          /\ RingDrops(self', self, p)
      BY <1>1, <2>1, <2>3
    <3>2. /\ Ring(self', Names) /\ self.entry[p] \in Elems(RingEntries(self))
          /\ Elems(RingEntries(self')) = Elems(RingEntries(self)) \ {self.entry[p]}
      BY ONLY <3>1, RingDrop
    <3> QED
      BY <3>2
  <2>5. /\ Mapping(all, Names) /\ LM!Items = ItemsOf(all)
        /\ Mapping(new, Names) /\ LM!Items' = ItemsOf(new)
    BY <1>1, <2>4, RingMapping, LMItems
  <2> HIDE DEF x, all, new
  <2>6. Elems(all) \ {x} = Others(Elems(all), n)
    <3>1. Elems(all) \in SUBSET MapEntry(Names) /\ Unique(Elems(all), NameIn(Names))
      BY <1>1, <2>5, MapAt DEF Mapping
    <3>2. Names \in SUBSET Nat /\ x \in Elems(all) /\ Named(x, n)
      BY <1>1, <2>1, <2>4
    <3> QED
      BY ONLY <3>1, <3>2, OneOfName
  <2>7. Loses(Elems(new), Elems(all), n)
    BY <2>4, <2>6 DEF Loses
  <2>8. IsWithout(ItemsOf(new), ItemsOf(all), n)
    BY <1>1, <2>5, <2>7, MapWithout
  <2>9. LM!Items' = LM!D!Without(n)
    BY <2>5, <2>8 DEF IsWithout, LM!D!Without
  <2> QED
    BY <1>2, <1>5, <2>4, <2>9 DEF LM!D!Remove
<1> QED
  BY <1>3, <1>4, <1>5

\* What lists a map, and the dictionary's Cardinality.
LEMMA LMLists ==
  ASSUME Ring(self, Names)
  PROVE  LET all == LM!Entries(self)
             names == [i \in DOMAIN all |-> LM!Name(all[i])]
         IN /\ LM!D!Lists(all) /\ LM!D!Cardinality(DOMAIN LM!Items) = self.size
            /\ Len(names) = self.size
            /\ {names[i] : i \in 1 .. self.size} = DOMAIN LM!Items
<1> DEFINE all == LM!Entries(self)
           names == [i \in DOMAIN all |-> all[i].key[1]]
<1>1. Names \in SUBSET Nat
  BY TableUnits
<1>2. /\ Mapping(all, Names) /\ Len(all) = self.size /\ LM!Items = ItemsOf(all)
      /\ self.size \in Nat
  BY <1>1, RingMapping, LMItems
<1>3. \A X : LM!D!Cardinality(X) = Cardinality(X)
  BY DEF LM!D!Cardinality, Cardinality
<1> HIDE DEF all
<1>4. Lists(all, LM!Items) /\ ListsNames(names, LM!Items)
  BY <1>1, <1>2, MapLists
<1> HIDE DEF names
<1>5. LM!D!Lists(all) /\ LM!D!Cardinality(DOMAIN LM!Items) = self.size
  BY <1>2, <1>3, <1>4 DEF Lists, LM!D!Lists
<1>6. Len(names) = self.size /\ {names[i] : i \in 1 .. self.size} = DOMAIN LM!Items
  BY <1>3, <1>4, <1>5 DEF ListsNames
<1> QED
  BY <1>5, <1>6 DEF names, all, LM!Name

\* clear and destroy leave a sound, empty LListMap and free what was in it.
LEMMA LMEmpty ==
  ASSUME Ring(self, Names), NEW op \in {"clear", "destroy"}, LM!Clear(op)
  PROVE  Ring(self', Names) /\ LM!D!Empty
<1>1. Names \in SUBSET Nat
  BY TableUnits
<1>2. self' = LM!NewMap /\ ret' = <<op, LM!Entries(self)>>
  BY DEF LM!Clear
<1>3. Ring(self', Names) /\ Elems(RingEntries(self')) = {}
  BY <1>1, <1>2, LMNewMap
<1>4. Mapping(RingEntries(self'), Names) /\ LM!Items' = ItemsOf(RingEntries(self'))
  BY <1>1, <1>3, RingMapping, LMItems
<1>5. LM!Items' = LM!D!NoItems
  BY <1>1, <1>3, <1>4, MapNone DEF LM!D!NoItems
<1>6. LM!D!Lists(LM!Entries(self))
  BY LMLists
<1> QED
  BY <1>2, <1>3, <1>5, <1>6 DEF LM!D!Empty

\* size, entryArray and itCreate answer as the dictionary does.
LEMMA LMAsk ==
  ASSUME Ring(self, Names), LM!Size \/ LM!ToArray \/ LM!ItCreate
  PROVE  Ring(self', Names) /\ (LM!D!Size \/ LM!D!Array \/ LM!D!Iterate)
<1> DEFINE all == LM!Entries(self)
           names == [i \in DOMAIN all |-> LM!Name(all[i])]
<1>1. UNCHANGED self
  BY DEF LM!Size, LM!ToArray, LM!ItCreate
<1>2. Ring(self', Names) /\ LM!Items' = LM!Items
  BY <1>1, LMSame
<1>3. /\ LM!D!Lists(all) /\ LM!D!Cardinality(DOMAIN LM!Items) = self.size
      /\ Len(names) = self.size /\ {names[i] : i \in 1 .. self.size} = DOMAIN LM!Items
  BY LMLists
<1>4. CASE LM!Size
  BY <1>2, <1>3, <1>4 DEF LM!Size, LM!D!Size
<1>5. CASE LM!ToArray
  <2>1. ret' = <<"array", all>> \/ ret' = <<"array">>
    BY <1>5 DEF LM!ToArray
  <2> HIDE DEF all, names
  <2> QED
    BY <1>2, <1>3, <2>1 DEF LM!D!Array
<1>6. CASE LM!ItCreate
  <2>1. ret' = <<"iterator", self.size, names>> \/ ret' = <<"iterator">>
    BY <1>6 DEF LM!ItCreate
  <2> HIDE DEF all, names
  <2>2. CASE ret' = <<"iterator">>
    BY <1>2, <2>2 DEF LM!D!Iterate
  <2>3. CASE ret' = <<"iterator", self.size, names>>
    <3>1. ret'[1] = "iterator" /\ ret'[2] = self.size /\ ret'[3] = names
      BY <2>3
    <3> QED
      BY <1>2, <1>3, <3>1 DEF LM!D!Iterate
  <2> QED
    BY <2>1, <2>2, <2>3
<1> QED
  BY <1>2, <1>4, <1>5, <1>6

\* Every call leaves an LListMap sound and is one of the dictionary.
LEMMA LMCalled ==
  ASSUME Ring(self, Names), LM!Next
  PROVE  Ring(self', Names) /\ LM!D!DictNext
<1>1. CASE \E n \in Names, copy \in Copies : LM!Put(n, copy) \/ LM!PutUnique(n, copy)
  BY <1>1, LMPut, LMPutUnique DEF LM!D!DictNext
<1>2. CASE \E n \in Names : LM!ContainsKey(n) \/ LM!Get(n) \/ LM!Remove(n)
  BY <1>2, LMGet, LMRemove DEF LM!D!DictNext
<1>3. CASE \E op \in {"clear", "destroy"} : LM!Clear(op)
  BY <1>3, LMEmpty DEF LM!D!DictNext
<1>4. CASE LM!Size \/ LM!ToArray \/ LM!ItCreate
  BY <1>4, LMAsk DEF LM!D!DictNext
<1> QED
  BY <1>1, <1>2, <1>3, <1>4 DEF LM!Next

-----------------------------------------------------------------------------
(* LListCSKMap.                                                            *)

\* A sound ring whose keys are the strings that are allocated.
OwnRing(md) == /\ Ring(md, StringNames)
               /\ "strings" \in DOMAIN md /\ md.strings = KeysOf(Elems(RingEntries(md)))

\* The operators of LListCSKMap are those of LListMap.
LEMMA LCData ==
  /\ StringNames \in SUBSET Nat
  /\ \A md : LC!M!Entries(md) = LM!Entries(md)
  /\ \A md : LC!M!Malloc(md) = LM!Malloc(md)
  /\ LC!M!NewMap = LM!NewMap
  /\ \A n : LC!FindKey(n) = LM!FindKey(n)
  /\ \A e : LC!M!Name(e) = e.key[1] /\ LC!Shown(e) = [key |-> e.key[1], value |-> e.value]
<1>1. \A md : LC!M!Entries(md) = LM!Entries(md)
  BY DEF LC!M!Entries, LM!Entries, LC!M!Walk, LM!Walk, LC!M!Chain, LM!Chain
<1>2. \A n : LC!FindKey(n) = LM!FindKey(n)
  BY DEF LC!FindKey, LC!M!FindKey, LM!FindKey, LC!M!Walk, LM!Walk, LC!M!Chain, LM!Chain,
         LC!M!Name, LM!Name
<1>3. /\ \A md : LC!M!Malloc(md) = LM!Malloc(md)
      /\ LC!M!NewMap = LM!NewMap
  BY DEF LC!M!Malloc, LM!Malloc, LC!M!NewMap, LM!NewMap
<1>4. \A e : LC!M!Name(e) = e.key[1] /\ LC!Shown(e) = [key |-> e.key[1], value |-> e.value]
  BY DEF LC!M!Name, LC!Shown
<1>5. StringNames \in SUBSET Nat
  BY KeyedAssumption
<1> QED
  BY <1>1, <1>2, <1>3, <1>4, <1>5

\* The keys of the entries at the nodes.
LEMMA RingKeys ==
  ASSUME NEW Ns \in SUBSET Nat, NEW md, Ring(md, Ns)
  PROVE  {md.entry[p].key : p \in md.heap} = KeysOf(Elems(RingEntries(md)))
<1>1. {md.entry[p] : p \in md.heap} = Elems(RingEntries(md))
  BY RingMapping
<1>2. \A p \in md.heap : md.entry[p] \in Elems(RingEntries(md))
  BY <1>1
<1>3. \A x \in Elems(RingEntries(md)) : \E p \in md.heap : x = md.entry[p]
  BY <1>1
<1> QED
  BY <1>2, <1>3 DEF KeysOf

\* StructuresSound asks of an LListCSKMap that it is a sound ring that owns its keys.
LEMMA LCSound ==
  /\ LC!ListOK <=> OwnRing(self)
  /\ LC!ListOK' <=> OwnRing(self')
<1>1. StringNames \in SUBSET Nat
  BY LCData
<1>2. LC!M!ListOK <=> IsRing(self, StringNames)
  BY DEF LC!M!ListOK, IsRing, LC!M!Walk, LC!M!Chain, LC!M!IsChain, Forward, Backward,
         Chain, IsChain, RingFields, RingLinks, LC!M!Name, MapEntry
<1>3. LC!M!ListOK' <=> IsRing(self', StringNames)
  BY DEF LC!M!ListOK, IsRing, LC!M!Walk, LC!M!Chain, LC!M!IsChain, Forward, Backward,
         Chain, IsChain, RingFields, RingLinks, LC!M!Name, MapEntry
<1>4. LC!ListOK <=> OwnRing(self)
  BY <1>1, <1>2, RingSame, RingKeys DEF LC!ListOK, OwnRing
<1>5. LC!ListOK' <=> OwnRing(self')
  <2>1. /\ IsRing(self', StringNames) <=> Ring(self', StringNames)
        /\ Ring(self', StringNames) =>
             {self'.entry[p].key : p \in self'.heap} = KeysOf(Elems(RingEntries(self')))
    BY <1>1, RingSame, RingKeys
  <2> QED
    BY <1>3, <2>1 DEF LC!ListOK, OwnRing
<1> QED
  BY <1>4, <1>5

\* The map an LListCSKMap implements is that of its entries, without their copies.
LEMMA LCItems ==
  /\ Ring(self, StringNames) => LC!Items = ShownItems(RingEntries(self))
                             /\ LC!ShownEntries = ShownOf(RingEntries(self))
  /\ Ring(self', StringNames) => LC!Items' = ShownItems(RingEntries(self'))
<1>1. LC!ShownEntries = ShownOf(LM!Entries(self))
  BY LCData DEF LC!ShownEntries, ShownOf, LC!Shown, LC!M!Name
<1>2. LC!ShownEntries' = ShownOf(LM!Entries(self'))
  BY LCData DEF LC!ShownEntries, ShownOf, LC!Shown, LC!M!Name
<1>3. LC!Items = ShownItems(LM!Entries(self))
  BY <1>1 DEF LC!Items, ShownItems
<1>4. LC!Items' = ShownItems(LM!Entries(self'))
  BY <1>2 DEF LC!Items, ShownItems
<1> QED
  BY <1>1, <1>3, <1>4, LCData, RingMapping

\* A new ring is empty and owns no key.
LEMMA LCNewMap ==
  ASSUME NEW md, RingFields \cup {"strings"} \subseteq DOMAIN md,
         md.size = LM!NewMap.size, md.heap = LM!NewMap.heap, md.next = LM!NewMap.next,
         md.prev = LM!NewMap.prev, md.entry = LM!NewMap.entry, md.strings = {}
  PROVE  OwnRing(md) /\ Elems(RingEntries(md)) = {}
<1>1. Ring(md, StringNames) /\ Elems(RingEntries(md)) = {}
  BY LCData, RingNone DEF LM!NewMap, RingLinks
<1> QED
  BY <1>1 DEF OwnRing, KeysOf

\* A new LListCSKMap is sound.
LEMMA LCNew ==
  ASSUME LC!Init PROVE OwnRing(self)
BY LCNewMap, LCData DEF LC!Init, LC!NewCSKMap, RingFields

\* An LListCSKMap left alone stays sound and the same map.
LEMMA LCSame ==
  ASSUME OwnRing(self), UNCHANGED self
  PROVE  OwnRing(self') /\ LC!Items' = LC!Items
<1>1. OwnRing(self') /\ self' = self
  OBVIOUS
<1>2. LC!Items' = ShownItems(RingEntries(self')) /\ LC!Items = ShownItems(RingEntries(self))
  BY <1>1, LCItems DEF OwnRing
<1> QED
  BY <1>1, <1>2

\* Where a name is.
LEMMA LCFind ==
  ASSUME OwnRing(self), NEW n \in StringNames
  PROVE  LET p == LC!FindKey(n) IN
         /\ FoundAt(self, p, n)
         /\ (p # NULL) <=> (n \in DOMAIN LC!Items)
         /\ p # NULL =>
              p \in self.heap /\ LC!Items[n] = [key |-> n, value |-> self.entry[p].value]
<1> DEFINE p == LC!FindKey(n)
           all == RingEntries(self)
           x == self.entry[p]
<1>1. StringNames \in SUBSET Nat /\ n \in Nat /\ Ring(self, StringNames)
  BY LCData DEF OwnRing
<1>2. FoundAt(self, p, n)
  <2> DEFINE s == Forward(self)
             found == {i \in DOMAIN s : self.entry[s[i]].key[1] = n}
             first == IF found = {} THEN NULL
                      ELSE s[CHOOSE i \in found : \A j \in found : i <= j]
  <2>1. LM!Walk(self.next, self) = s
    BY DEF LM!Walk, LM!Chain, Forward, Chain
  <2> HIDE DEF s
  <2>2. p = first
    <3>1. LM!FindKey(n) = first
      BY <2>1 DEF LM!FindKey, LM!Name
    <3> QED
      BY <3>1, LCData
  <2>3. FoundAt(self, first, n)
    BY <1>1, RingFind DEF s
  <2> QED
    BY ONLY <2>2, <2>3
<1>3. Mapping(all, StringNames) /\ LC!Items = ShownItems(all)
  BY <1>1, RingMapping, LCItems
<1>4. NULL \notin Nodes /\ self.heap \subseteq Nodes
  BY <1>1, RingFacts
<1> HIDE DEF p, all
<1>5. CASE p = NULL /\ NoneNamed(Elems(all), n)
  <2>1. n \notin DOMAIN LC!Items
    BY <1>1, <1>3, <1>5, MapHasNot
  <2> QED
    BY <1>2, <1>5, <2>1 DEF p
<1>6. CASE p \in self.heap /\ Named(x, n) /\ x \in Elems(all)
  <2> HIDE DEF x
  <2>1. StringNames \in SUBSET Nat /\ Mapping(all, StringNames) /\ x \in Elems(all) /\ Named(x, n)
    BY <1>1, <1>3, <1>6
  <2>2. Leads(ShownItems(all), n, [key |-> n, value |-> x.value])
    BY ONLY <2>1, MapHas
  <2>3. n \in DOMAIN LC!Items /\ LC!Items[n] = [key |-> n, value |-> x.value]
    BY <1>3, <2>2 DEF Leads
  <2> QED
    BY <1>2, <1>4, <1>6, <2>3 DEF p, x
<1> QED
  BY <1>2, <1>5, <1>6 DEF FoundAt, all

\* A new entry, when malloc does not fail; strdup gives a string that is
\* not yet allocated.
LEMMA LCInsert ==
  ASSUME OwnRing(self), NEW n \in StringNames, NEW value \in Copies,
         NoneNamed(Elems(RingEntries(self)), n), NEW op, LC!InsertEntry(op, n, value)
  PROVE  /\ OwnRing(self') /\ n \notin DOMAIN LC!Items
         /\ \/ /\ LC!Items' = LC!D!With(n, LC!D!Entry(n, value))
               /\ ret' = <<op, TRUE>>
            \/ /\ LC!Items' = LC!Items
               /\ ret' = <<op, FALSE>>
<1> DEFINE k == LC!Strdup(n)
           e == [key |-> k, value |-> value]
           all == RingEntries(self)
           new == RingEntries(self')
           p == LC!M!Malloc(self)
<1>1. StringNames \in SUBSET Nat /\ Ring(self, StringNames)
  BY LCData DEF OwnRing
<1>2. /\ Mapping(all, StringNames) /\ LC!Items = ShownItems(all) /\ self.heap \subseteq Nodes
      /\ RingFields \subseteq DOMAIN self
      /\ "strings" \in DOMAIN self /\ self.strings = KeysOf(Elems(all))
  BY <1>1, RingMapping, LCItems, RingFacts DEF OwnRing
<1>3. n \notin DOMAIN LC!Items
  BY <1>1, <1>2, MapHasNot
<1>4. k \in {n} \X Copies
  <2>1. <<n, value>> \in {n} \X Copies
    OBVIOUS
  <2>2. <<n, value>> \notin self.strings
    <3>1. SUFFICES ASSUME NEW x \in Elems(all), x.key = <<n, value>> PROVE FALSE
      BY <1>2 DEF KeysOf
    <3>2. x.key[1] = n
      BY <3>1
    <3> QED
      BY <3>2 DEF NoneNamed
  <2> QED
    BY <2>1, <2>2 DEF LC!Strdup
<1>5. CASE UNCHANGED self /\ ret' = <<op, FALSE>>
  BY <1>3, <1>5, LCSame
<1>6. CASE /\ self.heap # Nodes /\ ret' = <<op, TRUE>>
           /\ self' = [LC!M!Link(self, self.prev[NULL], p, NULL) EXCEPT
                         !.heap = @ \cup {p}, !.strings = @ \cup {k},
                         !.entry[p] = e, !.size = @ + 1]
  <2>1. p \in Nodes /\ p \notin self.heap
    BY <1>2, <1>6, RingMalloc, LCData
  <2>2. e \in MapEntry(StringNames) /\ Named(e, n) /\ e.key = k /\ e.value = value
    BY <1>4 DEF MapEntry, Named
  <2> HIDE DEF p, e, k, all, new
  <2>3. RingPuts(self', self, p, e)
    BY <1>2, <1>6 DEF RingPuts, LC!M!Link, RingFields
  <2>4. "strings" \in DOMAIN self' /\ self'.strings = self.strings \cup {k}
    BY <1>2, <1>6 DEF LC!M!Link, RingFields
  <2>5. Ring(self', StringNames) /\ Elems(new) = Elems(all) \cup {e}
    <3>1. /\ StringNames \in SUBSET Nat /\ Ring(self, StringNames) /\ p \in Nodes /\ p \notin self.heap
          /\ e \in MapEntry(StringNames) /\ Named(e, n) /\ NoneNamed(Elems(RingEntries(self)), n)
          /\ RingPuts(self', self, p, e)
      BY <1>1, <2>1, <2>2, <2>3
    <3>2. Ring(self', StringNames) /\ Elems(RingEntries(self')) = Elems(RingEntries(self)) \cup {e}
      BY ONLY <3>1, RingPut
    <3> QED
      BY <3>2 DEF all, new
  <2>6. OwnRing(self')
    <3>1. KeysOf(Elems(all) \cup {e}) = KeysOf(Elems(all)) \cup {k}
      BY <2>2 DEF KeysOf
    <3> QED
      BY <1>2, <2>4, <2>5, <3>1 DEF OwnRing, new
  <2>7. Mapping(new, StringNames) /\ LC!Items' = ShownItems(new)
    BY <1>1, <2>5, RingMapping, LCItems DEF new
  <2>8. Gets(Elems(new), Elems(all), n, e)
    BY <2>5, NoneOfName DEF Gets, all
  <2>9. IsWith(ShownItems(new), ShownItems(all), n, [key |-> n, value |-> e.value])
    BY <1>1, <1>2, <2>2, <2>7, <2>8, MapWith
  <2>10. LC!D!Entry(n, value) = [key |-> n, value |-> e.value]
    BY <2>2 DEF LC!D!Entry, LC!KeyStored
  <2>11. LC!Items' = LC!D!With(n, LC!D!Entry(n, value))
    BY <1>2, <2>7, <2>9, <2>10 DEF IsWith, LC!D!With
  <2> QED
    BY <1>3, <1>6, <2>6, <2>11
<1> QED
  BY <1>5, <1>6 DEF LC!InsertEntry, LC!Link

\* put leaves an LListCSKMap sound and is put of the dictionary.
LEMMA LCPut ==
  ASSUME OwnRing(self), NEW n \in StringNames, NEW value \in Copies, LC!Put(n, value)
  PROVE  OwnRing(self') /\ LC!D!Put
<1> DEFINE p == LC!FindKey(n)
           x == self.entry[p]
           e == [key |-> x.key, value |-> value]
           all == RingEntries(self)
           new == RingEntries(self')
<1>1. StringNames \in SUBSET Nat /\ Ring(self, StringNames)
  BY LCData DEF OwnRing
<1>2. /\ FoundAt(self, p, n)
      /\ (p # NULL) <=> (n \in DOMAIN LC!Items)
      /\ p # NULL => p \in self.heap /\ LC!Items[n] = [key |-> n, value |-> x.value]
  BY LCFind
<1>3. \/ /\ p # NULL
         /\ self' = [self EXCEPT !.entry[p].value = value]
         /\ ret' = <<"put", TRUE, x.value>>
      \/ p = NULL /\ LC!InsertEntry("put", n, value)
  BY DEF LC!Put
<1> HIDE DEF p
<1>4. CASE p = NULL /\ LC!InsertEntry("put", n, value)
  <2>1. NoneNamed(Elems(RingEntries(self)), n)
    <3>1. p \notin self.heap
      BY <1>1, <1>4, RingFacts
    <3> QED
      BY <1>2, <3>1 DEF FoundAt
  <2>2. /\ OwnRing(self') /\ n \notin DOMAIN LC!Items
        /\ \/ /\ LC!Items' = LC!D!With(n, LC!D!Entry(n, value))
              /\ ret' = <<"put", TRUE>>
           \/ LC!Items' = LC!Items /\ ret' = <<"put", FALSE>>
    BY <1>4, <2>1, LCInsert
  <2>3. CASE /\ LC!Items' = LC!D!With(n, LC!D!Entry(n, value))
             /\ ret' = <<"put", TRUE>>
    BY <2>2, <2>3 DEF LC!D!Put
  <2>4. CASE LC!Items' = LC!Items /\ ret' = <<"put", FALSE>>
    BY <2>2, <2>4 DEF LC!D!Put
  <2> QED
    BY <2>2, <2>3, <2>4
<1>5. CASE /\ p # NULL /\ self' = [self EXCEPT !.entry[p].value = value]
           /\ ret' = <<"put", TRUE, x.value>>
  <2>1. p \in self.heap /\ Named(x, n) /\ x \in Elems(all)
    BY <1>2, <1>5 DEF FoundAt
  <2>2. Mapping(all, StringNames) /\ LC!Items = ShownItems(all)
    BY <1>1, RingMapping, LCItems
  <2>3. x \in MapEntry(StringNames)
    <3> HIDE DEF x, all
    <3> QED
      BY <1>1, <2>1, <2>2, MapAt
  <2>4. /\ x = [key |-> x.key, value |-> x.value] /\ x.key \in StringNames \X Copies
    <3> HIDE DEF x
    <3> QED
      BY <2>3 DEF MapEntry
  <2>5. e \in MapEntry(StringNames) /\ Named(e, n) /\ e.key = x.key /\ e.value = value
    BY <2>1, <2>4 DEF MapEntry, Named
  <2>6. RingFields \cup {"strings"} \subseteq DOMAIN self
        /\ self.strings = KeysOf(Elems(all))
    BY <1>1, RingFacts DEF OwnRing
  <2>7. [x EXCEPT !.value = value] = e
    <3> HIDE DEF x
    <3>1. x = [key |-> x.key, value |-> x.value]
      BY <2>4
    <3> QED
      BY <3>1
  <2>8. self' = [self EXCEPT !.entry = [self.entry EXCEPT ![p] = e]]
    <3>1. self' = [self EXCEPT !.entry = [self.entry EXCEPT ![p] =
                                            [x EXCEPT !.value = value]]]
      BY <1>5
    <3> HIDE DEF x, e
    <3> QED
      BY <2>7, <3>1
  <2> HIDE DEF e
  <2>9. /\ RingSets(self', self, p, e)
        /\ "strings" \in DOMAIN self' /\ self'.strings = self.strings
    BY <2>6, <2>8 DEF RingSets, RingFields
  <2>10. /\ Ring(self', StringNames)
         /\ Elems(new) = (Elems(all) \ {x}) \cup {e}
    <3>1. /\ StringNames \in SUBSET Nat /\ Ring(self, StringNames) /\ p \in self.heap
          /\ e \in MapEntry(StringNames) /\ Named(e, n) /\ Named(self.entry[p], n)
          /\ RingSets(self', self, p, e)
      BY <1>1, <2>1, <2>5, <2>9
    <3>2. /\ Ring(self', StringNames) /\ self.entry[p] \in Elems(RingEntries(self))
          /\ SetTo(Elems(RingEntries(self)), Elems(RingEntries(self')), self.entry[p], e)
      BY ONLY <3>1, RingSet
    <3> QED
      BY <3>2 DEF SetTo, x, all, new
  <2>11. Mapping(new, StringNames) /\ LC!Items' = ShownItems(new)
    BY <1>1, <2>10, RingMapping, LCItems
  <2> HIDE DEF x, all, new
  <2>12. /\ Elems(all) \in SUBSET MapEntry(StringNames)
         /\ Unique(Elems(all), NameIn(StringNames)) /\ StringNames \in SUBSET Nat
         /\ x \in Elems(all) /\ Named(x, n)
    BY <1>1, <2>1, <2>2, MapAt DEF Mapping
  <2>13. Elems(all) \ {x} = Others(Elems(all), n)
    BY ONLY <2>12, OneOfName
  <2>14. OwnRing(self')
    <3>1. \A y : y.key = x.key => KeysOf((Elems(all) \ {x}) \cup {y}) = KeysOf(Elems(all))
      BY ONLY <2>12, KeysOfOthers
    <3>2. KeysOf(Elems(new)) = KeysOf(Elems(all))
      BY <2>5, <2>10, <3>1
    <3> QED
      BY <2>6, <2>9, <2>10, <3>2 DEF OwnRing, new
  <2>15. Gets(Elems(new), Elems(all), n, e)
    BY <2>10, <2>13 DEF Gets
  <2>16. IsWith(ShownItems(new), ShownItems(all), n, [key |-> n, value |-> e.value])
    BY <1>1, <2>2, <2>5, <2>11, <2>15, MapWith
  <2>17. LC!D!Entry(n, value) = [key |-> n, value |-> e.value]
    BY <2>5 DEF LC!D!Entry, LC!KeyStored
  <2>18. LC!Items' = LC!D!With(n, LC!D!Entry(n, value))
    BY <2>2, <2>11, <2>16, <2>17 DEF IsWith, LC!D!With
  <2>19. n \in DOMAIN LC!Items /\ ret' = <<"put", TRUE, LC!ValueReplaced(LC!Items[n])>>
    BY <1>2, <1>5 DEF LC!ValueReplaced
  <2> QED
    BY <2>14, <2>18, <2>19 DEF LC!D!Put
<1> QED
  BY <1>3, <1>4, <1>5

\* putUnique leaves an LListCSKMap sound and is putUnique of the dictionary.
LEMMA LCPutUnique ==
  ASSUME OwnRing(self), NEW n \in StringNames, NEW value \in Copies, LC!PutUnique(n, value)
  PROVE  OwnRing(self') /\ LC!D!PutUnique
<1> DEFINE p == LC!FindKey(n)
<1>1. \/ p = NULL /\ LC!InsertEntry("putUnique", n, value)
      \/ UNCHANGED self /\ ret' = <<"putUnique", FALSE>>
  BY DEF LC!PutUnique
<1>2. FoundAt(self, p, n)
  BY LCFind
<1> HIDE DEF p
<1>3. CASE p = NULL /\ LC!InsertEntry("putUnique", n, value)
  <2>1. NoneNamed(Elems(RingEntries(self)), n)
    <3>1. p \notin self.heap
      BY <1>3, LCData, RingFacts DEF OwnRing
    <3> QED
      BY <1>2, <3>1 DEF FoundAt
  <2>2. /\ OwnRing(self') /\ n \notin DOMAIN LC!Items
        /\ \/ /\ LC!Items' = LC!D!With(n, LC!D!Entry(n, value))
              /\ ret' = <<"putUnique", TRUE>>
           \/ LC!Items' = LC!Items /\ ret' = <<"putUnique", FALSE>>
    BY <1>3, <2>1, LCInsert
  <2>3. CASE /\ LC!Items' = LC!D!With(n, LC!D!Entry(n, value))
             /\ ret' = <<"putUnique", TRUE>>
    BY <2>2, <2>3 DEF LC!D!PutUnique
  <2>4. CASE LC!Items' = LC!Items /\ ret' = <<"putUnique", FALSE>>
    BY <2>2, <2>4 DEF LC!D!PutUnique
  <2> QED
    BY <2>2, <2>3, <2>4
<1>4. CASE UNCHANGED self /\ ret' = <<"putUnique", FALSE>>
  <2>1. OwnRing(self') /\ LC!Items' = LC!Items
    BY <1>4, LCSame
  <2> QED
    BY <1>4, <2>1 DEF LC!D!PutUnique
<1> QED
  BY <1>1, <1>3, <1>4

\* containsKey and get are questions to the dictionary.
LEMMA LCGet ==
  ASSUME OwnRing(self), NEW n \in StringNames, LC!ContainsKey(n) \/ LC!Get(n)
  PROVE  OwnRing(self') /\ LC!D!Get
<1> DEFINE p == LC!FindKey(n)
           v == self.entry[p].value
<1>1. UNCHANGED self
  BY DEF LC!ContainsKey, LC!Get, LC!M!ContainsKey, LC!M!Get
<1>2. OwnRing(self') /\ LC!Items' = LC!Items
  BY <1>1, LCSame
<1>3. /\ (p # NULL) <=> (n \in DOMAIN LC!Items)
      /\ p # NULL => LC!Items[n] = [key |-> n, value |-> v]
  BY LCFind
<1>4. \/ ret' = <<"containsKey", n, p # NULL>>
      \/ ret' = IF p # NULL THEN <<"get", n, TRUE, v>> ELSE <<"get", n, FALSE>>
  BY DEF LC!ContainsKey, LC!Get, LC!M!ContainsKey, LC!M!Get, LC!FindKey
<1> HIDE DEF p, v
<1>5. CASE ret' = <<"containsKey", n, p # NULL>>
  BY <1>2, <1>3, <1>5 DEF LC!D!Get
<1>6. CASE p # NULL /\ ret' = <<"get", n, TRUE, v>>
  <2>1. n \in DOMAIN LC!Items /\ LC!Items[n].value = v
    BY <1>3, <1>6
  <2>2. /\ ret'[1] = "get" /\ ret'[2] = n /\ ret'[3] = TRUE /\ ret'[4] = v
        /\ (n \in DOMAIN LC!Items) = TRUE
    BY <1>6, <2>1
  <2> QED
    BY <1>2, <2>1, <2>2 DEF LC!D!Get
<1>7. CASE p = NULL /\ ret' = <<"get", n, FALSE>>
  <2>1. n \notin DOMAIN LC!Items /\ ret'[1] = "get" /\ ret'[2] = n /\ ret'[3] = FALSE
    BY <1>3, <1>7
  <2>2. (n \in DOMAIN LC!Items) = FALSE
    BY <2>1
  <2> QED
    BY <1>2, <2>1, <2>2 DEF LC!D!Get
<1> QED
  BY <1>4, <1>5, <1>6, <1>7

\* remove leaves an LListCSKMap sound, frees the key, and is remove of the dictionary.
LEMMA LCRemove ==
  ASSUME OwnRing(self), NEW n \in StringNames, LC!Remove(n)
  PROVE  OwnRing(self') /\ LC!D!Remove
<1> DEFINE p == LC!FindKey(n)
           x == self.entry[p]
           all == RingEntries(self)
           new == RingEntries(self')
<1>1. StringNames \in SUBSET Nat /\ Ring(self, StringNames)
  BY LCData DEF OwnRing
<1>2. /\ FoundAt(self, p, n)
      /\ (p # NULL) <=> (n \in DOMAIN LC!Items)
      /\ p # NULL => p \in self.heap /\ LC!Items[n] = [key |-> n, value |-> x.value]
  BY LCFind
<1>3. \/ /\ p # NULL
         /\ self' = [LC!M!Unlink(self, p) EXCEPT
                       !.size = @ - 1, !.strings = @ \ {x.key},
                       !.heap = @ \ {p}, !.entry[p] = garbage,
                       !.next[p] = garbage, !.prev[p] = garbage]
         /\ ret' = <<"remove", n, TRUE, LC!Shown(x)>>
      \/ p = NULL /\ UNCHANGED self /\ ret' = <<"remove", n, FALSE>>
  BY DEF LC!Remove, LC!Unlink
<1> HIDE DEF p
<1>4. CASE p = NULL /\ UNCHANGED self /\ ret' = <<"remove", n, FALSE>>
  <2>1. OwnRing(self') /\ LC!Items' = LC!Items
    BY <1>4, LCSame
  <2> QED
    BY <1>2, <1>4, <2>1 DEF LC!D!Remove
<1>5. CASE /\ p # NULL
           /\ self' = [LC!M!Unlink(self, p) EXCEPT
                         !.size = @ - 1, !.strings = @ \ {x.key},
                         !.heap = @ \ {p}, !.entry[p] = garbage,
                         !.next[p] = garbage, !.prev[p] = garbage]
           /\ ret' = <<"remove", n, TRUE, LC!Shown(x)>>
  <2>1. p \in self.heap /\ Named(x, n)
    BY <1>2, <1>5 DEF FoundAt
  <2>2. RingFields \cup {"strings"} \subseteq DOMAIN self
        /\ self.strings = KeysOf(Elems(all))
    BY <1>1, RingFacts DEF OwnRing
  <2>3. RingDrops(self', self, p)
    BY <1>5, <2>2 DEF RingDrops, RingFields, LC!M!Unlink
  <2>4. "strings" \in DOMAIN self' /\ self'.strings = self.strings \ {x.key}
    BY <1>5, <2>2 DEF RingFields, LC!M!Unlink
  <2>5. /\ Ring(self', StringNames) /\ x \in Elems(all) /\ Elems(new) = Elems(all) \ {x}
    <3>1. /\ StringNames \in SUBSET Nat /\ Ring(self, StringNames) /\ p \in self.heap
          /\ RingDrops(self', self, p)
      BY <1>1, <2>1, <2>3
    <3>2. /\ Ring(self', StringNames) /\ self.entry[p] \in Elems(RingEntries(self))
          /\ Elems(RingEntries(self')) = Elems(RingEntries(self)) \ {self.entry[p]}
      BY ONLY <3>1, RingDrop
    <3> QED
      BY <3>2
  <2>6. /\ Mapping(all, StringNames) /\ LC!Items = ShownItems(all)
        /\ Mapping(new, StringNames) /\ LC!Items' = ShownItems(new)
    BY <1>1, <2>5, RingMapping, LCItems
  <2>7. LC!Shown(x) = [key |-> n, value |-> x.value]
    BY <2>1, LCData DEF Named
  <2> HIDE DEF x, all, new
  <2>8. /\ Elems(all) \in SUBSET MapEntry(StringNames)
        /\ Unique(Elems(all), NameIn(StringNames)) /\ StringNames \in SUBSET Nat
        /\ x \in Elems(all) /\ Named(x, n)
    BY <1>1, <2>1, <2>5, <2>6, MapAt DEF Mapping
  <2>9. Elems(all) \ {x} = Others(Elems(all), n)
    BY ONLY <2>8, OneOfName
  <2>10. KeysOf(Elems(all) \ {x}) = KeysOf(Elems(all)) \ {x.key}
    BY ONLY <2>8, KeysOfOthers
  <2>11. OwnRing(self')
    BY <2>2, <2>4, <2>5, <2>10 DEF OwnRing, new
  <2>12. Loses(Elems(new), Elems(all), n)
    BY <2>5, <2>9 DEF Loses
  <2>13. IsWithout(ShownItems(new), ShownItems(all), n)
    BY <1>1, <2>6, <2>12, MapWithout
  <2>14. LC!Items' = LC!D!Without(n)
    BY <2>6, <2>13 DEF IsWithout, LC!D!Without
  <2> QED
    BY <1>2, <1>5, <2>7, <2>11, <2>14 DEF LC!D!Remove
<1> QED
  BY <1>3, <1>4, <1>5

\* The entries of an LListCSKMap list its map, each key once.
LEMMA LCLists ==
  ASSUME OwnRing(self)
  PROVE  /\ LC!D!Lists(LC!ShownEntries) /\ LC!D!Cardinality(DOMAIN LC!Items) = self.size
         /\ LET shown == LC!ShownEntries
                names == [i \in DOMAIN shown |-> shown[i].key]
            IN /\ Len(names) = self.size
               /\ {names[i] : i \in 1 .. self.size} = DOMAIN LC!Items
<1> DEFINE all == RingEntries(self)
           shown == ShownOf(all)
           names == [i \in DOMAIN shown |-> shown[i].key]
<1>1. StringNames \in SUBSET Nat /\ Ring(self, StringNames)
  BY LCData DEF OwnRing
<1>2. /\ Mapping(all, StringNames) /\ Len(all) = self.size /\ LC!Items = ShownItems(all)
      /\ LC!ShownEntries = shown
  BY <1>1, RingMapping, LCItems
<1>3. \A X : LC!D!Cardinality(X) = Cardinality(X)
  BY DEF LC!D!Cardinality, Cardinality
<1>4. Lists(shown, LC!Items) /\ ListsNames(names, LC!Items) /\ Len(shown) = self.size
  <2> HIDE DEF all
  <2> QED
    BY <1>1, <1>2, MapLists
<1> HIDE DEF shown
<1>5. LC!D!Lists(shown) /\ LC!D!Cardinality(DOMAIN LC!Items) = self.size
  BY <1>3, <1>4 DEF Lists, LC!D!Lists
<1> HIDE DEF names
<1>6. Len(names) = self.size /\ {names[i] : i \in 1 .. self.size} = DOMAIN LC!Items
  BY <1>3, <1>4, <1>5 DEF ListsNames
<1> QED
  BY <1>2, <1>5, <1>6 DEF names

\* clear and destroy leave a sound, empty LListCSKMap and free every key.
LEMMA LCEmpty ==
  ASSUME OwnRing(self), NEW op \in {"clear", "destroy"}, LC!Clear(op)
  PROVE  OwnRing(self') /\ LC!D!Empty
<1>1. StringNames \in SUBSET Nat /\ Ring(self, StringNames)
  BY LCData DEF OwnRing
<1>2. self.strings \ {self.entry[p].key : p \in self.heap} = {}
  BY <1>1, RingKeys DEF OwnRing
<1>3. self' = [LC!NewCSKMap EXCEPT !.strings = {}] /\ ret' = <<op, LC!ShownEntries>>
  BY <1>2 DEF LC!Clear
<1>4. OwnRing(self') /\ Elems(RingEntries(self')) = {}
  <2> DEFINE new == LM!NewMap
  <2>1. LC!NewCSKMap = [size |-> new.size, heap |-> new.heap, next |-> new.next,
                        prev |-> new.prev, entry |-> new.entry, strings |-> {}]
    BY LCData DEF LC!NewCSKMap
  <2> HIDE DEF new
  <2>2. /\ RingFields \cup {"strings"} \subseteq DOMAIN self'
        /\ self'.size = new.size /\ self'.heap = new.heap /\ self'.next = new.next
        /\ self'.prev = new.prev /\ self'.entry = new.entry /\ self'.strings = {}
    BY <1>3, <2>1 DEF RingFields
  <2> QED
    BY <2>2, LCNewMap DEF new
<1>5. Mapping(RingEntries(self'), StringNames) /\ LC!Items' = ShownItems(RingEntries(self'))
  BY <1>1, <1>4, RingMapping, LCItems DEF OwnRing
<1>6. LC!Items' = LC!D!NoItems
  BY <1>1, <1>4, <1>5, MapNone DEF LC!D!NoItems
<1>7. LC!D!Lists(LC!ShownEntries)
  BY LCLists
<1> QED
  BY <1>3, <1>4, <1>6, <1>7 DEF LC!D!Empty

\* size, entryArray and itCreate answer as the dictionary does.
LEMMA LCAsk ==
  ASSUME OwnRing(self), LC!Size \/ LC!ToArray \/ LC!ItCreate
  PROVE  OwnRing(self') /\ (LC!D!Size \/ LC!D!Array \/ LC!D!Iterate)
<1> DEFINE shown == LC!ShownEntries
           names == [i \in DOMAIN shown |-> shown[i].key]
<1>1. UNCHANGED self
  BY DEF LC!Size, LC!M!Size, LC!ToArray, LC!ItCreate
<1>2. OwnRing(self') /\ LC!Items' = LC!Items
  BY <1>1, LCSame
<1>3. /\ LC!D!Lists(shown) /\ LC!D!Cardinality(DOMAIN LC!Items) = self.size
      /\ Len(names) = self.size /\ {names[i] : i \in 1 .. self.size} = DOMAIN LC!Items
  BY LCLists
<1>4. CASE LC!Size
  BY <1>2, <1>3, <1>4 DEF LC!Size, LC!M!Size, LC!D!Size
<1>5. CASE LC!ToArray
  <2>1. ret' = <<"array", shown>> \/ ret' = <<"array">>
    BY <1>5 DEF LC!ToArray
  <2> HIDE DEF shown, names
  <2> QED
    BY <1>2, <1>3, <2>1 DEF LC!D!Array
<1>6. CASE LC!ItCreate
  <2>1. ret' = <<"iterator", self.size, names>> \/ ret' = <<"iterator">>
    BY <1>6 DEF LC!ItCreate
  <2> HIDE DEF shown, names
  <2>2. CASE ret' = <<"iterator">>
    BY <1>2, <2>2 DEF LC!D!Iterate
  <2>3. CASE ret' = <<"iterator", self.size, names>>
    <3>1. ret'[1] = "iterator" /\ ret'[2] = self.size /\ ret'[3] = names
      BY <2>3
    <3> QED
      BY <1>2, <1>3, <3>1 DEF LC!D!Iterate
  <2> QED
    BY <2>1, <2>2, <2>3
<1> QED
  BY <1>2, <1>4, <1>5, <1>6

\* Every call leaves an LListCSKMap sound and is one of the dictionary.
LEMMA LCCalled ==
  ASSUME OwnRing(self), LC!Next
  PROVE  OwnRing(self') /\ LC!D!DictNext
<1>1. CASE \E n \in StringNames, value \in Copies : LC!Put(n, value) \/ LC!PutUnique(n, value)
  BY <1>1, LCPut, LCPutUnique DEF LC!D!DictNext
<1>2. CASE \E n \in StringNames : LC!ContainsKey(n) \/ LC!Get(n) \/ LC!Remove(n)
  BY <1>2, LCGet, LCRemove DEF LC!D!DictNext
<1>3. CASE \E op \in {"clear", "destroy"} : LC!Clear(op)
  BY <1>3, LCEmpty DEF LC!D!DictNext
<1>4. CASE LC!Size \/ LC!ToArray \/ LC!ItCreate
  BY <1>4, LCAsk DEF LC!D!DictNext
<1> QED
  BY <1>1, <1>2, <1>3, <1>4 DEF LC!Next

-----------------------------------------------------------------------------
(* All maps, and the bag.                                                  *)

\* A call on the bag is one of the multiset.
StepIsBag == kind = "HashBag" => HB!StepIsBag

\* New ones are sound.
LEMMA MapsNew == CreateMap => MapsSound
<1>1. CASE kind = "HashMap" /\ HM!Init
  BY <1>1, HMNew, HMSound DEF MapsSound
<1>2. CASE kind = "LListMap" /\ LM!Init
  BY <1>2, LMNew, LMSound DEF MapsSound
<1>3. CASE kind = "HashCSKMap" /\ HC!Init
  BY <1>3, HCNew, HCSound DEF MapsSound
<1>4. CASE kind = "LListCSKMap" /\ LC!Init
  BY <1>4, LCNew, LCSound DEF MapsSound
<1>5. CASE kind = "HashBag" /\ HB!Init
  BY <1>5, BagNew, BagSound DEF MapsSound
<1> QED
  BY <1>1, <1>2, <1>3, <1>4, <1>5 DEF CreateMap

\* A call keeps them sound and is one of the dictionary, or of the multiset.
LEMMA MapsCalled ==
  ASSUME MapsSound, CallMap, UNCHANGED kind
  PROVE  MapsSound' /\ StepIsDict /\ StepIsBag
<1>1. CASE kind = "HashMap" /\ HM!Next
  <2>1. Table(self, Names)
    BY <1>1, HMSound DEF MapsSound
  <2>2. HM!TableOK' /\ HM!LoadIsSizeByCapacity' /\ HM!D!DictNext
    BY <1>1, <2>1, HMCalled, HMSound
  <2> QED
    BY <1>1, <2>2 DEF MapsSound, StepIsDict, StepIsBag, HM!StepIsDict
<1>2. CASE kind = "LListMap" /\ LM!Next
  <2>1. Ring(self, Names)
    BY <1>2, LMSound DEF MapsSound
  <2>2. LM!ListOK' /\ LM!D!DictNext
    BY <1>2, <2>1, LMCalled, LMSound
  <2> QED
    BY <1>2, <2>2 DEF MapsSound, StepIsDict, StepIsBag, LM!StepIsDict
<1>3. CASE kind = "HashCSKMap" /\ HC!Next
  <2>1. OwnTable(self)
    BY <1>3, HCSound DEF MapsSound
  <2>2. HC!TableOK' /\ HC!LoadIsSizeByCapacity' /\ HC!D!DictNext
    BY <1>3, <2>1, HCCalled, HCSound
  <2> QED
    BY <1>3, <2>2 DEF MapsSound, StepIsDict, StepIsBag, HC!StepIsDict
<1>4. CASE kind = "LListCSKMap" /\ LC!Next
  <2>1. OwnRing(self)
    BY <1>4, LCSound DEF MapsSound
  <2>2. LC!ListOK' /\ LC!D!DictNext
    BY <1>4, <2>1, LCCalled, LCSound
  <2> QED
    BY <1>4, <2>2 DEF MapsSound, StepIsDict, StepIsBag, LC!StepIsDict
<1>5. CASE kind = "HashBag" /\ HB!Next
  <2>1. BagTable(self)
    BY <1>5, BagSound DEF MapsSound
  <2>2. HB!TableOK' /\ HB!LoadIsSizeByCapacity' /\ HB!M!BagNext
    BY <1>5, <2>1, BagCalled, BagSound
  <2> QED
    BY <1>5, <2>2 DEF MapsSound, StepIsDict, StepIsBag, HB!StepIsBag
<1> QED
  BY <1>1, <1>2, <1>3, <1>4, <1>5 DEF CallMap

\* What leaves them alone is no step of them.
LEMMA MapsLeft ==
  ASSUME MapsSound, UNCHANGED <<kind, self, ret>>
  PROVE  MapsSound' /\ StepIsDict /\ StepIsBag
<1>1. /\ HM!Items' = HM!Items /\ HC!Items' = HC!Items
      /\ LM!Items' = LM!Items /\ LC!Items' = LC!Items
  BY DEF HM!Items, HC!Items, LM!Items, LC!Items, HC!ShownEntries, LC!ShownEntries
<1>2. MapsSound'
  <2>1. /\ HM!TableOK' = HM!TableOK /\ HM!LoadIsSizeByCapacity' = HM!LoadIsSizeByCapacity
        /\ HC!TableOK' = HC!TableOK /\ HC!LoadIsSizeByCapacity' = HC!LoadIsSizeByCapacity
        /\ HB!TableOK' = HB!TableOK /\ HB!LoadIsSizeByCapacity' = HB!LoadIsSizeByCapacity
    BY DEF HM!TableOK, HM!LoadIsSizeByCapacity, HC!TableOK, HC!M!TableOK,
           HC!LoadIsSizeByCapacity, HC!M!LoadIsSizeByCapacity, HB!TableOK,
           HB!LoadIsSizeByCapacity
  <2>2. LM!ListOK' = LM!ListOK /\ LC!ListOK' = LC!ListOK
    BY DEF LM!ListOK, LC!ListOK, LC!M!ListOK
  <2> QED
    BY <2>1, <2>2 DEF MapsSound
<1>3. HB!Items' = HB!Items
  BY DEF HB!Items
<1> QED
  BY <1>1, <1>2, <1>3 DEF StepIsDict, StepIsBag, HM!StepIsDict, HC!StepIsDict,
     LM!StepIsDict, LC!StepIsDict, HB!StepIsBag

-----------------------------------------------------------------------------
MapKinds == {"HashMap", "LListMap", "HashCSKMap", "LListCSKMap", "HashBag"}

\* No other object is a map or the bag.
LEMMA OtherMapKinds ==
  /\ Create /\ kind \in MapKinds => CreateMap
  /\ Call /\ kind \in MapKinds => CallMap
  /\ kind \notin MapKinds => MapsSound /\ StepIsDict /\ StepIsBag
BY DEF Create, Call, CreateLine, CallLine, CreatePrioQueue, CallPrioQueue, MapKinds,
       MapsSound, StepIsDict, StepIsBag

\* Every step leaves the private data of a map, or of the bag, well formed, and
\* is one of the dictionary, or of the multiset.
LEMMA MapsStep ==
  ASSUME MapsSound, [Next]_vars
  PROVE  MapsSound' /\ StepIsDict /\ StepIsBag
<1>1. CASE CallMethod /\ UNCHANGED kind /\ kind \in MapKinds
  <2>1. CallMap
    BY <1>1, OtherMapKinds DEF CallMethod
  <2> QED
    BY <1>1, <2>1, MapsCalled
<1>2. CASE UNCHANGED kind /\ kind \notin MapKinds
  <2>1. MapsSound'
    BY <1>2 DEF MapsSound, MapKinds
  <2> QED
    BY <1>2, <2>1, OtherMapKinds
<1>3. CASE Iterate /\ UNCHANGED kind
  BY <1>3, MapsLeft DEF Iterate
<1>4. CASE UNCHANGED vars
  BY <1>4, MapsLeft DEF vars
<1> QED
  BY <1>1, <1>2, <1>3, <1>4 DEF Next

\* What a map or the bag hashed is in its bucket, once per name in a map, and the
\* load that decides on a resize is size/capacity, through every growth of the
\* table (hashmap.c:78); the ring of a map on a list has every allocated node
\* once, backwards as forwards; the maps with string keys own the copies in
\* their entries and no other: their part of StructuresSound.
THEOREM MapsAreSound == Spec => []MapsSound
<1>1. Init => MapsSound
  BY MapsNew, OtherMapKinds DEF Init
<1>2. MapsSound /\ [Next]_vars => MapsSound'
  BY MapsStep
<1> QED
  BY <1>1, <1>2, PTL DEF Spec

\* All four maps implement one dictionary: each name has the value last put under
\* it, what is replaced, removed or cleared is freed once, and neither a resize
\* nor a call that fails for want of memory loses an entry, for any capacity, any
\* names and any values (map.h, cskmap.h).
THEOREM MapsStayDictionaries == Spec => MapsAreDictionaries
<1>1. MapsSound /\ [Next]_vars => [StepIsDict]_vars
  BY MapsStep
<1>2. Spec => [][StepIsDict]_vars
  BY <1>1, MapsAreSound, PTL DEF Spec
<1> QED
  BY <1>2 DEF MapsAreDictionaries

\* The bag implements a multiset: equal members are all kept and counted, remove
\* takes one of them, and a resize loses none (bag.h, hashbag.c), for any capacity.
THEOREM BagsStayMultisets == Spec => BagsAreMultisets
<1>1. MapsSound /\ [Next]_vars => [StepIsBag]_vars
  BY MapsStep
<1>2. Spec => [][StepIsBag]_vars
  BY <1>1, MapsAreSound, PTL DEF Spec
<1> QED
  BY <1>2 DEF BagsAreMultisets, StepIsBag

-----------------------------------------------------------------------------
(* Strings.                                                                *)

\* f is given by what it is at L, and at i by what it is at a later place.
Falls(f, L, base, next, turn) ==
  f = [i \in 0 .. L |-> IF i = L THEN base ELSE turn[<<i, f[next[i]]>>]]

\* A function that is defined by recursion from 0 to L exists.
LEMMA FallsExist ==
  ASSUME NEW S, NEW L \in Nat, NEW base \in S,
         NEW next \in [0 .. L - 1 -> 0 .. L], \A i \in 0 .. L - 1 : i < next[i],
         NEW turn \in [(0 .. L - 1) \X S -> S]
  PROVE  \E f \in [0 .. L -> S] : Falls(f, L, base, next, turn)
<1> DEFINE At(f, i) == f[i] = IF i = L THEN base ELSE turn[<<i, f[next[i]]>>]
           To(f, k) == \A i \in 0 .. L : L - i <= k => At(f, i)
           T == {k \in Nat : \E f \in [0 .. L -> S] : To(f, k)}
<1>1. 0 \in T
  <2> DEFINE f == [i \in 0 .. L |-> base]
  <2>1. f \in [0 .. L -> S] /\ f[L] = base
    OBVIOUS
  <2>2. To(f, 0)
    BY <2>1
  <2> QED
    BY <2>1, <2>2
<1>2. ASSUME NEW k \in T PROVE k + 1 \in T
  <2>1. k \in Nat /\ k + 1 \in Nat
    OBVIOUS
  <2>2. PICK f \in [0 .. L -> S] : To(f, k)
    OBVIOUS
  <2>3. CASE k + 1 > L
    <3>1. To(f, k + 1)
      BY <2>1, <2>2, <2>3
    <3> QED
      BY <2>1, <3>1
  <2>4. CASE k + 1 <= L
    <3> DEFINE m == L - (k + 1)
               e == turn[<<m, f[next[m]]>>]
               g == [f EXCEPT ![m] = e]
    <3>1. m \in 0 .. L - 1 /\ m \in 0 .. L /\ m # L /\ next[m] \in 0 .. L /\ m < next[m]
      BY <2>1, <2>4
    <3>2. e \in S
      BY <3>1
    <3> HIDE DEF e
    <3>3. /\ g \in [0 .. L -> S] /\ g[m] = e
          /\ \A i \in 0 .. L : i # m => g[i] = f[i]
      BY <3>1, <3>2
    <3>4. e = turn[<<m, f[next[m]]>>]
      BY DEF e
    <3> HIDE DEF g, m
    <3>5. ASSUME NEW i \in 0 .. L, L - i <= k + 1 PROVE At(g, i)
      <4>1. CASE i = m
        <5>1. g[next[m]] = f[next[m]]
          BY <3>1, <3>3
        <5> QED
          BY <4>1, <3>1, <3>3, <3>4, <5>1
      <4>2. CASE i # m
        <5>1. L - i <= k /\ i > m
          BY <2>1, <2>4, <3>5, <4>2 DEF m
        <5>2. At(f, i) /\ g[i] = f[i]
          BY <2>2, <3>3, <4>2, <5>1
        <5>3. CASE i = L
          BY <5>2, <5>3
        <5>4. CASE i # L
          <6>1. next[i] \in 0 .. L /\ i < next[i]
            BY <5>4
          <6>2. g[next[i]] = f[next[i]]
            BY <3>3, <5>1, <6>1, <3>1
          <6> QED
            BY <5>2, <5>4, <6>2
        <5> QED
          BY <5>3, <5>4
      <4> QED
        BY <4>1, <4>2
    <3> QED
      BY <2>1, <3>3, <3>5
  <2> QED
    BY <2>1, <2>3, <2>4
<1> HIDE DEF T
<1>3. T \in SUBSET Nat
  BY DEF T
<1>4. T = Nat
  BY <1>1, <1>2, <1>3, NatInduct
<1>5. L \in T
  BY <1>4
<1>6. PICK f \in [0 .. L -> S] : To(f, L)
  BY <1>5 DEF T
<1>7. \A i \in 0 .. L : At(f, i)
  BY <1>6
<1>8. f = [i \in 0 .. L |-> IF i = L THEN base ELSE turn[<<i, f[next[i]]>>]]
  BY <1>7
<1> QED
  BY <1>8 DEF Falls

\* The characters and the strings of Containers.
Chs == {"a", "A", " "}
Chars == Chs \cup SA!Letters
Strings == Seq(Chars)

\* From i on, of o characters of the text at most d more were made.
Grown(L, t, i, o, d) == o * (Len(t) - (L - i)) <= (L - i) * d

\* A match, or a character that is none, keeps the growth in proportion.
LEMMA GrownMore ==
  ASSUME NEW L \in Nat, NEW t \in Strings, NEW u \in Strings, NEW o \in Nat, NEW d \in Nat,
         NEW i \in 0 .. L, NEW m \in 0 .. L, i < m, Grown(L, t, m, o, d),
         \/ Len(u) = Len(t) + (m - i)
         \/ m = i + o /\ Len(u) <= Len(t) + o + d
  PROVE  Grown(L, u, i, o, d)
<1> DEFINE a == Len(t) - (L - m)
           b == Len(u) - (L - i)
           x == L - m
<1>1. a \in Int /\ b \in Int /\ x \in Nat /\ L - i = x + (m - i) /\ m - i \in Nat
  BY DEF Strings
<1>2. o * a <= x * d
  BY DEF Grown
<1>3. (x + (m - i)) * d = x * d + (m - i) * d /\ (m - i) * d >= 0 /\ x * d \in Int
  BY <1>1
<1>4. CASE Len(u) = Len(t) + (m - i)
  <2>1. b = a
    BY <1>4 DEF Strings
  <2>2. o * b <= (x + (m - i)) * d
    <3> HIDE DEF a, b, x
    <3> QED
      BY <1>1, <1>2, <1>3, <2>1
  <2> QED
    BY <1>1, <2>2 DEF Grown
<1>5. CASE m = i + o /\ Len(u) <= Len(t) + o + d
  <2>1. b <= a + d
    BY <1>5 DEF Strings
  <2>2. m - i = o
    BY <1>5
  <2>3. o * b <= (x + (m - i)) * d
    <3> HIDE DEF a, b, x
    <3>1. o * b <= o * (a + d)
      BY <1>1, <2>1
    <3>2. o * (a + d) = o * a + o * d
      BY <1>1
    <3> QED
      BY <1>1, <1>2, <1>3, <2>2, <3>1, <3>2
  <2> QED
    BY <1>1, <2>3 DEF Grown
<1> QED
  BY <1>4, <1>5

\* replace makes of each match what it is told to, and the text becomes longer
\* by no more than that times the matches that have room in it.
LEMMA ReplacedLen ==
  ASSUME NEW s \in Strings, NEW old \in Strings, NEW new \in Strings, old # <<>>,
         NEW d \in Nat, Len(new) <= Len(old) + d
  PROVE  /\ SA!Replaced(s, old, new) \in Strings
         /\ Grown(Len(s), SA!Replaced(s, old, new), 0, Len(old), d)
<1> DEFINE L == Len(s)
           o == Len(old)
           hit(i) == SA!Match(s, i, old)
           next == [i \in 0 .. L - 1 |-> IF hit(i) THEN i + o ELSE i + 1]
           part(i) == IF hit(i) THEN new ELSE <<s[i + 1]>>
           turn == [x \in (0 .. L - 1) \X Strings |-> part(x[1]) \o x[2]]
           E(f) == [i \in 0 .. L |->
                      IF i = L THEN <<>>
                      ELSE IF hit(i) THEN new \o f[i + o] ELSE <<s[i + 1]>> \o f[i + 1]]
           h == CHOOSE f : f = E(f)
<1>1. L \in Nat /\ o \in Nat \ {0}
  BY DEF Strings
<1>2. \A i \in 0 .. L - 1 : hit(i) => i + o <= L
  BY DEF SA!Match
<1>3. \A i \in 0 .. L - 1 : part(i) \in Strings /\ (~ hit(i) => Len(part(i)) = 1)
  <2>1. ASSUME NEW i \in 0 .. L - 1
        PROVE  <<s[i + 1]>> \in Strings /\ Len(<<s[i + 1]>>) = 1
    <3>1. s[i + 1] \in Chars
      BY <1>1 DEF Strings
    <3> QED
      BY <3>1, SingleElem DEF Strings
  <2> HIDE DEF hit
  <2> QED
    BY <2>1
<1>4. next \in [0 .. L - 1 -> 0 .. L] /\ \A i \in 0 .. L - 1 : i < next[i]
  <2> HIDE DEF hit
  <2> QED
    BY <1>1, <1>2
<1>5. turn \in [(0 .. L - 1) \X Strings -> Strings]
  <2> HIDE DEF part
  <2>1. \A i \in 0 .. L - 1, t \in Strings : part(i) \o t \in Strings
    BY <1>3 DEF Strings
  <2> QED
    BY <2>1
<1>6. <<>> \in Strings
  BY DEF Strings
<1>7. PICK f \in [0 .. L -> Strings] : Falls(f, L, <<>>, next, turn)
  <2> HIDE DEF next, turn, L
  <2> QED
    BY <1>1, <1>4, <1>5, <1>6, FallsExist
<1>8. \A i \in 0 .. L - 1 : turn[<<i, f[next[i]]>>] = part(i) \o f[next[i]]
  <2> HIDE DEF part, next
  <2> QED
    BY <1>4
<1>9. f = [i \in 0 .. L |-> IF i = L THEN <<>> ELSE turn[<<i, f[next[i]]>>]]
  BY <1>7 DEF Falls
<1>10. f = E(f)
  <2> HIDE DEF turn, hit
  <2>1. \A i \in 0 .. L - 1 : /\ hit(i) => turn[<<i, f[next[i]]>>] = new \o f[i + o]
                              /\ ~ hit(i) => turn[<<i, f[next[i]]>>] = <<s[i + 1]>> \o f[i + 1]
    BY <1>8
  <2> HIDE DEF next
  <2>2. \A i \in 0 .. L : i # L => i \in 0 .. L - 1
    BY <1>1
  <2>3. ASSUME NEW i \in 0 .. L
        PROVE  (IF i = L THEN <<>> ELSE turn[<<i, f[next[i]]>>])
                 = IF i = L THEN <<>>
                   ELSE IF hit(i) THEN new \o f[i + o] ELSE <<s[i + 1]>> \o f[i + 1]
    <3> HIDE DEF L
    <3>1. CASE i = L
      BY <3>1
    <3>2. CASE i # L
      BY <2>1, <2>2, <3>2
    <3> QED
      BY <3>1, <3>2
  <2>4. [i \in 0 .. L |-> IF i = L THEN <<>> ELSE turn[<<i, f[next[i]]>>]] = E(f)
    BY ONLY <2>3
  <2> QED
    BY <1>9, <2>4
<1>11. h = E(h)
  BY <1>10
<1>12. SA!Replaced(s, old, new) = h[0]
  BY DEF SA!Replaced
<1> DEFINE G(i) == h[i] \in Strings /\ Grown(L, h[i], i, o, d)
           T == {k \in Nat : \A i \in 0 .. L : L - i <= k => G(i)}
<1> HIDE DEF h
<1>13. h[L] = <<>> /\ \A i \in 0 .. L - 1 : h[i] = part(i) \o h[next[i]]
  <2> HIDE DEF hit
  <2>1. h[L] = <<>>
    BY <1>1, <1>11
  <2>2. ASSUME NEW i \in 0 .. L - 1
        PROVE  h[i] = IF hit(i) THEN new \o h[i + o] ELSE <<s[i + 1]>> \o h[i + 1]
    <3>1. i \in 0 .. L /\ i # L
      BY <1>1
    <3>2. E(h)[i] = IF hit(i) THEN new \o h[i + o] ELSE <<s[i + 1]>> \o h[i + 1]
      <4> HIDE DEF L
      <4> QED
        BY ONLY <3>1
    <3> HIDE DEF E
    <3> QED
      BY <1>11, <3>2
  <2> HIDE DEF E
  <2> QED
    BY <2>1, <2>2
<1>14. ASSUME NEW i \in 0 .. L - 1, G(next[i]) PROVE G(i)
  <2> DEFINE t == h[next[i]]
             u == h[i]
             m == next[i]
  <2>1. m \in 0 .. L /\ i < m /\ i \in 0 .. L /\ part(i) \in Strings /\ u = part(i) \o t
    <3> HIDE DEF next, part, hit, turn, E, L
    <3>1. m \in 0 .. L /\ i < m
      BY <1>4
    <3>2. i \in 0 .. L
      BY <1>1
    <3>3. part(i) \in Strings
      BY <1>3
    <3>4. u = part(i) \o t
      BY <1>13
    <3> QED
      BY <3>1, <3>2, <3>3, <3>4
  <2>2. t \in Strings /\ Grown(L, t, m, o, d)
    BY <1>14
  <2>3. u \in Strings /\ Len(u) = Len(part(i)) + Len(t) /\ Len(t) \in Nat
    <3> HIDE DEF part, t, u
    <3> QED
      BY <2>1, <2>2 DEF Strings
  <2>4. \/ Len(u) = Len(t) + (m - i)
        \/ m = i + o /\ Len(u) <= Len(t) + o + d
    <3>1. CASE hit(i)
      <4>1. m = i + o /\ part(i) = new
        BY <3>1
      <4>2. Len(part(i)) <= o + d /\ Len(part(i)) \in Nat
        <5> HIDE DEF part, hit, next
        <5> QED
          BY <4>1 DEF Strings
      <4> HIDE DEF part, t, u, hit, m, o
      <4> QED
        BY <4>1, <4>2, <2>3, <1>1
    <3>2. CASE ~ hit(i)
      <4>1. m = i + 1 /\ Len(part(i)) = 1
        BY <3>2, <1>3
      <4> HIDE DEF part, t, u, hit, m
      <4> QED
        BY <4>1, <2>3
    <3> QED
      BY <3>1, <3>2
  <2>5. Grown(L, u, i, o, d)
    <3> HIDE DEF t, u, m, L, o
    <3> QED
      BY <1>1, <2>1, <2>2, <2>3, <2>4, GrownMore
  <2> QED
    BY <2>3, <2>5
<1>15. G(L)
  BY <1>1, <1>6, <1>13 DEF Grown
<1> HIDE DEF G, next
<1>16. 0 \in T
  BY <1>1, <1>15
<1>17. ASSUME NEW k \in T PROVE k + 1 \in T
  <2>1. ASSUME NEW i \in 0 .. L, L - i <= k + 1 PROVE G(i)
    <3>1. CASE i = L
      BY <3>1, <1>15
    <3>2. CASE i # L
      <4>1. i \in 0 .. L - 1
        BY <1>1, <3>2
      <4>2. next[i] \in 0 .. L /\ i < next[i]
        BY <1>4, <4>1
      <4>3. L - next[i] <= k
        BY <4>2, <2>1, <1>1
      <4> QED
        BY <4>1, <4>2, <4>3, <1>14
    <3> QED
      BY <3>1, <3>2
  <2> QED
    BY <2>1
<1> HIDE DEF T
<1>18. T \in SUBSET Nat
  BY DEF T
<1>19. T = Nat
  BY <1>16, <1>17, <1>18, NatInduct
<1>20. L \in T
  BY <1>1, <1>19
<1>21. G(0)
  BY <1>1, <1>20 DEF T
<1> QED
  BY <1>12, <1>21 DEF G

\* A string whose text is in its buffer.
Buffer(std) ==
  /\ std \in [text : Strings, length : Nat, size : Nat, alloc : Nat]
  /\ std.length = Len(std.text)
  /\ std.length + 1 <= std.size
  /\ std.alloc <= std.size
  /\ std.alloc = std.size => Len(std.text) + 1 <= std.alloc

\* BufferOK, as the model and as the lemmas say it.
LEMMA BufferIs == /\ SA!BufferOK <=> Buffer(self)
                  /\ SA!BufferOK' <=> Buffer(self')
BY DEF SA!BufferOK, Buffer, Strings, Chars, Chs, SA!Fits

\* What holds of a multiple holds of one more than its quotient.
LEMMA TimesMore ==
  ASSUME NEW o \in Nat \ {0}, NEW e \in Int, NEW L \in Nat, NEW d \in Nat, o * e <= L * d
  PROVE  e <= (L \div o + 1) * d /\ L \div o + 1 \in Nat
<1> DEFINE n == L \div o + 1
<1>1. n \in Nat /\ L < o * n
  <2>1. L \div o \in Nat /\ L = o * (L \div o) + (L % o) /\ L % o \in 0 .. o - 1
    OBVIOUS
  <2>2. o * n = o * (L \div o) + o
    BY <2>1
  <2> QED
    BY <2>1, <2>2
<1> HIDE DEF n
<1>2. L * d <= (o * n) * d
  BY <1>1
<1>3. (o * n) * d = o * (n * d) /\ n * d \in Int
  BY <1>1
<1>4. o * e <= o * (n * d)
  BY <1>2, <1>3
<1>5. e <= n * d
  <2> DEFINE q == n * d
  <2>1. q \in Int /\ o * e <= o * q
    BY <1>3, <1>4
  <2> HIDE DEF q
  <2>2. e <= q
    BY <2>1
  <2> QED
    BY <2>2 DEF q
<1> QED
  BY <1>1, <1>5 DEF n

\* The size replace asks for, as a fact about numbers.
LEMMA RoomIs ==
  ASSUME NEW a \in Int, NEW b \in Int, NEW c \in Int, NEW L \in Nat, NEW len \in Nat,
         NEW z \in Nat, NEW size, len - L <= c, L + 1 <= z, c = b - a \/ c = 0,
         size = IF z - a + b < z THEN z ELSE z - a + b
  PROVE  size \in Nat /\ len + 1 <= size
OBVIOUS

\* The room that replace asks for is enough.
LEMMA NewSizeIsEnough ==
  ASSUME NEW std, Buffer(std), NEW old \in Strings, NEW new \in Strings, old # <<>>
  PROVE  LET s == SA!Replaced(std.text, old, new)
             size == SA!NewSize(std, Len(old), Len(new))
         IN s \in Strings /\ size \in Nat /\ Len(s) + 1 <= size
<1> DEFINE s == SA!Replaced(std.text, old, new)
           o == Len(old)
           n == Len(new)
           L == std.length
           d == IF n > o THEN n - o ELSE 0
           k == L \div o + 1
<1>1. /\ std.text \in Strings /\ L = Len(std.text) /\ L \in Nat /\ std.size \in Nat
      /\ L + 1 <= std.size /\ o \in Nat \ {0} /\ n \in Nat
  BY DEF Buffer, Strings
<1>2. d \in Nat /\ n <= o + d
  BY <1>1
<1>3. s \in Strings /\ Grown(L, s, 0, o, d)
  <2> HIDE DEF d
  <2> QED
    BY <1>1, <1>2, ReplacedLen
<1>4. Len(s) \in Nat
  BY <1>3 DEF Strings
<1>5. o * (Len(s) - L) <= L * d
  <2> HIDE DEF o, d, L, s
  <2>1. o * (Len(s) - (L - 0)) <= (L - 0) * d /\ L - 0 = L
    BY <1>1, <1>3 DEF Grown
  <2> QED
    BY <2>1
<1>6. Len(s) - L <= k * d /\ k \in Nat
  <2> DEFINE e == Len(s) - L
  <2>1. o * e <= L * d
    BY <1>5
  <2> HIDE DEF d, L, o, s
  <2>3. e \in Int
    BY <1>1, <1>4
  <2> HIDE DEF e
  <2>2. e <= k * d /\ k \in Nat
    BY <1>1, <1>2, <2>1, <2>3, TimesMore
  <2> QED
    BY <2>2 DEF e
<1>7. k \in Nat
  BY <1>6
<1>8. SA!NewSize(std, o, n) = IF std.size - k * o + k * n < std.size THEN std.size
                              ELSE std.size - k * o + k * n
  BY DEF SA!NewSize
<1> HIDE DEF k, s
<1>9. /\ k * n \in Int /\ k * o \in Int /\ k * d \in Int
      /\ k * d = k * n - k * o \/ k * d = 0
  <2>1. d = n - o \/ d = 0
    OBVIOUS
  <2> HIDE DEF d, n, o
  <2> QED
    BY <1>1, <1>2, <1>7, <2>1
<1> DEFINE a == k * o
           b == k * n
           c == k * d
           z == std.size
           len == Len(s)
           size == SA!NewSize(std, o, n)
<1>10. /\ a \in Int /\ b \in Int /\ c \in Int /\ L \in Nat /\ len \in Nat /\ z \in Nat
       /\ c = b - a \/ c = 0
  BY <1>1, <1>4, <1>9
<1>11. len - L <= c /\ L + 1 <= z /\ size = IF z - a + b < z THEN z ELSE z - a + b
  BY <1>1, <1>6, <1>8
<1> HIDE DEF a, b, c, z, len, size, L, o, n
<1>12. size \in Nat /\ len + 1 <= size
  BY <1>10, <1>11, RoomIs
<1> QED
  BY <1>3, <1>12 DEF size, len, s, o, n

\* The white space at the start of a text ends somewhere.
LEMMA SkippedIs ==
  ASSUME NEW s \in Strings
  PROVE  /\ SA!Skipped(s) \in 0 .. Len(s)
         /\ \A j \in 1 .. SA!Skipped(s) : SA!IsSpace(s[j])
         /\ SA!Skipped(s) = Len(s) \/ ~ SA!IsSpace(s[SA!Skipped(s) + 1])
<1> DEFINE P(i) == /\ \A j \in 1 .. i : SA!IsSpace(s[j])
                   /\ i = Len(s) \/ ~ SA!IsSpace(s[i + 1])
           T == {i \in Nat : i = Len(s) \/ (i < Len(s) /\ ~ SA!IsSpace(s[i + 1]))}
<1>1. Len(s) \in Nat
  BY DEF Strings
<1>2. PICK n \in T : \A m \in T : n <= m
  <2>1. Len(s) \in T /\ T \in SUBSET Nat
    BY <1>1
  <2> HIDE DEF T
  <2> QED
    BY <2>1, NatLeast
<1>3. n \in 0 .. Len(s) /\ P(n)
  <2>1. n \in 0 .. Len(s) /\ (n = Len(s) \/ ~ SA!IsSpace(s[n + 1]))
    BY <1>1, <1>2
  <2>2. ASSUME NEW j \in 1 .. n PROVE SA!IsSpace(s[j])
    <3>1. j - 1 \in Nat /\ j - 1 < n /\ j - 1 < Len(s) /\ (j - 1) + 1 = j
      BY <1>1, <2>1
    <3>2. j - 1 \notin T
      BY <1>2, <3>1
    <3> QED
      BY <3>1, <3>2
  <2> QED
    BY <2>1, <2>2
<1>4. SA!Skipped(s) = CHOOSE i \in 0 .. Len(s) : P(i)
  BY DEF SA!Skipped
<1> HIDE DEF P
<1>5. SA!Skipped(s) \in 0 .. Len(s) /\ P(SA!Skipped(s))
  BY <1>3, <1>4
<1> QED
  BY <1>5 DEF P

\* The white space at the end of a text starts somewhere.
LEMMA KeptIs ==
  ASSUME NEW s \in Strings
  PROVE  /\ SA!Kept(s) \in 0 .. Len(s)
         /\ \A j \in SA!Kept(s) + 1 .. Len(s) : SA!IsSpace(s[j])
         /\ SA!Kept(s) = 0 \/ ~ SA!IsSpace(s[SA!Kept(s)])
<1> DEFINE P(i) == /\ \A j \in i + 1 .. Len(s) : SA!IsSpace(s[j])
                   /\ i = 0 \/ ~ SA!IsSpace(s[i])
           L == Len(s)
           T == {i \in Nat : i = L \/ (i < L /\ ~ SA!IsSpace(s[L - i]))}
<1>1. L \in Nat
  BY DEF Strings
<1>2. PICK n \in T : \A m \in T : n <= m
  <2>1. L \in T /\ T \in SUBSET Nat
    BY <1>1
  <2> HIDE DEF T
  <2> QED
    BY <2>1, NatLeast
<1>3. L - n \in 0 .. L /\ P(L - n)
  <2>1. L - n \in 0 .. L /\ (L - n = 0 \/ ~ SA!IsSpace(s[L - n]))
    BY <1>1, <1>2
  <2>2. ASSUME NEW j \in (L - n) + 1 .. L PROVE SA!IsSpace(s[j])
    <3>1. L - j \in Nat /\ L - j < n /\ L - j < L /\ L - (L - j) = j
      BY <1>1, <2>1
    <3>2. L - j \notin T
      BY <1>2, <3>1
    <3> QED
      BY <3>1, <3>2
  <2> QED
    BY <2>1, <2>2
<1>4. SA!Kept(s) = CHOOSE i \in 0 .. L : P(i)
  BY DEF SA!Kept
<1> HIDE DEF P
<1>5. SA!Kept(s) \in 0 .. L /\ P(SA!Kept(s))
  BY <1>3, <1>4
<1> QED
  BY <1>5 DEF P

\* What clients pass to the methods.
Passed == {<<>>, <<"a">>, <<" ">>, <<"a", "a">>, <<"A", " ">>}

\* What clients pass are strings.
LEMMA PassedIs == Passed \subseteq Strings
<1>1. "a" \in Chars /\ "A" \in Chars /\ " " \in Chars
  BY DEF Chars, Chs
<1>2. ASSUME NEW S, NEW x \in S, NEW y \in S
      PROVE  <<>> \in Seq(S) /\ <<x>> \in Seq(S) /\ <<x, y>> \in Seq(S)
  OBVIOUS
<1>3. <<>> \in Strings /\ <<"a">> \in Strings /\ <<" ">> \in Strings
  BY <1>1, <1>2 DEF Strings
<1>4. <<"a", "a">> \in Strings /\ <<"A", " ">> \in Strings
  BY <1>1, <1>2 DEF Strings
<1> QED
  BY <1>3, <1>4 DEF Passed

\* A part of a string is a string, as long as its bounds say.
LEMMA SubIs ==
  ASSUME NEW s \in Strings, NEW begin \in Nat, NEW end \in Nat, begin <= end, end <= Len(s)
  PROVE  SA!Sub(s, begin, end) \in Strings /\ Len(SA!Sub(s, begin, end)) = end - begin
<1>1. begin + 1 \in Nat \ {0} /\ end - (begin + 1) + 1 = end - begin /\ begin + 1 <= end + 1
  OBVIOUS
<1> QED
  BY <1>1, SubElems DEF SA!Sub, Strings

\* A string in a buffer of its size.
LEMMA NewStringIs ==
  ASSUME NEW s \in Strings
  PROVE  Buffer(SA!NewString(s))
BY DEF Buffer, SA!NewString, Strings

\* A text that is no longer than before has room.
LEMMA ShorterFits ==
  ASSUME NEW std, Buffer(std), NEW s \in Strings, Len(s) <= Len(std.text), NEW new,
         new = [std EXCEPT !.text = s, !.length = Len(s)]
  PROVE  Buffer(new)
<1>1. Len(s) \in Nat
  BY DEF Strings
<1>2. std \in [text : Strings, length : Nat, size : Nat, alloc : Nat]
  BY DEF Buffer
<1>3. /\ new \in [text : Strings, length : Nat, size : Nat, alloc : Nat]
      /\ new.text = s /\ new.length = Len(s) /\ new.size = std.size /\ new.alloc = std.alloc
  BY <1>1, <1>2
<1> QED
  BY <1>1, <1>2, <1>3 DEF Buffer

\* There is room for n characters after WithRoom.
LEMMA RoomFits ==
  ASSUME NEW std, Buffer(std), NEW t \in Strings, NEW n \in Nat, Len(t) = std.length + n,
         std.length + n + 1 <= std.size, NEW new,
         new = [std EXCEPT !.text = t, !.length = Len(t)]
  PROVE  Buffer(new)
<1>1. Len(t) \in Nat
  BY DEF Strings
<1>2. std \in [text : Strings, length : Nat, size : Nat, alloc : Nat]
  BY DEF Buffer
<1>3. /\ new \in [text : Strings, length : Nat, size : Nat, alloc : Nat]
      /\ new.text = t /\ new.length = Len(t) /\ new.size = std.size /\ new.alloc = std.alloc
  BY <1>1, <1>2
<1> QED
  BY <1>1, <1>2, <1>3 DEF Buffer

\* A buffer that was grown, or not, has the room that was asked for.
LEMMA WithRoomIs ==
  ASSUME Buffer(self), NEW n \in Nat, NEW std \in SA!WithRoom(n)
  PROVE  /\ Buffer(std) /\ std.text = self.text /\ std.length = self.length
         /\ std.length + n + 1 <= std.size
<1>1. self \in [text : Strings, length : Nat, size : Nat, alloc : Nat] /\ INCREMENT \in Nat
  BY ClientAssumption DEF Buffer
<1> DEFINE size == self.size + IF n > INCREMENT THEN n ELSE INCREMENT
<1>2. \/ std = self /\ self.length + n + 1 <= self.size
      \/ std = [self EXCEPT !.size = size, !.alloc = size]
  BY DEF SA!WithRoom
<1>3. CASE std = self /\ self.length + n + 1 <= self.size
  BY <1>3
<1>4. CASE std = [self EXCEPT !.size = size, !.alloc = size]
  <2>1. size \in Nat /\ self.size + n <= size
    BY <1>1
  <2> HIDE DEF size
  <2>2. /\ std \in [text : Strings, length : Nat, size : Nat, alloc : Nat]
        /\ std.text = self.text /\ std.length = self.length
        /\ std.size = size /\ std.alloc = size
    BY <1>1, <1>4, <2>1
  <2>3. self.length = Len(self.text) /\ self.length + 1 <= self.size
    BY DEF Buffer
  <2> QED
    BY <1>1, <2>1, <2>2, <2>3 DEF Buffer
<1> QED
  BY <1>2, <1>3, <1>4

\* The methods that put a text of their own into the buffer.
LEMMA ChangedFits ==
  ASSUME Buffer(self), NEW s \in Strings, Len(s) <= Len(self.text), NEW op,
         SA!Changed(op, s)
  PROVE  Buffer(self')
BY ShorterFits DEF SA!Changed

\* A string left alone fits its buffer.
LEMMA SameFits ==
  ASSUME Buffer(self), UNCHANGED self
  PROVE  Buffer(self')
<1>1. self' = self
  OBVIOUS
<1> QED
  BY <1>1 DEF Buffer

\* A copy has the size of its original and room for its text.
LEMMA CopyIs ==
  ASSUME NEW std, Buffer(std), NEW t \in Strings, Len(t) = std.length, NEW new,
         new = [std EXCEPT !.text = t, !.alloc = std.length + 1]
  PROVE  Buffer(new)
<1>1. std \in [text : Strings, length : Nat, size : Nat, alloc : Nat] /\ std.length + 1 <= std.size
  BY DEF Buffer
<1> DEFINE a == std.length + 1
<1>2. a \in Nat
  BY <1>1
<1> HIDE DEF a
<1>3. new = [std EXCEPT !.text = t, !.alloc = a]
  BY DEF a
<1>4. /\ new \in [text : Strings, length : Nat, size : Nat, alloc : Nat]
      /\ new.text = t /\ new.length = std.length /\ new.size = std.size /\ new.alloc = a
  BY <1>1, <1>2, <1>3
<1> QED
  BY <1>1, <1>4 DEF Buffer, a

\* copy.
LEMMA CopyFits ==
  ASSUME Buffer(self), SA!Copy
  PROVE  Buffer(self')
<1>1. /\ self \in [text : Strings, length : Nat, size : Nat, alloc : Nat]
      /\ self.length = Len(self.text) /\ self.length + 1 <= self.size
  BY DEF Buffer
<1>2. CASE UNCHANGED self
  BY <1>2, SameFits
<1>3. CASE self' = [self EXCEPT !.text = SA!Sub(@, 0, self.length), !.alloc = self.length + 1]
  <2> DEFINE t == SA!Sub(self.text, 0, self.length)
             n == self.length
  <2>1. n \in Nat /\ 0 \in Nat /\ 0 <= n /\ n <= Len(self.text) /\ self.text \in Strings
    BY <1>1
  <2>2. t \in Strings /\ Len(t) = n - 0
    <3> HIDE DEF n
    <3>1. SA!Sub(self.text, 0, n) \in Strings /\ Len(SA!Sub(self.text, 0, n)) = n - 0
      BY <2>1, SubIs
    <3> QED
      BY <3>1 DEF n
  <2>3. self' = [self EXCEPT !.text = t, !.alloc = n + 1]
    BY <1>1, <1>3
  <2>4. Len(t) = self.length
    BY <2>1, <2>2
  <2> HIDE DEF t
  <2> QED
    BY <2>2, <2>3, <2>4, CopyIs
<1> QED
  BY <1>2, <1>3 DEF SA!Copy

\* slice.
LEMMA SliceFits ==
  ASSUME Buffer(self), NEW begin \in Int, NEW end \in Nat, SA!Slice(begin, end)
  PROVE  Buffer(self')
<1>1. self.text \in Strings /\ self.length = Len(self.text) /\ self.length \in Nat
  BY DEF Buffer
<1>2. CASE UNCHANGED self
  BY <1>2, SameFits
<1>3. CASE /\ begin >= 0 /\ SA!End(end) <= self.length /\ begin < SA!End(end)
           /\ self' = SA!NewString(SA!Sub(self.text, begin, SA!End(end)))
  <2>1. SA!End(end) \in Nat
    BY <1>1 DEF SA!End
  <2>2. SA!Sub(self.text, begin, SA!End(end)) \in Strings
    BY <1>1, <1>3, <2>1, SubIs
  <2> QED
    BY <1>3, <2>2, NewStringIs
<1> QED
  BY <1>2, <1>3 DEF SA!Slice

\* append.
LEMMA SuffixedFits ==
  ASSUME Buffer(self), NEW suffix \in Strings, SA!Suffixed(suffix)
  PROVE  Buffer(self')
<1>1. CASE UNCHANGED self
  BY <1>1, SameFits
<1>2. CASE \E std \in SA!WithRoom(Len(suffix)) :
             self' = [std EXCEPT !.text = @ \o suffix, !.length = Len(std.text \o suffix)]
  <2>1. PICK std \in SA!WithRoom(Len(suffix)) :
             self' = [std EXCEPT !.text = @ \o suffix, !.length = Len(std.text \o suffix)]
    BY <1>2
  <2> DEFINE n == Len(suffix)
             t == std.text \o suffix
  <2>2. n \in Nat
    BY DEF Strings
  <2>3. /\ Buffer(std) /\ std.text = self.text /\ std.length = self.length
        /\ std.length + n + 1 <= std.size
    <3> HIDE DEF n
    <3>1. std \in SA!WithRoom(n)
      BY DEF n
    <3> QED
      BY <2>2, <3>1, WithRoomIs
  <2>4. std.text \in Strings /\ std.length = Len(std.text)
        /\ std \in [text : Strings, length : Nat, size : Nat, alloc : Nat]
    BY <2>3 DEF Buffer
  <2>5. t \in Strings /\ Len(t) = std.length + n
    BY <2>4, ConcatElems DEF Strings
  <2>6. self' = [std EXCEPT !.text = t, !.length = Len(t)]
    BY <2>1, <2>4
  <2> HIDE DEF n, t
  <2> QED
    BY <2>2, <2>3, <2>5, <2>6, RoomFits
<1> QED
  BY <1>1, <1>2 DEF SA!Suffixed, SA!NoRoom

\* insert.
LEMMA InsertFits ==
  ASSUME Buffer(self), NEW substr \in Strings, NEW index \in Int, SA!Insert(substr, index)
  PROVE  Buffer(self')
<1> DEFINE n == Len(substr)
           Up(std) == SA!Sub(std.text, 0, index) \o substr
                        \o SA!Sub(std.text, index, Len(std.text))
<1>1. CASE UNCHANGED self
  BY <1>1, SameFits
<1>2. CASE /\ index >= 0 /\ index <= self.length
           /\ \E std \in SA!WithRoom(n) :
                self' = [std EXCEPT !.text = Up(std), !.length = std.length + n]
  <2>1. PICK std \in SA!WithRoom(n) :
          self' = [std EXCEPT !.text = Up(std), !.length = std.length + n]
    BY <1>2
  <2> DEFINE head == SA!Sub(std.text, 0, index)
             tail == SA!Sub(std.text, index, Len(std.text))
             t == Up(std)
  <2>2. n \in Nat
    BY DEF Strings
  <2>3. /\ Buffer(std) /\ std.text = self.text /\ std.length = self.length
        /\ std.length + n + 1 <= std.size
    <3> HIDE DEF n
    <3> QED
      BY <2>2, <2>1, WithRoomIs
  <2>4. std.text \in Strings /\ std.length = Len(std.text) /\ std.length \in Nat
    BY <2>3 DEF Buffer
  <2>5. index \in Nat /\ index <= Len(std.text) /\ 0 <= index /\ 0 \in Nat
        /\ Len(std.text) \in Nat
    BY <1>2, <2>3, <2>4
  <2>6. head \in Strings /\ Len(head) = index - 0
    BY <2>4, <2>5, SubIs
  <2>7. tail \in Strings /\ Len(tail) = Len(std.text) - index
    <3> DEFINE L == Len(std.text)
    <3>1. L \in Nat /\ L <= Len(std.text) /\ index <= L /\ index \in Nat
      BY <2>5
    <3> HIDE DEF L
    <3>2. SA!Sub(std.text, index, L) \in Strings /\ Len(SA!Sub(std.text, index, L)) = L - index
      BY <2>4, <3>1, SubIs
    <3> QED
      BY <3>2 DEF L
  <2>8. t = head \o substr \o tail
    OBVIOUS
  <2> HIDE DEF head, tail, Up
  <2>9. head \o substr \in Strings /\ Len(head \o substr) = Len(head) + n
    BY <2>6, ConcatElems DEF Strings
  <2>10. /\ (head \o substr) \o tail \in Strings
         /\ Len((head \o substr) \o tail) = Len(head \o substr) + Len(tail)
    <3> DEFINE u == head \o substr
    <3>1. u \in Strings
      BY <2>9
    <3> HIDE DEF u
    <3>2. u \o tail \in Strings /\ Len(u \o tail) = Len(u) + Len(tail)
      BY <2>7, <3>1, ConcatElems DEF Strings
    <3> QED
      BY <3>2 DEF u
  <2> HIDE DEF t
  <2>11. t \in Strings /\ Len(t) = std.length + n
    <3>1. t \in Strings /\ Len(t) = (index - 0) + n + (Len(std.text) - index)
      BY <2>6, <2>7, <2>8, <2>9, <2>10
    <3> HIDE DEF n
    <3>2. (index - 0) + n + (Len(std.text) - index) = Len(std.text) + n
      <4>1. \A a, b, c \in Nat : (a - 0) + b + (c - a) = c + b
        OBVIOUS
      <4> QED
        BY ONLY <2>2, <2>5, <4>1
    <3> QED
      BY <2>4, <3>1, <3>2
  <2>12. self' = [std EXCEPT !.text = t, !.length = Len(t)]
    BY <2>1, <2>11 DEF t
  <2> HIDE DEF n
  <2> QED
    BY <2>2, <2>3, <2>11, <2>12, RoomFits
<1> QED
  BY <1>1, <1>2 DEF SA!Insert, SA!NoRoom

\* assign.
LEMMA AssignFits ==
  ASSUME Buffer(self), NEW chr \in Chs, NEW index \in Int, SA!Assign(chr, index)
  PROVE  Buffer(self')
<1>1. CASE UNCHANGED self
  BY <1>1, SameFits
<1>2. CASE SA!Legal(index) /\ self' = [self EXCEPT !.text[index + 1] = chr]
  <2> DEFINE t == [self.text EXCEPT ![index + 1] = chr]
  <2>1. self \in [text : Strings, length : Nat, size : Nat, alloc : Nat]
        /\ self.length = Len(self.text)
    BY DEF Buffer
  <2>2. chr \in Chars
    BY DEF Chars
  <2>3. t \in Strings /\ Len(t) = Len(self.text)
    <3>1. index + 1 \in 1 .. Len(self.text) /\ self.text \in Strings
      BY <1>2, <2>1 DEF SA!Legal
    <3>2. ASSUME NEW s \in Strings, NEW i \in 1 .. Len(s), NEW c \in Chars
          PROVE  [s EXCEPT ![i] = c] \in Strings /\ Len([s EXCEPT ![i] = c]) = Len(s)
      BY DEF Strings
    <3> HIDE DEF t
    <3>3. t = [self.text EXCEPT ![index + 1] = chr]
      BY DEF t
    <3> QED
      BY <2>2, <3>1, <3>2, <3>3
  <2>4. self' = [self EXCEPT !.text = t, !.length = Len(t)]
    <3>1. self' = [self EXCEPT !.text = t]
      BY <1>2
    <3> HIDE DEF t
    <3> QED
      BY <2>1, <2>3, <3>1
  <2> HIDE DEF t
  <2>5. Len(t) <= Len(self.text)
    BY <2>1, <2>3 DEF Strings
  <2> QED
    BY <2>3, <2>4, <2>5, ShorterFits
<1> QED
  BY <1>1, <1>2 DEF SA!Assign

\* remove.
LEMMA RemoveFits ==
  ASSUME Buffer(self), NEW index \in Int, SA!Remove(index)
  PROVE  Buffer(self')
<1>1. CASE UNCHANGED self
  BY <1>1, SameFits
<1>2. CASE /\ SA!Legal(index)
           /\ self' = [self EXCEPT
                !.text = SA!Sub(@, 0, index) \o SA!Sub(@, index + 1, self.length),
                !.length = @ - 1]
  <2> DEFINE s == self.text
             L == self.length
             head == SA!Sub(s, 0, index)
             tail == SA!Sub(s, index + 1, L)
             t == head \o tail
  <2>1. self \in [text : Strings, length : Nat, size : Nat, alloc : Nat]
        /\ L = Len(s) /\ s \in Strings /\ L \in Nat
    BY DEF Buffer
  <2>2. index \in Nat /\ index + 1 \in Nat /\ index + 1 <= L /\ index <= Len(s) /\ 0 <= index
        /\ L <= Len(s) /\ 0 \in Nat
    BY <1>2, <2>1 DEF SA!Legal
  <2>3. head \in Strings /\ Len(head) = index - 0
    <3> HIDE DEF s
    <3> QED
      BY <2>1, <2>2, SubIs
  <2>4. tail \in Strings /\ Len(tail) = L - (index + 1)
    <3> HIDE DEF s, L
    <3> QED
      BY <2>1, <2>2, SubIs
  <2>5. self' = [self EXCEPT !.text = t, !.length = L - 1]
    BY <1>2, <2>1
  <2> HIDE DEF head, tail
  <2>6. t \in Strings /\ Len(t) = Len(head) + Len(tail)
    BY <2>3, <2>4, ConcatElems DEF Strings
  <2> HIDE DEF t
  <2>7. Len(t) = L - 1 /\ Len(t) <= Len(self.text)
    BY <2>1, <2>2, <2>3, <2>4, <2>6
  <2>8. self' = [self EXCEPT !.text = t, !.length = Len(t)]
    BY <2>5, <2>7
  <2> QED
    BY <2>6, <2>7, <2>8, ShorterFits
<1> QED
  BY <1>1, <1>2 DEF SA!Remove

\* lower and upper.
LEMMA CaseFits ==
  ASSUME Buffer(self), SA!Lower \/ SA!Upper
  PROVE  Buffer(self')
<1> DEFINE s == self.text
           low == [i \in DOMAIN s |-> SA!ToLower(s[i])]
           up == [i \in DOMAIN s |-> SA!ToUpper(s[i])]
<1>1. s \in Strings /\ Len(s) \in Nat
  BY DEF Buffer, Strings
<1> HIDE DEF s
<1>2. \A c \in Chars : SA!ToLower(c) \in Chars /\ SA!ToUpper(c) \in Chars
  BY DEF Chars, SA!Letters, SA!ToLower, SA!ToUpper
<1>3. \A i \in DOMAIN s : low[i] \in Chars /\ up[i] \in Chars
  <2>1. \A i \in DOMAIN s : s[i] \in Chars
    BY <1>1 DEF Strings
  <2> QED
    BY <1>2, <2>1
<1>4. low \in Strings /\ Len(low) = Len(s) /\ up \in Strings /\ Len(up) = Len(s)
  BY <1>1, <1>3 DEF Strings
<1>5. SA!Changed("lower", low) \/ SA!Changed("upper", up)
  BY DEF SA!Lower, SA!Upper, s
<1> HIDE DEF low, up
<1>6. Len(low) <= Len(self.text) /\ Len(up) <= Len(self.text)
  BY <1>1, <1>4 DEF s
<1> QED
  BY <1>4, <1>5, <1>6, ChangedFits

\* translate.
LEMMA TranslateFits ==
  ASSUME Buffer(self), NEW class, NEW chr \in Chs, SA!Translate(class, chr)
  PROVE  Buffer(self')
<1> DEFINE s == self.text
           To(c) == IF class \in DOMAIN SA!ClassFuncs /\ c \in SA!ClassFuncs[class]
                    THEN chr ELSE c
           t == [i \in DOMAIN s |-> To(s[i])]
<1>1. s \in Strings /\ Len(s) \in Nat /\ chr \in Chars
  BY DEF Buffer, Strings, Chars
<1>2. SA!Changed("translate", t)
  BY DEF SA!Translate
<1> HIDE DEF s
<1>3. \A i \in DOMAIN s : To(s[i]) \in Chars
  <2>1. \A i \in DOMAIN s : s[i] \in Chars
    BY <1>1 DEF Strings
  <2> QED
    BY <1>1, <2>1
<1> HIDE DEF To
<1>4. t \in Strings /\ Len(t) = Len(s)
  BY <1>1, <1>3 DEF Strings
<1> HIDE DEF t
<1>5. Len(t) <= Len(self.text)
  BY <1>1, <1>4 DEF s
<1> QED
  BY <1>2, <1>4, <1>5, ChangedFits

\* A stripped text is no longer than it was.
LEMMA StrippedIs ==
  ASSUME NEW s \in Strings
  PROVE  /\ SA!LStripped(s) \in Strings /\ Len(SA!LStripped(s)) <= Len(s)
         /\ SA!RStripped(s) \in Strings /\ Len(SA!RStripped(s)) <= Len(s)
         /\ Len(SA!LStripped(s)) \in Nat /\ Len(SA!RStripped(s)) \in Nat
<1>1. Len(s) \in Nat /\ SA!Skipped(s) \in 0 .. Len(s) /\ SA!Kept(s) \in 0 .. Len(s)
  BY SkippedIs, KeptIs DEF Strings
<1> DEFINE i == SA!Skipped(s)
           j == SA!Kept(s)
           L == Len(s)
<1>2. /\ i \in Nat /\ i <= L /\ L \in Nat /\ L <= Len(s)
      /\ j \in Nat /\ j <= Len(s) /\ 0 \in Nat /\ 0 <= j
  BY <1>1
<1> HIDE DEF i, j, L
<1>3. SA!Sub(s, i, L) \in Strings /\ Len(SA!Sub(s, i, L)) = L - i
  BY <1>2, SubIs
<1>4. SA!Sub(s, 0, j) \in Strings /\ Len(SA!Sub(s, 0, j)) = j - 0
  BY <1>2, SubIs
<1>5. SA!LStripped(s) = SA!Sub(s, i, L) /\ SA!RStripped(s) = SA!Sub(s, 0, j) /\ L = Len(s)
  BY DEF SA!LStripped, SA!RStripped, i, j, L
<1> QED
  BY <1>2, <1>3, <1>4, <1>5

\* lStrip, rStrip and strip.
LEMMA StripFits ==
  ASSUME Buffer(self), SA!LStrip \/ SA!RStrip \/ SA!Strip
  PROVE  Buffer(self')
<1> DEFINE s == self.text
           u == SA!LStripped(s)
<1>1. s \in Strings /\ Len(s) \in Nat
  BY DEF Buffer, Strings
<1> HIDE DEF s
<1>2. u \in Strings /\ Len(u) <= Len(s) /\ Len(u) \in Nat
  BY <1>1, StrippedIs
<1>3. SA!RStripped(s) \in Strings /\ Len(SA!RStripped(s)) <= Len(s)
  BY <1>1, StrippedIs
<1> HIDE DEF u
<1>4. SA!RStripped(u) \in Strings /\ Len(SA!RStripped(u)) <= Len(s)
  BY <1>1, <1>2, StrippedIs
<1>5. SA!Changed("lStrip", u) \/ SA!Changed("rStrip", SA!RStripped(s))
      \/ SA!Changed("strip", SA!RStripped(u))
  BY DEF SA!LStrip, SA!RStrip, SA!Strip, u, s
<1>6. Len(s) = Len(self.text)
  BY DEF s
<1> QED
  BY <1>2, <1>3, <1>4, <1>5, <1>6, ChangedFits

\* clear.
LEMMA ClearFits ==
  ASSUME Buffer(self), SA!Clear
  PROVE  Buffer(self')
<1>1. self.text \in Strings /\ Len(self.text) \in Nat /\ <<>> \in Strings /\ Len(<<>>) = 0
  BY DEF Buffer, Strings
<1> DEFINE t == <<>>
<1>2. self' = [self EXCEPT !.text = t, !.length = Len(t)]
  BY <1>1 DEF SA!Clear
<1>3. t \in Strings /\ Len(t) <= Len(self.text)
  BY <1>1
<1> HIDE DEF t
<1> QED
  BY <1>2, <1>3, ShorterFits

\* replace.
LEMMA ReplaceFits ==
  ASSUME Buffer(self), NEW old \in Strings, NEW new \in Strings, old # <<>>,
         SA!Replace(old, new)
  PROVE  Buffer(self')
<1> DEFINE s == SA!Replaced(self.text, old, new)
           size == SA!NewSize(self, Len(old), Len(new))
<1>1. s \in Strings /\ size \in Nat /\ Len(s) + 1 <= size /\ Len(s) \in Nat
  BY NewSizeIsEnough DEF Strings
<1>2. CASE UNCHANGED self
  BY <1>2, SameFits
<1>3. CASE self' = [text |-> s, length |-> Len(s), size |-> size, alloc |-> size]
  <2> HIDE DEF s, size
  <2> QED
    BY <1>1, <1>3 DEF Buffer
<1> QED
  BY <1>2, <1>3 DEF SA!Replace

\* A new string fits its buffer.
LEMMA StringNew ==
  ASSUME SA!Init
  PROVE  SA!BufferOK
<1>1. PICK s \in Passed : self = SA!NewString(s)
  BY DEF SA!Init, Passed
<1>2. s \in Strings
  BY PassedIs
<1>3. Buffer(self)
  BY <1>1, <1>2, NewStringIs
<1> QED
  BY <1>3, BufferIs

\* The methods of a string keep it so.
LEMMA StringCalled ==
  ASSUME SA!BufferOK, SA!Next
  PROVE  SA!BufferOK'
<1> SUFFICES Buffer(self')
  BY BufferIs
<1>1. Buffer(self)
  BY BufferIs
<1>2. \A s \in Passed : s \in Strings
  BY PassedIs
<1>3. self.length \in Nat
  BY <1>1 DEF Buffer
<1>4. CASE SA!Destroy
  <2>1. PICK s \in Passed : self' = SA!NewString(s)
    BY <1>4 DEF SA!Destroy, Passed
  <2> QED
    BY <1>2, <2>1, NewStringIs
<1>5. CASE SA!Copy \/ SA!Clear \/ SA!Lower \/ SA!Upper
  BY <1>1, <1>5, CopyFits, ClearFits, CaseFits
<1>6. CASE SA!LStrip \/ SA!RStrip \/ SA!Strip
  BY <1>1, <1>6, StripFits
<1>7. CASE \E begin \in -1 .. MAXTEXT, end \in 0 .. MAXTEXT + 1 : SA!Slice(begin, end)
  <2>1. PICK begin \in -1 .. MAXTEXT, end \in 0 .. MAXTEXT + 1 : SA!Slice(begin, end)
    BY <1>7
  <2>2. begin \in Int /\ end \in Nat
    BY ClientAssumption
  <2> QED
    BY <1>1, <2>1, <2>2, SliceFits
<1>8. CASE \E s \in Passed : SA!Suffixed(s)
  BY <1>1, <1>2, <1>8, SuffixedFits
<1>9. CASE \E s \in Passed, i \in -1 .. self.length + 1 : SA!Insert(s, i)
  <2>1. PICK s \in Passed, i \in -1 .. self.length + 1 : SA!Insert(s, i)
    BY <1>9
  <2>2. i \in Int /\ s \in Strings
    BY <1>2, <1>3
  <2> QED
    BY <1>1, <2>1, <2>2, InsertFits
<1>10. CASE \E c \in Chs, i \in -1 .. self.length : SA!Assign(c, i)
  <2>1. PICK c \in Chs, i \in -1 .. self.length : SA!Assign(c, i)
    BY <1>10
  <2>2. i \in Int
    BY <1>3
  <2> QED
    BY <1>1, <2>1, <2>2, AssignFits
<1>11. CASE \E i \in -1 .. self.length : SA!Remove(i)
  <2>1. PICK i \in -1 .. self.length : SA!Remove(i)
    BY <1>11
  <2>2. i \in Int
    BY <1>3
  <2> QED
    BY <1>1, <2>1, <2>2, RemoveFits
<1>12. CASE \E old, new \in Passed : old # <<>> /\ SA!Replace(old, new)
  BY <1>1, <1>2, <1>12, ReplaceFits
<1>13. CASE \E class \in DOMAIN SA!ClassFuncs \cup {"none"}, c \in Chs :
              SA!Translate(class, c)
  BY <1>1, <1>13, TranslateFits
<1>14. \/ SA!Destroy \/ SA!Copy \/ SA!Clear \/ SA!Lower \/ SA!Upper
       \/ SA!LStrip \/ SA!RStrip \/ SA!Strip
       \/ \E begin \in -1 .. MAXTEXT, end \in 0 .. MAXTEXT + 1 : SA!Slice(begin, end)
       \/ \E s \in Passed : SA!Suffixed(s)
       \/ \E s \in Passed, i \in -1 .. self.length + 1 : SA!Insert(s, i)
       \/ \E c \in Chs, i \in -1 .. self.length : SA!Assign(c, i)
       \/ \E i \in -1 .. self.length : SA!Remove(i)
       \/ \E old, new \in Passed : old # <<>> /\ SA!Replace(old, new)
       \/ \E class \in DOMAIN SA!ClassFuncs \cup {"none"}, c \in Chs :
              SA!Translate(class, c)
  BY DEF SA!Next, Passed, Chs
<1> QED
  BY <1>4, <1>5, <1>6, <1>7, <1>8, <1>9, <1>10, <1>11, <1>12, <1>13, <1>14

\* What leaves a string alone.
LEMMA StringLeft ==
  ASSUME SA!BufferOK, UNCHANGED self
  PROVE  SA!BufferOK'
BY BufferIs, SameFits

\* Every step leaves the buffer of a string as large as it must be.
LEMMA StringsStep ==
  ASSUME kind = "String" => SA!BufferOK, [Next]_vars
  PROVE  (kind = "String" => SA!BufferOK)'
<1> SUFFICES ASSUME kind' = "String" PROVE SA!BufferOK'
  OBVIOUS
<1>1. kind = "String"
  BY DEF Next, vars
<1>2. CASE CallMethod
  <2>1. SA!Next
    BY <1>1, <1>2 DEF CallMethod, Call, CallLine, CallPrioQueue, CallMap
  <2> QED
    BY <1>1, <2>1, StringCalled
<1>3. CASE Iterate \/ UNCHANGED vars
  <2>1. UNCHANGED self
    BY <1>3 DEF Iterate, vars
  <2> QED
    BY <1>1, <2>1, StringLeft
<1> QED
  BY <1>2, <1>3 DEF Next

\* The buffer of a string that no st_copy made has room for its text, whatever
\* was appended, inserted, replaced, stripped or sliced, for every increment and
\* every bound of its length (stringADT.c:141, 234). Of a copy, which takes its
\* buffer to be as large as that of the original (stringADT.c:84), only the fields
\* are shown to be those of a text: that it need not have room is what
\* StorageSuffices finds.
THEOREM StringsFit == Spec => [](kind = "String" => SA!BufferOK)
<1>1. Init => (kind = "String" => SA!BufferOK)
  BY StringNew DEF Init, Create, CreateLine, CreatePrioQueue, CreateMap
<1>2. (kind = "String" => SA!BufferOK) /\ [Next]_vars => (kind = "String" => SA!BufferOK)'
  BY StringsStep
<1> QED
  BY <1>1, <1>2, PTL DEF Spec

\* All of StructuresSound: of every container, the bag and the strings.
THEOREM StructuresStaySound == Spec => []StructuresSound
<1>1. /\ LinesSound /\ PrioQueuesSound /\ MapsSound
      /\ kind = "String" => SA!BufferOK
      => StructuresSound
  BY DEF StructuresSound
<1> QED
  BY <1>1, LinesAreSound, PrioQueuesAreSound, MapsAreSound, StringsFit, PTL

-----------------------------------------------------------------------------
(* Iterators.                                                              *)

\* What itCreate of a line tells: the number of its elements, and the elements.
LEMMA AQTold ==
  ASSUME AQ!L!LineNext, ret'[1] = "iterator", Len(ret') = 3
  PROVE  ret' = <<"iterator", Len(AQ!GenArray(self)), AQ!GenArray(self)>>
<1>0. \A x : /\ ret' # <<"putFirst", x>> /\ ret' # <<"putLast", x>>
  OBVIOUS
<1>1. ~ AQ!L!PutFirst /\ ~ AQ!L!PutLast
  BY <1>0, Zenon DEF AQ!L!PutFirst, AQ!L!PutLast, AQ!L!Put
<1>2. /\ ~ AQ!L!Insert /\ ~ AQ!L!PeekFirst /\ ~ AQ!L!PeekLast
      /\ ~ AQ!L!TakeFirst /\ ~ AQ!L!RemoveFirst /\ ~ AQ!L!TakeLast
  BY Zenon DEF AQ!L!Insert, AQ!L!PeekFirst, AQ!L!PeekLast,
     AQ!L!TakeFirst, AQ!L!RemoveFirst, AQ!L!TakeLast
<1>3. /\ ~ AQ!L!Get /\ ~ AQ!L!Set /\ ~ AQ!L!Remove /\ ~ AQ!L!Misplaced
      /\ ~ AQ!L!Empty /\ ~ AQ!L!Size /\ ~ AQ!L!ToArray /\ ~ AQ!L!Resize
  BY Zenon DEF AQ!L!Get, AQ!L!Set, AQ!L!Remove, AQ!L!Misplaced, AQ!L!Empty,
     AQ!L!Size, AQ!L!ToArray, AQ!L!Resize
<1>4. AQ!L!Iterate
  BY <1>1, <1>2, <1>3 DEF AQ!L!LineNext
<1>5. ret' # <<"iterator">>
  OBVIOUS
<1> QED
  BY <1>4, <1>5 DEF AQ!L!Iterate

\* The same, of a linked queue.
LEMMA LQTold ==
  ASSUME LQ!L!LineNext, ret'[1] = "iterator", Len(ret') = 3
  PROVE  ret' = <<"iterator", Len(LQ!GenArray(self)), LQ!GenArray(self)>>
<1>0. \A x : /\ ret' # <<"putFirst", x>> /\ ret' # <<"putLast", x>>
  OBVIOUS
<1>1. ~ LQ!L!PutFirst /\ ~ LQ!L!PutLast
  BY <1>0, Zenon DEF LQ!L!PutFirst, LQ!L!PutLast, LQ!L!Put
<1>2. /\ ~ LQ!L!Insert /\ ~ LQ!L!PeekFirst /\ ~ LQ!L!PeekLast
      /\ ~ LQ!L!TakeFirst /\ ~ LQ!L!RemoveFirst /\ ~ LQ!L!TakeLast
  BY Zenon DEF LQ!L!Insert, LQ!L!PeekFirst, LQ!L!PeekLast,
     LQ!L!TakeFirst, LQ!L!RemoveFirst, LQ!L!TakeLast
<1>3. /\ ~ LQ!L!Get /\ ~ LQ!L!Set /\ ~ LQ!L!Remove /\ ~ LQ!L!Misplaced
      /\ ~ LQ!L!Empty /\ ~ LQ!L!Size /\ ~ LQ!L!ToArray /\ ~ LQ!L!Resize
  BY Zenon DEF LQ!L!Get, LQ!L!Set, LQ!L!Remove, LQ!L!Misplaced, LQ!L!Empty,
     LQ!L!Size, LQ!L!ToArray, LQ!L!Resize
<1>4. LQ!L!Iterate
  BY <1>1, <1>2, <1>3 DEF LQ!L!LineNext
<1>5. ret' # <<"iterator">>
  OBVIOUS
<1> QED
  BY <1>4, <1>5 DEF LQ!L!Iterate

\* Of a stack.
LEMMA ASTold ==
  ASSUME AS!L!LineNext, ret'[1] = "iterator", Len(ret') = 3
  PROVE  ret' = <<"iterator", Len(AS!ArrayDupl(self)), AS!ArrayDupl(self)>>
<1>0. \A x : /\ ret' # <<"putFirst", x>> /\ ret' # <<"putLast", x>>
  OBVIOUS
<1>1. ~ AS!L!PutFirst /\ ~ AS!L!PutLast
  BY <1>0, Zenon DEF AS!L!PutFirst, AS!L!PutLast, AS!L!Put
<1>2. /\ ~ AS!L!Insert /\ ~ AS!L!PeekFirst /\ ~ AS!L!PeekLast
      /\ ~ AS!L!TakeFirst /\ ~ AS!L!RemoveFirst /\ ~ AS!L!TakeLast
  BY Zenon DEF AS!L!Insert, AS!L!PeekFirst, AS!L!PeekLast,
     AS!L!TakeFirst, AS!L!RemoveFirst, AS!L!TakeLast
<1>3. /\ ~ AS!L!Get /\ ~ AS!L!Set /\ ~ AS!L!Remove /\ ~ AS!L!Misplaced
      /\ ~ AS!L!Empty /\ ~ AS!L!Size /\ ~ AS!L!ToArray /\ ~ AS!L!Resize
  BY Zenon DEF AS!L!Get, AS!L!Set, AS!L!Remove, AS!L!Misplaced, AS!L!Empty,
     AS!L!Size, AS!L!ToArray, AS!L!Resize
<1>4. AS!L!Iterate
  BY <1>1, <1>2, <1>3 DEF AS!L!LineNext
<1>5. ret' # <<"iterator">>
  OBVIOUS
<1> QED
  BY <1>4, <1>5 DEF AS!L!Iterate

\* Of a linked stack.
LEMMA LSTold ==
  ASSUME LS!L!LineNext, ret'[1] = "iterator", Len(ret') = 3
  PROVE  ret' = <<"iterator", Len(LS!GenArray(self)), LS!GenArray(self)>>
<1>0. \A x : /\ ret' # <<"putFirst", x>> /\ ret' # <<"putLast", x>>
  OBVIOUS
<1>1. ~ LS!L!PutFirst /\ ~ LS!L!PutLast
  BY <1>0, Zenon DEF LS!L!PutFirst, LS!L!PutLast, LS!L!Put
<1>2. /\ ~ LS!L!Insert /\ ~ LS!L!PeekFirst /\ ~ LS!L!PeekLast
      /\ ~ LS!L!TakeFirst /\ ~ LS!L!RemoveFirst /\ ~ LS!L!TakeLast
  BY Zenon DEF LS!L!Insert, LS!L!PeekFirst, LS!L!PeekLast,
     LS!L!TakeFirst, LS!L!RemoveFirst, LS!L!TakeLast
<1>3. /\ ~ LS!L!Get /\ ~ LS!L!Set /\ ~ LS!L!Remove /\ ~ LS!L!Misplaced
      /\ ~ LS!L!Empty /\ ~ LS!L!Size /\ ~ LS!L!ToArray /\ ~ LS!L!Resize
  BY Zenon DEF LS!L!Get, LS!L!Set, LS!L!Remove, LS!L!Misplaced, LS!L!Empty,
     LS!L!Size, LS!L!ToArray, LS!L!Resize
<1>4. LS!L!Iterate
  BY <1>1, <1>2, <1>3 DEF LS!L!LineNext
<1>5. ret' # <<"iterator">>
  OBVIOUS
<1> QED
  BY <1>4, <1>5 DEF LS!L!Iterate

\* Of a linked deque.
LEMMA LDTold ==
  ASSUME LD!L!LineNext, ret'[1] = "iterator", Len(ret') = 3
  PROVE  ret' = <<"iterator", Len(LD!GenArray(self)), LD!GenArray(self)>>
<1>0. \A x : /\ ret' # <<"putFirst", x>> /\ ret' # <<"putLast", x>>
  OBVIOUS
<1>1. ~ LD!L!PutFirst /\ ~ LD!L!PutLast
  BY <1>0, Zenon DEF LD!L!PutFirst, LD!L!PutLast, LD!L!Put
<1>2. /\ ~ LD!L!Insert /\ ~ LD!L!PeekFirst /\ ~ LD!L!PeekLast
      /\ ~ LD!L!TakeFirst /\ ~ LD!L!RemoveFirst /\ ~ LD!L!TakeLast
  BY Zenon DEF LD!L!Insert, LD!L!PeekFirst, LD!L!PeekLast,
     LD!L!TakeFirst, LD!L!RemoveFirst, LD!L!TakeLast
<1>3. /\ ~ LD!L!Get /\ ~ LD!L!Set /\ ~ LD!L!Remove /\ ~ LD!L!Misplaced
      /\ ~ LD!L!Empty /\ ~ LD!L!Size /\ ~ LD!L!ToArray /\ ~ LD!L!Resize
  BY Zenon DEF LD!L!Get, LD!L!Set, LD!L!Remove, LD!L!Misplaced, LD!L!Empty,
     LD!L!Size, LD!L!ToArray, LD!L!Resize
<1>4. LD!L!Iterate
  BY <1>1, <1>2, <1>3 DEF LD!L!LineNext
<1>5. ret' # <<"iterator">>
  OBVIOUS
<1> QED
  BY <1>4, <1>5 DEF LD!L!Iterate

\* Of an array list.
LEMMA ALTold ==
  ASSUME AL!L!LineNext, ret'[1] = "iterator", Len(ret') = 3
  PROVE  ret' = <<"iterator", Len(AL!ArrayDupl(self)), AL!ArrayDupl(self)>>
<1>0. \A x : /\ ret' # <<"putFirst", x>> /\ ret' # <<"putLast", x>>
  OBVIOUS
<1>1. ~ AL!L!PutFirst /\ ~ AL!L!PutLast
  BY <1>0, Zenon DEF AL!L!PutFirst, AL!L!PutLast, AL!L!Put
<1>2. /\ ~ AL!L!Insert /\ ~ AL!L!PeekFirst /\ ~ AL!L!PeekLast
      /\ ~ AL!L!TakeFirst /\ ~ AL!L!RemoveFirst /\ ~ AL!L!TakeLast
  BY Zenon DEF AL!L!Insert, AL!L!PeekFirst, AL!L!PeekLast,
     AL!L!TakeFirst, AL!L!RemoveFirst, AL!L!TakeLast
<1>3. /\ ~ AL!L!Get /\ ~ AL!L!Set /\ ~ AL!L!Remove /\ ~ AL!L!Misplaced
      /\ ~ AL!L!Empty /\ ~ AL!L!Size /\ ~ AL!L!ToArray /\ ~ AL!L!Resize
  BY Zenon DEF AL!L!Get, AL!L!Set, AL!L!Remove, AL!L!Misplaced, AL!L!Empty,
     AL!L!Size, AL!L!ToArray, AL!L!Resize
<1>4. AL!L!Iterate
  BY <1>1, <1>2, <1>3 DEF AL!L!LineNext
<1>5. ret' # <<"iterator">>
  OBVIOUS
<1> QED
  BY <1>4, <1>5 DEF AL!L!Iterate

\* What an iterator is told.
Given(size, elements) == size \in Nat /\ Len(elements) = size

\* The iterator of a queue is given as many elements as it is told.
LEMMA AQGiven ==
  ASSUME AQ!RingOK, AQ!Next, ret'[1] = "iterator", Len(ret') = 3
  PROVE  Given(ret'[2], ret'[3])
<1> DEFINE s == AQ!GenArray(self)
<1>1. Len(s) \in Nat
  <2>1. /\ AQ!Ring(self)
        /\ RingHolds(self.count, self.size, self.out, self.buffer, Values, Cells)
        /\ s = RingLine(self.count, self.size, self.out, self.buffer)
    BY QueueIsRing DEF AQ!RingOK
  <2>2. self.count \in Nat /\ s \in [1 .. self.count -> Values]
    BY <2>1, RingElems
  <2> HIDE DEF s
  <2>3. s \in Seq(Values)
    BY <2>2
  <2> QED
    BY <2>3
<1>2. ret' = <<"iterator", Len(s), s>>
  <2>1. AQ!L!LineNext
    BY QueueCalls
  <2> QED
    BY <2>1, AQTold
<1> HIDE DEF s
<1>3. ret'[2] = Len(s) /\ ret'[3] = s
  BY <1>2
<1> QED
  BY <1>1, <1>3 DEF Given

\* The same, of a linked queue.
LEMMA LQGiven ==
  ASSUME LQ!ListOK, LQ!Next, ret'[1] = "iterator", Len(ret') = 3
  PROVE  Given(ret'[2], ret'[3])
<1> DEFINE s == LQ!GenArray(self)
<1>1. Len(s) \in Nat
  <2>1. LQ!Holds(self)
    BY DEF LQ!ListOK
  <2>2. s = Along(LQ!ListNodes(self), self.value) /\ Along(LQ!ListNodes(self), self.value) \in Seq(Values)
    BY <2>1, NodesOfQueue
  <2> HIDE DEF s
  <2> QED
    BY <2>2
<1>2. ret' = <<"iterator", Len(s), s>>
  <2>1. LQ!L!LineNext
    BY LinkedQueueCalls
  <2> QED
    BY <2>1, LQTold
<1> HIDE DEF s
<1>3. ret'[2] = Len(s) /\ ret'[3] = s
  BY <1>2
<1> QED
  BY <1>1, <1>3 DEF Given

\* Of a stack.
LEMMA ASGiven ==
  ASSUME AS!StackOK, AS!Next, ret'[1] = "iterator", Len(ret') = 3
  PROVE  Given(ret'[2], ret'[3])
<1> DEFINE s == AS!ArrayDupl(self)
<1>1. Len(s) \in Nat
  <2>1. AS!Filled(self)
    BY DEF AS!StackOK
  <2>2. s \in Seq(Values)
    BY <2>1, StackLine
  <2> HIDE DEF s
  <2> QED
    BY <2>2
<1>2. ret' = <<"iterator", Len(s), s>>
  <2>1. AS!L!LineNext
    BY StackCalls
  <2> QED
    BY <2>1, ASTold
<1> HIDE DEF s
<1>3. ret'[2] = Len(s) /\ ret'[3] = s
  BY <1>2
<1> QED
  BY <1>1, <1>3 DEF Given

\* Of a linked stack.
LEMMA LSGiven ==
  ASSUME LS!ListOK, LS!Next, ret'[1] = "iterator", Len(ret') = 3
  PROVE  Given(ret'[2], ret'[3])
<1> DEFINE s == LS!GenArray(self)
<1>1. Len(s) \in Nat
  <2>1. LS!Holds(self)
    BY DEF LS!ListOK
  <2>2. s = Along(LS!ListNodes(self), self.value) /\ Along(LS!ListNodes(self), self.value) \in Seq(Values)
    BY <2>1, NodesOfStack
  <2> HIDE DEF s
  <2> QED
    BY <2>2
<1>2. ret' = <<"iterator", Len(s), s>>
  <2>1. LS!L!LineNext
    BY LinkedStackCalls
  <2> QED
    BY <2>1, LSTold
<1> HIDE DEF s
<1>3. ret'[2] = Len(s) /\ ret'[3] = s
  BY <1>2
<1> QED
  BY <1>1, <1>3 DEF Given

\* Of a linked deque.
LEMMA LDGiven ==
  ASSUME LD!ListOK, LD!Next, ret'[1] = "iterator", Len(ret') = 3
  PROVE  Given(ret'[2], ret'[3])
<1> DEFINE s == LD!GenArray(self)
<1>1. Len(s) \in Nat
  <2>1. LD!Holds(self)
    BY DEF LD!ListOK
  <2> DEFINE w == LD!Walk(self.next, self)
  <2>2. s = Along(w, self.element) /\ Along(w, self.element) \in Seq(Values)
    BY <2>1, NodesOfDeque
  <2> HIDE DEF s, w
  <2> QED
    BY <2>2
<1>2. ret' = <<"iterator", Len(s), s>>
  <2>1. LD!L!LineNext
    BY LinkedDequeCalls
  <2> QED
    BY <2>1, LDTold
<1> HIDE DEF s
<1>3. ret'[2] = Len(s) /\ ret'[3] = s
  BY <1>2
<1> QED
  BY <1>1, <1>3 DEF Given

\* Of an array list.
LEMMA ALGiven ==
  ASSUME AL!ListOK, AL!Next, ret'[1] = "iterator", Len(ret') = 3
  PROVE  Given(ret'[2], ret'[3])
<1> DEFINE s == AL!ArrayDupl(self)
<1>1. Len(s) \in Nat
  <2>1. CASE AL!Filled(self)
    <3>1. s \in Seq(Values)
      BY <2>1, ListLine
    <3> HIDE DEF s
    <3> QED
      BY <3>1
  <2>2. CASE AL!Trimmed(self)
    <3>1. s = <<>>
      BY <2>2 DEF AL!Trimmed, AL!ArrayDupl
    <3> QED
      BY <3>1
  <2> QED
    BY <2>1, <2>2 DEF AL!ListOK
<1>2. ret' = <<"iterator", Len(s), s>>
  <2>1. AL!L!LineNext
    BY ListCalls
  <2> QED
    BY <2>1, ALTold
<1> HIDE DEF s
<1>3. ret'[2] = Len(s) /\ ret'[3] = s
  BY <1>2
<1> QED
  BY <1>1, <1>3 DEF Given

\* An ArrayDeque's iterator is told the size of the ring, which has room for
\* its elements.
LEMMA ADGiven ==
  ASSUME AD!DequeOK, AD!Next, ret'[1] = "iterator", Len(ret') = 3
  PROVE  /\ ret'[2] \in Nat /\ Len(ret'[3]) \in Nat
         /\ ret'[2] >= Len(ret'[3])
<1> DEFINE s == AD!GenArray(self)
<1>1. /\ AD!Ring(self)
      /\ RingHolds(self.count, self.size, self.head, self.buffer, Values, Cells)
      /\ s = RingLine(self.count, self.size, self.head, self.buffer)
  BY DequeIsRing DEF AD!DequeOK
<1>2. self.size \in Nat /\ Len(s) \in Nat /\ self.size >= Len(s)
  <2>1. self.count \in Nat /\ self.size \in Nat /\ s \in [1 .. self.count -> Values]
    BY <1>1, RingElems
  <2>0. self.size >= self.count
    BY <1>1 DEF RingHolds
  <2> HIDE DEF s
  <2>2. s \in Seq(Values) /\ Len(s) = self.count /\ self.size >= self.count
    BY <2>0, <2>1
  <2> QED
    BY <2>1, <2>2
<1>3. \A x, y : /\ ret' # <<"putFirst", x>> /\ ret' # <<"putLast", x>>
                /\ ret' # <<"first", x>> /\ ret' # <<"first", x, y>>
                /\ ret' # <<"last", x>> /\ ret' # <<"last", x, y>>
                /\ ret' # <<"removeFirst", x>> /\ ret' # <<"removeFirst", x, y>>
                /\ ret' # <<"takeLast", x>> /\ ret' # <<"takeLast", x, y>>
                /\ ret' # <<"clear", x>> /\ ret' # <<"destroy", x>>
                /\ ret' # <<"size", x>> /\ ret' # <<"toArray", x, y>>
                /\ ret' # <<"toArray">> /\ ret' # <<"iterator">>
  OBVIOUS
<1>4. \A v \in Values : ~ AD!InsertFirst(v) /\ ~ AD!InsertLast(v)
  BY <1>3, Zenon DEF AD!InsertFirst, AD!InsertLast, AD!NoRoom
<1>5. ~ AD!First /\ ~ AD!Last /\ ~ AD!RemoveFirst /\ ~ AD!RemoveLast
  BY <1>3, Zenon DEF AD!First, AD!Last, AD!RemoveFirst, AD!RemoveLast
<1>6. ~ AD!Clear /\ ~ AD!Destroy /\ ~ AD!Size /\ ~ AD!ToArray
  BY <1>3, Zenon DEF AD!Clear, AD!Destroy, AD!Size, AD!ToArray
<1>7. AD!ItCreate
  BY <1>4, <1>5, <1>6 DEF AD!Next
<1>8. ret' = <<"iterator", self.size, s>>
  BY <1>3, <1>7 DEF AD!ItCreate
<1> HIDE DEF s
<1>9. ret'[2] = self.size /\ ret'[3] = s
  BY <1>8
<1> QED
  BY <1>2, <1>9

\* What an iterator of a priority queue, in the order of its pairs, is made of.
Valued(s) == [i \in DOMAIN s |-> s[i].value]

\* It has as many elements as there are pairs.
LEMMA ValuedLen ==
  ASSUME NEW S, NEW s \in Seq(S)
  PROVE  Len(Valued(s)) = Len(s) /\ Len(s) \in Nat
BY DEF Valued

\* What itCreate of a heap tells: the number of its values, and the values in order.
LEMMA HQTold ==
  ASSUME HQ!Q!StableNext, ret'[1] = "iterator", Len(ret') = 3
  PROVE  ret' = <<"iterator", Len(HQ!Items), Valued(HQ!Items)>>
<1>0. \A x : ret' # <<"insert", x>>
  OBVIOUS
<1>1. ~ HQ!Q!Insert
  BY <1>0, Zenon DEF HQ!Q!Insert
<1>2. /\ ~ HQ!Q!PeekMin /\ ~ HQ!Q!RemoveMin /\ ~ HQ!Q!Empty
      /\ ~ HQ!Q!Size /\ ~ HQ!Q!ToArray
  BY Zenon DEF HQ!Q!PeekMin, HQ!Q!RemoveMin, HQ!Q!Empty, HQ!Q!Size, HQ!Q!ToArray
<1>3. HQ!Q!Iterate
  BY <1>1, <1>2 DEF HQ!Q!StableNext
<1>4. ret' # <<"iterator">>
  OBVIOUS
<1> QED
  BY <1>3, <1>4 DEF HQ!Q!Iterate, Valued

\* The same, of a sorted list.
LEMMA PQTold ==
  ASSUME PQ!Q!StableNext, ret'[1] = "iterator", Len(ret') = 3
  PROVE  ret' = <<"iterator", Len(PQ!Entries(self)), Valued(PQ!Entries(self))>>
<1>0. \A x : ret' # <<"insert", x>>
  OBVIOUS
<1>1. ~ PQ!Q!Insert
  BY <1>0, Zenon DEF PQ!Q!Insert
<1>2. /\ ~ PQ!Q!PeekMin /\ ~ PQ!Q!RemoveMin /\ ~ PQ!Q!Empty
      /\ ~ PQ!Q!Size /\ ~ PQ!Q!ToArray
  BY Zenon DEF PQ!Q!PeekMin, PQ!Q!RemoveMin, PQ!Q!Empty, PQ!Q!Size, PQ!Q!ToArray
<1>3. PQ!Q!Iterate
  BY <1>1, <1>2 DEF PQ!Q!StableNext
<1>4. ret' # <<"iterator">>
  OBVIOUS
<1> QED
  BY <1>3, <1>4 DEF PQ!Q!Iterate, Valued

\* The iterator of a heap is given as many values as it is told.
LEMMA HQGiven ==
  ASSUME HQ!HeapOK, HQ!Next, ret'[1] = "iterator", Len(ret') = 3
  PROVE  Given(ret'[2], ret'[3])
<1> DEFINE s == HQ!Items
<1>1. \E S : s \in Seq(S)
  <2>1. HeapQueue(self)
    BY HeapIs DEF HQ!HeapOK
  <2>2. PICK u : /\ Enumerates(u, self.heap) /\ u \in Seq(HeapEntry) /\ Len(u) = self.last
                 /\ HQ!Ordered(self) = Pairs(u)
    BY <2>1, HeapItems
  <2>3. HQ!Ordered(self) \in Seq([priority : Priorities, value : Values])
    BY <2>2, PairsElems
  <2> QED
    BY <2>3 DEF HQ!Items
<1>2. ret' = <<"iterator", Len(s), Valued(s)>>
  BY HeapCalls, HQTold
<1> HIDE DEF s
<1>3. ret'[2] = Len(s) /\ ret'[3] = Valued(s)
  BY <1>2
<1> QED
  BY <1>1, <1>3, ValuedLen DEF Given

\* The same, of a sorted list.
LEMMA PQGiven ==
  ASSUME PQ!ListOK, PQ!Next, ret'[1] = "iterator", Len(ret') = 3
  PROVE  Given(ret'[2], ret'[3])
<1> DEFINE s == PQ!Entries(self)
<1>1. \E S : s \in Seq(S)
  <2>1. PQ!Holds(self)
    BY DEF PQ!ListOK
  <2>2. /\ s = Along(PQ!ListNodes(self), self.entry)
        /\ Along(PQ!ListNodes(self), self.entry) \in Seq(PrioEntry)
    BY <2>1, NodesOfPrio
  <2> HIDE DEF s
  <2> QED
    BY <2>2
<1>2. ret' = <<"iterator", Len(s), Valued(s)>>
  BY PrioCalls, PQTold
<1> HIDE DEF s
<1>3. ret'[2] = Len(s) /\ ret'[3] = Valued(s)
  BY <1>2
<1> QED
  BY <1>1, <1>3, ValuedLen DEF Given

\* Of the bag.
LEMMA HBGiven ==
  ASSUME BagTable(self), HB!Next, ret'[1] = "iterator", Len(ret') = 3
  PROVE  Given(ret'[2], ret'[3])
<1>1. HB!M!BagNext
  BY BagCalled
<1>2. /\ ~ HB!M!Add /\ ~ HB!M!Contains /\ ~ HB!M!Count /\ ~ HB!M!Remove /\ ~ HB!M!Empty
      /\ ~ HB!M!Size /\ ~ HB!M!Array
  BY Zenon DEF HB!M!Add, HB!M!Contains, HB!M!Count, HB!M!Remove, HB!M!Empty, HB!M!Size,
     HB!M!Array
<1>3. HB!M!Iterate
  BY <1>1, <1>2 DEF HB!M!BagNext
<1>4. ret'[2] = HB!M!Cardinality(HB!Items) /\ Len(ret'[3]) = HB!M!Cardinality(HB!Items)
  BY <1>3 DEF HB!M!Iterate, HB!M!Lists
<1>5. HB!M!Cardinality(HB!Items) = self.size /\ self.size \in Nat
  BY BagItems, BagFacts
<1> QED
  BY <1>4, <1>5 DEF Given

\* The iterator of a map is given the keys that are in it, and their number.
LEMMA HMGiven ==
  ASSUME Table(self, Names), HM!Next, ret'[1] = "iterator", Len(ret') = 3
  PROVE  /\ Given(ret'[2], ret'[3])
         /\ \A i \in 1 .. ret'[2] : ret'[3][i] \in DOMAIN HM!Items'
<1>1. HM!D!DictNext
  BY HMCalled
<1>2. /\ ~ HM!D!Put /\ ~ HM!D!PutUnique /\ ~ HM!D!Get /\ ~ HM!D!Remove
      /\ ~ HM!D!Empty /\ ~ HM!D!Size
  BY Zenon DEF HM!D!Put, HM!D!PutUnique, HM!D!Get, HM!D!Remove, HM!D!Empty, HM!D!Size
<1>3. ~ HM!D!Array
  <2>1. ret' # <<"array">>
    OBVIOUS
  <2> QED
    BY <2>1, Zenon DEF HM!D!Array
<1>4. HM!D!Iterate
  BY <1>1, <1>2, <1>3 DEF HM!D!DictNext
<1>5. ret' # <<"iterator">>
  OBVIOUS
<1>6. /\ ret'[2] = HM!D!Cardinality(DOMAIN HM!Items) /\ Len(ret'[3]) = ret'[2]
      /\ {ret'[3][i] : i \in 1 .. ret'[2]} = DOMAIN HM!Items
      /\ HM!Items' = HM!Items
  BY <1>4, <1>5, Zenon DEF HM!D!Iterate
<1>7. HM!D!Cardinality(DOMAIN HM!Items) = self.size /\ self.size \in Nat
  BY HMLists, HMCardinality
<1> QED
  BY <1>6, <1>7 DEF Given

\* The same, of a map on a list.
LEMMA LMGiven ==
  ASSUME Ring(self, Names), LM!Next, ret'[1] = "iterator", Len(ret') = 3
  PROVE  /\ Given(ret'[2], ret'[3])
         /\ \A i \in 1 .. ret'[2] : ret'[3][i] \in DOMAIN LM!Items'
<1>1. LM!D!DictNext
  BY LMCalled
<1>2. /\ ~ LM!D!Put /\ ~ LM!D!PutUnique /\ ~ LM!D!Get /\ ~ LM!D!Remove
      /\ ~ LM!D!Empty /\ ~ LM!D!Size
  BY Zenon DEF LM!D!Put, LM!D!PutUnique, LM!D!Get, LM!D!Remove, LM!D!Empty, LM!D!Size
<1>3. ~ LM!D!Array
  <2>1. ret' # <<"array">>
    OBVIOUS
  <2> QED
    BY <2>1, Zenon DEF LM!D!Array
<1>4. LM!D!Iterate
  BY <1>1, <1>2, <1>3 DEF LM!D!DictNext
<1>5. ret' # <<"iterator">>
  OBVIOUS
<1>6. /\ ret'[2] = LM!D!Cardinality(DOMAIN LM!Items) /\ Len(ret'[3]) = ret'[2]
      /\ {ret'[3][i] : i \in 1 .. ret'[2]} = DOMAIN LM!Items
      /\ LM!Items' = LM!Items
  BY <1>4, <1>5, Zenon DEF LM!D!Iterate
<1>7. LM!D!Cardinality(DOMAIN LM!Items) = self.size /\ self.size \in Nat
  <2>1. Names \in SUBSET Nat
    BY TableUnits
  <2> QED
    BY <2>1, LMLists, RingMapping
<1> QED
  BY <1>6, <1>7 DEF Given

\* Of a table with its own keys.
LEMMA HCGiven ==
  ASSUME OwnTable(self), HC!Next, ret'[1] = "iterator", Len(ret') = 3
  PROVE  /\ Given(ret'[2], ret'[3])
         /\ \A i \in 1 .. ret'[2] : ret'[3][i] \in DOMAIN HC!Items'
<1>1. HC!D!DictNext
  BY HCCalled
<1>2. /\ ~ HC!D!Put /\ ~ HC!D!PutUnique /\ ~ HC!D!Get /\ ~ HC!D!Remove
      /\ ~ HC!D!Empty /\ ~ HC!D!Size
  BY Zenon DEF HC!D!Put, HC!D!PutUnique, HC!D!Get, HC!D!Remove, HC!D!Empty, HC!D!Size
<1>3. ~ HC!D!Array
  <2>1. ret' # <<"array">>
    OBVIOUS
  <2> QED
    BY <2>1, Zenon DEF HC!D!Array
<1>4. HC!D!Iterate
  BY <1>1, <1>2, <1>3 DEF HC!D!DictNext
<1>5. ret' # <<"iterator">>
  OBVIOUS
<1>6. /\ ret'[2] = HC!D!Cardinality(DOMAIN HC!Items) /\ Len(ret'[3]) = ret'[2]
      /\ {ret'[3][i] : i \in 1 .. ret'[2]} = DOMAIN HC!Items
      /\ HC!Items' = HC!Items
  BY <1>4, <1>5, Zenon DEF HC!D!Iterate
<1>7. HC!D!Cardinality(DOMAIN HC!Items) = self.size /\ self.size \in Nat
  <2>1. StringNames \in SUBSET Nat /\ Table(self, StringNames)
    BY HCData DEF OwnTable
  <2> QED
    BY <2>1, HCLists, TableFacts
<1> QED
  BY <1>6, <1>7 DEF Given

\* Of a list with its own keys.
LEMMA LCGiven ==
  ASSUME OwnRing(self), LC!Next, ret'[1] = "iterator", Len(ret') = 3
  PROVE  /\ Given(ret'[2], ret'[3])
         /\ \A i \in 1 .. ret'[2] : ret'[3][i] \in DOMAIN LC!Items'
<1>1. LC!D!DictNext
  BY LCCalled
<1>2. /\ ~ LC!D!Put /\ ~ LC!D!PutUnique /\ ~ LC!D!Get /\ ~ LC!D!Remove
      /\ ~ LC!D!Empty /\ ~ LC!D!Size
  BY Zenon DEF LC!D!Put, LC!D!PutUnique, LC!D!Get, LC!D!Remove, LC!D!Empty, LC!D!Size
<1>3. ~ LC!D!Array
  <2>1. ret' # <<"array">>
    OBVIOUS
  <2> QED
    BY <2>1, Zenon DEF LC!D!Array
<1>4. LC!D!Iterate
  BY <1>1, <1>2, <1>3 DEF LC!D!DictNext
<1>5. ret' # <<"iterator">>
  OBVIOUS
<1>6. /\ ret'[2] = LC!D!Cardinality(DOMAIN LC!Items) /\ Len(ret'[3]) = ret'[2]
      /\ {ret'[3][i] : i \in 1 .. ret'[2]} = DOMAIN LC!Items
      /\ LC!Items' = LC!Items
  BY <1>4, <1>5, Zenon DEF LC!D!Iterate
<1>7. LC!D!Cardinality(DOMAIN LC!Items) = self.size /\ self.size \in Nat
  <2>1. StringNames \in SUBSET Nat /\ Ring(self, StringNames)
    BY LCData DEF OwnRing
  <2> QED
    BY <2>1, LCLists, RingMapping
<1> QED
  BY <1>6, <1>7 DEF Given

\* An entry leaves the map only when it is removed, cleared or destroyed.
LEMMA HCKept ==
  ASSUME HC!D!DictNext, NEW n \in DOMAIN HC!Items, n \notin DOMAIN HC!Items'
  PROVE  ret'[1] \in {"clear", "destroy"} \/ (ret'[1] = "remove" /\ ret'[3] /\ ret'[2] = n)
<1>1. \A m, e : n \in DOMAIN HC!D!With(m, e)
  BY DEF HC!D!With
<1>2. \A m : m # n => n \in DOMAIN HC!D!Without(m)
  BY DEF HC!D!Without
<1>3. ~ UNCHANGED HC!Items /\ \A m, e : HC!Items' # HC!D!With(m, e)
  BY <1>1
<1>4. /\ ~ HC!D!Put /\ ~ HC!D!PutUnique /\ ~ HC!D!Get
      /\ ~ HC!D!Size /\ ~ HC!D!Array /\ ~ HC!D!Iterate
  BY <1>3, Zenon DEF HC!D!Put, HC!D!PutUnique, HC!D!Get, HC!D!Size, HC!D!Array, HC!D!Iterate
<1>5. CASE HC!D!Empty
  BY <1>5, Zenon DEF HC!D!Empty
<1>6. CASE HC!D!Remove
  <2>1. /\ ret'[1] = "remove" /\ HC!Items' = HC!D!Without(ret'[2])
        /\ \E e : ret' = <<"remove", ret'[2], TRUE, e>>
    BY <1>3, <1>6, Zenon DEF HC!D!Remove
  <2>2. ret'[3]
    <3>1. PICK m, e : ret' = <<"remove", m, TRUE, e>>
      BY <2>1, Zenon
    <3> QED
      BY <3>1, Zenon
  <2>3. ret'[2] = n
    <3>1. n \notin DOMAIN HC!D!Without(ret'[2])
      BY <2>1
    <3> QED
      BY <1>2, <3>1
  <2> QED
    BY <2>1, <2>2, <2>3
<1> QED
  BY <1>1, <1>4, <1>5, <1>6 DEF HC!D!DictNext

\* The same, of a map on a list.
LEMMA LCKept ==
  ASSUME LC!D!DictNext, NEW n \in DOMAIN LC!Items, n \notin DOMAIN LC!Items'
  PROVE  ret'[1] \in {"clear", "destroy"} \/ (ret'[1] = "remove" /\ ret'[3] /\ ret'[2] = n)
<1>1. \A m, e : n \in DOMAIN LC!D!With(m, e)
  BY DEF LC!D!With
<1>2. \A m : m # n => n \in DOMAIN LC!D!Without(m)
  BY DEF LC!D!Without
<1>3. ~ UNCHANGED LC!Items /\ \A m, e : LC!Items' # LC!D!With(m, e)
  BY <1>1
<1>4. /\ ~ LC!D!Put /\ ~ LC!D!PutUnique /\ ~ LC!D!Get
      /\ ~ LC!D!Size /\ ~ LC!D!Array /\ ~ LC!D!Iterate
  BY <1>3, Zenon DEF LC!D!Put, LC!D!PutUnique, LC!D!Get, LC!D!Size, LC!D!Array, LC!D!Iterate
<1>5. CASE LC!D!Empty
  BY <1>5, Zenon DEF LC!D!Empty
<1>6. CASE LC!D!Remove
  <2>1. /\ ret'[1] = "remove" /\ LC!Items' = LC!D!Without(ret'[2])
        /\ \E e : ret' = <<"remove", ret'[2], TRUE, e>>
    BY <1>3, <1>6, Zenon DEF LC!D!Remove
  <2>2. ret'[3]
    <3>1. PICK m, e : ret' = <<"remove", m, TRUE, e>>
      BY <2>1, Zenon
    <3> QED
      BY <3>1, Zenon
  <2>3. ret'[2] = n
    <3>1. n \notin DOMAIN LC!D!Without(ret'[2])
      BY <2>1
    <3> QED
      BY <1>2, <3>1
  <2> QED
    BY <2>1, <2>2, <2>3
<1> QED
  BY <1>1, <1>4, <1>5, <1>6 DEF LC!D!DictNext

\* Strings and the array of sort's client have no iterator.
LEMMA StringsGiveNone ==
  ASSUME SA!Next
  PROVE  ret'[1] # "iterator"
<1>1. \A op, s : SA!Changed(op, s) => ret'[1] = op
  BY DEF SA!Changed
<1>2. ~ (ret'[1] = "iterator" /\ (SA!Lower \/ SA!Upper \/ SA!LStrip \/ SA!RStrip \/ SA!Strip))
  BY <1>1, Zenon DEF SA!Lower, SA!Upper, SA!LStrip, SA!RStrip, SA!Strip
<1>3. \A class, c : SA!Translate(class, c) => ret'[1] # "iterator"
  BY <1>1 DEF SA!Translate
<1>4. \A x, y : /\ ret' = <<"copy", x>> \/ ret' = <<"slice", x>> \/ ret' = <<"append", x>>
                   \/ ret' = <<"insert", x>> \/ ret' = <<"clear", x>> \/ ret' = <<"replace", x>>
                   \/ ret' = <<"create">>
                   \/ ret' = <<"assign", y, x>> \/ ret' = <<"remove", y, x>>
                   => ret'[1] # "iterator"
  OBVIOUS
<1>5. SA!Destroy \/ SA!Copy \/ SA!Clear => ret'[1] # "iterator"
  BY <1>4, Zenon DEF SA!Destroy, SA!Copy, SA!Clear
<1>6. \A b, e : SA!Slice(b, e) => ret'[1] # "iterator"
  BY <1>4, Zenon DEF SA!Slice
<1>7. \A s, i : SA!Suffixed(s) \/ SA!Insert(s, i) => ret'[1] # "iterator"
  BY <1>4, Zenon DEF SA!Suffixed, SA!Insert, SA!NoRoom
<1>8. \A c, i : SA!Assign(c, i) \/ SA!Remove(i) => ret'[1] # "iterator"
  BY <1>4, Zenon DEF SA!Assign, SA!Remove
<1>9. \A old, new : SA!Replace(old, new) => ret'[1] # "iterator"
  BY <1>4, Zenon DEF SA!Replace
<1> QED
  BY <1>2, <1>3, <1>5, <1>6, <1>7, <1>8, <1>9, Zenon DEF SA!Next

\* What the pointers of a map's iterator may lead to.
Live == IF kind = "HashMap" THEN DOMAIN HM!Items
        ELSE IF kind = "LListMap" THEN DOMAIN LM!Items
        ELSE IF kind = "HashCSKMap" THEN DOMAIN HC!Items
        ELSE IF kind = "LListCSKMap" THEN DOMAIN LC!Items ELSE {}

\* What an iterator was made with.
Made(k, size, elements) ==
  /\ size \in Nat /\ Len(elements) \in Nat
  /\ IF k = "ArrayDeque" THEN size >= Len(elements) ELSE size = Len(elements)

\* Of every container.
Sound == LinesSound /\ PrioQueuesSound /\ MapsSound

\* A call that makes an iterator gives it the elements and their number.
LEMMA CallMakes ==
  ASSUME Sound, Call, UNCHANGED kind, ret'[1] = "iterator", Len(ret') = 3
  PROVE  /\ Made(kind, ret'[2], ret'[3])
         /\ IsMap => \A i \in 1 .. ret'[2] : ret'[3][i] \in Live'
<1>1. CASE CallLine
  <2>1. CASE kind = "ArrayDeque"
    <3>1. AD!DequeOK /\ AD!Next
      BY <1>1, <2>1 DEF CallLine, LinesSound, Sound
    <3>2. /\ ret'[2] \in Nat /\ Len(ret'[3]) \in Nat
          /\ ret'[2] >= Len(ret'[3])
      BY <3>1, ADGiven
    <3> QED
      BY <2>1, <3>2 DEF Made, IsMap
  <2>2. CASE kind # "ArrayDeque"
    <3>1. Given(ret'[2], ret'[3])
      BY <1>1, <2>2, AQGiven, LQGiven, ASGiven, LSGiven, LDGiven, ALGiven
         DEF CallLine, LinesSound, Sound
    <3>2. ~ IsMap
      BY <1>1 DEF CallLine, IsMap
    <3> QED
      BY <2>2, <3>1, <3>2 DEF Made, Given
  <2> QED
    BY <2>1, <2>2
<1>2. CASE CallPrioQueue
  <2>1. Given(ret'[2], ret'[3])
    BY <1>2, HQGiven, PQGiven DEF CallPrioQueue, PrioQueuesSound, Sound
  <2>2. ~ IsMap /\ kind # "ArrayDeque"
    BY <1>2 DEF CallPrioQueue, IsMap
  <2> QED
    BY <2>1, <2>2 DEF Made, Given
<1>3. CASE CallMap
  <2>1. kind # "ArrayDeque"
    BY <1>3 DEF CallMap
  <2>2. Given(ret'[2], ret'[3]) => Made(kind, ret'[2], ret'[3])
    BY <2>1 DEF Made, Given
  <2>3. CASE kind = "HashMap" /\ HM!Next
    <3>1. Table(self, Names)
      BY <2>3, HMSound DEF MapsSound, Sound
    <3> QED
      BY <2>2, <2>3, <3>1, HMGiven DEF Live
  <2>4. CASE kind = "LListMap" /\ LM!Next
    <3>1. Ring(self, Names)
      BY <2>4, LMSound DEF MapsSound, Sound
    <3> QED
      BY <2>2, <2>4, <3>1, LMGiven DEF Live
  <2>5. CASE kind = "HashCSKMap" /\ HC!Next
    <3>1. OwnTable(self)
      BY <2>5, HCSound DEF MapsSound, Sound
    <3> QED
      BY <2>2, <2>5, <3>1, HCGiven DEF Live
  <2>6. CASE kind = "LListCSKMap" /\ LC!Next
    <3>1. OwnRing(self)
      BY <2>6, LCSound DEF MapsSound, Sound
    <3> QED
      BY <2>2, <2>6, <3>1, LCGiven DEF Live
  <2>7. CASE kind = "HashBag" /\ HB!Next
    <3>1. BagTable(self)
      BY <2>7, BagSound DEF MapsSound, Sound
    <3>2. ~ IsMap
      BY <2>7 DEF IsMap
    <3> QED
      BY <2>2, <2>7, <3>1, <3>2, HBGiven
  <2> QED
    BY <1>3, <2>3, <2>4, <2>5, <2>6, <2>7 DEF CallMap
<1>4. ~ (kind = "String" /\ SA!Next) /\ ~ (kind = "sort" /\ Sort)
  BY StringsGiveNone DEF Sort
<1> QED
  BY <1>1, <1>2, <1>3, <1>4 DEF Call

\* What a call on a map with string keys takes out of it, the iterator knows of.
LEMMA CallKeeps ==
  ASSUME Sound, Call, UNCHANGED kind, kind \in {"HashCSKMap", "LListCSKMap"},
         NEW x \in Live, x \notin Live'
  PROVE  ret'[1] \in {"clear", "destroy"} \/ (ret'[1] = "remove" /\ ret'[3] /\ ret'[2] = x)
<1>1. CASE kind = "HashCSKMap"
  <2>1. HC!Next
    BY <1>1 DEF Call, CallLine, CallPrioQueue, CallMap
  <2>2. OwnTable(self)
    BY <1>1, HCSound DEF MapsSound, Sound
  <2>3. HC!D!DictNext
    BY <2>1, <2>2, HCCalled
  <2>4. x \in DOMAIN HC!Items /\ x \notin DOMAIN HC!Items'
    BY <1>1 DEF Live
  <2> QED
    BY <2>3, <2>4, HCKept
<1>2. CASE kind = "LListCSKMap"
  <2>1. LC!Next
    BY <1>2 DEF Call, CallLine, CallPrioQueue, CallMap
  <2>2. OwnRing(self)
    BY <1>2, LCSound DEF MapsSound, Sound
  <2>3. LC!D!DictNext
    BY <2>1, <2>2, LCCalled
  <2>4. x \in DOMAIN LC!Items /\ x \notin DOMAIN LC!Items'
    BY <1>2 DEF Live
  <2> QED
    BY <2>3, <2>4, LCKept
<1> QED
  BY <1>1, <1>2

\* What the client was given is a sequence, and one element more is, too.
LEMMA SeenNext ==
  ASSUME NEW n \in Nat, NEW s, s = [i \in 1 .. n |-> s[i]], NEW x, NEW t, t = Append(s, x)
  PROVE  /\ Len(s) = n
         /\ t = [i \in 1 .. n + 1 |-> t[i]]
         /\ t[n + 1] = x
         /\ \A i \in 1 .. n : t[i] = s[i]
<1> DEFINE S == {s[i] : i \in 1 .. n} \cup {x}
<1>1. s \in [1 .. n -> S] /\ x \in S
  OBVIOUS
<1> HIDE DEF S
<1>2. s \in Seq(S) /\ Len(s) = n
  BY <1>1
<1>3. t \in Seq(S) /\ Len(t) = n + 1
  BY <1>1, <1>2
<1> QED
  BY <1>1, <1>2, <1>3

\* The private data of the iterator, and what it may lead to.
IterInv ==
  iter # NULL =>
    /\ iter = [next |-> iter.next, size |-> iter.size, elements |-> iter.elements,
               freed |-> iter.freed]
    /\ Made(kind, iter.size, iter.elements)
    /\ iter.next \in Nat /\ iter.next <= iter.size
    /\ seen = [i \in 1 .. iter.next |-> seen[i]]
    /\ \A i \in 1 .. iter.next :
         i <= Len(iter.elements) =>
           seen[i] = iter.elements[i] \/ iter.elements[i] \in iter.freed
    /\ IsMap => \A i \in 1 .. Len(iter.elements) :
                  iter.elements[i] \in Live \cup iter.freed

\* It is all that IteratorsGiveAll asks for.
LEMMA IterInvGives == IterInv => IteratorsGiveAll
<1> SUFFICES ASSUME IterInv, iter # NULL PROVE IteratorsGiveAll
  BY DEF IteratorsGiveAll
<1>1. /\ iter.next \in Nat /\ seen = [i \in 1 .. iter.next |-> seen[i]]
      /\ Made(kind, iter.size, iter.elements) /\ iter.next <= iter.size
      /\ \A i \in 1 .. iter.next :
           i <= Len(iter.elements) =>
             seen[i] = iter.elements[i] \/ iter.elements[i] \in iter.freed
  BY DEF IterInv
<1>2. Len(seen) = iter.next
  BY <1>1, SeenNext
<1> QED
  BY <1>1, <1>2 DEF IteratorsGiveAll, Made

\* A new iterator has given nothing.
LEMMA IterCreated ==
  ASSUME Sound, Call, UNCHANGED kind, ret'[1] = "iterator", Len(ret') = 3,
         IteratorCreate(ret'[2], ret'[3])
  PROVE  IterInv'
<1> DEFINE size == ret'[2]
           e == ret'[3]
<1>1. Made(kind, size, e) /\ (IsMap => \A i \in 1 .. size : e[i] \in Live')
  BY CallMakes
<1>2. iter' = [next |-> 0, size |-> size, elements |-> e, freed |-> {}] /\ seen' = <<>>
  BY DEF IteratorCreate
<1> HIDE DEF size, e
<1>3. IsMap => size = Len(e)
  BY <1>1 DEF IsMap, Made
<1>4. /\ iter'.next = 0 /\ iter'.size = size /\ iter'.elements = e /\ iter'.freed = {}
      /\ kind' = kind /\ IsMap' = IsMap
  BY <1>2 DEF IsMap
<1>5. <<>> = [i \in 1 .. 0 |-> <<>>[i]]
  OBVIOUS
<1>6. 0 \in Nat /\ 0 <= size
  BY <1>1 DEF Made
<1> QED
  BY <1>1, <1>2, <1>3, <1>4, <1>5, <1>6 DEF IterInv

\* What a call on a map with string keys frees, the iterator does not follow.
LEMMA IterFreed ==
  ASSUME Sound, IterInv, Call, UNCHANGED <<kind, seen>>, iter # NULL,
         kind \in {"HashCSKMap", "LListCSKMap"},
         iter' = [iter EXCEPT !.freed = @ \cup Freed]
  PROVE  IterInv'
<1> DEFINE e == iter.elements
           freed == iter.freed \cup Freed
<1>1. /\ iter = [next |-> iter.next, size |-> iter.size, elements |-> e, freed |-> iter.freed]
      /\ Made(kind, iter.size, e) /\ iter.next \in Nat /\ iter.next <= iter.size
      /\ seen = [i \in 1 .. iter.next |-> seen[i]]
      /\ \A i \in 1 .. iter.next :
           i <= Len(e) => seen[i] = e[i] \/ e[i] \in iter.freed
      /\ \A i \in 1 .. Len(e) : e[i] \in Live \cup iter.freed
  BY DEF IterInv, IsMap
<1>2. iter' = [iter EXCEPT !.freed = freed]
  <2> HIDE DEF e
  <2> QED
    BY <1>1
<1>3. ASSUME NEW i \in 1 .. Len(e) PROVE e[i] \in Live' \cup freed
  <2>1. CASE e[i] \in iter.freed
    BY <2>1
  <2>2. CASE e[i] \in Live /\ e[i] \notin Live'
    <3>1. ret'[1] \in {"clear", "destroy"} \/ (ret'[1] = "remove" /\ ret'[3] /\ ret'[2] = e[i])
      BY <2>2, CallKeeps
    <3>2. e[i] \in Freed
      BY <3>1 DEF Freed
    <3> QED
      BY <3>2
  <2> QED
    BY <1>1, <2>1, <2>2
<1> HIDE DEF freed, e
<1>4. /\ iter' = [next |-> iter.next, size |-> iter.size, elements |-> e, freed |-> freed]
      /\ iter'.next = iter.next /\ iter'.size = iter.size /\ iter'.elements = e
      /\ iter'.freed = freed /\ seen' = seen /\ kind' = kind
  <2>1. iter' = [next |-> iter.next, size |-> iter.size, elements |-> e, freed |-> freed]
    <3>1. iter = [next |-> iter.next, size |-> iter.size, elements |-> e, freed |-> iter.freed]
      BY <1>1
    <3> QED
      BY ONLY <1>2, <3>1
  <2>2. seen' = seen /\ kind' = kind
    OBVIOUS
  <2> QED
    BY ONLY <2>1, <2>2
<1>5. \A i \in 1 .. iter.next :
        i <= Len(e) => seen[i] = e[i] \/ e[i] \in freed
  BY <1>1 DEF freed
<1>6. /\ iter' = [next |-> iter'.next, size |-> iter'.size,
                   elements |-> iter'.elements, freed |-> iter'.freed]
      /\ Made(kind', iter'.size, iter'.elements)
      /\ iter'.next \in Nat /\ iter'.next <= iter'.size
  BY ONLY <1>1, <1>4
<1>7. seen' = [i \in 1 .. iter'.next |-> seen'[i]]
  BY ONLY <1>1, <1>4
<1>8. \A i \in 1 .. iter'.next :
        i <= Len(iter'.elements) =>
          seen'[i] = iter'.elements[i] \/ iter'.elements[i] \in iter'.freed
  BY ONLY <1>4, <1>5
<1>9. \A i \in 1 .. Len(iter'.elements) : iter'.elements[i] \in Live' \cup iter'.freed
  BY ONLY <1>3, <1>4
<1> QED
  BY ONLY <1>6, <1>7, <1>8, <1>9 DEF IterInv

\* What leaves the object and the iterator's array alone.
LEMMA LiveSame ==
  ASSUME UNCHANGED <<kind, self>>
  PROVE  Live' = Live /\ IsMap' = IsMap
BY DEF Live, IsMap, HM!Items, HC!Items, LM!Items, LC!Items, HC!ShownEntries, LC!ShownEntries

\* The next element is one of the array, and leads to an entry that is still in
\* the map or was freed.
LEMMA IterNext ==
  ASSUME IterInv, UNCHANGED <<kind, self>>, NextElement(Pointee(Element(iter)))
  PROVE  IterInv'
<1> DEFINE e == iter.elements
           n == iter.next
           x == IF n < Len(e) /\ Element(iter) \notin iter.freed
                THEN Pointee(Element(iter)) ELSE garbage
<1>1. /\ iter # NULL /\ n < iter.size
      /\ iter' = [iter EXCEPT !.next = @ + 1]
      /\ seen' = Append(seen, x)
  BY DEF NextElement, HasNext
<1>2. /\ iter = [next |-> n, size |-> iter.size, elements |-> e, freed |-> iter.freed]
      /\ Made(kind, iter.size, e) /\ n \in Nat /\ n <= iter.size
      /\ seen = [i \in 1 .. n |-> seen[i]]
      /\ \A i \in 1 .. n : i <= Len(e) => seen[i] = e[i] \/ e[i] \in iter.freed
      /\ IsMap => \A i \in 1 .. Len(e) : e[i] \in Live \cup iter.freed
  BY <1>1 DEF IterInv
<1>3. iter.size \in Nat /\ Len(e) \in Nat
  BY <1>2 DEF Made
<1>4. n + 1 <= Len(e) => x = e[n + 1] \/ e[n + 1] \in iter.freed
  <2> SUFFICES ASSUME n + 1 <= Len(e), e[n + 1] \notin iter.freed PROVE x = e[n + 1]
    OBVIOUS
  <2>1. Element(iter) = e[n + 1] /\ n + 1 \in 1 .. Len(e) /\ n < Len(e)
    BY <1>2, <1>3 DEF Element
  <2>2. x = Pointee(e[n + 1])
    BY <2>1
  <2> HIDE DEF x, e, n
  <2>3. CASE IsMap
    <3>1. e[n + 1] \in Live
      BY <1>2, <2>1, <2>3
    <3>2. Pointee(e[n + 1]) = e[n + 1]
      BY <2>3, <3>1 DEF IsMap, Live, Pointee, InMap
    <3> QED
      BY <2>2, <3>2
  <2>4. CASE ~ IsMap
    <3>1. Pointee(e[n + 1]) = e[n + 1]
      BY <2>4 DEF IsMap, Pointee
    <3> QED
      BY <2>2, <3>1
  <2> QED
    BY <2>3, <2>4
<1> DEFINE t == seen'
<1>5. t = Append(seen, x)
  BY <1>1
<1> HIDE DEF x, e, n, t
<1>6. /\ t = [i \in 1 .. n + 1 |-> t[i]] /\ t[n + 1] = x
      /\ \A i \in 1 .. n : t[i] = seen[i]
  BY <1>2, <1>5, SeenNext
<1>7. \A i \in 1 .. n + 1 : i <= Len(e) => t[i] = e[i] \/ e[i] \in iter.freed
  <2>1. \A i \in 1 .. n + 1 : i \in 1 .. n \/ i = n + 1
    BY <1>2
  <2> QED
    BY <1>2, <1>4, <1>6, <2>1
<1>8. /\ iter' = [next |-> n + 1, size |-> iter.size, elements |-> e, freed |-> iter.freed]
      /\ iter'.next = n + 1 /\ iter'.size = iter.size /\ iter'.elements = e
      /\ iter'.freed = iter.freed /\ kind' = kind /\ self' = self
  BY <1>1, <1>2 DEF n
<1>9. n + 1 \in Nat /\ n + 1 <= iter.size
  BY <1>1, <1>2, <1>3
<1>10. Live' = Live /\ IsMap' = IsMap
  BY LiveSame
<1> QED
  BY <1>2, <1>6, <1>7, <1>8, <1>9, <1>10 DEF IterInv, t

\* Every step keeps it so.
LEMMA IterStep ==
  ASSUME Sound, IterInv, [Next]_vars
  PROVE  IterInv'
<1>1. ASSUME UNCHANGED <<kind, self, iter, seen>> PROVE IterInv'
  BY <1>1, LiveSame DEF IterInv
<1>2. CASE CallMethod /\ UNCHANGED kind
  <2>1. CASE iter = NULL
    <3>1. CASE ret'[1] = "iterator" /\ Len(ret') = 3
      BY <1>2, <2>1, <3>1, IterCreated DEF CallMethod
    <3>2. CASE UNCHANGED <<iter, seen>>
      BY <2>1, <3>2 DEF IterInv
    <3> QED
      BY <1>2, <2>1, <3>1, <3>2 DEF CallMethod
  <2>2. CASE iter # NULL
    BY <1>2, <2>2, IterFreed DEF CallMethod
  <2> QED
    BY <2>1, <2>2
<1>3. CASE Iterate /\ UNCHANGED kind
  <2>1. CASE NextElement(Pointee(Element(iter)))
    BY <1>3, <2>1, IterNext DEF Iterate
  <2>2. CASE IteratorDestroy
    BY <2>2 DEF IteratorDestroy, IterInv
  <2> QED
    BY <1>3, <2>1, <2>2 DEF Iterate
<1> QED
  BY <1>1, <1>2, <1>3 DEF Next, vars

\* An iterator gives the elements its container had when it was made, each once
\* and in order; that of a map with string keys, through every put, remove and
\* clear in between, those whose entries none of them freed: of the others, to
\* which it keeps pointers, nothing is said (iterator.c:52, hashcskmap.c:251), as of
\* what an ArrayDeque's gives behind the elements, whose number it is told too
\* large (arraydeque.c:229).
THEOREM IteratorsGiveTheElements == Spec => []IteratorsGiveAll
<1>1. Init => IterInv
  BY DEF Init, NoIterator, IterInv
<1>2. Sound /\ IterInv /\ [Next]_vars => IterInv'
  BY IterStep
<1>3. LinesSound /\ PrioQueuesSound /\ MapsSound => Sound
  BY DEF Sound
<1> QED
  BY <1>1, <1>2, <1>3, LinesAreSound, PrioQueuesAreSound, MapsAreSound, IterInvGives,
     PTL DEF Spec
=============================================================================
