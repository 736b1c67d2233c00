------------------------------- MODULE Keyed --------------------------------
(* The objects of the ADT library whose elements have priorities or keys:  *)
(* priority queues, in a heap and in a list, and maps, in a table and in a *)
(* list, with the client's keys and with copies of strings; and P0's bag.  *)
EXTENDS Object

CONSTANTS Priorities, HEAPSIZE, INT_MAX, MAXSEQ,
          Names, Copies, TableSizes, MAX_CAPACITY, TRIGGER, UNITS, LoadFactor,
          StringNames,             \* the keys of the maps that copy them
          EqualNames, SingleNames  \* members of the bag that are equal to
                                   \* others, and that are equal to none

HQ == INSTANCE HeapPrioQueue WITH DEFAULT_HEAP_SIZE <- DEFAULT_CAPACITY,
                                  MAXSIZE <- HEAPSIZE
PQ == INSTANCE LListPrioQueue
HM == INSTANCE HashMap WITH Capacities <- TableSizes
LM == INSTANCE LListMap WITH SENTINEL <- NULL
\* The maps with string keys differ from the other two in who owns the keys
\* only, which few names show.
HC == INSTANCE HashCSKMap WITH Capacities <- TableSizes, Names <- StringNames
LC == INSTANCE LListCSKMap WITH SENTINEL <- NULL, Names <- StringNames
BagMembers == (EqualNames \X Copies) \cup (SingleNames \X {1})
HB == INSTANCE HashBag WITH Capacities <- TableSizes, Members <- BagMembers

ASSUME KeyedAssumption ==
  /\ HQ!HeapAssumption /\ PQ!NodesAssumption /\ HM!TableAssumption
  /\ StringNames \cup EqualNames \cup SingleNames \subseteq Nat

CreatePrioQueue == \/ kind = "HeapPrioQueue" /\ HQ!Init
                   \/ kind = "LListPrioQueue" /\ PQ!Init

CallPrioQueue == \/ kind = "HeapPrioQueue" /\ HQ!Next
                 \/ kind = "LListPrioQueue" /\ PQ!Next

CreateMap == \/ kind = "HashMap" /\ HM!Init
             \/ kind = "LListMap" /\ LM!Init
             \/ kind = "HashCSKMap" /\ HC!Init
             \/ kind = "LListCSKMap" /\ LC!Init
             \/ kind = "HashBag" /\ HB!Init

CallMap == \/ kind = "HashMap" /\ HM!Next
           \/ kind = "LListMap" /\ LM!Next
           \/ kind = "HashCSKMap" /\ HC!Next
           \/ kind = "LListCSKMap" /\ LC!Next
           \/ kind = "HashBag" /\ HB!Next

-----------------------------------------------------------------------------
\* No entry of the heap is less than its parent, the list is in order, and
\* both agree with their counts.
PrioQueuesSound == /\ kind = "HeapPrioQueue" => HQ!HeapOK
                   /\ kind = "LListPrioQueue" => PQ!ListOK

\* A call is one of the queue that prioqueue.h promises.
StepIsStable == /\ kind = "HeapPrioQueue" => HQ!StepIsStable
                /\ kind = "LListPrioQueue" => PQ!StepIsStable

\* What is hashed is in its bucket, once per name in a map, linked lists have
\* every node once, and the load is size/capacity.
MapsSound ==
  /\ kind = "HashMap" => HM!TableOK /\ HM!LoadIsSizeByCapacity
  /\ kind = "LListMap" => LM!ListOK
  /\ kind = "HashCSKMap" => HC!TableOK /\ HC!LoadIsSizeByCapacity
  /\ kind = "LListCSKMap" => LC!ListOK
  /\ kind = "HashBag" => HB!TableOK /\ HB!LoadIsSizeByCapacity

\* A call is one of the map that map.h and cskmap.h promise.
StepIsDict ==
  /\ kind = "HashMap" => HM!StepIsDict
  /\ kind = "LListMap" => LM!StepIsDict
  /\ kind = "HashCSKMap" => HC!StepIsDict
  /\ kind = "LListCSKMap" => LC!StepIsDict

-----------------------------------------------------------------------------
(* sort.c, the merge sort that P0's tests of the bag and psbv3.c call, as   *)
(* operators on arrays, whose elements are <<key, origin>>: cmp compares    *)
(* the keys, and origin, where the element stood first, shows whether equal *)
(* elements keep their order. malloc of the scratch array is assumed to     *)
(* succeed: sort does not test it.                                          *)

cmp(v1, v2) == v1[1] - v2[1]

(* A plausible bug: of two equal elements, the second half's goes first. *)
IsLeft_Strict(left, right, i, j) ==
  i <= Len(left) /\ (j > Len(right) \/ cmp(left[i], right[j]) < 0)

\* With left[i] and right[j] next, merge takes the one of left.
IsLeft(left, right, i, j) ==
  i <= Len(left) /\ (j > Len(right) \/ cmp(left[i], right[j]) <= 0)

\* Two sorted stretches become one in scratch, l1[n] of whose first n
\* elements are those of left.
Merge(left, right) ==
  LET l1[n \in 0..Len(left) + Len(right)] ==
        IF n = 0 THEN 0
        ELSE LET l == l1[n - 1]
             IN IF IsLeft(left, right, l + 1, n - l) THEN l + 1 ELSE l
  IN [n \in 1..Len(left) + Len(right) |->
        IF l1[n] > l1[n - 1] THEN left[l1[n]] ELSE right[n - l1[n]]]

\* The array from index low to high (counted from 0) when msort is done.
MSort(a, size) ==
  LET sorted[r \in (0..size) \X (-1..size - 1)] ==
        LET low == r[1]
            high == r[2]
            mid == (low + high) \div 2
        IN IF low < high
           THEN Merge(sorted[<<low, mid>>], sorted[<<mid + 1, high>>])
           ELSE SubSeq(a, low + 1, high + 1)
  IN sorted[<<0, size - 1>>]
=============================================================================
