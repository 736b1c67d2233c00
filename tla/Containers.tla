----------------------------- MODULE Containers -----------------------------
(* A client that creates one object of the ADT library, or P0's bag, or    *)
(* has an array to sort, and calls the methods in any order; `kind', `self' *)
(* and `ret' are as in Object. And an iterator of adts/iterator.c, a cursor *)
(* on an array that the container made for it: `iter' is NULL, or its      *)
(* private data, next, size and elements. That of a map holds pointers to  *)
(* the map's entries, here their keys' names, and iter.freed are those     *)
(* whose entries the map has freed, of which the client finds anything.    *)
(* `seen' is what the client was given, as it found it. The values and the *)
(* bounds are in the cfg file.                                             *)
EXTENDS Lines, Keyed

CONSTANTS INCREMENT, MAXTEXT, MAXLEN

ASSUME ClientAssumption == {INCREMENT, MAXTEXT, MAXLEN} \subseteq Nat

VARIABLES iter, seen

vars == <<kind, self, ret, iter, seen>>

SA == INSTANCE StringADT WITH
        Chars <- {"a", "A", " "},
        Pieces <- {<<>>, <<"a">>, <<" ">>, <<"a", "a">>, <<"A", " ">>},
        MAXSIZE <- MAXTEXT + 3

\* What an element of the container, or a pointer to an entry, leads to.
InMap(x, items) == IF x \in DOMAIN items THEN x ELSE garbage
Pointee(x) ==
  CASE kind = "HashMap" -> InMap(x, HM!Items)
    [] kind = "LListMap" -> InMap(x, LM!Items)
    [] kind = "HashCSKMap" -> InMap(x, HC!Items)
    [] kind = "LListCSKMap" -> InMap(x, LC!Items)
    [] OTHER -> x

NoIterator == iter = NULL /\ seen = <<>>

IteratorCreate(size, elements) ==
  /\ iter' = [next |-> 0, size |-> size, elements |-> elements, freed |-> {}]
  /\ seen' = <<>>

(* A plausible bug: one element more. *)
HasNext_Past(itd) == itd.next <= itd.size

HasNext(itd) == itd.next < itd.size

\* What elements[next] is: behind the array, anything.
Element(itd) ==
  IF itd.next < Len(itd.elements) THEN itd.elements[itd.next + 1] ELSE garbage

NextElement(pointee) ==
  /\ iter # NULL /\ HasNext(iter)
  /\ iter' = [iter EXCEPT !.next = @ + 1]
  /\ seen' = Append(seen, IF /\ iter.next < Len(iter.elements)
                             /\ Element(iter) \notin iter.freed
                          THEN pointee ELSE garbage)

IteratorDestroy == iter # NULL /\ iter' = NULL /\ seen' = <<>>

\* sort has no object: self is the array of the client.
NewArray == /\ \E n \in 0..MAXLEN : \E keys \in [1..n -> Priorities] :
                 self = [i \in 1..n |-> <<keys[i], i>>]
            /\ ret = <<"create">>
Sort == self' = MSort(self, Len(self)) /\ ret' = <<"sort">>

Create == \/ CreateLine
          \/ CreatePrioQueue
          \/ CreateMap
          \/ kind = "String" /\ SA!Init
          \/ kind = "sort" /\ NewArray

Call == \/ CallLine
        \/ CallPrioQueue
        \/ CallMap
        \/ kind = "String" /\ SA!Next
        \/ kind = "sort" /\ Sort

IsMap == kind \in {"HashMap", "LListMap", "HashCSKMap", "LListCSKMap"}

\* The pointers of the iterator to entries that this call frees.
Freed ==
  IF ret'[1] \in {"clear", "destroy"}
  THEN {iter.elements[i] : i \in 1..Len(iter.elements)}
  ELSE IF ret'[1] = "remove" /\ ret'[3] THEN {ret'[2]} ELSE {}

\* One iterator at a time. Its array is a copy, so that calls between its
\* steps matter only to those of maps, whose elements are pointers, and only
\* calls that change the map.
CallMethod ==
  /\ Call
  /\ \/ /\ iter = NULL
        /\ IF ret'[1] = "iterator" /\ Len(ret') = 3
           THEN IteratorCreate(ret'[2], ret'[3])
           ELSE UNCHANGED <<iter, seen>>
     \/ /\ iter # NULL /\ kind \in {"HashCSKMap", "LListCSKMap"}
        /\ ret'[1] \in {"put", "remove", "clear"}
        /\ iter' = [iter EXCEPT !.freed = @ \cup Freed]
        /\ UNCHANGED seen

Iterate == UNCHANGED <<self, ret>> /\ (NextElement(Pointee(Element(iter))) \/ IteratorDestroy)

Init == Create /\ NoIterator
Next == (CallMethod \/ Iterate) /\ UNCHANGED kind

Spec == Init /\ [][Next]_vars

-----------------------------------------------------------------------------
(* The private data are well formed after every call: indices are in range *)
(* and agree with the counts, no slot in use is indeterminate, linked lists *)
(* hold every allocated node exactly once (none is lost, none is freed and *)
(* still linked) and backwards is forwards reversed, heaps are ordered,    *)
(* what is hashed is in its bucket, and the load that decides on a resize, *)
(* which is kept incrementally, is size/capacity. Two things are excepted, *)
(* which StorageSuffices is about: an empty list that was trimmed has no   *)
(* array, and a copy of a string takes its buffer to be larger than it is, *)
(* and may write behind it; any other string's buffer has room for its     *)
(* text.                                                                   *)
StructuresSound ==
  /\ LinesSound
  /\ PrioQueuesSound
  /\ MapsSound
  /\ kind = "String" => SA!BufferOK

(* Queues, stacks, deques and lists, in arrays or linked, implement the    *)
(* same sequence: what a call returns, and what it frees, follows from the *)
(* calls before, whatever wrapped, grew or was freed in between; but the   *)
(* lengths an ArrayDeque reports are left to LengthsTold.                  *)
SequencesAreLines == [][StepIsLine]_vars

(* Priority queues give the least priority first and keep the order of     *)
(* arrival within one priority, heap or list.                              *)
PrioritiesAreStable == [][StepIsStable]_vars

(* Maps keep one entry per key, and free the key and the value of an entry *)
(* that is replaced or removed, once; a resize loses nothing. The maps with *)
(* string keys keep their own copy of a key when its value is replaced.    *)
MapsAreDictionaries == [][StepIsDict]_vars

(* The bag keeps equal members, counts them, and removes one at a time.    *)
BagsAreMultisets == [][kind = "HashBag" => HB!StepIsBag]_vars

(* The methods of a string leave the text their header says, through every *)
(* growth of the buffer; only st_copy makes a string that takes its buffer *)
(* to be larger than it is (stringADT.c:84).                               *)
StringsAreTexts == [][kind = "String" => SA!StepIsText]_vars

(* What a string answers about its text agrees with the meaning of the     *)
(* question, for all its parts: prefixes, suffixes, the first and the last *)
(* place of a substring, and the words split gives.                        *)
AnswersAreOfTheText == kind = "String" => SA!AnswersOK

(* sort puts an array in order: its elements are all there, in the order   *)
(* of their keys, and equal ones in the order in which they stood.         *)
StepSorts ==
  [/\ {self'[i] : i \in DOMAIN self'} = {self[i] : i \in DOMAIN self}
   /\ Len(self') = Len(self)
   /\ \A i, j \in DOMAIN self' : i < j =>
        \/ cmp(self'[i], self'[j]) < 0
        \/ cmp(self'[i], self'[j]) = 0 /\ self'[i][2] < self'[j][2]
  ]_<<self, ret>>
SortIsStable == [][kind = "sort" => StepSorts]_vars

(* An iterator gives the elements the container had when it was made, each *)
(* once and in order, whatever was called in between; that of a map, the   *)
(* entries that are still in the map, which a put or a resize leaves where *)
(* they are. Of an entry that the map has freed meanwhile it says nothing, *)
(* and neither of what an ArrayDeque's iterator gives behind the elements. *)
IteratorsGiveAll ==
  iter # NULL =>
    LET elements == iter.elements
        n == iter.next
    IN /\ Len(seen) = n
       /\ n <= iter.size
       /\ \A i \in 1..n :
            i <= Len(elements) =>
              seen[i] = elements[i] \/ elements[i] \in iter.freed
       /\ IF kind = "ArrayDeque" THEN iter.size >= Len(elements)
          ELSE iter.size = Len(elements)

(* deque.h:116, "returns an array containing all of the elements of the    *)
(* deque in proper sequence (from head to tail); returns the length of the *)
(* array in *len": the length that goes with an array, for toArray and for *)
(* an iterator, is that of the array.                                      *)
LengthsTold ==
  /\ kind = "ArrayDeque" /\ ret[1] = "toArray" /\ Len(ret) = 3 =>
       ret[3] = Len(ret[2])
  /\ iter # NULL => iter.size = Len(iter.elements)

(* arraylist.h:141, "trims the capacity of the arraylist to be the list's  *)
(* current size": a list has an array of its capacity, and a string a      *)
(* buffer for its text, whatever was called.                               *)
StorageSuffices ==
  /\ kind = "ArrayList" => DOMAIN self.theArray = 0..self.capacity - 1
  /\ kind = "String" => SA!Fits(self)
=============================================================================
