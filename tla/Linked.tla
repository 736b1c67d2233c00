------------------------------- MODULE Linked -------------------------------
(* The linked lists of the ADT library: nodes on the heap, each with the   *)
(* address of the next one, up to NULL or to the sentinel of a ring. And   *)
(* the tables of its hash maps, and of P0's bag: buckets 0 to n - 1, each  *)
(* a linked list of which the sequence of its elements is kept.            *)
EXTENDS Integers, Sequences

\* The nodes from first on, as the loops of purge, freeList and genArray
\* visit them; nodes are the allocated ones, the only ones they may read.
Chain(first, link, nodes, end) ==
  LET from[p \in nodes \cup {end}] ==
        IF p = end THEN <<>> ELSE <<p>> \o from[link[p]]
  IN from[first]

\* s has every one of the nodes once, in the order of the links.
IsChain(s, first, link, nodes, end) ==
  /\ s \in Seq(nodes) /\ end \notin nodes
  /\ nodes = {s[i] : i \in 1..Len(s)}
  /\ \A i, j \in 1..Len(s) : s[i] = s[j] => i = j
  /\ first = IF s = <<>> THEN end ELSE s[1]
  /\ \A i \in 1..Len(s) :
       link[s[i]] = IF i = Len(s) THEN end ELSE s[i + 1]

\* The elements of n buckets as purge, resize and keys visit them.
InBuckets(buckets, n) ==
  LET upto[i \in 0..n] ==
        IF i = 0 THEN <<>> ELSE upto[i - 1] \o buckets[i - 1]
  IN upto[n]

\* n buckets on which all elements of a sequence were pushed in turn, the
\* k-th on bucket place[k].
Pushed(all, place, n) ==
  LET after[k \in 0..Len(all)] ==
        IF k = 0 THEN [i \in 0..n - 1 |-> <<>>]
        ELSE [after[k - 1] EXCEPT ![place[k]] = <<all[k]>> \o @]
  IN after[Len(all)]

\* A bucket without its j-th element.
Unlinked(chain, j) ==
  [k \in 1..Len(chain) - 1 |-> IF k < j THEN chain[k] ELSE chain[k + 1]]
=============================================================================
