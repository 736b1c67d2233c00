----------------------------- MODULE TicketPool -----------------------------
(***************************************************************************)
(* What the ticket free list of lab 5 promises its threads: a get hands    *)
(* out a ticket nobody else has, or nothing when there is none; a put      *)
(* gives it back.  BoundedFreeList implements this.                        *)
(***************************************************************************)
CONSTANTS Threads, Tickets, NULL

VARIABLES free,    (* the tickets nobody has                                *)
          holding  (* holding[t]: the ticket thread t has, or NULL          *)

Init ==
  /\ free = Tickets
  /\ holding = [t \in Threads |-> NULL]

Get(t) ==
  /\ holding[t] = NULL
  /\ \E x \in free : /\ free' = free \ {x}
                     /\ holding' = [holding EXCEPT ![t] = x]

Put(t) ==
  /\ holding[t] # NULL
  /\ free' = free \cup {holding[t]}
  /\ holding' = [holding EXCEPT ![t] = NULL]

Next == \E t \in Threads : Get(t) \/ Put(t)

Spec == Init /\ [][Next]_<<free, holding>>
=============================================================================
