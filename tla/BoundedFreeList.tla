--------------------------- MODULE BoundedFreeList ---------------------------
(***************************************************************************)
(* The ticket free list of lab 5, labs/L4/lab5/boundedfreelist.c: a linked *)
(* list and a counter behind one mutex and one condition variable, driven  *)
(* by threads that get a ticket, sleep and put it back until SIGINT sets   *)
(* shutdown.                                                               *)
(*                                                                         *)
(* Getting the mutex is a step of its own; what a critical section then    *)
(* does, up to and including the unlock, is another.                       *)
(***************************************************************************)
EXTENDS Integers, Functions

CONSTANTS Blocking,     (* the threads that call blockingGetTicket          *)
          Nonblocking,  (* the threads that call nonblockingGetTicket       *)
          NTICKETS,
          NULL

Threads == Blocking \cup Nonblocking
Tickets == 0 .. NTICKETS - 1

ASSUME FreeListAssumption ==
  /\ NTICKETS \in Nat \ {0}
  /\ Blocking \cap Nonblocking = {}
  /\ NULL \notin Threads \cup Tickets

VARIABLES
  lock,         (* the thread that holds the mutex, or NULL                 *)
  cond,         (* the threads blocked on the condition variable            *)
  freeList,     (* the first free ticket, or NULL                           *)
  next,         (* next[x]: the link of ticket x                            *)
  freeTickets,
  shutdown,
  pc, ticket    (* of a thread: control, and the ticket it has, or NULL     *)

list == <<freeList, next, freeTickets>>
vars == <<lock, cond, list, shutdown, pc, ticket>>

\* initializeFreeList pushes the tickets in order, so the last one is first.
Init ==
  /\ lock = NULL
  /\ cond = {}
  /\ freeList = NTICKETS - 1
  /\ next = [x \in Tickets |-> IF x = 0 THEN NULL ELSE x - 1]
  /\ freeTickets = NTICKETS
  /\ shutdown = FALSE
  /\ pc = [t \in Threads |-> "loop"]
  /\ ticket = [t \in Threads |-> NULL]

\* onint.
Interrupt ==
  /\ ~ shutdown
  /\ shutdown' = TRUE
  /\ UNCHANGED <<lock, cond, list, pc, ticket>>

\* The while test of th_fxn.
Loop(t) ==
  /\ pc[t] = "loop"
  /\ pc' = [pc EXCEPT ![t] = IF shutdown THEN "done" ELSE "get"]
  /\ UNCHANGED <<lock, cond, list, shutdown, ticket>>

\* pthread_mutex_lock, on entry of a list operation or when
\* pthread_cond_wait returns.
Acquire(t, from, to) ==
  /\ pc[t] = from
  /\ lock = NULL
  /\ lock' = t
  /\ pc' = [pc EXCEPT ![t] = to]
  /\ UNCHANGED <<cond, list, shutdown, ticket>>

LockToGet(t) == Acquire(t, "get", "getting")

LockAfterWait(t) == t \notin cond /\ Acquire(t, "wait", "getting")

LockToPut(t) == Acquire(t, "put", "putting")

\* POSIX lets pthread_cond_wait return without a broadcast.
SpuriousWake(t) ==
  /\ t \in cond
  /\ cond' = cond \ {t}
  /\ UNCHANGED <<lock, list, shutdown, pc, ticket>>

\* pthread_cond_broadcast, pthread_mutex_unlock, return.
BroadcastAndReturn(t, to) ==
  /\ cond' = {}
  /\ lock' = NULL
  /\ pc' = [pc EXCEPT ![t] = to]
  /\ UNCHANGED shutdown

\* Mutant: the counter is not kept by a get.
Unlink_NoCount(t) ==
  /\ ticket' = [ticket EXCEPT ![t] = freeList]
  /\ freeList' = next[freeList]
  /\ UNCHANGED <<next, freeTickets>>

\* answer = freeList; freeList = answer->next; freeTickets--.
Unlink(t) ==
  /\ ticket' = [ticket EXCEPT ![t] = freeList]
  /\ freeList' = next[freeList]
  /\ freeTickets' = freeTickets - 1
  /\ UNCHANGED next

\* blockingGetTicket: the while loop around pthread_cond_wait.
WaitForTicket(t) ==
  /\ pc[t] = "getting"
  /\ t \in Blocking
  /\ freeTickets = 0
  /\ cond' = cond \cup {t}
  /\ lock' = NULL
  /\ pc' = [pc EXCEPT ![t] = "wait"]
  /\ UNCHANGED <<list, shutdown, ticket>>

BlockingGet(t) ==
  /\ pc[t] = "getting"
  /\ t \in Blocking
  /\ freeTickets # 0
  /\ Unlink(t)
  /\ BroadcastAndReturn(t, "use")

\* Mutant: the decrement is outside the test.
NonblockingGet_AlwaysCounts(t) ==
  /\ pc[t] = "getting"
  /\ t \in Nonblocking
  /\ ticket' = [ticket EXCEPT ![t] = freeList]
  /\ freeList' = IF freeList # NULL THEN next[freeList] ELSE NULL
  /\ freeTickets' = freeTickets - 1
  /\ BroadcastAndReturn(t, "use")
  /\ UNCHANGED next

\* nonblockingGetTicket tests the list, not the counter.
NonblockingGet(t) ==
  /\ pc[t] = "getting"
  /\ t \in Nonblocking
  /\ IF freeList # NULL THEN Unlink(t) ELSE UNCHANGED <<list, ticket>>
  /\ BroadcastAndReturn(t, "use")

\* Mutant: a thread that sees shutdown while asleep ends at once.
Use_EndsEarly(t) ==
  /\ pc[t] = "use"
  /\ pc' = [pc EXCEPT ![t] = CASE shutdown -> "done"
                              [] ~ shutdown /\ ticket[t] # NULL -> "put"
                              [] OTHER -> "loop"]
  /\ UNCHANGED <<lock, cond, list, shutdown, ticket>>

\* th_fxn sleeps, and puts the ticket back if it got one.
Use(t) ==
  /\ pc[t] = "use"
  /\ pc' = [pc EXCEPT ![t] = IF ticket[t] # NULL THEN "put" ELSE "loop"]
  /\ UNCHANGED <<lock, cond, list, shutdown, ticket>>

\* Mutants: putTicket does not broadcast; it does not link the old head.
PutTicket_NoBroadcast(t) ==
  /\ pc[t] = "putting"
  /\ next' = [next EXCEPT ![ticket[t]] = freeList]
  /\ freeList' = ticket[t]
  /\ freeTickets' = freeTickets + 1
  /\ ticket' = [ticket EXCEPT ![t] = NULL]
  /\ lock' = NULL
  /\ pc' = [pc EXCEPT ![t] = "loop"]
  /\ UNCHANGED <<cond, shutdown>>

PutTicket_NoLink(t) ==
  /\ pc[t] = "putting"
  /\ freeList' = ticket[t]
  /\ freeTickets' = freeTickets + 1
  /\ ticket' = [ticket EXCEPT ![t] = NULL]
  /\ BroadcastAndReturn(t, "loop")
  /\ UNCHANGED next

PutTicket(t) ==
  /\ pc[t] = "putting"
  /\ next' = [next EXCEPT ![ticket[t]] = freeList]
  /\ freeList' = ticket[t]
  /\ freeTickets' = freeTickets + 1
  /\ ticket' = [ticket EXCEPT ![t] = NULL]
  /\ BroadcastAndReturn(t, "loop")

ThreadStep(t) ==
  \/ Loop(t) \/ LockToGet(t) \/ LockAfterWait(t) \/ LockToPut(t)
  \/ WaitForTicket(t) \/ BlockingGet(t) \/ NonblockingGet(t)
  \/ Use(t) \/ PutTicket(t)

\* main returns once every thread has been joined.
Finished == /\ \A t \in Threads : pc[t] = "done"
            /\ UNCHANGED vars

Next ==
  \/ Interrupt
  \/ \E t \in Threads : ThreadStep(t) \/ SpuriousWake(t)
  \/ Finished

Spec == Init /\ [][Next]_vars

-----------------------------------------------------------------------------
Locked(t) == pc[t] \in {"getting", "putting"}

TypeOK ==
  /\ lock \in Threads \cup {NULL}
  /\ cond \subseteq Blocking
  /\ freeList \in Tickets \cup {NULL}
  /\ next \in [Tickets -> Tickets \cup {NULL}]
  /\ freeTickets \in Nat
  /\ shutdown \in BOOLEAN
  /\ pc \in [Threads -> {"loop", "get", "getting", "wait", "use", "put", "putting", "done"}]
  /\ ticket \in [Threads -> Tickets \cup {NULL}]

\* The list threaded through next from freeList is q[1], ..., q[n].
IsFreeList(q, n) ==
  /\ IsInjective(q)
  /\ freeList = IF n = 0 THEN NULL ELSE q[1]
  /\ \A i \in 1 .. n : next[q[i]] = IF i = n THEN NULL ELSE q[i + 1]

Held == {ticket[t] : t \in Threads} \ {NULL}

\* The linked list, the counter and the threads' tickets agree after any
\* interleaving of gets and puts: following next from freeList visits the
\* tickets that no thread has, each once, and freeTickets is their number.
\* In particular a blocking get, which trusts the counter, never follows a
\* NULL freeList, and the list never closes into a cycle.
FreeListSound ==
  \E q \in [1 .. freeTickets -> Tickets] :
    IsFreeList(q, freeTickets) /\ Range(q) = Tickets \ Held

\* No ticket is with two threads at once.
OneHolder ==
  \A t, u \in Threads : ticket[t] = ticket[u] /\ ticket[t] # NULL => t = u

\* No lost wake-up: a thread is blocked on the condition variable only while
\* there is no ticket for it to take.
NoLostWakeup == cond # {} => freeTickets = 0

\* The free list implements the pool: a get returns a ticket that was free,
\* a put gives back the one that was held.
Pool == INSTANCE TicketPool
          WITH free <- Tickets \ Held, holding <- ticket
ImplementsPool == Pool!Spec

\* After SIGINT every thread ends, the ones blocked in blockingGetTicket
\* included, main's joins return, and all tickets are back on the list.
ShutdownCompletes ==
  shutdown ~> (\A t \in Threads : pc[t] = "done") /\ freeTickets = NTICKETS
=============================================================================
