---------------------------- MODULE ThreadsProofs ----------------------------
(***************************************************************************)
(* The programs of threads with a mutex and a condition of labs 5, 6 and   *)
(* 8.  The free list, for any number of threads and tickets: it is sound,  *)
(* no wake-up is lost, no ticket is with two threads, and the list         *)
(* implements TicketPool.  The work queue, for any number of items: no     *)
(* item is used after it was freed, and active is at every moment the      *)
(* number of items that are not freed.  Producer and consumer, for an      *)
(* input of any length and a buffer of any size: lines come out in the     *)
(* order of stdin, and the copy of each is freed once.                     *)
(***************************************************************************)
EXTENDS BoundedFreeList, WorkQueue, ProdCons, QueueLemmas, SequenceTheorems

-----------------------------------------------------------------------------
(* The free list.                                                          *)

\* Who may hold the mutex, have a ticket, or be blocked, by control point.
ControlInv ==
  /\ \A t \in Threads : Locked(t) => lock = t
  /\ \A t \in Threads : pc[t] \in {"put", "putting"} => ticket[t] # NULL
  /\ \A t \in Threads : pc[t] \notin {"use", "put", "putting"} => ticket[t] = NULL
  /\ \A t \in cond : pc[t] = "wait"

\* The inductive invariant: the properties and the control points they need.
FreeListInv == TypeOK /\ ControlInv /\ OneHolder /\ NoLostWakeup /\ FreeListSound

-----------------------------------------------------------------------------
(* Lists: what unlinking the head and linking a ticket in front do.        *)

\* The head of a list that is not empty is a free ticket, and what follows
\* it is the list of the others.
LEMMA UnlinkList ==
  ASSUME TypeOK, FreeListSound, freeTickets # 0, NEW t \in Threads, Unlink(t),
         ticket[t] = NULL
  PROVE  /\ freeList \in Tickets \ Held
         /\ freeTickets' \in Nat
         /\ freeList' \in Tickets \cup {NULL}
         /\ Held' = Held \cup {freeList}
         /\ FreeListSound'
<1>0. freeTickets \in Nat \ {0} /\ NULL \notin Tickets
  BY FreeListAssumption DEF TypeOK
<1>1. PICK q \in [1 .. freeTickets -> Tickets] :
        IsFreeList(q, freeTickets) /\ Range(q) = Tickets \ Held
  BY DEF FreeListSound
<1>n. PICK n \in Nat \ {0} : n = freeTickets
  BY <1>0
<1>5. PICK r \in [1 .. n - 1 -> Tickets] : \A i \in 1 .. n - 1 : r[i] = q[i + 1]
  <2> DEFINE s == [i \in 1 .. n - 1 |-> q[i + 1]]
  <2>1. s \in [1 .. n - 1 -> Tickets] /\ \A i \in 1 .. n - 1 : s[i] = q[i + 1]
    BY <1>1, <1>n
  <2> QED
    BY <2>1
<1>2. freeList = q[1] /\ freeList \in Tickets \ Held
  BY <1>0, <1>n, <1>1 DEF IsFreeList, Range
<1>3. /\ ticket' = [ticket EXCEPT ![t] = freeList]
      /\ freeTickets' = n - 1
      /\ next' = next
      /\ freeList' = IF n = 1 THEN NULL ELSE q[2]
  BY <1>0, <1>n, <1>1, <1>2 DEF Unlink, IsFreeList
<1>4. Held' = Held \cup {freeList}
  <2>1. \A u \in Threads : ticket'[u] = IF u = t THEN freeList ELSE ticket[u]
    BY <1>3 DEF TypeOK
  <2> QED
    BY <2>1, <1>0, <1>2 DEF Held
<1>6. \A i, j \in 1 .. n : q[i] = q[j] => i = j
  BY <1>1, <1>n DEF IsFreeList, IsInjective
<1>7. IsFreeList(r, n - 1)'
  <2>1. IsInjective(r)
    <3>1. \A i, j \in 1 .. n - 1 : r[i] = r[j] => i + 1 = j + 1
      BY <1>0, <1>n, <1>5, <1>6
    <3> QED
      BY <1>0, <1>n, <1>5, <3>1 DEF IsInjective
  <2>2. freeList' = IF n - 1 = 0 THEN NULL ELSE r[1]
    BY <1>0, <1>n, <1>3, <1>5
  <2>3. \A i \in 1 .. n - 1 : next[r[i]] = IF i = n - 1 THEN NULL ELSE r[i + 1]
    <3>1. \A i \in 1 .. n : next[q[i]] = IF i = n THEN NULL ELSE q[i + 1]
      BY <1>1, <1>n DEF IsFreeList
    <3> QED
      BY <1>0, <1>n, <1>5, <3>1
  <2> QED
    BY <2>1, <2>2, <2>3, <1>3 DEF IsFreeList
<1>8. Range(r) = Tickets \ Held'
  <2>1. \A i \in 1 .. n - 1 : r[i] \in Range(q) /\ r[i] # freeList
    BY <1>0, <1>n, <1>1, <1>2, <1>5, <1>6 DEF Range
  <2>2. ASSUME NEW x \in Range(q), x # freeList
        PROVE  x \in Range(r)
    <3>1. PICK i \in 1 .. n : x = q[i]
      BY <1>1, <1>n, <2>2 DEF Range
    <3>2. i - 1 \in 1 .. n - 1 /\ r[i - 1] = x
      BY <1>0, <1>n, <1>2, <1>5, <2>2, <3>1
    <3> QED
      BY <1>5, <3>2 DEF Range
  <2>3. Range(r) = Range(q) \ {freeList}
    BY <1>5, <2>1, <2>2 DEF Range
  <2> QED
    BY <2>3, <1>1, <1>4
<1>9. FreeListSound'
  BY <1>3, <1>5, <1>7, <1>8 DEF FreeListSound
<1> QED
  BY <1>0, <1>n, <1>1, <1>2, <1>3, <1>4, <1>9

\* A ticket put in front of the list of the others makes it the first.
LEMMA LinkList ==
  ASSUME TypeOK, FreeListSound, OneHolder, NEW t \in Threads, PutTicket(t),
         ticket[t] # NULL
  PROVE  /\ freeTickets' \in Nat
         /\ Held' = Held \ {ticket[t]}
         /\ ticket[t] \in Tickets
         /\ FreeListSound'
<1>0. freeTickets \in Nat /\ ticket[t] \in Tickets /\ NULL \notin Tickets
  BY FreeListAssumption DEF TypeOK
<1>1. PICK q \in [1 .. freeTickets -> Tickets] :
        IsFreeList(q, freeTickets) /\ Range(q) = Tickets \ Held
  BY DEF FreeListSound
<1>2. PICK n \in Nat, x \in Tickets : n = freeTickets /\ x = ticket[t]
  BY <1>0
<1>3. /\ ticket' = [ticket EXCEPT ![t] = NULL]
      /\ freeTickets' = n + 1
      /\ next' = [next EXCEPT ![x] = freeList]
      /\ freeList' = x
  BY <1>2 DEF PutTicket
<1>4. Held' = Held \ {x} /\ x \in Held
  <2>1. \A u \in Threads : ticket'[u] = IF u = t THEN NULL ELSE ticket[u]
    BY <1>3 DEF TypeOK
  <2>2. \A u \in Threads : ticket[u] = x => u = t
    BY <1>0, <1>2 DEF OneHolder
  <2> QED
    BY <2>1, <2>2, <1>0, <1>2 DEF Held
<1>5. PICK r \in [1 .. n + 1 -> Tickets] :
        r[1] = x /\ \A i \in 2 .. n + 1 : r[i] = q[i - 1]
  <2> DEFINE s == [i \in 1 .. n + 1 |-> IF i = 1 THEN x ELSE q[i - 1]]
  <2>1. ASSUME NEW i \in 1 .. n + 1
        PROVE  s[i] \in Tickets
    <3>1. i # 1 => i - 1 \in 1 .. n
      OBVIOUS
    <3> QED
      BY <3>1, <1>1, <1>2
  <2>2. s \in [1 .. n + 1 -> Tickets]
    BY <2>1
  <2>3. s[1] = x /\ \A i \in 2 .. n + 1 : s[i] = q[i - 1]
    BY <1>2
  <2> QED
    BY <2>2, <2>3
<1>6. /\ \A i, j \in 1 .. n : q[i] = q[j] => i = j
      /\ \A i \in 1 .. n : q[i] \in Tickets \ Held
      /\ \A i \in 1 .. n : next[q[i]] = IF i = n THEN NULL ELSE q[i + 1]
      /\ freeList = IF n = 0 THEN NULL ELSE q[1]
  BY <1>1, <1>2 DEF IsFreeList, IsInjective, Range
<1>7. IsFreeList(r, n + 1)'
  <2>1. IsInjective(r)
    <3>1. \A i \in 2 .. n + 1 : i - 1 \in 1 .. n /\ r[i] # x
      BY <1>4, <1>5, <1>6
    <3>2. \A i, j \in 2 .. n + 1 : r[i] = r[j] => i = j
      BY <1>5, <1>6, <3>1
    <3> QED
      BY <1>5, <3>1, <3>2 DEF IsInjective
  <2>2. freeList' = IF n + 1 = 0 THEN NULL ELSE r[1]
    BY <1>3, <1>5
  <2>3. ASSUME NEW i \in 1 .. n + 1
        PROVE  next'[r[i]] = IF i = n + 1 THEN NULL ELSE r[i + 1]
    <3>1. CASE i = 1
      BY <3>1, <1>3, <1>5, <1>6 DEF TypeOK
    <3>2. CASE i # 1
      <4>1. i - 1 \in 1 .. n /\ r[i] = q[i - 1] /\ r[i] # x
        BY <3>2, <1>4, <1>5, <1>6
      <4>2. next'[r[i]] = next[q[i - 1]]
        BY <4>1, <1>3, <1>5 DEF TypeOK
      <4> QED
        BY <4>1, <4>2, <1>5, <1>6
    <3> QED
      BY <3>1, <3>2
  <2> QED
    BY <2>1, <2>2, <2>3, <1>3 DEF IsFreeList
<1>8. Range(r) = Tickets \ Held'
  <2>1. \A i \in 1 .. n + 1 : r[i] \in Range(q) \cup {x}
    <3>1. \A i \in 2 .. n + 1 : i - 1 \in DOMAIN q /\ r[i] = q[i - 1]
      BY <1>1, <1>2, <1>5
    <3> QED
      BY <1>5, <3>1 DEF Range
  <2>2. ASSUME NEW i \in 1 .. n
        PROVE  q[i] \in Range(r)
    <3>1. i + 1 \in 2 .. n + 1 /\ r[i + 1] = q[i]
      BY <1>5
    <3> QED
      BY <1>5, <3>1 DEF Range
  <2>3. x \in Range(r)
    BY <1>5 DEF Range
  <2>4. Range(r) \subseteq Range(q) \cup {x}
    BY <1>5, <2>1 DEF Range
  <2>5. Range(q) \subseteq Range(r)
    BY <1>1, <1>2, <2>2 DEF Range
  <2>6. Range(r) = Range(q) \cup {x}
    BY <2>3, <2>4, <2>5
  <2> QED
    BY <2>6, <1>1, <1>4
<1>9. FreeListSound'
  BY <1>3, <1>5, <1>7, <1>8 DEF FreeListSound
<1> QED
  BY <1>0, <1>2, <1>3, <1>4, <1>9

-----------------------------------------------------------------------------
(* The inductive invariant.                                                *)

\* initializeFreeList builds a list of all tickets, and the counter agrees.
LEMMA FreeListInit == Init => FreeListInv
<1> SUFFICES ASSUME Init
             PROVE  FreeListInv
  OBVIOUS
<1>1. TypeOK
  <2>1. NTICKETS - 1 \in Tickets /\ \A x \in Tickets : x # 0 => x - 1 \in Tickets
    BY FreeListAssumption DEF Tickets
  <2>2. next \in [Tickets -> Tickets \cup {NULL}]
    BY <2>1 DEF Init
  <2> QED
    BY <2>1, <2>2, FreeListAssumption DEF Init, TypeOK
<1>3. ControlInv /\ OneHolder /\ NoLostWakeup
  BY DEF Init, ControlInv, OneHolder, NoLostWakeup, Locked
<1>2. FreeListSound
  <2>1. PICK q \in [1 .. NTICKETS -> Tickets] : \A i \in 1 .. NTICKETS : q[i] = NTICKETS - i
    <3> DEFINE s == [i \in 1 .. NTICKETS |-> NTICKETS - i]
    <3>1. s \in [1 .. NTICKETS -> Tickets] /\ \A i \in 1 .. NTICKETS : s[i] = NTICKETS - i
      BY FreeListAssumption DEF Tickets
    <3> QED
      BY <3>1
  <2>2. IsInjective(q)
    BY <2>1, FreeListAssumption DEF IsInjective
  <2>3. IsFreeList(q, NTICKETS)
    <3>1. freeList = q[1]
      BY <2>1, FreeListAssumption DEF Init
    <3>2. ASSUME NEW i \in 1 .. NTICKETS
          PROVE  next[q[i]] = IF i = NTICKETS THEN NULL ELSE q[i + 1]
      <4>1. q[i] \in Tickets /\ (q[i] = 0 <=> i = NTICKETS)
        BY <2>1, FreeListAssumption
      <4>2. i # NTICKETS => q[i + 1] = q[i] - 1
        BY <2>1, FreeListAssumption
      <4> QED
        BY <4>1, <4>2 DEF Init
    <3> QED
      BY <2>2, <3>1, <3>2, FreeListAssumption DEF IsFreeList
  <2>4. Range(q) = Tickets
    <3>1. \A x \in Tickets : NTICKETS - x \in 1 .. NTICKETS /\ q[NTICKETS - x] = x
      BY <2>1, FreeListAssumption DEF Tickets
    <3> QED
      BY <2>1, <3>1 DEF Range
  <2>5. Held = {}
    BY DEF Held, Init
  <2> QED
    BY <2>1, <2>3, <2>4, <2>5 DEF FreeListSound, Init
<1> QED
  BY <1>1, <1>2, <1>3 DEF FreeListInv

\* A step that touches neither the list nor the threads' tickets.
LEMMA ControlStep ==
  ASSUME FreeListInv, UNCHANGED <<list, ticket>>, (TypeOK /\ ControlInv /\ NoLostWakeup)'
  PROVE  FreeListInv'
<1>1. OneHolder'
  BY DEF FreeListInv, OneHolder
<1>2. PICK q \in [1 .. freeTickets -> Tickets] :
        IsFreeList(q, freeTickets) /\ Range(q) = Tickets \ Held
  BY DEF FreeListInv, FreeListSound
<1>3. IsFreeList(q, freeTickets)' /\ Held' = Held
  BY <1>2 DEF IsFreeList, Held, list
<1>4. FreeListSound'
  BY <1>2, <1>3 DEF FreeListSound, list
<1> QED
  BY <1>1, <1>4 DEF FreeListInv

\* A get that finds a ticket, blocking or not, keeps the invariant.
LEMMA TakeStep ==
  ASSUME FreeListInv, NEW t \in Threads, pc[t] = "getting", freeTickets # 0,
         Unlink(t), BroadcastAndReturn(t, "use")
  PROVE  FreeListInv'
<1>1. ticket[t] = NULL /\ lock = t /\ NULL \notin Tickets
  BY FreeListAssumption DEF FreeListInv, ControlInv, Locked
<1>2. /\ freeList \in Tickets \ Held
      /\ freeTickets' \in Nat
      /\ freeList' \in Tickets \cup {NULL}
      /\ FreeListSound'
  BY <1>1, UnlinkList DEF FreeListInv
<1>3. ticket' = [ticket EXCEPT ![t] = freeList] /\ next' = next
  BY DEF Unlink
<1>4. TypeOK'
  BY <1>2, <1>3 DEF FreeListInv, TypeOK, BroadcastAndReturn
<1>5. ControlInv'
  BY <1>1, <1>2, <1>3 DEF FreeListInv, TypeOK, ControlInv, Locked, BroadcastAndReturn
<1>6. OneHolder'
  BY <1>1, <1>2, <1>3 DEF FreeListInv, TypeOK, OneHolder, Held
<1>7. NoLostWakeup'
  BY DEF NoLostWakeup, BroadcastAndReturn
<1> QED
  BY <1>2, <1>4, <1>5, <1>6, <1>7 DEF FreeListInv

\* putTicket, which links the ticket and wakes the waiting threads, keeps it.
LEMMA PutStep ==
  ASSUME FreeListInv, NEW t \in Threads, PutTicket(t)
  PROVE  FreeListInv'
<1>1. ticket[t] # NULL /\ lock = t /\ NULL \notin Tickets
  BY FreeListAssumption DEF FreeListInv, ControlInv, Locked, PutTicket
<1>2. freeTickets' \in Nat /\ ticket[t] \in Tickets /\ FreeListSound'
  BY <1>1, LinkList DEF FreeListInv
<1>3. TypeOK'
  BY <1>2 DEF FreeListInv, TypeOK, PutTicket, BroadcastAndReturn
<1>4. ControlInv'
  BY <1>1 DEF FreeListInv, TypeOK, ControlInv, Locked, PutTicket, BroadcastAndReturn
<1>5. OneHolder'
  BY <1>1 DEF FreeListInv, TypeOK, OneHolder, PutTicket
<1>6. NoLostWakeup'
  BY DEF NoLostWakeup, PutTicket, BroadcastAndReturn
<1> QED
  BY <1>2, <1>3, <1>4, <1>5, <1>6 DEF FreeListInv

\* A nonblocking get that finds a list finds a counter that agrees.
LEMMA ListNotEmpty == FreeListInv => (freeTickets = 0 <=> freeList = NULL)
<1> SUFFICES ASSUME FreeListInv
             PROVE  freeTickets = 0 <=> freeList = NULL
  OBVIOUS
<1>1. PICK q \in [1 .. freeTickets -> Tickets] : IsFreeList(q, freeTickets)
  BY DEF FreeListInv, FreeListSound
<1> QED
  BY <1>1, FreeListAssumption DEF FreeListInv, TypeOK, IsFreeList

\* So does every step of a thread.
LEMMA ThreadStepIInv ==
  ASSUME FreeListInv, NEW t \in Threads, ThreadStep(t)
  PROVE  FreeListInv'
<1> DEFINE Rest == TypeOK /\ ControlInv /\ NoLostWakeup
<1> USE FreeListAssumption
<1>0. Rest
  BY DEF FreeListInv
<1>1. CASE Loop(t)
  <2>1. Rest' /\ UNCHANGED <<list, ticket>>
    BY <1>0, <1>1 DEF Loop, TypeOK, ControlInv, Locked, NoLostWakeup, list
  <2> QED
    BY <2>1, ControlStep
<1>2. CASE LockToGet(t) \/ LockAfterWait(t) \/ LockToPut(t)
  <2>1. PICK to \in {"getting", "putting"} :
          /\ pc[t] = "put" <=> to = "putting"
          /\ lock = NULL /\ lock' = t
          /\ pc[t] \in {"get", "wait", "put"} /\ t \notin cond
          /\ pc' = [pc EXCEPT ![t] = to]
          /\ UNCHANGED <<cond, list, shutdown, ticket>>
    BY <1>0, <1>2 DEF LockToGet, LockAfterWait, LockToPut, Acquire, ControlInv
  <2>2. TypeOK'
    BY <1>0, <2>1 DEF TypeOK, list
  <2>3. ControlInv'
    <3>1. \A u \in Threads : ~ Locked(u)
      BY <1>0, <2>1 DEF ControlInv
    <3> QED
      BY <1>0, <2>1, <3>1 DEF TypeOK, ControlInv, Locked
  <2>4. NoLostWakeup'
    BY <1>0, <2>1 DEF NoLostWakeup, list
  <2> QED
    BY <2>1, <2>2, <2>3, <2>4, ControlStep
<1>3. CASE WaitForTicket(t)
  <2>1. Rest' /\ UNCHANGED <<list, ticket>>
    BY <1>0, <1>3 DEF WaitForTicket, TypeOK, ControlInv, Locked, NoLostWakeup, list
  <2> QED
    BY <2>1, ControlStep
<1>4. CASE BlockingGet(t)
  BY <1>4, TakeStep DEF BlockingGet
<1>5. CASE NonblockingGet(t)
  <2>1. CASE freeList # NULL
    BY <1>5, <2>1, TakeStep, ListNotEmpty DEF NonblockingGet
  <2>2. CASE freeList = NULL
    <3>1. Rest' /\ UNCHANGED <<list, ticket>>
      BY <1>0, <1>5, <2>2
      DEF NonblockingGet, BroadcastAndReturn, TypeOK, ControlInv, Locked, NoLostWakeup, list
    <3> QED
      BY <3>1, ControlStep
  <2> QED
    BY <2>1, <2>2
<1>6. CASE Use(t)
  <2>1. TypeOK' /\ UNCHANGED <<list, ticket>>
    BY <1>0, <1>6 DEF Use, TypeOK, list
  <2>2. ControlInv'
    BY <1>0, <1>6 DEF Use, TypeOK, ControlInv, Locked
  <2>3. NoLostWakeup'
    BY <1>0, <1>6 DEF Use, NoLostWakeup, list
  <2> QED
    BY <2>1, <2>2, <2>3, ControlStep
<1>7. CASE PutTicket(t)
  BY <1>7, PutStep
<1> QED
  BY <1>1, <1>2, <1>3, <1>4, <1>5, <1>6, <1>7 DEF ThreadStep

\* And every step of the program: SIGINT, the threads and main.
LEMMA FreeListStep == FreeListInv /\ [Next]_vars => FreeListInv'
<1> SUFFICES ASSUME FreeListInv, [Next]_vars
             PROVE  FreeListInv'
  OBVIOUS
<1>1. CASE Interrupt
  BY <1>1, ControlStep DEF Interrupt, FreeListInv, TypeOK, ControlInv, Locked, NoLostWakeup, list
<1>2. ASSUME NEW t \in Threads, ThreadStep(t)
      PROVE  FreeListInv'
  BY <1>2, ThreadStepIInv
<1>3. ASSUME NEW t \in Threads, SpuriousWake(t)
      PROVE  FreeListInv'
  BY <1>3, ControlStep DEF SpuriousWake, FreeListInv, TypeOK, ControlInv, Locked, NoLostWakeup, list
<1>4. CASE UNCHANGED vars
  BY <1>4, ControlStep DEF vars, FreeListInv, TypeOK, ControlInv, Locked, NoLostWakeup, list
<1> QED
  BY <1>1, <1>2, <1>3, <1>4 DEF Next, Finished

\* The invariant holds in every reachable state, for any number of threads
\* and tickets.
THEOREM FreeListInvariant == Spec => []FreeListInv
  BY FreeListInit, FreeListStep, PTL DEF Spec

\* Types; freeTickets, in particular, never goes below zero.
THEOREM FreeListTyped == Spec => []TypeOK
<1>1. FreeListInv => TypeOK
  BY DEF FreeListInv
<1> QED
  BY <1>1, FreeListInvariant, PTL

\* The linked list, the counter and the threads' tickets always agree.
THEOREM FreeListStaysSound == Spec => []FreeListSound
<1>1. FreeListInv => FreeListSound
  BY DEF FreeListInv
<1> QED
  BY <1>1, FreeListInvariant, PTL

\* No ticket is with two threads.
THEOREM TicketsExclusive == Spec => []OneHolder
<1>1. FreeListInv => OneHolder
  BY DEF FreeListInv
<1> QED
  BY <1>1, FreeListInvariant, PTL

\* No thread stays blocked when there is a ticket for it.
THEOREM WakeupsNotLost == Spec => []NoLostWakeup
<1>1. FreeListInv => NoLostWakeup
  BY DEF FreeListInv
<1> QED
  BY <1>1, FreeListInvariant, PTL

-----------------------------------------------------------------------------
(* Refinement.                                                             *)

\* Unlinking the head of the list is a get of the pool.
LEMMA PoolGet ==
  ASSUME FreeListInv, NEW t \in Threads, pc[t] = "getting", freeTickets # 0, Unlink(t)
  PROVE  Pool!Get(t)
<1>1. ticket[t] = NULL /\ NULL \notin Tickets
  BY FreeListAssumption DEF FreeListInv, ControlInv
<1>2. freeList \in Tickets \ Held /\ Held' = Held \cup {freeList}
  BY <1>1, UnlinkList DEF FreeListInv
<1> QED
  BY <1>1, <1>2 DEF Pool!Get, Unlink

\* putTicket is a put of the pool.
LEMMA PoolPut ==
  ASSUME FreeListInv, NEW t \in Threads, PutTicket(t)
  PROVE  Pool!Put(t)
<1>1. ticket[t] # NULL /\ NULL \notin Tickets
  BY FreeListAssumption DEF FreeListInv, ControlInv, PutTicket
<1>2. ticket[t] \in Tickets /\ Held' = Held \ {ticket[t]}
  BY <1>1, LinkList DEF FreeListInv
<1> QED
  BY <1>1, <1>2 DEF Pool!Put, PutTicket

\* A step that leaves the threads' tickets alone is invisible to the pool.
LEMMA PoolStutter ==
  ASSUME UNCHANGED ticket
  PROVE  UNCHANGED <<Tickets \ Held, ticket>>
  BY DEF Held

\* Every step is one of the pool's or invisible to it.
LEMMA PoolStep == FreeListInv /\ [Next]_vars => [Pool!Next]_<<Tickets \ Held, ticket>>
<1> SUFFICES ASSUME FreeListInv, [Next]_vars
             PROVE  Pool!Next \/ UNCHANGED <<Tickets \ Held, ticket>>
  OBVIOUS
<1>1. ASSUME NEW t \in Threads, BlockingGet(t)
      PROVE  Pool!Next
  BY <1>1, PoolGet DEF BlockingGet, Pool!Next
<1>2. ASSUME NEW t \in Threads, NonblockingGet(t)
      PROVE  Pool!Next \/ UNCHANGED ticket
  <2>1. CASE freeList # NULL
    BY <1>2, <2>1, PoolGet, ListNotEmpty DEF NonblockingGet, Pool!Next
  <2>2. CASE freeList = NULL
    BY <1>2, <2>2 DEF NonblockingGet
  <2> QED
    BY <2>1, <2>2
<1>3. ASSUME NEW t \in Threads, PutTicket(t)
      PROVE  Pool!Next
  BY <1>3, PoolPut DEF Pool!Next
<1>4. ASSUME NEW t \in Threads,
             \/ Loop(t) \/ LockToGet(t) \/ LockAfterWait(t) \/ LockToPut(t)
             \/ WaitForTicket(t) \/ Use(t) \/ SpuriousWake(t)
      PROVE  UNCHANGED ticket
  BY <1>4
  DEF Loop, LockToGet, LockAfterWait, LockToPut, Acquire, WaitForTicket, Use, SpuriousWake
<1>5. CASE Interrupt \/ Finished \/ UNCHANGED vars
  BY <1>5, PoolStutter DEF Interrupt, Finished, vars
<1> QED
  BY <1>1, <1>2, <1>3, <1>4, <1>5, PoolStutter DEF Next, ThreadStep

\* boundedfreelist.c implements the pool of tickets: in every behaviour a
\* get takes a ticket that nobody has and a put gives it back.
THEOREM FreeListImplementsPool == Spec => ImplementsPool
<1>1. Init => Pool!Init
  BY DEF Init, Pool!Init, Held
<1> QED
  BY <1>1, PoolStep, FreeListInvariant, PTL DEF Spec, ImplementsPool, Pool!Spec


-----------------------------------------------------------------------------
(* The work queue.                                                         *)

WorkTypes ==
  /\ workQ \in Seq(Items)
  /\ array \in [Items -> BOOLEAN]
  /\ cancelled \in [Items -> BOOLEAN]
  /\ heap \in [Items -> {"none", "live", "freed", "error"}]
  /\ refused \subseteq Items /\ IsFiniteSet(refused)
  /\ mpc = "cancel" => index \in Items

\* main makes the items one after the other, and only then starts the worker.
Creating ==
  /\ mpc \in {"create", "crashed"} <=> wpc = "none"
  /\ mpc = "create" =>
       /\ active \in 0 .. N
       /\ \A i \in Items : heap[i] = "none" <=> i > active
       /\ \A i \in Items : ~ cancelled[i]
  /\ mpc \notin {"create", "crashed"} => \A i \in Items : heap[i] # "none"

\* main forgets the pointer to an item as it cancels it, so that an item the
\* worker may free is one that main cannot reach any more.
Forgotten == \A i \in Items : cancelled[i] => ~ array[i]

\* The inductive invariant.
WorkInv == WorkTypes /\ Creating /\ Forgotten /\ ActiveCounts /\ NoUseAfterFree

\* At first there is no item.
LEMMA WorkInit == InitWork => WorkInv
<1> SUFFICES ASSUME InitWork PROVE WorkInv
  OBVIOUS
<1>1. WorkTypes /\ Creating /\ Forgotten /\ NoUseAfterFree
  BY WorkQueueAssumption, FS_EmptySet
     DEF InitWork, WorkTypes, Creating, Forgotten, NoUseAfterFree, Items
<1>2. Range(<<>>) = {} /\ IsInjective(<<>>) /\ Cardinality({}) = 0 /\ Len(<<>>) = 0
  BY FS_EmptySet DEF Range, IsInjective
<1>3. ActiveCounts
  BY <1>2 DEF InitWork, ActiveCounts
<1> QED
  BY <1>1, <1>3 DEF WorkInv

\* A new item is on the queue or refused by it, and counted.
LEMMA CreateKeeps == WorkInv /\ CreateItem => WorkInv'
<1> SUFFICES ASSUME WorkInv, CreateItem PROVE WorkInv'
  OBVIOUS
<1> USE DEF WorkInv
<1>1. CASE mpc' = "crashed"
  BY <1>1 DEF CreateItem, WorkTypes, Creating, Forgotten, ActiveCounts, NoUseAfterFree
<1>2. CASE mpc' # "crashed"
  <2> DEFINE i == active + 1
  <2>1. /\ mpc = "create" /\ mpc' = "create" /\ wpc = "none" /\ active \in 0 .. N
        /\ i \in Items /\ heap[i] = "none"
        /\ UNCHANGED <<cancelled, wpc, index>>
        /\ active' = i
    BY <1>2, WorkQueueAssumption DEF CreateItem, Creating, Items
  <2>2. /\ heap' = [heap EXCEPT ![i] = "live"]
        /\ array' = [array EXCEPT ![i] = TRUE]
        /\ \/ workQ' = Append(workQ, i) /\ UNCHANGED refused
           \/ refused' = refused \cup {i} /\ UNCHANGED workQ
    BY <1>2 DEF CreateItem
  <2>3. i \notin Range(workQ) /\ i \notin refused
    BY <2>1 DEF ActiveCounts
  <2> HIDE DEF i
  <2>3a. \A j \in Items : array'[j] = IF j = i THEN TRUE ELSE array[j]
    BY <2>1, <2>2 DEF WorkTypes
  <2>4. \A j \in Items : heap'[j] = IF j = i THEN "live" ELSE heap[j]
    BY <2>1, <2>2 DEF WorkTypes
  <2>5. /\ workQ' \in Seq(Items) /\ refused' \subseteq Items /\ IsFiniteSet(refused')
        /\ IsInjective(workQ')
        /\ active' = Len(workQ') + Cardinality(refused')
        /\ \A j \in Items : j \in Range(workQ') \/ j \in refused' <=>
                              j = i \/ j \in Range(workQ) \/ j \in refused
        /\ \A j \in Items : ~ (j \in Range(workQ') /\ j \in refused')
    <3>1. Cardinality(refused) \in Nat /\ Len(workQ) \in Nat
      BY FS_CardinalityType DEF WorkTypes
    <3>2. CASE workQ' = Append(workQ, i) /\ UNCHANGED refused
      <4>1. /\ workQ' \in Seq(Items) /\ IsInjective(workQ')
            /\ Range(workQ') = Range(workQ) \cup {i}
            /\ Len(workQ') = Len(workQ) + 1
        BY <2>1, <2>3, <3>2, AppendElems DEF WorkTypes, ActiveCounts
      <4>2. active' = Len(workQ) + 1 + Cardinality(refused)
        BY <2>1, <3>1 DEF ActiveCounts, i
      <4> QED
        BY <2>1, <2>3, <3>1, <3>2, <4>1, <4>2 DEF WorkTypes, ActiveCounts
    <3>3. CASE refused' = refused \cup {i} /\ UNCHANGED workQ
      <4>1. IsFiniteSet(refused') /\ Cardinality(refused') = Cardinality(refused) + 1
        BY <2>3, <3>3, FS_AddElement DEF WorkTypes
      <4>2. active' = Len(workQ) + (Cardinality(refused) + 1)
        BY <2>1, <3>1 DEF ActiveCounts, i
      <4> QED
        BY <2>1, <2>3, <3>3, <4>1, <4>2 DEF WorkTypes, ActiveCounts
    <3> QED
      BY <2>2, <3>2, <3>3
  <2>6. WorkTypes' /\ NoUseAfterFree'
    BY <2>1, <2>2, <2>4, <2>5 DEF WorkTypes, NoUseAfterFree
  <2>7. Creating'
    <3>1. i = active + 1 /\ active' = active + 1 /\ active' \in 0 .. N
      BY <2>1, WorkQueueAssumption DEF i, Items
    <3>2. \A j \in Items : heap[j] = "none" <=> j > active
      BY <2>1 DEF Creating
    <3>2a. \A j \in Items : heap'[j] = "none" <=> j > active'
      <4> SUFFICES ASSUME NEW j \in Items PROVE heap'[j] = "none" <=> j > active'
        OBVIOUS
      <4>1. j \in Int /\ active \in Int
        BY <2>1, WorkQueueAssumption DEF Items
      <4>2. heap'[j] = IF j = i THEN "live" ELSE heap[j]
        BY <2>4
      <4> QED
        BY <3>1, <3>2, <4>1, <4>2
    <3> QED
      BY <2>1, <3>1, <3>2a DEF Creating
  <2>8. Forgotten'
    BY <2>1, <2>3a DEF Creating, Forgotten
  <2>9. ActiveCounts'
    <3>1. \A j \in Items : heap'[j] = "live" <=> j \in Range(workQ') \/ j \in refused'
      BY <2>4, <2>5 DEF ActiveCounts
    <3>2. \A j \in Items :
            heap'[j] \notin {"none", "live"} => cancelled'[j] /\ ~ array'[j]
      BY <2>1, <2>3a, <2>4 DEF ActiveCounts
    <3> QED
      BY <2>5, <3>1, <3>2 DEF ActiveCounts
  <2> QED
    BY <2>6, <2>7, <2>8, <2>9
<1> QED
  BY <1>1, <1>2

\* A turn of the worker: the item at the head is live, since it is queued;
\* freed, it has left the queue for good, and otherwise it goes to its end.
LEMMA WorkerTurnKeeps == WorkInv /\ WorkerTurn => WorkInv'
<1> SUFFICES ASSUME WorkInv, WorkerTurn PROVE WorkInv'
  OBVIOUS
<1> USE DEF WorkInv
<1>0. mpc \notin {"create", "crashed"} /\ wpc' # "none"
  BY DEF WorkerTurn, Creating
<1>1. CASE workQ = <<>>
  BY <1>0, <1>1 DEF WorkerTurn, WorkTypes, Creating, Forgotten, ActiveCounts, NoUseAfterFree
<1>2. CASE workQ # <<>>
  <2> DEFINE i == Head(workQ)
             r == Tail(workQ)
  <2>1. /\ i \in Items
        /\ r \in Seq(Items)
        /\ Range(workQ) = {i} \cup Range(r)
        /\ IsInjective(r)
        /\ i \notin Range(r)
    BY <1>2, TailElems DEF WorkTypes, ActiveCounts
  <2>2. /\ heap[i] = "live" /\ i \notin refused
        /\ Len(workQ) = Len(r) + 1 /\ Len(r) \in Nat
        /\ active = (Len(r) + 1) + Cardinality(refused)
        /\ Cardinality(refused) \in Nat
    <3>1. Len(workQ) = Len(r) + 1 /\ Len(r) \in Nat
      BY <1>2 DEF WorkTypes
    <3>2. Cardinality(refused) \in Nat
      BY FS_CardinalityType DEF WorkTypes
    <3> HIDE DEF r
    <3> QED
      BY <2>1, <3>1, <3>2 DEF ActiveCounts
  <2>3. UNCHANGED <<array, cancelled, refused, mpc, index>>
    BY DEF WorkerTurn
  <2>4. CASE cancelled[i]
    <3>1. /\ workQ' = r
          /\ heap' = [heap EXCEPT ![i] = "freed"]
          /\ active' = active - 1
      BY <1>2, <2>2, <2>4 DEF WorkerTurn, Freed
    <3> HIDE DEF i, r
    <3>2. \A k \in Items : heap'[k] = IF k = i THEN "freed" ELSE heap[k]
      BY <3>1 DEF WorkTypes
    <3>3. WorkTypes' /\ NoUseAfterFree' /\ Forgotten'
      BY <2>1, <2>3, <3>1, <3>2 DEF WorkTypes, NoUseAfterFree, Forgotten
    <3>4. Creating'
      BY <1>0, <2>3, <3>2 DEF Creating
    <3>5. active' = Len(r) + Cardinality(refused)
      BY <2>2, <3>1
    <3>6. ActiveCounts'
      BY <2>1, <2>2, <2>3, <2>4, <3>1, <3>2, <3>5 DEF ActiveCounts, Forgotten
    <3> QED
      BY <3>3, <3>4, <3>6
  <2>5. CASE ~ cancelled[i]
    <3>1. /\ workQ' = Append(r, i)
          /\ heap' = heap
          /\ active' = active
      <4>1. heap' = [heap EXCEPT ![i] = IF heap[i] = "live" THEN heap[i] ELSE "error"]
        BY <1>2, <2>5 DEF WorkerTurn
      <4> QED
        BY <1>2, <2>1, <2>2, <2>5, <4>1 DEF WorkerTurn, WorkTypes
    <3> HIDE DEF i, r
    <3>2. /\ Append(r, i) \in Seq(Items)
          /\ Range(Append(r, i)) = Range(r) \cup {i}
          /\ IsInjective(Append(r, i))
          /\ Len(Append(r, i)) = Len(r) + 1
      BY <2>1, AppendElems
    <3>3. WorkTypes' /\ NoUseAfterFree' /\ Forgotten'
      BY <2>3, <3>1, <3>2 DEF WorkTypes, NoUseAfterFree, Forgotten
    <3>4. active' = Len(workQ') + Cardinality(refused')
      BY <2>2, <2>3, <3>1, <3>2
    <3>5. ActiveCounts'
      BY <2>1, <2>2, <2>3, <3>1, <3>2, <3>4 DEF ActiveCounts
    <3>6. Creating'
      BY <1>0, <2>3, <3>1 DEF Creating
    <3> QED
      BY <3>3, <3>5, <3>6
  <2> QED
    BY <2>4, <2>5
<1> QED
  BY <1>1, <1>2

\* Of main's steps only the one that cancels touches an item, and then one it
\* has a pointer to, which is therefore not freed.
LEMMA MainKeeps == WorkInv /\ Main => WorkInv'
<1> SUFFICES ASSUME WorkInv, Main PROVE WorkInv'
  OBVIOUS
<1> USE DEF WorkInv
<1>5. CASE CreateItem
  BY <1>5, CreateKeeps
<1>6. CASE StartWorker
  <2>1. \A i \in Items : heap[i] # "none"
    BY <1>6, WorkQueueAssumption DEF StartWorker, Creating, Items
  <2> QED
    BY <1>6, <2>1
       DEF StartWorker, WorkTypes, Creating, Forgotten, ActiveCounts, NoUseAfterFree
<1>1. CASE MainTest
  BY <1>1 DEF MainTest, WorkTypes, Creating, Forgotten, ActiveCounts, NoUseAfterFree
<1>2. ASSUME NEW i \in Items, Select(i) PROVE WorkInv'
  BY <1>2 DEF Select, WorkTypes, Creating, Forgotten, ActiveCounts, NoUseAfterFree
<1>3. CASE Cancel
  <2>1. CASE array[index]
    <3>1. /\ index \in Items
          /\ heap[index] = "live"
      BY <1>3, <2>1 DEF Cancel, WorkTypes, Creating, ActiveCounts
    <3>2. /\ cancelled' = [cancelled EXCEPT ![index] = TRUE]
          /\ array' = [array EXCEPT ![index] = FALSE]
          /\ heap' = heap
          /\ mpc' = "test"
          /\ UNCHANGED <<workQ, refused, active, wpc, index>> /\ mpc = "cancel"
      BY <1>3, <2>1, <3>1 DEF Cancel, WorkTypes
    <3>3. \A i \in Items : /\ cancelled'[i] = (i = index \/ cancelled[i])
                           /\ array'[i] = (i # index /\ array[i])
      BY <3>1, <3>2 DEF WorkTypes
    <3> QED
      BY <3>1, <3>2, <3>3 DEF WorkTypes, Creating, Forgotten, ActiveCounts, NoUseAfterFree
  <2>2. CASE ~ array[index]
    BY <1>3, <2>2 DEF Cancel, WorkTypes, Creating, Forgotten, ActiveCounts, NoUseAfterFree
  <2> QED
    BY <2>1, <2>2
<1>4. CASE Join
  BY <1>4 DEF Join, WorkTypes, Creating, Forgotten, ActiveCounts, NoUseAfterFree
<1> QED
  BY <1>1, <1>2, <1>3, <1>4, <1>5, <1>6 DEF Main

\* Every step keeps the invariant.
LEMMA WorkStep == WorkInv /\ [WorkNext]_workVars => WorkInv'
<1> SUFFICES ASSUME WorkInv, [WorkNext]_workVars PROVE WorkInv'
  OBVIOUS
<1>1. CASE WorkerTest
  BY <1>1 DEF WorkerTest, WorkInv, WorkTypes, Creating, Forgotten, ActiveCounts, NoUseAfterFree
<1>2. CASE WorkerTurn
  BY <1>2, WorkerTurnKeeps
<1>3. CASE Main
  BY <1>3, MainKeeps
<1>4. CASE UNCHANGED workVars
  BY <1>4 DEF workVars, WorkInv, WorkTypes, Creating, Forgotten, ActiveCounts, NoUseAfterFree
<1> QED
  BY <1>1, <1>2, <1>3, <1>4 DEF WorkNext, Worker, Ended

\* The invariant holds in every reachable state.
THEOREM WorkInvariant == WorkSpec => []WorkInv
<1> QED
  BY WorkInit, WorkStep, PTL DEF WorkSpec

\* Neither thread touches an item that was freed, and the worker frees none
\* twice, whatever random() selects and however the threads interleave.
THEOREM WorkNoUseAfterFree == WorkSpec => []NoUseAfterFree
<1>1. WorkInv => NoUseAfterFree
  BY DEF WorkInv
<1> QED
  BY <1>1, WorkInvariant, PTL

\* The queue holds each item that is not freed once, except those that did not
\* fit on it when they were made; active is their number; and a freed item is
\* one that main has cancelled and forgotten.
THEOREM WorkActiveCounts == WorkSpec => []ActiveCounts
<1>1. WorkInv => ActiveCounts
  BY DEF WorkInv
<1> QED
  BY <1>1, WorkInvariant, PTL

-----------------------------------------------------------------------------
(* Producer and consumer.                                                  *)

Lines == 1 .. MaxLines
Writing(k) == ppc = "write" /\ k = nread

Types ==
  /\ nlines \in 0 .. MaxLines
  /\ isBlocking \in BOOLEAN
  /\ nread \in 0 .. nlines
  /\ bb \in Seq(Lines)
  /\ prodDone \in BOOLEAN
  /\ ppc \in {"read", "write", "finish", "done"}
  /\ cpc \in {"test", "get", "print", "drain", "printDrained", "done"}
  /\ line \in 0 .. MaxLines
  /\ stdout \in Seq(Lines)
  /\ freed \in [Lines -> Nat]

\* What each control point knows: the consumer has a line exactly when it is
\* to print it, drains only when the producer is done, and ends with an empty
\* buffer, to which nobody adds any more.
Control ==
  /\ line # 0 <=> cpc \in {"print", "printDrained"}
  /\ ppc = "write" => nread \in Lines
  /\ ppc \in {"finish", "done"} => nread = nlines
  /\ prodDone => ppc = "done"
  /\ cpc \in {"drain", "printDrained", "done"} => prodDone
  /\ cpc = "done" => bb = <<>>

\* Every line that was read is in one place: at the producer, in the buffer,
\* at the consumer, or freed.
Places ==
  /\ IsInjective(bb)
  /\ \A k \in Lines : freed[k] <= 1
  /\ \A k \in Lines : k > nread => freed[k] = 0 /\ k \notin Range(bb) /\ line # k
  /\ \A k \in Lines : k <= nread =>
       (freed[k] = 0 <=> Writing(k) \/ k \in Range(bb) \/ line = k)
  /\ \A k \in Range(bb) : line # k
  /\ \A k \in Lines : Writing(k) => k \notin Range(bb) /\ line # k

\* The invariant that FreedOnce needs.
FreedInv == Types /\ Control /\ Places

-----------------------------------------------------------------------------
\* An empty buffer has no elements.
LEMMA NoElems == Range(<<>>) = {} /\ IsInjective(<<>>)
<1> QED
  BY DEF Range, IsInjective

\* At the start no line has been read.
LEMMA FreedInit == InitBuffer => FreedInv
<1> SUFFICES ASSUME InitBuffer PROVE FreedInv
  OBVIOUS
<1>1. Types
  <2>1. bb \in Seq(Lines) /\ stdout \in Seq(Lines)
    BY DEF InitBuffer
  <2>2. freed \in [Lines -> Nat]
    BY DEF InitBuffer, Lines
  <2>3. nread \in 0 .. nlines /\ line \in 0 .. MaxLines /\ nlines \in 0 .. MaxLines
    BY ProdConsAssumption DEF InitBuffer
  <2> QED
    BY <2>1, <2>2, <2>3 DEF InitBuffer, Types
<1>2. Control
  BY DEF InitBuffer, Control
<1>3. Range(bb) = {} /\ IsInjective(bb)
  BY NoElems DEF InitBuffer
<1>4. /\ nread = 0 /\ line = 0 /\ ppc = "read"
      /\ \A k \in Lines : k > 0 /\ freed[k] = 0
  BY ProdConsAssumption DEF InitBuffer, Lines
<1>5. Places
  <2>1. \A k \in Lines : k > nread /\ ~ (k <= nread) /\ ~ Writing(k) /\ line # k
    BY <1>4, ProdConsAssumption DEF Writing, Lines
  <2> QED
    BY <1>3, <1>4, <2>1 DEF Places
<1> QED
  BY <1>1, <1>2, <1>5 DEF FreedInv

\* Reading a line, or the end of stdin.
LEMMA FreedRead == FreedInv /\ (ReadLine \/ EndOfInput \/ SetProdDone) => FreedInv'
<1> SUFFICES ASSUME FreedInv, ReadLine \/ EndOfInput \/ SetProdDone PROVE FreedInv'
  OBVIOUS
<1> USE DEF FreedInv, Types, Control, Places, Writing, Lines, consts
<1>1. CASE ReadLine
  <2>1. nread' = nread + 1 /\ nread' \in Lines /\ ppc' = "write" /\ ppc = "read"
    BY <1>1, ProdConsAssumption DEF ReadLine
  <2>2. UNCHANGED <<nlines, isBlocking, bb, prodDone, cpc, line, stdout, freed>>
    BY <1>1 DEF ReadLine
  <2>3. Types' /\ Control'
    BY <1>1, <2>1, <2>2 DEF ReadLine
  <2>4. Range(bb') = Range(bb)
    BY <2>2
  <2>5. Places'
    BY <2>1, <2>2, <2>4
  <2> QED
    BY <2>3, <2>5
<1>2. CASE EndOfInput
  <2>1. UNCHANGED <<nlines, isBlocking, nread, bb, prodDone, cpc, line, stdout, freed>>
    BY <1>2 DEF EndOfInput
  <2>2. nread = nlines /\ ppc = "read" /\ ppc' = "finish"
    BY <1>2 DEF EndOfInput
  <2> QED
    BY <2>1, <2>2
<1>3. CASE SetProdDone
  <2>1. UNCHANGED <<nlines, isBlocking, nread, bb, cpc, line, stdout, freed>>
    BY <1>3 DEF SetProdDone
  <2>2. ppc = "finish" /\ ppc' = "done" /\ prodDone'
    BY <1>3 DEF SetProdDone
  <2> QED
    BY <2>1, <2>2
<1> QED
  BY <1>1, <1>2, <1>3

\* The producer hands its line to the buffer, or frees it.
LEMMA FreedWrite == FreedInv /\ (WriteLine \/ DropLine) => FreedInv'
<1> SUFFICES ASSUME FreedInv, WriteLine \/ DropLine PROVE FreedInv'
  OBVIOUS
<1>a. ASSUME WriteLine
      PROVE  /\ bb' \in Seq(Lines)
             /\ Range(bb') = Range(bb) \cup {nread}
             /\ IsInjective(bb')
  <2>1. bb' = Append(bb, nread) /\ nread \in Lines /\ bb \in Seq(Lines)
    BY <1>a DEF WriteLine, FreedInv, Types, Control
  <2>2. IsInjective(bb) /\ nread \notin Range(bb)
    BY <1>a, <2>1 DEF WriteLine, FreedInv, Places, Writing
  <2> QED
    BY <2>1, <2>2, AppendElems
<1> USE DEF FreedInv, Types, Control, Places, Writing, Lines
<1>0. nread \in Lines /\ ppc = "write" /\ ppc' = "read" /\ nread \notin Range(bb)
  BY DEF WriteLine, DropLine
<1>1. CASE WriteLine
  <2>1. /\ bb' = Append(bb, nread)
        /\ UNCHANGED <<nlines, isBlocking, nread, prodDone, cpc, line, stdout, freed>>
    BY <1>1 DEF WriteLine, consts
  <2>2. /\ bb' \in Seq(Lines)
        /\ Range(bb') = Range(bb) \cup {nread}
        /\ IsInjective(bb')
    BY <1>1, <1>a
  <2>3. Types' /\ Control'
    BY <1>0, <2>1, <2>2
  <2>4. Places'
    BY <1>0, <2>1, <2>2
  <2> QED
    BY <2>3, <2>4
<1>2. CASE DropLine
  <2>1. /\ freed' = [freed EXCEPT ![nread] = @ + 1]
        /\ UNCHANGED <<nlines, isBlocking, nread, bb, prodDone, cpc, line, stdout>>
    BY <1>2 DEF DropLine, consts
  <2>2. freed[nread] = 0
    BY <1>0
  <2>3. /\ freed' \in [Lines -> Nat]
        /\ \A k \in Lines : freed'[k] = IF k = nread THEN 1 ELSE freed[k]
    BY <1>0, <2>1, <2>2
  <2>4. Types' /\ Control'
    BY <1>0, <2>1, <2>3
  <2>5. Range(bb') = Range(bb)
    BY <2>1
  <2>6. Places'
    BY <1>0, <2>1, <2>3, <2>5
  <2> QED
    BY <2>4, <2>6
<1> QED
  BY <1>1, <1>2

\* The consumer takes the head of the buffer.
LEMMA FreedTake ==
  ASSUME FreedInv, cpc \in {"get", "drain"},
         Take(IF cpc = "get" THEN "print" ELSE "printDrained")
  PROVE  FreedInv'
<1> USE DEF FreedInv, Types, Control, Places, Writing, Lines
<1>1. /\ bb # <<>>
      /\ line' = Head(bb)
      /\ bb' = Tail(bb)
      /\ cpc' = IF cpc = "get" THEN "print" ELSE "printDrained"
      /\ UNCHANGED <<nlines, isBlocking, nread, prodDone, ppc, stdout, freed>>
  BY DEF Take, consts
<1>2. /\ line' \in Lines
      /\ bb' \in Seq(Lines)
      /\ Range(bb) = {line'} \cup Range(bb')
      /\ IsInjective(bb')
      /\ line' \notin Range(bb')
  BY <1>1, TailElems
<1>3. line = 0
  OBVIOUS
<1>4. Types' /\ Control'
  BY SMTT(30), <1>1, <1>2, ProdConsAssumption
<1>5. Places'
  BY <1>1, <1>2, <1>3
<1> QED
  BY <1>4, <1>5

\* The consumer prints its line and frees the copy.
LEMMA FreedPrint == FreedInv /\ PrintLine => FreedInv'
<1> SUFFICES ASSUME FreedInv, PrintLine PROVE FreedInv'
  OBVIOUS
<1> USE DEF FreedInv, Types, Control, Places, Writing, Lines
<1>1. /\ cpc \in {"print", "printDrained"}
      /\ line \in Lines
      /\ freed[line] = 0
      /\ line \notin Range(bb)
  BY ProdConsAssumption DEF PrintLine
<1>2. /\ freed' = [freed EXCEPT ![line] = @ + 1]
      /\ stdout' = Append(stdout, line)
      /\ line' = 0
      /\ cpc' = IF cpc = "print" THEN "test" ELSE "drain"
      /\ UNCHANGED <<nlines, isBlocking, nread, bb, prodDone, ppc>>
  BY DEF PrintLine, consts
<1>3. /\ freed' \in [Lines -> Nat]
      /\ \A k \in Lines : freed'[k] = IF k = line THEN 1 ELSE freed[k]
  BY <1>1, <1>2
<1>4. stdout' \in Seq(Lines)
  BY <1>1, <1>2, AppendElems
<1>5. Types'
  BY <1>1, <1>2, <1>3, <1>4, ProdConsAssumption
<1>6. Control'
  BY <1>1, <1>2
<1>7. Range(bb') = Range(bb)
  BY <1>2
<1>8. Places'
  <2>1. line' = 0 /\ ~ Writing(line)
    BY <1>1, <1>2
  <2>2. UNCHANGED <<nread, bb, ppc>> /\ line <= nread
    BY <1>1, <1>2
  <2>3. ASSUME NEW k \in Lines, k <= nread
        PROVE  freed'[k] = 0 <=> Writing(k)' \/ k \in Range(bb)' \/ line' = k
    <3>1. CASE k = line
      BY <1>1, <1>3, <1>7, <2>1, <2>2, <3>1
    <3>2. CASE k # line
      BY <1>3, <1>7, <2>1, <2>2, <2>3, <3>2
    <3> QED
      BY <3>1, <3>2
  <2>4. ASSUME NEW k \in Lines
        PROVE  /\ freed'[k] <= 1
               /\ k > nread => freed'[k] = 0 /\ k \notin Range(bb)' /\ line' # k
               /\ Writing(k)' => k \notin Range(bb)' /\ line' # k
    BY <1>3, <1>7, <2>1, <2>2
  <2>5. \A k \in Range(bb) : line' # k
    BY <1>7, <2>1 DEF Range
  <2> QED
    BY <1>7, <2>2, <2>3, <2>4, <2>5
<1> QED
  BY <1>5, <1>6, <1>8

\* The consumer's two tests.
LEMMA FreedTest == FreedInv /\ (TestProdDone \/ DrainEmpty) => FreedInv'
<1> SUFFICES ASSUME FreedInv, TestProdDone \/ DrainEmpty PROVE FreedInv'
  OBVIOUS
<1> USE DEF FreedInv, Types, Control, Places, Writing, Lines, consts
<1>1. UNCHANGED <<nlines, isBlocking, nread, bb, prodDone, ppc, line, stdout, freed>>
  BY DEF TestProdDone, DrainEmpty
<1>2. \/ cpc = "test" /\ cpc' = IF prodDone THEN "drain" ELSE "get"
      \/ cpc = "drain" /\ cpc' = "done" /\ bb = <<>>
  BY DEF TestProdDone, DrainEmpty
<1>3. Types' /\ Control'
  BY <1>1, <1>2
<1>4. Places'
  BY <1>1
<1> QED
  BY <1>3, <1>4

\* Every step keeps the invariant.
LEMMA FreedNext == FreedInv /\ [BufferNext]_bufferVars => FreedInv'
<1> SUFFICES ASSUME FreedInv, [BufferNext]_bufferVars PROVE FreedInv'
  OBVIOUS
<1>1. CASE Producer
  BY <1>1, FreedRead, FreedWrite DEF Producer
<1>2. CASE BlockingRead \/ DrainRead
  BY <1>2, FreedTake DEF BlockingRead, DrainRead
<1>3. CASE TestProdDone \/ DrainEmpty \/ PrintLine
  BY <1>3, FreedTest, FreedPrint
<1>4. CASE UNCHANGED bufferVars
  BY <1>4 DEF bufferVars, consts, FreedInv, Types, Control, Places, Writing
<1> QED
  BY <1>1, <1>2, <1>3, <1>4 DEF BufferNext, Consumer

\* The invariant holds in every reachable state.
THEOREM FreedInvariant == BufferSpec => []FreedInv
<1> QED
  BY FreedInit, FreedNext, PTL DEF BufferSpec

\* A line's copy is freed once, by the thread that has it, and when the
\* consumer has returned none is left.
THEOREM CopiesFreedOnce == BufferSpec => []FreedOnce
<1>1. FreedInv => FreedOnce
  <2> SUFFICES ASSUME FreedInv PROVE FreedOnce
    OBVIOUS
  <2> USE DEF FreedInv, Types, Control, Places, Writing, Lines
  <2>1. ASSUME NEW k \in Lines
        PROVE  freed[k] <= 1 /\ (freed[k] = 1 => k \notin Range(bb) /\ line # k)
    <3>1. CASE k > nread
      BY <3>1
    <3>2. CASE k <= nread
      BY <3>2
    <3> QED
      BY <3>1, <3>2
  <2>2. ASSUME cpc = "done", NEW k \in 1 .. nlines PROVE freed[k] = 1
    <3>b. ppc = "done" /\ nread = nlines /\ line = 0
      BY <2>2
    <3>1. k \in Lines /\ k <= nread /\ ppc # "write" /\ line = 0
      BY <2>2, <3>b, ProdConsAssumption
    <3>a. bb = <<>>
      BY <2>2
    <3>0. Range(bb) = {}
      BY <3>a, NoElems
    <3>2. freed[k] # 0
      BY <3>0, <3>1
    <3>3. freed[k] \in Nat /\ freed[k] <= 1
      BY <3>1
    <3> QED
      BY <3>2, <3>3
  <2> QED
    BY <2>1, <2>2 DEF FreedOnce
<1> QED
  BY <1>1, FreedInvariant, PTL

-----------------------------------------------------------------------------
\* Increasing, and nothing in it past line n.
Upto(p, n) ==
  /\ p \in Seq(Nat)
  /\ \A i, j \in 1 .. Len(p) : i < j => p[i] < p[j]
  /\ \A i \in 1 .. Len(p) : p[i] <= n

Given == IF ppc = "write" THEN nread - 1 ELSE nread

\* The invariant that OrderKept needs: the lines on their way are increasing,
\* and the next line of stdin is past them all.
OrderInv ==
  /\ FreedInv
  /\ Upto(Passed, Given)
  /\ isBlocking => Len(Passed) = Given

\* The next line keeps the order.
LEMMA UptoAppend ==
  ASSUME NEW n \in Nat \ {0}, NEW p, Upto(p, n - 1)
  PROVE  Upto(Append(p, n), n) /\ Len(Append(p, n)) = Len(p) + 1
<1>1. /\ Append(p, n) \in Seq(Nat)
      /\ Len(Append(p, n)) = Len(p) + 1
      /\ \A i \in 1 .. Len(p) : Append(p, n)[i] = p[i]
      /\ Append(p, n)[Len(p) + 1] = n
      /\ Len(p) \in Nat
  BY AppendProperties DEF Upto
<1>2. \A i \in 1 .. Len(p) : p[i] \in Nat /\ p[i] <= n - 1
  BY DEF Upto
<1>3. \A i \in 1 .. Len(p) + 1 : i \in 1 .. Len(p) \/ i = Len(p) + 1
  BY <1>1
<1>4. ASSUME NEW i \in 1 .. Len(p) + 1, NEW j \in 1 .. Len(p) + 1, i < j
      PROVE  Append(p, n)[i] < Append(p, n)[j]
  <2>1. i \in 1 .. Len(p)
    BY <1>1, <1>4
  <2>2. CASE j \in 1 .. Len(p)
    BY <1>1, <1>4, <2>1, <2>2 DEF Upto
  <2>3. CASE j = Len(p) + 1
    BY <1>1, <1>2, <2>1, <2>3
  <2> QED
    BY <1>3, <2>2, <2>3
<1>5. \A i \in 1 .. Len(p) + 1 : Append(p, n)[i] <= n
  BY <1>1, <1>2, <1>3
<1> QED
  BY <1>1, <1>4, <1>5 DEF Upto

\* What the steps do to the lines on their way: the producer adds its line at
\* the end, the consumer moves the first one along, all else leaves them.
LEMMA PassedNext ==
  ASSUME FreedInv, [BufferNext]_bufferVars
  PROVE  IF WriteLine THEN Passed' = Append(Passed, nread) ELSE Passed' = Passed
<1>1. /\ bb \in Seq(Nat) /\ stdout \in Seq(Nat) /\ line \in Nat
      /\ InHand \in Seq(Nat) /\ stdout \o InHand \in Seq(Nat)
  <2>1. bb \in Seq(Lines) /\ stdout \in Seq(Lines) /\ line \in 0 .. MaxLines
    BY DEF FreedInv, Types
  <2>2. /\ Lines \subseteq Nat
        /\ 0 .. MaxLines \subseteq Nat
    BY ProdConsAssumption DEF Lines
  <2>3. bb \in Seq(Nat) /\ stdout \in Seq(Nat) /\ line \in Nat
    <3>1. bb \in Seq(Nat) /\ stdout \in Seq(Nat)
      BY <2>1, <2>2, SeqMonotonic
    <3>2. line \in Nat
      BY <2>1, <2>2
    <3> QED
      BY <3>1, <3>2
  <2>4. InHand \in Seq(Nat)
    BY <2>3 DEF InHand
  <2> QED
    BY <2>3, <2>4, ConcatProperties
<1>2. CASE WriteLine
  <2>1. bb' = Append(bb, nread) /\ InHand' = InHand /\ stdout' = stdout
    BY <1>2 DEF WriteLine, InHand
  <2>2. nread \in Nat
    BY <1>2, ProdConsAssumption DEF WriteLine, FreedInv, Control, Lines
  <2>3. <<nread>> \in Seq(Nat)
    BY <2>2
  <2>4. Passed' = (stdout \o InHand) \o (bb \o <<nread>>)
    BY <1>1, <2>1, <2>2, AppendIsConcat DEF Passed
  <2>5. (stdout \o InHand) \o (bb \o <<nread>>) = ((stdout \o InHand) \o bb) \o <<nread>>
    BY <1>1, <2>3, ConcatAssociative
  <2>6. ((stdout \o InHand) \o bb) \in Seq(Nat)
    BY <1>1, ConcatProperties
  <2>7. ((stdout \o InHand) \o bb) \o <<nread>> = Append(Passed, nread)
    BY <2>2, <2>6, AppendIsConcat DEF Passed
  <2> QED
    BY <1>2, <2>4, <2>5, <2>7
<1>3. CASE BlockingRead \/ DrainRead
  <2>1. bb # <<>> /\ line' = Head(bb) /\ bb' = Tail(bb) /\ stdout' = stdout /\ line = 0
    BY <1>3 DEF BlockingRead, DrainRead, Take, FreedInv, Control
  <2>2. Head(bb) # 0 /\ Head(bb) \in Nat /\ Tail(bb) \in Seq(Nat)
    <3>1. bb \in Seq(Lines)
      BY DEF FreedInv, Types
    <3>2. Head(bb) \in Lines
      BY <2>1, <3>1, TailElems
    <3> QED
      BY <1>1, <2>1, <3>2, ProdConsAssumption DEF Lines
  <2>3. InHand' = <<Head(bb)>> /\ <<Head(bb)>> \in Seq(Nat) /\ InHand = <<>>
    BY <2>1, <2>2 DEF InHand
  <2>4. bb = <<Head(bb)>> \o Tail(bb)
    BY <1>1, <2>1, <2>2
  <2>5. Passed' = (stdout \o <<Head(bb)>>) \o Tail(bb)
    BY <2>1, <2>3 DEF Passed
  <2>6. Passed' = stdout \o bb
    <3>1. stdout \in Seq(Nat)
      BY <1>1
    <3>2. (stdout \o <<Head(bb)>>) \o Tail(bb) = stdout \o (<<Head(bb)>> \o Tail(bb))
      BY <2>2, <2>3, <3>1, ConcatAssociative
    <3> QED
      BY <2>4, <2>5, <3>2
  <2>7. stdout \o InHand = stdout
    BY <1>1, <2>3, ConcatEmptySeq
  <2>8. ~ WriteLine
    BY <1>3 DEF BlockingRead, DrainRead, WriteLine, Take
  <2> QED
    BY <2>6, <2>7, <2>8 DEF Passed
<1>4. CASE PrintLine
  <2>1. stdout' = Append(stdout, line) /\ line' = 0 /\ bb' = bb /\ line # 0
    BY <1>4 DEF PrintLine, FreedInv, Control
  <2>2. InHand = <<line>> /\ InHand' = <<>>
    BY <2>1 DEF InHand
  <2>3. stdout' = stdout \o InHand
    BY <1>1, <2>1, <2>2, AppendIsConcat
  <2>4. stdout' \o InHand' = stdout'
    BY <1>1, <2>2, <2>3, ConcatEmptySeq
  <2>5. ~ WriteLine
    BY <1>4, <2>1 DEF PrintLine, WriteLine
  <2> QED
    BY <2>1, <2>3, <2>4, <2>5 DEF Passed
<1>5. CASE \/ ReadLine \/ EndOfInput \/ DropLine \/ SetProdDone
           \/ TestProdDone \/ DrainEmpty \/ UNCHANGED bufferVars
  <2>1. UNCHANGED <<bb, line, stdout>>
    BY <1>5 DEF ReadLine, EndOfInput, DropLine, SetProdDone, TestProdDone,
                DrainEmpty, bufferVars
  <2>2. bb # Append(bb, nread)
    BY <1>1, <2>1
  <2>3. ~ WriteLine
    BY <2>1, <2>2 DEF WriteLine
  <2> QED
    BY <2>1, <2>3 DEF Passed, InHand
<1> QED
  BY <1>2, <1>3, <1>4, <1>5 DEF BufferNext, Producer, Consumer

\* Every step keeps the invariant: with -b no line is dropped.
LEMMA OrderNext == OrderInv /\ [BufferNext]_bufferVars => OrderInv'
<1> SUFFICES ASSUME OrderInv, [BufferNext]_bufferVars PROVE OrderInv'
  OBVIOUS
<1>1. FreedInv /\ FreedInv'
  BY FreedNext DEF OrderInv
<1>2. nread \in Nat /\ (ppc = "write" => nread \in Nat \ {0}) /\ isBlocking' = isBlocking
  <2>1. nread \in Nat /\ (ppc = "write" => nread \in Nat \ {0})
    BY <1>1, ProdConsAssumption DEF FreedInv, Types, Control, Lines
  <2>2. isBlocking' = isBlocking
    BY DEF BufferNext, Producer, Consumer, bufferVars, consts, ReadLine, EndOfInput, WriteLine,
           DropLine, SetProdDone, TestProdDone, BlockingRead, DrainRead, Take,
           DrainEmpty, PrintLine
  <2> QED
    BY <2>1, <2>2
<1>3. CASE WriteLine
  <2>1. Passed' = Append(Passed, nread) /\ Given' = nread /\ Given = nread - 1
    BY <1>1, <1>3, PassedNext DEF WriteLine, Given
  <2>2. nread \in Nat \ {0}
    BY <1>2, <1>3 DEF WriteLine
  <2>3. /\ Upto(Append(Passed, nread), nread)
        /\ Len(Append(Passed, nread)) = Len(Passed) + 1
    BY <2>1, <2>2, UptoAppend DEF OrderInv
  <2> QED
    BY <1>1, <1>2, <2>1, <2>2, <2>3 DEF OrderInv
<1>4. CASE ~ WriteLine
  <2>1. Passed' = Passed
    BY <1>1, <1>4, PassedNext
  <2>2. Given' = Given \/ (DropLine /\ Given' = Given + 1)
    BY <1>1, <1>2, <1>4 DEF Given, BufferNext, Producer, Consumer, bufferVars, ReadLine,
       EndOfInput, DropLine, SetProdDone, TestProdDone, BlockingRead, DrainRead,
       Take, DrainEmpty, PrintLine
  <2>3. DropLine => ~ isBlocking
    BY DEF DropLine
  <2>4. Upto(Passed, Given + 1) /\ Given \in Int
    BY <1>2 DEF OrderInv, Upto, Given
  <2> QED
    BY <1>1, <1>2, <2>1, <2>2, <2>3, <2>4 DEF OrderInv
<1> QED
  BY <1>3, <1>4

\* Lines are printed in the order of stdin, and with -b none is missing,
\* whatever the length of stdin, the size of the buffer and the interleaving.
THEOREM LinesInOrder == BufferSpec => []OrderKept
<1>1. InitBuffer => OrderInv
  <2> SUFFICES ASSUME InitBuffer PROVE OrderInv
    OBVIOUS
  <2>1. Passed = <<>> /\ Given = 0
    BY DEF InitBuffer, Passed, InHand, Given
  <2> QED
    BY <2>1, FreedInit DEF OrderInv, Upto
<1>2. OrderInv => OrderKept
  BY DEF OrderInv, Upto, Given, OrderKept, FreedInv, Types
<1> QED
  BY <1>1, <1>2, OrderNext, PTL DEF BufferSpec
=============================================================================
