------------------------------ MODULE WorkQueue ------------------------------
(***************************************************************************)
(* The work queue of lab 8, labs/L7/lab8/lab8.c: main cancels items at     *)
(* random through its array of pointers while a worker thread cycles them  *)
(* through a queue and frees the cancelled ones; both stop when active,    *)
(* read without the lock, is zero.                                         *)
(*                                                                         *)
(* A step is a read of active, or a critical section of lockQ: nothing in  *)
(* one waits, so taking the lock and leaving it are not separate steps.    *)
(***************************************************************************)
EXTENDS Integers, Sequences, Functions, FiniteSets

CONSTANT N   (* the number of items, argv[1]                                *)

ASSUME WorkQueueAssumption == N \in Nat

Items == 1 .. N

VARIABLES
  workQ,      (* the queue of items                                         *)
  array,      (* array[i]: main still has its pointer to item i             *)
  cancelled,  (* cancelled[i]: the flag in the item                         *)
  heap,       (* heap[i]: "none", "live", or how the item was freed         *)
  refused,    (* items the queue had no memory for when main made them: its *)
              (* enqueue failed, which main does not look at                *)
  active,
  mpc, wpc,   (* control of main and of the worker                          *)
  index       (* the item main has selected                                 *)

workVars ==
  <<workQ, array, cancelled, heap, refused, active, mpc, wpc, index>>

InitWork ==
  /\ workQ = <<>>
  /\ array = [i \in Items |-> FALSE]
  /\ cancelled = [i \in Items |-> FALSE]
  /\ heap = [i \in Items |-> "none"]
  /\ refused = {}
  /\ active = 0
  /\ mpc = "create"
  /\ wpc = "none"
  /\ index = 0

-----------------------------------------------------------------------------
\* main makes the next item, of which active is also the number so far, and
\* enqueues it; where malloc returns NULL, storing the name crashes.
CreateItem ==
  /\ mpc = "create" /\ active < N
  /\ LET i == active + 1 IN
     \/ /\ heap' = [heap EXCEPT ![i] = "live"]
        /\ array' = [array EXCEPT ![i] = TRUE]
        /\ active' = i
        /\ \/ workQ' = Append(workQ, i) /\ UNCHANGED refused
           \/ refused' = refused \cup {i} /\ UNCHANGED workQ
        /\ UNCHANGED mpc
     \/ mpc' = "crashed" /\ UNCHANGED <<heap, array, active, workQ, refused>>
  /\ UNCHANGED <<cancelled, wpc, index>>

StartWorker ==
  /\ mpc = "create" /\ active = N
  /\ mpc' = "test"
  /\ wpc' = "test"
  /\ UNCHANGED <<workQ, array, cancelled, heap, refused, active, index>>

-----------------------------------------------------------------------------
WorkerTest ==
  /\ wpc = "test"
  /\ wpc' = IF active > 0 THEN "locked" ELSE "done"
  /\ UNCHANGED <<workQ, array, cancelled, heap, refused, active, mpc, index>>

\* Freeing storage that was already freed, or reading it, is an error.
Freed(h) == IF h = "live" THEN "freed" ELSE "error"

\* Mutants: a cancelled item goes back on the queue as well; one that was not
\* cancelled is not enqueued again.
WorkerTurn_FreesAndEnqueues ==
  LET i == Head(workQ) IN
  /\ wpc = "locked" /\ workQ # <<>>
  /\ workQ' = Append(Tail(workQ), i)
  /\ heap' = [heap EXCEPT ![i] = IF cancelled[i] THEN Freed(@) ELSE @]
  /\ active' = IF cancelled[i] THEN active - 1 ELSE active
  /\ wpc' = "test"
  /\ UNCHANGED <<array, cancelled, refused, mpc, index>>

WorkerTurn_DropsItem ==
  LET i == Head(workQ) IN
  /\ wpc = "locked" /\ workQ # <<>>
  /\ workQ' = Tail(workQ)
  /\ heap' = [heap EXCEPT ![i] = IF cancelled[i] THEN Freed(@) ELSE @]
  /\ active' = active - 1
  /\ wpc' = "test"
  /\ UNCHANGED <<array, cancelled, refused, mpc, index>>

\* One turn of the worker: dequeue; free a cancelled item, else requeue it,
\* for which the queue has room, as it has just lost one.
WorkerTurn ==
  /\ wpc = "locked"
  /\ IF workQ = <<>> THEN UNCHANGED <<workQ, heap, active>>
     ELSE LET i == Head(workQ) IN
          IF cancelled[i]
          THEN /\ workQ' = Tail(workQ)
               /\ heap' = [heap EXCEPT ![i] = Freed(@)]
               /\ active' = active - 1
          ELSE /\ workQ' = Append(Tail(workQ), i)
               /\ heap' = [heap EXCEPT ![i] = IF @ = "live" THEN @ ELSE "error"]
               /\ UNCHANGED active
  /\ wpc' = "test"
  /\ UNCHANGED <<array, cancelled, refused, mpc, index>>

-----------------------------------------------------------------------------
MainTest ==
  /\ mpc = "test"
  /\ mpc' = IF active > 0 THEN "select" ELSE "join"
  /\ UNCHANGED <<workQ, array, cancelled, heap, refused, active, wpc, index>>

\* random() % N
Select(i) ==
  /\ mpc = "select"
  /\ index' = i
  /\ mpc' = "cancel"
  /\ UNCHANGED <<workQ, array, cancelled, heap, refused, active, wpc>>

\* Mutant: main keeps its pointer.
Cancel_KeepsPointer ==
  /\ mpc = "cancel"
  /\ IF array[index]
     THEN /\ cancelled' = [cancelled EXCEPT ![index] = TRUE]
          /\ heap' = [heap EXCEPT ![index] = IF @ = "live" THEN @ ELSE "error"]
     ELSE UNCHANGED <<cancelled, heap>>
  /\ mpc' = "test"
  /\ UNCHANGED <<workQ, refused, active, array, wpc, index>>

Cancel ==
  /\ mpc = "cancel"
  /\ IF array[index]
     THEN /\ cancelled' = [cancelled EXCEPT ![index] = TRUE]
          /\ heap' = [heap EXCEPT ![index] = IF @ = "live" THEN @ ELSE "error"]
          /\ array' = [array EXCEPT ![index] = FALSE]
     ELSE UNCHANGED <<cancelled, heap, array>>
  /\ mpc' = "test"
  /\ UNCHANGED <<workQ, refused, active, wpc, index>>

\* pthread_join of the worker.
Join ==
  /\ mpc = "join" /\ wpc = "done"
  /\ mpc' = "done"
  /\ UNCHANGED <<workQ, array, cancelled, heap, refused, active, wpc, index>>

Worker == WorkerTest \/ WorkerTurn
Main ==
  \/ CreateItem \/ StartWorker
  \/ MainTest \/ (\E i \in Items : Select(i)) \/ Cancel \/ Join

\* The program has ended.
Ended == mpc \in {"done", "crashed"} /\ UNCHANGED workVars

WorkNext == Worker \/ Main \/ Ended

WorkSpec == InitWork /\ [][WorkNext]_workVars

-----------------------------------------------------------------------------
\* No item is used after it was freed, or freed twice: the two threads hand
\* each item over through cancelled, main forgets its pointer when it does.
NoUseAfterFree == \A i \in Items : heap[i] # "error"

\* active counts the items that are not yet freed: those on the queue, each
\* queued once, and those the queue refused: the unlocked reads of it never
\* see a wrong zero.  Only items that main has cancelled and forgotten are
\* freed.
ActiveCounts ==
  /\ IsInjective(workQ)
  /\ active = Len(workQ) + Cardinality(refused)
  /\ \A i \in Items : heap[i] = "live" <=> i \in Range(workQ) \/ i \in refused
  /\ \A i \in Items : ~ (i \in Range(workQ) /\ i \in refused)
  /\ \A i \in Items :
       heap[i] \notin {"none", "live"} => cancelled[i] /\ ~ array[i]

\* Once main has made the items, it returns, and then every item has been
\* freed, if the queue had memory for all.
AllCancelledAndFreed ==
  [](refused = {}) =>
    (mpc = "test" ~> mpc = "done" /\ \A i \in Items : heap[i] = "freed")
=============================================================================
