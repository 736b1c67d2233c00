------------------------------ MODULE MCThreads ------------------------------
(***************************************************************************)
(* The programs of several threads, for TLC: the free list of tickets of   *)
(* lab 5, the producer and the consumer of lab 6, or the work queue of lab *)
(* 8.  Which of them a behaviour is about is chosen at the start; the      *)
(* variables of the others do not change.                                  *)
(***************************************************************************)
EXTENDS BoundedFreeList, ProdCons, WorkQueue

VARIABLE program

threadVars == <<program, vars, bufferVars, workVars>>

InitThreads ==
  /\ program \in {"tickets", "lines", "items"}
  /\ Init /\ InitBuffer /\ InitWork
  /\ program # "lines" => nlines = 0 /\ ~ isBlocking

InTickets(A) == program = "tickets" /\ A /\ UNCHANGED <<program, bufferVars, workVars>>
InLines(A)   == program = "lines" /\ A /\ UNCHANGED <<program, vars, workVars>>
InItems(A)   == program = "items" /\ A /\ UNCHANGED <<program, vars, bufferVars>>

\* In lab 6 the producer has returned, and the consumer too, or it hangs: see
\* ProdCons_hang.cfg.
LinesStopped ==
  /\ program = "lines" /\ ppc = "done"
  /\ cpc = "done" \/ (cpc = "get" /\ bb = <<>>)
  /\ UNCHANGED threadVars

NextThreads ==
  InTickets(Next) \/ InLines(BufferNext) \/ InItems(WorkNext) \/ LinesStopped

(***************************************************************************)
(* The scheduler keeps every thread running, stdin ends, waits return      *)
(* spuriously only finitely often, and random() selects every item again   *)
(* and again as long as main selects.  Nobody is promised a contended      *)
(* mutex, and SIGINT need not come.                                        *)
(***************************************************************************)
Fairness ==
  /\ \A t \in Threads :
       /\ WF_threadVars(InTickets(ThreadStep(t)))
       /\ <>[][~ InTickets(SpuriousWake(t))]_threadVars
  /\ WF_threadVars(InLines(Producer) \/ InItems(Worker))
  /\ WF_threadVars(InLines(Consumer) \/ InItems(Main))
  /\ \A i \in Items : SF_threadVars(InItems(Select(i)))

SpecThreads == InitThreads /\ [][NextThreads]_threadVars /\ Fairness
=============================================================================
