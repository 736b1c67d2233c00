----------------------------- MODULE ChldHandler -----------------------------
(***************************************************************************)
(* labs/L3/lab4start/chldhandler.c: a parent forks NUMBER children, its    *)
(* SIGCHLD handler harvests the ones that end and counts nprocesses down,  *)
(* and main sleeps in pause() until the count is zero.                     *)
(*                                                                         *)
(* The handler interrupts main between any two of its steps and then runs  *)
(* to its end before main goes on.  nprocesses++ in main is a load and a   *)
(* store, between which the handler can run.  External: SIGCHLD does not   *)
(* queue; every signal that is handled ends a pause() that has begun, the  *)
(* SIGUSR2 that the handler sends to its own process included, which is    *)
(* delivered before kill returns.                                          *)
(***************************************************************************)
EXTENDS Integers, FiniteSets

CONSTANT NUMBER

ASSUME ChldHandlerAssumption == NUMBER \in Nat

VARIABLES
  pc,          (* control of main                                           *)
  i,           (* children forked                                           *)
  tmp,         (* the register of nprocesses++                              *)
  nprocesses,
  sigchld,     (* "none", "pending" or "handling"                           *)
  proc         (* proc[c]: "none", "running", "zombie" or "harvested"       *)

Children == 1 .. NUMBER
vars == <<pc, i, tmp, nprocesses, sigchld, proc>>

Init ==
  /\ pc = "fork"
  /\ i = 0
  /\ tmp = 0
  /\ nprocesses = 0
  /\ sigchld = "none"
  /\ proc = [c \in Children |-> "none"]

-----------------------------------------------------------------------------
(* main, which does not run while the handler does.                        *)

MainRuns(at) == pc = at /\ sigchld # "handling"

Fork ==
  /\ MainRuns("fork")
  /\ i < NUMBER
  /\ i' = i + 1
  /\ proc' = [proc EXCEPT ![i'] = "running"]
  /\ pc' = "load"
  /\ UNCHANGED <<tmp, nprocesses, sigchld>>

\* The loop has ended, or fork() failed: goto wait_for_children.
EndForks ==
  /\ MainRuns("fork")
  /\ pc' = "test"
  /\ UNCHANGED <<i, tmp, nprocesses, sigchld, proc>>

Load ==
  /\ MainRuns("load")
  /\ tmp' = nprocesses
  /\ pc' = "store"
  /\ UNCHANGED <<i, nprocesses, sigchld, proc>>

Store ==
  /\ MainRuns("store")
  /\ nprocesses' = tmp + 1
  /\ pc' = "fork"
  /\ UNCHANGED <<i, tmp, sigchld, proc>>

\* while(nprocesses > 0); the for loop after it then has no turns.
Test ==
  /\ MainRuns("test")
  /\ pc' = IF nprocesses > 0 THEN "pause" ELSE "done"
  /\ UNCHANGED <<i, tmp, nprocesses, sigchld, proc>>

\* pause() begins; only a signal that comes from now on ends it.
Pause ==
  /\ MainRuns("pause")
  /\ pc' = "paused"
  /\ UNCHANGED <<i, tmp, nprocesses, sigchld, proc>>

-----------------------------------------------------------------------------
(* onchld.                                                                 *)

EnterHandler ==
  /\ sigchld = "pending"
  /\ pc # "done"
  /\ sigchld' = "handling"
  /\ pc' = IF pc = "paused" THEN "test" ELSE pc
  /\ UNCHANGED <<i, tmp, nprocesses, proc>>

\* Mutants: an "if" instead of the loop on waitpid; the count goes down
\* twice.
Harvest_Once(c) ==
  /\ sigchld = "handling"
  /\ proc[c] = "zombie"
  /\ proc' = [proc EXCEPT ![c] = "harvested"]
  /\ nprocesses' = nprocesses - 1
  /\ sigchld' = "none"
  /\ UNCHANGED <<pc, i, tmp>>

Harvest_CountsTwice(c) ==
  /\ sigchld = "handling"
  /\ proc[c] = "zombie"
  /\ proc' = [proc EXCEPT ![c] = "harvested"]
  /\ nprocesses' = nprocesses - 2
  /\ UNCHANGED <<pc, i, tmp, sigchld>>

\* waitpid reports c: nprocesses-- (and SIGUSR2 to this process, which finds
\* no pause() to end besides the one that SIGCHLD ended).
Harvest(c) ==
  /\ sigchld = "handling"
  /\ proc[c] = "zombie"
  /\ proc' = [proc EXCEPT ![c] = "harvested"]
  /\ nprocesses' = nprocesses - 1
  /\ UNCHANGED <<pc, i, tmp, sigchld>>

LeaveHandler ==
  /\ sigchld = "handling"
  /\ \A c \in Children : proc[c] # "zombie"
  /\ sigchld' = "none"
  /\ UNCHANGED <<pc, i, tmp, nprocesses, proc>>

\* A child ends and the kernel sends SIGCHLD; one that arrives while the
\* handler is in its loop is about a child the loop will find.
ChildEnds(c) ==
  /\ proc[c] = "running"
  /\ proc' = [proc EXCEPT ![c] = "zombie"]
  /\ sigchld' = IF sigchld = "none" THEN "pending" ELSE sigchld
  /\ UNCHANGED <<pc, i, tmp, nprocesses>>

-----------------------------------------------------------------------------
Main == Fork \/ EndForks \/ Load \/ Store \/ Test \/ Pause

Handler == EnterHandler \/ (\E c \in Children : Harvest(c)) \/ LeaveHandler

Next == Main \/ Handler \/ \E c \in Children : ChildEnds(c)

Spec == Init /\ [][Next]_vars

\* The parent and its handler run, and ./cpubound ends.
FairSpec ==
  /\ Spec
  /\ WF_vars(Main) /\ WF_vars(Handler)
  /\ \A c \in Children : WF_vars(ChildEnds(c))

-----------------------------------------------------------------------------
Left == {c \in Children : proc[c] \in {"running", "zombie"}}

\* Children may end before they are counted, and the count may be stored
\* over by main; still it never falls short of the children that are left
\* once all are counted, so that main does not leave the loop too early and
\* has harvested every child when it returns.
NeverShort ==
  /\ pc \in {"test", "pause", "paused"} => nprocesses >= Cardinality(Left)
  /\ pc = "done" => Left = {}

\* A child that has ended is harvested, although several ends can share one
\* SIGCHLD.
EachHarvested == \A c \in Children : proc[c] = "zombie" ~> proc[c] = "harvested"

\* The count is right whenever main looks at it or sleeps: no nprocesses-- of the
\* handler was lost in main's nprocesses++.
CountExact ==
  pc \in {"test", "pause", "paused", "done"} => nprocesses = Cardinality(Left)

\* chldhandler.c:5, "onchld handler decrements `nprocesses' when it receives
\* a child process termination event, and then sends a SIGUSR2 signal to this
\* process to wake up the pause() call": main returns, at least where the count
\* is right.
Returns == []CountExact => <>(pc = "done")
=============================================================================
