---------------------------- MODULE HarnessProofs ----------------------------
(***************************************************************************)
(* Proofs about the harness: in the versions without the handler's mistake *)
(* no process dies of a signal, and the clock is stopped when all have     *)
(* ended, for any number of processes and whatever the command line says.  *)
(***************************************************************************)
EXTENDS Harness, FiniteSetTheorems, TLAPS

Points == {"options", "signal", "fork", "SIGUSR1", "SIGSTOP", "SIGCONT", "wait",
           "report", "done", "failed", "crashed", "pausing"}

Types ==
  /\ version \in {"THv1", "THv2", "thv4"}
  /\ pc \in Points
  /\ i \in Nat \ {0}
  /\ pidcnt \in Nat
  /\ onusr1 \in BOOLEAN
  /\ sigchld \in {"none", "pending", "handling"}
  /\ proc \in [Children -> {"none", "polling", "loaded", "exited", "killed"}]
  /\ USR1_seen \in [Children -> BOOLEAN]
  /\ pending \in [Children -> SUBSET {"SIGUSR1", "SIGSTOP", "SIGUSR2"}]
  /\ stopped \in [Children -> BOOLEAN]
  /\ waitable \in [Children -> {"none", "stopped", "ended"}]

\* The loops that send signals and those that wait are about processes that
\* exist, and none is created before.
Control ==
  /\ pc \in {"options", "signal"} => pidcnt = 0
  /\ pc \in {"SIGUSR1", "SIGSTOP", "SIGCONT"} => version # "THv1" /\ onusr1 /\ pidcnt > 0
  /\ pc = "fork" /\ version # "THv1" => onusr1

\* A process that is still to be created has no history, and what has ended
\* does not live.
Created ==
  \A c \in Children :
    /\ c > pidcnt => proc[c] = "none" /\ waitable[c] = "none"
    /\ waitable[c] = "ended" => ~ Alive(c)

\* THv1.c and THv2.c: SIGUSR1 finds a handler, and nobody sends SIGUSR2,
\* THv2.c having no handler of SIGCHLD and THv1.c no child that stops.
Harmless ==
  version # "thv4" =>
    \A c \in Children :
      /\ proc[c] # "killed"
      /\ "SIGUSR2" \notin pending[c]
      /\ "SIGUSR1" \in pending[c] => version = "THv2" /\ onusr1
      /\ version = "THv2" => sigchld = "none"
      /\ version = "THv1" => "SIGSTOP" \notin pending[c] /\ waitable[c] # "stopped"

\* THv1.c has one process at a time, and only while it waits.
OneAtATime ==
  version = "THv1" =>
    \A c \in Unreaped : c = pidcnt /\ pc = "wait"

\* THv2.c: the calls of wait that are left are enough.
Counted ==
  version = "THv2" =>
    /\ pc = "wait" => i <= pidcnt /\ Cardinality(Unreaped) <= pidcnt - i + 1
    /\ pc \in {"report", "done", "crashed"} => Unreaped = {}

IInv == Types /\ Control /\ Created /\ Harmless /\ OneAtATime /\ Counted

-----------------------------------------------------------------------------
\* Everything holds when TH is started.
LEMMA InitInv == Init => IInv
<1> SUFFICES ASSUME Init PROVE IInv
  OBVIOUS
<1> USE HarnessAssumption DEF Init, Alive
<1>1. Types
  <2>1. onusr1 \in BOOLEAN
    OBVIOUS
  <2>2. i \in Nat \ {0} /\ pidcnt \in Nat
    OBVIOUS
  <2>3. pending \in [Children -> SUBSET {"SIGUSR1", "SIGSTOP", "SIGUSR2"}]
    OBVIOUS
  <2> QED
    BY <2>1, <2>2, <2>3 DEF Types, Points
<1>2. Control /\ Created /\ Harmless
  BY DEF Control, Created, Harmless
<1>3. OneAtATime /\ Counted
  BY DEF OneAtATime, Counted, Unreaped
<1> QED
  BY <1>1, <1>2, <1>3 DEF IInv

\* The steps of the harness other than Wait keep what does not count.
LEMMA ParentKeeps ==
  ASSUME IInv, Parent
  PROVE  Types' /\ Control' /\ Created' /\ Harmless' /\ OneAtATime'
<1> USE HarnessAssumption DEF IInv, Types, Points, Control, Created, Harmless, OneAtATime,
       Unreaped, Alive, asked, parent, child, onchld
<1>1. CASE Options
  BY <1>1 DEF Options
<1>2. CASE Establish
  BY <1>2 DEF Establish, Forked
<1>3. CASE Fork
  <2>1. /\ proc' \in [Children -> {"none", "polling", "loaded", "exited", "killed"}]
        /\ \A c \in Children : proc'[c] = IF c = pidcnt + 1 THEN "polling" ELSE proc[c]
    BY <1>3 DEF Fork
  <2>2. /\ pc' \notin {"options", "signal"}
        /\ pc' \in {"SIGUSR1", "SIGSTOP", "SIGCONT", "fork"} => version # "THv1"
        /\ version = "THv1" => pc' = "wait"
    BY <1>3 DEF Fork, Forked
  <2>3. pc' \in Points
    <3>1. pc' \in {"wait", "fork", Forked}
      BY <1>3 DEF Fork
    <3> QED
      BY <3>1 DEF Forked
  <2>4. /\ pc = "fork" /\ pidcnt' = pidcnt + 1
        /\ UNCHANGED <<version, i, onusr1, sigchld, USR1_seen, pending, stopped, waitable>>
    BY <1>3 DEF Fork
  <2>5. Types'
    BY <2>1, <2>3, <2>4
  <2>6. Control'
    BY <2>2, <2>4
  <2>7. Created'
    BY <2>1, <2>4 DEF Children
  <2>8. Harmless' /\ OneAtATime'
    BY <2>1, <2>2, <2>4
  <2> QED
    BY <2>5, <2>6, <2>7, <2>8
<1>4. CASE ForkFails
  BY <1>4 DEF ForkFails
<1>5. CASE SendUsr1
  <2>1. pending' \in [Children -> SUBSET {"SIGUSR1", "SIGSTOP", "SIGUSR2"}]
    BY <1>5 DEF SendUsr1, Kill
  <2>2. \A c \in Children : pending'[c] \subseteq pending[c] \cup {"SIGUSR1"}
    BY <1>5 DEF SendUsr1, Kill
  <2>3. pc = "SIGUSR1" /\ pc' \in {"SIGUSR1", "SIGSTOP"} /\ i' \in Nat \ {0}
    BY <1>5 DEF SendUsr1, Kill, LoopTo
  <2>4. UNCHANGED <<version, pidcnt, onusr1, sigchld, proc, USR1_seen, stopped, waitable>>
    BY <1>5 DEF SendUsr1, Kill
  <2>5. Types' /\ Control' /\ Created' /\ OneAtATime'
    BY <2>1, <2>3, <2>4
  <2>6. Harmless'
    BY <2>2, <2>3, <2>4
  <2> QED
    BY <2>5, <2>6
<1>6. CASE SendStop
  <2>1. pending' \in [Children -> SUBSET {"SIGUSR1", "SIGSTOP", "SIGUSR2"}]
    BY <1>6 DEF SendStop, Kill
  <2>2. \A c \in Children : pending'[c] \subseteq pending[c] \cup {"SIGSTOP"}
    BY <1>6 DEF SendStop, Kill
  <2>3. pc = "SIGSTOP" /\ pc' \in {"SIGSTOP", "SIGCONT"} /\ i' \in Nat \ {0}
    BY <1>6 DEF SendStop, Kill, LoopTo
  <2>4. UNCHANGED <<version, pidcnt, onusr1, sigchld, proc, USR1_seen, stopped, waitable>>
    BY <1>6 DEF SendStop, Kill
  <2>5. Types' /\ Control' /\ Created' /\ OneAtATime'
    BY <2>1, <2>3, <2>4
  <2>6. Harmless'
    BY <2>2, <2>3, <2>4
  <2> QED
    BY <2>5, <2>6
<1>7. CASE SendCont
  <2>1. pending' \in [Children -> SUBSET {"SIGUSR1", "SIGSTOP", "SIGUSR2"}]
    BY <1>7 DEF SendCont, Continue
  <2>2. \A c \in Children : pending'[c] \subseteq pending[c]
    BY <1>7 DEF SendCont, Continue
  <2>3. /\ waitable' \in [Children -> {"none", "stopped", "ended"}]
        /\ \A c \in Children : waitable'[c] = waitable[c] \/ waitable'[c] = "none"
    BY <1>7 DEF SendCont, Continue
  <2>4. pc = "SIGCONT" /\ pc' \in {"SIGCONT", "wait"} /\ i' \in Nat \ {0}
    BY <1>7 DEF SendCont, Continue, LoopTo
  <2>5. /\ stopped' \in [Children -> BOOLEAN]
        /\ UNCHANGED <<version, pidcnt, onusr1, sigchld, proc, USR1_seen>>
    BY <1>7 DEF SendCont, Continue
  <2>6. Types' /\ Control' /\ Created' /\ OneAtATime'
    BY <2>1, <2>3, <2>4, <2>5
  <2>7. Harmless'
    BY <2>2, <2>3, <2>4, <2>5
  <2> QED
    BY <2>6, <2>7
<1>8. CASE Wait
  BY <1>8 DEF Wait, AfterWait, LoopTo
<1>9. CASE PutReport
  BY <1>9 DEF PutReport
<1> QED
  BY <1>1, <1>2, <1>3, <1>4, <1>5, <1>6, <1>7, <1>8, <1>9 DEF Parent

\* The SIGCHLD handler of THv4.c keeps what the other parts of the invariant say.
LEMMA HandlerKeeps ==
  ASSUME IInv, Handler
  PROVE  Types' /\ Control' /\ Created' /\ Harmless' /\ OneAtATime'
<1> USE HarnessAssumption DEF IInv, Types, Points, Control, Created, Harmless, OneAtATime,
       Unreaped, Alive, asked, parent, child, onchld
<1>1. CASE EnterHandler
  BY <1>1 DEF EnterHandler
<1>2. ASSUME NEW c \in Children, HarvestChild(c)
      PROVE  Types' /\ Control' /\ Created' /\ Harmless' /\ OneAtATime'
  BY <1>2 DEF HarvestChild
<1>3. CASE LeaveHandler
  BY <1>3 DEF LeaveHandler
<1> QED
  BY <1>1, <1>2, <1>3 DEF Handler

\* So does a child, whatever signal it takes.
LEMMA ChildKeeps ==
  ASSUME IInv, NEW c \in Children, Child(c)
  PROVE  Types' /\ Control' /\ Created' /\ Harmless' /\ OneAtATime'
<1> USE HarnessAssumption DEF IInv, Types, Points, Control, Created, Harmless, OneAtATime,
       Unreaped, Alive, asked, parent, child, onchld, Runs, Notify, Awake
<1>1. CASE TakeUsr1(c)
  <2>1. CASE onusr1
    BY <1>1, <2>1 DEF TakeUsr1
  <2>2. CASE ~ onusr1
    BY <1>1, <2>2 DEF TakeUsr1
  <2> QED
    BY <2>1, <2>2
<1>2. CASE Suspend(c)
  BY <1>2 DEF Suspend
<1>3. CASE TakeUsr2(c)
  BY <1>3 DEF TakeUsr2
<1>4. CASE Exec(c)
  BY <1>4 DEF Exec
<1>5. CASE Exit(c)
  BY <1>5 DEF Exit
<1> QED
  BY <1>1, <1>2, <1>3, <1>4, <1>5 DEF Child

-----------------------------------------------------------------------------
\* Only processes that were created are waited for, and they are finitely many.
LEMMA FewUnreaped ==
  ASSUME IInv
  PROVE  /\ IsFiniteSet(Unreaped)
         /\ Cardinality(Unreaped) \in Nat
         /\ Cardinality(Unreaped) <= pidcnt
<1>1. Unreaped \subseteq 1 .. pidcnt
  BY HarnessAssumption DEF IInv, Types, Created, Unreaped, Alive, Children
<1>2. pidcnt \in Nat
  BY DEF IInv, Types
<1>3. /\ IsFiniteSet(1 .. pidcnt)
      /\ Cardinality(1 .. pidcnt) = IF 1 > pidcnt THEN 0 ELSE pidcnt - 1 + 1
  BY <1>2, FS_Interval
<1>4. Cardinality(1 .. pidcnt) = pidcnt
  BY <1>2, <1>3
<1>5. /\ IsFiniteSet(Unreaped)
      /\ Cardinality(Unreaped) <= Cardinality(1 .. pidcnt)
  BY <1>1, <1>3, FS_Subset
<1> QED
  BY <1>4, <1>5, FS_CardinalityType

\* As long as nobody is created and nobody is waited for, the count stands.
LEMMA SameCount ==
  ASSUME IInv, Unreaped' = Unreaped, UNCHANGED <<version, pidcnt, i, pc>>
  PROVE  Counted'
BY DEF IInv, Counted

\* A step of the parent keeps the count of the children it has still to wait for.
LEMMA ParentCounts == ASSUME IInv, Parent PROVE Counted'
<1> USE HarnessAssumption DEF asked, parent, child
<1>0. /\ Types /\ Control /\ Created /\ Counted
      /\ pidcnt \in Nat /\ i \in Nat \ {0}
  BY DEF IInv, Types
<1> SUFFICES ASSUME version = "THv2", version' = "THv2" PROVE Counted'
  BY DEF Counted, Parent, Options, Establish, Fork, ForkFails, SendUsr1, SendStop, SendCont,
         Kill, Continue, Wait, PutReport
<1>1. CASE Options
  BY <1>1 DEF Options, Counted
<1>2. CASE Establish
  <2>1. pc' = "report" => Unreaped = {}
    BY <1>0, <1>2 DEF Establish, Control, Created, Unreaped, Alive, Types, Children
  <2>2. pc' \in {"fork", "SIGUSR1", "report"}
    BY <1>2 DEF Establish, Forked, onchld
  <2> QED
    BY <1>2, <2>1, <2>2 DEF Establish, Counted, Unreaped, Alive
<1>3. CASE Fork
  <2>1. pc' \in {"fork", "SIGUSR1"}
    BY <1>0, <1>3 DEF Fork, Forked
  <2> QED
    BY <2>1 DEF Counted
<1>4. CASE ForkFails
  BY <1>4 DEF ForkFails, Counted
<1>5. CASE SendUsr1 \/ SendStop
  BY <1>5 DEF SendUsr1, SendStop, Kill, LoopTo, Counted
<1>6. CASE SendCont
  <2>1. Unreaped' = Unreaped
    BY <1>0, <1>6 DEF SendCont, Continue, Unreaped, Alive, Types
  <2>2. pc' \in {"SIGCONT", "wait"} /\ pidcnt > 0 /\ pidcnt' = pidcnt
    BY <1>0, <1>6 DEF SendCont, Continue, LoopTo, Control
  <2>3. pc' = "wait" => i' = 1
    BY <1>6 DEF SendCont, Continue, LoopTo
  <2> QED
    BY <1>0, <2>1, <2>2, <2>3, FewUnreaped DEF Counted
<1>7. CASE Wait
  <2>1. /\ i <= pidcnt /\ Cardinality(Unreaped) <= pidcnt - i + 1
        /\ pidcnt' = pidcnt
        /\ i' = IF i < pidcnt THEN i + 1 ELSE 1
        /\ pc' = IF i < pidcnt THEN "wait" ELSE "report"
    BY <1>0, <1>7 DEF Wait, AfterWait, LoopTo, Counted
  <2>2. /\ IsFiniteSet(Unreaped')
        /\ Cardinality(Unreaped') \in Nat
        /\ Cardinality(Unreaped') <= pidcnt - i
    <3>1. CASE Unreaped = {} /\ UNCHANGED waitable
      <4>1. Unreaped' = {}
        BY <1>7, <3>1 DEF Wait, Unreaped, Alive
      <4>2. pidcnt - i \in Nat
        BY <1>0, <2>1
      <4> QED
        BY <4>1, <4>2, FS_EmptySet
    <3>2. ASSUME NEW c \in Unreaped, waitable[c] = "ended",
                 waitable' = [waitable EXCEPT ![c] = "none"]
          PROVE  /\ IsFiniteSet(Unreaped')
                 /\ Cardinality(Unreaped') \in Nat
                 /\ Cardinality(Unreaped') <= pidcnt - i
      <4>1. Unreaped' = Unreaped \ {c}
        BY <1>0, <1>7, <3>2 DEF Wait, Unreaped, Alive, Types, Created
      <4>2. /\ IsFiniteSet(Unreaped \ {c})
            /\ Cardinality(Unreaped \ {c}) = Cardinality(Unreaped) - 1
        BY <3>2, FewUnreaped, FS_RemoveElement
      <4>3. Cardinality(Unreaped \ {c}) \in Nat
        BY <4>2, FS_CardinalityType
      <4> QED
        BY <1>0, <2>1, <4>1, <4>2, <4>3, FewUnreaped
    <3> QED
      BY <1>7, <3>1, <3>2 DEF Wait
  <2>3. pc' = "report" => Unreaped' = {}
    <3>1. pc' = "report" => Cardinality(Unreaped') = 0
      BY <1>0, <2>1, <2>2
    <3> QED
      BY <2>2, <3>1, FS_EmptySet
  <2> QED
    BY <1>0, <2>1, <2>2, <2>3 DEF Counted
<1>8. CASE PutReport
  BY <1>0, <1>8 DEF PutReport, Counted, Unreaped, Alive
<1> QED
  BY <1>1, <1>2, <1>3, <1>4, <1>5, <1>6, <1>7, <1>8 DEF Parent

\* In THv2.c there is no handler, so that a child that ends is waited for
\* instead of being alive.
LEMMA OthersCount ==
  ASSUME IInv, Handler \/ \E c \in Children : Child(c)
  PROVE  Counted'
<1> USE DEF parent, child
<1>0. /\ Types /\ Harmless
      /\ UNCHANGED <<version, pidcnt, i, pc>>
  BY DEF IInv, Handler, EnterHandler, HarvestChild, LeaveHandler,
         Child, TakeUsr1, Suspend, TakeUsr2, Exec, Exit, asked
<1> SUFFICES ASSUME version = "THv2" PROVE Counted'
  BY <1>0 DEF Counted
<1>1. ~ Handler
  BY <1>0, HarnessAssumption
  DEF Handler, EnterHandler, HarvestChild, LeaveHandler, Harmless, Children, onchld
<1>2. ASSUME NEW c \in Children, Child(c)
      PROVE  Unreaped' = Unreaped
  BY <1>0, <1>2
  DEF Child, TakeUsr1, Suspend, TakeUsr2, Exec, Exit, Runs, Notify, Unreaped, Alive, Types
<1> QED
  BY <1>0, <1>1, <1>2, SameCount

-----------------------------------------------------------------------------
\* The invariant holds in every state of every behaviour.
THEOREM Invariance == Spec => []IInv
<1>1. IInv /\ [Next]_vars => IInv'
  <2> SUFFICES ASSUME IInv, [Next]_vars PROVE IInv'
    OBVIOUS
  <2>1. CASE Parent
    BY <2>1, ParentKeeps, ParentCounts DEF IInv
  <2>2. CASE Handler
    BY <2>2, HandlerKeeps, OthersCount DEF IInv
  <2>3. ASSUME NEW c \in Children, Child(c)
        PROVE  IInv'
    BY <2>3, ChildKeeps, OthersCount DEF IInv
  <2>4. CASE UNCHANGED vars
    BY <2>4 DEF vars, asked, parent, child, IInv, Types, Control, Created, Harmless,
       OneAtATime, Counted, Unreaped, Alive
  <2> QED
    BY <2>1, <2>2, <2>3, <2>4 DEF Next
<1> QED
  BY <1>1, InitInv, PTL DEF Spec

\* THv1.c and THv2.c: no process dies of a signal of the harness.
THEOREM NoneIsKilled == Spec => []NoneKilled
<1>1. IInv => NoneKilled
  BY DEF IInv, Harmless, NoneKilled
<1> QED
  BY <1>1, Invariance, PTL

\* THv1.c and THv2.c: the time that is reported covers every process.
THEOREM ElapsedIsComplete == Spec => []ElapsedCoversAll
<1>1. IInv => ElapsedCoversAll
  <2> SUFFICES ASSUME IInv, version # "thv4", pc \in {"report", "done", "crashed"}
               PROVE  Unreaped = {}
    BY DEF ElapsedCoversAll, Unreaped
  <2>1. version \in {"THv1", "THv2"}
    BY DEF IInv, Types
  <2> QED
    BY <2>1 DEF IInv, OneAtATime, Counted
<1> QED
  BY <1>1, Invariance, PTL
=============================================================================
