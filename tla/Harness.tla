------------------------------- MODULE Harness -------------------------------
(***************************************************************************)
(* The timing harness TH of project 1: it reads its options, forks the     *)
(* workload's processes, wakes them with SIGUSR1, suspends them with       *)
(* SIGSTOP, resumes them with SIGCONT and waits for them.  P1/THv2.c has   *)
(* no SIGCHLD handler and calls wait once per process; P1/thv2.c, thv3.c   *)
(* and thv4.c (one text) have the handler onchld and call wait once.       *)
(* P1/THv1.c (with THv3.c and thv1.c) sends no signal: each process loads  *)
(* the workload at once, and is waited for before the next fork.           *)
(*                                                                         *)
(* A step of the harness is a system call; a step of a child is the        *)
(* delivery of a signal, exec, or its end.  External: what the kernel does *)
(* with signals.  A signal stays pending until the process runs; SIGCONT   *)
(* cancels a pending SIGSTOP and a stop that was not reported yet; a       *)
(* stopped process takes no other signal; SIGCHLD does not queue.          *)
(***************************************************************************)
EXTENDS P1Fxns, FiniteSets, TLC

(* Before the first fork: what TH makes of its options, of its environment  *)
(* and of the command line that -l gives, all of them texts of P1Fxns. What *)
(* getopt returns is a sequence of records [opt, arg]; the environment is a *)
(* partial function from the numbers' flags to texts.                       *)

Numbers == {"q", "p", "c"}

\* Mutant: -p 0 is accepted.
Accepted_Zero(o) == o.opt \in Numbers \/ (o.opt = "l" /\ Atoi(o.arg) = 0)

\* An option that does not end the program.
Accepted(o) ==
  \/ o.opt \in Numbers /\ Atoi(o.arg) # 0
  \/ o.opt = "l" /\ Atoi(o.arg) = 0

Flags(argv) == {argv[k].opt : k \in 1..Len(argv)}

\* The values after the loop: an option replaces what an earlier one gave.
GetOpt(argv) == SX!FoldLeft(LAMBDA got, o : (o.opt :> o.arg) @@ got, <<>>, argv)

\* Mutant: the environment wins.
Configuration_Environment(input) == input.env @@ GetOpt(input.argv)

\* The environment is asked for a number that no option gave.
Configuration(input) == GetOpt(input.argv) @@ input.env

\* TH goes on only with three numbers and a command.
Configured(input) ==
  /\ \A k \in 1..Len(input.argv) : Accepted(input.argv[k])
  /\ "l" \in Flags(input.argv)
  /\ Numbers \subseteq DOMAIN Configuration(input)

\* Mutant: the loop takes up where the last word ended.
Words_Resume(cmdLine) ==
  LET turn(a, i) ==
        LET g == GetWord(cmdLine, IF a.w > i THEN a.w ELSE i, a.word)
        IN IF g.next = a.w THEN a
           ELSE [w |-> g.next, word |-> g.word, args |-> Append(a.args, g.word)]
  IN SX!FoldLeft(turn, [w |-> 0, word |-> <<>>, args |-> <<>>],
                 [i \in 1..Len(cmdLine) |-> i - 1]).args

\* The vector args: p1getword is called from every position of the command
\* line, and a word is new when the index it returns is.
Words(cmdLine) ==
  LET turn(a, i) ==
        LET g == GetWord(cmdLine, i, a.word)
        IN [w |-> g.next, word |-> g.word,
            args |-> IF g.next = a.w THEN a.args ELSE Append(a.args, g.word)]
  IN SX!FoldLeft(turn, [w |-> 0, word |-> <<>>, args |-> <<>>],
                 [i \in 1..Len(cmdLine) |-> i - 1]).args

\* The seconds and the decimals that TH prints: line 373 packs the seconds
\* twice, and dsecs is not used.
Report(musecs) ==
  LET sec == Itoa(musecs \div 1000000)
  IN [times |-> StrPack(sec, -7, "0"), timed |-> StrPack(sec, 3, "0")]

-----------------------------------------------------------------------------
\* The words of a command line without quotes: from a blank to a blank.
Blank(c) == c \in {" ", "\t"}
Fields(line) ==
  LET starts == {i \in 1..Len(line) : ~Blank(line[i]) /\ (i = 1 \/ Blank(line[i - 1]))}
      end(i) == CHOOSE j \in i..Len(line) :
                  /\ \A k \in i..j : ~Blank(line[k])
                  /\ j = Len(line) \/ Blank(line[j + 1])
  IN [k \in 1..Cardinality(starts) |->
        LET i == CHOOSE i \in starts : Cardinality({j \in starts : j <= i}) = k
        IN SubSeq(line, i, end(i))]

-----------------------------------------------------------------------------
(* From the first fork on.                                                  *)

CONSTANTS
  nprocesses,   (* the most processes an input asks for                     *)
  Inputs        (* what TH may be started with: records [argv, env]         *)

ASSUME HarnessAssumption == nprocesses \in Nat \ {0}

Children == 1 .. nprocesses      \* the processes in the order of the forks

VARIABLES
  version,    (* "THv1", "THv2" or "thv4", which thv2.c and thv3.c are too  *)
  input,      (* what the program was started with                          *)
  npro,       (* how many processes to run                                  *)
  args,       (* the words of the command                                   *)
  pc,         (* control of the harness                                     *)
  i,          (* the index of its current loop                              *)
  pidcnt,
  onusr1,     (* the handler of SIGUSR1 is established, for the children too*)
  sigchld,    (* SIGCHLD in the harness: "none", "pending" or "handling"    *)
  proc,       (* proc[c]: "none", "polling" USR1_seen, "loaded" by exec,    *)
              (* "exited" or "killed" by a signal                           *)
  USR1_seen,
  pending,    (* pending[c]: the signals sent to c and not delivered        *)
  stopped,    (* stopped[c]: c is suspended                                 *)
  waitable    (* waitable[c]: what waitpid would report of c, or "none"     *)

asked  == <<version, input, npro, args>>
parent == <<asked, pc, i, pidcnt, onusr1>>
child  == <<proc, USR1_seen, pending, stopped>>
vars   == <<parent, sigchld, child, waitable>>

Init ==
  /\ version \in {"THv1", "THv2", "thv4"}
  /\ input \in Inputs
  /\ npro = -1
  /\ args = <<>>
  /\ pc = "options"
  /\ i = 1
  /\ pidcnt = 0
  /\ onusr1 = FALSE
  /\ sigchld = "none"
  /\ proc = [c \in Children |-> "none"]
  /\ USR1_seen = [c \in Children |-> FALSE]
  /\ pending = [c \in Children |-> {}]
  /\ stopped = [c \in Children |-> FALSE]
  /\ waitable = [c \in Children |-> "none"]

\* The handler of SIGCHLD is established.
onchld == version # "THv2"

Alive(c) == proc[c] \in {"polling", "loaded"}

-----------------------------------------------------------------------------
(* The harness.  It does not go on while its SIGCHLD handler runs.         *)

\* The options, the environment and the words of the command; main returns
\* when one is missing or not legal.
Options ==
  /\ pc = "options"
  /\ IF Configured(input)
     THEN /\ npro' = Atoi(Configuration(input).p)
          /\ args' = Words(Configuration(input).l)
          /\ pc' = "signal"
     ELSE /\ pc' = "failed"
          /\ UNCHANGED <<npro, args>>
  /\ UNCHANGED <<version, input, i, pidcnt, onusr1, sigchld, child, waitable>>

\* Where main goes on when the processes exist.
Forked ==
  IF version = "THv1" THEN "report"
  ELSE IF npro > 0 THEN "SIGUSR1"
  ELSE IF onchld THEN "wait" ELSE "report"

\* Mutant: the handler is not established before the children exist.
Establish_Late ==
  /\ pc = "signal"
  /\ pc' = IF npro > 0 THEN "fork" ELSE Forked
  /\ UNCHANGED <<asked, i, pidcnt, onusr1, sigchld, child, waitable>>

\* signal(SIGUSR1, onusr1), which THv1.c has not.
Establish ==
  /\ pc = "signal"
  /\ onusr1' = (version # "THv1")
  /\ pc' = IF npro > 0 THEN "fork" ELSE Forked
  /\ UNCHANGED <<asked, i, pidcnt, sigchld, child, waitable>>

Fork ==
  /\ pc = "fork"
  /\ sigchld # "handling"
  /\ pidcnt' = pidcnt + 1
  /\ proc' = [proc EXCEPT ![pidcnt'] = "polling"]
  /\ pc' = IF version = "THv1" THEN "wait"
           ELSE IF pidcnt' = npro THEN Forked ELSE "fork"
  /\ UNCHANGED <<asked, i, onusr1, sigchld, USR1_seen, pending, stopped, waitable>>

\* THv2.c jumps to a label that does not wait and THv1.c to one that pauses
\* until npro, which is not the npro that onchld counts down, is 0.
ForkFails ==
  /\ pc = "fork"
  /\ sigchld # "handling"
  /\ pc' = IF version = "THv1" THEN "pausing" ELSE "failed"
  /\ UNCHANGED <<asked, i, pidcnt, onusr1, sigchld, child, waitable>>

\* One turn of a loop for(i = 0; i < pidcnt; i++), and what follows the loop.
LoopTo(next, n) ==
  /\ i' = IF i < n THEN i + 1 ELSE 1
  /\ pc' = IF i < n THEN pc ELSE next

\* kill(pidarr[i], sig), for a signal other than SIGCONT.
Kill(sig) ==
  /\ pc = sig
  /\ sigchld # "handling"
  /\ pending' = IF Alive(i) THEN [pending EXCEPT ![i] = @ \cup {sig}] ELSE pending
  /\ UNCHANGED <<asked, pidcnt, onusr1, sigchld, proc, USR1_seen, stopped, waitable>>

SendUsr1 == Kill("SIGUSR1") /\ LoopTo("SIGSTOP", pidcnt)
SendStop == Kill("SIGSTOP") /\ LoopTo("SIGCONT", pidcnt)

\* kill(pidarr[i], SIGCONT)
Continue ==
  /\ pc = "SIGCONT"
  /\ sigchld # "handling"
  /\ pending' = [pending EXCEPT ![i] = @ \ {"SIGSTOP"}]
  /\ stopped' = [stopped EXCEPT ![i] = FALSE]
  /\ waitable' = [waitable EXCEPT ![i] = IF @ = "stopped" THEN "none" ELSE @]
  /\ UNCHANGED <<asked, pidcnt, onusr1, sigchld, proc, USR1_seen>>

\* Mutant: the loop ends one process early.
SendCont_OffByOne == Continue /\ LoopTo("wait", pidcnt - 1)

SendCont == Continue /\ LoopTo("wait", pidcnt)

\* Mutant: wait is called once in THv2.c, too.
AfterWait_Once == i' = i /\ pc' = "report"

\* THv1.c goes back to the fork, THv2.c calls wait for every process, and
\* the others call it once.
AfterWait ==
  CASE version = "THv1" -> i' = i /\ pc' = IF pidcnt < npro THEN "fork" ELSE "report"
    [] version = "THv2" -> LoopTo("report", pidcnt)
    [] OTHER            -> i' = i /\ pc' = "report"

\* Processes that have been created and whose end has not been reported.
Unreaped == {c \in Children : Alive(c) \/ waitable[c] = "ended"}

\* wait(&status): a process has ended, or there is none to wait for.
Wait ==
  /\ pc = "wait"
  /\ sigchld # "handling"
  /\ \/ \E c \in Unreaped : /\ waitable[c] = "ended"
                           /\ waitable' = [waitable EXCEPT ![c] = "none"]
     \/ Unreaped = {} /\ UNCHANGED waitable
  /\ AfterWait
  /\ UNCHANGED <<asked, pidcnt, onusr1, sigchld, child>>

\* The line with the elapsed time, in which args[0] is the name of the
\* command: p1strcat reads the null pointer when there is none.
PutReport ==
  /\ pc = "report"
  /\ sigchld # "handling"
  /\ pc' = IF args = <<>> THEN "crashed" ELSE "done"
  /\ UNCHANGED <<asked, i, pidcnt, onusr1, sigchld, child, waitable>>

Returned == pc \in {"done", "failed", "crashed"}

\* SIGCHLD reaches the harness while it has not returned from main.
EnterHandler ==
  /\ onchld
  /\ sigchld = "pending"
  /\ ~ Returned
  /\ sigchld' = "handling"
  /\ UNCHANGED <<parent, child, waitable>>

\* onchld: waitpid reports an ended or a stopped child; either is sent
\* SIGUSR2, which only the stopped one can still receive.
HarvestChild(c) ==
  /\ sigchld = "handling"
  /\ waitable[c] # "none"
  /\ waitable' = [waitable EXCEPT ![c] = "none"]
  /\ pending' = IF Alive(c) THEN [pending EXCEPT ![c] = @ \cup {"SIGUSR2"}] ELSE pending
  /\ UNCHANGED <<parent, sigchld, proc, USR1_seen, stopped>>

\* waitpid finds nothing more to report.  A SIGCHLD that came meanwhile is
\* about a change the loop has seen.
LeaveHandler ==
  /\ sigchld = "handling"
  /\ \A c \in Children : waitable[c] = "none"
  /\ sigchld' = "none"
  /\ UNCHANGED <<parent, child, waitable>>

-----------------------------------------------------------------------------
(* The children.                                                           *)

Runs(c) == Alive(c) /\ ~ stopped[c]

\* The kernel tells the harness of a change of c.
Notify(c, what) ==
  /\ waitable' = [waitable EXCEPT ![c] = what]
  /\ sigchld' = IF onchld /\ sigchld = "none" THEN "pending" ELSE sigchld

\* onusr1 sets USR1_seen; without the handler SIGUSR1 kills.
TakeUsr1(c) ==
  /\ Runs(c)
  /\ "SIGUSR1" \in pending[c]
  /\ pending' = [pending EXCEPT ![c] = @ \ {"SIGUSR1"}]
  /\ IF onusr1
     THEN /\ USR1_seen' = [USR1_seen EXCEPT ![c] = TRUE]
          /\ UNCHANGED <<proc, waitable, sigchld>>
     ELSE /\ proc' = [proc EXCEPT ![c] = "killed"]
          /\ Notify(c, "ended")
          /\ UNCHANGED USR1_seen
  /\ UNCHANGED <<parent, stopped>>

Suspend(c) ==
  /\ Runs(c)
  /\ "SIGSTOP" \in pending[c]
  /\ pending' = [pending EXCEPT ![c] = @ \ {"SIGSTOP"}]
  /\ stopped' = [stopped EXCEPT ![c] = TRUE]
  /\ Notify(c, "stopped")
  /\ UNCHANGED <<parent, proc, USR1_seen>>

\* None of the programs that have onchld handles SIGUSR2.
TakeUsr2(c) ==
  /\ Runs(c)
  /\ "SIGUSR2" \in pending[c]
  /\ proc' = [proc EXCEPT ![c] = "killed"]
  /\ Notify(c, "ended")
  /\ UNCHANGED <<parent, USR1_seen, pending, stopped>>

\* The loop on USR1_seen, which THv1.c has not, is over.
Awake(c) == version = "THv1" \/ USR1_seen[c]

\* execvp loads the workload ...
Exec(c) ==
  /\ Runs(c)
  /\ proc[c] = "polling"
  /\ Awake(c)
  /\ args # <<>>
  /\ proc' = [proc EXCEPT ![c] = "loaded"]
  /\ UNCHANGED <<parent, sigchld, USR1_seen, pending, stopped, waitable>>

\* ... which ends, or execvp returns and the child does, however.
Exit(c) ==
  /\ Runs(c)
  /\ Awake(c)
  /\ proc' = [proc EXCEPT ![c] = "exited"]
  /\ Notify(c, "ended")
  /\ UNCHANGED <<parent, USR1_seen, pending, stopped>>

-----------------------------------------------------------------------------
Parent == \/ Options \/ Establish \/ Fork \/ ForkFails
          \/ SendUsr1 \/ SendStop \/ SendCont \/ Wait \/ PutReport

Handler == EnterHandler \/ (\E c \in Children : HarvestChild(c)) \/ LeaveHandler

Child(c) == TakeUsr1(c) \/ Suspend(c) \/ TakeUsr2(c) \/ Exec(c) \/ Exit(c)

Next == Parent \/ Handler \/ \E c \in Children : Child(c)

Spec == Init /\ [][Next]_vars

\* Every process is scheduled, signals are delivered to processes that run,
\* and the workload ends.
FairSpec ==
  /\ Spec
  /\ WF_vars(Parent) /\ WF_vars(Handler)
  /\ \A c \in Children : WF_vars(Child(c))

-----------------------------------------------------------------------------
\* THv1.c and THv2.c: no process of the workload dies of a signal the harness
\* sends, in whatever order and however late the signals are delivered.
NoneKilled == version # "thv4" => \A c \in Children : proc[c] # "killed"

\* THv1.c and THv2.c stop the clock when every process they created has ended.
ElapsedCoversAll ==
  version # "thv4" /\ pc \in {"report", "done", "crashed"} =>
    \A c \in Children : ~ Alive(c)

\* When TH reports, it has created as many processes as its last -p says, or
\* without one the environment, and there were none only if the environment
\* said 0.
RunsAsAsked ==
  pc \in {"report", "done", "crashed"} =>
    LET ps == {k \in 1 .. Len(input.argv) : input.argv[k].opt = "p"}
        p == CHOOSE k \in ps : \A l \in ps : l <= k
    IN /\ pidcnt = Value(IF ps = {} THEN input.env["p"] ELSE input.argv[p].arg)
       /\ pidcnt = 0 => ps = {}
       /\ \A c \in Children : proc[c] = "none" <=> c > pidcnt

\* A command line without quotes comes apart into its words (THv2.c:97).  When
\* it ends in a blank the harness adds an argument that is none of them: of what
\* comes behind the words of such a line nothing is said.
Lines == UNION {[1 .. n -> {"a", "b", " ", "\t"}] : n \in 0 .. 5}
ArgumentsAreWords ==
  pc = "options" =>
    \A line \in Lines :
      /\ SX!IsPrefix(Fields(line), Words(line))
      /\ line = <<>> \/ ~Blank(line[Len(line)]) => Words(line) = Fields(line)

\* The numbers that are read and printed keep their value, a line of input
\* is neither lost nor cut but by the size of its buffer, and the first number
\* of the report is that of the seconds.  What it says of their fraction, which
\* the comment at THv2.c:69 speaks of, is left open.
TextsKeepTheirMeaning ==
  pc = "options" =>
    /\ NumbersSurvive(120, {-4, -2, 0, 1, 3})
    /\ \A input1 \in UNION {[1 .. n -> {"a", "\n"}] : n \in 0 .. 5} :
         \A size \in 2 .. 4 : LinesMakeTheInput(input1, size)
    /\ \A s \in {0, 1, 9, 10, 61, 999}, f \in {0, 1, 500000, 999999} :
         Value(Report(1000000 * s + f).times) = s

\* The harness returns, also when its handler has reaped the processes that
\* wait was to report, unless THv1.c is left pausing by a fork that failed.
HarnessReturns == <>(Returned \/ (version = "THv1" /\ pc = "pausing"))
=============================================================================
