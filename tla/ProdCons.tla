------------------------------ MODULE ProdCons ------------------------------
(***************************************************************************)
(* The producer/consumer program of lab 6, labs/L5/labs6/prodcons.c: a     *)
(* producer copies the lines of stdin into a bounded buffer, a consumer    *)
(* prints them, prodDone tells the consumer that no more will come.        *)
(*                                                                         *)
(* Line k of stdin is the number k.  A step is a call of the bounded       *)
(* buffer (external, P2's BoundedBuffer), or an access to prodDone, which  *)
(* the two threads share without a lock.  The delays are left out: any     *)
(* relative speed of the threads, and of stdin, is possible.               *)
(***************************************************************************)
EXTENDS Integers, Sequences, Functions

CONSTANTS MaxLines,  (* stdin has at most this many lines: bounds the model *)
          size       (* capacity of the buffer, -n                          *)

ASSUME ProdConsAssumption == MaxLines \in Nat /\ size \in Nat \ {0}

VARIABLES
  nlines,      (* how many lines stdin has                                  *)
  isBlocking,  (* -b was given                                              *)
  nread,       (* how many of them fgets has returned                       *)
  bb,          (* the bounded buffer                                        *)
  prodDone,
  ppc, cpc,    (* control of the producer and of the consumer               *)
  line,        (* the line the consumer has taken and not printed, or 0     *)
  stdout,      (* the lines printed, in order                               *)
  freed        (* freed[k]: how often line k's copy was freed               *)

consts == <<nlines, isBlocking>>
bufferVars == <<consts, nread, bb, prodDone, ppc, cpc, line, stdout, freed>>

InitBuffer ==
  /\ nlines \in 0 .. MaxLines
  /\ isBlocking \in BOOLEAN
  /\ nread = 0
  /\ bb = <<>>
  /\ prodDone = FALSE
  /\ ppc = "read"
  /\ cpc = "test"
  /\ line = 0
  /\ stdout = <<>>
  /\ freed = [k \in 1 .. MaxLines |-> 0]

-----------------------------------------------------------------------------
(* producer.                                                               *)

\* fgets returns a line, which is copied to the heap ...
ReadLine ==
  /\ ppc = "read"
  /\ nread < nlines
  /\ nread' = nread + 1
  /\ ppc' = "write"
  /\ UNCHANGED <<consts, bb, prodDone, cpc, line, stdout, freed>>

\* ... or NULL at the end of stdin.
EndOfInput ==
  /\ ppc = "read"
  /\ nread = nlines
  /\ ppc' = "finish"
  /\ UNCHANGED <<consts, nread, bb, prodDone, cpc, line, stdout, freed>>

\* Mutant: a stack as the buffer.
WriteLine_Push ==
  /\ ppc = "write"
  /\ Len(bb) < size
  /\ bb' = <<nread>> \o bb
  /\ ppc' = "read"
  /\ UNCHANGED <<consts, nread, prodDone, cpc, line, stdout, freed>>

\* bb->blockingWrite waits for room; bb->nonblockingWrite finds some.
WriteLine ==
  /\ ppc = "write"
  /\ Len(bb) < size
  /\ bb' = Append(bb, nread)
  /\ ppc' = "read"
  /\ UNCHANGED <<consts, nread, prodDone, cpc, line, stdout, freed>>

\* Mutant: -b makes no difference when the buffer is full.
DropLine_Always ==
  /\ ppc = "write"
  /\ Len(bb) >= size
  /\ freed' = [freed EXCEPT ![nread] = @ + 1]
  /\ ppc' = "read"
  /\ UNCHANGED <<consts, nread, bb, prodDone, cpc, line, stdout>>

\* Without -b a line that finds the buffer full is freed.
DropLine ==
  /\ ppc = "write"
  /\ ~ isBlocking
  /\ Len(bb) >= size
  /\ freed' = [freed EXCEPT ![nread] = @ + 1]
  /\ ppc' = "read"
  /\ UNCHANGED <<consts, nread, bb, prodDone, cpc, line, stdout>>

SetProdDone ==
  /\ ppc = "finish"
  /\ prodDone' = TRUE
  /\ ppc' = "done"
  /\ UNCHANGED <<consts, nread, bb, cpc, line, stdout, freed>>

-----------------------------------------------------------------------------
(* consumer.                                                               *)

\* Mutant: the consumer has no second loop.
TestProdDone_NoDrain ==
  /\ cpc = "test"
  /\ cpc' = IF prodDone THEN "done" ELSE "get"
  /\ UNCHANGED <<consts, nread, bb, prodDone, ppc, line, stdout, freed>>

TestProdDone ==
  /\ cpc = "test"
  /\ cpc' = IF prodDone THEN "drain" ELSE "get"
  /\ UNCHANGED <<consts, nread, bb, prodDone, ppc, line, stdout, freed>>

Take(next) ==
  /\ bb # <<>>
  /\ line' = Head(bb)
  /\ bb' = Tail(bb)
  /\ cpc' = next
  /\ UNCHANGED <<consts, nread, prodDone, ppc, stdout, freed>>

\* bb->blockingRead of the first loop.
BlockingRead == cpc = "get" /\ Take("print")

\* bb->nonblockingRead, the condition of the second loop.
DrainRead == cpc = "drain" /\ Take("printDrained")

DrainEmpty ==
  /\ cpc = "drain"
  /\ bb = <<>>
  /\ cpc' = "done"
  /\ UNCHANGED <<consts, nread, bb, prodDone, ppc, line, stdout, freed>>

\* fputs and free, in either loop.
PrintLine ==
  /\ cpc \in {"print", "printDrained"}
  /\ stdout' = Append(stdout, line)
  /\ freed' = [freed EXCEPT ![line] = @ + 1]
  /\ line' = 0
  /\ cpc' = IF cpc = "print" THEN "test" ELSE "drain"
  /\ UNCHANGED <<consts, nread, bb, prodDone, ppc>>

-----------------------------------------------------------------------------
Producer == ReadLine \/ EndOfInput \/ WriteLine \/ DropLine \/ SetProdDone

Consumer == TestProdDone \/ BlockingRead \/ DrainRead \/ DrainEmpty \/ PrintLine

BufferNext == Producer \/ Consumer

BufferSpec == InitBuffer /\ [][BufferNext]_bufferVars

\* Both threads keep running, and stdin ends.
FairBufferSpec == BufferSpec /\ WF_bufferVars(Producer) /\ WF_bufferVars(Consumer)

-----------------------------------------------------------------------------
\* What has been taken from the producer, oldest first.
InHand == IF line = 0 THEN <<>> ELSE <<line>>
Passed == stdout \o InHand \o bb

\* Lines are printed in the order of stdin, none twice and none invented,
\* in both modes and at every moment; with -b none is missing either.
OrderKept ==
  /\ \A i, j \in 1 .. Len(Passed) : i < j => Passed[i] < Passed[j]
  /\ isBlocking => Len(Passed) = nread - (IF ppc = "write" THEN 1 ELSE 0)

\* The copy of a line is freed when it was printed or refused, once, and
\* never while it is still in the buffer or in the consumer's hand; when the
\* consumer has returned, the copy of every line of stdin has been freed.
FreedOnce ==
  /\ \A k \in 1 .. MaxLines :
       /\ freed[k] <= 1
       /\ freed[k] = 1 => k \notin Range(bb) /\ line # k
  /\ cpc = "done" => \A k \in 1 .. nlines : freed[k] = 1

\* prodcons.c:40, "if -b is specified, all lines read from stdin will be
\* written to stdout": eventually, whatever the threads' relative speed.
AllPrinted == isBlocking ~> Len(stdout) = nlines

\* prodcons.c:13, "wait for producer and consumer threads to terminate":
\* main's second join returns.
Terminates == <>(ppc = "done" /\ cpc = "done")
=============================================================================
