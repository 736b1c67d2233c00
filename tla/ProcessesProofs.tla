-------------------------- MODULE ProcessesProofs --------------------------
(***************************************************************************)
(* Programs of several processes.  The two services with the BXP runtime,  *)
(* for any number of clients, programs and requests: a client of the       *)
(* broker whose request is right, or no command, is answered from its own  *)
(* request; the call back server's call has reached a client's thread      *)
(* before the client's call returns, and lines are printed in their        *)
(* number.  The SIGCHLD handler of lab 4, for any number of children: main *)
(* does not leave its loop before all of them have been harvested.         *)
(***************************************************************************)
EXTENDS Broker, Callback, ChldHandler, QueueLemmas, SequenceTheorems

BrokerSpec == InitBroker /\ [][BrokerNext]_brokerVars

-----------------------------------------------------------------------------
(* Answers.                                                                *)

Entry == [from : Clients, q : Requests]
Statuses == {"start", "ready", "waiting", "answered", "registered", "done"}

AnswerTypes ==
  /\ version \in Versions
  /\ inbox \in Seq(Entry)
  /\ tpc \in {"handle", "respond"} => request \in Entry
  /\ cast \in [Clients -> Programs]
  /\ cpc \in [Clients -> Statuses]
  /\ sent = [c \in Clients |-> sent[c]]
  /\ answer = [c \in Clients |-> answer[c]]

Busy == tpc \in {"handle", "respond"}
Queued == 1 .. Len(inbox)
Idle(c) == cpc[c] \in {"start", "ready", "answered", "registered"}

\* A client has one request at the broker while it waits, the one it has sent
\* last, and none while it could send another; it may have left one behind.
Transit ==
  /\ \A j, k \in Queued : inbox[j].from = inbox[k].from => j = k
  /\ \A k \in Queued : /\ ~ Idle(inbox[k].from)
                       /\ Busy => inbox[k].from # request.from
                       /\ cpc[inbox[k].from] = "waiting" => inbox[k].q = sent[inbox[k].from]
  /\ Busy => /\ ~ Idle(request.from)
             /\ cpc[request.from] = "waiting" => request.q = sent[request.from]

\* What an answer a to the request q of client c may be.
Decided(a, c, q) ==
  LET own == a.from = c /\ a.says = q
  IN CASE version = "psbv1" -> own /\ a.ok = "1"
       [] version = "psbv2_curr" -> a.from = c /\ a.says.cmd = q.cmd
       [] OTHER ->
            /\ Granted(q) => own /\ a.ok = "1"
            /\ q.cmd \notin Commands => own /\ a.ok = "0"
            /\ a.ok = "1" => Legal(a.says) \/ a.says.cmd \in Subscribers

\* psbv2.c and psbv3.c leave no 1 in the buffer but that of a right request.
Buffer ==
  /\ version \in {"psbv2", "psbv3"} /\ response.ok = "1" =>
       Legal(response.says) \/ response.says.cmd \in Subscribers
  /\ tpc = "respond" => Decided(response, request.from, request.q)

\* The inductive invariant.
AnswerInv == AnswerTypes /\ Transit /\ Buffer /\ AnswersAreOwn

\* Every request at the broker has a sender.
LEMMA Senders ==
  ASSUME AnswerTypes
  PROVE  /\ \A k \in Queued : inbox[k].from \in Clients
         /\ Busy => request.from \in Clients
<1>1. \A k \in Queued : inbox[k] \in Entry
  BY ElementOfSeq DEF AnswerTypes, Queued
<1>2. \A e \in Entry : e.from \in Clients
  BY DEF Entry
<1>3. Busy => request \in Entry
  BY DEF AnswerTypes, Busy
<1> QED
  BY <1>1, <1>2, <1>3

\* No request is at the broker at the start.
LEMMA AnswerInit == InitBroker => AnswerInv
<1> SUFFICES ASSUME InitBroker PROVE AnswerInv
  OBVIOUS
<1>1. AnswerTypes
  <2>1. <<>> \in Seq(Entry)
    OBVIOUS
  <2>2. cast \in [Clients -> Programs]
    BY BrokerAssumption DEF InitBroker
  <2>3. cpc \in [Clients -> Statuses]
    BY DEF InitBroker, Statuses
  <2>4. sent = [c \in Clients |-> sent[c]] /\ answer = [c \in Clients |-> answer[c]]
    BY DEF InitBroker
  <2> QED
    BY <2>1, <2>2, <2>3, <2>4 DEF InitBroker, AnswerTypes
<1>2. Queued = {}
  BY DEF InitBroker, Queued
<1> QED
  BY <1>1, <1>2 DEF InitBroker, AnswerInv, Transit, Busy, Buffer, Garbage,
     AnswersAreOwn

\* main touches nothing that answers are made from.
LEMMA AnswerMain ==
  ASSUME AnswerInv,
         BrokerMain \/ Sigint \/ StartThread \/ HandleCrashes \/ EndThread
  PROVE  AnswerInv'
<1>1. /\ UNCHANGED <<version, request, response, inbox, clientVars>>
      /\ Busy' => Busy
      /\ tpc' \in {"handle", "respond"} => tpc' = tpc
  BY DEF BrokerMain, Options, OptionsFail, EstablishOnint, ReadNames, Offer, CreateThread,
     WaitForInt, DestroyQueue, FreeNames, CancelThread, JoinThread, Sigint, StartThread,
     HandleCrashes, EndThread, At, AtRisk, startup, mainVars, threadVars, registry, Busy
<1>2. AnswerTypes' /\ Transit'
  BY <1>1 DEF AnswerInv, AnswerTypes, Transit, Busy, Queued, Idle, clientVars
<1>3. \A q : Granted(q)' = Granted(q)
  BY <1>1 DEF Granted
<1>4. Buffer'
  BY <1>1, <1>3 DEF AnswerInv, Buffer, Decided
<1>5. AnswersAreOwn'
  BY <1>1, <1>3 DEF AnswerInv, AnswersAreOwn, clientVars
<1> QED
  BY <1>2, <1>4, <1>5 DEF AnswerInv

\* The thread takes the request at the head.
LEMMA AnswerQuery == AnswerInv /\ Query => AnswerInv'
<1> SUFFICES ASSUME AnswerInv, Query PROVE AnswerInv'
  OBVIOUS
<1>1. /\ inbox # <<>> /\ request' = Head(inbox) /\ inbox' = Tail(inbox)
      /\ tpc = "query" /\ tpc' = "handle"
      /\ UNCHANGED <<version, response, clientVars>>
  BY DEF Query, mainVars, startup
<1>2. /\ inbox \in Seq(Entry) /\ Len(inbox) \in Nat \ {0}
      /\ request' \in Entry /\ inbox' \in Seq(Entry)
      /\ Len(inbox') = Len(inbox) - 1
      /\ request' = inbox[1]
      /\ \A k \in 1 .. Len(inbox) - 1 : inbox'[k] = inbox[k + 1]
  BY <1>1 DEF AnswerInv, AnswerTypes
<1>3. AnswerTypes'
  BY <1>1, <1>2 DEF AnswerInv, AnswerTypes, clientVars
<1>4. /\ 1 \in Queued
      /\ \A k \in Queued' : k + 1 \in Queued /\ k + 1 # 1 /\ inbox'[k] = inbox[k + 1]
  BY <1>2 DEF Queued
<1>5. Transit'
  <2>1. \A j, k \in Queued' : inbox'[j].from = inbox'[k].from => j + 1 = k + 1
    BY <1>4 DEF AnswerInv, Transit
  <2>2. \A j, k \in Queued' : j + 1 = k + 1 => j = k
    BY <1>2 DEF Queued
  <2>3. \A k \in Queued' :
          /\ ~ Idle(inbox'[k].from)
          /\ inbox'[k].from # request'.from
          /\ cpc[inbox'[k].from] = "waiting" => inbox'[k].q = sent[inbox'[k].from]
    BY <1>2, <1>4 DEF AnswerInv, Transit
  <2>4. /\ ~ Idle(request'.from)
        /\ cpc[request'.from] = "waiting" => request'.q = sent[request'.from]
    BY <1>2, <1>4 DEF AnswerInv, Transit
  <2> QED
    BY <1>1, <2>1, <2>2, <2>3, <2>4 DEF Transit, Idle, clientVars
<1>6. \A q : Granted(q)' = Granted(q)
  BY <1>1 DEF Granted
<1>7. Buffer' /\ AnswersAreOwn'
  BY <1>1, <1>6 DEF AnswerInv, Buffer, AnswersAreOwn, clientVars
<1> QED
  BY <1>3, <1>5, <1>7 DEF AnswerInv

\* What psbv2.c grants by its own numbers is right, but for subscriber.c.
LEMMA CheckedRule ==
  ASSUME NEW q
  PROVE  /\ IsCommand(q) /\ q.n = Arguments(q.cmd) => Legal(q) \/ q.cmd \in Subscribers
         /\ Granted(q) => IsCommand(q) /\ q.n = Arguments(q.cmd)
         /\ Granted(q) => q.cmd \in Commands
         /\ IsCommand(q) => q.cmd \in Commands
<1> QED
  BY DEF IsCommand, Arguments, Legal, Expected, Granted, Commands, Subscribers

\* What the thread puts into the buffer agrees with the rule.
LEMMA HandleDecides ==
  ASSUME AnswerInv, Handle
  PROVE  /\ Decided(response', request.from, request.q)
         /\ version \in {"psbv2", "psbv3"} /\ response'.ok = "1" =>
              Legal(response'.says) \/ response'.says.cmd \in Subscribers
<1> DEFINE q == request.q
<1>1. version \in Versions /\ request \in Entry
  BY DEF AnswerInv, AnswerTypes, Handle
<1>2. \A ok : Echo(ok).ok = ok /\ Echo(ok).from = request.from /\ Echo(ok).says = Echoed(q)
  BY DEF Echo
<1>3. /\ version # "psbv2_curr" => Echoed(q) = q
      /\ Echoed(q).cmd = q.cmd
  BY DEF Echoed
<1>4. CASE version \in {"psbv1", "psbv2_curr"}
  <2>1. response' = Echo("1")
    BY <1>4 DEF Handle
  <2> QED
    BY <1>2, <1>3, <1>4, <2>1 DEF Decided
<1>5. CASE version \in {"psbv2", "psbv3"} /\ ~ UsesQueue
  <2>1. Checked
    BY <1>5 DEF Handle
  <2>2. CASE ~ IsCommand(q)
    <3>1. response' = Echo("0")
      BY <2>1, <2>2 DEF Checked
    <3> QED
      BY <1>2, <1>3, <1>5, <2>2, <3>1, CheckedRule DEF Decided
  <2>3. CASE IsCommand(q) /\ q.n = Arguments(q.cmd)
    <3>1. response' = Echo("1")
      BY <2>1, <2>3 DEF Checked
    <3> QED
      BY <1>2, <1>3, <1>5, <2>3, <3>1, CheckedRule DEF Decided
  <2>4. CASE IsCommand(q) /\ q.n # Arguments(q.cmd)
    <3>1. response' = response
      BY <2>1, <2>4 DEF Checked
    <3> QED
      BY <1>5, <2>4, <3>1, CheckedRule DEF Decided, AnswerInv, Buffer
  <2> QED
    BY <2>2, <2>3, <2>4
<1>6. CASE UsesQueue
  <2>1. version = "psbv3" /\ q.cmd \in Commands /\ Legal(q)
    BY <1>6 DEF UsesQueue, IsCommand, Legal, Expected
  <2>2. CASE q.cmd = "CreateChannel"
    <3>1. CreateChannel /\ ~ Granted(q)
      BY <1>6, <2>1, <2>2 DEF Handle, Granted
    <3>2. response' = Echo("1") \/ response' = response
      BY <3>1 DEF CreateChannel
    <3> QED
      BY <1>2, <1>3, <2>1, <3>1, <3>2 DEF Decided, AnswerInv, Buffer
  <2>3. CASE q.cmd # "CreateChannel"
    <3>1. ListChannels
      BY <1>6, <2>1, <2>3 DEF Handle
    <3>2. response'.ok = "1" /\ response'.from = request.from /\ response'.says = q
      BY <1>2, <1>3, <2>1, <3>1 DEF ListChannels, Echo
    <3> QED
      BY <2>1, <3>2 DEF Decided
  <2> QED
    BY <2>2, <2>3
<1> QED
  BY <1>1, <1>4, <1>5, <1>6 DEF Versions

\* The thread makes the answer.
LEMMA AnswerHandle == AnswerInv /\ Handle => AnswerInv'
<1> SUFFICES ASSUME AnswerInv, Handle PROVE AnswerInv'
  OBVIOUS
<1>1. /\ UNCHANGED <<version, request, inbox, clientVars>>
      /\ tpc = "handle" /\ tpc' = "respond"
  BY DEF Handle, mainVars, startup
<1>2. AnswerTypes'
  BY <1>1 DEF AnswerInv, AnswerTypes, clientVars
<1>3. Transit'
  BY <1>1 DEF AnswerInv, Transit, Busy, Queued, Idle, clientVars
<1>4. \A q : Granted(q)' = Granted(q)
  BY <1>1 DEF Granted
<1>5. Buffer'
  BY <1>1, <1>4, HandleDecides DEF Buffer, Decided
<1>6. AnswersAreOwn'
  BY <1>1, <1>4 DEF AnswerInv, AnswersAreOwn, clientVars
<1> QED
  BY <1>2, <1>3, <1>5, <1>6 DEF AnswerInv

\* The answer goes to the client that sent the request, if it still waits.
LEMMA AnswerRespond == AnswerInv /\ Respond => AnswerInv'
<1> SUFFICES ASSUME AnswerInv, Respond PROVE AnswerInv'
  OBVIOUS
<1> DEFINE d == request.from
<1>1. /\ tpc = "respond" /\ tpc' = "query"
      /\ UNCHANGED <<version, response, inbox, cast, sent>>
      /\ IF cpc[d] = "waiting"
         THEN /\ cpc' = [cpc EXCEPT ![d] = "answered"]
              /\ answer' = [answer EXCEPT ![d] = response]
         ELSE UNCHANGED <<cpc, answer>>
  BY DEF Respond, mainVars, startup, registry
<1>2. d \in Clients
  BY <1>1 DEF AnswerInv, AnswerTypes, Entry
<1>3. Decided(response, d, request.q) /\ (cpc[d] = "waiting" => request.q = sent[d])
  BY <1>1 DEF AnswerInv, Buffer, Transit, Busy
<1>4. \A k \in Queued : inbox[k].from # d
  BY <1>1 DEF AnswerInv, Transit, Busy
<1> HIDE DEF d
<1>5. /\ cpc' \in [Clients -> Statuses] /\ answer' = [c \in Clients |-> answer'[c]]
      /\ \A c \in Clients :
           IF c = d /\ cpc[c] = "waiting" THEN cpc'[c] = "answered" /\ answer'[c] = response
           ELSE cpc'[c] = cpc[c] /\ answer'[c] = answer[c]
  BY <1>1, <1>2 DEF AnswerInv, AnswerTypes, Statuses
<1>6. AnswerTypes'
  BY <1>1, <1>5 DEF AnswerInv, AnswerTypes
<1>7. Transit'
  <2>1. \A k \in Queued : inbox[k].from \in Clients /\ cpc'[inbox[k].from] = cpc[inbox[k].from]
    BY <1>4, <1>5, Senders DEF AnswerInv
  <2> QED
    BY <1>1, <2>1 DEF AnswerInv, Transit, Busy, Queued, Idle
<1>8. \A q : Granted(q)' = Granted(q)
  BY <1>1 DEF Granted
<1>9. Buffer'
  BY <1>1, <1>8 DEF AnswerInv, Buffer
<1>10. AnswersAreOwn'
  <2> SUFFICES ASSUME NEW c \in Clients, cpc'[c] = "answered"
               PROVE  Decided(answer'[c], c, sent[c])
    BY <1>1, <1>8 DEF AnswersAreOwn, Decided
  <2>1. CASE c = d /\ cpc[c] = "waiting"
    BY <1>3, <1>5, <2>1
  <2>2. CASE ~ (c = d /\ cpc[c] = "waiting")
    BY <1>5, <2>2 DEF AnswerInv, AnswersAreOwn, Decided
  <2> QED
    BY <2>1, <2>2
<1> QED
  BY <1>6, <1>7, <1>9, <1>10 DEF AnswerInv

\* A client that starts, has its answer, or leaves: where it could send again
\* afterwards it has nothing at the broker.
LEMMA AnswerClient ==
  ASSUME AnswerInv, NEW d \in Clients,
         Connect(d) \/ CallFails(d) \/ Return(d) \/ Leave(d)
  PROVE  AnswerInv'
<1>1. /\ UNCHANGED <<version, tpc, request, response, inbox, cast>>
      /\ \E p \in {"ready", "registered", "done"} :
           /\ cpc' = [cpc EXCEPT ![d] = p]
           /\ p # "done" => Idle(d)
      /\ \/ UNCHANGED <<sent, answer>>
         \/ Forget(d)
  BY DEF Connect, CallFails, Return, Leave, Continues, Idle, mainVars, startup,
         threadVars, registry
<1>2. PICK p \in {"ready", "registered", "done"} :
        cpc' = [cpc EXCEPT ![d] = p] /\ (p # "done" => Idle(d))
  BY <1>1
<1>3. /\ cpc' \in [Clients -> Statuses]
      /\ sent' = [c \in Clients |-> sent'[c]] /\ answer' = [c \in Clients |-> answer'[c]]
      /\ cpc'[d] = p
      /\ \A c \in Clients \ {d} : cpc'[c] = cpc[c] /\ sent'[c] = sent[c] /\ answer'[c] = answer[c]
  BY <1>1, <1>2 DEF AnswerInv, AnswerTypes, Statuses, Forget
<1>4. AnswerTypes'
  BY <1>1, <1>3 DEF AnswerInv, AnswerTypes
<1>5. \A c \in Clients : /\ Idle(c)' => Idle(c)
                         /\ cpc'[c] = "waiting" => cpc[c] = "waiting" /\ sent'[c] = sent[c]
                         /\ cpc'[c] = "answered" => c # d
  BY <1>2, <1>3 DEF Idle
<1>6. Transit'
  <2>1. /\ \A k \in Queued : inbox[k].from \in Clients
        /\ Busy => request.from \in Clients
    BY Senders DEF AnswerInv
  <2> QED
    BY <1>1, <1>5, <2>1 DEF AnswerInv, Transit, Busy, Queued
<1>7. \A q : Granted(q)' = Granted(q)
  BY <1>1 DEF Granted
<1>8. Buffer'
  BY <1>1, <1>7 DEF AnswerInv, Buffer, Decided
<1>9. AnswersAreOwn'
  BY <1>1, <1>3, <1>5, <1>7 DEF AnswerInv, AnswersAreOwn
<1> QED
  BY <1>4, <1>6, <1>8, <1>9 DEF AnswerInv

\* A client that calls has nothing at the broker.
LEMMA AnswerCall == ASSUME AnswerInv, NEW d \in Clients, Call(d) PROVE AnswerInv'
<1>1. PICK q \in Requests :
        /\ MaySend(d, q)
        /\ inbox' = Append(inbox, [from |-> d, q |-> q])
        /\ sent' = [sent EXCEPT ![d] = q]
        /\ cpc' = [cpc EXCEPT ![d] = "waiting"]
        /\ UNCHANGED <<mainVars, threadVars, cast, answer>>
  BY DEF Call
<1>2. UNCHANGED <<version, tpc, request, response>>
  BY <1>1 DEF mainVars, startup, threadVars, registry
<1>3. Idle(d)
  BY <1>1 DEF MaySend, Idle, AnswerInv, AnswerTypes, Programs
<1>4. /\ inbox \in Seq(Entry) /\ inbox' \in Seq(Entry)
      /\ Len(inbox') = Len(inbox) + 1
      /\ inbox'[Len(inbox) + 1] = [from |-> d, q |-> q]
      /\ \A k \in Queued : inbox'[k] = inbox[k]
      /\ Len(inbox) \in Nat
  BY <1>1, AppendProperties DEF AnswerInv, AnswerTypes, Entry, Queued
<1>5. /\ cpc' \in [Clients -> Statuses]
      /\ sent' = [c \in Clients |-> sent'[c]]
      /\ cpc'[d] = "waiting" /\ sent'[d] = q
      /\ \A c \in Clients \ {d} : cpc'[c] = cpc[c] /\ sent'[c] = sent[c]
  BY <1>1 DEF AnswerInv, AnswerTypes, Statuses
<1>6. AnswerTypes'
  BY <1>1, <1>2, <1>4, <1>5 DEF AnswerInv, AnswerTypes
<1>7. /\ \A k \in Queued : inbox[k].from \in Clients \ {d}
      /\ Busy => request.from \in Clients \ {d}
  BY <1>3, Senders DEF AnswerInv, Transit
<1>8. \A k \in Queued' : k \in Queued \/ k = Len(inbox) + 1
  BY <1>4 DEF Queued
<1>9. Transit'
  <2>1. \A j, k \in Queued' : inbox'[j].from = inbox'[k].from => j = k
    BY <1>4, <1>7, <1>8 DEF AnswerInv, Transit
  <2>2. ASSUME NEW k \in Queued'
        PROVE  /\ ~ Idle(inbox[k].from)'
               /\ Busy => inbox'[k].from # request.from
               /\ cpc'[inbox'[k].from] = "waiting" => inbox'[k].q = sent'[inbox'[k].from]
    <3>1. CASE k \in Queued
      BY <1>4, <1>5, <1>7, <3>1 DEF AnswerInv, Transit, Idle
    <3>2. CASE k = Len(inbox) + 1
      BY <1>4, <1>5, <1>7, <3>2 DEF Idle
    <3> QED
      BY <1>8, <3>1, <3>2
  <2>3. Busy => /\ ~ Idle(request.from)'
                /\ cpc'[request.from] = "waiting" => request.q = sent'[request.from]
    BY <1>2, <1>5, <1>7 DEF AnswerInv, Transit, Idle
  <2> QED
    BY <1>2, <2>1, <2>2, <2>3 DEF Transit, Busy
<1>10. \A r : Granted(r)' = Granted(r)
  BY <1>2 DEF Granted
<1>11. Buffer'
  BY <1>2, <1>10 DEF AnswerInv, Buffer, Decided
<1>12. AnswersAreOwn'
  BY <1>1, <1>2, <1>5, <1>10 DEF AnswerInv, AnswersAreOwn
<1> QED
  BY <1>6, <1>9, <1>11, <1>12 DEF AnswerInv

\* Every step keeps the invariant.
LEMMA AnswerNext == AnswerInv /\ [BrokerNext]_brokerVars => AnswerInv'
<1> SUFFICES ASSUME AnswerInv, [BrokerNext]_brokerVars PROVE AnswerInv'
  OBVIOUS
<1>1. CASE BrokerMain \/ Sigint \/ StartThread \/ HandleCrashes \/ EndThread
  BY <1>1, AnswerMain
<1>2. CASE Query \/ Handle \/ Respond
  BY <1>2, AnswerQuery, AnswerHandle, AnswerRespond
<1>3. ASSUME NEW c \in Clients, Client(c) PROVE AnswerInv'
  BY <1>3, AnswerClient, AnswerCall DEF Client
<1>4. CASE UNCHANGED brokerVars
  <2>1. UNCHANGED <<version, tpc, request, response, inbox, clientVars>>
    BY <1>4 DEF brokerVars, mainVars, startup, threadVars, registry
  <2>2. \A q : Granted(q)' = Granted(q)
    BY <2>1 DEF Granted
  <2>3. AnswerTypes' /\ Transit'
    BY <2>1 DEF AnswerInv, AnswerTypes, Transit, Busy, Queued, Idle, clientVars
  <2>4. Buffer' /\ AnswersAreOwn'
    BY <2>1, <2>2 DEF AnswerInv, Buffer, Decided, AnswersAreOwn, clientVars
  <2> QED
    BY <2>3, <2>4 DEF AnswerInv
<1> QED
  BY <1>1, <1>2, <1>3, <1>4 DEF BrokerNext, Thread

\* However many clients share the one response buffer, and whenever SIGINT comes:
\* the answer to a request that is right, or no command, is made from it, and a 1
\* is only given for a right request.
THEOREM BrokerAnswers == BrokerSpec => []AnswersAreOwn
<1>1. AnswerInv => AnswersAreOwn
  BY DEF AnswerInv
<1> QED
  BY <1>1, AnswerInit, AnswerNext, PTL DEF BrokerSpec

-----------------------------------------------------------------------------
(* The call back.                                                          *)

CallTypes ==
  /\ service \in {"Echo", "Echo-Callback"}
  /\ spc \in {"start", "query", "connect", "await", "respond", "aborted", "killed"}
  /\ queries \in Seq(Callers)
  /\ query \in Callers \cup {"nobody"}
  /\ spc \in {"connect", "await", "respond"} => query \in Callers
  /\ lpc \in [Callers -> {"start", "create", "ready", "waiting", "answered",
                          "returned", "aborted", "killed"}]
  /\ lines \in [Callers -> Nat]
  /\ svcpc \in [Callers -> {"none", "query", "respond", "print"}]
  /\ back \in [Callers -> BOOLEAN]
  /\ received \in [Callers -> Nat]
  /\ printed \in [Callers -> Nat]

InQueue(c) == c \in Range(queries)
InHand(c) == spc \in {"connect", "await", "respond"} /\ query = c

\* A client has at most one request on its way, and only while it waits.
OneRequest ==
  /\ IsInjective(queries)
  /\ \A c \in Callers : InQueue(c) => ~ InHand(c)
  /\ \A c \in Callers : Alive(c) /\ lpc[c] # "waiting" => ~ InQueue(c) /\ ~ InHand(c)

\* Where the last line of a client is, in the pair with the call back.
LastLine(c) ==
  /\ received[c] = lines[c] \/ received[c] = lines[c] - 1
  /\ printed[c] = IF svcpc[c] \in {"respond", "print"} THEN received[c] - 1 ELSE received[c]
  /\ Alive(c) =>
       /\ lpc[c] # "waiting" => received[c] = lines[c] /\ ~ back[c] /\ svcpc[c] # "respond"
       /\ back[c] => /\ received[c] = lines[c] - 1 /\ svcpc[c] # "respond"
                     /\ ~ InQueue(c) /\ (InHand(c) => spc = "await")
       /\ InQueue(c) \/ (InHand(c) /\ spc = "connect") =>
            received[c] = lines[c] - 1 /\ svcpc[c] # "respond"
       /\ svcpc[c] = "respond" => received[c] = lines[c]
       /\ InHand(c) /\ spc = "respond" => received[c] = lines[c] /\ svcpc[c] # "respond"

\* In the other pair the client prints what the call returns.
EchoedLine(c) ==
  /\ svcpc[c] = "none" /\ ~ back[c]
  /\ printed[c] <= lines[c]
  /\ Alive(c) => printed[c] = IF lpc[c] \in {"waiting", "answered"}
                              THEN lines[c] - 1 ELSE lines[c]

\* Only the other pair has threads to call back and a server that does.
Pairs ==
  /\ \A c \in Callers : lpc[c] \in {"start", "create"} => svcpc[c] = "none"
  /\ service = "Echo" => /\ spc \notin {"connect", "await"}
                         /\ \A c \in Callers : lpc[c] # "create"

PrintedLine(c) == IF service = "Echo" THEN EchoedLine(c) ELSE LastLine(c)

\* The inductive invariant.
CallInv == CallTypes /\ OneRequest /\ Pairs /\ \A c \in Callers : PrintedLine(c)

-----------------------------------------------------------------------------
\* Nothing has been sent at the start.
LEMMA CallbackInit == InitCallback => CallInv
<1> SUFFICES ASSUME InitCallback PROVE CallInv
  OBVIOUS
<1>1. Range(<<>>) = {} /\ IsInjective(<<>>)
  BY DEF Range, IsInjective
<1> QED
  BY <1>1 DEF InitCallback, CallInv, CallTypes, OneRequest, Pairs, PrintedLine,
         EchoedLine, LastLine,
              InQueue, InHand, Alive

\* What the steps below need of the parts.
LEMMA CallbackServer == CallInv /\ (Server \/ ServerKilled) => CallInv'
<1> SUFFICES ASSUME CallInv, Server \/ ServerKilled PROVE CallInv'
  OBVIOUS
<1> USE DEF CallInv, CallTypes, OneRequest, Pairs, PrintedLine, EchoedLine,
            LastLine, InQueue, InHand, Alive
<1>1. CASE ServerStart \/ ServerKilled
  <2>1. /\ UNCHANGED <<service, queries, query, lpc, lines, svcpc, back, received, printed>>
        /\ spc' \in {"query", "aborted", "killed"}
    BY <1>1 DEF ServerStart, ServerKilled, caller, svcThread
  <2> QED
    BY <2>1
<1>2. CASE TakeQuery
  <2>1. /\ spc = "query" /\ queries # <<>>
        /\ query' = Head(queries)
        /\ queries' = Tail(queries)
        /\ spc' = IF service = "Echo" THEN "respond" ELSE "connect"
        /\ UNCHANGED <<service, lpc, lines, svcpc, back, received, printed>>
    BY <1>2 DEF TakeQuery, caller, svcThread
  <2>2. /\ query' \in Callers
        /\ queries' \in Seq(Callers)
        /\ Range(queries) = {query'} \cup Range(queries')
        /\ IsInjective(queries')
        /\ query' \notin Range(queries')
    BY <2>1, TailElems
  <2>3. CallTypes' /\ OneRequest' /\ Pairs'
    BY <2>1, <2>2
  <2>4. ASSUME NEW c \in Callers PROVE PrintedLine(c)'
    BY <2>1, <2>2
  <2> QED
    BY <2>3, <2>4
<1>3. CASE ConnectBack
  <2>1. /\ spc = "connect" /\ query \in Callers
        /\ UNCHANGED <<service, queries, query, lpc, lines, svcpc, received, printed>>
    BY <1>3 DEF ConnectBack, caller, svcThread
  <2>2. CASE Alive(query)
    <3>0. spc' = "await" /\ back' = [back EXCEPT ![query] = TRUE]
      BY <1>3, <2>2 DEF ConnectBack
    <3>1. /\ spc' = "await"
          /\ back' \in [Callers -> BOOLEAN]
          /\ \A c \in Callers : back'[c] = IF c = query THEN TRUE ELSE back[c]
      BY <2>1, <3>0
    <3>2. CallTypes' /\ OneRequest' /\ Pairs'
      BY <2>1, <2>2, <3>1
    <3>3. ASSUME NEW c \in Callers PROVE PrintedLine(c)'
      BY <2>1, <2>2, <3>1, <3>3
    <3> QED
      BY <3>2, <3>3
  <2>3. CASE ~ Alive(query)
    <3>1. spc' \in {"respond", "aborted"} /\ back' = back
      BY <1>3, <2>3 DEF ConnectBack
    <3> QED
      BY <2>1, <2>3, <3>1
  <2> QED
    BY <2>2, <2>3
<1>4. CASE BackFails
  <2>1. /\ spc = "await" /\ ~ Alive(query) /\ spc' = "respond"
        /\ UNCHANGED <<service, queries, query, lpc, lines, svcpc, back, received, printed>>
    BY <1>4 DEF BackFails, caller, svcThread
  <2> QED
    BY <2>1
<1>5. CASE ServerRespond
  <2>1. /\ spc = "respond" /\ query \in Callers
        /\ UNCHANGED <<service, queries, query, lines, svcpc, back, received, printed>>
    BY <1>5 DEF ServerRespond, svcThread
  <2>2. CASE Alive(query)
    <3>1. /\ spc' = "query"
          /\ lpc' = [lpc EXCEPT ![query] = "answered"]
      BY <1>5, <2>2 DEF ServerRespond
    <3>2. /\ CallTypes'
          /\ lpc[query] = "waiting"
          /\ \A c \in Callers : lpc'[c] = IF c = query THEN "answered" ELSE lpc[c]
      BY <2>1, <2>2, <3>1
    <3>3. OneRequest' /\ Pairs'
      BY <2>1, <2>2, <3>1, <3>2
    <3>4. ASSUME NEW c \in Callers PROVE PrintedLine(c)'
      BY <2>1, <2>2, <3>1, <3>2
    <3> QED
      BY <3>2, <3>3, <3>4
  <2>3. CASE ~ Alive(query)
    <3>1. spc' \in {"query", "aborted"} /\ lpc' = lpc
      BY <1>5, <2>3 DEF ServerRespond
    <3> QED
      BY <2>1, <3>1
  <2> QED
    BY <2>2, <2>3
<1> QED
  BY <1>1, <1>2, <1>3, <1>4, <1>5 DEF Server

\* The steps of a client's main that send nothing.
LEMMA CallbackCaller ==
  ASSUME CallInv, NEW d \in Callers,
         \/ ConnectServer(d) \/ CreateSvcThread(d) \/ CallReturns(d)
         \/ CallAborts(d) \/ ClientEnds(d) \/ ClientKilled(d)
  PROVE  CallInv'
<1> USE DEF CallInv, CallTypes, OneRequest, Pairs, PrintedLine, EchoedLine,
            LastLine, InQueue, InHand, Alive
<1>1. CASE ConnectServer(d) \/ CallAborts(d) \/ ClientEnds(d) \/ ClientKilled(d)
  <2>1. /\ UNCHANGED <<service, spc, query, queries, lines, svcpc, back, received, printed>>
        /\ \E p \in {"aborted", "ready", "create", "returned", "killed"} :
             /\ lpc' = [lpc EXCEPT ![d] = p]
             /\ p \in {"ready", "create"} => lpc[d] = "start"
             /\ p = "create" => service # "Echo"
        /\ Alive(d)
    BY <1>1 DEF ConnectServer, CallAborts, ClientEnds, ClientKilled, server, svcThread
  <2>2. PICK p \in {"aborted", "ready", "create", "returned", "killed"} :
          /\ lpc' = [lpc EXCEPT ![d] = p]
          /\ p \in {"ready", "create"} => lpc[d] = "start"
          /\ p = "create" => service # "Echo"
    BY <2>1
  <2>3. \A c \in Callers : lpc'[c] = IF c = d THEN p ELSE lpc[c]
    BY <2>2
  <2>4. CallTypes' /\ OneRequest' /\ Pairs'
    BY <2>1, <2>2, <2>3
  <2>5. ASSUME NEW c \in Callers PROVE PrintedLine(c)'
    BY <2>1, <2>2, <2>3
  <2> QED
    BY <2>4, <2>5
<1>2. CASE CreateSvcThread(d)
  <2>1. /\ UNCHANGED <<service, spc, query, queries, lines, back, received, printed>>
        /\ lpc[d] = "create"
        /\ \/ lpc' = [lpc EXCEPT ![d] = "ready"] /\ svcpc' = [svcpc EXCEPT ![d] = "query"]
           \/ lpc' = [lpc EXCEPT ![d] = "aborted"] /\ svcpc' = svcpc
    BY <1>2 DEF CreateSvcThread, server
  <2>2. PICK p \in {"ready", "aborted"}, t \in {"query", "none"} :
          /\ lpc' = [lpc EXCEPT ![d] = p]
          /\ svcpc' = [svcpc EXCEPT ![d] = t]
    BY <2>1
  <2>3. /\ \A c \in Callers : lpc'[c] = IF c = d THEN p ELSE lpc[c]
        /\ \A c \in Callers : svcpc'[c] = IF c = d THEN t ELSE svcpc[c]
    BY <2>2
  <2>4. CallTypes' /\ OneRequest' /\ Pairs'
    BY <2>1, <2>2, <2>3
  <2>5. ASSUME NEW c \in Callers PROVE PrintedLine(c)'
    BY <2>1, <2>2, <2>3
  <2> QED
    BY <2>4, <2>5
<1>3. CASE CallReturns(d)
  <2>1. /\ UNCHANGED <<service, spc, query, queries, lines, svcpc, back, received>>
        /\ lpc[d] = "answered"
        /\ lpc' = [lpc EXCEPT ![d] = "ready"]
        /\ printed' = IF service = "Echo" THEN [printed EXCEPT ![d] = @ + 1] ELSE printed
    BY <1>3 DEF CallReturns, server, svcThread
  <2>2. CallTypes' /\ OneRequest' /\ Pairs'
    BY <2>1
  <2>3. ASSUME NEW c \in Callers PROVE PrintedLine(c)'
    <3>0. /\ lpc'[c] = IF c = d THEN "ready" ELSE lpc[c]
          /\ printed'[c] = IF c = d /\ service = "Echo" THEN printed[c] + 1 ELSE printed[c]
      BY <2>1, <2>3
    <3>1. CASE service = "Echo"
      BY <2>1, <2>3, <3>0, <3>1
    <3>2. CASE service # "Echo"
      BY <2>1, <2>3, <3>0, <3>2
    <3> QED
      BY <3>1, <3>2
  <2> QED
    BY <2>2, <2>3
<1> QED
  BY <1>1, <1>2, <1>3

\* A client sends a line.
LEMMA CallbackCall == ASSUME CallInv, NEW d \in Callers, CallServer(d) PROVE CallInv'
<1>2. /\ queries' \in Seq(Callers)
      /\ Range(queries') = Range(queries) \cup {d}
      /\ IsInjective(queries')
  <2>1. queries' = Append(queries, d) /\ queries \in Seq(Callers)
    BY DEF CallServer, CallInv, CallTypes
  <2>2. IsInjective(queries) /\ d \notin Range(queries)
    BY DEF CallServer, CallInv, OneRequest, Alive, InQueue
  <2> QED
    BY <2>1, <2>2, AppendElems
<1> USE DEF CallInv, CallTypes, OneRequest, Pairs, InQueue, InHand, Alive
<1>1. /\ lpc[d] = "ready"
      /\ lines' = [lines EXCEPT ![d] = @ + 1]
      /\ queries' = Append(queries, d)
      /\ lpc' = [lpc EXCEPT ![d] = "waiting"]
      /\ UNCHANGED <<service, spc, query, svcpc, back, received, printed>>
  BY DEF CallServer, server, svcThread
<1>3. /\ CallTypes'
      /\ \A c \in Callers : lpc'[c] = IF c = d THEN "waiting" ELSE lpc[c]
      /\ \A c \in Callers : lines'[c] = IF c = d THEN lines[c] + 1 ELSE lines[c]
  BY <1>1, <1>2
<1>4. OneRequest' /\ Pairs'
  <2>1. IsInjective(queries') /\ ~ InHand(d)
    BY <1>1, <1>2
  <2>2. ASSUME NEW c \in Callers PROVE InQueue(c)' => ~ InHand(c)'
    BY <1>1, <1>2, <2>1
  <2>3. ASSUME NEW c \in Callers, (Alive(c) /\ lpc[c] # "waiting")'
        PROVE  ~ InQueue(c)' /\ ~ InHand(c)'
    <3>1. c # d /\ lpc[c] # "waiting" /\ Alive(c)
      BY <1>3, <2>3
    <3> QED
      BY <1>1, <1>2, <3>1
  <2>5. OneRequest'
    BY <2>1, <2>2, <2>3
  <2>6. Pairs'
    BY <1>1, <1>3
  <2> QED
    BY <2>5, <2>6
<1>5. ASSUME NEW c \in Callers PROVE PrintedLine(c)'
  BY SMTT(30), <1>1, <1>2, <1>3 DEF PrintedLine, EchoedLine, LastLine
<1> QED
  BY <1>3, <1>4, <1>5

\* A client's thread takes the call back, answers it, and prints the line.
LEMMA CallbackSvc == ASSUME CallInv, NEW d \in Callers, SvcFxn(d) PROVE CallInv'
<1> USE DEF CallInv, CallTypes, OneRequest, Pairs, PrintedLine, EchoedLine,
            LastLine, InQueue, InHand, Alive
<1>1. CASE SvcQuery(d)
  <2>1. /\ Alive(d) /\ svcpc[d] = "query" /\ back[d]
        /\ back' = [back EXCEPT ![d] = FALSE]
        /\ received' = [received EXCEPT ![d] = @ + 1]
        /\ svcpc' = [svcpc EXCEPT ![d] = "respond"]
        /\ UNCHANGED <<service, spc, query, queries, lpc, lines, printed>>
    BY <1>1 DEF SvcQuery, server, caller
  <2>2. CallTypes' /\ OneRequest' /\ Pairs'
    BY <2>1
  <2>3. ASSUME NEW c \in Callers PROVE PrintedLine(c)'
    BY <2>1
  <2> QED
    BY <2>2, <2>3
<1>2. CASE SvcRespond(d)
  <2>1. /\ Alive(d) /\ svcpc[d] = "respond"
        /\ svcpc' = [svcpc EXCEPT ![d] = "print"]
        /\ spc' = IF spc = "await" /\ query = d THEN "respond" ELSE spc
        /\ UNCHANGED <<service, query, queries, lpc, lines, back, received, printed>>
    BY <1>2 DEF SvcRespond, caller
  <2>2. CallTypes' /\ OneRequest' /\ Pairs'
    BY <2>1
  <2>3. ASSUME NEW c \in Callers PROVE PrintedLine(c)'
    BY <2>1
  <2> QED
    BY <2>2, <2>3
<1>3. CASE SvcPrint(d)
  <2>1. /\ Alive(d) /\ svcpc[d] = "print"
        /\ svcpc' = [svcpc EXCEPT ![d] = "query"]
        /\ printed' = [printed EXCEPT ![d] = @ + 1]
        /\ UNCHANGED <<service, spc, query, queries, lpc, lines, back, received>>
    BY <1>3 DEF SvcPrint, server, caller
  <2>2. CallTypes' /\ OneRequest' /\ Pairs'
    BY <2>1
  <2>3. ASSUME NEW c \in Callers PROVE PrintedLine(c)'
    BY <2>1
  <2> QED
    BY <2>2, <2>3
<1> QED
  BY <1>1, <1>2, <1>3 DEF SvcFxn

\* Every step keeps the invariant.
LEMMA CallbackStep == CallInv /\ [CallbackNext]_callbackVars => CallInv'
<1> SUFFICES ASSUME CallInv, [CallbackNext]_callbackVars PROVE CallInv'
  OBVIOUS
<1>1. CASE Server \/ ServerKilled
  BY <1>1, CallbackServer
<1>2. ASSUME NEW c \in Callers, Caller(c) \/ ClientKilled(c) \/ SvcFxn(c)
      PROVE  CallInv'
  BY <1>2, CallbackCaller, CallbackCall, CallbackSvc DEF Caller
<1>3. CASE UNCHANGED callbackVars
  BY <1>3 DEF callbackVars, server, caller, svcThread, CallInv, CallTypes, OneRequest,
              Pairs, PrintedLine, EchoedLine,
            LastLine, InQueue, InHand, Alive
<1> QED
  BY <1>1, <1>2, <1>3 DEF CallbackNext

\* When the call of a client has returned, the server's call has reached the
\* client's thread before, and lines are printed in their number.
THEOREM CallbackComesFirst ==
  InitCallback /\ [][CallbackNext]_callbackVars => []CallbackFirst
<1>1. CallInv => CallbackFirst
  <2> SUFFICES ASSUME CallInv, NEW c \in Callers PROVE CallbackFirst!(c)
    BY DEF CallbackFirst
  <2> QED
    BY DEF CallInv, CallTypes, PrintedLine, EchoedLine, LastLine, Alive
<1> QED
  BY <1>1, CallbackInit, CallbackStep, PTL

-----------------------------------------------------------------------------
(* The SIGCHLD handler.                                                    *)

CountTypes ==
  /\ pc \in {"fork", "load", "store", "test", "pause", "paused", "done"}
  /\ i \in 0 .. NUMBER
  /\ tmp \in Int
  /\ nprocesses \in Int
  /\ proc \in [Children -> {"none", "running", "zombie", "harvested"}]

\* fork() gives the children in order.
Unborn == \A c \in Children : c > i => proc[c] = "none"

\* The child that main has forked and not counted yet.
Uncounted == IF pc \in {"load", "store"} THEN 1 ELSE 0

\* The count is short of no more than that child; the value that main is about
\* to store over it was loaded from it, and the handler only counts down.
Counted ==
  /\ nprocesses + Uncounted >= Cardinality(Left)
  /\ pc = "store" => tmp >= nprocesses

\* The inductive invariant.
CountInv == CountTypes /\ Unborn /\ Counted /\ (pc = "done" => Left = {})

\* The children that are left are finitely many.
LEMMA LeftIsFinite ==
  IsFiniteSet(Left) /\ Cardinality(Left) \in Nat /\ (Cardinality(Left) = 0 => Left = {})
<1>1. IsFiniteSet(Children)
  BY ChldHandlerAssumption, FS_Interval DEF Children
<1>2. IsFiniteSet(Left)
  BY <1>1, FS_Subset DEF Left
<1> QED
  BY <1>2, FS_CardinalityType, FS_EmptySet

\* No child has been forked at the start.
LEMMA ChldInit == Init => CountInv
<1> SUFFICES ASSUME Init PROVE CountInv
  OBVIOUS
<1>1. CountTypes /\ Unborn
  BY ChldHandlerAssumption DEF Init, CountTypes, Unborn, Children
<1>2. Left = {}
  BY DEF Init, Left, Children
<1>3. Cardinality(Left) = 0
  BY <1>2, FS_EmptySet
<1> QED
  BY <1>1, <1>2, <1>3 DEF Init, CountInv, Counted, Uncounted

\* A fork adds to the children that are left one that main has to count.
LEMMA ForkKeeps == CountInv /\ Fork => CountInv'
<1> SUFFICES ASSUME CountInv, Fork PROVE CountInv'
  OBVIOUS
<1>1. /\ i + 1 \in Children /\ i' = i + 1
      /\ proc[i + 1] = "none"
      /\ proc' = [proc EXCEPT ![i + 1] = "running"]
      /\ pc = "fork" /\ pc' = "load"
      /\ UNCHANGED <<tmp, nprocesses, sigchld>>
  BY ChldHandlerAssumption DEF Fork, MainRuns, CountInv, CountTypes, Unborn, Children
<1>2. CountTypes' /\ Unborn'
  BY <1>1, ChldHandlerAssumption DEF CountInv, CountTypes, Unborn, Children
<1>3. Left' = Left \cup {i + 1} /\ i + 1 \notin Left
  BY <1>1 DEF Left, CountInv, CountTypes
<1>4. Cardinality(Left') = Cardinality(Left) + 1
  BY <1>3, LeftIsFinite, FS_AddElement
<1> QED
  BY <1>1, <1>2, <1>4, LeftIsFinite DEF CountInv, CountTypes, Counted, Uncounted

\* Every step keeps the invariant.
LEMMA ChldNext == CountInv /\ [Next]_vars => CountInv'
<1> SUFFICES ASSUME CountInv, [Next]_vars PROVE CountInv'
  OBVIOUS
<1>1. CASE Fork
  BY <1>1, ForkKeeps
<1>2. CASE EndForks \/ Load \/ Store \/ Test \/ Pause
  <2>1. UNCHANGED <<i, proc>> /\ Left' = Left
    BY <1>2 DEF EndForks, Load, Store, Test, Pause, Left
  <2>2. CountTypes' /\ Unborn'
    BY <1>2, <2>1 DEF EndForks, Load, Store, Test, Pause, MainRuns, CountInv, CountTypes, Unborn
  <2>3. Counted'
    BY <1>2, <2>1, LeftIsFinite DEF EndForks, Load, Store, Test, Pause, MainRuns,
       CountInv, CountTypes, Counted, Uncounted
  <2>4. pc' = "done" => Left' = {}
    BY <1>2, <2>1, LeftIsFinite DEF EndForks, Load, Store, Test, Pause, MainRuns,
       CountInv, CountTypes, Counted, Uncounted
  <2> QED
    BY <2>2, <2>3, <2>4 DEF CountInv
<1>3. CASE EnterHandler \/ LeaveHandler \/ UNCHANGED vars
  <2>1. /\ UNCHANGED <<i, tmp, nprocesses, proc>> /\ Left' = Left
        /\ pc' = pc \/ (pc = "paused" /\ pc' = "test")
    BY <1>3 DEF EnterHandler, LeaveHandler, vars, Left
  <2> QED
    BY <2>1 DEF CountInv, CountTypes, Unborn, Counted, Uncounted
<1>4. ASSUME NEW c \in Children, Harvest(c) PROVE CountInv'
  <2>1. /\ proc[c] = "zombie"
        /\ proc' = [proc EXCEPT ![c] = "harvested"]
        /\ nprocesses' = nprocesses - 1
        /\ UNCHANGED <<pc, i, tmp>>
    BY <1>4 DEF Harvest
  <2>2. CountTypes' /\ Unborn'
    BY <2>1 DEF CountInv, CountTypes, Unborn
  <2>3. Left' = Left \ {c} /\ c \in Left
    BY <2>1 DEF Left, CountInv, CountTypes
  <2>4. Cardinality(Left') = Cardinality(Left) - 1
    BY <2>3, LeftIsFinite, FS_RemoveElement
  <2> QED
    BY <2>1, <2>2, <2>3, <2>4, LeftIsFinite DEF CountInv, CountTypes, Counted, Uncounted
<1>5. ASSUME NEW c \in Children, ChildEnds(c) PROVE CountInv'
  <2>1. /\ proc[c] = "running"
        /\ proc' = [proc EXCEPT ![c] = "zombie"]
        /\ UNCHANGED <<pc, i, tmp, nprocesses>>
    BY <1>5 DEF ChildEnds
  <2>2. CountTypes' /\ Unborn'
    BY <2>1 DEF CountInv, CountTypes, Unborn
  <2>3. Left' = Left
    BY <2>1 DEF Left, CountInv, CountTypes
  <2> QED
    BY <2>1, <2>2, <2>3 DEF CountInv, Counted, Uncounted
<1> QED
  BY <1>1, <1>2, <1>3, <1>4, <1>5 DEF Next, Main, Handler

\* However many children there are, whenever they end and wherever main is
\* interrupted: the count is not short of the children that are left once all
\* are counted, and when main returns none is.
THEOREM CountNeverShort == Spec => []NeverShort
<1>1. CountInv => NeverShort
  BY DEF CountInv, CountTypes, Counted, Uncounted, NeverShort
<1> QED
  BY <1>1, ChldInit, ChldNext, PTL DEF Spec
=============================================================================
