-------------------------------- MODULE Broker --------------------------------
(***************************************************************************)
(* The publish/subscribe broker of project 3 in its four versions and the  *)
(* programs that call it.  A thread of the broker answers requests one at  *)
(* a time while main sleeps until SIGINT and then cleans up.               *)
(*                                                                         *)
(* A request is a record: its command, which is empty when there are only  *)
(* bars, how many arguments follow, the first of them, a single character, *)
(* how many bars too many there are before it, 0 or 1, and whether its     *)
(* line still ends in a newline, as those of echoclient do.  A response is *)
(* what its first character is, and what the rest was made from.           *)
(*                                                                         *)
(* External, BXP: bxp_call returns 1 when the response has come and 0 when *)
(* the server is gone; bxp_query waits for a request, and is a             *)
(* cancellation point, as bxp_response is.  Reading an uninitialised       *)
(* pointer, or freed storage, ends the program or does nothing.            *)
(***************************************************************************)
EXTENDS Integers, Sequences

CONSTANTS
  Clients,
  Casts,      (* which programs the clients are: functions on Clients       *)
  EchoLines,  (* the requests that echoclient is given, one per line        *)
  MaxCalls    (* bound: lines of publisher and echoclient                   *)

Programs == {"publisher", "echoclient", "listchannels", "listsubscribers", "subscriber"}

ASSUME BrokerAssumption == Casts \subseteq [Clients -> Programs]

Versions == {"psbv1", "psbv2_curr", "psbv2", "psbv3"}

VARIABLES
  version,
  mpc,        (* control of main: a step, or how the program has ended      *)
  Fflag,      (* a file is given with -f                                    *)
  onint,      (* the handler of SIGINT is established                       *)
  killprog,
  offered,    (* bxp_offer has returned                                     *)
  cancelled,  (* pthread_cancel(requestThread)                              *)
  tpc,        (* control of the request thread                              *)
  request,    (* the request that was taken last, with its sender           *)
  response,   (* the buffer, which keeps its contents between requests      *)
  CHQueue,    (* psbv3.c: "main" or "thread" created it, or "destroyed"     *)
  chans,      (* psbv3.c: the channels in it: the name asked for, and where *)
              (* in queryDble the pointer to the name points                *)
  text,       (* psbv3.c: the strings that begin there                      *)
  reply,      (* psbv3.c: what strcat appends names to, not set at first    *)
  inbox,      (* BXP: requests that bxp_query has not returned              *)
  cast,       (* the program each client is                                 *)
  cpc,        (* control of a client                                        *)
  calls,      (* how many requests it has made                              *)
  sent,       (* its last request                                           *)
  answer      (* the response to it                                         *)

startup == <<version, Fflag, onint, offered>>
mainVars == <<startup, mpc, killprog, cancelled>>
registry   == <<CHQueue, chans, text, reply>>
threadVars == <<tpc, request, response, registry>>
clientVars == <<cast, cpc, calls, sent, answer>>
brokerVars == <<mainVars, threadVars, inbox, clientVars>>

NoRequest == [cmd |-> "none", n |-> 0, name |-> "none", bars |-> 0, nl |-> FALSE]
Nobody == [from |-> "nobody", q |-> NoRequest]
Garbage == [ok |-> "garbage", from |-> "nobody", says |-> NoRequest, list |-> <<>>]

\* Where the name of a channel can be: behind "CreateChannel|" or one bar more.
Offsets == 14 .. 15

Over == mpc \in {"returned", "crashed", "killed", "aborted"}

InitBroker ==
  /\ version \in Versions
  /\ mpc = "options"
  /\ Fflag = FALSE
  /\ onint = FALSE
  /\ killprog = FALSE
  /\ offered = FALSE
  /\ cancelled = FALSE
  /\ tpc = "none"
  /\ request = Nobody
  /\ response = Garbage
  /\ CHQueue = "main"
  /\ chans = <<>>
  /\ text = [o \in Offsets |-> "text"]
  /\ reply = <<"garbage">>
  /\ inbox = <<>>
  /\ cast \in Casts
  /\ cpc = [c \in Clients |-> "start"]
  /\ calls = [c \in Clients |-> 0]
  /\ sent = [c \in Clients |-> NoRequest]
  /\ answer = [c \in Clients |-> Garbage]

-----------------------------------------------------------------------------
(* main.                                                                   *)

Cleanup == IF version = "psbv3" THEN "destroy" ELSE "free"

\* The order of main's steps; what comes before the wait is start-up.
After(step) ==
  CASE step = "options" -> IF version = "psbv3" THEN "offer" ELSE "signal"
    [] step = "signal"  -> "read"
    [] step = "read"    -> IF version = "psbv3" THEN "create" ELSE "offer"
    [] step = "offer"   -> IF version = "psbv3" THEN "signal" ELSE "create"
    [] step = "create"  -> "wait"
    [] step = "wait"    -> Cleanup
    [] step = "destroy" -> "free"
    [] step = "free"    -> "cancel"
    [] step = "cancel"  -> "join"
    [] step = "join"    -> "returned"

At(step) == mpc = step /\ mpc' = After(step)

\* What is undefined ends the program, or main goes on.
AtRisk(step, undefined) ==
  /\ mpc = step
  /\ \/ mpc' = After(step)
     \/ undefined /\ mpc' = "crashed"

Options ==
  /\ At("options")
  /\ Fflag' \in BOOLEAN
  /\ UNCHANGED <<version, onint, offered, killprog, cancelled, threadVars, inbox, clientVars>>

\* The file cannot be opened, or an option is not legal: goto cleanup.
OptionsFail ==
  /\ mpc = "options"
  /\ mpc' = Cleanup
  /\ UNCHANGED <<startup, killprog, cancelled, threadVars, inbox, clientVars>>

EstablishOnint ==
  /\ At("signal")
  /\ onint' = TRUE
  /\ UNCHANGED <<version, Fflag, offered, killprog, cancelled, threadVars, inbox, clientVars>>

\* The names of the file, which are printed and kept, but psbv3.c enqueues none
\* of them, for its loop runs to j, which is 0; psbv2_curr.c reads also when
\* there is no file.
ReadNames ==
  /\ mpc = "read"
  /\ IF Fflag \/ version # "psbv2_curr"
     THEN mpc' = After("read")
     ELSE mpc' = "crashed"
  /\ UNCHANGED <<startup, killprog, cancelled, threadVars, inbox, clientVars>>

\* assert(bxp_init(...)) and assert(bxp_offer(...)).
Offer ==
  /\ mpc = "offer"
  /\ \/ mpc' = After("offer") /\ offered' = TRUE
     \/ mpc' = "aborted" /\ UNCHANGED offered
  /\ UNCHANGED <<version, Fflag, onint, killprog, cancelled, threadVars, inbox, clientVars>>

CreateThread ==
  /\ mpc = "create"
  /\ \/ mpc' = After("create") /\ tpc' = IF version = "psbv3" THEN "start" ELSE "query"
     \/ mpc' = "aborted" /\ UNCHANGED tpc
  /\ UNCHANGED <<startup, killprog, cancelled, request, response, registry, inbox, clientVars>>

WaitForInt ==
  /\ killprog
  /\ At("wait")
  /\ UNCHANGED <<startup, killprog, cancelled, threadVars, inbox, clientVars>>

\* psbv3.c: destroy calls freeCHData, which frees names inside queryDble and
\* looks at subs, which were never set.
DestroyQueue ==
  /\ AtRisk("destroy", chans # <<>>)
  /\ CHQueue' = "destroyed"
  /\ UNCHANGED <<startup, killprog, cancelled, tpc, request, response, chans, text, reply, inbox, clientVars>>

\* The loop frees the names, beginning with an entry that was never set.
FreeNames ==
  /\ AtRisk("free", Fflag)
  /\ UNCHANGED <<startup, killprog, cancelled, threadVars, inbox, clientVars>>

\* Mutant: main counts on the thread to look at killprog.
CancelThread_Not ==
  /\ At("cancel")
  /\ UNCHANGED <<startup, killprog, cancelled, threadVars, inbox, clientVars>>

\* The identifier of a thread that was not created is not set.
CancelThread ==
  /\ AtRisk("cancel", tpc = "none")
  /\ cancelled' = TRUE
  /\ UNCHANGED <<startup, killprog, threadVars, inbox, clientVars>>

JoinThread ==
  /\ tpc \in {"none", "ended"}
  /\ AtRisk("join", tpc = "none")
  /\ UNCHANGED <<startup, killprog, cancelled, threadVars, inbox, clientVars>>

\* onint, or the default action before it is established.
Sigint ==
  /\ ~ Over /\ ~ killprog
  /\ IF onint THEN killprog' = TRUE /\ UNCHANGED mpc
     ELSE mpc' = "killed" /\ UNCHANGED killprog
  /\ UNCHANGED <<startup, cancelled, threadVars, inbox, clientVars>>

-----------------------------------------------------------------------------
(* request, the thread.                                                    *)

\* psbv3.c replaces the queue that main has created.
StartThread ==
  /\ ~ Over /\ tpc = "start"
  /\ CHQueue' = "thread"
  /\ tpc' = "query"
  /\ UNCHANGED <<mainVars, request, response, chans, text, reply, inbox, clientVars>>

Letters(cmd) ==
  CASE cmd = "CreateChannel"   -> 13
    [] cmd = "DestroyChannel"  -> 14
    [] cmd = "ListChannels"    -> 12
    [] cmd = "ListSubscribers" -> 15

\* The string that begins d characters behind the end of the command, in a copy
\* of q that is cut at its bars, over a buffer that had old there.
Behind(q, d, old) ==
  CASE d < 0 -> "text"
    [] d = 0 -> IF q.cmd = "DestroyChannel" /\ q.n = 0 /\ q.nl THEN "text" ELSE ""
    [] d > 0 /\ q.n = 0 -> IF d = 1 /\ q.nl THEN "" ELSE old
    [] d > 0 /\ q.n > 0 -> IF d = 1 + q.bars THEN q.name
                           ELSE IF d = 1 THEN "text" ELSE ""

\* What queryDble holds when a request has been copied there: a short one leaves
\* what an earlier request left.
TextAfter(q) ==
  IF \/ q.cmd \in {"CreateChannel", "DestroyChannel", "ListSubscribers"}
     \/ q.cmd = "ListChannels" /\ q.n = 0
  THEN {[o \in Offsets |-> Behind(q, o - Letters(q.cmd), text[o])]}
  ELSE {text, [o \in Offsets |-> "text"]}

Query ==
  /\ ~ Over /\ tpc = "query"
  /\ inbox # <<>>
  /\ request' = Head(inbox)
  /\ inbox' = Tail(inbox)
  /\ text' \in IF version = "psbv3" THEN TextAfter(request'.q) ELSE {text}
  /\ tpc' = "handle"
  /\ UNCHANGED <<mainVars, response, CHQueue, chans, reply, clientVars>>

Commands == {"CreateChannel", "DestroyChannel", "ListChannels",
             "ListSubscribers", "Publish", "Subscribe", "Unsubscribe"}

\* strcmp finds the command: not with the newline of a line without
\* arguments, which psbv3.c takes away from the words with L.
IsCommand(q) ==
  /\ q.cmd \in Commands
  /\ q.nl /\ q.n = 0 =>
       version = "psbv3" /\ q.cmd \in {"ListChannels", "ListSubscribers"}

\* The number of arguments the thread expects.
Arguments(cmd) ==
  CASE cmd = "ListChannels" -> 0
    [] cmd = "Publish"      -> 2
    [] cmd = "Unsubscribe"  -> 5
    [] OTHER                -> 1

\* psbv2_curr.c cuts the query itself at its first bar.
Echoed(q) ==
  IF version = "psbv2_curr"
  THEN [cmd |-> q.cmd, n |-> 0, name |-> "none", bars |-> 0, nl |-> q.nl /\ q.n = 0]
  ELSE q

\* sprintf(response, "1%s" or "0%s", query)
Echo(ok) ==
  [ok |-> ok, from |-> request.from, says |-> Echoed(request.q), list |-> <<>>]

\* Mutant: a first word that is no command leaves response alone, too.
Checked_NoElse ==
  IF IsCommand(request.q) /\ request.q.n = Arguments(request.q.cmd)
  THEN response' = Echo("1") ELSE UNCHANGED response

\* psbv2.c: a command with another number of arguments leaves response alone.
Checked ==
  IF ~ IsCommand(request.q) THEN response' = Echo("0")
  ELSE IF request.q.n = Arguments(request.q.cmd) THEN response' = Echo("1")
  ELSE UNCHANGED response

\* chData->name = words[1].  When enqueue finds no memory, response stays.
CreateChannel ==
  /\ \/ /\ chans' = Append(chans, [name |-> request.q.name, at |-> 14 + request.q.bars])
        /\ response' = Echo("1")
     \/ UNCHANGED <<chans, response>>
  /\ UNCHANGED <<CHQueue, text, reply>>

\* What chData->name points to by now.
Name(k) == text[chans[k].at]

\* reply is not empty when the next list begins.
ListChannels ==
  /\ reply' = reply \o [k \in 1 .. Len(chans) |-> Name(k)]
  /\ response' = [Echo("1") EXCEPT !.list = reply']
  /\ UNCHANGED <<CHQueue, chans, text>>

\* A right request that psbv3.c does more for than to echo it.
UsesQueue ==
  /\ version = "psbv3"
  /\ IsCommand(request.q)
  /\ \/ request.q.cmd = "CreateChannel" /\ request.q.n = 1
     \/ request.q.cmd = "ListChannels" /\ request.q.n = 0

\* words[0] is NULL.
NoWords == version # "psbv1" /\ request.q.cmd = ""

Handle ==
  /\ ~ Over /\ tpc = "handle"
  /\ ~ NoWords
  /\ tpc' = "respond"
  /\ IF version \in {"psbv1", "psbv2_curr"}
     THEN response' = Echo("1") /\ UNCHANGED registry
     ELSE IF ~ UsesQueue THEN Checked /\ UNCHANGED registry
     ELSE IF request.q.cmd = "CreateChannel" THEN CreateChannel
     ELSE ListChannels
  /\ UNCHANGED <<mainVars, request, inbox, clientVars>>

\* There is no first word to copy, or there are more words than entries in
\* words.  In psbv3.c also: there is no memory for a channel or the array of
\* them; the queue was destroyed under the thread's feet; names are appended to
\* what reply happens to hold, for as long as that is; and sort is given the
\* pointer behind the names as its array, which it follows for two or more.
HandleCrashes ==
  /\ ~ Over /\ tpc = "handle"
  /\ \/ NoWords
     \/ version # "psbv1" /\ request.q.n > 23
     \/ UsesQueue
  /\ mpc' = "crashed"
  /\ UNCHANGED <<startup, killprog, cancelled, threadVars, inbox, clientVars>>

\* bxp_response; an answer to a client that has left is lost.  The thread does
\* not look at the request again.
Respond ==
  /\ ~ Over /\ tpc = "respond"
  /\ tpc' = "query"
  /\ request' = Nobody
  /\ LET c == request.from IN
       IF cpc[c] = "waiting"
       THEN /\ cpc' = [cpc EXCEPT ![c] = "answered"]
            /\ answer' = [answer EXCEPT ![c] = response]
       ELSE UNCHANGED <<cpc, answer>>
  /\ UNCHANGED <<mainVars, response, registry, inbox, cast, calls, sent>>

\* The thread is cancelled where it waits for a request or sends an answer.
EndThread ==
  /\ ~ Over /\ cancelled
  /\ tpc \in {"query", "respond"}
  /\ tpc' = "ended"
  /\ UNCHANGED <<mainVars, request, response, registry, inbox, clientVars>>

-----------------------------------------------------------------------------
(* The clients.                                                            *)

\* bxp_connect
Connect(c) ==
  /\ cpc[c] = "start"
  /\ cpc' = [cpc EXCEPT ![c] = IF offered /\ ~ Over THEN "ready" ELSE "done"]
  /\ UNCHANGED <<mainVars, threadVars, inbox, cast, calls, sent, answer>>

Q(cmd, n) == [cmd |-> cmd, n |-> n, name |-> "none", bars |-> 0, nl |-> FALSE]

\* What the program of c may send, and in which state.
MaySend(c, q) ==
  CASE cast[c] = "publisher" ->
         cpc[c] = "ready" /\ calls[c] < MaxCalls /\ q = Q("Publish", 2)
    [] cast[c] = "echoclient" ->
         cpc[c] = "ready" /\ calls[c] < MaxCalls /\ q \in EchoLines
    [] cast[c] = "listchannels" ->
         cpc[c] = "ready" /\ calls[c] = 0 /\ q = Q("ListChannels", 0)
    [] cast[c] = "listsubscribers" ->
         cpc[c] = "ready" /\ calls[c] = 0 /\ q = Q("ListSubscribers", 1)
    [] cast[c] = "subscriber" ->
         \/ cpc[c] = "ready" /\ calls[c] = 0 /\ q = Q("Subscribe", 5)
         \/ cpc[c] = "registered" /\ q = Q("Unsubscribe", 1)

Requests == EchoLines \cup {Q("Publish", 2), Q("ListChannels", 0),
  Q("ListSubscribers", 1), Q("Subscribe", 5), Q("Unsubscribe", 1)}

\* bxp_call.  The subscriber that is registered calls from its handler onint.
Call(c) ==
  \E q \in Requests :
    /\ MaySend(c, q)
    /\ inbox' = Append(inbox, [from |-> c, q |-> q])
    /\ sent' = [sent EXCEPT ![c] = q]
    /\ calls' = [calls EXCEPT ![c] = @ + 1]
    /\ cpc' = [cpc EXCEPT ![c] = "waiting"]
    /\ UNCHANGED <<mainVars, threadVars, cast, answer>>

\* The buffers of the call that is over are not read again.
Forget(c) ==
  /\ sent' = [sent EXCEPT ![c] = NoRequest]
  /\ answer' = [answer EXCEPT ![c] = Garbage]

\* A call that fails ends every client.
CallFails(c) ==
  /\ Over /\ cpc[c] = "waiting"
  /\ cpc' = [cpc EXCEPT ![c] = "done"]
  /\ Forget(c)
  /\ UNCHANGED <<mainVars, threadVars, inbox, cast, calls>>

\* The states in which a program goes on when its call has returned: with
\* resp[0] = '1', which garbage may begin with, a subscriber is registered,
\* until its second call; the others go on to the end of their input.
Continues(c) ==
  IF cast[c] # "subscriber" THEN IF calls[c] < MaxCalls THEN {"ready"} ELSE {"done"}
  ELSE IF calls[c] = 2 THEN {"done"}
  ELSE (IF answer[c].ok \in {"1", "garbage"} THEN {"registered"} ELSE {}) \cup
       (IF answer[c].ok \in {"0", "garbage"} THEN {"done"} ELSE {})

Return(c) ==
  /\ cpc[c] = "answered"
  /\ \E next \in Continues(c) : cpc' = [cpc EXCEPT ![c] = next]
  /\ Forget(c)
  /\ UNCHANGED <<mainVars, threadVars, inbox, cast, calls>>

\* A client is interrupted, or its input ends; a subscriber that is registered
\* catches the signal.
Leave(c) ==
  /\ cpc[c] # "done"
  /\ cast[c] = "subscriber" => cpc[c] \in {"start", "answered"}
  /\ cpc' = [cpc EXCEPT ![c] = "done"]
  /\ Forget(c)
  /\ UNCHANGED <<mainVars, threadVars, inbox, cast, calls>>

-----------------------------------------------------------------------------
BrokerMain == \/ Options \/ OptionsFail \/ EstablishOnint \/ ReadNames \/ Offer
              \/ CreateThread \/ WaitForInt \/ DestroyQueue \/ FreeNames
              \/ CancelThread \/ JoinThread

Thread == StartThread \/ Query \/ Handle \/ HandleCrashes \/ Respond \/ EndThread

Client(c) == Connect(c) \/ Call(c) \/ CallFails(c) \/ Return(c) \/ Leave(c)

BrokerNext == BrokerMain \/ Sigint \/ Thread \/ \E c \in Clients : Client(c)

-----------------------------------------------------------------------------
\* The arguments that the clients send with each command, and v2test.dat too.
\* Checked expects others of subscriber.c.
Expected(cmd) ==
  CASE cmd = "ListChannels" -> 0
    [] cmd = "Publish"      -> 2
    [] cmd = "Subscribe"    -> 5
    [] OTHER                -> 1

Subscribers == {"Subscribe", "Unsubscribe"}

\* psbv2.c:79, "you need to check that the first word in each request is one of
\* the seven legal strings and that the number of arguments is correct"
Legal(q) == q.cmd \in Commands /\ q.n = Expected(q.cmd)

\* Of the requests that the rule grants, those that get the answer to themselves:
\* a newline hides the commands without arguments, the numbers for subscriber.c
\* are each other's, and a channel of psbv3.c needs memory.
Granted(q) ==
  /\ Legal(q) /\ q.cmd \notin Subscribers
  /\ ~ (q.nl /\ q.n = 0)
  /\ ~ (version = "psbv3" /\ q.cmd = "CreateChannel")

\* In all orders in which the requests of several clients share one response
\* buffer: the answer to a request that is right, or whose first word is no
\* command, was made from this request and says so; and a 1 answers nobody's
\* request but a right one.  Requests that are left out here are answered from
\* whatever the buffer holds: see AnswersAreTrue.  psbv1.c grants every request,
\* and of psbv2_curr.c only the command in its answer is compared.
AnswersAreOwn ==
  \A c \in Clients : cpc[c] = "answered" =>
    LET a == answer[c]
        own == a.from = c /\ a.says = sent[c]
    IN CASE version = "psbv1" -> own /\ a.ok = "1"
         [] version = "psbv2_curr" -> a.from = c /\ a.says.cmd = sent[c].cmd
         [] OTHER ->
              /\ Granted(sent[c]) => own /\ a.ok = "1"
              /\ sent[c].cmd \notin Commands => own /\ a.ok = "0"
              /\ a.ok = "1" => Legal(a.says) \/ a.says.cmd \in Subscribers

\* psbv2.c:80, "If both are true, sprintf(response, " 1%s " , query); otherwise,
\* sprintf(response, " 0%s ", query )": every answer of psbv2.c and psbv3.c is
\* made from the request it answers, and a list has the names of the channels.
AnswersAreTrue ==
  version \in {"psbv2", "psbv3"} =>
    /\ \A c \in Clients : cpc[c] = "answered" => answer[c].from = c
    /\ tpc = "respond" /\ UsesQueue /\ request.q.cmd = "ListChannels" =>
         {response.list[k] : k \in DOMAIN response.list} =
           {chans[k].name : k \in DOMAIN chans}

\* After SIGINT the broker ends, with the thread wherever it is.
BrokerEnds == killprog ~> Over
=============================================================================
