------------------------------- MODULE Callback -------------------------------
(***************************************************************************)
(* The two pairs of lab 7: client.c with server.c, whose      *)
(* service "Echo" answers a line, and cbclient.c with cbserver.c, whose    *)
(* service "Echo-Callback" calls the client back with the line before it   *)
(* answers.  The client has a thread for the calls back.                   *)
(*                                                                         *)
(* A line is left out; a request is the client it came from, which is what *)
(* its words ipaddr, svcPort and service say.  External, BXP: a call       *)
(* returns 1 when the response has come and 0 when the other process is    *)
(* gone; bxp_response to a process that is gone may return 0.              *)
(***************************************************************************)
EXTENDS Integers, Sequences

CONSTANTS
  Callers,    (* the clients                                                *)
  MaxLines    (* bound: lines of a client's input                           *)

VARIABLES
  service,    (* "Echo" or "Echo-Callback": the pair of programs            *)
  spc,        (* control of the server                                      *)
  queries,    (* BXP: requests that the server has not taken                *)
  query,      (* the client whose request the server has in hand            *)
  lpc,        (* control of a client's main                                 *)
  lines,      (* how many lines it has sent                                 *)
  svcpc,      (* control of its thread svcFxn                               *)
  back,       (* BXP: the server's call is at the client                    *)
  received,   (* how many calls back the thread has taken                   *)
  printed     (* how many lines the client has printed                      *)

server == <<spc, query>>
caller == <<lpc, lines>>
svcThread == <<svcpc, received>>
callbackVars == <<service, server, queries, caller, svcThread, back, printed>>

InitCallback ==
  /\ service \in {"Echo", "Echo-Callback"}
  /\ spc = "start"
  /\ queries = <<>>
  /\ query = "nobody"
  /\ lpc = [c \in Callers |-> "start"]
  /\ lines = [c \in Callers |-> 0]
  /\ svcpc = [c \in Callers |-> "none"]
  /\ back = [c \in Callers |-> FALSE]
  /\ received = [c \in Callers |-> 0]
  /\ printed = [c \in Callers |-> 0]

Alive(c) == lpc[c] \notin {"returned", "aborted", "killed"}
ServerGone == spc \in {"aborted", "killed"}

-----------------------------------------------------------------------------
(* The server: one request at a time.                                      *)

\* assert(bxp_init(5000, 1)); assert((svc = bxp_offer(...)))
ServerStart ==
  /\ spc = "start"
  /\ spc' \in {"query", "aborted"}
  /\ UNCHANGED <<service, queries, query, caller, svcThread, back, printed>>

\* Mutant: the server answers and leaves the client to wait for the call.
TakeQuery_NoCall ==
  /\ spc = "query" /\ queries # <<>>
  /\ query' = Head(queries)
  /\ queries' = Tail(queries)
  /\ spc' = "respond"
  /\ UNCHANGED <<service, caller, svcThread, back, printed>>

\* bxp_query
TakeQuery ==
  /\ spc = "query" /\ queries # <<>>
  /\ query' = Head(queries)
  /\ queries' = Tail(queries)
  /\ spc' = IF service = "Echo" THEN "respond" ELSE "connect"
  /\ UNCHANGED <<service, caller, svcThread, back, printed>>

\* bxp_connect to the client, and bxp_call without a look at the connection,
\* which is NULL when the client is gone: it returns 0 at once, or crashes.
ConnectBack ==
  /\ spc = "connect"
  /\ IF Alive(query)
     THEN spc' = "await" /\ back' = [back EXCEPT ![query] = TRUE]
     ELSE spc' \in {"respond", "aborted"} /\ UNCHANGED back
  /\ UNCHANGED <<service, queries, query, caller, svcThread, printed>>

\* Mutant: the server waits for its call also when the client is gone.
BackFails_Not == FALSE /\ UNCHANGED callbackVars

\* bxp_call returns 0: the server goes on as if it had been answered.
BackFails ==
  /\ spc = "await" /\ ~ Alive(query)
  /\ spc' = "respond"
  /\ UNCHANGED <<service, queries, query, caller, svcThread, back, printed>>

\* assert(bxp_response(...))
ServerRespond ==
  /\ spc = "respond"
  /\ IF Alive(query)
     THEN spc' = "query" /\ lpc' = [lpc EXCEPT ![query] = "answered"]
     ELSE spc' \in {"query", "aborted"} /\ UNCHANGED lpc
  /\ UNCHANGED <<service, queries, query, lines, svcThread, back, printed>>

ServerKilled ==
  /\ ~ ServerGone
  /\ spc' = "killed"
  /\ UNCHANGED <<service, queries, query, caller, svcThread, back, printed>>

-----------------------------------------------------------------------------
(* A client.                                                               *)

\* assert((bxp = bxp_connect(...)))
ConnectServer(c) ==
  /\ lpc[c] = "start"
  /\ lpc' = [lpc EXCEPT ![c] =
       IF spc = "start" \/ ServerGone THEN "aborted"
       ELSE IF service = "Echo" THEN "ready" ELSE "create"]
  /\ UNCHANGED <<service, server, queries, lines, svcThread, back, printed>>

\* assert(! pthread_create(&svcThread, ...))
CreateSvcThread(c) ==
  /\ lpc[c] = "create"
  /\ \/ /\ lpc' = [lpc EXCEPT ![c] = "ready"]
        /\ svcpc' = [svcpc EXCEPT ![c] = "query"]
     \/ lpc' = [lpc EXCEPT ![c] = "aborted"] /\ UNCHANGED svcpc
  /\ UNCHANGED <<service, server, queries, lines, received, back, printed>>

\* fgets has a line; bxp_call sends it.
CallServer(c) ==
  /\ lpc[c] = "ready" /\ lines[c] < MaxLines
  /\ lines' = [lines EXCEPT ![c] = @ + 1]
  /\ queries' = Append(queries, c)
  /\ lpc' = [lpc EXCEPT ![c] = "waiting"]
  /\ UNCHANGED <<service, server, svcThread, back, printed>>

\* The response is to the client's only call.  client.c prints it; cbclient.c
\* leaves that to its thread.
CallReturns(c) ==
  /\ lpc[c] = "answered"
  /\ lpc' = [lpc EXCEPT ![c] = "ready"]
  /\ printed' = IF service = "Echo" THEN [printed EXCEPT ![c] = @ + 1] ELSE printed
  /\ UNCHANGED <<service, server, queries, lines, svcThread, back>>

\* assert(bxp_call(...))
CallAborts(c) ==
  /\ lpc[c] = "waiting" /\ ServerGone
  /\ lpc' = [lpc EXCEPT ![c] = "aborted"]
  /\ UNCHANGED <<service, server, queries, lines, svcThread, back, printed>>

\* The input ends, and the process with it, its thread wherever that is.
ClientEnds(c) ==
  /\ lpc[c] = "ready"
  /\ lpc' = [lpc EXCEPT ![c] = "returned"]
  /\ UNCHANGED <<service, server, queries, lines, svcThread, back, printed>>

ClientKilled(c) ==
  /\ Alive(c)
  /\ lpc' = [lpc EXCEPT ![c] = "killed"]
  /\ UNCHANGED <<service, server, queries, lines, svcThread, back, printed>>

-----------------------------------------------------------------------------
(* svcFxn, the thread of a client.                                         *)

\* bxp_query
SvcQuery(c) ==
  /\ Alive(c) /\ svcpc[c] = "query" /\ back[c]
  /\ back' = [back EXCEPT ![c] = FALSE]
  /\ received' = [received EXCEPT ![c] = @ + 1]
  /\ svcpc' = [svcpc EXCEPT ![c] = "respond"]
  /\ UNCHANGED <<service, server, queries, caller, printed>>

\* bxp_response; the server need not be there any more.
SvcRespond(c) ==
  /\ Alive(c) /\ svcpc[c] = "respond"
  /\ svcpc' = [svcpc EXCEPT ![c] = "print"]
  /\ spc' = IF spc = "await" /\ query = c THEN "respond" ELSE spc
  /\ UNCHANGED <<service, queries, query, caller, received, back, printed>>

\* fputs(query, stdout)
SvcPrint(c) ==
  /\ Alive(c) /\ svcpc[c] = "print"
  /\ svcpc' = [svcpc EXCEPT ![c] = "query"]
  /\ printed' = [printed EXCEPT ![c] = @ + 1]
  /\ UNCHANGED <<service, server, queries, caller, received, back>>

-----------------------------------------------------------------------------
Server == ServerStart \/ TakeQuery \/ ConnectBack \/ BackFails \/ ServerRespond

Caller(c) == \/ ConnectServer(c) \/ CreateSvcThread(c) \/ CallServer(c)
             \/ CallReturns(c) \/ CallAborts(c) \/ ClientEnds(c)

SvcFxn(c) == SvcQuery(c) \/ SvcRespond(c) \/ SvcPrint(c)

CallbackNext ==
  \/ Server \/ ServerKilled
  \/ \E c \in Callers : Caller(c) \/ ClientKilled(c) \/ SvcFxn(c)

-----------------------------------------------------------------------------
\* cbserver.c:35 is before line 39: when the call of cbclient.c has been
\* answered, its thread has taken every line that was sent and printed all but
\* perhaps the last, which an input that ends then leaves unprinted for ever.
\* Lines are printed once, and none before it was sent.
CallbackFirst ==
  \A c \in Callers :
    LET answered == IF lpc[c] \in {"ready", "answered"} THEN lines[c] ELSE lines[c] - 1
    IN /\ printed[c] <= lines[c]
       /\ service = "Echo-Callback" =>
            /\ printed[c] <= received[c] /\ received[c] <= lines[c]
            /\ received[c] <= printed[c] + 1
            /\ Alive(c) => answered <= received[c]
       /\ service = "Echo" /\ Alive(c) => printed[c] = lines[c] \/ lpc[c] # "ready"
=============================================================================
