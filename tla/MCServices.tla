------------------------------ MODULE MCServices ------------------------------
(***************************************************************************)
(* The programs of several processes, for TLC: the publish/subscribe       *)
(* broker with its clients, a pair of lab 7, or the parent of lab 4 with   *)
(* its children.  Which of them a behaviour is about is chosen at the      *)
(* start; the variables of the others do not change.                       *)
(***************************************************************************)
EXTENDS Broker, Callback, ChldHandler, TLC

CONSTANTS c1, c2

VARIABLE program

serviceVars == <<program, brokerVars, callbackVars, vars>>

Line(cmd, n, name, bars) ==
  [cmd |-> cmd, n |-> n, name |-> name, bars |-> bars, nl |-> TRUE]

\* Requests of echoclient: a command with the right number of arguments, also
\* behind two bars, and with too many, one without arguments, one that is no
\* command with as many words as words cannot hold, and a last line of bars.
MCEchoLines ==
  {Line("CreateChannel", 1, "a", 0), Line("CreateChannel", 1, "b", 1),
   Line("CreateChannel", 2, "a", 0), Line("ListChannels", 0, "none", 0),
   Line("other", 24, "a", 0), Q("", 0)}

Two(p, q) == c1 :> p @@ c2 :> q

MCCasts ==
  {Two("echoclient", "listchannels"), Two("echoclient", "subscriber"),
   Two("listsubscribers", "publisher"), Two("publisher", "subscriber")}

\* Which clients meet a version: to psbv1.c and psbv2_curr.c all requests with
\* words are the same, and to psbv3.c all requests but those about channels are
\* as to psbv2.c, to which the two list commands are the same.
Meets ==
  CASE version \in {"psbv1", "psbv2_curr"} -> {Two("publisher", "subscriber")}
    [] version = "psbv2" -> {Two("echoclient", "subscriber"),
                             Two("listsubscribers", "publisher")}
    [] version = "psbv3" -> {Two("echoclient", "listchannels")}

InitServices ==
  /\ program \in {"broker", "lab7", "lab4"}
  /\ InitBroker /\ InitCallback /\ Init
  /\ cast \in Meets
  /\ program # "lab7" => service = "Echo"
  /\ program # "broker" =>
       version = "psbv1" /\ cast = Two("publisher", "subscriber")

InBroker(A) == program = "broker" /\ A /\ UNCHANGED <<program, callbackVars, vars>>
InLab7(A)   == program = "lab7" /\ A /\ UNCHANGED <<program, brokerVars, vars>>
InLab4(A)   == program = "lab4" /\ A /\ UNCHANGED <<program, brokerVars, callbackVars>>

NextServices == InBroker(BrokerNext) \/ InLab7(CallbackNext) \/ InLab4(Next)

\* Every thread runs, and a call returns when it can; the children of lab 4 end.
\* A client need not send a request, for fgets may wait, and neither SIGINT nor a
\* death need come.  Only one of the programs runs, so that it is fair to each.
Fairness ==
  /\ WF_serviceVars(InBroker(BrokerMain) \/ InLab7(Server) \/ InLab4(Main))
  /\ WF_serviceVars(InBroker(Thread) \/ InLab4(Handler))
  /\ \A c \in {c1, c2} :
       /\ WF_serviceVars(\/ InBroker(CallFails(c) \/ Return(c))
                         \/ InLab7(CallReturns(c) \/ CallAborts(c)))
       /\ WF_serviceVars(InLab7(SvcFxn(c)))
  /\ \A c \in Children : WF_serviceVars(InLab4(ChildEnds(c)))

SpecServices == InitServices /\ [][NextServices]_serviceVars /\ Fairness

\* Every call to the broker returns, with an answer or because the broker has
\* ended, also while it shuts down; and the two processes of lab 7 that call each
\* other do not wait for each other for ever, whichever of the other clients dies
\* with its call in hand.
EveryCallReturns ==
  \A c \in {c1, c2} :
    "waiting" \in {cpc[c], lpc[c]} ~> "waiting" \notin {cpc[c], lpc[c]}
=============================================================================
