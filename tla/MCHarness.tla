------------------------------ MODULE MCHarness ------------------------------
(* What TH is started with in the runs: options of each kind, repeated,     *)
(* missing and refused, numbers from the environment, and an empty command. *)
EXTENDS Harness

Opt(opt, arg) == [opt |-> opt, arg |-> arg]
Q == Opt("q", <<"9">>)
C == Opt("c", <<"4">>)
P(n) == Opt("p", Itoa(n))
L == Opt("l", <<"a", " ", "b">>)

Env(n) == ("p" :> Itoa(n)) @@ ("q" :> <<"1", "0">>)

MCInputs == {
  [argv |-> <<Q, P(1), C, L, P(nprocesses)>>, env |-> Env(1)],
  [argv |-> <<L, C>>,               env |-> Env(2)],
  [argv |-> <<L, C>>,               env |-> Env(0)],
  [argv |-> <<P(2), C, Opt("l", <<>>)>>, env |-> Env(1)],
  [argv |-> <<P(2), Q, L>>,         env |-> Env(1)],
  [argv |-> <<P(0), C, L>>,         env |-> Env(1)],
  [argv |-> <<P(2), C>>,            env |-> Env(1)],
  [argv |-> <<P(2), C, Opt("l", <<"2", "t">>)>>, env |-> Env(1)],
  [argv |-> <<P(2), C, L, Opt("?", <<>>)>>, env |-> Env(1)] }
=============================================================================
