------------------------------- MODULE Object -------------------------------
(* An object of the ADT library as the client that creates it and calls    *)
(* its methods sees it: `kind' is the dispatch table it got, `self' the    *)
(* private data behind it, whose shape depends on kind, `ret' the last     *)
(* call and what came back. The constants are those of several kinds.      *)
EXTENDS Integers, Sequences

CONSTANTS Values, Nodes, garbage, NULL, Capacities, DEFAULT_CAPACITY

VARIABLES kind, self, ret
=============================================================================
