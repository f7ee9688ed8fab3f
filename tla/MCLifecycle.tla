----------------------------- MODULE MCLifecycle -----------------------------
(* A small instance of Lifecycle for TLC. *)
EXTENDS Lifecycle

Flag(port, dir, m) == [port |-> port, dir |-> dir, mode |-> m]
MCNoEnv == [port |-> NotGiven, dir |-> NotGiven, mode |-> NotGiven, events |-> NotGiven]
MCEnv == [MCNoEnv EXCEPT !.port = 9090, !.mode = "MOCK"]
MCStartArgs == { Flag(NotGiven, NotGiven, NotGiven), Flag(9090, "tmp", NotGiven) }
=============================================================================
