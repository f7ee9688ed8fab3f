-------------------------- MODULE MCResourceStore --------------------------
(* Small instances of ResourceStore for TLC. *)
EXTENDS ResourceStore

CONSTANTS ch1, ch2, sub1, doc1

(* Two charges, a subscription, and a resource no machine is bound to. *)
MCMachineOf ==
  [x \in Resources |-> CASE x = sub1 -> "subscription"
                         [] x = doc1 -> NoMachine
                         [] OTHER    -> "charge"]

(* Nothing picks one among captures, or among transitions. *)
OpSymmetry == Permutations(Captures) \cup Permutations(Transitions)
=============================================================================
