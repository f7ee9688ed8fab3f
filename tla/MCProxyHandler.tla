--------------------------- MODULE MCProxyHandler ---------------------------
(* Small instances of ProxyHandler for TLC. *)
EXTENDS ProxyHandler, TLC

CONSTANTS g, s, h1, t1, t2, b1, b2, x1,
          post,     \* POST /charges, which creates x1 and has a sequence
          read,     \* GET /charges/x1
          read2,    \* GET /charges/x1, under another tenant
          step      \* POST /charges/x1/capture

MCTenantOf == [k \in Keys |-> IF k = read2 THEN t2 ELSE t1]
MCSimilar == ({<<k, k>> : k \in Keys} \cup ({read, read2} \X {read, read2})) \cap (Keys \X Keys)
MCEntries == Recording
MCProfiles ==
  {[host |-> h1, key |-> step, body |-> b] : b \in {b1, b2} \cap Bodies}
  \cup {[host |-> h1, key |-> k, body |-> b1] : k \in Keys \ {step}}
MCMachineOf == [x \in Resources |-> "charge"]
MCScripted == {post}
MCReadOf == [k \in Keys |-> IF k \in {read, read2} THEN x1 ELSE NoResource]
MCStepOf == [k \in Keys |-> IF k = step THEN <<x1, "capture">> ELSE <<>>]
MCCreatedBy == [k \in Keys |-> IF k = post THEN {x1} ELSE {}]

ToS(m, model, modes) ==
  [host |-> h1, service |-> s, mode |-> m, chaos |-> model, chaosIn |-> modes]

(* No route; one to s in the global mode; one to s in MOCK mode, with      *)
(* chaos, ahead of one that is never reached.                              *)
MCTables ==
  { <<>>, << ToS(NoMode, "markov", {"PASSTHROUGH"}) >>,
    << ToS("MOCK", "uniform", {"MOCK"}), ToS("LEARN", "uniform", {}) >> }

(* Requests are interchangeable: no definition picks one among them.       *)
RequestSymmetry == Permutations(Requests)
=============================================================================
