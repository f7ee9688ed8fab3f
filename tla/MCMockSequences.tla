-------------------------- MODULE MCMockSequences --------------------------
(* Small instances of MockSequences for TLC. *)
EXTENDS MockSequences

CONSTANTS i1, i2, d1, d2, d3, e1, e2

(* d1 and d2 are two definitions of one id, the second looping; d3 is      *)
(* another sequence, on another endpoint, that d2 also answers.            *)
MCIdOf == [d \in Defs |-> IF d = d3 THEN i2 ELSE i1]
MCLength == [d \in Defs |-> IF d = d1 THEN 3 ELSE IF d = d2 THEN 2 ELSE 1]
MCAnswers == {<<d1, e1>>, <<d2, e1>>, <<d2, e2>>, <<d3, e2>>} \cap (Defs \X Endpoints)
=============================================================================
