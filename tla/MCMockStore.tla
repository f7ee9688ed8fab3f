---------------------------- MODULE MCMockStore ----------------------------
(* Small instances of MockStore for TLC. *)
EXTENDS MockStore, TLC

CONSTANTS s1, s2, k1, k2, k3, t1, t2

(* k1 and k2 are two paths of one shape under one tenant, k3 the path of   *)
(* k1 under another.                                                       *)
MCTenantOf == [k \in Keys |-> IF k = k3 THEN t2 ELSE t1]
MCSimilar == Keys \X Keys
MCEntries == Writers \cup Editors

(* Reload routes are alike, and so are writers, and keys of one tenant.    *)
ReloadsAlike == Permutations(FullLoaders)
RecordingsAlike == Permutations(Writers) \cup Permutations(Keys)
=============================================================================
