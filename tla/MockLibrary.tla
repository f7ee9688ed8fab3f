---------------------------- MODULE MockLibrary ----------------------------
(***************************************************************************)
(* The in-memory mock library of the proxy and the lookups a request makes *)
(* in it: `MockSegment`, `MockLibrary` and `find_exact` of io.rs, and the  *)
(* candidate scan of `find_smart_swap` in matcher.rs.                      *)
(*                                                                         *)
(* A key stands for the triple (method, uri, tenant) that indexes a        *)
(* `ServiceMocks` map.  Lookups compare its tenant, TenantOf, and whether  *)
(* two keys have the same method and URIs that `paths_match` accepts, the  *)
(* relation Similar (which need not be transitive: a dynamic segment       *)
(* matches any other).  An entry is an opaque value.                       *)
(*                                                                         *)
(* A segment that is absent and a segment without entries answer every     *)
(* lookup alike, so both are the segment that maps every key to NoEntry.   *)
(***************************************************************************)
CONSTANTS
  Services,   \* service ids: one segment, one file mock_<svc>.jsonl each
  Keys,       \* (method, uri, tenant) triples
  Entries,    \* mock entries
  Tenants,
  TenantOf,   \* [Keys -> Tenants]
  Similar,    \* pairs of keys with one method and matching paths
  NoEntry     \* HashMap::get returned None

ASSUME KeyPartsAssumption ==
  /\ TenantOf \in [Keys -> Tenants]
  /\ Similar \subseteq Keys \X Keys

ASSUME NoEntryAssumption == NoEntry \notin Entries

Segment == [Keys -> Entries \cup {NoEntry}]
Library == [Services -> Segment]

EmptySegment == [k \in Keys |-> NoEntry]
EmptyLibrary == [s \in Services |-> EmptySegment]

(* Clone the library, clone the segment, insert, put the segment back. *)
Insert(lib, s, k, e) == [lib EXCEPT ![s] = [@ EXCEPT ![k] = e]]

(* `next.segments.insert(svc, segment)`, or `remove` when it is empty. *)
SetSegment(lib, s, seg) == [lib EXCEPT ![s] = seg]

FindExact(lib, s, k) == lib[s][k]

(* Variant for checking: the tenant scope is forgotten.                    *)
SwapAllTenants(lib, s, k) ==
  { lib[s][j] : j \in { i \in Keys : lib[s][i] # NoEntry /\ <<i, k>> \in Similar } }

(* What `entries_for_service(svc, Some(tenant))` holds that has the shape  *)
(* of the request.  `find_smart_swap` takes the last of them in HashMap    *)
(* order, which can be any of them, and may then refuse to substitute.     *)
SwapCandidates(lib, s, k) ==
  { lib[s][j] : j \in { i \in Keys : /\ lib[s][i] # NoEntry
                                     /\ TenantOf[i] = TenantOf[k]
                                     /\ <<i, k>> \in Similar } }
=============================================================================
