------------------------------ MODULE UriPath ------------------------------
(***************************************************************************)
(* What the proxy reads off a URI: the tenant, the route, the key that the *)
(* mock library is indexed by, the shape that smart swap matches, and the  *)
(* collection and id of a resource (main.rs, matcher.rs).                  *)
(*                                                                         *)
(* A text is a string of the program.  What the helpers ask of its         *)
(* characters is given by constants: the classes of characters it has, how *)
(* it is ordered, what it starts with.                                     *)
(***************************************************************************)
EXTENDS Naturals, Sequences, FiniteSets, SequencesExt

CONSTANTS
  Texts,      \* segments of paths, keys and values, ids, words
  Has,        \* [Texts -> SUBSET Classes]: the characters of a text
  HexGroups,  \* texts that are five groups of hex digits, joined by '-'
  Versions,   \* texts that are a 'v' and at most two digits
  Rank,       \* [Texts -> Nat]: the order of strings
  PrefixOf,   \* pairs of texts, the second starting with the first
  Trimmed,    \* [Texts -> Texts]: without white space at its ends
  Clipped,    \* [Texts -> Texts]: its first MAX_TENANT_LEN bytes
  Global,     \* the tenant "_global", also the id of no service
  NoValue,    \* a parameter without '='
  NoHeader    \* no X-Gostly-Tenant

Classes == {"digit", "letter", "other letter", "dash", "underscore", "other"}

ASSUME TextsAssumption ==
  /\ {"", "_tenant", Global} \subseteq Texts
  /\ Has \in [Texts -> SUBSET Classes] /\ Has[""] = {}
  /\ HexGroups \subseteq Texts /\ Versions \subseteq Texts
  /\ Rank \in [Texts -> Nat] /\ \A t, u \in Texts : Rank[t] = Rank[u] => t = u
  /\ PrefixOf \subseteq Texts \X Texts
  /\ Trimmed \in [Texts -> Texts] /\ Trimmed[""] = ""
  /\ Clipped \in [Texts -> Texts]
  /\ \A t \in Texts \ {""} : Clipped[t] # ""
  /\ Global # ""
  /\ NoValue \notin Texts /\ NoHeader \notin Texts

(* A path is what '/' splits after the leading one.  No parameters stands  *)
(* for no '?'; "?" alone is one parameter, with an empty key and no value. *)
Param == [key: Texts, value: Texts \cup {NoValue}]
Uri   == [path: Seq(Texts), query: Seq(Param)]

(* The positions P from the first to the last, and what s has there.       *)
Arranged(P, before) ==
  [n \in 1..Cardinality(P) |->
     CHOOSE j \in P : Cardinality({i \in P : <<i, j>> \in before}) = n - 1]

Only(s, P) ==
  LET at == Arranged(P, {x \in P \X P : x[1] < x[2]})
  IN  [n \in 1..Cardinality(P) |-> s[at[n]]]

(***************************************************************************)
(* The library's key: strip_tenant_param, then normalize_uri.              *)
(***************************************************************************)
(* Variant for checking: only the first such parameter is dropped.         *)
StripFirst(uri) ==
  LET at == SelectInSeq(uri.query, LAMBDA p : p.key = "_tenant")
  IN  [uri EXCEPT !.query = IF at = 0 THEN @ ELSE RemoveAt(@, at)]

StripTenant(uri) ==
  [uri EXCEPT !.query = Only(@, {n \in DOMAIN @ : @[n].key # "_tenant"})]

(* sort_by_key is stable: parameters of one key keep their order.          *)
Before(q, i, j) ==
  \/ Rank[q[i].key] < Rank[q[j].key]
  \/ Rank[q[i].key] = Rank[q[j].key] /\ i < j

SortedByKey(q) ==
  LET P  == DOMAIN q
      at == Arranged(P, {x \in P \X P : Before(q, x[1], x[2])})
  IN  [n \in DOMAIN q |-> q[at[n]]]

Filled(p) == [p EXCEPT !.value = IF @ = NoValue THEN "" ELSE @]

Normalize(uri) ==
  [uri EXCEPT !.query = LET q == SortedByKey(@) IN [i \in DOMAIN q |-> Filled(q[i])]]

(***************************************************************************)
(* resolve_tenant                                                          *)
(***************************************************************************)
(* Variant for checking: a blank tenant stays blank.                       *)
ClampBlank(raw) == Clipped[Trimmed[raw]]

Clamp(raw) == IF Trimmed[raw] = "" THEN Global ELSE Clipped[Trimmed[raw]]

(* The header, else the first parameter that has a value.                  *)
ResolveTenant(header, uri) ==
  LET at == SelectInSeq(uri.query, LAMBDA p : p.key = "_tenant" /\ p.value # NoValue)
  IN  IF header # NoHeader THEN Clamp(header)
      ELSE IF at # 0 THEN Clamp(uri.query[at].value) ELSE Global

(***************************************************************************)
(* resolve_upstream.  A host is a name and a port, or 0 for none.          *)
(***************************************************************************)
(* starts_with compares characters: it may end within a segment.           *)
StartsWith(path, prefix) ==
  LET n == Len(prefix) IN
  \/ n = 0
  \/ /\ n <= Len(path)
     /\ SubSeq(path, 1, n - 1) = SubSeq(prefix, 1, n - 1)
     /\ <<prefix[n], path[n]>> \in PrefixOf

RouteMatches(r, host, path) ==
  \/ r.type = "host" /\ r.value \in {host, [host EXCEPT !.port = 0]}
  \/ r.type = "path" /\ StartsWith(path, r.value)

(* The service of the first route that matches, Global when none does.     *)
ResolveService(routes, host, path) ==
  LET at == SelectInSeq(routes, LAMBDA r : RouteMatches(r, host, path))
  IN  IF at = 0 THEN Global ELSE routes[at].service

(***************************************************************************)
(* The shape of a path.                                                    *)
(***************************************************************************)
IsDynamic(t) ==
  \/ Has[t] = {"digit"}
  \/ t \in HexGroups
  \/ {"digit", "letter"} \subseteq Has[t] /\ "other" \notin Has[t]

PathsMatch(r, i) ==
  /\ Len(r) = Len(i)
  /\ \A n \in DOMAIN r : r[n] = i[n] \/ IsDynamic(r[n]) \/ IsDynamic(i[n])

(***************************************************************************)
(* Resources: parse_collection_and_id, path_collection_segment.            *)
(***************************************************************************)
NonIdSegments == {"search", "batch", "_count", "bulk", "query"}

ActionVerbs ==
  {"capture", "refund", "void", "cancel", "activate", "pause", "resume",
   "ship", "deliver", "return", "pay", "finalize", "suspend", "reactivate",
   "delete"}

Segments(path) == Only(path, {n \in DOMAIN path : path[n] # ""})

(* <<collection, id>>, or <<>>.                                            *)
CollectionAndId(path) ==
  LET s == Segments(path) IN
  IF Len(s) < 2 \/ Last(s) \in NonIdSegments \cup Versions THEN <<>>
  ELSE <<s[Len(s) - 1], Last(s)>>

(* <<collection>>, or <<>>.                                                *)
CollectionSegment(path) ==
  LET s == Segments(path) IN
  IF \/ s = <<>>
     \/ {"digit", "underscore"} \subseteq Has[Last(s)]
     \/ Last(s) \in ActionVerbs
    THEN <<>> ELSE <<Last(s)>>
=============================================================================
