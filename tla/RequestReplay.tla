--------------------------- MODULE RequestReplay ---------------------------
(***************************************************************************)
(* A session of a client with the proxy, one request after the other:      *)
(* which recording, resource or swap answers a request in MOCK mode, after *)
(* what was recorded in LEARN mode and posted to /ghost/mocks before.      *)
(*                                                                         *)
(* The mode may change between any two requests.  How handlers overlap is  *)
(* in ProxyHandler, the library's publication and its files in MockStore;  *)
(* sequences and transitions, on endpoints of their own, in MockSequences  *)
(* and ResourceStore.                                                      *)
(***************************************************************************)
EXTENDS SmartSwap

CONSTANTS
  Routes,       \* AppState.upstreams
  Asked,        \* requests a client makes, as they are on the wire
  Exchanges,    \* <<request, response>>: those the upstream answers, if asked
  CreatedMocks, \* entries posted to /ghost/mocks, their URIs as given
  Oversize,     \* bodies longer than MAX_BODY_BYTES
  Swaps,        \* SMART_SWAP_ENABLED
  MaxLearned,   \* bound on the number of recordings and mocks
  NoAnswer, NoLength

Host    == [name: Texts, port: Nat]
Request == [method: {"GET", "POST", "PUT"}, host: Host,
            uri: Uri, header: Texts \cup {NoHeader}, body: Body]
Reply   == [ok: BOOLEAN, body: Body]
Key     == [service: Texts, method: {"GET", "POST", "PUT"}, uri: Uri, tenant: Texts]
Stored  == [body: Body, length: Nat]
Entry   == [key: Key, body: Body, response: Stored]

ASSUME ReplayAssumption ==
  /\ Asked \subseteq Request /\ Exchanges \subseteq Request \X Reply
  /\ CreatedMocks \subseteq Entry
  /\ Len(Routes) \in Nat
  /\ \A n \in 1..Len(Routes) :
       /\ Routes[n].type \in {"host", "path"} /\ Routes[n].service \in Texts
       /\ Routes[n].value \in IF Routes[n].type = "host" THEN Host ELSE Seq(Texts)
  /\ {"U+FFFD", "[BODY_TRUNCATED]"} \subseteq Texts
  /\ MaxLearned \in Nat /\ Swaps \in BOOLEAN
  /\ NoLength \notin Nat

VARIABLES
  library,   \* the entries of the library, at most one per key
  resources, \* the captured resources: [service, collection, id, body]
  learned,   \* history: what was recorded or posted, in order
  answer     \* the last answer in MOCK or PASSTHROUGH mode

vars == <<library, resources, learned, answer>>

(***************************************************************************)
(* Bodies as they are kept: text, in which bytes that are none have become *)
(* U+FFFD, or a note in place of one that is too long.  (Bytes whose text  *)
(* happens to be JSON are left out.)                                       *)
(***************************************************************************)
Lossy(body) ==
  IF body.form = "bytes"
    THEN [body EXCEPT !.form = "text", !.leaves =
           [n \in DOMAIN @ |-> [@[n] EXCEPT !.text = "U+FFFD"]]]
    ELSE body

Truncated ==
  [form |-> "text",
   leaves |-> << [at |-> <<>>, kind |-> "other", text |-> "[BODY_TRUNCATED]"] >>]

Kept(body) == IF body \in Oversize THEN Truncated ELSE Lossy(body)

(***************************************************************************)
(* What the handler makes of a request before it looks at the mode: its    *)
(* body, too, is read as text.                                             *)
(***************************************************************************)
Prepared(w) ==
  LET uri == Normalize(StripTenant(w.uri)) IN
  [key  |-> [service |-> ResolveService(Routes, w.host, uri.path),
             method  |-> w.method,
             uri     |-> uri,
             tenant  |-> ResolveTenant(w.header, w.uri)],
   uri  |-> uri,
   body |-> Lossy(w.body)]

(***************************************************************************)
(* LEARN.                                                                  *)
(***************************************************************************)
Insert(e) == {f \in library : f.key # e.key} \cup {e}

(* The headers, among them the upstream's Content-Length, are kept.        *)
Recording(w, reply) ==
  [key |-> Prepared(w).key, body |-> Kept(w.body),
   response |-> [body |-> Kept(reply.body), length |-> ByteLength(reply.body)]]

Captured(w, reply) ==
  LET k    == Prepared(w).key
      coll == CollectionSegment(k.uri.path)
  IN  IF /\ w.method \in {"POST", "PUT"} /\ reply.ok
         /\ coll # <<>> /\ reply.body.form = "json"
         /\ ExtractId(reply.body, coll[1]) # NoId
        THEN {[service |-> k.service, collection |-> coll[1],
               id |-> ExtractId(reply.body, coll[1]), body |-> reply.body]}
        ELSE {}

Same(r, s) == r.service = s.service /\ r.collection = s.collection /\ r.id = s.id

(* The capture is a task of its own; the client waits for it.              *)
Learn(w, reply) ==
  /\ Len(learned) < MaxLearned
  /\ library' = Insert(Recording(w, reply))
  /\ resources' = {r \in resources : \A c \in Captured(w, reply) : ~Same(r, c)}
                    \cup Captured(w, reply)
  /\ learned' = Append(learned, [request |-> w, reply |-> reply])
  /\ answer' = NoAnswer

(* handle_create_mock: the URI and the tenant are taken as they are.       *)
CreateMock(e) ==
  LET mock == [e EXCEPT !.key.tenant = IF @ = "" THEN Global ELSE @] IN
  /\ Len(learned) < MaxLearned
  /\ library' = Insert(mock)
  /\ learned' = Append(learned, [mock |-> mock])
  /\ answer' = NoAnswer
  /\ UNCHANGED resources

(***************************************************************************)
(* MOCK.                                                                   *)
(***************************************************************************)
Answer(w, how, body, length) ==
  [request |-> w, how |-> how, body |-> body, length |-> length]

ExactHits(p) == {e \in library : e.key = p.key /\ e.body = p.body}

ResourceHits(p) ==
  LET at == CollectionAndId(p.uri.path) IN
  IF p.key.method # "GET" \/ at = <<>> THEN {}
  ELSE {r \in resources : /\ r.service = p.key.service
                          /\ r.collection = at[1] /\ r.id = at[2]}

SwapCandidates(p) ==
  {e \in library : /\ e.key.service = p.key.service
                   /\ e.key.tenant = p.key.tenant
                   /\ e.key.method = p.key.method
                   /\ PathsMatch(e.key.uri.path, p.uri.path)}

Missed(w) == Answer(w, "miss", [form |-> "empty", leaves |-> <<>>], NoLength)

(* One candidate is tried, the last in the order of a HashMap.             *)
SwapOrMiss(w, p) ==
  IF ~Swaps \/ SwapCandidates(p) = {} THEN {Missed(w)}
  ELSE UNION { IF Swapped(e, p) = {} THEN {Missed(w)}
               ELSE {Answer(w, "swap", b, e.response.length) : b \in Swapped(e, p)} :
               e \in SwapCandidates(p) }

Answers(w, p) ==
  IF ExactHits(p) # {}
    THEN {Answer(w, "exact", e.response.body, e.response.length) : e \in ExactHits(p)}
  ELSE IF ResourceHits(p) # {}
    THEN {Answer(w, "resource", r.body, NoLength) : r \in ResourceHits(p)}
  ELSE SwapOrMiss(w, p)

Ask(w) ==
  /\ answer' \in Answers(w, Prepared(w))
  /\ UNCHANGED <<library, resources, learned>>

(* PASSTHROUGH: what the upstream is asked.                                *)
Forward(w) ==
  /\ answer' = [request |-> w, how |-> "forwarded", sent |-> Prepared(w).uri]
  /\ UNCHANGED <<library, resources, learned>>

-----------------------------------------------------------------------------
Init == library = {} /\ resources = {} /\ learned = <<>> /\ answer = NoAnswer

Next ==
  \/ \E x \in Exchanges : Learn(x[1], x[2])
  \/ \E e \in CreatedMocks : CreateMock(e)
  \/ \E w \in Asked : Ask(w) \/ Forward(w)

Spec == Init /\ [][Next]_vars

(***************************************************************************)
(* Properties.                                                             *)
(***************************************************************************)
TypeOK ==
  /\ library \subseteq Entry
  /\ \A e, f \in library : e.key = f.key => e = f
  /\ \A e \in library : e.key.tenant # ""
  /\ resources \subseteq [service: Texts, collection: Texts, id: Texts \ {""}, body: Body]
  /\ Len(learned) <= MaxLearned
  /\ answer # NoAnswer => answer.request \in Request

(* The tenant a client names (README.md:115), stated without the code's    *)
(* helpers: the header, or the first _tenant= of the query.                *)
NamedTenant(w) ==
  LET named == {n \in DOMAIN w.uri.query :
                  w.uri.query[n].key = "_tenant" /\ w.uri.query[n].value # NoValue}
      raw == IF w.header # NoHeader THEN w.header
             ELSE IF named = {} THEN ""
             ELSE w.uri.query[CHOOSE n \in named : \A m \in named : n <= m].value
  IN  IF Trimmed[raw] = "" THEN Global ELSE Clipped[Trimmed[raw]]

ServiceOf(w) == ResolveService(Routes, w.host, w.uri.path)

(* Two queries have the same parameters, the tenant's aside: in any order, *)
(* but for the values of one key.                                          *)
Own(q) == {n \in DOMAIN q : q[n].key # "_tenant"}

SameParameters(q, r) ==
  \E f \in Bijection(Own(q), Own(r)) :
    /\ \A i \in Own(q) : Filled(r[f[i]]) = Filled(q[i])
    /\ \A i, j \in Own(q) : q[i].key = q[j].key /\ i < j => f[i] < f[j]

(* Two requests ask for the same: of one service, under one tenant, with   *)
(* one path and the same parameters.                                       *)
Equivalent(v, w) ==
  /\ v.method = w.method /\ v.uri.path = w.uri.path
  /\ ServiceOf(v) = ServiceOf(w) /\ NamedTenant(v) = NamedTenant(w)
  /\ SameParameters(v.uri.query, w.uri.query)

Recorded(w) ==
  {n \in DOMAIN learned : "request" \in DOMAIN learned[n] /\ Equivalent(learned[n].request, w)}

LastRecorded(w) == learned[CHOOSE n \in Recorded(w) : \A m \in Recorded(w) : m <= n]

(* Exact match (ARCHITECTURE.md:56-60, the key of ARCHITECTURE.md:151): a  *)
(* request gets the recorded response if and only if the last recording of *)
(* an equivalent request had the same body, whatever the order of its      *)
(* parameters and however it names its tenant.  Both bodies are compared   *)
(* as text (main.rs:1370, main.rs:1551): other bytes that read the same    *)
(* are the same, and a body that was too long to keep is never found.      *)
ReplaysEquivalent ==
  answer # NoAnswer /\ answer.how \in {"exact", "resource", "swap", "miss"}
    /\ (\A n \in DOMAIN learned : "request" \in DOMAIN learned[n])
  => LET w == answer.request IN
     IF Recorded(w) # {} /\ Kept(LastRecorded(w).request.body) = Lossy(w.body)
       THEN answer.how = "exact" /\ answer.body = Kept(LastRecorded(w).reply.body)
       ELSE answer.how # "exact"

(* Held(r, t, w, u): request r has text t where request w has text u.      *)
Held(r, t, w, u) ==
  \/ \E n \in DOMAIN r.key.uri.path : r.key.uri.path[n] = t /\ w.uri.path[n] = u
  \/ \E p \in ToSet(r.key.uri.query), q \in ToSet(w.uri.query) :
       p.key = q.key /\ Filled(p).value = t /\ Filled(q).value = u
  \/ \E l \in LeafSet(r.body), m \in LeafSet(w.body) :
       l.at = m.at /\ l.text = t /\ m.text = u

(* A swap (matcher.rs:42-53) answers from a recording of the same service, *)
(* tenant and method, whose path differs in dynamic segments only; every   *)
(* string of a JSON answer is the recorded one, or the request's own in    *)
(* place of one that the recorded request had there; nothing else changes. *)
SwapTraceable ==
  answer # NoAnswer /\ answer.how = "swap" =>
    LET w == answer.request IN
    \E e \in library :
      /\ e.key.service = Prepared(w).key.service
      /\ e.key.method = w.method /\ e.key.tenant = NamedTenant(w)
      /\ Len(e.key.uri.path) = Len(w.uri.path)
      /\ \A n \in DOMAIN w.uri.path :
           e.key.uri.path[n] = w.uri.path[n]
             \/ IsDynamic(e.key.uri.path[n]) \/ IsDynamic(w.uri.path[n])
      /\ answer.body.form = e.response.body.form
      /\ e.response.body.form = "json" =>
           /\ Len(answer.body.leaves) = Len(e.response.body.leaves)
           /\ \A n \in DOMAIN answer.body.leaves :
                LET was == e.response.body.leaves[n] now == answer.body.leaves[n] IN
                \/ now = was
                \/ /\ was.kind = "string" /\ now = [was EXCEPT !.text = now.text]
                   /\ Held(e, was.text, w, now.text)

(* x creates the resource id of the collection c: the path ends in a word  *)
(* that is no action and the response has the id in its "id" field.        *)
Creates(x, c, id) ==
  /\ x.request.method = "POST" /\ x.reply.ok /\ x.reply.body.form = "json"
  /\ "digit" \notin Has[c] /\ c \notin ActionVerbs
  /\ Segments(x.request.uri.path) # <<>> /\ Last(Segments(x.request.uri.path)) = c
  /\ \E l \in LeafSet(x.reply.body) :
       l.at = <<"id">> /\ l.kind \in {"string", "number"} /\ l.text = id

(* POST /charges and then GET /charges/{id} is never a miss                *)
(* (main.rs:1596-1602): the resource is served, or a recording of the GET, *)
(* whatever else the response of the POST holds.                           *)
CreatedIsReadable ==
  answer # NoAnswer /\ answer.how \in {"miss", "swap"} /\ answer.request.method = "GET"
    => LET at == CollectionAndId(answer.request.uri.path) IN
       at # <<>> =>
         \A n \in DOMAIN learned :
           /\ "request" \in DOMAIN learned[n]
           /\ ServiceOf(learned[n].request) = ServiceOf(answer.request)
           => ~Creates(learned[n], at[1], at[2])

(* main.rs:982-984: a mock that was posted is seen by new requests, here   *)
(* by one for the very URI it was posted with.                             *)
CreatedMockIsFound ==
  answer # NoAnswer /\ answer.how = "miss" =>
    \A n \in DOMAIN learned :
      "mock" \in DOMAIN learned[n] =>
        LET k == learned[n].mock.key IN
        ~(/\ k.uri = answer.request.uri /\ k.method = answer.request.method
          /\ k.tenant = NamedTenant(answer.request)
          /\ k.service = Prepared(answer.request).key.service
          /\ learned[n].mock.body = Lossy(answer.request.body))

(* matcher.rs:53: a swap is refused when no safe substitution is possible; *)
(* a differing path segment of the recorded request is not left in the     *)
(* answer.                                                                 *)
SwapLeavesNoStaleId ==
  answer # NoAnswer /\ answer.how = "swap" =>
    \E e \in library :
      /\ PathsMatch(e.key.uri.path, answer.request.uri.path)
      /\ \A n \in DOMAIN e.key.uri.path :
           e.key.uri.path[n] # answer.request.uri.path[n] =>
             \A l \in LeafSet(answer.body) : l.text # e.key.uri.path[n]

(* matcher.rs:49: substitutions do not corrupt one another: a word of a    *)
(* text answer is as recorded, or the value at the place it came from.     *)
TextTraceable ==
  answer # NoAnswer /\ answer.how = "swap" /\ answer.body.form = "text" =>
    \E e \in library :
      /\ Len(e.response.body.leaves) = Len(answer.body.leaves)
      /\ \A n \in DOMAIN answer.body.leaves :
           LET was == e.response.body.leaves[n].text now == answer.body.leaves[n].text IN
           was = now \/ Held(e, was, answer.request, now)

(* ARCHITECTURE.md:60: the recorded response is returned verbatim.         *)
ReplayedVerbatim ==
  answer # NoAnswer /\ answer.how = "exact" /\ Recorded(answer.request) # {}
    => answer.body = LastRecorded(answer.request).reply.body

(* The Content-Length that is replayed is the length of the body that is.  *)
LengthAgrees ==
  answer # NoAnswer /\ answer.how \in {"exact", "swap"} /\ answer.length # NoLength
    => answer.length = ByteLength(answer.body)

(* README.md:77: passthrough is pure.                                      *)
PassthroughPure ==
  answer # NoAnswer /\ answer.how = "forwarded" => answer.sent = answer.request.uri
=============================================================================
