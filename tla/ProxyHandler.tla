---------------------------- MODULE ProxyHandler ----------------------------
(***************************************************************************)
(* proxy_handler of main.rs: how a request is bound to a mode, a snapshot  *)
(* of the library and a route, which phase of MOCK mode answers it, what   *)
(* LEARN mode records of it, and how requests, mode changes and route      *)
(* changes interleave at the handler's awaits.                             *)
(*                                                                         *)
(* It composes the parts that other modules detail, each taken at the      *)
(* level that module justifies: a library is replaced as a whole           *)
(* (MockStore), a transition is one step (ResourceStore), taking a         *)
(* response from a sequence is one step (MockSequences).  The process does *)
(* not stop here, and nothing is reloaded.                                 *)
(***************************************************************************)
EXTENDS MockLibrary, Statechart, Naturals, Sequences, FiniteSets

CONSTANTS
  Global,       \* the service key of a request no route takes
  Hosts, Bodies,
  Requests,
  Profiles,     \* what a request can be: [host, key, body]
  Tables,       \* route tables, lists of Route
  InitialMode,  \* the mode run_proxy resumed with
  Admins,       \* POST /ghost/mode and /ghost/upstreams requests
  Resources,    \* (collection, id) pairs
  MachineOf,    \* the machine of each
  Scripted,     \* keys the loaded sequence answers, whatever their tenant
  ReadOf,       \* parse_collection_and_id of a GET key, or NoResource
  StepOf,       \* the <<resource, action>> of a POST or PATCH key, or <<>>
  CreatedBy,    \* resources the upstream's answer to a key may create
  NoResource, NoMode, NoHost, NoAnswer

Modes == {"LEARN", "MOCK", "PASSTHROUGH", "TRANSITIONING"}
Route == [host: Hosts, service: Services, mode: Modes \cup {NoMode},
          chaos: {"uniform", "markov"},            \* the chaos model, and
          chaosIn: SUBSET {"MOCK", "PASSTHROUGH"}] \* the modes it applies to
Unrouted == [host |-> NoHost, service |-> Global, mode |-> NoMode,
             chaos |-> "uniform", chaosIn |-> {}]

(* A mock entry: the request that recorded it and the body it was sent.    *)
Recording == [by: Requests, body: Bodies]

(* A captured resource: the request that created it, and its state.        *)
Resource == [by: Requests, state: States \cup {NoState}]

ASSUME HandlerAssumption ==
  /\ Entries = Recording /\ Global \in Services
  /\ IsFiniteSet(Requests) /\ Requests \cap Admins = {}
  /\ NoResource \notin Resources \cup Resource
  /\ Profiles \subseteq [host: Hosts, key: Keys, body: Bodies]
  /\ InitialMode \in Modes /\ Tables \subseteq Seq(Route)
  /\ Scripted \subseteq Keys
  /\ MachineOf \in [Resources -> Machines \cup {NoMachine}]
  /\ ReadOf \in [Keys -> Resources \cup {NoResource}]
  /\ StepOf \in [Keys -> {<<>>} \cup (Resources \X Actions)]
  /\ CreatedBy \in [Keys -> SUBSET Resources]

VARIABLES
  mode, upstreams, live,
  cursor,      \* of the loaded sequence
  resources,   \* [Services -> [Resources -> Resource or NoResource]]
  capturing,   \* spawned captures: <<request, resource>>
  markov,      \* markov_state: a service's chaos state, "new" before the first
  unmatched,   \* the requests that missed
  seen,        \* onboarding_proxied and onboarding_served
  counts,      \* the telemetry counters of the milestones
  asked,       \* the Profile of each request
  pc,          \* where a request or an admin request is
  rmode,       \* the mode it read, then the one in effect for it
  route,       \* the route it resolved
  snap,        \* the library snapshot it holds
  rsnap,       \* the library it cloned to record in
  answer,      \* <<phase, what>>
  stored,      \* history: who recorded, in the order of the stores
  known,       \* history: how many had when a request took its snapshot
  captured,    \* history: the captures made
  held,        \* history: those made when a request arrived
  overlapped   \* history: two recordings overlapped

shared    == <<mode, upstreams, live, cursor, resources, capturing, markov, unmatched>>
milestone == <<seen, counts>>
local     == <<rmode, route, snap, rsnap, answer>>
history   == <<stored, known, captured, held, overlapped>>
vars == <<shared, milestone, asked, pc, local, history>>

Key(r) == asked[r].key
Service(r) == route[r].service
Goto(r, place) == pc' = [pc EXCEPT ![r] = place]
Reply(r, phase, what) == answer' = [answer EXCEPT ![r] = <<phase, what>>]

(***************************************************************************)
(* Arrival: the mode, the library, the route, in this order.               *)
(***************************************************************************)
ReadMode(r) ==
  /\ pc[r] = "idle" /\ Goto(r, "library")
  /\ rmode' = [rmode EXCEPT ![r] = mode]
  /\ held' = [held EXCEPT ![r] = captured]
  /\ UNCHANGED <<shared, milestone, asked, route, snap, rsnap, answer, stored,
                 known, captured, overlapped>>

LoadLibrary(r) ==
  /\ pc[r] = "library" /\ Goto(r, "route")
  /\ snap' = [snap EXCEPT ![r] = live]
  /\ known' = [known EXCEPT ![r] = Len(stored)]
  /\ UNCHANGED <<shared, milestone, asked, rmode, route, rsnap, answer, stored,
                 captured, held, overlapped>>

(* resolve_upstream: the first route that matches.                         *)
Resolve(table, h) ==
  LET hits == {i \in DOMAIN table : table[i].host = h} IN
  IF hits = {} THEN Unrouted
  ELSE table[CHOOSE i \in hits : \A j \in hits : i <= j]

(* Variant for checking: sequences are consulted first.                    *)
SequencesFirst(m) == IF m = "MOCK" THEN "sequence" ELSE "forward"

FirstPhase(m) == IF m = "MOCK" THEN "exact" ELSE "forward"

(* The route's mode overrides the global one.                              *)
BindRoute(r) ==
  LET up == Resolve(upstreams, asked[r].host)
      m  == IF up.mode = NoMode THEN rmode[r] ELSE up.mode
  IN
  /\ pc[r] = "route"
  /\ route' = [route EXCEPT ![r] = up]
  /\ rmode' = [rmode EXCEPT ![r] = m]
  /\ Goto(r, CASE m = "TRANSITIONING" -> "unavailable"
               [] m \in up.chaosIn -> "chaos"
               [] OTHER -> FirstPhase(m))
  /\ UNCHANGED <<shared, milestone, asked, snap, rsnap, answer, history>>

(* TRANSITIONING is a 503 that touches nothing.                            *)
Unavailable(r) ==
  /\ pc[r] = "unavailable" /\ Goto(r, "done")
  /\ Reply(r, "transitioning", NoAnswer)
  /\ UNCHANGED <<shared, milestone, asked, rmode, route, snap, rsnap, history>>

(***************************************************************************)
(* Chaos.                                                                  *)
(***************************************************************************)
Flip(kind) == IF kind = "degraded" THEN "healthy" ELSE "degraded"

(* MarkovState::step flips when the dwell has expired, which a fresh state *)
(* has.  The service's next error rate depends on the result.              *)
StepMarkov(r) ==
  /\ pc[r] = "chaos" /\ route[r].chaos = "markov"
  /\ \E expired \in {TRUE} \cup IF markov[Service(r)] = "new" THEN {} ELSE {FALSE} :
       LET kind == IF expired THEN Flip(markov[Service(r)]) ELSE markov[Service(r)] IN
       /\ markov' = [markov EXCEPT ![Service(r)] = kind]
       /\ Goto(r, IF kind = "degraded" THEN "draw" ELSE FirstPhase(rmode[r]))
  /\ UNCHANGED <<mode, upstreams, live, cursor, resources, capturing, unmatched,
                 milestone, asked, local, history>>

DrawUniform(r) ==
  /\ pc[r] = "chaos" /\ route[r].chaos = "uniform" /\ Goto(r, "draw")
  /\ UNCHANGED <<shared, milestone, asked, local, history>>

(* After the injected latency: an error, by chance ...                     *)
InjectError(r) ==
  /\ pc[r] = "draw" /\ Goto(r, "done")
  /\ Reply(r, "chaos", NoAnswer)
  /\ UNCHANGED <<shared, milestone, asked, rmode, route, snap, rsnap, history>>

(* ... or none.                                                            *)
InjectNone(r) ==
  /\ pc[r] = "draw" /\ Goto(r, FirstPhase(rmode[r]))
  /\ UNCHANGED <<shared, milestone, asked, local, history>>

(***************************************************************************)
(* MOCK.                                                                   *)
(***************************************************************************)
(* Variant for checking: the default service's mocks are searched.         *)
FoundUnrouted(r) == FindExact(snap[r], Global, Key(r))

Found(r) == FindExact(snap[r], Service(r), Key(r))

ExactMatch(r) ==
  /\ pc[r] = "exact"
  /\ IF Found(r) # NoEntry /\ Found(r).body = asked[r].body
       THEN Reply(r, "exact", Found(r).by) /\ Goto(r, "served")
       ELSE Goto(r, "sequence") /\ UNCHANGED answer
  /\ UNCHANGED <<shared, milestone, asked, rmode, route, snap, rsnap, history>>

SequenceMatch(r) ==
  /\ pc[r] = "sequence"
  /\ IF Key(r) \in Scripted
       THEN /\ Reply(r, "sequence", NoAnswer) /\ Goto(r, "served")
            /\ cursor' = cursor + 1
       ELSE Goto(r, "resource") /\ UNCHANGED <<answer, cursor>>
  /\ UNCHANGED <<mode, upstreams, live, resources, capturing, markov, unmatched,
                 milestone, asked, rmode, route, snap, rsnap, history>>

ResourceLookup(r) ==
  LET x == ReadOf[Key(r)] IN
  /\ pc[r] = "resource"
  /\ IF x # NoResource /\ resources[Service(r)][x] # NoResource
       THEN Reply(r, "resource", resources[Service(r)][x].by) /\ Goto(r, "served")
       ELSE Goto(r, "step") /\ UNCHANGED answer
  /\ UNCHANGED <<shared, milestone, asked, rmode, route, snap, rsnap, history>>

(* Variant for checking: the edge's label is taken for its target.         *)
NextAction(r) ==
  LET x == StepOf[Key(r)][1]
      a == StepOf[Key(r)][2]
      c == resources[Service(r)][x]
  IN  IF StepOf[Key(r)] = <<>> \/ c = NoResource THEN NoState
      ELSE IF Apply(MachineOf[x], c.state, a) = NoState THEN NoState ELSE a

(* The step a request asks for, of a captured resource that has it.        *)
NextState(r) ==
  LET x == StepOf[Key(r)][1]
      a == StepOf[Key(r)][2]
      c == resources[Service(r)][x]
  IN  IF StepOf[Key(r)] = <<>> \/ c = NoResource THEN NoState
      ELSE Apply(MachineOf[x], c.state, a)

(* No milestone for a transition.                                          *)
TransitionMatch(r) ==
  LET x == StepOf[Key(r)][1] IN
  /\ pc[r] = "step"
  /\ IF NextState(r) # NoState
       THEN /\ resources' = [resources EXCEPT ![Service(r)][x].state = NextState(r)]
            /\ Reply(r, "transition", resources[Service(r)][x].by) /\ Goto(r, "done")
       ELSE Goto(r, "swap") /\ UNCHANGED <<resources, answer>>
  /\ UNCHANGED <<mode, upstreams, live, cursor, capturing, markov, unmatched,
                 milestone, asked, rmode, route, snap, rsnap, history>>

SmartSwap(r) ==
  /\ pc[r] = "swap" /\ Goto(r, "served")
  /\ \E e \in SwapCandidates(snap[r], Service(r), Key(r)) : Reply(r, "swap", e.by)
  /\ UNCHANGED <<shared, milestone, asked, rmode, route, snap, rsnap, history>>

(* Smart swap is off, has no candidate or refuses it.                      *)
TotalMiss(r) ==
  /\ pc[r] = "swap" /\ Goto(r, "done")
  /\ unmatched' = unmatched \cup {r}
  /\ Reply(r, "miss", NoAnswer)
  /\ UNCHANGED <<mode, upstreams, live, cursor, resources, capturing, markov,
                 milestone, asked, rmode, route, snap, rsnap, history>>

(***************************************************************************)
(* fire_onboarding_event: look under the read lock, then insert under the  *)
(* write lock and count if the service was not in yet.                     *)
(***************************************************************************)
Peek(r, place, set, next, after) ==
  /\ pc[r] = place
  /\ Goto(r, IF Service(r) \in seen[set] THEN after ELSE next)
  /\ UNCHANGED <<shared, milestone, asked, local, history>>

(* Variant for checking: it counts without looking again.                  *)
InsertBlindly(r, place, set, after) ==
  /\ pc[r] = place /\ Goto(r, after)
  /\ seen' = [seen EXCEPT ![set] = @ \cup {Service(r)}]
  /\ counts' = [counts EXCEPT ![set] = @ + 1]
  /\ UNCHANGED <<shared, asked, local, history>>

InsertSeen(r, place, set, after) ==
  /\ pc[r] = place /\ Goto(r, after)
  /\ seen' = [seen EXCEPT ![set] = @ \cup {Service(r)}]
  /\ counts' = [counts EXCEPT ![set] = IF Service(r) \in seen[set] THEN @ ELSE @ + 1]
  /\ UNCHANGED <<shared, asked, local, history>>

(* The hit is then delayed by the recorded latency and sent.               *)
PeekServed(r)     == Peek(r, "served", "served", "insertServed", "done")
InsertServed(r)   == InsertSeen(r, "insertServed", "served", "done")
PeekProxied(r)    == Peek(r, "proxied", "proxied", "insertProxied", "record")
InsertProxied(r)  == InsertSeen(r, "insertProxied", "proxied", "record")

(***************************************************************************)
(* LEARN and PASSTHROUGH.                                                  *)
(***************************************************************************)
Forward(r) ==
  /\ pc[r] = "forward" /\ rmode[r] = "LEARN" /\ Goto(r, "proxied")
  /\ Reply(r, "upstream", NoAnswer)
  /\ UNCHANGED <<shared, milestone, asked, rmode, route, snap, rsnap, history>>

Passthrough(r) ==
  /\ pc[r] = "forward" /\ rmode[r] = "PASSTHROUGH" /\ Goto(r, "done")
  /\ Reply(r, "upstream", NoAnswer)
  /\ UNCHANGED <<shared, milestone, asked, rmode, route, snap, rsnap, history>>

(* The upstream cannot be reached, or its answer not be read: 502.         *)
ForwardFail(r) ==
  /\ pc[r] = "forward" /\ Goto(r, "done")
  /\ Reply(r, "unreachable", NoAnswer)
  /\ UNCHANGED <<shared, milestone, asked, rmode, route, snap, rsnap, history>>

(* Counted per recording.  Then the live library is cloned.                *)
RecordLoad(r) ==
  /\ pc[r] = "record" /\ Goto(r, "store")
  /\ counts' = [counts EXCEPT !["recorded"] = @ + 1]
  /\ rsnap' = [rsnap EXCEPT ![r] = live]
  /\ overlapped' = (overlapped \/ \E q \in Requests : pc[q] = "store")
  /\ UNCHANGED <<shared, seen, asked, rmode, route, snap, answer, stored, known,
                 captured, held>>

(* Variant for checking: captures are filed under the default service.     *)
BucketGlobal(r) == Global

Bucket(r) == Service(r)

(* The clone with the recording in it is published; a successful POST or   *)
(* PUT whose answer holds a resource spawns its capture.                   *)
RecordStore(r) ==
  /\ pc[r] = "store" /\ Goto(r, "done")
  /\ live' = Insert(rsnap[r], Service(r), Key(r), [by |-> r, body |-> asked[r].body])
  /\ rsnap' = [rsnap EXCEPT ![r] = EmptyLibrary]
  /\ stored' = Append(stored, r)
  /\ \/ \E x \in CreatedBy[Key(r)] : capturing' = capturing \cup {<<r, x>>}
     \/ UNCHANGED capturing
  /\ UNCHANGED <<mode, upstreams, cursor, resources, markov, unmatched, milestone,
                 asked, rmode, route, snap, answer, known, captured, held, overlapped>>

Capture(r, x) ==
  LET m == MachineOf[x] IN
  /\ <<r, x>> \in capturing
  /\ capturing' = capturing \ {<<r, x>>}
  /\ captured' = captured \cup {<<r, x>>}
  /\ resources' = [resources EXCEPT ![Bucket(r)][x] =
       [by |-> r, state |-> IF m = NoMachine THEN NoState ELSE Initial[m]]]
  /\ UNCHANGED <<mode, upstreams, live, cursor, markov, unmatched, milestone, asked,
                 pc, local, stored, known, held, overlapped>>

(***************************************************************************)
(* Admin requests, and clients that hang up where the handler awaits: what *)
(* it holds is dropped.                                                    *)
(***************************************************************************)
SetMode(a, m) ==
  /\ pc[a] = "idle" /\ Goto(a, "done")
  /\ mode' = m
  /\ UNCHANGED <<upstreams, live, cursor, resources, capturing, markov, unmatched,
                 milestone, asked, local, history>>

SetUpstreams(a, table) ==
  /\ pc[a] = "idle" /\ Goto(a, "done")
  /\ upstreams' = table
  /\ UNCHANGED <<mode, live, cursor, resources, capturing, markov, unmatched,
                 milestone, asked, local, history>>

Disconnect(r) ==
  /\ pc[r] \in {"route", "draw", "sequence", "resource", "step", "swap", "forward"}
  /\ Goto(r, "gone")
  /\ rmode' = [rmode EXCEPT ![r] = NoMode]
  /\ route' = [route EXCEPT ![r] = Unrouted]
  /\ snap' = [snap EXCEPT ![r] = EmptyLibrary]
  /\ known' = [known EXCEPT ![r] = 0] /\ held' = [held EXCEPT ![r] = {}]
  /\ UNCHANGED <<shared, milestone, asked, rsnap, answer, stored, captured, overlapped>>

-----------------------------------------------------------------------------
Init ==
  /\ mode = InitialMode /\ upstreams \in Tables
  /\ asked \in [Requests -> Profiles]
  /\ live = EmptyLibrary /\ cursor = 0 /\ unmatched = {} /\ capturing = {}
  /\ resources = [s \in Services |-> [x \in Resources |-> NoResource]]
  /\ markov = [s \in Services |-> "new"]
  /\ seen = [proxied |-> {}, served |-> {}]
  /\ counts = [proxied |-> 0, served |-> 0, recorded |-> 0]
  /\ pc = [o \in Requests \cup Admins |-> "idle"]
  /\ rmode = [r \in Requests |-> NoMode]
  /\ route = [r \in Requests |-> Unrouted]
  /\ snap = [r \in Requests |-> EmptyLibrary]
  /\ rsnap = [r \in Requests |-> EmptyLibrary]
  /\ answer = [r \in Requests |-> <<"none", NoAnswer>>]
  /\ stored = <<>> /\ overlapped = FALSE
  /\ known = [r \in Requests |-> 0]
  /\ captured = {} /\ held = [r \in Requests |-> {}]

Arrive(r) == ReadMode(r) \/ LoadLibrary(r) \/ BindRoute(r) \/ Unavailable(r)
Chaos(r)  == StepMarkov(r) \/ DrawUniform(r) \/ InjectError(r) \/ InjectNone(r)
Mock(r)   == \/ ExactMatch(r) \/ SequenceMatch(r) \/ ResourceLookup(r)
             \/ TransitionMatch(r) \/ SmartSwap(r) \/ TotalMiss(r)
             \/ PeekServed(r) \/ InsertServed(r)
Learn(r)  == \/ Forward(r) \/ Passthrough(r) \/ ForwardFail(r)
             \/ PeekProxied(r) \/ InsertProxied(r) \/ RecordLoad(r) \/ RecordStore(r)
             \/ \E x \in Resources : Capture(r, x)

Next ==
  \/ \E r \in Requests : Arrive(r) \/ Chaos(r) \/ Mock(r) \/ Learn(r) \/ Disconnect(r)
  \/ \E a \in Admins : \/ \E m \in Modes : SetMode(a, m)
                       \/ \E table \in Tables : SetUpstreams(a, table)

Spec == Init /\ [][Next]_vars

(***************************************************************************)
(* Properties.                                                             *)
(***************************************************************************)
TypeOK ==
  /\ mode \in Modes /\ upstreams \in Tables /\ live \in Library
  /\ cursor \in 0..Cardinality(Requests) /\ unmatched \subseteq Requests
  /\ resources \in [Services -> [Resources -> Resource \cup {NoResource}]]
  /\ capturing \subseteq Requests \X Resources
  /\ markov \in [Services -> {"new", "healthy", "degraded"}]
  /\ seen \in [{"proxied", "served"} -> SUBSET Services]
  /\ counts \in [{"proxied", "served", "recorded"} -> 0..Cardinality(Requests)]
  /\ asked \in [Requests -> Profiles]
  /\ pc \in [Requests \cup Admins ->
       {"idle", "library", "route", "unavailable", "chaos", "draw", "exact",
        "sequence", "resource", "step", "swap", "served", "insertServed", "forward", "proxied",
        "insertProxied", "record", "store", "done", "gone"}]
  /\ rmode \in [Requests -> Modes \cup {NoMode}]
  /\ route \in [Requests -> Route \cup {Unrouted}]
  /\ snap \in [Requests -> Library] /\ rsnap \in [Requests -> Library]
  /\ answer \in [Requests ->
       {"none", "transitioning", "chaos", "exact", "sequence", "resource",
        "transition", "swap", "miss", "upstream", "unreachable"}
       \X (Requests \cup {NoAnswer})]

Source(r) == answer[r][2]
Replayed(r) == Source(r) # NoAnswer

(* The recordings of r's service and key in r's snapshot's history.        *)
EarlierRecordings(r) ==
  {i \in 1..known[r] : /\ Service(stored[i]) = Service(r)
                       /\ Key(stored[i]) = Key(r)}

(* ARCHITECTURE.md:57-61: what was recorded is replayed.  A request in     *)
(* MOCK mode that repeats the last recording made of its service, its key  *)
(* and its body before it took its snapshot is answered with that          *)
(* recording, unless an error is injected, whatever became of the mode,    *)
(* the routes, the sequence and the resources meanwhile, as long as no two *)
(* recordings overlapped.                                                  *)
ReplaysLastRecording ==
  \A r \in Requests :
    /\ rmode[r] = "MOCK" /\ EarlierRecordings(r) # {} /\ ~overlapped
    /\ answer[r][1] \notin {"none", "chaos"}
    => LET last == CHOOSE i \in EarlierRecordings(r) :
                     \A j \in EarlierRecordings(r) : j <= i
       IN  asked[stored[last]].body = asked[r].body => answer[r] = <<"exact", stored[last]>>

(* The canonical failure the ResourceStore removes (main.rs:1598-1602):    *)
(* after a POST recorded in LEARN mode created a resource, a GET of it     *)
(* through the same service that arrives later does not miss in MOCK mode. *)
CapturedIsFound ==
  \A r \in Requests :
    answer[r][1] \in {"swap", "miss"} =>
      ~ \E w \in Requests : Service(w) = Service(r) /\ <<w, ReadOf[Key(r)]>> \in held[r]

(* README.md:152: each service has its own mock library.  What a request   *)
(* is replayed was recorded by one that was routed to the same service,    *)
(* though routes change while requests are resolved, recorded or captured. *)
ReplaysOwnService ==
  \A r \in Requests : Replayed(r) => Service(Source(r)) = Service(r)

Served(r) == answer[r][1] \in {"exact", "sequence", "resource", "swap"}

(* main.rs:1231-1237: a milestone is counted once per service, however     *)
(* many requests reach it at once.                                         *)
MilestoneOncePerService ==
  /\ (\A r \in Requests : pc[r] \notin {"served", "insertServed"})
       => counts["served"] = Cardinality({ Service(r) : r \in {q \in Requests : Served(q)} })
  /\ counts["proxied"] <= Cardinality({ Service(r) : r \in {q \in Requests : rmode[q] = "LEARN"} })

(* README.md:115: workers under different tenants do not see each other's  *)
(* mocks.                                                                  *)
WorkersDontPollute ==
  \A r \in Requests : Replayed(r) => TenantOf[Key(Source(r))] = TenantOf[Key(r)]

(* main.rs:1231-1237: the first mock recorded is counted once per service. *)
RecordedOncePerService ==
  counts["recorded"] <= Cardinality({ Service(r) : r \in {q \in Requests : rmode[q] = "LEARN"} })

(* main.rs:877-878: the hot path consults sequences first.                 *)
SequenceBeforeExact ==
  \A r \in Requests : Key(r) \in Scripted => answer[r][1] # "exact"
=============================================================================
