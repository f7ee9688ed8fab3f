------------------------- MODULE ProxyHandlerProofs -------------------------
(***************************************************************************)
(* Proofs about ProxyHandler, for any services, keys, route tables,        *)
(* machines, and any finite set of requests.                               *)
(***************************************************************************)
EXTENDS ProxyHandler, FiniteSetTheorems, WellFoundedInduction, TLAPS

(* A set of naturals that is not empty has a least element.                *)
LEMMA LeastNat ==
  ASSUME NEW S, S \subseteq Nat, S # {}
  PROVE  \E n \in S : \A m \in S : n <= m
<1>1. PICK n \in S : \A m \in S : ~ (<<m, n>> \in OpToRel(<, Nat))
  BY NatLessThanWellFounded, WFMin
<1>2. \A m \in S : ~ (m < n)
  BY <1>1 DEF OpToRel
<1>. QED BY <1>2

(* One that is bounded has a greatest.                                     *)
LEMMA GreatestNat ==
  ASSUME NEW k \in Nat, NEW S, S \subseteq 1..k, S # {}
  PROVE  \E n \in S : \A m \in S : m <= n
<1>. DEFINE T == {k - n : n \in S}
<1>0. T \subseteq Nat /\ T # {}
  <2>1. T \subseteq Nat
    OBVIOUS
  <2>2. PICK n \in S : TRUE
    OBVIOUS
  <2>3. k - n \in T
    BY <2>2
  <2>. QED BY <2>1, <2>3
<1>1. PICK t \in T : \A u \in T : t <= u
  BY <1>0, LeastNat
<1>2. PICK n \in S : t = k - n
  OBVIOUS
<1>3. \A m \in S : m <= n
  BY <1>1, <1>2
<1>. QED BY <1>3

-----------------------------------------------------------------------------
(* What the operators of the handler return.                               *)
LEMMA EmptyTypes == EmptyLibrary \in Library
BY DEF EmptyLibrary, EmptySegment, Library, Segment

LEMMA InsertType ==
  ASSUME NEW lib \in Library, NEW s \in Services, NEW k \in Keys, NEW e \in Entries
  PROVE  Insert(lib, s, k, e) \in Library
BY DEF Insert, Library, Segment

(* A request is bound to a route of the table, or to none.                 *)
LEMMA ResolveType ==
  ASSUME NEW table \in Tables, NEW h
  PROVE  Resolve(table, h) \in Route \cup {Unrouted}
<1>. DEFINE hits == {i \in DOMAIN table : table[i].host = h}
<1>1. table \in Seq(Route)
  BY HandlerAssumption
<1>2. CASE hits = {}
  BY <1>2 DEF Resolve
<1>3. CASE hits # {}
  <2>1. hits \subseteq Nat
    BY <1>1
  <2>2. (CHOOSE i \in hits : \A j \in hits : i <= j) \in hits
    BY <1>3, <2>1, LeastNat
  <2>. DEFINE first == CHOOSE i \in hits : \A j \in hits : i <= j
  <2>3. table[first] \in Route
    <3>1. first \in DOMAIN table
      BY <2>2
    <3>. HIDE DEF first
    <3>. QED BY <1>1, <3>1
  <2>. QED BY <1>3, <2>3 DEF Resolve
<1>. QED BY <1>2, <1>3

LEMMA UnroutedFields ==
  /\ Unrouted.service \in Services /\ Unrouted.mode = NoMode
  /\ Unrouted.chaosIn = {}
BY HandlerAssumption DEF Unrouted

LEMMA RouteFields ==
  ASSUME NEW up \in Route \cup {Unrouted}
  PROVE  /\ up.service \in Services /\ up.mode \in Modes \cup {NoMode}
         /\ up.chaosIn \subseteq {"MOCK", "PASSTHROUGH"}
BY UnroutedFields DEF Route

(* A transition ends in a state of a machine.                              *)
LEMMA ApplyType ==
  ASSUME NEW m \in Machines \cup {NoMachine}, NEW s, NEW a
  PROVE  Apply(m, s, a) \in States \cup {NoState}
<1>1. ASSUME m # NoMachine, \E n \in StatesOf(m) : <<s, a, n>> \in Edges[m]
      PROVE  Apply(m, s, a) \in StatesOf(m)
  BY <1>1 DEF Apply
<1>2. m # NoMachine => StatesOf(m) \subseteq States
  BY DEF States
<1>. QED BY <1>1, <1>2 DEF Apply

LEMMA CandidatesType ==
  ASSUME NEW lib \in Library, NEW s \in Services, NEW k \in Keys,
         NEW e \in SwapCandidates(lib, s, k)
  PROVE  /\ e \in Entries
         /\ \E j \in Keys : e = lib[s][j] /\ lib[s][j] # NoEntry
<1>1. PICK j \in Keys : e = lib[s][j] /\ lib[s][j] # NoEntry
  BY DEF SwapCandidates
<1>2. lib[s][j] \in Entries \cup {NoEntry}
  BY DEF Library, Segment
<1>. QED BY <1>1, <1>2

-----------------------------------------------------------------------------
(* TypeOK without the bounds on what is counted.                           *)
Places ==
  {"idle", "library", "route", "unavailable", "chaos", "draw", "exact",
   "sequence", "resource", "step", "swap", "served", "insertServed", "forward", "proxied",
   "insertProxied", "record", "store", "done", "gone"}

Outcomes ==
  {"none", "transitioning", "chaos", "exact", "sequence", "resource",
   "transition", "swap", "miss", "upstream", "unreachable"}

SharedTypes ==
  /\ mode \in Modes /\ upstreams \in Tables /\ live \in Library
  /\ cursor \in Nat /\ unmatched \subseteq Requests
  /\ resources \in [Services -> [Resources -> Resource \cup {NoResource}]]
  /\ capturing \subseteq Requests \X Resources
  /\ markov \in [Services -> {"new", "healthy", "degraded"}]
  /\ seen \in [{"proxied", "served"} -> SUBSET Services]
  /\ counts \in [{"proxied", "served", "recorded"} -> Nat]

RequestTypes ==
  /\ asked \in [Requests -> Profiles] /\ pc \in [Requests \cup Admins -> Places]
  /\ rmode \in [Requests -> Modes \cup {NoMode}]
  /\ route \in [Requests -> Route \cup {Unrouted}]
  /\ snap \in [Requests -> Library] /\ rsnap \in [Requests -> Library]
  /\ answer \in [Requests -> Outcomes \X (Requests \cup {NoAnswer})]

Types == SharedTypes /\ RequestTypes

USE DEF shared, milestone, local, history

LEMMA TypesInit == Init => Types
<1>. SUFFICES ASSUME Init PROVE Types
  OBVIOUS
<1>1. SharedTypes
  BY EmptyTypes, HandlerAssumption DEF Init, SharedTypes
<1>2. RequestTypes
  BY EmptyTypes DEF Init, RequestTypes, Places, Outcomes
<1>. QED BY <1>1, <1>2 DEF Types

(* What a request asks for, and the service it is bound to.                *)
LEMMA RequestFields ==
  ASSUME RequestTypes, NEW r \in Requests
  PROVE  /\ Key(r) \in Keys /\ Service(r) \in Services
         /\ asked[r].body \in Bodies
         /\ pc[r] \in Places /\ rmode[r] \in Modes \cup {NoMode}
<1>1. asked[r] \in [host: Hosts, key: Keys, body: Bodies]
  BY HandlerAssumption DEF RequestTypes
<1>2. route[r] \in Route \cup {Unrouted}
  BY DEF RequestTypes
<1>. QED BY <1>1, <1>2, RouteFields DEF RequestTypes, Key, Service

(* A request moves on and is given an answer.                              *)
LEMMA ReplyType ==
  ASSUME RequestTypes, NEW r \in Requests, NEW phase \in Outcomes,
         NEW what \in Requests \cup {NoAnswer}, NEW place \in Places
  PROVE  /\ Reply(r, phase, what) =>
              answer' \in [Requests -> Outcomes \X (Requests \cup {NoAnswer})]
         /\ Goto(r, place) => pc' \in [Requests \cup Admins -> Places]
BY DEF RequestTypes, Reply, Goto

(* What an arriving request, chaos and the upstream do to the request.     *)
LEMMA ArriveTypes ==
  ASSUME Types, NEW r \in Requests, Arrive(r) \/ Chaos(r)
  PROVE  Types'
<1>. USE DEF Types, SharedTypes, RequestTypes
<1>0. Key(r) \in Keys /\ Service(r) \in Services /\ rmode[r] \in Modes \cup {NoMode}
  BY RequestFields
<1>1. CASE ReadMode(r)
  <2>1. pc' \in [Requests \cup Admins -> Places] /\ rmode' \in [Requests -> Modes \cup {NoMode}]
    BY <1>1 DEF ReadMode, Goto, Places
  <2>. QED BY <1>1, <2>1 DEF ReadMode
<1>2. CASE LoadLibrary(r)
  <2>1. pc' \in [Requests \cup Admins -> Places] /\ snap' \in [Requests -> Library]
    BY <1>2 DEF LoadLibrary, Goto, Places
  <2>. QED BY <1>2, <2>1 DEF LoadLibrary
<1>3. CASE BindRoute(r)
  <2>1. Resolve(upstreams, asked[r].host) \in Route \cup {Unrouted}
    BY ResolveType
  <2>2. Resolve(upstreams, asked[r].host).mode \in Modes \cup {NoMode}
    BY <2>1, RouteFields
  <2>3. /\ route' \in [Requests -> Route \cup {Unrouted}]
        /\ rmode' \in [Requests -> Modes \cup {NoMode}]
    BY <1>0, <1>3, <2>1, <2>2 DEF BindRoute
  <2>4. \A m : FirstPhase(m) \in Places
    BY DEF FirstPhase, Places
  <2>5. pc' \in [Requests \cup Admins -> Places]
    BY <1>3, <2>4 DEF BindRoute, Goto, Places
  <2>. QED BY <1>3, <2>3, <2>5 DEF BindRoute
<1>4. CASE Unavailable(r)
  BY <1>4, ReplyType DEF Unavailable, Places, Outcomes
<1>5. CASE StepMarkov(r)
  <2>1. markov' \in [Services -> {"new", "healthy", "degraded"}]
    BY <1>0, <1>5 DEF StepMarkov, Flip
  <2>2. \A m : FirstPhase(m) \in Places
    BY DEF FirstPhase, Places
  <2>3. pc' \in [Requests \cup Admins -> Places]
    BY <1>5, <2>2 DEF StepMarkov, Goto, Places
  <2>. QED BY <1>5, <2>1, <2>3 DEF StepMarkov
<1>6. CASE DrawUniform(r) \/ InjectNone(r)
  <2>1. pc' \in [Requests \cup Admins -> Places]
    BY <1>6 DEF DrawUniform, InjectNone, FirstPhase, Goto, Places
  <2>. QED BY <1>6, <2>1 DEF DrawUniform, InjectNone
<1>7. CASE InjectError(r)
  BY <1>7, ReplyType DEF InjectError, Places, Outcomes
<1>. QED BY <1>1, <1>2, <1>3, <1>4, <1>5, <1>6, <1>7 DEF Arrive, Chaos

LEMMA MockTypes ==
  ASSUME Types, NEW r \in Requests, Mock(r)
  PROVE  Types'
<1>. USE DEF Types, SharedTypes, RequestTypes
<1>0. Key(r) \in Keys /\ Service(r) \in Services
  BY RequestFields
<1>1. CASE ExactMatch(r)
  <2>1. Found(r) # NoEntry => Found(r).by \in Requests
    BY <1>0, HandlerAssumption DEF Found, FindExact, Library, Segment, Recording
  <2>. QED BY <1>1, <2>1, ReplyType DEF ExactMatch, Places, Outcomes
<1>2. CASE SequenceMatch(r)
  <2>1. cursor' \in Nat
    BY <1>2 DEF SequenceMatch
  <2>. QED BY <1>2, <2>1, ReplyType DEF SequenceMatch, Places, Outcomes
<1>3. CASE ResourceLookup(r)
  <2>1. ReadOf[Key(r)] # NoResource /\ resources[Service(r)][ReadOf[Key(r)]] # NoResource
          => resources[Service(r)][ReadOf[Key(r)]].by \in Requests
    BY <1>0, HandlerAssumption DEF Resource
  <2>. QED BY <1>3, <2>1, ReplyType DEF ResourceLookup, Places, Outcomes
<1>4. CASE TransitionMatch(r)
  <2>. DEFINE x == StepOf[Key(r)][1]
  <2>1. CASE NextState(r) # NoState
    <3>1. x \in Resources /\ resources[Service(r)][x] \in Resource
      BY <1>0, <2>1, HandlerAssumption DEF NextState
    <3>2. NextState(r) \in States \cup {NoState}
      BY <3>1, ApplyType, HandlerAssumption DEF NextState
    <3>3. [resources[Service(r)][x] EXCEPT !.state = NextState(r)] \in Resource
      BY <3>1, <3>2 DEF Resource
    <3>4. resources' \in [Services -> [Resources -> Resource \cup {NoResource}]]
      <4>1. resources' = [resources EXCEPT ![Service(r)] =
              [resources[Service(r)] EXCEPT ![x] =
                [resources[Service(r)][x] EXCEPT !.state = NextState(r)]]]
        BY <1>0, <1>4, <2>1, <3>1 DEF TransitionMatch
      <4>. QED BY <1>0, <3>1, <3>3, <4>1
    <3>5. resources[Service(r)][x].by \in Requests
      BY <3>1 DEF Resource
    <3>. QED BY <1>4, <2>1, <3>4, <3>5, ReplyType DEF TransitionMatch, Places, Outcomes
  <2>2. CASE NextState(r) = NoState
    BY <1>4, <2>2, ReplyType DEF TransitionMatch, Places
  <2>. QED BY <2>1, <2>2
<1>5. CASE SmartSwap(r)
  <2>1. PICK e \in SwapCandidates(snap[r], Service(r), Key(r)) : Reply(r, "swap", e.by)
    BY <1>5 DEF SmartSwap
  <2>2. e.by \in Requests
    BY <1>0, CandidatesType, HandlerAssumption DEF Recording
  <2>. QED BY <1>5, <2>1, <2>2, ReplyType DEF SmartSwap, Places, Outcomes
<1>6. CASE TotalMiss(r)
  <2>1. unmatched' \subseteq Requests
    BY <1>6 DEF TotalMiss
  <2>. QED BY <1>6, <2>1, ReplyType DEF TotalMiss, Places, Outcomes
<1>7. CASE PeekServed(r)
  BY <1>7, ReplyType DEF PeekServed, Peek, Places
<1>8. CASE InsertServed(r)
  <2>1. /\ seen' \in [{"proxied", "served"} -> SUBSET Services]
        /\ counts' \in [{"proxied", "served", "recorded"} -> Nat]
    BY <1>0, <1>8 DEF InsertServed, InsertSeen
  <2>. QED BY <1>8, <2>1, ReplyType DEF InsertServed, InsertSeen, Places
<1>. QED BY <1>1, <1>2, <1>3, <1>4, <1>5, <1>6, <1>7, <1>8 DEF Mock

LEMMA LearnTypes ==
  ASSUME Types, NEW r \in Requests, Learn(r)
  PROVE  Types'
<1>. USE DEF Types, SharedTypes, RequestTypes
<1>0. Key(r) \in Keys /\ Service(r) \in Services /\ asked[r].body \in Bodies
  BY RequestFields
<1>1. CASE Forward(r) \/ Passthrough(r) \/ ForwardFail(r)
  BY <1>1, ReplyType DEF Forward, Passthrough, ForwardFail, Places, Outcomes
<1>2. CASE PeekProxied(r)
  BY <1>2, ReplyType DEF PeekProxied, Peek, Places
<1>3. CASE InsertProxied(r)
  <2>1. /\ seen' \in [{"proxied", "served"} -> SUBSET Services]
        /\ counts' \in [{"proxied", "served", "recorded"} -> Nat]
    BY <1>0, <1>3 DEF InsertProxied, InsertSeen
  <2>. QED BY <1>3, <2>1, ReplyType DEF InsertProxied, InsertSeen, Places
<1>4. CASE RecordLoad(r)
  <2>1. /\ rsnap' \in [Requests -> Library]
        /\ counts' \in [{"proxied", "served", "recorded"} -> Nat]
    BY <1>4 DEF RecordLoad
  <2>. QED BY <1>4, <2>1, ReplyType DEF RecordLoad, Places
<1>5. CASE RecordStore(r)
  <2>1. [by |-> r, body |-> asked[r].body] \in Entries
    BY <1>0, HandlerAssumption DEF Recording
  <2>2. live' \in Library
    BY <1>0, <1>5, <2>1, InsertType DEF RecordStore
  <2>3. rsnap' \in [Requests -> Library]
    BY <1>5, EmptyTypes DEF RecordStore
  <2>4. capturing' \subseteq Requests \X Resources
    BY <1>0, <1>5, HandlerAssumption DEF RecordStore
  <2>. QED BY <1>5, <2>2, <2>3, <2>4, ReplyType DEF RecordStore, Places
<1>6. ASSUME NEW x \in Resources, Capture(r, x) PROVE Types'
  <2>. DEFINE c == [by |-> r, state |-> IF MachineOf[x] = NoMachine
                                          THEN NoState ELSE Initial[MachineOf[x]]]
  <2>1. c.state \in States \cup {NoState}
    <3>1. MachineOf[x] # NoMachine => MachineOf[x] \in Machines
      BY HandlerAssumption
    <3>2. \A m \in Machines : Initial[m] \in States
      BY DEF States, StatesOf
    <3>. QED BY <3>1, <3>2
  <2>2. c \in Resource
    BY <2>1 DEF Resource
  <2>3. resources' = [resources EXCEPT ![Service(r)] = [resources[Service(r)] EXCEPT ![x] = c]]
    BY <1>0, <1>6 DEF Capture, Bucket
  <2>4. resources' \in [Services -> [Resources -> Resource \cup {NoResource}]]
    <3>. HIDE DEF c
    <3>. QED BY <1>0, <2>2, <2>3
  <2>5. capturing' \subseteq Requests \X Resources
    BY <1>6 DEF Capture
  <2>. QED BY <1>6, <2>4, <2>5 DEF Capture
<1>. QED BY <1>1, <1>2, <1>3, <1>4, <1>5, <1>6 DEF Learn

LEMMA TypesStep == Types /\ [Next]_vars => Types'
<1>. SUFFICES ASSUME Types, [Next]_vars PROVE Types'
  OBVIOUS
<1>1. CASE UNCHANGED vars
  BY <1>1 DEF vars, Types, SharedTypes, RequestTypes
<1>2. ASSUME NEW r \in Requests, Disconnect(r) PROVE Types'
  <2>1. /\ pc' \in [Requests \cup Admins -> Places]
        /\ rmode' \in [Requests -> Modes \cup {NoMode}]
        /\ route' \in [Requests -> Route \cup {Unrouted}]
        /\ snap' \in [Requests -> Library]
    BY <1>2, EmptyTypes DEF Disconnect, Goto, Places, Types, RequestTypes
  <2>. QED BY <1>2, <2>1 DEF Disconnect, Types, SharedTypes, RequestTypes
<1>3. ASSUME NEW a \in Admins, NEW m \in Modes, SetMode(a, m) PROVE Types'
  <2>1. pc' \in [Requests \cup Admins -> Places]
    BY <1>3 DEF SetMode, Goto, Places, Types, RequestTypes
  <2>. QED BY <1>3, <2>1 DEF SetMode, Types, SharedTypes, RequestTypes
<1>4. ASSUME NEW a \in Admins, NEW table \in Tables, SetUpstreams(a, table) PROVE Types'
  <2>1. pc' \in [Requests \cup Admins -> Places]
    BY <1>4 DEF SetUpstreams, Goto, Places, Types, RequestTypes
  <2>. QED BY <1>4, <2>1 DEF SetUpstreams, Types, SharedTypes, RequestTypes
<1>. QED BY <1>1, <1>2, <1>3, <1>4, ArriveTypes, MockTypes, LearnTypes DEF Next

-----------------------------------------------------------------------------
(* Before a request is answered its answer is none, and a phase is only    *)
(* reached in the mode it belongs to.                                      *)
Unanswered == {"idle", "library", "route", "unavailable", "chaos", "draw", "exact",
               "sequence", "resource", "step", "swap", "forward", "gone"}
MockPlaces == {"exact", "sequence", "resource", "step", "swap", "served", "insertServed"}
LearnPlaces == {"proxied", "insertProxied", "record", "store"}

PhaseInv ==
  \A r \in Requests :
    /\ pc[r] \in Unanswered => answer[r] = <<"none", NoAnswer>>
    /\ pc[r] \in {"library", "route"} => rmode[r] \in Modes
    /\ pc[r] = "unavailable" => rmode[r] = "TRANSITIONING"
    /\ pc[r] \in {"chaos", "draw"} => rmode[r] \in {"MOCK", "PASSTHROUGH"}
    /\ pc[r] \in MockPlaces => rmode[r] = "MOCK"
    /\ pc[r] \in {"served", "insertServed"} => Served(r)
    /\ pc[r] = "forward" => rmode[r] \in {"LEARN", "PASSTHROUGH"}
    /\ pc[r] \in LearnPlaces => rmode[r] = "LEARN" /\ answer[r] = <<"upstream", NoAnswer>>
    /\ pc[r] = "done" => answer[r][1] # "none"

(* What is kept of a service was recorded or captured by a request that    *)
(* is done, and that was bound to the service.                             *)
Recorder(q, s) == pc[q] = "done" /\ Service(q) = s

LibraryOwn(lib) ==
  \A s \in Services, k \in Keys : lib[s][k] # NoEntry => Recorder(lib[s][k].by, s)

OwnInv ==
  /\ LibraryOwn(live)
  /\ \A r \in Requests : LibraryOwn(snap[r]) /\ LibraryOwn(rsnap[r])
  /\ \A s \in Services, x \in Resources :
       resources[s][x] # NoResource => Recorder(resources[s][x].by, s)
  /\ \A q \in Requests, x \in Resources : <<q, x>> \in capturing => pc[q] = "done"
  /\ \A r \in Requests : Replayed(r) => Recorder(Source(r), Service(r))

(* A capture that was made is in the map for good, and a request that has  *)
(* looked in vain for its resource arrived before every such capture.      *)
NotHeld(r) ==
  ~ \E w \in Requests : Service(w) = Service(r) /\ <<w, ReadOf[Key(r)]>> \in held[r]

CaptureInv ==
  /\ captured \subseteq Requests \X Resources
  /\ \A w \in Requests, x \in Resources :
       <<w, x>> \in captured => pc[w] = "done" /\ resources[Service(w)][x] # NoResource
  /\ held \in [Requests -> SUBSET captured]
  /\ \A r \in Requests :
       pc[r] \in {"step", "swap"} \/ answer[r][1] \in {"swap", "miss"} => NotHeld(r)

(* The set a milestone is counted in has a service for every request that  *)
(* is past it, and no other; the count is its size.                        *)
Past(q) == Served(q) /\ pc[q] \notin {"served", "insertServed"}

MilestoneInv ==
  /\ \A set \in {"proxied", "served"} :
       IsFiniteSet(seen[set]) /\ counts[set] = Cardinality(seen[set])
  /\ seen["served"] = {Service(r) : r \in {q \in Requests : Past(q)}}
  /\ \A s \in seen["proxied"] : \E q \in Requests :
       /\ rmode[q] = "LEARN" /\ Service(q) = s
       /\ pc[q] \in {"record", "store", "done"}

(* The other counts are numbers of requests.                               *)
Sequenced(r) == answer[r][1] = "sequence"
Recorded(r) == pc[r] = "store" \/ (pc[r] = "done" /\ rmode[r] = "LEARN"
                                                 /\ answer[r][1] = "upstream")

CountInv ==
  /\ cursor = Cardinality({r \in Requests : Sequenced(r)})
  /\ counts["recorded"] = Cardinality({r \in Requests : Recorded(r)})

(* The places i, of the first n that were stored, of a recording of a      *)
(* service and a key; the last of them; and a library that holds the last  *)
(* recording of each.  bound and asks are the routes and profiles.         *)
Records(n, made, bound, asks, s, k) ==
  {i \in 1..n : bound[made[i]].service = s /\ asks[made[i]].key = k}

Latest(I, i) == i \in I /\ \A j \in I : j <= i

HoldsLast(lib, n, made, bound, asks) ==
  \A s \in Services, k \in Keys :
    \/ Records(n, made, bound, asks, s, k) = {} /\ lib[s][k] = NoEntry
    \/ \E i \in 1..n :
         /\ Latest(Records(n, made, bound, asks, s, k), i)
         /\ lib[s][k] = [by |-> made[i], body |-> asks[made[i]].body]

StoredInv ==
  /\ stored \in Seq(Requests) /\ overlapped \in BOOLEAN
  /\ \A i \in DOMAIN stored : pc[stored[i]] = "done"
  /\ known \in [Requests -> Nat] /\ \A r \in Requests : known[r] <= Len(stored)

(* As long as no two recordings overlap, the library is the history of     *)
(* what was stored, and a request in MOCK mode that is past the exact      *)
(* match was answered by it if its body was the last one recorded.         *)
SnapPlaces == {"route", "chaos", "draw", "exact"}

PastExact(r) ==
  /\ rmode[r] = "MOCK" /\ answer[r][1] # "chaos"
  /\ pc[r] \in {"sequence", "resource", "step", "swap", "served", "insertServed", "done"}

AnsweredByLast(r) ==
  \A i \in EarlierRecordings(r) :
    Latest(EarlierRecordings(r), i) /\ asked[stored[i]].body = asked[r].body
      => answer[r] = <<"exact", stored[i]>>

ReplayInv ==
  ~overlapped =>
    /\ HoldsLast(live, Len(stored), stored, route, asked)
    /\ \A q \in Requests : pc[q] = "store" => rsnap[q] = live
    /\ \A q, r \in Requests : pc[q] = "store" /\ pc[r] = "store" => q = r
    /\ \A r \in Requests : pc[r] \in SnapPlaces => HoldsLast(snap[r], known[r], stored, route, asked)
    /\ \A r \in Requests : PastExact(r) => AnsweredByLast(r)

HandlerInv ==
  /\ Types /\ PhaseInv /\ OwnInv /\ CaptureInv /\ MilestoneInv /\ CountInv
  /\ StoredInv /\ ReplayInv

LEMMA PhaseInit == Init => PhaseInv
BY DEF Init, PhaseInv, Unanswered, MockPlaces, LearnPlaces

(* The parts of a request's state are functions of requests.               *)
LEMMA RequestDomains ==
  ASSUME Types
  PROVE  /\ pc \in [Requests \cup Admins -> Places]
         /\ rmode \in [Requests -> Modes \cup {NoMode}]
         /\ answer \in [Requests -> Outcomes \X (Requests \cup {NoAnswer})]
         /\ route \in [Requests -> Route \cup {Unrouted}]
         /\ snap \in [Requests -> Library] /\ rsnap \in [Requests -> Library]
BY DEF Types, RequestTypes

LEMMA ArrivePhase ==
  ASSUME Types, PhaseInv, NEW r \in Requests, Arrive(r) \/ Chaos(r)
  PROVE  PhaseInv'
<1>. USE DEF PhaseInv, Goto, Reply, Served, Unanswered, MockPlaces, LearnPlaces
<1>0. /\ pc \in [Requests \cup Admins -> Places]
      /\ rmode \in [Requests -> Modes \cup {NoMode}]
      /\ answer \in [Requests -> Outcomes \X (Requests \cup {NoAnswer})]
      /\ mode \in Modes
  BY RequestDomains DEF Types, SharedTypes
<1>1. CASE ReadMode(r)
  BY <1>0, <1>1 DEF ReadMode
<1>2. CASE LoadLibrary(r)
  BY <1>0, <1>2 DEF LoadLibrary
<1>3. CASE BindRoute(r)
  <2>. DEFINE up == Resolve(upstreams, asked[r].host)
              m  == IF up.mode = NoMode THEN rmode[r] ELSE up.mode
  <2>1. up.mode \in Modes \cup {NoMode} /\ up.chaosIn \subseteq {"MOCK", "PASSTHROUGH"}
    BY ResolveType, RouteFields DEF Types, SharedTypes
  <2>2. m \in Modes
    BY <1>3, <2>1 DEF BindRoute
  <2>3. /\ rmode' = [rmode EXCEPT ![r] = m] /\ pc[r] = "route"
        /\ pc' = [pc EXCEPT ![r] = CASE m = "TRANSITIONING" -> "unavailable"
                                     [] m \in up.chaosIn -> "chaos"
                                     [] OTHER -> FirstPhase(m)]
        /\ answer' = answer
    BY <1>3 DEF BindRoute
  <2>4. \/ m = "TRANSITIONING" /\ pc'[r] = "unavailable"
        \/ m \in {"MOCK", "PASSTHROUGH"} /\ pc'[r] = "chaos"
        \/ m = "MOCK" /\ pc'[r] = "exact"
        \/ m \in {"LEARN", "PASSTHROUGH"} /\ pc'[r] = "forward"
    BY <1>0, <2>1, <2>2, <2>3 DEF FirstPhase, Modes
  <2>. HIDE DEF m, up
  <2>. QED BY <1>0, <2>3, <2>4
<1>4. CASE Unavailable(r)
  BY <1>0, <1>4 DEF Unavailable
<1>5. CASE StepMarkov(r)
  BY <1>0, <1>5 DEF StepMarkov, FirstPhase
<1>6. CASE DrawUniform(r) \/ InjectNone(r)
  BY <1>0, <1>6 DEF DrawUniform, InjectNone, FirstPhase
<1>7. CASE InjectError(r)
  BY <1>0, <1>7 DEF InjectError
<1>. QED BY <1>1, <1>2, <1>3, <1>4, <1>5, <1>6, <1>7 DEF Arrive, Chaos

LEMMA MockPhase ==
  ASSUME Types, PhaseInv, NEW r \in Requests, Mock(r)
  PROVE  PhaseInv'
<1>. USE DEF PhaseInv, Goto, Reply, Served, Unanswered, MockPlaces, LearnPlaces
<1>0. /\ pc \in [Requests \cup Admins -> Places]
      /\ answer \in [Requests -> Outcomes \X (Requests \cup {NoAnswer})]
  BY RequestDomains
<1>1. CASE ExactMatch(r)
  BY <1>0, <1>1 DEF ExactMatch
<1>2. CASE SequenceMatch(r)
  BY <1>0, <1>2 DEF SequenceMatch
<1>3. CASE ResourceLookup(r)
  BY <1>0, <1>3 DEF ResourceLookup
<1>4. CASE TransitionMatch(r)
  BY <1>0, <1>4 DEF TransitionMatch
<1>5. CASE SmartSwap(r)
  BY <1>0, <1>5 DEF SmartSwap
<1>6. CASE TotalMiss(r)
  BY <1>0, <1>6 DEF TotalMiss
<1>7. CASE PeekServed(r) \/ InsertServed(r)
  BY <1>0, <1>7 DEF PeekServed, Peek, InsertServed, InsertSeen
<1>. QED BY <1>1, <1>2, <1>3, <1>4, <1>5, <1>6, <1>7 DEF Mock

LEMMA LearnPhase ==
  ASSUME Types, PhaseInv, NEW r \in Requests, Learn(r)
  PROVE  PhaseInv'
<1>. USE DEF PhaseInv, Goto, Reply, Served, Unanswered, MockPlaces, LearnPlaces
<1>0. /\ pc \in [Requests \cup Admins -> Places]
      /\ answer \in [Requests -> Outcomes \X (Requests \cup {NoAnswer})]
  BY RequestDomains
<1>1. CASE Forward(r) \/ Passthrough(r) \/ ForwardFail(r)
  BY <1>0, <1>1 DEF Forward, Passthrough, ForwardFail
<1>2. CASE PeekProxied(r) \/ InsertProxied(r)
  BY <1>0, <1>2 DEF PeekProxied, Peek, InsertProxied, InsertSeen
<1>3. CASE RecordLoad(r) \/ RecordStore(r)
  BY <1>0, <1>3 DEF RecordLoad, RecordStore
<1>4. CASE \E x \in Resources : Capture(r, x)
  BY <1>0, <1>4 DEF Capture
<1>. QED BY <1>1, <1>2, <1>3, <1>4 DEF Learn

LEMMA PhaseStep == Types /\ PhaseInv /\ [Next]_vars => PhaseInv'
<1>. SUFFICES ASSUME Types, PhaseInv, [Next]_vars PROVE PhaseInv'
  OBVIOUS
<1>. USE DEF PhaseInv, Goto, Served
<1>0. /\ pc \in [Requests \cup Admins -> Places]
      /\ rmode \in [Requests -> Modes \cup {NoMode}]
  BY RequestDomains
<1>1. CASE UNCHANGED vars
  BY <1>1 DEF vars
<1>2. ASSUME NEW r \in Requests, Disconnect(r) PROVE PhaseInv'
  BY <1>0, <1>2 DEF Disconnect, Unanswered, MockPlaces, LearnPlaces
<1>3. ASSUME NEW a \in Admins, \/ \E m \in Modes : SetMode(a, m)
                               \/ \E table \in Tables : SetUpstreams(a, table)
      PROVE  PhaseInv'
  <2>1. \A r \in Requests : pc'[r] = pc[r]
    BY <1>0, <1>3, HandlerAssumption DEF SetMode, SetUpstreams
  <2>. QED BY <1>3, <2>1 DEF SetMode, SetUpstreams
<1>. QED BY <1>1, <1>2, <1>3, ArrivePhase, MockPhase, LearnPhase DEF Next

-----------------------------------------------------------------------------
(* What a step leaves of the requests that do not take it, and of one that *)
(* is done.                                                                *)
Kept(q) ==
  /\ pc'[q] = pc[q] /\ rmode'[q] = rmode[q] /\ route'[q] = route[q]
  /\ snap'[q] = snap[q] /\ rsnap'[q] = rsnap[q] /\ answer'[q] = answer[q]

LEMMA OthersKept ==
  ASSUME Types, NEW r \in Requests,
         Arrive(r) \/ Chaos(r) \/ Mock(r) \/ Learn(r) \/ Disconnect(r)
  PROVE  /\ asked' = asked
         /\ \A q \in Requests : q # r \/ pc[r] = "done" => Kept(q)
<1>. USE RequestDomains DEF Kept, Goto, Reply
<1>1. CASE Arrive(r)
  BY <1>1 DEF Arrive, ReadMode, LoadLibrary, BindRoute, Unavailable
<1>2. CASE Chaos(r)
  BY <1>2 DEF Chaos, StepMarkov, DrawUniform, InjectError, InjectNone
<1>3. CASE Mock(r)
  BY <1>3 DEF Mock, ExactMatch, SequenceMatch, ResourceLookup, TransitionMatch,
              SmartSwap, TotalMiss, PeekServed, Peek, InsertServed, InsertSeen
<1>4. CASE Learn(r)
  BY <1>4 DEF Learn, Forward, Passthrough, ForwardFail, PeekProxied, Peek,
              InsertProxied, InsertSeen, RecordLoad, RecordStore, Capture
<1>5. CASE Disconnect(r)
  BY <1>5 DEF Disconnect
<1>. QED BY <1>1, <1>2, <1>3, <1>4, <1>5

LEMMA AdminKept ==
  ASSUME Types, NEW a \in Admins,
         \/ \E m \in Modes : SetMode(a, m)
         \/ \E table \in Tables : SetUpstreams(a, table)
  PROVE  /\ asked' = asked /\ \A q \in Requests : Kept(q)
         /\ UNCHANGED <<live, cursor, resources, capturing, milestone, local, history>>
<1>1. \A q \in Requests : q # a
  BY HandlerAssumption
<1>. QED BY <1>1, RequestDomains DEF Kept, Goto, SetMode, SetUpstreams

LEMMA DoneStays ==
  ASSUME Types, [Next]_vars
  PROVE  asked' = asked /\ \A q \in Requests : pc[q] = "done" => Kept(q)
<1>1. CASE UNCHANGED vars
  BY <1>1 DEF vars, Kept
<1>. QED BY <1>1, OthersKept, AdminKept DEF Next

-----------------------------------------------------------------------------
(* A service is replayed what was recorded for it.                         *)
LEMMA OwnInit == Init => OwnInv
BY DEF Init, OwnInv, LibraryOwn, EmptyLibrary, EmptySegment, Replayed, Source

(* What is kept unchanged stays the service's own.                         *)
LEMMA OwnStays ==
  ASSUME Types, OwnInv, [Next]_vars
  PROVE  /\ live' = live => LibraryOwn(live)'
         /\ \A r \in Requests :
              /\ snap'[r] \in {snap[r], live, EmptyLibrary} => LibraryOwn(snap[r])'
              /\ rsnap'[r] \in {rsnap[r], live, EmptyLibrary} => LibraryOwn(rsnap[r])'
         /\ \A s \in Services, x \in Resources :
              resources'[s][x] \in {resources[s][x], NoResource}
                => (resources[s][x] # NoResource => Recorder(resources[s][x].by, s))'
         /\ \A q \in Requests, x \in Resources :
              <<q, x>> \in capturing => pc'[q] = "done"
         /\ \A r \in Requests : answer'[r] = answer[r] /\ route'[r] = route[r]
              => (Replayed(r) => Recorder(Source(r), Service(r)))'
<1>1. \A q \in Requests : \A s : Recorder(q, s) => pc'[q] = "done" /\ route'[q].service = s
  BY DoneStays DEF Kept, Recorder, Service
<1>2. \A lib \in Library : LibraryOwn(lib) =>
        \A s \in Services, k \in Keys : lib[s][k] # NoEntry =>
          pc'[lib[s][k].by] = "done" /\ route'[lib[s][k].by].service = s
  BY <1>1, HandlerAssumption DEF LibraryOwn, Library, Segment, Recording
<1>3. LibraryOwn(EmptyLibrary) /\ EmptyLibrary \in Library
  BY EmptyTypes DEF LibraryOwn, EmptyLibrary, EmptySegment
<1>4. \A r \in Requests : snap[r] \in Library /\ rsnap[r] \in Library
  BY RequestDomains
<1>5. live \in Library
  BY DEF Types, SharedTypes
<1>6. live' = live => LibraryOwn(live)'
  BY <1>2, <1>5 DEF OwnInv, LibraryOwn, Recorder, Service
<1>7. ASSUME NEW r \in Requests
      PROVE  /\ snap'[r] \in {snap[r], live, EmptyLibrary} => LibraryOwn(snap[r])'
             /\ rsnap'[r] \in {rsnap[r], live, EmptyLibrary} => LibraryOwn(rsnap[r])'
  <2>1. \A lib \in {snap[r], rsnap[r], live, EmptyLibrary} : lib \in Library /\ LibraryOwn(lib)
    BY <1>3, <1>4, <1>5 DEF OwnInv
  <2>2. \A lib \in {snap[r], rsnap[r], live, EmptyLibrary} :
          \A s \in Services, k \in Keys : lib[s][k] # NoEntry =>
            pc'[lib[s][k].by] = "done" /\ route'[lib[s][k].by].service = s
    BY <1>2, <2>1
  <2>. QED BY <2>2 DEF LibraryOwn, Recorder, Service
<1>8. ASSUME NEW s \in Services, NEW x \in Resources,
             resources'[s][x] \in {resources[s][x], NoResource}
      PROVE  (resources[s][x] # NoResource => Recorder(resources[s][x].by, s))'
  <2>1. resources[s][x] # NoResource => resources[s][x].by \in Requests
    BY DEF Types, SharedTypes, Resource
  <2>. QED BY <1>1, <1>8, <2>1 DEF OwnInv, Recorder, Service
<1>9. \A q \in Requests, x \in Resources : <<q, x>> \in capturing => pc'[q] = "done"
  BY DoneStays DEF OwnInv, Kept
<1>10. ASSUME NEW r \in Requests, answer'[r] = answer[r] /\ route'[r] = route[r]
       PROVE  (Replayed(r) => Recorder(Source(r), Service(r)))'
  <2>1. Source(r) \in Requests \cup {NoAnswer}
    BY RequestDomains DEF Source
  <2>. QED BY <1>1, <1>10, <2>1 DEF OwnInv, Recorder, Service, Replayed, Source
<1>. QED BY <1>6, <1>7, <1>8, <1>9, <1>10

(* A request is answered, by something its service keeps or by nothing.    *)
LEMMA OwnAnswer ==
  ASSUME Types, PhaseInv, OwnInv, NEW r \in Requests, NEW phase, NEW what,
         asked' = asked, route' = route, Reply(r, phase, what),
         what = NoAnswer \/ (pc'[what] = "done" /\ route'[what].service = Service(r)),
         \A q \in Requests : pc[q] = "done" => pc'[q] = "done"
  PROVE  (\A q \in Requests : Replayed(q) => Recorder(Source(q), Service(q)))'
<1>. SUFFICES ASSUME NEW q \in Requests
              PROVE  (Replayed(q) => Recorder(Source(q), Service(q)))'
  OBVIOUS
<1>1. answer' = [answer EXCEPT ![r] = <<phase, what>>]
  BY DEF Reply
<1>2. answer[q] \in Outcomes \X (Requests \cup {NoAnswer})
  BY RequestDomains
<1>3. CASE q = r
  BY <1>1, <1>3, RequestDomains DEF Replayed, Source, Recorder, Service
<1>4. CASE q # r
  BY <1>1, <1>2, <1>4, RequestDomains DEF OwnInv, Replayed, Source, Recorder, Service
<1>. QED BY <1>3, <1>4

LEMMA MockOwn ==
  ASSUME Types, PhaseInv, OwnInv, NEW r \in Requests, Mock(r), [Next]_vars
  PROVE  OwnInv'
<1>0. /\ asked' = asked /\ route' = route /\ live' = live /\ snap' = snap
      /\ rsnap' = rsnap /\ capturing' = capturing
  BY DEF Mock, ExactMatch, SequenceMatch, ResourceLookup, TransitionMatch,
         SmartSwap, TotalMiss, PeekServed, Peek, InsertServed, InsertSeen
<1>1. Key(r) \in Keys /\ Service(r) \in Services
  BY RequestFields DEF Types
<1>2. \A q \in Requests : pc[q] = "done" => pc'[q] = "done"
  BY DoneStays DEF Kept
<1>3. \A q \in Requests : \A s : Recorder(q, s) => pc'[q] = "done" /\ route'[q].service = s
  BY <1>0, <1>2 DEF Recorder, Service
<1>4. resources' = resources
        \/ \E x \in Resources : \E n :
             /\ resources[Service(r)][x] # NoResource
             /\ resources' = [resources EXCEPT ![Service(r)][x].state = n]
  <2>1. CASE TransitionMatch(r) /\ NextState(r) # NoState
    <3>1. StepOf[Key(r)][1] \in Resources /\ resources[Service(r)][StepOf[Key(r)][1]] # NoResource
      BY <1>1, <2>1, HandlerAssumption DEF NextState
    <3>. QED BY <2>1, <3>1 DEF TransitionMatch
  <2>2. CASE ~ (TransitionMatch(r) /\ NextState(r) # NoState)
    BY <2>2 DEF Mock, ExactMatch, SequenceMatch, ResourceLookup, TransitionMatch,
                SmartSwap, TotalMiss, PeekServed, Peek, InsertServed, InsertSeen
  <2>. QED BY <2>1, <2>2
<1>5. ASSUME NEW s \in Services, NEW x \in Resources, (resources[s][x] # NoResource)'
      PROVE  Recorder(resources[s][x].by, s)'
  <2>1. resources[s][x] # NoResource => resources[s][x] \in Resource
    BY DEF Types, SharedTypes
  <2>2. resources \in [Services -> [Resources -> Resource \cup {NoResource}]]
    BY DEF Types, SharedTypes
  <2>3. resources[s][x] # NoResource /\ resources'[s][x].by = resources[s][x].by
    BY <1>1, <1>4, <1>5, <2>1, <2>2 DEF Resource
  <2>4. resources[s][x].by \in Requests
    BY <2>1, <2>3 DEF Resource
  <2>. QED BY <1>3, <2>3, <2>4 DEF OwnInv, Recorder, Service
<1>6. (\A q \in Requests : Replayed(q) => Recorder(Source(q), Service(q)))'
  <2>1. CASE UNCHANGED answer
    BY <1>0, <2>1, OwnStays
  <2>2. CASE ExactMatch(r) /\ Found(r) # NoEntry /\ Found(r).body = asked[r].body
    <3>1. Recorder(Found(r).by, Service(r)) /\ Found(r).by \in Requests
      BY <1>1, <2>2, HandlerAssumption, RequestDomains
      DEF OwnInv, LibraryOwn, Found, FindExact, Library, Segment, Recording
    <3>. QED BY <1>0, <1>2, <1>3, <2>2, <3>1, OwnAnswer DEF ExactMatch
  <2>3. CASE SequenceMatch(r) /\ Key(r) \in Scripted
    BY <1>0, <1>2, <2>3, OwnAnswer DEF SequenceMatch
  <2>4. CASE ResourceLookup(r) /\ ReadOf[Key(r)] # NoResource
                               /\ resources[Service(r)][ReadOf[Key(r)]] # NoResource
    <3>. DEFINE c == resources[Service(r)][ReadOf[Key(r)]]
    <3>1. ReadOf[Key(r)] \in Resources /\ c \in Resource
      BY <1>1, <2>4, HandlerAssumption DEF Types, SharedTypes
    <3>2. Recorder(c.by, Service(r)) /\ c.by \in Requests
      BY <1>1, <2>4, <3>1 DEF OwnInv, Resource
    <3>. QED BY <1>0, <1>2, <1>3, <2>4, <3>2, OwnAnswer DEF ResourceLookup
  <2>5. CASE TransitionMatch(r) /\ NextState(r) # NoState
    <3>. DEFINE c == resources[Service(r)][StepOf[Key(r)][1]]
    <3>1. StepOf[Key(r)][1] \in Resources /\ c # NoResource
      BY <1>1, <2>5, HandlerAssumption DEF NextState
    <3>2. c \in Resource
      BY <1>1, <3>1 DEF Types, SharedTypes
    <3>3. Recorder(c.by, Service(r)) /\ c.by \in Requests
      BY <1>1, <3>1, <3>2 DEF OwnInv, Resource
    <3>. QED BY <1>0, <1>2, <1>3, <2>5, <3>3, OwnAnswer DEF TransitionMatch
  <2>6. CASE SmartSwap(r)
    <3>1. PICK e \in SwapCandidates(snap[r], Service(r), Key(r)) : Reply(r, "swap", e.by)
      BY <2>6 DEF SmartSwap
    <3>2. snap[r] \in Library
      BY RequestDomains
    <3>3. Recorder(e.by, Service(r)) /\ e.by \in Requests
      BY <1>1, <3>2, CandidatesType, HandlerAssumption DEF OwnInv, LibraryOwn, Recording
    <3>. QED BY <1>0, <1>2, <1>3, <3>1, <3>3, OwnAnswer
  <2>7. CASE TotalMiss(r)
    BY <1>0, <1>2, <2>7, OwnAnswer DEF TotalMiss
  <2>. QED BY <2>1, <2>2, <2>3, <2>4, <2>5, <2>6, <2>7
           DEF Mock, ExactMatch, SequenceMatch, ResourceLookup, TransitionMatch,
               PeekServed, Peek, InsertServed, InsertSeen
<1>. QED BY <1>0, <1>5, <1>6, OwnStays DEF OwnInv

LEMMA ArriveOwn ==
  ASSUME Types, PhaseInv, OwnInv, NEW r \in Requests,
         Arrive(r) \/ Chaos(r) \/ Disconnect(r), [Next]_vars
  PROVE  OwnInv'
<1>0. /\ asked' = asked /\ live' = live /\ resources' = resources
      /\ rsnap' = rsnap /\ capturing' = capturing
  BY DEF Arrive, ReadMode, LoadLibrary, BindRoute, Unavailable, Chaos, StepMarkov,
         DrawUniform, InjectError, InjectNone, Disconnect
<1>1. \A q \in Requests : pc[q] = "done" => pc'[q] = "done"
  BY DoneStays DEF Kept
<1>2. \A q \in Requests : snap'[q] \in {snap[q], live, EmptyLibrary}
  BY RequestDomains DEF Arrive, ReadMode, LoadLibrary, BindRoute, Unavailable, Chaos,
       StepMarkov, DrawUniform, InjectError, InjectNone, Disconnect
<1>3. (\A q \in Requests : Replayed(q) => Recorder(Source(q), Service(q)))'
  <2>1. CASE Unavailable(r) \/ InjectError(r)
    BY <1>0, <1>1, <2>1, OwnAnswer DEF Unavailable, InjectError
  <2>2. CASE BindRoute(r) \/ Disconnect(r)
    <3>1. answer[r] = <<"none", NoAnswer>> /\ answer' = answer
      BY <2>2 DEF PhaseInv, Unanswered, BindRoute, Disconnect
    <3>2. \A q \in Requests : q # r => route'[q] = route[q]
      BY <2>2, RequestDomains DEF BindRoute, Disconnect
    <3>3. ~ Replayed(r)'
      BY <3>1 DEF Replayed, Source
    <3>. QED BY <3>1, <3>2, <3>3, OwnStays
  <2>3. CASE ReadMode(r) \/ LoadLibrary(r) \/ StepMarkov(r) \/ DrawUniform(r) \/ InjectNone(r)
    BY <2>3, OwnStays DEF ReadMode, LoadLibrary, StepMarkov, DrawUniform, InjectNone
  <2>. QED BY <2>1, <2>2, <2>3 DEF Arrive, Chaos
<1>. QED BY <1>0, <1>2, <1>3, OwnStays DEF OwnInv

(* A recording is stored by the request that is then done, in the segment  *)
(* of the service it is bound to.                                          *)
LEMMA StoreOwn ==
  ASSUME Types, OwnInv, NEW r \in Requests, RecordStore(r), [Next]_vars
  PROVE  LibraryOwn(live)'
<1>1. Key(r) \in Keys /\ Service(r) \in Services
  BY RequestFields DEF Types
<1>2. rsnap[r] \in Library /\ LibraryOwn(rsnap[r]) /\ route' = route
  BY RequestDomains DEF OwnInv, RecordStore
<1>3. \A q \in Requests : \A s : Recorder(q, s) => pc'[q] = "done" /\ route'[q].service = s
  BY DoneStays DEF Kept, Recorder, Service
<1>4. \A s \in Services, k \in Keys : rsnap[r][s][k] # NoEntry =>
        /\ pc'[rsnap[r][s][k].by] = "done" /\ route'[rsnap[r][s][k].by].service = s
  BY <1>2, <1>3, HandlerAssumption DEF LibraryOwn, Library, Segment, Recording
<1>5. \A s \in Services, k \in Keys :
        live'[s][k] = IF s = Service(r) /\ k = Key(r)
                        THEN [by |-> r, body |-> asked[r].body] ELSE rsnap[r][s][k]
  BY <1>1, <1>2 DEF RecordStore, Insert, Library, Segment
<1>6. pc'[r] = "done" /\ route'[r].service = Service(r)
  BY <1>2, RequestDomains DEF RecordStore, Goto, Service
<1>. QED BY <1>4, <1>5, <1>6 DEF LibraryOwn, Recorder, Service

LEMMA LearnOwn ==
  ASSUME Types, PhaseInv, OwnInv, NEW r \in Requests, Learn(r), [Next]_vars
  PROVE  OwnInv'
<1>0. asked' = asked /\ route' = route /\ snap' = snap
  BY DEF Learn, Forward, Passthrough, ForwardFail, PeekProxied, Peek, InsertProxied,
         InsertSeen, RecordLoad, RecordStore, Capture
<1>1. \A q \in Requests : pc[q] = "done" => pc'[q] = "done"
  BY DoneStays DEF Kept
<1>2. CASE Forward(r) \/ Passthrough(r) \/ ForwardFail(r)
  <2>1. (\A q \in Requests : Replayed(q) => Recorder(Source(q), Service(q)))'
    BY <1>0, <1>1, <1>2, OwnAnswer DEF Forward, Passthrough, ForwardFail
  <2>. QED BY <1>2, <2>1, OwnStays DEF OwnInv, Forward, Passthrough, ForwardFail
<1>3. CASE PeekProxied(r) \/ InsertProxied(r) \/ RecordLoad(r)
  <2>1. \A q \in Requests : rsnap'[q] \in {rsnap[q], live}
    BY <1>3, RequestDomains DEF PeekProxied, Peek, InsertProxied, InsertSeen, RecordLoad
  <2>. QED BY <1>3, <2>1, OwnStays
           DEF OwnInv, PeekProxied, Peek, InsertProxied, InsertSeen, RecordLoad
<1>4. CASE RecordStore(r)
  <2>1. \A q \in Requests : rsnap'[q] \in {rsnap[q], EmptyLibrary}
    BY <1>4, RequestDomains DEF RecordStore
  <2>2. pc'[r] = "done"
    BY <1>4, RequestDomains DEF RecordStore, Goto
  <2>3. \A q \in Requests, x \in Resources :
          <<q, x>> \in capturing' => <<q, x>> \in capturing \/ q = r
    BY <1>4 DEF RecordStore
  <2>4. (\A q \in Requests, x \in Resources : <<q, x>> \in capturing => pc[q] = "done")'
    BY <2>2, <2>3, OwnStays
  <2>. QED BY <1>0, <1>4, <2>1, <2>4, OwnStays, StoreOwn DEF OwnInv, RecordStore
<1>5. ASSUME NEW x \in Resources, Capture(r, x) PROVE OwnInv'
  <2>1. pc'[r] = "done" /\ Service(r) \in Services
    BY <1>5, RequestFields DEF Capture, OwnInv, Types
  <2>2. \A s \in Services, y \in Resources :
          IF s = Service(r) /\ y = x THEN resources'[s][y].by = r
                                     ELSE resources'[s][y] = resources[s][y]
    BY <1>5, <2>1 DEF Capture, Bucket, Types, SharedTypes
  <2>3. (\A s \in Services, y \in Resources :
           resources[s][y] # NoResource => Recorder(resources[s][y].by, s))'
    BY <1>0, <2>1, <2>2, OwnStays DEF Recorder, Service
  <2>. QED BY <1>0, <1>5, <2>3, OwnStays DEF OwnInv, Capture
<1>. QED BY <1>2, <1>3, <1>4, <1>5 DEF Learn

LEMMA OwnStep == Types /\ PhaseInv /\ OwnInv /\ [Next]_vars => OwnInv'
<1>. SUFFICES ASSUME Types, PhaseInv, OwnInv, [Next]_vars PROVE OwnInv'
  OBVIOUS
<1>1. CASE UNCHANGED vars
  BY <1>1, OwnStays DEF vars, OwnInv
<1>2. ASSUME NEW a \in Admins, \/ \E m \in Modes : SetMode(a, m)
                               \/ \E table \in Tables : SetUpstreams(a, table)
      PROVE  OwnInv'
  BY <1>2, AdminKept, OwnStays DEF OwnInv
<1>. QED BY <1>1, <1>2, ArriveOwn, MockOwn, LearnOwn DEF Next

(* README.md:152: what a request is replayed was recorded by one that was  *)
(* routed to the same service, whatever the route tables and however they  *)
(* change while requests are resolved, recorded or captured.               *)
THEOREM ReplaysOwn == Spec => []ReplaysOwnService
<1>1. Init => Types /\ PhaseInv /\ OwnInv
  BY TypesInit, PhaseInit, OwnInit
<1>2. Types /\ PhaseInv /\ OwnInv /\ [Next]_vars => (Types /\ PhaseInv /\ OwnInv)'
  BY TypesStep, PhaseStep, OwnStep
<1>3. OwnInv => ReplaysOwnService
  BY DEF OwnInv, ReplaysOwnService, Recorder
<1>. QED BY <1>1, <1>2, <1>3, PTL DEF Spec

-----------------------------------------------------------------------------
(* Which steps write what.                                                 *)
LEMMA Writers ==
  ASSUME [Next]_vars
  PROVE  /\ \/ resources' = resources
            \/ \E r \in Requests : \/ \E x \in Resources : Capture(r, x)
                                   \/ TransitionMatch(r) /\ NextState(r) # NoState
         /\ captured' = captured \/ \E r \in Requests, x \in Resources : Capture(r, x)
         /\ held' = held \/ \E r \in Requests : ReadMode(r) \/ Disconnect(r)
         /\ route' = route \/ \E r \in Requests : BindRoute(r) \/ Disconnect(r)
<1>1. CASE UNCHANGED vars
  BY <1>1 DEF vars
<1>2. CASE \E r \in Requests : Arrive(r) \/ Chaos(r)
  BY <1>2 DEF Arrive, ReadMode, LoadLibrary, BindRoute, Unavailable, Chaos, StepMarkov,
              DrawUniform, InjectError, InjectNone
<1>3. ASSUME NEW r \in Requests, Mock(r)
      PROVE  /\ resources' = resources \/ (TransitionMatch(r) /\ NextState(r) # NoState)
             /\ captured' = captured /\ held' = held /\ route' = route
  <2>1. CASE TransitionMatch(r)
    BY <2>1 DEF TransitionMatch
  <2>. QED BY <1>3, <2>1 DEF Mock, ExactMatch, SequenceMatch, ResourceLookup,
                             SmartSwap, TotalMiss, PeekServed, Peek, InsertServed, InsertSeen
<1>4. ASSUME NEW r \in Requests, Learn(r)
      PROVE  /\ held' = held /\ route' = route
             /\ \/ resources' = resources /\ captured' = captured
                \/ \E x \in Resources : Capture(r, x)
  BY <1>4 DEF Learn, Forward, Passthrough, ForwardFail, PeekProxied, Peek,
              InsertProxied, InsertSeen, RecordLoad, RecordStore, Capture
<1>5. CASE \E r \in Requests : Disconnect(r)
  BY <1>5 DEF Disconnect
<1>6. CASE \E a \in Admins : \/ \E m \in Modes : SetMode(a, m)
                             \/ \E table \in Tables : SetUpstreams(a, table)
  BY <1>6 DEF SetMode, SetUpstreams
<1>. QED BY <1>1, <1>2, <1>3, <1>4, <1>5, <1>6 DEF Next

-----------------------------------------------------------------------------
(* What was captured is found.                                             *)
LEMMA CaptureInit == Init => CaptureInv
BY DEF Init, CaptureInv, NotHeld

LEMMA CapturedType ==
  ASSUME NEW r \in Requests, NEW x \in Resources
  PROVE  [by |-> r, state |-> IF MachineOf[x] = NoMachine
                                THEN NoState ELSE Initial[MachineOf[x]]] \in Resource
<1>1. MachineOf[x] # NoMachine => MachineOf[x] \in Machines
  BY HandlerAssumption
<1>2. \A m \in Machines : Initial[m] \in States
  BY DEF States, StatesOf
<1>. QED BY <1>1, <1>2 DEF Resource

(* A resource that was captured stays in the map.                          *)
LEMMA ResourcesStay ==
  ASSUME Types, [Next]_vars, NEW s \in Services, NEW x \in Resources,
         resources[s][x] # NoResource
  PROVE  resources'[s][x] # NoResource
<1>0. /\ resources \in [Services -> [Resources -> Resource \cup {NoResource}]]
      /\ resources'[s][x] \in Resource \cup {NoResource}
  BY TypesStep DEF Types, SharedTypes
<1>1. CASE resources' = resources
  BY <1>1
<1>2. ASSUME NEW r \in Requests, NEW y \in Resources, Capture(r, y)
      PROVE  resources'[s][x] # NoResource
  <2>1. Service(r) \in Services
    BY RequestFields DEF Types
  <2>2. \/ resources'[s][x] = resources[s][x]
        \/ resources'[s][x] = [by |-> r, state |-> IF MachineOf[y] = NoMachine
                                                     THEN NoState ELSE Initial[MachineOf[y]]]
    BY <1>0, <1>2, <2>1 DEF Capture, Bucket
  <2>. QED BY <2>2, CapturedType, HandlerAssumption
<1>3. ASSUME NEW r \in Requests, TransitionMatch(r), NextState(r) # NoState
      PROVE  resources'[s][x] # NoResource
  <2>. DEFINE y == StepOf[Key(r)][1]
  <2>1. Key(r) \in Keys /\ Service(r) \in Services
    BY RequestFields DEF Types
  <2>2. y \in Resources /\ resources[Service(r)][y] \in Resource
    BY <1>0, <1>3, <2>1, HandlerAssumption DEF NextState
  <2>3. NextState(r) \in States \cup {NoState}
    BY <1>3, <2>2, ApplyType, HandlerAssumption DEF NextState
  <2>4. [resources[Service(r)][y] EXCEPT !.state = NextState(r)] \in Resource
    BY <2>2, <2>3 DEF Resource
  <2>5. resources' = [resources EXCEPT ![Service(r)] = [resources[Service(r)] EXCEPT ![y] =
          [resources[Service(r)][y] EXCEPT !.state = NextState(r)]]]
    BY <1>0, <1>3, <2>1, <2>2 DEF TransitionMatch
  <2>6. \/ resources'[s][x] = resources[s][x]
        \/ resources'[s][x] = [resources[Service(r)][y] EXCEPT !.state = NextState(r)]
    BY <1>0, <2>1, <2>2, <2>5
  <2>. QED BY <2>4, <2>6, HandlerAssumption
<1>. QED BY <1>1, <1>2, <1>3, Writers

(* What was captured when a request arrived is all it counts on.           *)
LEMMA NotHeldStays ==
  ASSUME Types, CaptureInv, [Next]_vars, NEW q \in Requests, NotHeld(q),
         held'[q] = held[q], route'[q] = route[q]
  PROVE  NotHeld(q)'
<1>1. \A w \in Requests : \A x : <<w, x>> \in held[q] => route'[w] = route[w]
  BY DoneStays DEF CaptureInv, Kept
<1>2. Key(q)' = Key(q)
  BY DoneStays DEF Key
<1>. QED BY <1>1, <1>2 DEF NotHeld, Service

LEMMA CaptureStep ==
  Types /\ PhaseInv /\ OwnInv /\ CaptureInv /\ [Next]_vars => CaptureInv'
<1>. SUFFICES ASSUME Types, PhaseInv, OwnInv, CaptureInv, [Next]_vars PROVE CaptureInv'
  OBVIOUS
<1>0. \A w \in Requests, x \in Resources : <<w, x>> \in captured =>
        /\ pc'[w] = "done" /\ route'[w] = route[w]
        /\ resources'[Service(w)][x] # NoResource
  <2>1. \A w \in Requests : Service(w) \in Services
    BY RequestFields DEF Types
  <2>. QED BY <2>1, DoneStays, ResourcesStay DEF CaptureInv, Kept
<1>1. /\ (captured \subseteq Requests \X Resources)'
      /\ (\A w \in Requests, x \in Resources :
            <<w, x>> \in captured => pc[w] = "done" /\ resources[Service(w)][x] # NoResource)'
      /\ captured \subseteq captured'
  <2>1. CASE captured' = captured
    BY <1>0, <2>1 DEF CaptureInv, Service
  <2>2. ASSUME NEW r \in Requests, NEW x \in Resources, Capture(r, x)
        PROVE  /\ (captured \subseteq Requests \X Resources)'
               /\ (\A w \in Requests, y \in Resources :
                     <<w, y>> \in captured => pc[w] = "done" /\ resources[Service(w)][y] # NoResource)'
               /\ captured \subseteq captured'
    <3>1. captured' = captured \cup {<<r, x>>} /\ route' = route /\ pc'[r] = "done"
      BY <2>2 DEF Capture, OwnInv
    <3>2. Service(r) \in Services
      BY RequestFields DEF Types
    <3>3. resources'[Service(r)][x] \in Resource
      <4>1. resources'[Service(r)][x] = [by |-> r, state |-> IF MachineOf[x] = NoMachine
                                                 THEN NoState ELSE Initial[MachineOf[x]]]
        BY <2>2, <3>2 DEF Capture, Bucket, Types, SharedTypes
      <4>. QED BY <4>1, CapturedType
    <3>4. resources'[Service(r)][x] # NoResource
      BY <3>3, HandlerAssumption
    <3>. QED BY <1>0, <3>1, <3>4 DEF CaptureInv, Service
  <2>. QED BY <2>1, <2>2, Writers
<1>2. held' \in [Requests -> SUBSET captured']
  BY <1>1, Writers DEF CaptureInv, ReadMode, Disconnect
<1>3. ASSUME NEW q \in Requests,
             pc'[q] \in {"step", "swap"} \/ answer'[q][1] \in {"swap", "miss"}
      PROVE  NotHeld(q)'
  <2>0. /\ held'[q] = held[q] \/ ReadMode(q) \/ Disconnect(q)
        /\ route'[q] = route[q] \/ BindRoute(q) \/ Disconnect(q)
    BY Writers, RequestDomains DEF CaptureInv, ReadMode, BindRoute, Disconnect
  <2>1. ~ (ReadMode(q) \/ BindRoute(q) \/ Disconnect(q))
    BY <1>3, RequestDomains
    DEF PhaseInv, Unanswered, Goto, FirstPhase, ReadMode, BindRoute, Disconnect
  <2>2. CASE pc[q] \in {"step", "swap"} \/ answer[q][1] \in {"swap", "miss"}
    BY <2>0, <2>1, <2>2, NotHeldStays DEF CaptureInv
  <2>3. CASE ~ (pc[q] \in {"step", "swap"} \/ answer[q][1] \in {"swap", "miss"})
    <3>1. ~ Kept(q)
      BY <1>3, <2>3 DEF Kept
    <3>2. Arrive(q) \/ Chaos(q) \/ Mock(q) \/ Learn(q)
      BY <2>1, <3>1, OthersKept, AdminKept DEF Next, vars, Kept
    <3>0. /\ pc \in [Requests \cup Admins -> Places]
          /\ answer \in [Requests -> Outcomes \X (Requests \cup {NoAnswer})]
      BY RequestDomains
    <3>. DEFINE Enters == \/ pc'[q] \in {"step", "swap"} /\ pc[q] \notin {"step", "swap"}
                          \/ answer'[q][1] \in {"swap", "miss"} /\ answer[q][1] \notin {"swap", "miss"}
    <3>3. Enters
      BY <1>3, <2>3
    <3>4. ~ (Arrive(q) \/ Chaos(q))
      <4>1. LoadLibrary(q) \/ Unavailable(q) => ~ Enters
        BY <3>0 DEF Goto, Reply, LoadLibrary, Unavailable
      <4>2. StepMarkov(q) => ~ Enters
        BY <3>0 DEF Goto, FirstPhase, StepMarkov
      <4>3. DrawUniform(q) \/ InjectError(q) \/ InjectNone(q) => ~ Enters
        BY <3>0 DEF Goto, Reply, FirstPhase, DrawUniform, InjectError, InjectNone
      <4>. QED BY <2>1, <3>3, <4>1, <4>2, <4>3 DEF Arrive, Chaos
    <3>5. ~ Learn(q)
      <4>1. Forward(q) \/ Passthrough(q) \/ ForwardFail(q) => ~ Enters
        BY <3>0 DEF Goto, Reply, Forward, Passthrough, ForwardFail
      <4>2. PeekProxied(q) \/ InsertProxied(q) \/ RecordLoad(q) \/ RecordStore(q) => ~ Enters
        BY <3>0 DEF Goto, PeekProxied, Peek, InsertProxied, InsertSeen, RecordLoad, RecordStore
      <4>3. \A x \in Resources : Capture(q, x) => ~ Enters
        BY DEF Capture
      <4>. QED BY <3>3, <4>1, <4>2, <4>3 DEF Learn
    <3>9. ResourceLookup(q) /\ pc'[q] = "step"
      BY <3>0, <1>3, <2>3, <3>2, <3>4, <3>5
      DEF Goto, Reply, Mock, ExactMatch, SequenceMatch, ResourceLookup, TransitionMatch,
          SmartSwap, TotalMiss, PeekServed, Peek, InsertServed, InsertSeen
    <3>6. ReadOf[Key(q)] = NoResource \/ resources[Service(q)][ReadOf[Key(q)]] = NoResource
      BY <3>9, RequestDomains DEF ResourceLookup, Goto
    <3>7. \A w \in Requests : <<w, ReadOf[Key(q)]>> \in held[q] =>
            /\ ReadOf[Key(q)] # NoResource
            /\ resources[Service(w)][ReadOf[Key(q)]] # NoResource
      BY HandlerAssumption DEF CaptureInv
    <3>8. NotHeld(q)
      BY <3>6, <3>7 DEF NotHeld
    <3>. QED BY <2>0, <2>1, <3>8, NotHeldStays
  <2>. QED BY <2>2, <2>3
<1>. QED BY <1>1, <1>2, <1>3 DEF CaptureInv

(* main.rs:1598-1602: a GET of a resource that a POST of its service       *)
(* created, when the capture was made before the GET arrived, does not     *)
(* miss in MOCK mode, whatever the routes and the other requests do.       *)
THEOREM CapturesFound == Spec => []CapturedIsFound
<1>. DEFINE Inv == Types /\ PhaseInv /\ OwnInv /\ CaptureInv
<1>1. Init => Inv
  BY TypesInit, PhaseInit, OwnInit, CaptureInit
<1>2. Inv /\ [Next]_vars => Inv'
  BY TypesStep, PhaseStep, OwnStep, CaptureStep
<1>3. Inv => CapturedIsFound
  BY DEF CaptureInv, NotHeld, CapturedIsFound
<1>. QED BY <1>1, <1>2, <1>3, PTL DEF Spec

-----------------------------------------------------------------------------
(* The library is the history of what was recorded.                        *)
LEMMA HoldsEmpty ==
  ASSUME NEW bound, NEW asks
  PROVE  HoldsLast(EmptyLibrary, 0, <<>>, bound, asks)
BY DEF HoldsLast, Records, EmptyLibrary, EmptySegment

LEMMA HoldsSame ==
  ASSUME NEW lib, NEW n \in Nat, NEW made, NEW made2, NEW bound, NEW bound2, NEW asks,
         \A i \in 1..n : made2[i] = made[i] /\ bound2[made[i]].service = bound[made[i]].service,
         HoldsLast(lib, n, made, bound, asks)
  PROVE  HoldsLast(lib, n, made2, bound2, asks)
<1>1. \A s, k : Records(n, made2, bound2, asks, s, k) = Records(n, made, bound, asks, s, k)
  BY DEF Records
<1>2. ASSUME NEW s \in Services, NEW k \in Keys, NEW i \in 1..n,
             Latest(Records(n, made, bound, asks, s, k), i),
             lib[s][k] = [by |-> made[i], body |-> asks[made[i]].body]
      PROVE  /\ Latest(Records(n, made2, bound2, asks, s, k), i)
             /\ lib[s][k] = [by |-> made2[i], body |-> asks[made2[i]].body]
  BY <1>1, <1>2
<1>3. ASSUME NEW s \in Services, NEW k \in Keys
      PROVE  \/ Records(n, made2, bound2, asks, s, k) = {} /\ lib[s][k] = NoEntry
             \/ \E i \in 1..n :
                  /\ Latest(Records(n, made2, bound2, asks, s, k), i)
                  /\ lib[s][k] = [by |-> made2[i], body |-> asks[made2[i]].body]
  <2>1. \/ Records(n, made, bound, asks, s, k) = {} /\ lib[s][k] = NoEntry
        \/ \E i \in 1..n :
             /\ Latest(Records(n, made, bound, asks, s, k), i)
             /\ lib[s][k] = [by |-> made[i], body |-> asks[made[i]].body]
    BY DEF HoldsLast
  <2>2. CASE Records(n, made, bound, asks, s, k) = {} /\ lib[s][k] = NoEntry
    BY <1>1, <2>2
  <2>3. CASE \E i \in 1..n :
               /\ Latest(Records(n, made, bound, asks, s, k), i)
               /\ lib[s][k] = [by |-> made[i], body |-> asks[made[i]].body]
    BY <1>2, <2>3
  <2>. QED BY <2>1, <2>2, <2>3
<1>. QED BY <1>3 DEF HoldsLast

LEMMA HoldsInsert ==
  ASSUME NEW lib \in Library, NEW made \in Seq(Requests), NEW bound, NEW asks,
         NEW r \in Requests, bound[r].service \in Services, asks[r].key \in Keys,
         HoldsLast(lib, Len(made), made, bound, asks)
  PROVE  HoldsLast(Insert(lib, bound[r].service, asks[r].key,
                          [by |-> r, body |-> asks[r].body]),
                   Len(made) + 1, Append(made, r), bound, asks)
<1>. DEFINE n == Len(made)
            e == [by |-> r, body |-> asks[r].body]
            new == Insert(lib, bound[r].service, asks[r].key, e)
            now == Append(made, r)
            Old(s, k) == Records(n, made, bound, asks, s, k)
            New(s, k) == Records(n + 1, now, bound, asks, s, k)
<1>1. n \in Nat /\ (\A i \in 1..n : now[i] = made[i]) /\ now[n + 1] = r
  OBVIOUS
<1>2. ASSUME NEW s \in Services, NEW k \in Keys
      PROVE  \/ New(s, k) = {} /\ new[s][k] = NoEntry
             \/ \E i \in 1..(n + 1) : /\ Latest(New(s, k), i)
                                      /\ new[s][k] = [by |-> now[i], body |-> asks[now[i]].body]
  <2>. HIDE DEF now
  <2>1. CASE s = bound[r].service /\ k = asks[r].key
    <3>1. new[s][k] = e
      BY <2>1 DEF Insert, Library, Segment
    <3>2. Latest(New(s, k), n + 1)
      BY <1>1, <2>1 DEF Latest, Records
    <3>. QED BY <1>1, <3>1, <3>2
  <2>2. CASE ~ (s = bound[r].service /\ k = asks[r].key)
    <3>1. new[s][k] = lib[s][k]
      BY <2>2 DEF Insert, Library, Segment
    <3>2. New(s, k) = Old(s, k)
      BY <1>1, <2>2 DEF Records
    <3>3. CASE Old(s, k) = {} /\ lib[s][k] = NoEntry
      BY <3>1, <3>2, <3>3
    <3>4. ASSUME NEW i \in 1..n, Latest(Old(s, k), i),
                 lib[s][k] = [by |-> made[i], body |-> asks[made[i]].body]
          PROVE  /\ i \in 1..(n + 1) /\ Latest(New(s, k), i)
                 /\ new[s][k] = [by |-> now[i], body |-> asks[now[i]].body]
      BY <1>1, <3>1, <3>2, <3>4
    <3>. QED BY <3>3, <3>4 DEF HoldsLast
  <2>. QED BY <2>1, <2>2
<1>. QED BY <1>2 DEF HoldsLast

LEMMA HistoryWriters ==
  ASSUME [Next]_vars
  PROVE  /\ (stored' = stored /\ live' = live) \/ \E r \in Requests : RecordStore(r)
         /\ known' = known \/ \E r \in Requests : LoadLibrary(r) \/ Disconnect(r)
         /\ overlapped' = overlapped \/ \E r \in Requests : RecordLoad(r)
<1>1. CASE UNCHANGED vars
  BY <1>1 DEF vars
<1>2. CASE \E r \in Requests : Arrive(r) \/ Chaos(r)
  BY <1>2 DEF Arrive, ReadMode, LoadLibrary, BindRoute, Unavailable, Chaos, StepMarkov,
              DrawUniform, InjectError, InjectNone
<1>3. CASE \E r \in Requests : Mock(r)
  BY <1>3 DEF Mock, ExactMatch, SequenceMatch, ResourceLookup, TransitionMatch,
              SmartSwap, TotalMiss, PeekServed, Peek, InsertServed, InsertSeen
<1>4. ASSUME NEW r \in Requests, Learn(r)
      PROVE  /\ (stored' = stored /\ live' = live) \/ RecordStore(r)
             /\ known' = known
             /\ overlapped' = overlapped \/ RecordLoad(r)
  BY <1>4 DEF Learn, Forward, Passthrough, ForwardFail, PeekProxied, Peek,
              InsertProxied, InsertSeen, RecordLoad, RecordStore, Capture
<1>5. CASE \E r \in Requests : Disconnect(r)
  BY <1>5 DEF Disconnect
<1>6. CASE \E a \in Admins : \/ \E m \in Modes : SetMode(a, m)
                             \/ \E table \in Tables : SetUpstreams(a, table)
  BY <1>6 DEF SetMode, SetUpstreams
<1>. QED BY <1>1, <1>2, <1>3, <1>4, <1>5, <1>6 DEF Next

LEMMA StoredInit == Init => StoredInv
<1>. SUFFICES ASSUME Init PROVE StoredInv
  OBVIOUS
<1>1. stored = <<>> /\ overlapped = FALSE /\ known = [r \in Requests |-> 0]
  BY DEF Init
<1>2. stored \in Seq(Requests) /\ DOMAIN stored = {} /\ Len(stored) = 0
  BY <1>1
<1>3. known \in [Requests -> Nat] /\ \A r \in Requests : known[r] <= 0
  BY <1>1
<1>. QED BY <1>1, <1>2, <1>3, Zenon DEF StoredInv

LEMMA StoredStep == Types /\ StoredInv /\ [Next]_vars => StoredInv'
<1>. SUFFICES ASSUME Types, StoredInv, [Next]_vars PROVE StoredInv'
  OBVIOUS
<1>1. /\ stored' \in Seq(Requests) /\ Len(stored) <= Len(stored')
      /\ \A i \in DOMAIN stored' : pc'[stored'[i]] = "done"
  <2>1. \A i \in DOMAIN stored : stored[i] \in Requests /\ pc'[stored[i]] = "done"
    BY DoneStays DEF StoredInv, Kept
  <2>2. CASE stored' = stored
    BY <2>1, <2>2 DEF StoredInv
  <2>3. ASSUME NEW r \in Requests, RecordStore(r)
        PROVE  /\ stored' \in Seq(Requests) /\ Len(stored) <= Len(stored')
               /\ \A i \in DOMAIN stored' : pc'[stored'[i]] = "done"
    <3>1. stored' = Append(stored, r) /\ pc'[r] = "done"
      BY <2>3, RequestDomains DEF RecordStore, Goto
    <3>. QED BY <2>1, <3>1 DEF StoredInv
  <2>. QED BY <2>2, <2>3, HistoryWriters
<1>2. known' \in [Requests -> Nat] /\ \A r \in Requests : known'[r] <= Len(stored)
  <2>1. Len(stored) \in Nat
    BY DEF StoredInv
  <2>2. CASE known' = known
    BY <2>2 DEF StoredInv
  <2>3. ASSUME NEW r \in Requests, LoadLibrary(r) \/ Disconnect(r)
        PROVE  known' \in [Requests -> Nat] /\ \A q \in Requests : known'[q] <= Len(stored)
    <3>1. \E n \in {0, Len(stored)} : known' = [known EXCEPT ![r] = n]
      BY <2>3 DEF LoadLibrary, Disconnect
    <3>. QED BY <2>1, <3>1 DEF StoredInv
  <2>. QED BY <2>2, <2>3, HistoryWriters
<1>3. overlapped' \in BOOLEAN
  BY HistoryWriters DEF StoredInv, RecordLoad
<1>4. Len(stored) \in Nat /\ Len(stored') \in Nat
  BY <1>1 DEF StoredInv
<1>. QED BY <1>1, <1>2, <1>3, <1>4 DEF StoredInv

(* The history only grows, and the requests in it keep their services.     *)
LEMMA HistoryStays ==
  ASSUME Types, StoredInv, [Next]_vars
  PROVE  \A i \in 1..Len(stored) :
           /\ stored'[i] = stored[i] /\ stored[i] \in Requests
           /\ route'[stored[i]] = route[stored[i]]
<1>1. \A i \in 1..Len(stored) :
        stored[i] \in Requests /\ route'[stored[i]] = route[stored[i]]
  BY DoneStays DEF StoredInv, Kept
<1>2. \A i \in 1..Len(stored) : stored'[i] = stored[i]
  <2>1. \A r : \A i \in 1..Len(stored) : Append(stored, r)[i] = stored[i]
    BY DEF StoredInv
  <2>2. CASE stored' = stored
    BY <2>2
  <2>3. CASE \E r \in Requests : stored' = Append(stored, r)
    BY <2>1, <2>3
  <2>. QED BY <2>2, <2>3, HistoryWriters DEF RecordStore
<1>. QED BY <1>1, <1>2

LEMMA EarlierStays ==
  ASSUME Types, StoredInv, [Next]_vars, NEW q \in Requests,
         known'[q] = known[q], route'[q] = route[q]
  PROVE  /\ EarlierRecordings(q)' = EarlierRecordings(q)
         /\ \A i \in EarlierRecordings(q) : i \in 1..Len(stored)
<1>1. known[q] \in Nat /\ known[q] <= Len(stored) /\ Len(stored) \in Nat
  BY DEF StoredInv
<1>2. \A i \in 1..known[q] : i \in 1..Len(stored)
  BY <1>1
<1>3. asked' = asked
  BY DoneStays
<1>. QED BY <1>2, <1>3, HistoryStays DEF EarlierRecordings, Service, Key

(* How a request comes to hold a clone, a snapshot or an answer.           *)
LEMMA Enters ==
  ASSUME Types, PhaseInv, NEW q \in Requests, [Next]_vars
  PROVE  /\ pc'[q] = "store" => (pc[q] = "store" /\ Kept(q)) \/ RecordLoad(q)
         /\ pc'[q] \in SnapPlaces
              => LoadLibrary(q) \/ (pc[q] \in SnapPlaces /\ snap'[q] = snap[q])
         /\ PastExact(q)' => \/ ExactMatch(q)
                             \/ /\ PastExact(q) /\ route'[q] = route[q]
                                /\ answer'[q] = answer[q] \/ answer[q] = <<"none", NoAnswer>>
<1>. USE DEF SnapPlaces, PastExact
<1>0. /\ pc \in [Requests \cup Admins -> Places]
      /\ rmode \in [Requests -> Modes \cup {NoMode}]
      /\ answer \in [Requests -> Outcomes \X (Requests \cup {NoAnswer})]
      /\ snap \in [Requests -> Library]
  BY RequestDomains
<1>1. CASE Kept(q)
  BY <1>1 DEF Kept
<1>2. CASE Arrive(q)
  <2>1. CASE ReadMode(q) \/ LoadLibrary(q)
    BY <1>0, <2>1 DEF ReadMode, LoadLibrary, Goto
  <2>2. CASE BindRoute(q)
    BY <1>0, <2>2 DEF BindRoute, Goto, FirstPhase
  <2>3. CASE Unavailable(q)
    BY <1>0, <2>3 DEF PhaseInv, Unavailable, Goto
  <2>. QED BY <1>2, <2>1, <2>2, <2>3 DEF Arrive
<1>3. CASE Chaos(q)
  <2>1. CASE StepMarkov(q)
    BY <1>0, <2>1 DEF StepMarkov, Goto, FirstPhase
  <2>2. CASE DrawUniform(q) \/ InjectNone(q)
    BY <1>0, <2>2 DEF DrawUniform, InjectNone, Goto, FirstPhase
  <2>3. CASE InjectError(q)
    BY <1>0, <2>3 DEF InjectError, Goto, Reply
  <2>. QED BY <1>3, <2>1, <2>2, <2>3 DEF Chaos
<1>4. CASE Mock(q)
  <2>. USE DEF Goto, Reply, PhaseInv, Unanswered, MockPlaces
  <2>1. CASE ExactMatch(q)
    BY <1>0, <2>1 DEF ExactMatch
  <2>2. CASE SequenceMatch(q)
    BY <1>0, <2>2 DEF SequenceMatch
  <2>3. CASE ResourceLookup(q)
    BY <1>0, <2>3 DEF ResourceLookup
  <2>4. CASE TransitionMatch(q)
    BY <1>0, <2>4 DEF TransitionMatch
  <2>5. CASE SmartSwap(q) \/ TotalMiss(q)
    BY <1>0, <2>5 DEF SmartSwap, TotalMiss
  <2>6. CASE PeekServed(q) \/ InsertServed(q)
    BY <1>0, <2>6 DEF PeekServed, Peek, InsertServed, InsertSeen
  <2>. QED BY <1>4, <2>1, <2>2, <2>3, <2>4, <2>5, <2>6 DEF Mock
<1>5. CASE Learn(q)
  <2>. USE DEF Goto, Reply, PhaseInv, LearnPlaces
  <2>1. CASE Forward(q) \/ Passthrough(q) \/ ForwardFail(q)
    BY <1>0, <2>1 DEF Forward, Passthrough, ForwardFail
  <2>2. CASE PeekProxied(q) \/ InsertProxied(q)
    BY <1>0, <2>2 DEF PeekProxied, Peek, InsertProxied, InsertSeen
  <2>3. CASE RecordLoad(q) \/ RecordStore(q)
    BY <1>0, <2>3 DEF RecordLoad, RecordStore
  <2>4. CASE \E x \in Resources : Capture(q, x)
    BY <1>1, <2>4 DEF Capture, Kept
  <2>. QED BY <1>5, <2>1, <2>2, <2>3, <2>4 DEF Learn
<1>6. CASE Disconnect(q)
  BY <1>0, <1>6 DEF Disconnect, Goto
<1>7. CASE UNCHANGED vars
  BY <1>1, <1>7 DEF vars, Kept
<1>. QED BY <1>1, <1>2, <1>3, <1>4, <1>5, <1>6, <1>7, OthersKept, AdminKept DEF Next

LEMMA KnownStays ==
  ASSUME Types, StoredInv, [Next]_vars, NEW q \in Requests,
         known'[q] # known[q]
  PROVE  LoadLibrary(q) \/ Disconnect(q)
BY HistoryWriters DEF StoredInv, LoadLibrary, Disconnect

-----------------------------------------------------------------------------
(* The recordings are replayed in the order they were made.                *)
LEMMA ReplayInit == Init => ReplayInv
<1>. SUFFICES ASSUME Init PROVE ReplayInv
  OBVIOUS
<1>1. HoldsLast(live, Len(stored), stored, route, asked)
  BY HoldsEmpty DEF Init
<1>. QED BY <1>1 DEF Init, ReplayInv, SnapPlaces, PastExact

LEMMA LiveStep ==
  ASSUME Types, StoredInv, ReplayInv, ~overlapped, [Next]_vars
  PROVE  HoldsLast(live, Len(stored), stored, route, asked)'
<1>1. HoldsLast(live, Len(stored), stored, route, asked) /\ asked' = asked
  BY DoneStays DEF ReplayInv
<1>2. CASE stored' = stored /\ live' = live
  <2>1. Len(stored) \in Nat
    BY DEF StoredInv
  <2>. QED BY <1>1, <1>2, <2>1, HistoryStays, HoldsSame
<1>3. ASSUME NEW r \in Requests, RecordStore(r)
      PROVE  HoldsLast(live, Len(stored), stored, route, asked)'
  <2>1. /\ Service(r) \in Services /\ Key(r) \in Keys /\ live \in Library
        /\ stored \in Seq(Requests)
    BY RequestFields DEF Types, SharedTypes, StoredInv
  <2>2. /\ rsnap[r] = live /\ route' = route
        /\ live' = Insert(live, Service(r), Key(r), [by |-> r, body |-> asked[r].body])
        /\ stored' = Append(stored, r)
    BY <1>3 DEF RecordStore, ReplayInv
  <2>3. Len(stored') = Len(stored) + 1
    BY <2>1, <2>2
  <2>. QED BY <1>1, <2>1, <2>2, <2>3, HoldsInsert DEF Service, Key
<1>. QED BY <1>2, <1>3, HistoryWriters

LEMMA CloneStep ==
  ASSUME Types, PhaseInv, StoredInv, ReplayInv, ~overlapped, ~overlapped', [Next]_vars
  PROVE  /\ \A q \in Requests : pc'[q] = "store" => rsnap'[q] = live'
         /\ \A q, r \in Requests : pc'[q] = "store" /\ pc'[r] = "store" => q = r
<1>1. CASE \E r \in Requests : RecordLoad(r)
  <2>1. PICK r \in Requests : RecordLoad(r)
    BY <1>1
  <2>2. \A q \in Requests : pc[q] # "store"
    BY <2>1 DEF RecordLoad
  <2>3. \A q \in Requests : pc'[q] = "store" => q = r
    BY <2>1, <2>2, RequestDomains DEF RecordLoad, Goto
  <2>4. rsnap'[r] = live'
    BY <2>1, RequestDomains DEF RecordLoad
  <2>. QED BY <2>3, <2>4
<1>2. CASE ~ \E r \in Requests : RecordLoad(r)
  <2>1. \A q \in Requests : pc'[q] = "store" => pc[q] = "store" /\ rsnap'[q] = rsnap[q]
    BY <1>2, Enters DEF Kept
  <2>2. ASSUME NEW q \in Requests, pc'[q] = "store" PROVE live' = live
    <3>1. \A r \in Requests : RecordStore(r) => pc'[r] = "done" /\ r = q
      BY <2>1, <2>2, RequestDomains DEF ReplayInv, RecordStore, Goto
    <3>. QED BY <2>2, <3>1, HistoryWriters
  <2>. QED BY <2>1, <2>2 DEF ReplayInv
<1>. QED BY <1>1, <1>2

LEMMA SnapStep ==
  ASSUME Types, PhaseInv, StoredInv, ReplayInv, ~overlapped, [Next]_vars, NEW q \in Requests,
         pc'[q] \in SnapPlaces
  PROVE  HoldsLast(snap[q], known[q], stored, route, asked)'
<1>0. Len(stored) \in Nat /\ known[q] \in Nat /\ known[q] <= Len(stored) /\ asked' = asked
  BY DoneStays DEF StoredInv
<1>1. CASE LoadLibrary(q)
  <2>1. snap'[q] = live /\ known'[q] = Len(stored) /\ stored' = stored
    BY <1>1, RequestDomains DEF LoadLibrary, StoredInv
  <2>2. HoldsLast(live, Len(stored), stored, route, asked)
    BY DEF ReplayInv
  <2>. QED BY <1>0, <2>1, <2>2, HistoryStays, HoldsSame
<1>2. CASE ~ LoadLibrary(q)
  <2>1. pc[q] \in SnapPlaces /\ snap'[q] = snap[q]
    BY <1>2, Enters
  <2>2. known'[q] = known[q]
    BY <1>2, KnownStays, RequestDomains DEF Disconnect, Goto, SnapPlaces
  <2>3. HoldsLast(snap[q], known[q], stored, route, asked)
    BY <2>1 DEF ReplayInv
  <2>4. \A i \in 1..known[q] : i \in 1..Len(stored)
    BY <1>0
  <2>. QED BY <1>0, <2>1, <2>2, <2>3, <2>4, HistoryStays, HoldsSame
<1>. QED BY <1>1, <1>2

(* The exact match finds the last recording its snapshot holds.            *)
LEMMA ExactFindsLast ==
  ASSUME Types, StoredInv, ReplayInv, ~overlapped, NEW r \in Requests, ExactMatch(r),
         NEW i, Latest(EarlierRecordings(r), i), asked[stored[i]].body = asked[r].body
  PROVE  answer'[r] = <<"exact", stored[i]>>
<1>1. Key(r) \in Keys /\ Service(r) \in Services
  BY RequestFields DEF Types
<1>2. Records(known[r], stored, route, asked, Service(r), Key(r)) = EarlierRecordings(r)
  BY DEF Records, EarlierRecordings, Service, Key
<1>3. HoldsLast(snap[r], known[r], stored, route, asked)
  BY DEF ReplayInv, SnapPlaces, ExactMatch
<1>4. PICK j \in 1..known[r] :
        /\ Latest(EarlierRecordings(r), j)
        /\ snap[r][Service(r)][Key(r)] = [by |-> stored[j], body |-> asked[stored[j]].body]
  BY <1>1, <1>2, <1>3 DEF HoldsLast, Latest
<1>5. i \in 1..known[r] /\ i = j
  BY <1>4 DEF Latest, EarlierRecordings
<1>6. Found(r) = [by |-> stored[i], body |-> asked[r].body]
  BY <1>4, <1>5 DEF Found, FindExact
<1>7. Found(r) # NoEntry
  <2>1. i \in DOMAIN stored /\ stored[i] \in Requests
    BY <1>5 DEF StoredInv
  <2>2. Found(r) \in Entries
    BY <1>6, <2>1, RequestFields, HandlerAssumption DEF Types, Recording
  <2>. QED BY <2>2, NoEntryAssumption
<1>. QED BY <1>6, <1>7, RequestDomains DEF ExactMatch, Reply

LEMMA AnswerStep ==
  ASSUME Types, PhaseInv, StoredInv, ReplayInv, ~overlapped, [Next]_vars, NEW q \in Requests,
         PastExact(q)'
  PROVE  AnsweredByLast(q)'
<1>0. known'[q] = known[q]
  BY KnownStays, RequestDomains DEF LoadLibrary, Disconnect, Goto, PastExact
<1>1. route'[q] = route[q]
  BY Enters DEF ExactMatch
<1>2. /\ EarlierRecordings(q)' = EarlierRecordings(q) /\ asked' = asked
      /\ \A i \in EarlierRecordings(q) : i \in 1..Len(stored)
  BY <1>0, <1>1, EarlierStays, DoneStays
<1>3. \A i \in EarlierRecordings(q) : stored'[i] = stored[i]
  BY <1>2, HistoryStays
<1>4. SUFFICES ASSUME NEW i, Latest(EarlierRecordings(q), i),
                      asked[stored[i]].body = asked[q].body
               PROVE  answer'[q] = <<"exact", stored[i]>>
  BY <1>2, <1>3 DEF AnsweredByLast, Latest
<1>5. CASE ExactMatch(q)
  BY <1>4, <1>5, ExactFindsLast
<1>6. CASE ~ ExactMatch(q)
  <2>1. /\ PastExact(q)
        /\ answer'[q] = answer[q] \/ answer[q] = <<"none", NoAnswer>>
    BY <1>6, Enters
  <2>2. answer[q] = <<"exact", stored[i]>>
    BY <1>4, <2>1 DEF ReplayInv, AnsweredByLast, Latest
  <2>. QED BY <2>1, <2>2
<1>. QED BY <1>5, <1>6

LEMMA ReplayStep ==
  Types /\ PhaseInv /\ StoredInv /\ ReplayInv /\ [Next]_vars => ReplayInv'
<1>. SUFFICES ASSUME Types, PhaseInv, StoredInv, ReplayInv, [Next]_vars, ~overlapped'
              PROVE  ReplayInv'
  BY DEF ReplayInv
<1>1. ~overlapped
  BY HistoryWriters DEF RecordLoad
<1>. QED BY <1>1, LiveStep, CloneStep, SnapStep, AnswerStep DEF ReplayInv

(* ARCHITECTURE.md:57-61: a request in MOCK mode that repeats the last     *)
(* recording made before its snapshot is answered with that recording,     *)
(* unless an error is injected, as long as no two recordings overlapped:   *)
(* whatever the routes, the mode, the sequence, the captured resources and *)
(* any number of other requests do meanwhile.                              *)
THEOREM ReplaysLast == Spec => []ReplaysLastRecording
<1>. DEFINE Inv == Types /\ PhaseInv /\ StoredInv /\ ReplayInv
<1>1. Init => Inv
  BY TypesInit, PhaseInit, StoredInit, ReplayInit
<1>2. Inv /\ [Next]_vars => Inv'
  BY TypesStep, PhaseStep, StoredStep, ReplayStep
<1>3. Inv => ReplaysLastRecording
  <2>. SUFFICES ASSUME Inv, NEW r \in Requests, rmode[r] = "MOCK",
                       EarlierRecordings(r) # {}, ~overlapped,
                       answer[r][1] \notin {"none", "chaos"}
                PROVE  LET last == CHOOSE i \in EarlierRecordings(r) :
                                     \A j \in EarlierRecordings(r) : j <= i
                       IN  asked[stored[last]].body = asked[r].body
                             => answer[r] = <<"exact", stored[last]>>
    BY DEF ReplaysLastRecording
  <2>1. PastExact(r)
    BY RequestFields DEF Types, PhaseInv, PastExact, Places, Unanswered, LearnPlaces
  <2>2. known[r] \in Nat /\ EarlierRecordings(r) \subseteq 1..known[r]
    BY DEF StoredInv, EarlierRecordings
  <2>3. \E i \in EarlierRecordings(r) : \A j \in EarlierRecordings(r) : j <= i
    BY <2>2, GreatestNat
  <2>. DEFINE last == CHOOSE i \in EarlierRecordings(r) :
                        \A j \in EarlierRecordings(r) : j <= i
  <2>4. Latest(EarlierRecordings(r), last)
    BY <2>3 DEF Latest
  <2>. HIDE DEF last
  <2>5. asked[stored[last]].body = asked[r].body => answer[r] = <<"exact", stored[last]>>
    BY <2>1, <2>4 DEF ReplayInv, AnsweredByLast, Latest
  <2>. QED BY <2>5 DEF last
<1>. QED BY <1>1, <1>2, <1>3, PTL DEF Spec

-----------------------------------------------------------------------------
(* A milestone is counted once per service.                                *)

(* The services of the requests in a set are no more than its requests.    *)
LEMMA ServicesOf ==
  ASSUME NEW R, R \subseteq Requests
  PROVE  LET T == {Service(r) : r \in R}
         IN  /\ IsFiniteSet(R) /\ Cardinality(R) <= Cardinality(Requests)
             /\ IsFiniteSet(T) /\ Cardinality(T) <= Cardinality(Requests)
             /\ Cardinality(T) \in Nat
<1>. DEFINE T == {Service(r) : r \in R}
            f == [r \in R |-> Service(r)]
<1>1. IsFiniteSet(Requests)
  BY HandlerAssumption
<1>2. IsFiniteSet(R) /\ Cardinality(R) <= Cardinality(Requests)
  BY <1>1, FS_Subset
<1>3. f \in Surjection(R, T)
  BY DEF Surjection
<1>4. IsFiniteSet(T) /\ Cardinality(T) <= Cardinality(R)
  <2>. HIDE DEF f, T
  <2>. QED BY <1>2, <1>3, FS_Surjection
<1>5. Cardinality(R) \in Nat /\ Cardinality(T) \in Nat /\ Cardinality(Requests) \in Nat
  BY <1>1, <1>2, <1>4, FS_CardinalityType
<1>. QED BY <1>2, <1>4, <1>5

LEMMA MilestoneInit == Init => MilestoneInv
<1>. SUFFICES ASSUME Init PROVE MilestoneInv
  OBVIOUS
<1>1. \A set \in {"proxied", "served"} : seen[set] = {} /\ counts[set] = 0
  BY DEF Init
<1>2. {q \in Requests : Past(q)} = {}
  BY DEF Init, Past, Served
<1>. QED BY <1>1, <1>2, FS_EmptySet DEF MilestoneInv

(* An insertion counts a service that was not in the set.                  *)
LEMMA InsertCounts ==
  ASSUME Types, MilestoneInv, NEW r \in Requests, NEW set \in {"proxied", "served"},
         NEW place, NEW after, InsertSeen(r, place, set, after)
  PROVE  /\ \A t \in {"proxied", "served"} :
              IsFiniteSet(seen'[t]) /\ counts'[t] = Cardinality(seen'[t])
         /\ seen' = [seen EXCEPT ![set] = seen[set] \cup {Service(r)}]
<1>1. /\ seen' = [seen EXCEPT ![set] = seen[set] \cup {Service(r)}]
      /\ counts' = [counts EXCEPT ![set] =
                      IF Service(r) \in seen[set] THEN counts[set] ELSE counts[set] + 1]
  BY DEF InsertSeen
<1>2. /\ seen \in [{"proxied", "served"} -> SUBSET Services]
      /\ counts \in [{"proxied", "served", "recorded"} -> Nat]
  BY DEF Types, SharedTypes
<1>3. /\ IsFiniteSet(seen[set] \cup {Service(r)})
      /\ Cardinality(seen[set] \cup {Service(r)})
           = IF Service(r) \in seen[set] THEN counts[set] ELSE counts[set] + 1
  <2>1. IsFiniteSet(seen[set]) /\ counts[set] = Cardinality(seen[set])
    BY DEF MilestoneInv
  <2>. QED BY <2>1, FS_AddElement
<1>4. \A t \in {"proxied", "served"} :
        IF t = set THEN /\ seen'[t] = seen[set] \cup {Service(r)}
                        /\ counts'[t] = IF Service(r) \in seen[set] THEN counts[set] ELSE counts[set] + 1
                   ELSE seen'[t] = seen[t] /\ counts'[t] = counts[t]
  BY <1>1, <1>2
<1>. QED BY <1>1, <1>3, <1>4 DEF MilestoneInv

(* Where a request is counted, and that it stays so.                       *)
LEMMA Counted ==
  ASSUME Types, PhaseInv, NEW q \in Requests, [Next]_vars
  PROVE  /\ Past(q) => Past(q)' /\ route'[q] = route[q]
         /\ Past(q)' => \/ Past(q) \/ InsertServed(q)
                        \/ PeekServed(q) /\ Service(q) \in seen["served"]
         /\ pc[q] \in {"record", "store", "done"} =>
              /\ pc'[q] \in {"record", "store", "done"}
              /\ rmode'[q] = rmode[q] /\ route'[q] = route[q]
         /\ Sequenced(q) => Sequenced(q)'
         /\ Sequenced(q)' => Sequenced(q) \/ (SequenceMatch(q) /\ Key(q) \in Scripted)
         /\ Recorded(q) => Recorded(q)'
         /\ Recorded(q)' => Recorded(q) \/ RecordLoad(q)
<1>. USE DEF Past, Served, Sequenced, Recorded
<1>0. /\ pc \in [Requests \cup Admins -> Places]
      /\ rmode \in [Requests -> Modes \cup {NoMode}]
      /\ answer \in [Requests -> Outcomes \X (Requests \cup {NoAnswer})]
      /\ route \in [Requests -> Route \cup {Unrouted}]
  BY RequestDomains
<1>1. CASE Kept(q)
  BY <1>1 DEF Kept
<1>2. CASE Arrive(q)
  <2>. USE DEF Goto, Reply, PhaseInv, Unanswered
  <2>1. CASE ReadMode(q) \/ LoadLibrary(q)
    BY <1>0, <2>1 DEF ReadMode, LoadLibrary
  <2>2. CASE BindRoute(q)
    BY <1>0, <2>2 DEF BindRoute, FirstPhase
  <2>3. CASE Unavailable(q)
    BY <1>0, <2>3 DEF Unavailable
  <2>. QED BY <1>2, <2>1, <2>2, <2>3 DEF Arrive
<1>3. CASE Chaos(q)
  <2>. USE DEF Goto, Reply, PhaseInv, Unanswered
  <2>1. CASE StepMarkov(q)
    BY <1>0, <2>1 DEF StepMarkov, FirstPhase
  <2>2. CASE DrawUniform(q) \/ InjectNone(q)
    BY <1>0, <2>2 DEF DrawUniform, InjectNone, FirstPhase
  <2>3. CASE InjectError(q)
    BY <1>0, <2>3 DEF InjectError
  <2>. QED BY <1>3, <2>1, <2>2, <2>3 DEF Chaos
<1>4. CASE Mock(q)
  <2>. USE DEF Goto, Reply, PhaseInv, Unanswered, MockPlaces
  <2>1. CASE ExactMatch(q)
    BY <1>0, <2>1 DEF ExactMatch
  <2>2. CASE SequenceMatch(q)
    BY <1>0, <2>2 DEF SequenceMatch
  <2>3. CASE ResourceLookup(q)
    BY <1>0, <2>3 DEF ResourceLookup
  <2>4. CASE TransitionMatch(q)
    BY <1>0, <2>4 DEF TransitionMatch
  <2>5. CASE SmartSwap(q) \/ TotalMiss(q)
    BY <1>0, <2>5 DEF SmartSwap, TotalMiss
  <2>6. CASE PeekServed(q)
    BY <1>0, <2>6 DEF PeekServed, Peek
  <2>7. CASE InsertServed(q)
    BY <1>0, <2>7 DEF InsertServed, InsertSeen
  <2>. QED BY <1>4, <2>1, <2>2, <2>3, <2>4, <2>5, <2>6, <2>7 DEF Mock
<1>5. CASE Learn(q)
  <2>. USE DEF Goto, Reply, PhaseInv, Unanswered, LearnPlaces
  <2>1. CASE Forward(q) \/ Passthrough(q) \/ ForwardFail(q)
    BY <1>0, <2>1 DEF Forward, Passthrough, ForwardFail
  <2>2. CASE PeekProxied(q) \/ InsertProxied(q)
    BY <1>0, <2>2 DEF PeekProxied, Peek, InsertProxied, InsertSeen
  <2>3. CASE RecordLoad(q) \/ RecordStore(q)
    BY <1>0, <2>3 DEF RecordLoad, RecordStore
  <2>4. CASE \E x \in Resources : Capture(q, x)
    BY <1>1, <2>4 DEF Capture, Kept
  <2>. QED BY <1>5, <2>1, <2>2, <2>3, <2>4 DEF Learn
<1>6. CASE Disconnect(q)
  BY <1>0, <1>6 DEF Disconnect, Goto, PhaseInv, Unanswered
<1>7. CASE UNCHANGED vars
  BY <1>1, <1>7 DEF vars, Kept
<1>. QED BY <1>1, <1>2, <1>3, <1>4, <1>5, <1>6, <1>7, OthersKept, AdminKept DEF Next

LEMMA CountWriters ==
  ASSUME Types, [Next]_vars
  PROVE  /\ \/ /\ seen' = seen
               /\ \A set \in {"proxied", "served"} : counts'[set] = counts[set]
            \/ \E r \in Requests : InsertServed(r) \/ InsertProxied(r)
         /\ counts'["recorded"] = counts["recorded"] \/ \E r \in Requests : RecordLoad(r)
         /\ \/ cursor' = cursor
            \/ \E r \in Requests : SequenceMatch(r) /\ Key(r) \in Scripted
<1>0. counts \in [{"proxied", "served", "recorded"} -> Nat]
  BY DEF Types, SharedTypes
<1>1. CASE UNCHANGED vars
  BY <1>1 DEF vars
<1>2. CASE \E r \in Requests : Arrive(r) \/ Chaos(r)
  BY <1>2 DEF Arrive, ReadMode, LoadLibrary, BindRoute, Unavailable, Chaos, StepMarkov,
              DrawUniform, InjectError, InjectNone
<1>3. ASSUME NEW r \in Requests, Mock(r)
      PROVE  /\ (seen' = seen /\ counts' = counts) \/ InsertServed(r)
             /\ counts'["recorded"] = counts["recorded"]
             /\ cursor' = cursor \/ (SequenceMatch(r) /\ Key(r) \in Scripted)
  <2>1. CASE InsertServed(r)
    BY <1>0, <2>1 DEF InsertServed, InsertSeen
  <2>2. CASE SequenceMatch(r)
    BY <2>2 DEF SequenceMatch
  <2>. QED BY <1>3, <2>1, <2>2 DEF Mock, ExactMatch, ResourceLookup, TransitionMatch,
                SmartSwap, TotalMiss, PeekServed, Peek
<1>4. ASSUME NEW r \in Requests, Learn(r)
      PROVE  /\ \/ /\ seen' = seen
                   /\ \A set \in {"proxied", "served"} : counts'[set] = counts[set]
                \/ InsertProxied(r)
             /\ counts'["recorded"] = counts["recorded"] \/ RecordLoad(r)
             /\ cursor' = cursor
  <2>1. CASE InsertProxied(r)
    BY <1>0, <2>1 DEF InsertProxied, InsertSeen
  <2>2. CASE RecordLoad(r)
    BY <1>0, <2>2 DEF RecordLoad
  <2>. QED BY <1>4, <2>1, <2>2 DEF Learn, Forward, Passthrough, ForwardFail, PeekProxied,
              Peek, RecordStore, Capture
<1>5. CASE \E r \in Requests : Disconnect(r)
  BY <1>5 DEF Disconnect
<1>6. CASE \E a \in Admins : \/ \E m \in Modes : SetMode(a, m)
                             \/ \E table \in Tables : SetUpstreams(a, table)
  BY <1>6 DEF SetMode, SetUpstreams
<1>. QED BY <1>1, <1>2, <1>3, <1>4, <1>5, <1>6 DEF Next

LEMMA MilestoneStep ==
  Types /\ PhaseInv /\ MilestoneInv /\ [Next]_vars => MilestoneInv'
<1>. SUFFICES ASSUME Types, PhaseInv, MilestoneInv, [Next]_vars PROVE MilestoneInv'
  OBVIOUS
<1>0. seen \in [{"proxied", "served"} -> SUBSET Services]
  BY DEF Types, SharedTypes
<1>1. \A set \in {"proxied", "served"} :
        IsFiniteSet(seen'[set]) /\ counts'[set] = Cardinality(seen'[set])
  BY CountWriters, InsertCounts DEF MilestoneInv, InsertServed, InsertProxied
<1>2. /\ \A r \in Requests : InsertServed(r) =>
           seen' = [seen EXCEPT !["served"] = seen["served"] \cup {Service(r)}]
      /\ \A r \in Requests : InsertProxied(r) =>
           seen' = [seen EXCEPT !["proxied"] = seen["proxied"] \cup {Service(r)}]
  BY DEF InsertServed, InsertProxied, InsertSeen
<1>3. \A s : s \in seen'["served"] <=>
        s \in seen["served"] \/ \E r \in Requests : InsertServed(r) /\ s = Service(r)
  BY <1>0, <1>2, CountWriters DEF InsertServed, InsertProxied
<1>4. \A s : s \in seen'["proxied"] =>
        s \in seen["proxied"] \/ \E r \in Requests : InsertProxied(r) /\ s = Service(r)
  BY <1>0, <1>2, CountWriters
<1>5. seen'["served"] = {Service(r) : r \in {q \in Requests : Past(q)}}'
  <2>1. \A s \in seen'["served"] : \E q \in Requests : Past(q)' /\ Service(q)' = s
    <3>1. \A q \in Requests : InsertServed(q) => Past(q)' /\ Service(q)' = Service(q)
      BY RequestDomains
      DEF InsertServed, InsertSeen, Goto, Past, Served, Service, PhaseInv
    <3>2. \A s \in seen["served"] : \E q \in Requests : Past(q) /\ Service(q) = s
      BY DEF MilestoneInv
    <3>. QED BY <1>3, <3>1, <3>2, Counted DEF Service
  <2>2. \A q \in Requests : Past(q)' => Service(q)' \in seen'["served"]
    <3>1. \A q \in Requests : Past(q) => Service(q) \in seen["served"]
      BY DEF MilestoneInv
    <3>2. \A q \in Requests : PeekServed(q) \/ InsertServed(q) => Service(q)' = Service(q)
      BY DEF PeekServed, Peek, InsertServed, InsertSeen, Service
    <3>. QED BY <1>3, <3>1, <3>2, Counted DEF Service
  <2>. QED BY <2>1, <2>2
<1>6. ASSUME NEW s \in seen'["proxied"]
      PROVE  \E q \in Requests : /\ rmode'[q] = "LEARN" /\ Service(q)' = s
                                 /\ pc'[q] \in {"record", "store", "done"}
  <2>1. CASE s \in seen["proxied"]
    BY <2>1, Counted DEF MilestoneInv, Service
  <2>2. ASSUME NEW r \in Requests, InsertProxied(r), s = Service(r)
        PROVE  /\ rmode'[r] = "LEARN" /\ Service(r)' = s
               /\ pc'[r] \in {"record", "store", "done"}
    BY <2>2, RequestDomains DEF InsertProxied, InsertSeen, Goto, Service, PhaseInv, LearnPlaces
  <2>. QED BY <1>4, <2>1, <2>2
<1>. QED BY <1>1, <1>5, <1>6 DEF MilestoneInv

(* main.rs:1231-1237: a milestone is counted once per service, however     *)
(* many requests look for the service at once.                             *)
THEOREM MilestonesOnce == Spec => []MilestoneOncePerService
<1>. DEFINE Inv == Types /\ PhaseInv /\ MilestoneInv
<1>1. Init => Inv
  BY TypesInit, PhaseInit, MilestoneInit
<1>2. Inv /\ [Next]_vars => Inv'
  BY TypesStep, PhaseStep, MilestoneStep
<1>3. Inv => MilestoneOncePerService
  <2>. SUFFICES ASSUME Inv PROVE MilestoneOncePerService
    OBVIOUS
  <2>1. ASSUME \A r \in Requests : pc[r] \notin {"served", "insertServed"}
        PROVE  counts["served"] = Cardinality({Service(r) : r \in {q \in Requests : Served(q)}})
    <3>1. {q \in Requests : Past(q)} = {q \in Requests : Served(q)}
      BY <2>1 DEF Past
    <3>. QED BY <3>1 DEF MilestoneInv
  <2>2. counts["proxied"] <= Cardinality({Service(r) : r \in {q \in Requests : rmode[q] = "LEARN"}})
    <3>. DEFINE T == {Service(r) : r \in {q \in Requests : rmode[q] = "LEARN"}}
    <3>1. IsFiniteSet(T)
      BY ServicesOf
    <3>2. seen["proxied"] \subseteq T
      BY DEF MilestoneInv
    <3>. QED BY <3>1, <3>2, FS_Subset DEF MilestoneInv
  <2>. QED BY <2>1, <2>2 DEF MilestoneOncePerService
<1>. QED BY <1>1, <1>2, <1>3, PTL DEF Spec

-----------------------------------------------------------------------------
(* What is counted is bounded by the requests there are.                   *)
LEMMA CountInit == Init => CountInv
<1>. SUFFICES ASSUME Init PROVE CountInv
  OBVIOUS
<1>1. {r \in Requests : Sequenced(r)} = {} /\ {r \in Requests : Recorded(r)} = {}
  BY DEF Init, Sequenced, Recorded
<1>2. cursor = 0 /\ counts["recorded"] = 0
  BY DEF Init
<1>. QED BY <1>1, <1>2, FS_EmptySet DEF CountInv

LEMMA CountStep == Types /\ PhaseInv /\ CountInv /\ [Next]_vars => CountInv'
<1>. SUFFICES ASSUME Types, PhaseInv, CountInv, [Next]_vars PROVE CountInv'
  OBVIOUS
<1>. DEFINE S == {r \in Requests : Sequenced(r)}
            R == {r \in Requests : Recorded(r)}
<1>0. IsFiniteSet(S) /\ IsFiniteSet(R)
  BY HandlerAssumption, FS_Subset
<1>1. cursor' = Cardinality(S')
  <2>1. CASE \E r \in Requests : SequenceMatch(r) /\ Key(r) \in Scripted
    <3>1. PICK r \in Requests : SequenceMatch(r) /\ Key(r) \in Scripted
      BY <2>1
    <3>2. \A q \in Requests : SequenceMatch(q) => q = r
      BY <3>1, RequestDomains DEF SequenceMatch, Goto
    <3>3. r \notin S /\ r \in S' /\ cursor' = cursor + 1
      BY <3>1, RequestDomains DEF SequenceMatch, Reply, Sequenced, PhaseInv, Unanswered
    <3>4. S' = S \cup {r}
      BY <3>2, <3>3, Counted
    <3>. HIDE DEF S
    <3>5. cursor = Cardinality(S)
      BY DEF S, CountInv
    <3>6. Cardinality(S \cup {r}) = Cardinality(S) + 1
      BY <1>0, <3>3, FS_AddElement
    <3>. QED BY <3>3, <3>4, <3>5, <3>6
  <2>2. CASE ~ \E r \in Requests : SequenceMatch(r) /\ Key(r) \in Scripted
    <3>1. S' = S /\ cursor' = cursor
      BY <2>2, Counted, CountWriters
    <3>. QED BY <3>1 DEF CountInv
  <2>. QED BY <2>1, <2>2
<1>2. counts'["recorded"] = Cardinality(R')
  <2>1. CASE \E r \in Requests : RecordLoad(r)
    <3>1. PICK r \in Requests : RecordLoad(r)
      BY <2>1
    <3>2. \A q \in Requests : RecordLoad(q) => q = r
      BY <3>1, RequestDomains DEF RecordLoad, Goto
    <3>3. r \notin R /\ r \in R' /\ counts'["recorded"] = counts["recorded"] + 1
      BY <3>1, RequestDomains DEF RecordLoad, Goto, Recorded, Types, SharedTypes
    <3>4. R' = R \cup {r}
      BY <3>2, <3>3, Counted
    <3>. HIDE DEF R
    <3>5. counts["recorded"] = Cardinality(R)
      BY DEF R, CountInv
    <3>6. Cardinality(R \cup {r}) = Cardinality(R) + 1
      BY <1>0, <3>3, FS_AddElement
    <3>. QED BY <3>3, <3>4, <3>5, <3>6
  <2>2. CASE ~ \E r \in Requests : RecordLoad(r)
    <3>1. R' = R /\ counts'["recorded"] = counts["recorded"]
      BY <2>2, Counted, CountWriters
    <3>. QED BY <3>1 DEF CountInv
  <2>. QED BY <2>1, <2>2
<1>. QED BY <1>1, <1>2 DEF CountInv

(* Every variable keeps its type, and the sequence's cursor and the        *)
(* milestones never count more than the requests there are.                *)
THEOREM TypeCorrect == Spec => []TypeOK
<1>. DEFINE Inv == Types /\ PhaseInv /\ MilestoneInv /\ CountInv
<1>1. Init => Inv
  BY TypesInit, PhaseInit, MilestoneInit, CountInit
<1>2. Inv /\ [Next]_vars => Inv'
  BY TypesStep, PhaseStep, MilestoneStep, CountStep
<1>3. Inv => TypeOK
  <2>. SUFFICES ASSUME Inv PROVE TypeOK
    OBVIOUS
  <2>. DEFINE n == Cardinality(Requests)
  <2>1. n \in Nat
    BY HandlerAssumption, FS_CardinalityType
  <2>2. cursor \in 0..n /\ counts["recorded"] \in 0..n
    <3>. DEFINE S == {r \in Requests : Sequenced(r)}
                R == {r \in Requests : Recorded(r)}
    <3>1. Cardinality(S) <= n /\ Cardinality(R) <= n
      BY ServicesOf
    <3>2. cursor = Cardinality(S) /\ counts["recorded"] = Cardinality(R)
      BY DEF CountInv
    <3>3. cursor \in Nat /\ counts["recorded"] \in Nat
      BY DEF Types, SharedTypes
    <3>. HIDE DEF S, R, n
    <3>. QED BY <2>1, <3>1, <3>2, <3>3
  <2>3. counts["served"] \in 0..n
    <3>. DEFINE T == {Service(r) : r \in {q \in Requests : Past(q)}}
    <3>1. Cardinality(T) \in Nat /\ Cardinality(T) <= n
      BY ServicesOf
    <3>2. counts["served"] = Cardinality(T)
      BY DEF MilestoneInv
    <3>. HIDE DEF T, n
    <3>. QED BY <2>1, <3>1, <3>2
  <2>4. counts["proxied"] \in 0..n
    <3>. DEFINE T == {Service(r) : r \in {q \in Requests : rmode[q] = "LEARN"}}
    <3>1. IsFiniteSet(T) /\ Cardinality(T) <= n /\ Cardinality(T) \in Nat
      BY ServicesOf
    <3>2. seen["proxied"] \subseteq T
      BY DEF MilestoneInv
    <3>3. Cardinality(seen["proxied"]) <= Cardinality(T)
      BY <3>1, <3>2, FS_Subset
    <3>. QED BY <2>1, <3>1, <3>3 DEF MilestoneInv, Types, SharedTypes
  <2>5. counts \in [{"proxied", "served", "recorded"} -> 0..n]
    BY <2>2, <2>3, <2>4 DEF Types, SharedTypes
  <2>. QED BY <2>2, <2>5 DEF TypeOK, Types, SharedTypes, RequestTypes, Places, Outcomes
<1>. QED BY <1>1, <1>2, <1>3, PTL DEF Spec
=============================================================================
