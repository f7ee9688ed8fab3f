----------------------------- MODULE RequestLogs -----------------------------
(***************************************************************************)
(* What a LEARN request leaves behind once its upstream has answered: a    *)
(* wide event and a line of the traffic log of its service, each with an   *)
(* id made of the clock and of a counter, and each written by a task of    *)
(* its own (main.rs, wide_events.rs, io.rs, telemetry.rs).                 *)
(*                                                                         *)
(* The clock is in milliseconds and is not set back, and a process that    *)
(* was restarted serves a millisecond later at the earliest.               *)
(***************************************************************************)
EXTENDS WorkloadClass, Integers, Sequences

CONSTANTS
  Requests,      \* each is recorded once, by one process or another
  Services, NoService,
  Profiles,      \* requests: service or NoService, headers, User-Agent
  Observability, \* ENABLE_OBSERVABILITY
  Samples,       \* observations kept between drains: 1024
  DiskFaults,    \* whether a write may fail
  MaxClock, MaxCrashes   \* bounds

Kinds == {"event", "traffic"}

ASSUME LogsAssumption ==
  /\ NoService \notin Services
  /\ Profiles # {}
  /\ Profiles \subseteq
       [service: Services \cup {NoService}, headers: SUBSET Headers, ua: SUBSET Texts]
  /\ {Observability, DiskFaults} \subseteq BOOLEAN
  /\ {Samples, MaxClock, MaxCrashes} \subseteq Nat

VARIABLES
  clock, crashes,
  counter,   \* next_id's COUNTER and AppState.entry_counter, by kind
  observed,  \* length of the bucket MOCK_FIDELITY_MS
  pc,        \* "waiting", "event", "observe", "traffic", "answered", "gone"
  profile, class,
  entryId,   \* id of the entry that goes to the library and its log
  seq,       \* by kind and request, the number drawn, or -1
  id,        \* the id made of it
  task,      \* "none", "spawned", "text", "written", "failed", "lost"
  traffic,   \* by service, traffic_<svc>.jsonl: lines and parts of lines
  events     \* wide_events.jsonl: texts of events, newlines and parts of texts

processVars == <<counter, observed, pc, profile, class, entryId, seq, id, task>>
fileVars == <<traffic, events>>
vars == <<clock, crashes, processVars, fileVars>>

(* The upstream has answered: the entry is made.  Its class was inferred   *)
(* from the request, if observability is on.                               *)
Record(r, p) ==
  /\ pc[r] = "waiting"
  /\ profile' = [profile EXCEPT ![r] = p]
  /\ class' = [class EXCEPT ![r] =
       IF Observability THEN InferWorkloadClass(p.headers, p.ua) ELSE "unknown"]
  /\ entryId' = [entryId EXCEPT ![r] = clock]
  /\ pc' = [pc EXCEPT ![r] = IF Observability THEN "event" ELSE "observe"]
  /\ UNCHANGED <<clock, crashes, counter, observed, seq, id, task, fileVars>>

(* counter.fetch_add(1).                                                   *)
TakeNumber(k, r) ==
  /\ pc[r] = k /\ seq[k][r] = -1
  /\ seq' = [seq EXCEPT ![k][r] = counter[k]]
  /\ counter' = [counter EXCEPT ![k] = @ + 1]
  /\ UNCHANGED <<clock, crashes, observed, pc, profile, class, entryId, id, task, fileVars>>

(* Variant for checking: the clock alone.                                  *)
ClockOnly(now, n) == <<now, 0>>

(* "{ts}_{seq}", and for an event "we_{ts}_{seq}".                         *)
MakeId(now, n) == <<now, n>>

(* The clock is read after the number is drawn; the append is spawned.     *)
Stamp(k, r) ==
  /\ pc[r] = k /\ seq[k][r] # -1
  /\ id' = [id EXCEPT ![k][r] = MakeId(clock, seq[k][r])]
  /\ task' = [task EXCEPT ![k][r] = "spawned"]
  /\ pc' = [pc EXCEPT ![r] = IF k = "event" THEN "observe" ELSE "answered"]
  /\ UNCHANGED <<clock, crashes, counter, observed, profile, class, entryId, seq, fileVars>>

(* Variant for checking: a request that was seen before is not logged.     *)
RoutedAndNew(r) ==
  /\ profile[r].service # NoService
  /\ \A q \in Requests \ {r} : pc[q] = "answered" => profile[q] # profile[r]

(* Traffic without a route is not recorded.                                *)
Routed(r) == profile[r].service # NoService

(* Variant for checking: the bucket is not capped.                         *)
ObserveAll(r) ==
  /\ pc[r] = "observe"
  /\ observed' = observed + 1
  /\ pc' = [pc EXCEPT ![r] = IF Routed(r) THEN "traffic" ELSE "answered"]
  /\ UNCHANGED <<clock, crashes, counter, profile, class, entryId, seq, id, task, fileVars>>

(* record_observation, whose bucket is full at Samples.                    *)
Observe(r) ==
  /\ pc[r] = "observe"
  /\ observed' = IF observed < Samples THEN observed + 1 ELSE observed
  /\ pc' = [pc EXCEPT ![r] = IF Routed(r) THEN "traffic" ELSE "answered"]
  /\ UNCHANGED <<clock, crashes, counter, profile, class, entryId, seq, id, task, fileVars>>

(* What a request appends to a file.                                       *)
Piece(k, r, p) == [piece |-> p, id |-> id[k][r], request |-> r]

(* append_to_traffic_log: line and newline in one write.                   *)
WriteLine(r) ==
  /\ task["traffic"][r] = "spawned"
  /\ traffic' = [traffic EXCEPT ![profile[r].service] =
                   Append(@, Piece("traffic", r, "line"))]
  /\ task' = [task EXCEPT !["traffic"][r] = "written"]
  /\ UNCHANGED <<clock, crashes, counter, observed, pc, profile, class, entryId, seq, id, events>>

(* wide_events::append: the text, and by a second write the newline.       *)
WriteText(r) ==
  /\ task["event"][r] = "spawned"
  /\ events' = Append(events, Piece("event", r, "text"))
  /\ task' = [task EXCEPT !["event"][r] = "text"]
  /\ UNCHANGED <<clock, crashes, counter, observed, pc, profile, class, entryId, seq, id, traffic>>

WriteNewline(r) ==
  /\ task["event"][r] = "text"
  /\ events' = Append(events, Piece("event", r, "newline"))
  /\ task' = [task EXCEPT !["event"][r] = "written"]
  /\ UNCHANGED <<clock, crashes, counter, observed, pc, profile, class, entryId, seq, id, traffic>>

(* The disk fills up within a write: a part of it is left in the file.     *)
CutShort(k, r) ==
  /\ task[k][r] = "spawned"
  /\ \/ /\ k = "traffic"
        /\ traffic' = [traffic EXCEPT ![profile[r].service] = Append(@, Piece(k, r, "part"))]
        /\ UNCHANGED events
     \/ /\ k = "event"
        /\ events' = Append(events, Piece(k, r, "part"))
        /\ UNCHANGED traffic

(* An open or a write fails; nothing is tried again, or taken back.        *)
WriteFails(k, r) ==
  /\ DiskFaults /\ task[k][r] \in {"spawned", "text"}
  /\ task' = [task EXCEPT ![k][r] = "failed"]
  /\ CutShort(k, r) \/ UNCHANGED fileVars
  /\ UNCHANGED <<clock, crashes, counter, observed, pc, profile, class, entryId, seq, id>>

Tick ==
  /\ clock < MaxClock /\ clock' = clock + 1
  /\ UNCHANGED <<crashes, processVars, fileVars>>

(* The process dies and another is started: counters begin anew, requests  *)
(* under way and tasks are gone.                                           *)
Crash ==
  /\ crashes < MaxCrashes /\ clock < MaxClock
  /\ crashes' = crashes + 1 /\ clock' = clock + 1
  /\ counter' = [k \in Kinds |-> 0] /\ observed' = 0
  /\ pc' = [r \in Requests |-> IF pc[r] \in {"waiting", "answered"} THEN pc[r] ELSE "gone"]
  /\ task' = [k \in Kinds |-> [r \in Requests |->
                IF task[k][r] \in {"spawned", "text"} THEN "lost" ELSE task[k][r]]]
  /\ UNCHANGED <<profile, class, entryId, seq, id, fileVars>>

-----------------------------------------------------------------------------
Init ==
  /\ clock = 0 /\ crashes = 0
  /\ counter = [k \in Kinds |-> 0] /\ observed = 0
  /\ pc = [r \in Requests |-> "waiting"]
  /\ profile = [r \in Requests |-> CHOOSE p \in Profiles : TRUE]
  /\ class = [r \in Requests |-> "unknown"] /\ entryId = [r \in Requests |-> -1]
  /\ seq = [k \in Kinds |-> [r \in Requests |-> -1]]
  /\ id = [k \in Kinds |-> [r \in Requests |-> <<-1, -1>>]]
  /\ task = [k \in Kinds |-> [r \in Requests |-> "none"]]
  /\ traffic = [s \in Services |-> <<>>] /\ events = <<>>

Handle(r) ==
  \/ \E k \in Kinds : TakeNumber(k, r) \/ Stamp(k, r)
  \/ Observe(r)

Write(r) == WriteLine(r) \/ WriteText(r) \/ WriteNewline(r)

Next ==
  \/ \E r \in Requests :
       \/ \E p \in Profiles : Record(r, p)
       \/ Handle(r) \/ Write(r)
       \/ \E k \in Kinds : WriteFails(k, r)
  \/ Tick \/ Crash

Spec == Init /\ [][Next]_vars

(* Handlers have no await here and tasks are scheduled.                    *)
FairSpec ==
  Spec /\ \A r \in Requests :
    WF_vars(Handle(r)) /\ WF_vars(WriteLine(r)) /\ WF_vars(WriteText(r) \/ WriteNewline(r))

(***************************************************************************)
(* Properties.                                                             *)
(***************************************************************************)
Stages == {"waiting", "event", "observe", "traffic", "answered", "gone"}
Ids == (Nat \cup {-1}) \X (Nat \cup {-1})

TypeOK ==
  /\ clock \in 0..MaxClock /\ crashes \in 0..MaxCrashes
  /\ counter \in [Kinds -> Nat] /\ observed \in 0..Samples
  /\ pc \in [Requests -> Stages] /\ profile \in [Requests -> Profiles]
  /\ class \in [Requests -> Classes] /\ entryId \in [Requests -> Nat \cup {-1}]
  /\ seq \in [Kinds -> [Requests -> Nat \cup {-1}]]
  /\ id \in [Kinds -> [Requests -> Ids]]
  /\ task \in [Kinds -> [Requests -> {"none", "spawned", "text", "written", "failed", "lost"}]]
  /\ traffic \in [Services -> Seq([piece: {"line", "part"}, id: Ids, request: Requests])]
  /\ events \in Seq([piece: {"text", "newline", "part"}, id: Ids, request: Requests])

(* No two lines of the traffic logs have the same id, nor two events,      *)
(* whichever requests and whichever processes they are of, although the    *)
(* counters begin anew with the process and the number and the clock are   *)
(* read one after the other (main.rs:213-214, wide_events.rs:135-136).     *)
TrafficIdsUnique ==
  \A s, t \in Services : \A i \in DOMAIN traffic[s], j \in DOMAIN traffic[t] :
    traffic[s][i].id = traffic[t][j].id => s = t /\ i = j

EventIdsUnique ==
  \A i, j \in DOMAIN events :
    events[i].piece = "text" /\ events[j].piece = "text" /\ events[i].id = events[j].id
      => i = j

IdsUnique == TrafficIdsUnique /\ EventIdsUnique

(* A request with more of the markers of a runner or an agent is never     *)
(* taken for something more human than one with fewer                      *)
(* (workload_class.rs:27-35).  A User-Agent must not have been empty.      *)
Rank(c) == CASE c = "unknown" -> 0 [] c = "human" -> 1 [] c = "agent" -> 2 [] c = "ci" -> 3

ClassMonotone ==
  Observability =>
    \A q, r \in Requests :
      /\ entryId[q] # -1 /\ entryId[r] # -1
      /\ profile[q].headers \subseteq profile[r].headers
      /\ profile[q].ua \subseteq profile[r].ua
      /\ profile[q].ua = {} => profile[r].ua = {}
      => Rank(class[q]) <= Rank(class[r])

Lines(r) == { i \in DOMAIN traffic[profile[r].service] :
                /\ traffic[profile[r].service][i].request = r
                /\ traffic[profile[r].service][i].piece = "line" }
Pieces(r, p) == { i \in DOMAIN events : events[i].request = r /\ events[i].piece = p }

(* Every recorded request of a service comes to have its line in that      *)
(* service's traffic log, exactly one, whether or not the like of it was   *)
(* seen before (main.rs:1894-1897), and its event the text and then the    *)
(* newline, exactly one of each, unless the process dies or a write fails. *)
(* (A part of a line that another request's failed write left before it    *)
(* keeps the line from parsing, not from being in the file.)               *)
Undone(r) == pc[r] = "gone" \/ \E k \in Kinds : task[k][r] \in {"failed", "lost"}
Done(r) ==
  /\ profile[r].service # NoService => \E i \in Lines(r) : Lines(r) = {i}
  /\ Observability => \E i, j \in DOMAIN events :
       i < j /\ Pieces(r, "text") = {i} /\ Pieces(r, "newline") = {j}

EveryRequestLogged ==
  \A r \in Requests : pc[r] \in {"event", "observe"} ~> Undone(r) \/ [](Done(r))

(* wide_events.rs:18: one event per line, as soon as its task is done.     *)
OneLinePerEvent ==
  \A i \in DOMAIN events :
    events[i].piece = "text" /\ task["event"][events[i].request] = "written"
      => /\ i = 1 \/ events[i - 1].piece = "newline"
         /\ i < Len(events) /\ events[i + 1].piece = "newline"

(* wide_events.rs:25: ids go up along the file.                            *)
EventsInOrder ==
  \A i, j \in DOMAIN events :
    i < j /\ events[i].piece = "text" /\ events[j].piece = "text"
      => LET a == events[i].id  b == events[j].id IN
         a[1] < b[1] \/ (a[1] = b[1] /\ a[2] < b[2])

(* main.rs:213-214: the ids of entries do not collide.                     *)
EntryIdsDistinct ==
  \A q, r \in Requests : q # r /\ entryId[q] # -1 => entryId[q] # entryId[r]

(* README.md:67: everything is recorded to the traffic log.                *)
RecordsEverything ==
  \A r \in Requests : pc[r] = "answered" => task["traffic"][r] # "none"

(* workload_class.rs:37: the explicit override wins over heuristics.       *)
OverrideWins ==
  Observability =>
    \A r \in Requests :
      entryId[r] # -1 /\ OverrideHeader \in profile[r].headers => class[r] = "agent"
=============================================================================
