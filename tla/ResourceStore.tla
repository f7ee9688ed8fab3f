--------------------------- MODULE ResourceStore ---------------------------
(***************************************************************************)
(* The captured resources of one service (resource_store.rs) and the       *)
(* handlers that use them: the capture a LEARN request spawns, the         *)
(* statechart transition a MOCK request applies, the JSONL log both append *)
(* to, and the replay that rebuilds the map at boot.  Services share       *)
(* neither a bucket nor a file, so one stands for all.                     *)
(*                                                                         *)
(* persist_jsonl writes the record and its newline with two system calls,  *)
(* so the log is kept as lines that can hold more than one record, or a    *)
(* part of one: such a line does not parse.                                *)
(***************************************************************************)
EXTENDS Statechart, Naturals, Sequences, FiniteSets, SequencesExt

CONSTANTS
  Resources,    \* (collection, id) pairs
  MachineOf,    \* the machine the collection's name binds, or NoMachine
  Captures,     \* LEARN requests that create a resource: POST or PUT, 2xx
  Transitions,  \* MOCK requests that ask for a transition: POST or PATCH
  UsedActions,  \* the actions they ask for
  DiskFaults,   \* TRUE iff a write or the read of the log may fail
  Disconnects,  \* TRUE iff clients may hang up: the handler is dropped
  MaxCrashes,   \* bound on the number of crashes
  NoResource

Ops == Captures \cup Transitions

ASSUME OpsAssumption ==
  /\ Captures \cap Transitions = {} /\ IsFiniteSet(Resources)
  /\ MachineOf \in [Resources -> Machines \cup {NoMachine}]
  /\ UsedActions \subseteq Actions
  /\ DiskFaults \in BOOLEAN /\ Disconnects \in BOOLEAN
  /\ MaxCrashes \in Nat
  /\ NoMachine \notin Machines /\ NoState \notin States

(* ResourceState: which capture its body is from, the machine state, and   *)
(* the body's status field when that is a string ("upstream": as captured).*)
Record == [body: Captures, state: States \cup {NoState},
           status: States \cup {"upstream", "absent"}]

ASSUME NoResourceAssumption == NoResource \notin Record

VARIABLES
  serving,   \* "up", or where load_from_disk is: "read", "compact", "insert"
  crashes,
  target,    \* the resource an operation is about
  action,    \* the action a transition asks for
  textual,   \* captures whose body has a string status field
  by_service,\* the in-memory map
  log,       \* {data_dir}/resources/{service_id}.jsonl
  bucket,    \* what load_from_disk parsed
  pc,        \* where an operation is
  rec,       \* the record it persists
  tails,     \* the operations whose newline is still to be written
  header,    \* X-Ghost-Transition: the state a transition reports
  served     \* the record its response body shows

inputVars == <<target, action, textual>>
bootVars  == <<serving, crashes, bucket>>
respVars  == <<header, served>>
vars == <<bootVars, inputVars, by_service, log, pc, rec, tails, respVars>>

EmptyMap == [x \in Resources |-> NoResource]
EmptyLog == [lines |-> <<>>, open |-> FALSE, utf8 |-> TRUE]

(* NoResource stands for a part of the record.                             *)
AppendLine(f, x, r) ==
  IF f.open
    THEN [f EXCEPT !.lines[Len(f.lines)] = Append(@, [res |-> x, rec |-> r])]
    ELSE [f EXCEPT !.lines = Append(@, << [res |-> x, rec |-> r] >>),
                   !.open = TRUE]

(* On a log that ends in a newline this adds an empty line, which is       *)
(* skipped when the log is read.                                           *)
AppendNewline(f) == [f EXCEPT !.open = FALSE]

Parsable(f, x) ==
  {i \in DOMAIN f.lines : /\ Len(f.lines[i]) = 1 /\ f.lines[i][1].res = x
                          /\ f.lines[i][1].rec # NoResource}

(* The last line for a resource wins; a log that a part of a character is  *)
(* in cannot be read.                                                      *)
Replay(f) ==
  [x \in Resources |->
     IF ~f.utf8 \/ Parsable(f, x) = {} THEN NoResource
     ELSE LET last == CHOOSE i \in Parsable(f, x) :
                        \A j \in Parsable(f, x) : j <= i
          IN  f.lines[last][1].rec]

Held(map) == {x \in Resources : map[x] # NoResource}

(* Variant for checking: the records are joined without newlines.          *)
CompactedOnOneLine(map) ==
  { [lines |-> <<line>>, open |-> FALSE, utf8 |-> TRUE] :
      line \in SetToSeqs({ [res |-> x, rec |-> map[x]] : x \in Held(map) }) }

(* One line per resource, in the arbitrary order of a HashMap.             *)
Compacted(map) ==
  { [lines |-> lines, open |-> FALSE, utf8 |-> TRUE] :
      lines \in SetToSeqs({ << [res |-> x, rec |-> map[x]] >> : x \in Held(map) }) }

(***************************************************************************)
(* Captures.                                                               *)
(***************************************************************************)
(* The LEARN response is returned; the capture is a task of its own.       *)
Learn(c) ==
  /\ serving = "up" /\ pc[c] = "idle"
  /\ pc' = [pc EXCEPT ![c] = "spawned"]
  /\ UNCHANGED <<bootVars, inputVars, by_service, log, rec, tails, respVars>>

(* Variant for checking: no machine is taken for a nameless state.         *)
CapturedBlank(c) ==
  LET m == MachineOf[target[c]] IN
  [body |-> c,
   state |-> IF m = NoMachine THEN "" ELSE Initial[m],
   status |-> IF c \in textual THEN "upstream" ELSE "absent"]

Captured(c) ==
  LET m == MachineOf[target[c]] IN
  [body |-> c,
   state |-> IF m = NoMachine THEN NoState ELSE Initial[m],
   status |-> IF c \in textual THEN "upstream" ELSE "absent"]

CaptureCreate(c) ==
  /\ pc[c] = "spawned"
  /\ by_service' = [by_service EXCEPT ![target[c]] = Captured(c)]
  /\ rec' = [rec EXCEPT ![c] = Captured(c)]
  /\ pc' = [pc EXCEPT ![c] = "line"]
  /\ UNCHANGED <<bootVars, inputVars, log, tails, respVars>>

(***************************************************************************)
(* Transitions.                                                            *)
(***************************************************************************)
(* Variant for checking: the step is taken from the initial state.         *)
NextFromInitial(t) ==
  LET m == MachineOf[target[t]] IN
  IF by_service[target[t]] = NoResource \/ m = NoMachine THEN NoState
  ELSE Apply(m, Initial[m], action[t])

NextState(t) ==
  LET r == by_service[target[t]] IN
  IF r = NoResource THEN NoState
  ELSE Apply(MachineOf[target[t]], r.state, action[t])

(* Variant for checking: the body keeps its status.                        *)
StateOnly(r, next) == [r EXCEPT !.state = next]

(* The record after a step: a textual status field follows the state.      *)
Stepped(r, next) ==
  [r EXCEPT !.state = next, !.status = IF @ = "absent" THEN @ ELSE next]

(* The write guard covers the look-up, the step and the body's status.     *)
ApplyTransition(t) ==
  LET x == target[t] IN
  /\ serving = "up" /\ pc[t] = "idle" /\ NextState(t) # NoState
  /\ by_service' = [by_service EXCEPT ![x] = Stepped(@, NextState(t))]
  /\ header' = [header EXCEPT ![t] = NextState(t)]
  /\ pc' = [pc EXCEPT ![t] = "applied"]
  /\ UNCHANGED <<bootVars, inputVars, log, rec, served, tails>>

(* Unknown resource, no machine or no such edge: the next match phase.     *)
RejectTransition(t) ==
  /\ serving = "up" /\ pc[t] = "idle" /\ NextState(t) = NoState
  /\ pc' = [pc EXCEPT ![t] = "done"]
  /\ UNCHANGED <<bootVars, inputVars, by_service, log, rec, tails, respVars>>

(* What is persisted is looked up again after the guard was dropped.       *)
SnapshotTransition(t) ==
  /\ pc[t] = "applied"
  /\ rec' = [rec EXCEPT ![t] = by_service[target[t]]]
  /\ pc' = [pc EXCEPT ![t] = "line"]
  /\ UNCHANGED <<bootVars, inputVars, by_service, log, tails, respVars>>

(* The handler looks the resource up once more for the response body.      *)
Respond(t) ==
  /\ pc[t] = "respond"
  /\ served' = [served EXCEPT ![t] = by_service[target[t]]]
  /\ pc' = [pc EXCEPT ![t] = "done"]
  /\ UNCHANGED <<bootVars, inputVars, by_service, log, rec, header, tails>>

(* The client hangs up: the handler is dropped where it awaits.            *)
Disconnect(t) ==
  /\ Disconnects
  /\ pc[t] \in {"applied", "line", "newline", "respond"}
  /\ pc' = [pc EXCEPT ![t] = "gone"]
  /\ UNCHANGED <<bootVars, inputVars, by_service, log, rec, tails, respVars>>

(***************************************************************************)
(* persist_jsonl, for both.                                                *)
(***************************************************************************)
Persisted(o) == IF o \in Captures THEN "done" ELSE "respond"

WriteLine(o) ==
  /\ pc[o] = "line"
  /\ log' = AppendLine(log, target[o], rec[o])
  /\ pc' = [pc EXCEPT ![o] = "newline"]
  /\ UNCHANGED <<bootVars, inputVars, by_service, rec, tails, respVars>>

(* tokio's File::write_all returns when the bytes are handed over: nobody  *)
(* waits for the newline, and its failure is lost.                         *)
QueueNewline(o) ==
  /\ pc[o] = "newline"
  /\ tails' = tails \cup {o}
  /\ pc' = [pc EXCEPT ![o] = Persisted(o)]
  /\ UNCHANGED <<bootVars, inputVars, by_service, log, rec, respVars>>

WriteNewline(o) ==
  /\ o \in tails
  /\ tails' = tails \ {o}
  /\ log' = AppendNewline(log)
  /\ UNCHANGED <<bootVars, inputVars, by_service, pc, rec, respVars>>

LoseNewline(o) ==
  /\ DiskFaults /\ o \in tails
  /\ tails' = tails \ {o}
  /\ UNCHANGED <<bootVars, inputVars, by_service, log, pc, rec, respVars>>

(* The open, or the line, which may be cut short, even within a character: *)
(* logged and counted; the map stays as it is.                             *)
PersistFail(o) ==
  /\ DiskFaults
  /\ pc[o] = "line"
  /\ pc' = [pc EXCEPT ![o] = Persisted(o)]
  /\ \/ UNCHANGED log
     \/ \E u \in {log.utf8, FALSE} :
          log' = [AppendLine(log, target[o], NoResource) EXCEPT !.utf8 = u]
  /\ UNCHANGED <<bootVars, inputVars, by_service, rec, tails, respVars>>

(***************************************************************************)
(* Crash, and load_from_disk at the next boot.                             *)
(***************************************************************************)
Crash ==
  /\ crashes < MaxCrashes
  /\ crashes' = crashes + 1
  /\ serving' = "read"
  /\ by_service' = EmptyMap
  /\ bucket' = EmptyMap
  /\ pc' = [o \in Ops |-> IF pc[o] \in {"idle", "done"} THEN pc[o] ELSE "gone"]
  /\ tails' = {}
  /\ UNCHANGED <<inputVars, log, rec, respVars>>

(* Compact iff some line was a duplicate or did not parse.                 *)
LoadRead ==
  /\ serving = "read"
  /\ bucket' = Replay(log)
  /\ serving' = CASE Held(Replay(log)) = {} -> "up"
                  [] Cardinality(Held(Replay(log))) < Len(log.lines) -> "compact"
                  [] OTHER -> "insert"
  /\ UNCHANGED <<crashes, inputVars, by_service, log, pc, rec, tails, respVars>>

(* read_to_string failed: the log is passed over.                          *)
LoadReadFail ==
  /\ DiskFaults /\ serving = "read"
  /\ serving' = "up"
  /\ UNCHANGED <<crashes, bucket, inputVars, by_service, log, pc, rec, tails, respVars>>

(* Write the tmp file and rename it over the log: nothing else runs yet,   *)
(* and a crash before the rename leaves the log alone.                     *)
LoadCompact ==
  /\ serving = "compact"
  /\ log' \in Compacted(bucket)
  /\ serving' = "insert"
  /\ UNCHANGED <<crashes, bucket, inputVars, by_service, pc, rec, tails, respVars>>

LoadCompactFail ==
  /\ DiskFaults /\ serving = "compact"
  /\ serving' = "insert"
  /\ UNCHANGED <<crashes, bucket, inputVars, by_service, log, pc, rec, tails, respVars>>

LoadInsert ==
  /\ serving = "insert"
  /\ by_service' = bucket
  /\ bucket' = EmptyMap
  /\ serving' = "up"
  /\ UNCHANGED <<crashes, inputVars, log, pc, rec, tails, respVars>>

-----------------------------------------------------------------------------
Init ==
  /\ serving = "up" /\ crashes = 0 /\ bucket = EmptyMap
  /\ target \in [Ops -> Resources]
  /\ action \in [Transitions -> UsedActions]
  /\ textual \in SUBSET Captures
  /\ by_service = EmptyMap /\ log = EmptyLog
  /\ pc = [o \in Ops |-> "idle"]
  /\ rec = [o \in Ops |-> NoResource] /\ tails = {}
  /\ header = [t \in Transitions |-> NoState]
  /\ served = [t \in Transitions |-> NoResource]

Start ==
  \/ \E c \in Captures : Learn(c)
  \/ \E t \in Transitions : ApplyTransition(t) \/ RejectTransition(t)

Progress ==
  \/ \E c \in Captures : CaptureCreate(c)
  \/ \E t \in Transitions : SnapshotTransition(t) \/ Respond(t)
  \/ \E o \in Ops : WriteLine(o) \/ PersistFail(o) \/ QueueNewline(o)
                   \/ WriteNewline(o) \/ LoseNewline(o)
  \/ LoadRead \/ LoadReadFail \/ LoadCompact \/ LoadCompactFail \/ LoadInsert

Next == Start \/ Progress \/ Crash \/ \E t \in Transitions : Disconnect(t)

Spec == Init /\ [][Next]_vars

AtRest ==
  serving = "up" /\ tails = {} /\ \A o \in Ops : pc[o] \in {"idle", "done", "gone"}

(***************************************************************************)
(* Properties.                                                             *)
(***************************************************************************)
TypeOK ==
  /\ serving \in {"up", "read", "compact", "insert"}
  /\ crashes \in 0..MaxCrashes
  /\ bucket \in [Resources -> Record \cup {NoResource}]
  /\ target \in [Ops -> Resources]
  /\ action \in [Transitions -> UsedActions]
  /\ textual \subseteq Captures
  /\ by_service \in [Resources -> Record \cup {NoResource}]
  /\ log \in [lines: Seq(Seq([res: Resources, rec: Record \cup {NoResource}])),
              open: BOOLEAN, utf8: BOOLEAN]
  /\ pc \in [Ops -> {"idle", "spawned", "applied", "line", "newline",
                     "respond", "done", "gone"}]
  /\ rec \in [Ops -> Record \cup {NoResource}] /\ tails \subseteq Ops
  /\ header \in [Transitions -> States \cup {NoState}]
  /\ served \in [Transitions -> Record \cup {NoResource}]

(* A resource is always in a state of the machine its collection binds,    *)
(* and a textual status in its body agrees with that state as soon as a    *)
(* transition has left the initial one (resource_store.rs:283-311), in     *)
(* memory and in what a restart makes of the log.                          *)
Consistent(x, r) ==
  r # NoResource =>
    IF MachineOf[x] = NoMachine THEN r.state = NoState
    ELSE /\ r.state \in StatesOf(MachineOf[x])
         /\ r.state # Initial[MachineOf[x]] /\ r.status # "absent"
              => r.status = r.state
BodyTracksState ==
  \A x \in Resources : /\ Consistent(x, by_service[x])
                       /\ Consistent(x, Replay(log)[x])

(* Reports(t): t answered with a transition of a captured body.            *)
Reports(t) == header[t] # NoState /\ pc[t] = "done"

(* The states a machine can reach from s: those in every set that holds s  *)
(* and is closed under its edges.                                          *)
Closed(m, set) == \A e \in Edges[m] : e[1] \in set => e[3] \in set

ReachableFrom(m, s) ==
  {n \in StatesOf(m) :
     \A set \in SUBSET StatesOf(m) : s \in set /\ Closed(m, set) => n \in set}

(* No way back to a state that was left.                                   *)
OneWay(m) == \A e \in Edges[m] : e[1] \notin ReachableFrom(m, e[3])

CapturedOnce(x) ==
  \A c, d \in Captures : target[c] = x /\ target[d] = x => c = d

(* The write guard makes the step atomic (resource_store.rs:281-311): of   *)
(* two requests that ask for the same step of the same captured resource,  *)
(* such as two refunds, at most one is told that it succeeded, as long as  *)
(* the machine has no way back and the process does not restart.           *)
NoDoubleTransition ==
  \A t, u \in Transitions :
    /\ t # u /\ target[t] = target[u] /\ action[t] = action[u]
    /\ header[t] # NoState /\ header[u] # NoState
    /\ CapturedOnce(target[t]) /\ OneWay(MachineOf[target[t]]) /\ crashes = 0
    => header[t] # header[u]

(* The body of a transition's response is looked up after the step         *)
(* (main.rs:1699): it may show later steps, never an earlier state, unless *)
(* the resource was captured anew meanwhile.                               *)
BodyNotOlder ==
  \A t \in Transitions :
    /\ Reports(t) /\ served[t] # NoResource
    /\ CapturedOnce(target[t])
    => served[t].state \in ReachableFrom(MachineOf[target[t]], header[t])

(* The map a boot starts to serve with is what its log replays to, whether *)
(* it was compacted, could not be, or the process died on the way          *)
(* (resource_store.rs:354-363): replaying again gives the same map.  Only  *)
(* a boot that cannot read the log starts with nothing, and leaves it.     *)
BootRebuildsMap ==
  [][ serving # "up" /\ serving' = "up" =>
        \/ by_service' = Replay(log')
        \/ /\ DiskFaults /\ serving = "read"
           /\ by_service' = EmptyMap /\ log' = log ]_vars

(* resource_store.rs:20-24: every write appends a line, and replaying the  *)
(* lines rebuilds the map.                                                 *)
ReplayRebuildsMap == AtRest => Replay(log) = by_service

(* resource_store.rs:20-24, the least of it: a capture that has been       *)
(* appended is replayed, or a later record of its resource is.             *)
AppendedIsReplayed ==
  \A c \in Captures : pc[c] = "done" => Replay(log)[target[c]] # NoResource

(* main.rs:1976-1977: the resource is in memory by the time the request    *)
(* that created it is answered.                                            *)
CapturedWhenAnswered ==
  \A c \in Captures :
    pc[c] = "spawned" => by_service[target[c]] # NoResource

(* main.rs:1658-1659: a transition serves the updated body, the one in the *)
(* state its header names.                                                 *)
HeaderMatchesBody ==
  \A t \in Transitions :
    Reports(t) /\ served[t] # NoResource => served[t].state = header[t]
=============================================================================
