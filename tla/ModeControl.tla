---------------------------- MODULE ModeControl ----------------------------
(***************************************************************************)
(* The mode of the proxy: the global mode and its file (handle_set_mode,   *)
(* write_mode_to_file, read_mode_from_file), the mode a route overrides it *)
(* with for one service (handle_set_upstreams), the requests that read     *)
(* both, and the crash and restart of the process.                         *)
(*                                                                         *)
(* The file is written in place by open(O_TRUNC) and write, so it is kept  *)
(* as the label written last and the length of the content: a label that   *)
(* covers only part of it does not parse.                                  *)
(***************************************************************************)
EXTENDS Naturals

CONSTANTS
  Setters,      \* POST /ghost/mode requests
  Routers,      \* POST /ghost/upstreams requests
  Requests,     \* proxied requests of one service
  InitialMode,  \* INITIAL_MODE, or LEARN
  DiskFaults,   \* TRUE iff writing the file may fail
  Disconnects,  \* TRUE iff clients may hang up: the handler is dropped
  MaxCrashes,   \* bound on the number of crashes
  NoMode        \* Option::None

Durable == {"LEARN", "MOCK", "PASSTHROUGH"}
Modes == Durable \cup {"TRANSITIONING"}

LabelLength == [LEARN |-> 5, MOCK |-> 4, PASSTHROUGH |-> 11, TRANSITIONING |-> 13]

ASSUME ModeAssumption ==
  /\ InitialMode \in Durable /\ NoMode \notin Modes
  /\ DiskFaults \in BOOLEAN /\ Disconnects \in BOOLEAN
  /\ MaxCrashes \in Nat

VARIABLES
  up, crashes,
  mode,      \* AppState.mode
  override,  \* the mode of the service's route, or NoMode
  file,      \* data/mode.txt: the label at its start and its length
  wants,     \* the mode a setter asks for
  routes,    \* the override a router installs
  spc,       \* where a setter is
  rpc,       \* where a request is
  rmode,     \* the global mode a request read
  rdone,     \* the mode it was served in
  inEffect,  \* history: the service's modes while the request ran
  rerouted,  \* history: the requests that ran while the routes changed
  durable,   \* history: the label written last
  disturbed  \* history: a mode change overlapped, failed or was dropped

fileVars    == <<file, durable>>
historyVars == <<inEffect, rerouted, disturbed>>
inputVars   == <<wants, routes>>
requestVars == <<rpc, rmode, rdone>>
vars == <<up, crashes, mode, override, fileVars, inputVars, spc, requestVars,
          historyVars>>

EmptyFile == [label |-> NoMode, length |-> 0]

Parsed(f) ==
  IF f.label # NoMode /\ f.length = LabelLength[f.label] THEN f.label ELSE NoMode

(* Variant for checking: a file that does not parse is not caught.         *)
ResumeParsed(f) == Parsed(f)

(* The mode run_proxy starts with. *)
Resume(f) == IF Parsed(f) = NoMode THEN InitialMode ELSE Parsed(f)

Overwrite(f, m) ==
  [label |-> m,
   length |-> IF f.length > LabelLength[m] THEN f.length ELSE LabelLength[m]]

Effective(global, route) == IF route = NoMode THEN global ELSE route

(* Requests between their start and their dispatch see the new mode too.   *)
Witness ==
  inEffect' = [r \in Requests |->
                 IF rpc[r] = "read"
                   THEN inEffect[r] \cup {Effective(mode', override')}
                   ELSE inEffect[r]]

DisturbedIf(condition) ==
  disturbed' = (disturbed \/ condition) /\ UNCHANGED <<inEffect, rerouted>>

(* Another mode change is between its file and the mode.                   *)
Others(s) == \E t \in Setters \ {s} : spc[t] \in {"truncated", "written", "detached"}

(* Variant for checking: every mode is written.                            *)
PersistAll(m) == TRUE

(* Modes handle_set_mode writes to the file.                               *)
Persists(m) == m # "TRANSITIONING"

(***************************************************************************)
(* handle_set_mode.  tokio runs the write on a blocking thread: once begun *)
(* it goes on without the handler.                                         *)
(***************************************************************************)
(* Variant for checking: the file is opened without O_TRUNC.               *)
OpenFile(s) ==
  /\ up /\ spc[s] = "idle" /\ Persists(wants[s])
  /\ spc' = [spc EXCEPT ![s] = "truncated"]
  /\ DisturbedIf(Others(s))
  /\ UNCHANGED <<up, crashes, mode, override, fileVars, inputVars, requestVars>>

TruncateFile(s) ==
  /\ up /\ spc[s] = "idle" /\ Persists(wants[s])
  /\ file' = EmptyFile
  /\ spc' = [spc EXCEPT ![s] = "truncated"]
  /\ DisturbedIf(Others(s))
  /\ UNCHANGED <<up, crashes, mode, override, durable, inputVars, requestVars>>

WriteLabel(s) ==
  /\ spc[s] \in {"truncated", "detached"}
  /\ file' = Overwrite(file, wants[s])
  /\ durable' = wants[s]
  /\ spc' = [spc EXCEPT ![s] = IF @ = "detached" THEN "gone" ELSE "written"]
  /\ UNCHANGED <<up, crashes, mode, override, inputVars, requestVars, historyVars>>

(* The open or the write failed: logged, and the mode is set all the same. *)
WriteFail(s) ==
  /\ DiskFaults
  /\ \/ up /\ spc[s] = "idle" /\ Persists(wants[s])
     \/ spc[s] = "truncated"
  /\ spc' = [spc EXCEPT ![s] = "written"]
  /\ DisturbedIf(TRUE)
  /\ UNCHANGED <<up, crashes, mode, override, fileVars, inputVars, requestVars>>

(* TRANSITIONING is not written.                                           *)
StoreMode(s) ==
  /\ \/ spc[s] = "written"
     \/ up /\ spc[s] = "idle" /\ ~Persists(wants[s])
  /\ mode' = wants[s]
  /\ spc' = [spc EXCEPT ![s] = "done"]
  /\ UNCHANGED <<up, crashes, override, fileVars, inputVars, requestVars,
                 rerouted, disturbed>>
  /\ Witness

Disconnect(s) ==
  /\ Disconnects
  /\ spc[s] \in {"truncated", "written"}
  /\ spc' = [spc EXCEPT ![s] = IF @ = "truncated" THEN "detached" ELSE "gone"]
  /\ DisturbedIf(TRUE)
  /\ UNCHANGED <<up, crashes, mode, override, fileVars, inputVars, requestVars>>

(***************************************************************************)
(* handle_set_upstreams replaces the whole table, in memory only.          *)
(***************************************************************************)
SetUpstreams(q) ==
  /\ up
  /\ override' = routes[q]
  /\ rerouted' = rerouted \cup {r \in Requests : rpc[r] = "read"}
  /\ UNCHANGED <<up, crashes, mode, fileVars, inputVars, spc, requestVars, disturbed>>
  /\ Witness

(***************************************************************************)
(* proxy_handler reads the global mode first and the routes later.         *)
(***************************************************************************)
(* Variant for checking: the mode is read from its file.                   *)
ReadModeFile(r) ==
  /\ up /\ rpc[r] = "idle"
  /\ rmode' = [rmode EXCEPT ![r] = Resume(file)]
  /\ inEffect' = [inEffect EXCEPT ![r] = {Effective(mode, override)}]
  /\ rpc' = [rpc EXCEPT ![r] = "read"]
  /\ UNCHANGED <<up, crashes, mode, override, fileVars, inputVars, spc, rdone,
                 rerouted, disturbed>>

ReadMode(r) ==
  /\ up /\ rpc[r] = "idle"
  /\ rmode' = [rmode EXCEPT ![r] = mode]
  /\ inEffect' = [inEffect EXCEPT ![r] = {Effective(mode, override)}]
  /\ rpc' = [rpc EXCEPT ![r] = "read"]
  /\ UNCHANGED <<up, crashes, mode, override, fileVars, inputVars, spc, rdone,
                 rerouted, disturbed>>

Dispatch(r) ==
  /\ rpc[r] = "read"
  /\ rdone' = [rdone EXCEPT ![r] = Effective(rmode[r], override)]
  /\ rpc' = [rpc EXCEPT ![r] = "done"]
  /\ UNCHANGED <<up, crashes, mode, override, fileVars, inputVars, spc, rmode,
                 historyVars>>

(***************************************************************************)
Crash ==
  /\ up /\ crashes < MaxCrashes
  /\ crashes' = crashes + 1
  /\ up' = FALSE
  /\ spc' = [s \in Setters |-> IF spc[s] \in {"idle", "done"} THEN spc[s] ELSE "gone"]
  /\ rpc' = [r \in Requests |-> IF rpc[r] = "read" THEN "gone" ELSE rpc[r]]
  /\ UNCHANGED <<mode, override, fileVars, inputVars, rmode, rdone, historyVars>>

Restart ==
  /\ ~up
  /\ up' = TRUE
  /\ mode' = Resume(file)
  /\ override' = NoMode
  /\ UNCHANGED <<crashes, fileVars, inputVars, spc, requestVars, historyVars>>

-----------------------------------------------------------------------------
Init ==
  /\ up = TRUE /\ crashes = 0
  /\ mode = InitialMode /\ override = NoMode
  /\ file = EmptyFile /\ durable = NoMode
  /\ wants \in [Setters -> Modes]
  /\ routes \in [Routers -> Modes \cup {NoMode}]
  /\ spc = [s \in Setters |-> "idle"]
  /\ rpc = [r \in Requests |-> "idle"]
  /\ rmode = [r \in Requests |-> NoMode]
  /\ rdone = [r \in Requests |-> NoMode]
  /\ inEffect = [r \in Requests |-> {}] /\ rerouted = {} /\ disturbed = FALSE

SetterStep(s) ==
  TruncateFile(s) \/ WriteLabel(s) \/ WriteFail(s) \/ StoreMode(s) \/ Disconnect(s)

Next ==
  \/ \E s \in Setters : SetterStep(s)
  \/ \E q \in Routers : SetUpstreams(q)
  \/ \E r \in Requests : ReadMode(r) \/ Dispatch(r)
  \/ Crash \/ Restart

Spec == Init /\ [][Next]_vars

AtRest == up /\ \A s \in Setters : spc[s] \in {"idle", "done", "gone"}

(***************************************************************************)
(* Properties.                                                             *)
(***************************************************************************)
TypeOK ==
  /\ up \in BOOLEAN /\ crashes \in 0..MaxCrashes
  /\ mode \in Modes /\ override \in Modes \cup {NoMode}
  /\ file \in [label: Durable \cup {NoMode}, length: 0..11]
  /\ durable \in Durable \cup {NoMode}
  /\ wants \in [Setters -> Modes]
  /\ routes \in [Routers -> Modes \cup {NoMode}]
  /\ spc \in [Setters -> {"idle", "truncated", "detached", "written", "done", "gone"}]
  /\ rpc \in [Requests -> {"idle", "read", "done", "gone"}]
  /\ rmode \in [Requests -> Modes \cup {NoMode}]
  /\ rdone \in [Requests -> Modes \cup {NoMode}]
  /\ inEffect \in [Requests -> SUBSET Modes]
  /\ rerouted \subseteq Requests /\ disturbed \in BOOLEAN

(* A restart never leaves the proxy answering 503 for ever                 *)
(* (main.rs:939-940): whatever was written, torn or lost, it resumes in a  *)
(* mode that serves.                                                       *)
NeverStuckTransitioning == [][~up /\ up' => mode' \in Durable]_vars

(* A request is served in a mode that was in effect for its service at     *)
(* some moment between its arrival and its dispatch (ARCHITECTURE.md:16-19: *)
(* a service in MOCK never reaches the upstream) ...                       *)
ServedInMode ==
  \A r \in Requests : rpc[r] = "done" => rdone[r] \in inEffect[r]

(* ... which holds of a request that no change of the routes overtakes,    *)
(* whatever becomes of the global mode, its file and the process.          *)
ServedInModeOfRoute ==
  \A r \in Requests \ rerouted : rpc[r] = "done" => rdone[r] \in inEffect[r]

(* With nothing under way, a restart would resume in the mode the proxy is *)
(* in (ARCHITECTURE.md:23), except that TRANSITIONING is not kept ...      *)
RestartKeepsMode ==
  AtRest /\ mode # "TRANSITIONING" => Resume(file) = mode

(* ... which holds through crashes at any point, since the file is written *)
(* before the mode is set, as long as no two mode changes overlap, none is *)
(* dropped and none fails to write.                                        *)
RestartKeepsModeUndisturbed == disturbed \/ RestartKeepsMode

(* io.rs:343: when the file cannot be written, a restart reverts to the    *)
(* mode written before.                                                    *)
RevertsToPrevious ==
  AtRest => Parsed(file) = durable

(* main.rs:939-940: a restart from TRANSITIONING resumes in LEARN.         *)
TransitioningResumesLearn ==
  [][~up /\ up' /\ mode = "TRANSITIONING" => mode' = "LEARN"]_vars
=============================================================================
