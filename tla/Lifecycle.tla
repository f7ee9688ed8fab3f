------------------------------ MODULE Lifecycle ------------------------------
(***************************************************************************)
(* The processes of one host: proxies that boot, serve and die, the        *)
(* commands `gostly start`, `gostly mode` and `gostly stop`, and others    *)
(* (main.rs: run_cli, apply_start_args_to_env, run_proxy, cmd_set_mode,    *)
(* cmd_stop).  They share ports, pids that are used again, and for each    *)
(* data dir its gostly.pid and mode.txt.                                   *)
(***************************************************************************)
EXTENDS Integers, FiniteSets

CONSTANTS
  Pids,        \* process ids, in the order pgrep lists them
  Ports, Dirs, Modes,
  DefaultPort, DefaultDir, DefaultMode,
  NotGiven,    \* a flag or an environment variable that is not set
  Env,         \* PROXY_PORT, MOCK_DIR's parent, INITIAL_MODE, WIDE_EVENTS_DIR
  StartArgs,   \* flags of the starts: --port, --data-dir, --mode
  IsAgent,     \* whether the program's path contains "gostly-agent"
  DiskFaults,  \* whether the pidfile may not be writable
  Absent, Empty \* contents of a file

None == 0

Flags == [port: Ports \cup {NotGiven}, dir: Dirs \cup {NotGiven}, mode: Modes \cup {NotGiven}]

ASSUME LifecycleAssumption ==
  /\ Pids \subseteq Nat \ {None} /\ IsFiniteSet(Pids)
  /\ DefaultPort \in Ports /\ DefaultDir \in Dirs /\ DefaultMode \in Modes
  /\ StartArgs \subseteq Flags
  /\ Env.port \in Ports \cup {NotGiven} /\ Env.dir \in Dirs \cup {NotGiven}
  /\ Env.mode \in Modes \cup {NotGiven} /\ Env.events \in Dirs \cup {NotGiven}
  /\ {IsAgent, DiskFaults} \subseteq BOOLEAN
  /\ {Absent, Empty} \cap Pids = {} /\ {Absent, Empty} \cap Modes = {}
  /\ NotGiven \notin Ports /\ NotGiven \notin Dirs /\ NotGiven \notin Modes

VARIABLES
  kind,      \* of a pid: "free", "proxy", "stop", "other"
  phase,     \* what a proxy or a stop does next
  settings,  \* of a proxy: port, dir, initial mode, dir of wide events
  mode,      \* of a proxy, AppState.mode
  bound,     \* proxies that hold their port
  unsaved,   \* proxies with a line acknowledged whose append is on its way
  wanted,    \* of a stop, the data dir whose pidfile it was given
  target,    \* the pid it is to signal, or None
  aim,       \* the proxy that was listed there when it read, while it lives
  pidfile,   \* by data dir, gostly.pid
  modeFile   \* and mode.txt

processVars == <<kind, phase, bound, unsaved>>
stopVars == <<wanted, target, aim>>
fileVars == <<pidfile, modeFile>>
vars == <<processVars, settings, mode, stopVars, fileVars>>

-----------------------------------------------------------------------------
(* Variant for checking: a flag that is not given has no value.            *)
AsGiven(value, default) == value

Given(value, default) == IF value = NotGiven THEN default ELSE value

(* apply_start_args_to_env sets what clap parsed, defaults included; the   *)
(* dir of wide events is not among it.  run_proxy reads the environment.   *)
Settings(args) ==
  [port |-> Given(args.port, DefaultPort), dir |-> Given(args.dir, DefaultDir),
   mode |-> Given(args.mode, DefaultMode), events |-> Given(Env.events, DefaultDir)]

Defaults == Settings([port |-> NotGiven, dir |-> NotGiven, mode |-> NotGiven])

(* Variant for checking: the pidfile is written before the port is bound.  *)
AfterListedFirst(ph) ==
  CASE ph = "load"     -> "truncate" [] ph = "truncate" -> "write"
    [] ph = "write"    -> "bind"     [] ph = "bind"     -> "serving"

(* run_proxy, in order.                                                    *)
After(ph) ==
  CASE ph = "load"     -> "bind"  [] ph = "bind"  -> "truncate"
    [] ph = "truncate" -> "write" [] ph = "write" -> "serving"

(* A process ends at once, as there is no handler of SIGTERM: its port and *)
(* its pid are free, its files stay.                                       *)
Ends(x, finished) ==
  /\ kind' = [kind EXCEPT ![x] = "free"]
  /\ phase' = [q \in Pids |-> IF q \in finished THEN "done" ELSE phase[q]]
  /\ settings' = [settings EXCEPT ![x] = Defaults] /\ mode' = [mode EXCEPT ![x] = DefaultMode]
  /\ bound' = bound \ {x} /\ unsaved' = unsaved \ {x}
  /\ wanted' = [wanted EXCEPT ![x] = DefaultDir] /\ target' = [target EXCEPT ![x] = None]
  /\ aim' = [q \in Pids |-> IF q = x \/ aim[q] = x THEN None ELSE aim[q]]

(* gostly start                                                            *)
Start(p, args) ==
  /\ kind[p] = "free"
  /\ kind' = [kind EXCEPT ![p] = "proxy"] /\ phase' = [phase EXCEPT ![p] = "mode"]
  /\ settings' = [settings EXCEPT ![p] = Settings(args)]
  /\ UNCHANGED <<mode, bound, unsaved, stopVars, fileVars>>

(* The mode on disk comes before the one of the flag or the environment.   *)
ReadMode(p) ==
  /\ kind[p] = "proxy" /\ phase[p] = "mode"
  /\ LET onDisk == modeFile[settings[p].dir] IN
     mode' = [mode EXCEPT ![p] = IF onDisk \in Modes THEN onDisk ELSE settings[p].mode]
  /\ phase' = [phase EXCEPT ![p] = "load"]
  /\ UNCHANGED <<kind, bound, unsaved, settings, stopVars, fileVars>>

(* Mocks and resources are loaded, which rewrites their files.             *)
Load(p) ==
  /\ kind[p] = "proxy" /\ phase[p] = "load"
  /\ phase' = [phase EXCEPT ![p] = After("load")]
  /\ UNCHANGED <<kind, bound, unsaved, settings, mode, stopVars, fileVars>>

PortTaken(p) == \E q \in bound : settings[q].port = settings[p].port

Bind(p) ==
  /\ kind[p] = "proxy" /\ phase[p] = "bind" /\ ~PortTaken(p)
  /\ bound' = bound \cup {p}
  /\ phase' = [phase EXCEPT ![p] = After("bind")]
  /\ UNCHANGED <<kind, unsaved, settings, mode, stopVars, fileVars>>

(* The unwrap of a bind that fails ends the process.                       *)
BindFails(p) ==
  /\ kind[p] = "proxy" /\ phase[p] = "bind" /\ PortTaken(p)
  /\ Ends(p, {p}) /\ UNCHANGED fileVars

(* fs::write of the pidfile truncates it and then writes it.  When it      *)
(* cannot, the proxy serves without being listed.                          *)
TruncatePidfile(p) ==
  /\ kind[p] = "proxy" /\ phase[p] = "truncate"
  /\ pidfile' = [pidfile EXCEPT ![settings[p].dir] = Empty]
  /\ phase' = [phase EXCEPT ![p] = After("truncate")]
  /\ UNCHANGED <<kind, bound, unsaved, settings, mode, stopVars, modeFile>>

WritePidfile(p) ==
  /\ kind[p] = "proxy" /\ phase[p] = "write"
  /\ pidfile' = [pidfile EXCEPT ![settings[p].dir] = p]
  /\ phase' = [phase EXCEPT ![p] = After("write")]
  /\ UNCHANGED <<kind, bound, unsaved, settings, mode, stopVars, modeFile>>

PidfileFails(p) ==
  /\ DiskFaults /\ kind[p] = "proxy" /\ phase[p] \in {"truncate", "write"}
  /\ phase' = [phase EXCEPT ![p] = "unlisted"]
  /\ UNCHANGED <<kind, bound, unsaved, settings, mode, stopVars, fileVars>>

Serves(p) == kind[p] = "proxy" /\ phase[p] \in {"serving", "unlisted"}

(* A recorded response is sent while its append is only spawned.           *)
Acknowledge(p) ==
  /\ Serves(p) /\ unsaved' = unsaved \cup {p}
  /\ UNCHANGED <<kind, phase, bound, settings, mode, stopVars, fileVars>>

Save(p) ==
  /\ p \in unsaved /\ unsaved' = unsaved \ {p}
  /\ UNCHANGED <<kind, phase, bound, settings, mode, stopVars, fileVars>>

(* gostly mode, handled by the proxy on the port.  ModeControl has the     *)
(* steps of the handler.                                                   *)
SetMode(p, m) ==
  /\ Serves(p)
  /\ mode' = [mode EXCEPT ![p] = m]
  /\ modeFile' = [modeFile EXCEPT ![settings[p].dir] = m]
  /\ UNCHANGED <<processVars, settings, stopVars, pidfile>>

(* A proxy crashes, another program or a stop is done.                     *)
Exit(p) ==
  /\ kind[p] \in {"proxy", "other"} \/ (kind[p] = "stop" /\ phase[p] = "done")
  /\ Ends(p, {p}) /\ UNCHANGED fileVars

(* Some other program is started.                                          *)
StartOther(p) ==
  /\ kind[p] = "free" /\ kind' = [kind EXCEPT ![p] = "other"]
  /\ UNCHANGED <<phase, bound, unsaved, settings, mode, stopVars, fileVars>>

-----------------------------------------------------------------------------
(* gostly stop --pidfile <dir>/gostly.pid                                  *)
Stop(q, d) ==
  /\ kind[q] = "free"
  /\ kind' = [kind EXCEPT ![q] = "stop"] /\ phase' = [phase EXCEPT ![q] = "read"]
  /\ wanted' = [wanted EXCEPT ![q] = d] /\ target' = [target EXCEPT ![q] = None]
  /\ UNCHANGED <<bound, unsaved, settings, mode, aim, fileVars>>

Listed(d) == { p \in bound : phase[p] = "serving" /\ settings[p].dir = d }

(* Variant for checking: a pidfile is not looked at.                       *)
Nobody(content) == None

(* The content parsed as a number.                                         *)
Parsed(content) == IF content \in Pids THEN content ELSE None

ReadPidfile(q) ==
  /\ kind[q] = "stop" /\ phase[q] = "read"
  /\ target' = [target EXCEPT ![q] = Parsed(pidfile[wanted[q]])]
  /\ phase' = [phase EXCEPT ![q] = IF target'[q] = None THEN "pgrep" ELSE "kill"]
  /\ aim' \in { [aim EXCEPT ![q] = p] :
                  p \in IF Listed(wanted[q]) = {} THEN {None} ELSE Listed(wanted[q]) }
  /\ UNCHANGED <<kind, bound, unsaved, settings, mode, wanted, fileVars>>

(* pgrep -f gostly-agent: proxies and commands alike, this one included.   *)
Matching == { p \in Pids : IsAgent /\ kind[p] \in {"proxy", "stop"} }

Pgrep(q) ==
  /\ kind[q] = "stop" /\ phase[q] = "pgrep"
  /\ target' \in { [target EXCEPT ![q] = p] :
                     p \in IF Matching = {} THEN {None}
                           ELSE { p \in Matching : \A o \in Matching : p <= o } }
  /\ phase' = [phase EXCEPT ![q] = IF target'[q] = None THEN "done" ELSE "kill"]
  /\ UNCHANGED <<kind, bound, unsaved, settings, mode, wanted, aim, fileVars>>

(* SIGTERM to whatever has the pid now, possibly the command itself; ESRCH *)
(* is a success.  The command is then done.                                *)
Kill(q) ==
  /\ kind[q] = "stop" /\ phase[q] = "kill"
  /\ IF kind[target[q]] = "free"
       THEN /\ phase' = [phase EXCEPT ![q] = "done"]
            /\ UNCHANGED <<kind, settings, mode, bound, unsaved, stopVars>>
       ELSE Ends(target[q], {q, target[q]})
  /\ UNCHANGED fileVars

-----------------------------------------------------------------------------
Init ==
  /\ kind = [p \in Pids |-> "free"] /\ phase = [p \in Pids |-> "done"]
  /\ settings = [p \in Pids |-> Defaults]
  /\ mode = [p \in Pids |-> DefaultMode]
  /\ bound = {} /\ unsaved = {}
  /\ wanted = [p \in Pids |-> DefaultDir]
  /\ target = [p \in Pids |-> None] /\ aim = [p \in Pids |-> None]
  /\ pidfile = [d \in Dirs |-> Absent] /\ modeFile = [d \in Dirs |-> Absent]

Boot(p) ==
  \/ \E args \in StartArgs : Start(p, args)
  \/ ReadMode(p) \/ Load(p) \/ Bind(p) \/ BindFails(p)
  \/ TruncatePidfile(p) \/ WritePidfile(p) \/ PidfileFails(p)

Next ==
  \E p \in Pids :
    \/ Boot(p) \/ Acknowledge(p) \/ Save(p) \/ Exit(p) \/ StartOther(p)
    \/ \E m \in Modes : SetMode(p, m)
    \/ \E d \in Dirs : Stop(p, d)
    \/ ReadPidfile(p) \/ Pgrep(p) \/ Kill(p)

Spec == Init /\ [][Next]_vars

(***************************************************************************)
(* Properties.                                                             *)
(***************************************************************************)
TypeOK ==
  /\ kind \in [Pids -> {"free", "proxy", "stop", "other"}]
  /\ phase \in [Pids -> {"mode", "load", "bind", "truncate", "write", "serving", "unlisted",
                         "read", "pgrep", "kill", "done"}]
  /\ settings \in [Pids -> [port: Ports, dir: Dirs, mode: Modes, events: Dirs]]
  /\ mode \in [Pids -> Modes] /\ bound \subseteq Pids /\ unsaved \subseteq Pids
  /\ wanted \in [Pids -> Dirs]
  /\ target \in [Pids -> Pids \cup {None}] /\ aim \in [Pids -> Pids \cup {None}]
  /\ pidfile \in [Dirs -> Pids \cup {Absent, Empty}]
  /\ modeFile \in [Dirs -> Modes \cup {Absent}]

(* No data dir is used under two ports.                                    *)
OnePortPerDir ==
  \A a, b \in StartArgs : Settings(a).dir = Settings(b).dir => Settings(a).port = Settings(b).port

(* While a listed proxy serves, the pidfile of its data dir names it,      *)
(* whatever other starts of the same dir fail on its port, and whatever    *)
(* proxies of the dir died before it (main.rs:907-910).                    *)
PidfileNamesServing ==
  OnePortPerDir =>
    \A p \in Pids :
      kind[p] = "proxy" /\ phase[p] = "serving" => pidfile[settings[p].dir] = p

(* A stop that is done has ended the proxy that served its data dir when   *)
(* it read the pidfile, if that was listed (main.rs:351-352).              *)
StopWorks ==
  OnePortPerDir => \A q \in Pids : kind[q] = "stop" /\ phase[q] = "done" => aim[q] = None

(* main.rs:381, Dockerfile:63-64: the environment gives port and mode to a *)
(* start whose flags do not.                                               *)
EnvHonoured ==
  [][\A p \in Pids, args \in StartArgs :
       kind[p] = "free" /\ Start(p, args) =>
         /\ settings'[p].port = Given(args.port, Given(Env.port, DefaultPort))
         /\ settings'[p].mode = Given(args.mode, Given(Env.mode, DefaultMode))]_vars

(* main.rs:471-473: --data-dir is honoured, for all the files.             *)
OneDataDir ==
  \A p \in Pids :
    kind[p] = "proxy" /\ Env.events = NotGiven => settings[p].events = settings[p].dir

(* main.rs:561-562: signalling a pid that has exited is harmless.          *)
StopsOnlyProxies ==
  \A q \in Pids : kind[q] = "stop" /\ phase[q] = "kill" => kind[target[q]] \in {"proxy", "free"}

(* main.rs:352: stop returns success even if no proxy is running.          *)
NeverStopsItself ==
  \A q \in Pids : kind[q] = "stop" /\ phase[q] = "kill" => target[q] # q

(* main.rs:904-905: without a pidfile, pgrep finds the proxy.              *)
StopFindsProxy ==
  [][\A q \in Pids : Pgrep(q) /\ (\E p \in Pids : Serves(p)) => target'[q] # None]_vars

(* main.rs:351: a stop is graceful: what was acknowledged is saved.        *)
GracefulStop ==
  [][\A q \in Pids : Kill(q) => target[q] \notin unsaved]_vars

(* A proxy serves in the mode last set for its data dir (main.rs:745-755). *)
ServesLastMode ==
  \A p \in Pids :
    Serves(p) /\ modeFile[settings[p].dir] # Absent => mode[p] = modeFile[settings[p].dir]
=============================================================================
