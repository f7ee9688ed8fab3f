--------------------------- MODULE LifecycleProofs ---------------------------
(***************************************************************************)
(* Proofs about Lifecycle, for any pids, ports, data dirs and commands.    *)
(***************************************************************************)
EXTENDS Lifecycle, TLAPS

(* Whatever flags a start is given, its settings have their types.         *)
LEMMA SettingsType ==
  ASSUME NEW args \in Flags
  PROVE  Settings(args) \in [port: Ports, dir: Dirs, mode: Modes, events: Dirs]
<1>1. Given(args.port, DefaultPort) \in Ports
  BY LifecycleAssumption DEF Given, Flags
<1>2. Given(args.dir, DefaultDir) \in Dirs
  BY LifecycleAssumption DEF Given, Flags
<1>3. Given(args.mode, DefaultMode) \in Modes
  BY LifecycleAssumption DEF Given, Flags
<1>4. Given(Env.events, DefaultDir) \in Dirs
  BY LifecycleAssumption DEF Given
<1>. QED BY <1>1, <1>2, <1>3, <1>4 DEF Settings

LEMMA DefaultsType == Defaults \in [port: Ports, dir: Dirs, mode: Modes, events: Dirs]
<1>1. [port |-> NotGiven, dir |-> NotGiven, mode |-> NotGiven] \in Flags
  BY DEF Flags
<1>. QED BY <1>1, SettingsType DEF Defaults

(* The end of a process keeps the types.                                   *)
LEMMA EndsType ==
  ASSUME TypeOK, NEW x, NEW finished, Ends(x, finished), UNCHANGED fileVars
  PROVE  TypeOK'
<1>1. DefaultMode \in Modes /\ DefaultDir \in Dirs
  BY LifecycleAssumption
<1>. QED BY <1>1, DefaultsType DEF TypeOK, Ends, fileVars

LEMMA TypeInit == Init => TypeOK
<1>1. DefaultMode \in Modes /\ DefaultDir \in Dirs
  BY LifecycleAssumption
<1>. QED BY <1>1, DefaultsType DEF Init, TypeOK

LEMMA TypeStep == TypeOK /\ [Next]_vars => TypeOK'
<1>. SUFFICES ASSUME TypeOK, [Next]_vars PROVE TypeOK'
  OBVIOUS
<1>. USE DEF TypeOK, processVars, stopVars, fileVars
<1>1. CASE UNCHANGED vars
  BY <1>1 DEF vars
<1>2. ASSUME NEW p \in Pids, NEW args \in StartArgs, Start(p, args) PROVE TypeOK'
  <2>1. Settings(args) \in [port: Ports, dir: Dirs, mode: Modes, events: Dirs]
    BY SettingsType, LifecycleAssumption
  <2>. QED BY <1>2, <2>1 DEF Start
<1>3. ASSUME NEW p \in Pids, ReadMode(p) PROVE TypeOK'
  <2>1. settings[p].mode \in Modes
    OBVIOUS
  <2>. QED BY <1>3, <2>1 DEF ReadMode
<1>4. ASSUME NEW p \in Pids, Load(p) PROVE TypeOK'
  BY <1>4 DEF Load, After
<1>5. ASSUME NEW p \in Pids, Bind(p) PROVE TypeOK'
  BY <1>5 DEF Bind, After
<1>6. ASSUME NEW p \in Pids, BindFails(p) PROVE TypeOK'
  BY <1>6, EndsType DEF BindFails
<1>7. ASSUME NEW p \in Pids, TruncatePidfile(p) PROVE TypeOK'
  BY <1>7 DEF TruncatePidfile, After
<1>8. ASSUME NEW p \in Pids, WritePidfile(p) PROVE TypeOK'
  BY <1>8 DEF WritePidfile, After
<1>9. ASSUME NEW p \in Pids, PidfileFails(p) PROVE TypeOK'
  BY <1>9 DEF PidfileFails
<1>10. ASSUME NEW p \in Pids, Acknowledge(p) \/ Save(p) PROVE TypeOK'
  BY <1>10 DEF Acknowledge, Save
<1>11. ASSUME NEW p \in Pids, NEW m \in Modes, SetMode(p, m) PROVE TypeOK'
  BY <1>11 DEF SetMode
<1>12. ASSUME NEW p \in Pids, Exit(p) PROVE TypeOK'
  BY <1>12, EndsType DEF Exit
<1>13. ASSUME NEW p \in Pids, StartOther(p) PROVE TypeOK'
  BY <1>13 DEF StartOther
<1>14. ASSUME NEW q \in Pids, NEW d \in Dirs, Stop(q, d) PROVE TypeOK'
  BY <1>14 DEF Stop
<1>15. ASSUME NEW q \in Pids, ReadPidfile(q) PROVE TypeOK'
  <2>1. aim' \in [Pids -> Pids \cup {None}]
    BY <1>15 DEF ReadPidfile, Listed
  <2>2. target' \in [Pids -> Pids \cup {None}]
    BY <1>15 DEF ReadPidfile, Parsed
  <2>. QED BY <1>15, <2>1, <2>2 DEF ReadPidfile
<1>16. ASSUME NEW q \in Pids, Pgrep(q) PROVE TypeOK'
  <2>1. target' \in [Pids -> Pids \cup {None}]
    BY <1>16 DEF Pgrep, Matching
  <2>. QED BY <1>16, <2>1 DEF Pgrep
<1>17. ASSUME NEW q \in Pids, Kill(q) PROVE TypeOK'
  <2>1. CASE kind[target[q]] = "free"
    BY <1>17, <2>1 DEF Kill
  <2>2. CASE kind[target[q]] # "free"
    BY <1>17, <2>2, EndsType DEF Kill
  <2>. QED BY <2>1, <2>2
<1>. QED
  BY <1>1, <1>2, <1>3, <1>4, <1>5, <1>6, <1>7, <1>8, <1>9, <1>10, <1>11, <1>12,
     <1>13, <1>14, <1>15, <1>16, <1>17
  DEF Next, Boot

(* Type correctness of every behaviour.                                    *)
THEOREM TypeCorrect == Spec => []TypeOK
<1>. QED BY TypeInit, TypeStep, PTL DEF Spec

-----------------------------------------------------------------------------
(* A proxy holds its port from the bind to its end, and nobody else does.  *)
PortInv ==
  /\ \A p \in bound :
       kind[p] = "proxy" /\ phase[p] \in {"truncate", "write", "serving", "unlisted"}
  /\ \A p \in Pids :
       kind[p] = "proxy" /\ phase[p] \in {"truncate", "write", "serving", "unlisted"}
         => p \in bound
  /\ \A p, q \in bound : settings[p].port = settings[q].port => p = q

(* A proxy runs under the settings of some start.                          *)
SettingsInv ==
  \A p \in Pids :
    kind[p] = "proxy" => \E args \in StartArgs : settings[p] = Settings(args)

(* What a stop is to end is still there and listed: until it has read the  *)
(* pidfile and signals the pid it found there.  A stop that signals has a  *)
(* pid to signal.                                                          *)
AimInv ==
  /\ \A q \in Pids : aim[q] # None => kind[aim[q]] = "proxy" /\ phase[aim[q]] = "serving"
  /\ \A q \in Pids : kind[q] = "stop" /\ phase[q] = "kill" => target[q] # None
  /\ OnePortPerDir =>
       \A q \in Pids :
         kind[q] = "stop" =>
           /\ phase[q] \in {"pgrep", "done"} => aim[q] = None
           /\ phase[q] = "kill" => aim[q] \in {None, target[q]}
           /\ phase[q] \in {"read", "pgrep", "kill", "done"}

HostInv == TypeOK /\ PortInv /\ SettingsInv /\ PidfileNamesServing /\ AimInv

(* With OnePortPerDir, two proxies that hold a port and share a data dir   *)
(* are one.                                                                *)
LEMMA OneHolderPerDir ==
  ASSUME PortInv, SettingsInv, OnePortPerDir, bound \subseteq Pids,
         NEW p \in bound, NEW q \in bound, settings[p].dir = settings[q].dir
  PROVE  p = q
<1>1. PICK a \in StartArgs : settings[p] = Settings(a)
  BY DEF PortInv, SettingsInv
<1>2. PICK b \in StartArgs : settings[q] = Settings(b)
  BY DEF PortInv, SettingsInv
<1>3. settings[p].port = settings[q].port
  BY <1>1, <1>2 DEF OnePortPerDir
<1>. QED BY <1>3 DEF PortInv

LEMMA HostInit == Init => HostInv
<1>. SUFFICES ASSUME Init PROVE HostInv
  OBVIOUS
<1>1. TypeOK
  BY TypeInit
<1>2. PortInv /\ SettingsInv /\ PidfileNamesServing /\ AimInv
  BY DEF Init, PortInv, SettingsInv, PidfileNamesServing, AimInv
<1>. QED BY <1>1, <1>2 DEF HostInv

(* The end of a process, be it a failed bind, an exit or a signal, leaves  *)
(* the ports, the pidfiles and the aims of the others as they should be.   *)
LEMMA EndsHost ==
  ASSUME HostInv, NEW x \in Pids, NEW finished, Ends(x, finished), UNCHANGED fileVars,
         \A q \in finished \ {x} :
           /\ q \in Pids /\ kind[q] = "stop"
           /\ OnePortPerDir => aim[q] \in {None, x}
  PROVE  HostInv'
<1>. USE DEF HostInv
<1>1. TypeOK'
  BY EndsType
<1>2. /\ kind' = [kind EXCEPT ![x] = "free"] /\ bound' = bound \ {x}
      /\ settings' = [settings EXCEPT ![x] = Defaults]
      /\ phase' = [q \in Pids |-> IF q \in finished THEN "done" ELSE phase[q]]
      /\ aim' = [q \in Pids |-> IF q = x \/ aim[q] = x THEN None ELSE aim[q]]
      /\ target' = [target EXCEPT ![x] = None] /\ pidfile' = pidfile
  BY DEF Ends, fileVars
<1>3. \A p \in Pids :
        p # x => /\ kind'[p] = kind[p] /\ settings'[p] = settings[p]
                 /\ target'[p] = target[p]
                 /\ kind[p] = "proxy" => phase'[p] = phase[p]
  BY <1>2 DEF TypeOK
<1>4. kind'[x] = "free" /\ aim'[x] = None
  BY <1>2 DEF TypeOK
<1>5. PortInv'
  BY <1>2, <1>3, <1>4 DEF PortInv, TypeOK
<1>6. SettingsInv'
  <2>. SUFFICES ASSUME NEW p \in Pids, kind'[p] = "proxy"
                PROVE  \E args \in StartArgs : settings'[p] = Settings(args)
    BY DEF SettingsInv
  <2>1. p # x /\ kind[p] = "proxy" /\ settings'[p] = settings[p]
    BY <1>3, <1>4
  <2>. QED BY <2>1 DEF SettingsInv
<1>7. PidfileNamesServing'
  BY <1>2, <1>3, <1>4 DEF PidfileNamesServing, OnePortPerDir
<1>8. \A q \in Pids : aim'[q] # None => kind'[aim'[q]] = "proxy" /\ phase'[aim'[q]] = "serving"
  <2>. SUFFICES ASSUME NEW q \in Pids, aim'[q] # None
                PROVE  kind'[aim'[q]] = "proxy" /\ phase'[aim'[q]] = "serving"
    OBVIOUS
  <2>1. aim'[q] = aim[q] /\ aim[q] # x
    BY <1>2
  <2>2. aim[q] \in Pids /\ kind[aim[q]] = "proxy" /\ phase[aim[q]] = "serving"
    BY <2>1 DEF AimInv, TypeOK
  <2>3. kind'[aim[q]] = kind[aim[q]] /\ phase'[aim[q]] = phase[aim[q]]
    BY <2>1, <2>2, <1>3
  <2>. QED BY <2>1, <2>2, <2>3
<1>9. ASSUME OnePortPerDir, NEW q \in Pids, kind'[q] = "stop"
      PROVE  /\ phase'[q] \in {"pgrep", "done"} => aim'[q] = None
             /\ phase'[q] = "kill" => aim'[q] \in {None, target'[q]}
             /\ phase'[q] \in {"read", "pgrep", "kill", "done"}
  <2>1. q # x /\ kind[q] = "stop" /\ target'[q] = target[q]
    BY <1>3, <1>4, <1>9
  <2>2. CASE q \in finished
    BY <2>1, <2>2, <1>2, <1>9
  <2>3. CASE q \notin finished
    BY <2>1, <2>3, <1>2, <1>9 DEF AimInv
  <2>. QED BY <2>2, <2>3
<1>10. \A q \in Pids : kind'[q] = "stop" /\ phase'[q] = "kill" => target'[q] # None
  BY <1>2, <1>3, <1>4 DEF AimInv
<1>11. AimInv'
  BY <1>8, <1>9, <1>10 DEF AimInv, OnePortPerDir
<1>. QED BY <1>1, <1>5, <1>6, <1>7, <1>11

LEMMA HostStep == HostInv /\ [Next]_vars => HostInv'
<1>. SUFFICES ASSUME HostInv, [Next]_vars PROVE HostInv'
  OBVIOUS
<1>. USE DEF HostInv
<1>0. TypeOK'
  BY TypeStep
<1>. USE DEF TypeOK, PortInv, SettingsInv, PidfileNamesServing, AimInv,
             processVars, stopVars, fileVars
<1>1. CASE UNCHANGED vars
  BY <1>0, <1>1 DEF vars, OnePortPerDir
<1>2. ASSUME NEW p \in Pids, NEW args \in StartArgs, Start(p, args) PROVE HostInv'
  BY <1>0, <1>2 DEF Start, OnePortPerDir
<1>3. ASSUME NEW p \in Pids, ReadMode(p) PROVE HostInv'
  BY <1>0, <1>3 DEF ReadMode, OnePortPerDir
<1>4. ASSUME NEW p \in Pids, Load(p) PROVE HostInv'
  BY <1>0, <1>4 DEF Load, After, OnePortPerDir
<1>5. ASSUME NEW p \in Pids, Bind(p) PROVE HostInv'
  BY <1>0, <1>5 DEF Bind, After, PortTaken, OnePortPerDir
<1>6. ASSUME NEW p \in Pids, BindFails(p) PROVE HostInv'
  BY <1>6, EndsHost DEF BindFails
<1>7. ASSUME NEW p \in Pids, TruncatePidfile(p) PROVE HostInv'
  <2>1. ASSUME OnePortPerDir, NEW q \in Pids, kind[q] = "proxy", phase[q] = "serving"
        PROVE  settings[q].dir # settings[p].dir
    BY <1>7, <2>1, OneHolderPerDir DEF TruncatePidfile
  <2>. QED BY <1>0, <1>7, <2>1 DEF TruncatePidfile, After, OnePortPerDir
<1>8. ASSUME NEW p \in Pids, WritePidfile(p) PROVE HostInv'
  <2>1. ASSUME OnePortPerDir, NEW q \in Pids, q # p, kind[q] = "proxy", phase[q] = "serving"
        PROVE  settings[q].dir # settings[p].dir
    BY <1>8, <2>1, OneHolderPerDir DEF WritePidfile
  <2>. QED BY <1>0, <1>8, <2>1 DEF WritePidfile, After, OnePortPerDir
<1>9. ASSUME NEW p \in Pids, PidfileFails(p) PROVE HostInv'
  BY <1>0, <1>9 DEF PidfileFails, OnePortPerDir
<1>10. ASSUME NEW p \in Pids, Acknowledge(p) \/ Save(p) PROVE HostInv'
  BY <1>0, <1>10 DEF Acknowledge, Save, OnePortPerDir
<1>11. ASSUME NEW p \in Pids, NEW m \in Modes, SetMode(p, m) PROVE HostInv'
  BY <1>0, <1>11 DEF SetMode, OnePortPerDir
<1>12. ASSUME NEW p \in Pids, Exit(p) PROVE HostInv'
  BY <1>12, EndsHost DEF Exit
<1>13. ASSUME NEW p \in Pids, StartOther(p) PROVE HostInv'
  BY <1>0, <1>13 DEF StartOther, OnePortPerDir
<1>14. ASSUME NEW q \in Pids, NEW d \in Dirs, Stop(q, d) PROVE HostInv'
  BY <1>0, <1>14 DEF Stop, OnePortPerDir
<1>15. ASSUME NEW q \in Pids, ReadPidfile(q) PROVE HostInv'
  <2>1. \A o \in Pids : o # q => aim'[o] = aim[o] /\ target'[o] = target[o] /\ phase'[o] = phase[o]
    BY <1>15 DEF ReadPidfile
  <2>2. aim'[q] = None \/ aim'[q] \in Listed(wanted[q])
    BY <1>15 DEF ReadPidfile
  <2>3. target'[q] = Parsed(pidfile[wanted[q]])
    BY <1>15 DEF ReadPidfile
  <2>4. phase'[q] \in {"pgrep", "kill"} /\ (phase'[q] = "pgrep" => target'[q] = None)
    BY <1>15 DEF ReadPidfile
  <2>5. ASSUME OnePortPerDir, aim'[q] # None PROVE target'[q] = aim'[q] /\ target'[q] # None
    <3>1. aim'[q] \in Pids /\ pidfile[wanted[q]] = aim'[q]
      BY <2>2, <2>5 DEF Listed
    <3>. QED BY <2>3, <3>1, LifecycleAssumption DEF Parsed
  <2>6. kind' = kind /\ settings' = settings /\ bound' = bound /\ pidfile' = pidfile
    BY <1>15 DEF ReadPidfile
  <2>7. phase'[q] = "kill" => target'[q] # None
    BY <1>15 DEF ReadPidfile
  <2>8. \A p \in Pids : kind[p] = "proxy" => phase'[p] = phase[p]
    BY <1>15, <2>1 DEF ReadPidfile
  <2>9. PortInv' /\ SettingsInv' /\ PidfileNamesServing'
    BY <2>6, <2>8 DEF OnePortPerDir
  <2>10. \A o \in Pids : aim'[o] # None => kind'[aim'[o]] = "proxy" /\ phase'[aim'[o]] = "serving"
    <3>. SUFFICES ASSUME NEW o \in Pids, aim'[o] # None
                  PROVE  kind'[aim'[o]] = "proxy" /\ phase'[aim'[o]] = "serving"
      OBVIOUS
    <3>1. aim'[o] \in Pids /\ kind[aim'[o]] = "proxy" /\ phase[aim'[o]] = "serving"
      BY <2>1, <2>2 DEF Listed
    <3>. QED BY <3>1, <2>6, <2>8
  <2>11. AimInv'
    BY <2>1, <2>4, <2>5, <2>6, <2>7, <2>10 DEF OnePortPerDir
  <2>. QED BY <1>0, <2>9, <2>11
<1>16. ASSUME NEW q \in Pids, Pgrep(q) PROVE HostInv'
  BY <1>0, <1>16 DEF Pgrep, OnePortPerDir
<1>17. ASSUME NEW q \in Pids, Kill(q) PROVE HostInv'
  <2>1. CASE kind[target[q]] = "free"
    BY <1>0, <1>17, <2>1 DEF Kill, OnePortPerDir
  <2>2. CASE kind[target[q]] # "free"
    <3>1. target[q] \in Pids /\ Ends(target[q], {q, target[q]}) /\ UNCHANGED fileVars
      BY <1>17, <2>2 DEF Kill
    <3>2. kind[q] = "stop" /\ (OnePortPerDir => aim[q] \in {None, target[q]})
      BY <1>17 DEF Kill
    <3>. QED BY <3>1, <3>2, EndsHost
  <2>. QED BY <2>1, <2>2
<1>. QED
  BY <1>1, <1>2, <1>3, <1>4, <1>5, <1>6, <1>7, <1>8, <1>9, <1>10, <1>11, <1>12,
     <1>13, <1>14, <1>15, <1>16, <1>17
  DEF Next, Boot

(* While a listed proxy serves, the pidfile of its data dir names it,      *)
(* whatever starts fail, proxies die and pids are used again.              *)
THEOREM PidfileCorrect == Spec => []PidfileNamesServing
<1>1. HostInv => PidfileNamesServing
  BY DEF HostInv
<1>. QED BY HostInit, HostStep, <1>1, PTL DEF Spec

(* A stop that is done has ended the proxy it was to end: the one that     *)
(* served its data dir, listed, when the stop read the pidfile.            *)
THEOREM StopCorrect == Spec => []StopWorks
<1>1. HostInv => StopWorks
  BY DEF HostInv, AimInv, StopWorks
<1>. QED BY HostInit, HostStep, <1>1, PTL DEF Spec
=============================================================================
