---------------------------- MODULE RouteProofs ----------------------------
(***************************************************************************)
(* Proofs about what a request is served under: the mode of its route      *)
(* (ModeControl), for any mode changes, route changes, requests and any    *)
(* number of crashes; and the chaos of its route (ChaosInjection), for any *)
(* services, configurations, clients and paths.                            *)
(***************************************************************************)
EXTENDS ModeControl, ChaosInjection, WellFoundedInduction, TLAPS

Busy(s) == spc[s] \in {"truncated", "detached", "written"}

(* Who is between the file and the mode asks for a mode that is written.   *)
TypeInv == TypeOK /\ \A s \in Setters : Busy(s) => wants[s] \in Durable

(* A label is at most eleven bytes long.                                   *)
LEMMA LabelLengths == \A m \in Durable : LabelLength[m] \in 1..11
  BY DEF Durable, LabelLength

(* Writing a label over a file leaves a file.                              *)
LEMMA OverwriteType ==
  ASSUME NEW f \in [label: Durable \cup {NoMode}, length: 0..11],
         NEW m \in Durable
  PROVE  Overwrite(f, m) \in [label: Durable \cup {NoMode}, length: 0..11]
  BY LabelLengths DEF Overwrite

(* What a file is resumed with is a mode that was set by somebody.         *)
LEMMA ResumeType ==
  ASSUME NEW f \in [label: Durable \cup {NoMode}, length: 0..11]
  PROVE  Resume(f) \in Durable
  BY ModeAssumption DEF Resume, Parsed

(* Between a route's mode and the global one there is always a mode.       *)
LEMMA EffectiveType ==
  ASSUME NEW m \in Modes, NEW o \in Modes \cup {NoMode}
  PROVE  Effective(m, o) \in Modes
  BY DEF Effective

(* Initially every variable has its type.                                  *)
THEOREM ModeTypeInit == Init => TypeInv
  <1> SUFFICES ASSUME Init PROVE TypeInv
    OBVIOUS
  <1>1. file \in [label: Durable \cup {NoMode}, length: 0..11]
    BY DEF Init, EmptyFile
  <1>2. mode \in Modes /\ crashes \in 0..MaxCrashes
    BY ModeAssumption DEF Init, Modes
  <1> QED BY <1>1, <1>2 DEF Init, TypeInv, TypeOK, Busy

USE DEF vars, fileVars, inputVars, requestVars, historyVars

(* No step breaks the types.                                               *)
THEOREM ModeTypeStep == TypeInv /\ [Next]_vars => TypeInv'
  <1> SUFFICES ASSUME TypeInv, [Next]_vars PROVE TypeInv'
    OBVIOUS
  <1> USE ModeAssumption DEF TypeInv, TypeOK, Busy
  <1>1. ASSUME NEW s \in Setters, TruncateFile(s) PROVE TypeInv'
    BY <1>1 DEF TruncateFile, DisturbedIf, EmptyFile, Others, Persists, Modes
  <1>2. ASSUME NEW s \in Setters, WriteLabel(s) PROVE TypeInv'
    <2>1. wants[s] \in Durable
      BY <1>2 DEF WriteLabel
    <2>2. file' \in [label: Durable \cup {NoMode}, length: 0..11]
      BY <1>2, <2>1, OverwriteType DEF WriteLabel
    <2> QED BY <1>2, <2>1, <2>2 DEF WriteLabel
  <1>3. ASSUME NEW s \in Setters, WriteFail(s) PROVE TypeInv'
    BY <1>3 DEF WriteFail, DisturbedIf, Persists, Modes
  <1>4. ASSUME NEW s \in Setters, StoreMode(s) PROVE TypeInv'
    <2>1. mode' \in Modes /\ inEffect' \in [Requests -> SUBSET Modes]
      BY <1>4, EffectiveType DEF StoreMode, Witness
    <2> QED BY <1>4, <2>1 DEF StoreMode
  <1>5. ASSUME NEW s \in Setters, Disconnect(s) PROVE TypeInv'
    BY <1>5 DEF Disconnect, DisturbedIf
  <1>6. ASSUME NEW q \in Routers, SetUpstreams(q) PROVE TypeInv'
    <2>1. override' \in Modes \cup {NoMode} /\ inEffect' \in [Requests -> SUBSET Modes]
      BY <1>6, EffectiveType DEF SetUpstreams, Witness
    <2> QED BY <1>6, <2>1 DEF SetUpstreams
  <1>7. ASSUME NEW r \in Requests, ReadMode(r) PROVE TypeInv'
    BY <1>7, EffectiveType DEF ReadMode
  <1>8. ASSUME NEW r \in Requests, Dispatch(r) PROVE TypeInv'
    <2>1. Effective(rmode[r], override) \in Modes \cup {NoMode}
      BY DEF Effective
    <2> QED BY <1>8, <2>1 DEF Dispatch
  <1>9. CASE Crash
    <2>1. crashes' \in 0..MaxCrashes
      BY <1>9 DEF Crash
    <2>2. /\ spc' \in [Setters -> {"idle", "done", "gone"}]
          /\ rpc' \in [Requests -> {"idle", "read", "done", "gone"}]
      BY <1>9 DEF Crash
    <2>3. up' \in BOOLEAN /\ UNCHANGED <<mode, override, fileVars, inputVars, rmode, rdone, historyVars>>
      BY <1>9 DEF Crash
    <2> QED BY <2>1, <2>2, <2>3
  <1>10. CASE Restart
    BY <1>10, ResumeType DEF Restart, Modes
  <1>11. CASE UNCHANGED vars
    BY <1>11
  <1> QED
    BY <1>1, <1>2, <1>3, <1>4, <1>5, <1>6, <1>7, <1>8, <1>9, <1>10, <1>11
    DEF Next, SetterStep

(* ModeControl is type correct: the mode, its file, the routes' overrides  *)
(* and what requests read of them are of the kinds the code gives them.    *)
THEOREM ModeTypeCorrect == Spec => []TypeOK
  <1>1. TypeInv => TypeOK
    BY DEF TypeInv
  <1> QED BY <1>1, ModeTypeInit, ModeTypeStep, PTL DEF Spec

-----------------------------------------------------------------------------
(* A restart never leaves the proxy answering 503 for ever: whatever the   *)
(* file holds, the mode it resumes in is one that serves.                  *)
THEOREM NeverStuck == Spec => NeverStuckTransitioning
  <1>1. TypeInv /\ [Next]_vars => [~up /\ up' => mode' \in Durable]_vars
    <2> SUFFICES ASSUME TypeInv, Next, ~up, up' PROVE mode' \in Durable
      OBVIOUS
    <2>1. ASSUME NEW s \in Setters, SetterStep(s) PROVE FALSE
      BY <2>1 DEF SetterStep, TruncateFile, WriteLabel, WriteFail, StoreMode, Disconnect
    <2>2. Restart
      BY <2>1 DEF Next, SetUpstreams, ReadMode, Dispatch, Crash
    <2> QED BY <2>2, ResumeType DEF Restart, TypeInv, TypeOK
  <1> QED BY <1>1, ModeTypeInit, ModeTypeStep, PTL DEF Spec, NeverStuckTransitioning

-----------------------------------------------------------------------------
(* A request under way that no change of the routes has overtaken would be *)
(* served in a mode that was in effect.                                    *)
RouteInv ==
  /\ \A r \in Requests : rpc[r] = "read" => up
  /\ \A r \in Requests \ rerouted :
       /\ rpc[r] = "read" => Effective(rmode[r], override) \in inEffect[r]
       /\ rpc[r] = "done" => rdone[r] \in inEffect[r]

(* Every step keeps what is known of the mode a request would get.         *)
THEOREM RouteStep == TypeInv /\ RouteInv /\ [Next]_vars => RouteInv'
  <1> SUFFICES ASSUME TypeInv, RouteInv, [Next]_vars PROVE RouteInv'
    OBVIOUS
  <1> USE DEF TypeInv, TypeOK, RouteInv
  <1>1. ASSUME NEW s \in Setters, SetterStep(s) PROVE RouteInv'
    <2>1. /\ UNCHANGED <<up, override, rpc, rmode, rdone, rerouted>>
          /\ \A r \in Requests : inEffect[r] \subseteq inEffect'[r]
      BY <1>1 DEF SetterStep, TruncateFile, WriteLabel, WriteFail, StoreMode, Disconnect,
                  DisturbedIf, Witness
    <2> QED BY <2>1
  <1>2. ASSUME NEW q \in Routers, SetUpstreams(q) PROVE RouteInv'
    BY <1>2 DEF SetUpstreams, Witness
  <1>3. ASSUME NEW r \in Requests, ReadMode(r) PROVE RouteInv'
    BY <1>3 DEF ReadMode
  <1>4. ASSUME NEW r \in Requests, Dispatch(r) PROVE RouteInv'
    BY <1>4 DEF Dispatch
  <1>5. CASE Crash
    BY <1>5 DEF Crash
  <1>6. CASE Restart
    BY <1>6 DEF Restart
  <1>7. CASE UNCHANGED vars
    BY <1>7
  <1> QED BY <1>1, <1>2, <1>3, <1>4, <1>5, <1>6, <1>7 DEF Next

(* A request is served in a mode that was in effect for its service while  *)
(* it ran, unless the routes were changed between its two reads.           *)
THEOREM ServedInEffect == Spec => []ServedInModeOfRoute
  <1>1. Init => RouteInv
    BY DEF Init, RouteInv
  <1>2. RouteInv => ServedInModeOfRoute
    BY DEF RouteInv, ServedInModeOfRoute
  <1> QED BY <1>1, <1>2, ModeTypeInit, ModeTypeStep, RouteStep, PTL DEF Spec

-----------------------------------------------------------------------------
(* While nothing has been disturbed at most one mode change is between the *)
(* file and the mode, and the file is empty, holds what that one is about  *)
(* to set, or holds the mode.                                              *)
Alone == \A s, t \in Setters : Busy(s) /\ Busy(t) => s = t

FileInv ==
  ~disturbed =>
    /\ Alone
    /\ \A s \in Setters : spc[s] # "detached"
    /\ \A s \in Setters : spc[s] = "truncated" => file = EmptyFile
    /\ \A s \in Setters : spc[s] = "written" => Parsed(file) = wants[s]
    /\ up /\ mode # "TRANSITIONING" /\ (\A s \in Setters : ~Busy(s)) => Resume(file) = mode

PersistInv == FileInv /\ (~up => \A s \in Setters : ~Busy(s))

(* A label written over an empty file is read back.                        *)
LEMMA WrittenIsParsed ==
  ASSUME NEW m \in Durable
  PROVE  Parsed(Overwrite(EmptyFile, m)) = m
  BY LabelLengths, ModeAssumption DEF Parsed, Overwrite, EmptyFile, Modes

(* A file that parses is resumed with.                                     *)
LEMMA ParsedIsResumed ==
  ASSUME NEW f, NEW m \in Durable, Parsed(f) = m
  PROVE  Resume(f) = m
  BY ModeAssumption DEF Resume, Modes

(* Every step keeps what is known of the mode file.                        *)
THEOREM PersistStep == TypeInv /\ PersistInv /\ [Next]_vars => PersistInv'
  <1> SUFFICES ASSUME TypeInv, PersistInv, [Next]_vars PROVE PersistInv'
    OBVIOUS
  <1> USE DEF PersistInv, FileInv, Alone, Busy
  <1>1. ASSUME NEW s \in Setters, TruncateFile(s) PROVE PersistInv'
    BY <1>1 DEF TruncateFile, DisturbedIf, Others, TypeInv, TypeOK
  <1>2. ASSUME NEW s \in Setters, WriteLabel(s) PROVE PersistInv'
    <2>1. wants[s] \in Durable
      BY <1>2 DEF WriteLabel, TypeInv
    <2>2. ~disturbed => Parsed(file') = wants[s]
      BY <1>2, <2>1, WrittenIsParsed DEF WriteLabel
    <2> QED BY <1>2, <2>2 DEF WriteLabel, TypeInv, TypeOK
  <1>3. ASSUME NEW s \in Setters, WriteFail(s) PROVE PersistInv'
    BY <1>3 DEF WriteFail, DisturbedIf, TypeInv, TypeOK
  <1>4. ASSUME NEW s \in Setters, StoreMode(s) PROVE PersistInv'
    <2>1. spc[s] = "written" => wants[s] \in Durable
      BY DEF TypeInv
    <2>2. CASE spc[s] = "written"
      <3>1. ~disturbed => Resume(file) = wants[s]
        BY <2>1, <2>2, ParsedIsResumed
      <3> QED BY <1>4, <2>2, <3>1 DEF StoreMode, TypeInv, TypeOK
    <2>3. CASE up /\ spc[s] = "idle" /\ ~Persists(wants[s])
      <3>1. mode' = "TRANSITIONING"
        BY <1>4, <2>3 DEF StoreMode, Persists
      <3> QED BY <1>4, <2>3, <3>1 DEF StoreMode, TypeInv, TypeOK
    <2> QED BY <1>4, <2>2, <2>3 DEF StoreMode
  <1>5. ASSUME NEW s \in Setters, Disconnect(s) PROVE PersistInv'
    BY <1>5 DEF Disconnect, DisturbedIf, TypeInv, TypeOK
  <1>6. ASSUME NEW q \in Routers, SetUpstreams(q) PROVE PersistInv'
    BY <1>6 DEF SetUpstreams
  <1>7. ASSUME NEW r \in Requests, ReadMode(r) \/ Dispatch(r) PROVE PersistInv'
    BY <1>7 DEF ReadMode, Dispatch
  <1>8. CASE Crash
    BY <1>8 DEF Crash
  <1>9. CASE Restart
    BY <1>9 DEF Restart
  <1>10. CASE UNCHANGED vars
    BY <1>10
  <1> QED
    BY <1>1, <1>2, <1>3, <1>4, <1>5, <1>6, <1>7, <1>8, <1>9, <1>10 DEF Next, SetterStep

(* With nothing under way a restart would resume in the mode the proxy is  *)
(* in, whatever crashes there were, as long as no two mode changes overlap *)
(* and none fails to write or is dropped: the file is written first.       *)
THEOREM RestartKeeps == Spec => []RestartKeepsModeUndisturbed
  <1>1. Init => PersistInv
    <2> SUFFICES ASSUME Init PROVE PersistInv
      OBVIOUS
    <2>1. Resume(file) = mode
      BY DEF Init, EmptyFile, Resume, Parsed
    <2> QED BY <2>1 DEF Init, PersistInv, FileInv, Alone, Busy
  <1>2. TypeInv /\ PersistInv => RestartKeepsModeUndisturbed
    BY DEF PersistInv, FileInv, Busy, RestartKeepsModeUndisturbed, RestartKeepsMode, AtRest
  <1> QED BY <1>1, <1>2, ModeTypeInit, ModeTypeStep, PersistStep, PTL DEF Spec

-----------------------------------------------------------------------------
(***************************************************************************)
(* The glob match of chaos.rs, for patterns and paths of any length.       *)
(***************************************************************************)
(* A set of naturals that is not empty has a least element.                *)
LEMMA LeastNat ==
  ASSUME NEW S, S \subseteq Nat, S # {}
  PROVE  \E n \in S : \A m \in S : n <= m
<1>1. PICK n \in S : \A m \in S : ~ (<<m, n>> \in OpToRel(<, Nat))
  BY NatLessThanWellFounded, WFMin
<1>2. \A m \in S : ~ (m < n)
  BY <1>1 DEF OpToRel
<1>. QED BY <1>2

(* How the path s from its j-th segment is split over the pattern p from   *)
(* its i-th: cut[m] is where the stretch of p[m] ends.  Two "**" at the    *)
(* end need a segment.                                                     *)
Splits(p, s, i, j) ==
  {cut \in [i - 1..Len(p) -> 0..Len(s)] :
     /\ cut[i - 1] = j - 1 /\ cut[Len(p)] = Len(s)
     /\ \A m \in i..Len(p) :
          /\ cut[m - 1] <= cut[m]
          /\ p[m] # "**" => cut[m] = cut[m - 1] + 1 /\ p[m] \in {"*", s[cut[m]]}
     /\ i < Len(p) /\ ~Plain(p) => cut[Len(p) - 2] < Len(s)}

Reach(p, s, i) == {j \in 1..Len(s) + 1 : Splits(p, s, i, j) # {}}

(* Behind the pattern there is nothing left of the path.                   *)
LEMMA ReachEnd ==
  ASSUME NEW p \in Seq(SegmentNames), NEW s \in Seq(SegmentNames)
  PROVE  Reach(p, s, Len(p) + 1) = MatchingFrom(p, s, Len(p) + 1, {})
<1>. DEFINE N == Len(p) L == Len(s)
<1>0. N \in Nat /\ L \in Nat
  OBVIOUS
<1>1. ASSUME NEW j \in 1..L + 1, Splits(p, s, N + 1, j) # {} PROVE j > L
  BY <1>0, <1>1 DEF Splits
<1>2. ASSUME NEW j \in 1..L + 1, j > L PROVE Splits(p, s, N + 1, j) # {}
  <2>. DEFINE cut == [m \in N..N |-> L]
  <2>1. cut \in [N..N -> 0..L] /\ cut[N] = L
    BY <1>0
  <2>2. j - 1 = L /\ (N + 1) - 1 = N /\ N + 1 > N
    BY <1>0, <1>2
  <2>3. \A m \in (N + 1)..N : FALSE
    BY <1>0
  <2>4. (N + 1) - 1..N = N..N /\ ~ (N + 1 < N)
    BY <1>0, <2>2
  <2>5. cut \in Splits(p, s, N + 1, j)
    <3>. HIDE DEF cut
    <3>1. cut \in [(N + 1) - 1..N -> 0..L] /\ cut[(N + 1) - 1] = j - 1
      BY <2>1, <2>2, <2>4
    <3>. QED BY <2>1, <2>3, <2>4, <3>1 DEF Splits
  <2>. QED BY <2>5
<1>3. \A j \in 1..L + 1 : j \in MatchingFrom(p, s, N + 1, {}) <=> j > L
  BY <1>0 DEF MatchingFrom
<1>. QED BY <1>1, <1>2, <1>3 DEF Reach, MatchingFrom

(* A split without its first stretch.                                      *)
LEMMA SplitRest ==
  ASSUME NEW p \in Seq(SegmentNames), NEW s \in Seq(SegmentNames),
         NEW i \in 1..Len(p), NEW j \in 1..Len(s) + 1, NEW cut \in Splits(p, s, i, j)
  PROVE  /\ cut[i] \in j - 1..Len(s) /\ Splits(p, s, i + 1, cut[i] + 1) # {}
         /\ cut[i - 1] = j - 1 /\ cut[Len(p)] = Len(s)
         /\ p[i] # "**" => cut[i] = j /\ p[i] \in {"*", s[j]}
         /\ i < Len(p) /\ ~Plain(p) => cut[Len(p) - 2] < Len(s)
<1>. DEFINE N == Len(p) L == Len(s)
            rest == [m \in i..N |-> cut[m]]
<1>0. N \in Nat /\ L \in Nat /\ i \in Nat
  OBVIOUS
<1>1. /\ cut \in [i - 1..N -> 0..L] /\ cut[i - 1] = j - 1 /\ cut[N] = L
      /\ \A m \in i..N :
           /\ cut[m - 1] <= cut[m]
           /\ p[m] # "**" => cut[m] = cut[m - 1] + 1 /\ p[m] \in {"*", s[cut[m]]}
      /\ i < N /\ ~Plain(p) => cut[N - 2] < L
  BY DEF Splits
<1>2. i \in i..N /\ i \in i - 1..N /\ N \in i..N
  BY <1>0
<1>3. cut[i] \in j - 1..L
  BY <1>0, <1>1, <1>2
<1>4. p[i] # "**" => cut[i] = j /\ p[i] \in {"*", s[j]}
  BY <1>1, <1>2
<1>5. rest \in [i..N -> 0..L] /\ \A m \in i..N : rest[m] = cut[m]
  BY <1>0, <1>1
<1>6. \A m \in i + 1..N : m \in i..N /\ m - 1 \in i..N
  BY <1>0
<1>7. i + 1 < N => N - 2 \in i..N /\ i < N
  BY <1>0
<1>8. rest \in Splits(p, s, i + 1, cut[i] + 1)
  <2>. HIDE DEF rest
  <2>1. (i + 1) - 1 = i /\ (cut[i] + 1) - 1 = cut[i]
    BY <1>0, <1>3
  <2>2. rest[i] = cut[i] /\ rest[N] = L
    BY <1>1, <1>2, <1>5
  <2>3. \A m \in i + 1..N :
          /\ rest[m - 1] <= rest[m]
          /\ p[m] # "**" => rest[m] = rest[m - 1] + 1 /\ p[m] \in {"*", s[rest[m]]}
    BY <1>1, <1>5, <1>6
  <2>4. i + 1 < N /\ ~Plain(p) => rest[N - 2] < L
    BY <1>1, <1>5, <1>7
  <2>. QED BY <1>5, <2>1, <2>2, <2>3, <2>4 DEF Splits
<1>. QED BY <1>1, <1>3, <1>4, <1>8

(* A split with one stretch more.                                          *)
LEMMA SplitMore ==
  ASSUME NEW p \in Seq(SegmentNames), NEW s \in Seq(SegmentNames),
         NEW i \in 1..Len(p), NEW j \in 1..Len(s) + 1,
         NEW k \in j..Len(s) + 1, Splits(p, s, i + 1, k) # {},
         p[i] # "**" => k = j + 1 /\ p[i] \in {"*", s[j]},
         i + 1 = Len(p) /\ ~Plain(p) => j <= Len(s)
  PROVE  Splits(p, s, i, j) # {}
<1>. DEFINE N == Len(p) L == Len(s)
<1>0. N \in Nat /\ L \in Nat /\ i \in Nat /\ j \in Nat /\ k \in Nat
  OBVIOUS
<1>1. PICK rest : rest \in Splits(p, s, i + 1, k)
  OBVIOUS
<1>2. /\ rest \in [i..N -> 0..L] /\ rest[i] = k - 1 /\ rest[N] = L
      /\ \A m \in i + 1..N :
           /\ rest[m - 1] <= rest[m]
           /\ p[m] # "**" => rest[m] = rest[m - 1] + 1 /\ p[m] \in {"*", s[rest[m]]}
      /\ i + 1 < N /\ ~Plain(p) => rest[N - 2] < L
  <2>1. (i + 1) - 1 = i
    BY <1>0
  <2>. QED BY <1>1, <2>1 DEF Splits
<1>. DEFINE cut == [m \in i - 1..N |-> IF m = i - 1 THEN j - 1 ELSE rest[m]]
<1>3. cut[i - 1] = j - 1 /\ \A m \in i..N : m \in i - 1..N /\ cut[m] = rest[m]
  BY <1>0
<1>4. cut \in [i - 1..N -> 0..L]
  <2>1. \A m \in i - 1..N : m = i - 1 \/ m \in i..N
    BY <1>0
  <2>2. j - 1 \in 0..L
    BY <1>0
  <2>. QED BY <1>2, <2>1, <2>2
<1>. HIDE DEF cut
<1>5. cut[N] = L
  BY <1>0, <1>2, <1>3
<1>6. ASSUME NEW m \in i..N
      PROVE  /\ cut[m - 1] <= cut[m]
             /\ p[m] # "**" => cut[m] = cut[m - 1] + 1 /\ p[m] \in {"*", s[cut[m]]}
  <2>1. CASE m = i
    <3>1. cut[m - 1] = j - 1 /\ cut[m] = k - 1
      BY <1>2, <1>3, <2>1
    <3>2. p[m] # "**" => cut[m] = j /\ p[m] \in {"*", s[j]}
      BY <1>0, <2>1, <3>1
    <3>3. cut[m - 1] <= cut[m]
      BY <1>0, <3>1
    <3>4. ASSUME p[m] # "**" PROVE cut[m] = cut[m - 1] + 1 /\ p[m] \in {"*", s[cut[m]]}
      <4>1. cut[m] = j /\ p[m] \in {"*", s[j]}
        BY <3>2, <3>4
      <4>2. j = (j - 1) + 1
        BY <1>0
      <4>3. cut[m] = cut[m - 1] + 1
        BY <3>1, <4>1, <4>2
      <4>. QED BY <4>1, <4>3
    <3>. QED BY <3>3, <3>4
  <2>2. CASE m # i
    <3>1. m \in i + 1..N /\ m - 1 \in i..N
      BY <1>0, <2>2
    <3>. QED BY <1>2, <1>3, <3>1
  <2>. QED BY <2>1, <2>2
<1>7. i < N /\ ~Plain(p) => cut[N - 2] < L
  <2>. SUFFICES ASSUME i < N, ~Plain(p) PROVE cut[N - 2] < L
    OBVIOUS
  <2>1. CASE i + 1 = N
    <3>1. N - 2 = i - 1
      BY <1>0, <2>1
    <3>. QED BY <1>0, <1>3, <2>1, <3>1
  <2>2. CASE i + 1 < N
    <3>1. N - 2 \in i..N
      BY <1>0, <2>2
    <3>. QED BY <1>2, <1>3, <2>2, <3>1
  <2>. QED BY <1>0, <2>1, <2>2
<1>8. cut \in Splits(p, s, i, j)
  BY <1>3, <1>4, <1>5, <1>6, <1>7 DEF Splits
<1>. QED BY <1>8

(* So one segment of the pattern takes what the code lets it take.         *)
LEMMA ReachStep ==
  ASSUME NEW p \in Seq(SegmentNames), NEW s \in Seq(SegmentNames), NEW i \in 1..Len(p)
  PROVE  Reach(p, s, i) = MatchingFrom(p, s, i, Reach(p, s, i + 1))
<1>. DEFINE N == Len(p) L == Len(s)
            Open(j) == Splits(p, s, i, j) # {}
<1>0. N \in Nat /\ L \in Nat /\ i \in Nat /\ ~ (i > N)
  OBVIOUS
<1>1. ASSUME NEW j \in 1..L + 1, j > L
      PROVE  Open(j) <=> p[i] = "**" /\ i = N
  <2>1. j = L + 1
    BY <1>0, <1>1
  <2>2. ASSUME Open(j) PROVE p[i] = "**" /\ i = N
    <3>1. PICK cut : cut \in Splits(p, s, i, j)
      BY <2>2
    <3>2. cut[i] \in j - 1..L /\ (p[i] # "**" => cut[i] = j)
      BY <3>1, SplitRest
    <3>3. p[i] = "**"
      BY <1>0, <2>1, <3>2
    <3>4. ASSUME i # N PROVE FALSE
      <4>1. /\ cut \in [i - 1..N -> 0..L] /\ cut[i - 1] = L
            /\ \A m \in i..N :
                 cut[m - 1] <= cut[m] /\ (p[m] # "**" => cut[m] = cut[m - 1] + 1)
            /\ i < N /\ ~Plain(p) => cut[N - 2] < L
        <5>1. j - 1 = L
          BY <1>0, <2>1
        <5>. QED BY <3>1, <5>1 DEF Splits
      <4>2. \A m \in i - 1..N : cut[m] = L
        <5>. DEFINE Bad == {m \in i - 1..N : cut[m] # L}
        <5>. SUFFICES ASSUME Bad # {} PROVE FALSE
          OBVIOUS
        <5>1. PICK m \in Bad : \A n \in Bad : m <= n
          <6>1. Bad \subseteq Nat
            BY <1>0
          <6>. HIDE DEF Bad
          <6>. QED BY <6>1, LeastNat
        <5>2. m \in i..N /\ m - 1 \in i - 1..N /\ ~ (m <= m - 1)
          BY <1>0, <4>1, <5>1
        <5>3. cut[m - 1] = L
          BY <5>1, <5>2
        <5>4. cut[m] \in 0..L
          BY <4>1, <5>1
        <5>. QED BY <1>0, <4>1, <5>1, <5>2, <5>3, <5>4
      <4>3. i < N /\ N - 1 \in i..N /\ N \in i..N /\ N - 2 \in i - 1..N
        BY <1>0, <3>4
      <4>4. p[N - 1] = "**" /\ p[N] = "**"
        <5>1. ASSUME NEW m \in i..N PROVE p[m] = "**"
          <6>1. m \in i - 1..N /\ m - 1 \in i - 1..N
            BY <1>0
          <6>2. cut[m] = L /\ cut[m - 1] = L
            BY <4>2, <6>1
          <6>. QED BY <1>0, <4>1, <6>2
        <5>. QED BY <4>3, <5>1
      <4>5. ~Plain(p)
        BY <1>0, <4>3, <4>4 DEF Plain
      <4>. QED BY <1>0, <4>1, <4>2, <4>3, <4>5
    <3>. QED BY <3>3, <3>4
  <2>3. ASSUME p[i] = "**", i = N PROVE Open(j)
    <3>1. N + 1 \notin 1..N /\ ~ (i + 1 = N)
      BY <1>0, <2>3
    <3>2. L + 1 \in MatchingFrom(p, s, N + 1, {})
      BY <1>0 DEF MatchingFrom
    <3>3. Splits(p, s, i + 1, L + 1) # {}
      BY <2>3, <3>2, ReachEnd DEF Reach
    <3>4. L + 1 \in j..Len(s) + 1
      BY <1>0, <2>1
    <3>. QED BY <2>3, <3>1, <3>3, <3>4, SplitMore
  <2>. QED BY <2>2, <2>3
<1>2. ASSUME NEW j \in 1..L + 1, ~ (j > L), p[i] = "**"
      PROVE  Open(j) <=> i = N \/ \E k \in j..L + 1 : k \in Reach(p, s, i + 1)
  <2>1. ASSUME Open(j) PROVE \E k \in j..L + 1 : k \in Reach(p, s, i + 1)
    <3>1. PICK cut : cut \in Splits(p, s, i, j)
      BY <2>1
    <3>2. cut[i] \in j - 1..L /\ Splits(p, s, i + 1, cut[i] + 1) # {}
      BY <3>1, SplitRest
    <3>3. cut[i] + 1 \in j..L + 1 /\ cut[i] + 1 \in 1..L + 1
      BY <1>0, <3>2
    <3>. QED BY <3>2, <3>3 DEF Reach
  <2>2. ASSUME i = N PROVE L + 1 \in j..L + 1 /\ L + 1 \in Reach(p, s, i + 1)
    <3>1. L + 1 \in MatchingFrom(p, s, N + 1, {})
      BY <1>0 DEF MatchingFrom
    <3>. QED BY <1>0, <1>2, <2>2, <3>1, ReachEnd
  <2>3. ASSUME NEW k \in j..L + 1, k \in Reach(p, s, i + 1) PROVE Open(j)
    <3>1. Splits(p, s, i + 1, k) # {} /\ j <= L
      BY <1>0, <1>2, <2>3 DEF Reach
    <3>. QED BY <1>2, <3>1, SplitMore
  <2>. QED BY <2>1, <2>2, <2>3
<1>3. ASSUME NEW j \in 1..L + 1, ~ (j > L), p[i] # "**"
      PROVE  Open(j) <=> p[i] \in {"*", s[j]} /\ j + 1 \in Reach(p, s, i + 1)
  <2>1. ASSUME Open(j) PROVE p[i] \in {"*", s[j]} /\ j + 1 \in Reach(p, s, i + 1)
    <3>1. PICK cut : cut \in Splits(p, s, i, j)
      BY <2>1
    <3>2. cut[i] = j /\ p[i] \in {"*", s[j]} /\ Splits(p, s, i + 1, cut[i] + 1) # {}
      BY <1>3, <3>1, SplitRest
    <3>3. j + 1 \in 1..L + 1
      BY <1>0, <1>3
    <3>. QED BY <3>2, <3>3 DEF Reach
  <2>2. ASSUME p[i] \in {"*", s[j]}, j + 1 \in Reach(p, s, i + 1) PROVE Open(j)
    <3>1. Splits(p, s, i + 1, j + 1) # {} /\ j + 1 \in j..L + 1 /\ j <= L
      BY <1>0, <1>3, <2>2 DEF Reach
    <3>. QED BY <1>3, <2>2, <3>1, SplitMore
  <2>. QED BY <2>1, <2>2
<1>. HIDE DEF Open
<1>4. ASSUME NEW j \in 1..L + 1
      PROVE  Open(j) <=> j \in MatchingFrom(p, s, i, Reach(p, s, i + 1))
  <2>1. CASE j > L
    BY <1>0, <1>1, <2>1 DEF MatchingFrom
  <2>2. CASE ~ (j > L) /\ p[i] = "**"
    BY <1>0, <1>2, <2>2 DEF MatchingFrom
  <2>3. CASE ~ (j > L) /\ p[i] # "**"
    BY <1>0, <1>3, <2>3 DEF MatchingFrom
  <2>. QED BY <2>1, <2>2, <2>3
<1>5. MatchingFrom(p, s, i, Reach(p, s, i + 1)) \subseteq 1..L + 1
  BY DEF MatchingFrom
<1>6. Reach(p, s, i) = {j \in 1..L + 1 : Open(j)}
  BY DEF Reach, Open
<1>. QED BY <1>4, <1>5, <1>6

(* What is behind a segment of the pattern.                                *)
Behind(p, f, i) == IF i > Len(p) THEN {} ELSE f[i + 1]

(* The reach does what the recursion asks of its function.                 *)
LEMMA ReachSolves ==
  ASSUME NEW p \in Seq(SegmentNames), NEW s \in Seq(SegmentNames)
  PROVE  LET f == [i \in 1..Len(p) + 1 |-> Reach(p, s, i)]
         IN  f = [i \in 1..Len(p) + 1 |-> MatchingFrom(p, s, i, Behind(p, f, i))]
<1>. DEFINE N == Len(p)
            f == [i \in 1..N + 1 |-> Reach(p, s, i)]
<1>0. N \in Nat
  OBVIOUS
<1>1. ASSUME NEW i \in 1..N + 1 PROVE Reach(p, s, i) = MatchingFrom(p, s, i, Behind(p, f, i))
  <2>1. CASE i = N + 1
    <3>1. i > Len(p)
      BY <1>0, <2>1
    <3>2. Behind(p, f, i) = {}
      BY <3>1 DEF Behind
    <3>. QED BY <2>1, <3>2, ReachEnd
  <2>2. CASE i # N + 1
    <3>1. i \in 1..N /\ i + 1 \in 1..N + 1 /\ ~ (i > Len(p))
      BY <1>0, <2>2
    <3>2. Behind(p, f, i) = Reach(p, s, i + 1)
      BY <3>1 DEF Behind
    <3>. QED BY <3>1, <3>2, ReachStep
  <2>. QED BY <2>1, <2>2
<1>. QED BY <1>1

(* No other function does what the recursion asks.                         *)
LEMMA ReachOnly ==
  ASSUME NEW p \in Seq(SegmentNames), NEW s \in Seq(SegmentNames), NEW f,
         f = [i \in 1..Len(p) + 1 |-> MatchingFrom(p, s, i, Behind(p, f, i))]
  PROVE  \A i \in 1..Len(p) + 1 : f[i] = Reach(p, s, i)
<1>. DEFINE N == Len(p)
            Bad == {n \in 0..N : f[N + 1 - n] # Reach(p, s, N + 1 - n)}
<1>0. N \in Nat
  OBVIOUS
<1>1. \A i \in 1..N + 1 : f[i] = MatchingFrom(p, s, i, Behind(p, f, i))
  <2>1. \A i \in 1..N + 1 :
          [k \in 1..N + 1 |-> MatchingFrom(p, s, k, Behind(p, f, k))][i]
            = MatchingFrom(p, s, i, Behind(p, f, i))
    OBVIOUS
  <2>. QED BY <2>1
<1>2. Bad = {}
  <2>. SUFFICES ASSUME Bad # {} PROVE FALSE
    OBVIOUS
  <2>1. PICK n \in Bad : \A m \in Bad : n <= m
    <3>1. Bad \subseteq Nat
      OBVIOUS
    <3>. HIDE DEF Bad
    <3>. QED BY <3>1, LeastNat
  <2>. DEFINE i == N + 1 - n
  <2>2. i \in 1..N + 1 /\ f[i] # Reach(p, s, i) /\ n \in 0..N
    BY <1>0, <2>1
  <2>3. CASE n = 0
    <3>1. i = N + 1 /\ i > Len(p)
      BY <1>0, <2>3
    <3>2. Behind(p, f, i) = {}
      BY <3>1 DEF Behind
    <3>3. f[i] = MatchingFrom(p, s, N + 1, {})
      BY <1>1, <2>2, <3>1, <3>2
    <3>. QED BY <2>2, <3>1, <3>3, ReachEnd
  <2>4. CASE n # 0
    <3>1. i \in 1..N /\ n - 1 \in 0..N /\ i + 1 = N + 1 - (n - 1) /\ ~ (n <= n - 1) /\ ~ (i > Len(p))
      BY <1>0, <2>2, <2>4
    <3>2. n - 1 \notin Bad
      BY <2>1, <3>1
    <3>3. f[i + 1] = Reach(p, s, i + 1)
      BY <3>1, <3>2
    <3>4. Behind(p, f, i) = Reach(p, s, i + 1)
      BY <3>1, <3>3 DEF Behind
    <3>5. f[i] = MatchingFrom(p, s, i, Reach(p, s, i + 1))
      BY <1>1, <2>2, <3>4
    <3>. QED BY <2>2, <3>1, <3>5, ReachStep
  <2>. QED BY <2>3, <2>4
<1>3. ASSUME NEW i \in 1..N + 1 PROVE f[i] = Reach(p, s, i)
  <2>1. N + 1 - i \in 0..N /\ N + 1 - (N + 1 - i) = i
    BY <1>0
  <2>. QED BY <1>2, <2>1
<1>. QED BY <1>3

(* glob_match (chaos.rs:137-163) accepts a path if and only if it can be   *)
(* split over the pattern, "*" taking one segment and "**" any number of   *)
(* them, and, when the pattern ends in two "**", a segment is left there.  *)
THEOREM GlobDecides ==
  ASSUME NEW p \in Seq(SegmentNames), NEW s \in Seq(SegmentNames)
  PROVE  GlobMatch(p, s) <=> Splits(p, s, 1, 1) # {}
<1>. DEFINE N == Len(p)
            from[i \in 1..N + 1] ==
              MatchingFrom(p, s, i, IF i > Len(p) THEN {} ELSE from[i + 1])
            f == [i \in 1..N + 1 |-> Reach(p, s, i)]
<1>0. N \in Nat /\ 1 \in 1..N + 1 /\ 1 \in 1..Len(s) + 1
  OBVIOUS
<1>1. GlobMatch(p, s) <=> 1 \in from[1]
  BY DEF GlobMatch
<1>2. f = [i \in 1..N + 1 |-> MatchingFrom(p, s, i, Behind(p, f, i))]
  BY ReachSolves
<1>3. from = [i \in 1..N + 1 |-> MatchingFrom(p, s, i, Behind(p, from, i))]
  <2>. HIDE DEF f
  <2>. QED BY <1>2 DEF Behind
<1>4. from[1] = Reach(p, s, 1)
  <2>. HIDE DEF from
  <2>. QED BY <1>0, <1>3, ReachOnly
<1>5. 1 \in Reach(p, s, 1) <=> Splits(p, s, 1, 1) # {}
  BY <1>0 DEF Reach
<1>. QED BY <1>1, <1>4, <1>5

(* So it accepts only what the pattern covers, and all of it but for the   *)
(* end of two "**".                                                        *)
LEMMA GlobCovers ==
  ASSUME NEW p \in Seq(SegmentNames), NEW s \in Seq(SegmentNames)
  PROVE  /\ GlobMatch(p, s) => Covers(p, s)
         /\ Plain(p) /\ Covers(p, s) => GlobMatch(p, s)
<1>. DEFINE N == Len(p) L == Len(s)
<1>0. N \in Nat /\ L \in Nat /\ DOMAIN p = 1..N /\ 1 - 1 = 0
  OBVIOUS
<1>1. ASSUME NEW cut \in Splits(p, s, 1, 1) PROVE Covers(p, s)
  BY <1>0, <1>1 DEF Splits, Covers
<1>2. ASSUME Plain(p), Covers(p, s) PROVE Splits(p, s, 1, 1) # {}
  <2>1. PICK cut \in [0..N -> 0..L] :
          /\ cut[0] = 0 /\ cut[N] = L
          /\ \A i \in 1..N :
               /\ cut[i - 1] <= cut[i]
               /\ p[i] # "**" => cut[i] = cut[i - 1] + 1 /\ p[i] \in {"*", s[cut[i]]}
    BY <1>0, <1>2 DEF Covers
  <2>2. cut \in Splits(p, s, 1, 1)
    BY <1>0, <1>2, <2>1 DEF Splits
  <2>. QED BY <2>2
<1>. QED BY <1>1, <1>2, GlobDecides

-----------------------------------------------------------------------------
(* find_endpoint_rule takes the first rule that matches (chaos.rs:165-168) *)
(* and the service's own configuration when none does.                     *)
LEMMA FirstMatch ==
  ASSUME NEW cc \in Configs, NEW path \in Seq(SegmentNames)
  PROVE  \/ /\ ActiveConfig(cc, path) = cc
            /\ \A n \in DOMAIN cc.rules : ~GlobMatch(cc.rules[n].pattern, path)
         \/ \E n \in DOMAIN cc.rules :
              /\ GlobMatch(cc.rules[n].pattern, path)
              /\ ActiveConfig(cc, path) = cc.rules[n].config
              /\ \A m \in 1..n - 1 : ~GlobMatch(cc.rules[m].pattern, path)
<1>. DEFINE hits == {n \in 1..Len(cc.rules) : GlobMatch(cc.rules[n].pattern, path)}
            at == IF hits # {} THEN Min(hits) ELSE 0
<1>1. cc.rules \in Seq([pattern: Seq(SegmentNames), config: Configs])
  BY RulesAssumption
<1>2. DOMAIN cc.rules = 1..Len(cc.rules) /\ Len(cc.rules) \in Nat
  BY <1>1
<1>3. ActiveConfig(cc, path) = IF at = 0 THEN cc ELSE cc.rules[at].config
  BY DEF ActiveConfig, SelectInSeq
<1>4. CASE hits = {}
  BY <1>2, <1>3, <1>4
<1>5. CASE hits # {}
  <2>1. \E n \in hits : \A m \in hits : n <= m
    <3>1. hits \subseteq Nat
      OBVIOUS
    <3>. HIDE DEF hits
    <3>. QED BY <1>5, <3>1, LeastNat
  <2>2. Min(hits) \in hits /\ \A m \in hits : Min(hits) <= m
    <3>. HIDE DEF hits
    <3>. QED BY <2>1 DEF Min
  <2>3. at = Min(hits) /\ at \in 1..Len(cc.rules)
    <3>1. Min(hits) \in 1..Len(cc.rules)
      BY <2>2
    <3>. QED BY <1>5, <3>1
  <2>4. \A m \in 1..at - 1 : m \in 1..Len(cc.rules) /\ m \notin hits
    <3>. HIDE DEF hits, at
    <3>. QED BY <1>2, <2>2, <2>3
  <2>5. at # 0 /\ GlobMatch(cc.rules[at].pattern, path)
    BY <2>2, <2>3
  <2>. QED
    <3>. HIDE DEF at
    <3>. QED BY <1>2, <1>3, <2>3, <2>4, <2>5
<1>. QED BY <1>4, <1>5

LEMMA ElementType ==
  ASSUME NEW S, NEW q \in Seq(S), NEW n \in DOMAIN q
  PROVE  q[n] \in S /\ 1 \in DOMAIN q
<1>1. DOMAIN q = 1..Len(q) /\ Len(q) \in Nat
  OBVIOUS
<1>2. q \in [1..Len(q) -> S]
  OBVIOUS
<1>. QED BY <1>1, <1>2

LEMMA ActiveType ==
  ASSUME NEW cc \in Configs, NEW path \in Seq(SegmentNames)
  PROVE  ActiveConfig(cc, path) \in Configs
<1>1. cc.rules \in Seq([pattern: Seq(SegmentNames), config: Configs])
  BY RulesAssumption
<1>2. \A n \in DOMAIN cc.rules : cc.rules[n] \in [pattern: Seq(SegmentNames), config: Configs]
  BY <1>1, ElementType, Zenon
<1>3. \A n \in DOMAIN cc.rules : cc.rules[n].config \in Configs
  BY <1>2
<1>. QED BY <1>3, FirstMatch

(* What a configuration may draw: a latency and an answer (chaos.rs).      *)
LEMMA LatencyType ==
  ASSUME NEW cc \in Configs
  PROVE  Latencies(cc) \subseteq Nat
<1>1. cc.min \in Nat /\ cc.max \in Nat
  BY RulesAssumption
<1>. QED BY <1>1 DEF Latencies

LEMMA ErrorType ==
  ASSUME NEW cc \in Configs, NEW r \in {"never", "sometimes", "always"}
  PROVE  Errors(cc, r) \subseteq 100..999 \cup {NoError}
<1>1. /\ cc.codes \in Seq([status: Nat, weight: Nat, valid: BOOLEAN])
      /\ cc.status \in Nat
  BY RulesAssumption
<1>2. \A e : e.status \in Nat => StatusOf(e) \in 100..999
  BY DEF StatusOf
<1>3. DrawnErrors(cc) \subseteq 100..999 \cup {NoError}
  <2>. DEFINE weighed == {n \in DOMAIN cc.codes : cc.codes[n].weight > 0}
  <2>0. \A n \in DOMAIN cc.codes :
          cc.codes[n] \in [status: Nat, weight: Nat, valid: BOOLEAN]
    BY <1>1, ElementType, Zenon
  <2>1. \A n \in DOMAIN cc.codes : cc.codes[n].status \in Nat
    BY <2>0
  <2>2. weighed # {} => 1 \in DOMAIN cc.codes
    BY <1>1, ElementType
  <2>3. CASE weighed # {}
    BY <1>2, <2>1, <2>2, <2>3 DEF DrawnErrors
  <2>4. CASE weighed = {}
    <3>1. StatusOf([status |-> cc.status, valid |-> TRUE]) \in 100..999
      BY <1>1 DEF StatusOf
    <3>. QED BY <2>4, <3>1 DEF DrawnErrors
  <2>. QED BY <2>3, <2>4
<1>. QED BY <1>3 DEF Errors

(* The Markov states a step may reach (markov_chaos.rs:59-78).             *)
States == [kind: {"none", "healthy", "degraded"}, left: 0..MaxDwell]

LEMMA StepType ==
  ASSUME NEW m \in States
  PROVE  Step(m) \subseteq States
  BY InjectionAssumption DEF Step, States

(* The chaos in force is that of a table of routes.                        *)
InForce == \A s \in Services : upstreams[s] # NoConfig => \E t \in Tables : t[s] = upstreams[s]

LEMMA ChaosTypeInit == ChaosInit => ChaosTypeOK /\ InForce
<1>. SUFFICES ASSUME ChaosInit PROVE ChaosTypeOK /\ InForce
  OBVIOUS
<1>1. MaxDwell \in Nat /\ MaxRestarts \in Nat
  BY InjectionAssumption
<1>2. Fresh \in States
  BY <1>1 DEF Fresh, States
<1>3. InForce
  BY DEF ChaosInit, InForce
<1>. QED BY <1>1, <1>2, <1>3 DEF ChaosInit, ChaosTypeOK, States

(* A request is bound to its route under a configuration of its service    *)
(* that is enabled.                                                        *)
LEMMA BindType ==
  ASSUME ChaosTypeOK, NEW c \in Clients, NEW p \in Profiles, Disturbed(c, p)
  PROVE  /\ p.service \in Services /\ p.path \in Seq(SegmentNames)
         /\ upstreams[p.service] \in Configs /\ upstreams[p.service].enabled
         /\ ActiveConfig(upstreams[p.service], p.path) \in Configs
<1>1. p.service \in Services /\ p.path \in Seq(SegmentNames)
  BY InjectionAssumption
<1>2. upstreams[p.service] \in Configs \cup {NoConfig}
  BY <1>1 DEF ChaosTypeOK
<1>3. upstreams[p.service] # NoConfig /\ upstreams[p.service].enabled
  BY DEF Disturbed, Applies
<1>. QED BY <1>1, <1>2, <1>3, ActiveType

LEMMA ProductType == \A l, k \in Nat : l * k \in Nat
  OBVIOUS

LEMMA DisturbedType ==
  ASSUME ChaosTypeOK, NEW c \in Clients, NEW p \in Profiles, Disturbed(c, p)
  PROVE  ChaosTypeOK'
<1>. DEFINE ac == ActiveConfig(upstreams[p.service], p.path)
            degraded == ac.model = "markov" /\ markov'[p.service].kind = "degraded"
<1>1. p.service \in Services /\ ac \in Configs
  BY BindType
<1>2. /\ {ac.rate, ac.degradedRate} \subseteq {"never", "sometimes", "always"}
      /\ ac.mult \in Nat
  BY <1>1, RulesAssumption
<1>. HIDE DEF ac
<1>3. markov' \in [Services -> States]
  <2>1. markov \in [Services -> States]
    BY DEF ChaosTypeOK, States
  <2>2. Step(markov[p.service]) \subseteq States
    BY <1>1, <2>1, StepType
  <2>3. markov' \in IF ac.model = "uniform" THEN {markov}
                    ELSE { [markov EXCEPT ![p.service] = m] : m \in Step(markov[p.service]) }
    BY DEF Disturbed, ac
  <2>. QED BY <1>1, <2>1, <2>2, <2>3
<1>4. rate' \in [Clients -> {"never", "sometimes", "always"}]
  <2>1. rate' = [rate EXCEPT ![c] = CASE ac.model = "uniform" -> ac.rate
                                      [] degraded -> ac.degradedRate
                                      [] OTHER    -> "never"]
    BY DEF Disturbed, ac
  <2>2. (CASE ac.model = "uniform" -> ac.rate
           [] degraded -> ac.degradedRate
           [] OTHER    -> "never") \in {"never", "sometimes", "always"}
    BY <1>2
  <2>. QED BY <2>1, <2>2 DEF ChaosTypeOK
<1>5. wait' \in [Clients -> Nat]
  <2>1. wait' \in { [wait EXCEPT ![c] = l * (IF degraded THEN ac.mult ELSE 1)] :
                      l \in Latencies(ac) }
    BY DEF Disturbed, ac
  <2>2. \A l \in Latencies(ac) : l * (IF degraded THEN ac.mult ELSE 1) \in Nat
    <3>1. (IF degraded THEN ac.mult ELSE 1) \in Nat
      BY <1>2
    <3>2. Latencies(ac) \subseteq Nat
      BY <1>1, LatencyType
    <3>. QED BY <3>1, <3>2, ProductType
  <2>. DEFINE times(l) == l * (IF degraded THEN ac.mult ELSE 1)
  <2>3. wait' \in { [wait EXCEPT ![c] = times(l)] : l \in Latencies(ac) }
    BY <2>1
  <2>4. \A l \in Latencies(ac) : times(l) \in Nat
    BY <2>2
  <2>. HIDE DEF times
  <2>. QED BY <2>3, <2>4 DEF ChaosTypeOK
<1>6. /\ upstreams' = upstreams /\ restarts' = restarts
      /\ profile' = [profile EXCEPT ![c] = p] /\ active' = [active EXCEPT ![c] = ac]
      /\ outcome' = [outcome EXCEPT ![c] = NoError] /\ logged' = [logged EXCEPT ![c] = <<>>]
      /\ pc' = [pc EXCEPT ![c] = IF wait'[c] > 0 THEN "sleeping" ELSE "drawing"]
  BY DEF Disturbed, ac
<1>7. active' \in [Clients -> Configs \cup {NoConfig}] /\ profile' \in [Clients -> Profiles]
  BY <1>1, <1>6 DEF ChaosTypeOK
<1>8. /\ outcome' \in [Clients -> 100..999 \cup {NoError}]
      /\ logged' \in [Clients -> {<<>>} \cup (Seq(SegmentNames) \X BOOLEAN)]
  BY <1>6 DEF ChaosTypeOK
<1>9. pc' \in [Clients -> {"idle", "sleeping", "drawing"}]
  BY <1>6 DEF ChaosTypeOK
<1>10. upstreams' \in [Services -> Configs \cup {NoConfig}] /\ restarts' \in 0..MaxRestarts
  BY <1>6 DEF ChaosTypeOK
<1>. QED BY <1>3, <1>4, <1>5, <1>7, <1>8, <1>9, <1>10 DEF ChaosTypeOK, States

LEMMA DrawType ==
  ASSUME ChaosTypeOK, NEW c \in Clients, active[c] # NoConfig, Draw(c)
  PROVE  ChaosTypeOK'
<1>1. PICK e \in Errors(active[c], rate[c]) :
        /\ outcome' = [outcome EXCEPT ![c] = e]
        /\ logged' = [logged EXCEPT ![c] =
             IF e # NoError \/ pc[c] = "sleeping"
               THEN <<profile[c].path, profile[c].query>> ELSE <<>>]
  BY DEF Draw
<1>2. e \in 100..999 \cup {NoError}
  <2>1. active[c] \in Configs /\ rate[c] \in {"never", "sometimes", "always"}
    BY DEF ChaosTypeOK
  <2>. QED BY <2>1, ErrorType
<1>3. profile[c].path \in Seq(SegmentNames) /\ profile[c].query \in BOOLEAN
  BY InjectionAssumption DEF ChaosTypeOK
<1>4. outcome' \in [Clients -> 100..999 \cup {NoError}]
  BY <1>1, <1>2 DEF ChaosTypeOK
<1>5. logged' \in [Clients -> {<<>>} \cup (Seq(SegmentNames) \X BOOLEAN)]
  BY <1>1, <1>3 DEF ChaosTypeOK
<1>. QED BY <1>4, <1>5 DEF Draw, ChaosTypeOK

(* A client is under the first rule and answered from it.                  *)
Follows(c) ==
  /\ pc[c] # "idle" \/ outcome[c] # NoError => Under(profile[c], active[c])
  /\ outcome[c] # NoError => outcome[c] \in DrawnErrors(active[c])

LEMMA FollowsRule == FirstRuleApplies <=> \A c \in Clients : Follows(c)
  BY DEF FirstRuleApplies, Follows

LEMMA RuleType ==
  ASSUME NEW cc \in Configs, NEW n \in DOMAIN cc.rules
  PROVE  cc.rules[n].pattern \in Seq(SegmentNames) /\ cc.rules[n].config \in Configs
<1>1. cc.rules \in Seq([pattern: Seq(SegmentNames), config: Configs])
  BY RulesAssumption
<1>2. cc.rules[n] \in [pattern: Seq(SegmentNames), config: Configs]
  BY <1>1, ElementType, Zenon
<1>. QED BY <1>2

LEMMA UnderActive ==
  ASSUME NEW p, NEW ac, Under(p, ac)
  PROVE  ac # NoConfig
<1>1. PICK cc \in Configs : ac = cc \/ \E n \in DOMAIN cc.rules : ac = cc.rules[n].config
  BY DEF Under
<1>2. ac \in Configs
  BY <1>1, RuleType
<1>. QED BY <1>2, RulesAssumption

(* A request that is bound is under the first rule.                        *)
LEMMA BoundUnder ==
  ASSUME ChaosTypeOK, InForce, NEW c \in Clients, NEW p \in Profiles, Disturbed(c, p)
  PROVE  Under(p, ActiveConfig(upstreams[p.service], p.path))
<1>. DEFINE cc == upstreams[p.service]
            ac == ActiveConfig(cc, p.path)
<1>1. /\ p.service \in Services /\ p.path \in Seq(SegmentNames)
      /\ cc \in Configs /\ cc.enabled
  BY BindType
<1>2. \E t \in Tables : t[p.service] = cc
  <2>1. cc # NoConfig
    BY <1>1, RulesAssumption
  <2>. QED BY <1>1, <2>1 DEF InForce
<1>3. DOMAIN cc.rules = 1..Len(cc.rules) /\ Len(cc.rules) \in Nat
  <2>1. cc.rules \in Seq([pattern: Seq(SegmentNames), config: Configs])
    BY <1>1, RulesAssumption
  <2>. QED BY <2>1
<1>4. ASSUME NEW n \in DOMAIN cc.rules
      PROVE  /\ GlobMatch(cc.rules[n].pattern, p.path) => Covers(cc.rules[n].pattern, p.path)
             /\ ~GlobMatch(cc.rules[n].pattern, p.path) /\ Covers(cc.rules[n].pattern, p.path)
                  => ~Plain(cc.rules[n].pattern)
  <2>1. cc.rules[n].pattern \in Seq(SegmentNames)
    BY <1>1, RuleType
  <2>. QED BY <1>1, <2>1, GlobCovers
<1>5. \/ /\ ac = cc
         /\ \A n \in DOMAIN cc.rules : ~GlobMatch(cc.rules[n].pattern, p.path)
      \/ \E n \in DOMAIN cc.rules :
           /\ GlobMatch(cc.rules[n].pattern, p.path)
           /\ ac = cc.rules[n].config
           /\ \A m \in 1..n - 1 : ~GlobMatch(cc.rules[m].pattern, p.path)
  BY <1>1, FirstMatch
<1>. HIDE DEF cc, ac
<1>6. ASSUME ac = cc, \A n \in DOMAIN cc.rules : ~GlobMatch(cc.rules[n].pattern, p.path)
      PROVE  Under(p, ac)
  <2>1. \A n \in DOMAIN cc.rules :
          Covers(cc.rules[n].pattern, p.path) => ~Plain(cc.rules[n].pattern)
    BY <1>4, <1>6
  <2>. QED BY <1>1, <1>2, <1>6, <2>1 DEF Under
<1>7. ASSUME NEW n \in DOMAIN cc.rules,
             GlobMatch(cc.rules[n].pattern, p.path), ac = cc.rules[n].config,
             \A m \in 1..n - 1 : ~GlobMatch(cc.rules[m].pattern, p.path)
      PROVE  Under(p, ac)
  <2>1. \A m \in 1..n - 1 : m \in DOMAIN cc.rules
    BY <1>3
  <2>. QED BY <1>1, <1>2, <1>4, <1>7, <2>1 DEF Under
<1>8. Under(p, ac)
  <2>1. CASE \E n \in DOMAIN cc.rules :
               /\ GlobMatch(cc.rules[n].pattern, p.path)
               /\ ac = cc.rules[n].config
               /\ \A m \in 1..n - 1 : ~GlobMatch(cc.rules[m].pattern, p.path)
    BY <1>7, <2>1
  <2>. QED BY <1>5, <1>6, <2>1
<1>. QED BY <1>8 DEF cc, ac

(* The inductive invariant of the chaos of the routes: a request is under  *)
(* the first rule, and the routes are those of a table.                    *)
ChaosInv == ChaosTypeOK /\ InForce /\ FirstRuleApplies

(* Every step keeps it: a request carries its configuration with it.       *)
THEOREM ChaosStep == ChaosInv /\ [ChaosNext]_chaosVars => ChaosInv'
<1>. SUFFICES ASSUME ChaosInv, [ChaosNext]_chaosVars PROVE ChaosInv'
  OBVIOUS
<1>. USE DEF reqVars
<1>0. /\ ChaosTypeOK /\ InForce
      /\ \A c \in Clients : Follows(c)
  BY FollowsRule DEF ChaosInv
<1>u. ASSUME \A c \in Clients : Follows(c)',
             ChaosTypeOK', InForce'
      PROVE  ChaosInv'
  <2>1. FirstRuleApplies'
    BY <1>u DEF FirstRuleApplies, Follows
  <2>. QED BY <1>u, <2>1 DEF ChaosInv
<1>1. ASSUME NEW c \in Clients, NEW p \in Profiles, Undisturbed(c, p) PROVE ChaosInv'
  <2>1. ChaosTypeOK'
    BY <1>0, <1>1 DEF Undisturbed, ChaosTypeOK
  <2>2. InForce'
    BY <1>0, <1>1 DEF Undisturbed, InForce
  <2>3. ASSUME NEW d \in Clients PROVE Follows(d)'
    <3>1. CASE d = c
      BY <1>0, <1>1, <3>1 DEF Undisturbed, ChaosTypeOK, Follows
    <3>2. CASE d # c
      BY <1>0, <1>1, <3>2 DEF Undisturbed, ChaosTypeOK, Follows
    <3>. QED BY <3>1, <3>2
  <2>. QED BY <1>u, <2>1, <2>2, <2>3
<1>2. ASSUME NEW c \in Clients, NEW p \in Profiles, Disturbed(c, p) PROVE ChaosInv'
  <2>. DEFINE ac == ActiveConfig(upstreams[p.service], p.path)
  <2>1. ChaosTypeOK'
    BY <1>0, <1>2, DisturbedType
  <2>2. InForce'
    BY <1>0, <1>2 DEF Disturbed, InForce
  <2>3. Under(p, ac)
    BY <1>0, <1>2, BoundUnder
  <2>4. /\ profile' = [profile EXCEPT ![c] = p] /\ active' = [active EXCEPT ![c] = ac]
        /\ \A d \in Clients : d # c => pc'[d] = pc[d]
        /\ outcome' = [outcome EXCEPT ![c] = NoError]
    BY <1>0, <1>2 DEF Disturbed, ChaosTypeOK
  <2>. HIDE DEF ac
  <2>5. ASSUME NEW d \in Clients PROVE Follows(d)'
    <3>1. CASE d = c
      <4>1. profile'[d] = p /\ active'[d] = ac /\ outcome'[d] = NoError
        BY <1>0, <2>4, <3>1 DEF ChaosTypeOK
      <4>. QED BY <2>3, <4>1 DEF Follows
    <3>2. CASE d # c
      <4>1. /\ profile'[d] = profile[d] /\ active'[d] = active[d] /\ pc'[d] = pc[d]
            /\ outcome'[d] = outcome[d]
        BY <1>0, <2>4, <3>2 DEF ChaosTypeOK
      <4>. QED BY <1>0, <4>1 DEF Follows
    <3>. QED BY <3>1, <3>2
  <2>. QED BY <1>u, <2>1, <2>2, <2>5
<1>3. ASSUME NEW c \in Clients, Draw(c) PROVE ChaosInv'
  <2>1. active[c] # NoConfig
    BY <1>0, <1>3, UnderActive DEF Draw, Follows
  <2>2. ChaosTypeOK'
    BY <1>0, <1>3, <2>1, DrawType
  <2>3. InForce'
    BY <1>0, <1>3 DEF Draw, InForce
  <2>4. ASSUME NEW d \in Clients PROVE Follows(d)'
    <3>1. profile' = profile /\ active' = active
      BY <1>3 DEF Draw
    <3>2. CASE d = c
      <4>1. PICK e \in Errors(active[c], rate[c]) : outcome' = [outcome EXCEPT ![c] = e]
        BY <1>3 DEF Draw
      <4>2. e = NoError \/ e \in DrawnErrors(active[c])
        <5>1. rate[c] \in {"never", "sometimes", "always"}
          BY <1>0 DEF ChaosTypeOK
        <5>. QED BY <4>1, <5>1 DEF Errors
      <4>3. outcome'[c] = e /\ pc[c] # "idle"
        BY <1>0, <1>3, <4>1 DEF Draw, ChaosTypeOK
      <4>. QED BY <1>0, <3>1, <3>2, <4>2, <4>3 DEF Follows
    <3>3. CASE d # c
      <4>1. outcome'[d] = outcome[d] /\ pc'[d] = pc[d]
        BY <1>0, <1>3, <3>3 DEF Draw, ChaosTypeOK
      <4>. QED BY <1>0, <3>1, <4>1 DEF Follows
    <3>. QED BY <3>2, <3>3
  <2>. QED BY <1>u, <2>2, <2>3, <2>4
<1>4. ASSUME NEW table \in Tables, ChaosSetUpstreams(table) PROVE ChaosInv'
  <2>1. ChaosTypeOK'
    BY <1>0, <1>4, InjectionAssumption DEF ChaosSetUpstreams, ChaosTypeOK
  <2>2. InForce'
    BY <1>4 DEF ChaosSetUpstreams, InForce
  <2>3. ASSUME NEW d \in Clients PROVE Follows(d)'
    BY <1>0, <1>4 DEF ChaosSetUpstreams, Follows
  <2>. QED BY <1>u, <2>1, <2>2, <2>3
<1>5. CASE Tick
  <2>1. markov' \in [Services -> States]
    <3>1. markov \in [Services -> States]
      BY <1>0 DEF ChaosTypeOK, States
    <3>2. \A m \in States : [m EXCEPT !.left = IF @ > 0 THEN @ - 1 ELSE 0] \in States
      BY InjectionAssumption DEF States
    <3>. QED BY <1>5, <3>1, <3>2 DEF Tick
  <2>2. wait' \in [Clients -> Nat]
    BY <1>0, <1>5 DEF Tick, ChaosTypeOK
  <2>3. ChaosTypeOK'
    BY <1>0, <1>5, <2>1, <2>2 DEF Tick, ChaosTypeOK, States
  <2>4. InForce'
    BY <1>0, <1>5 DEF Tick, InForce
  <2>5. ASSUME NEW d \in Clients PROVE Follows(d)'
    BY <1>0, <1>5 DEF Tick, Follows
  <2>. QED BY <1>u, <2>3, <2>4, <2>5
<1>6. CASE ChaosRestart
  <2>1. Fresh \in States
    BY InjectionAssumption DEF Fresh, States
  <2>2. restarts' \in 0..MaxRestarts
    BY <1>0, <1>6, InjectionAssumption DEF ChaosRestart, ChaosTypeOK
  <2>3. ChaosTypeOK'
    BY <1>0, <1>6, <2>1, <2>2 DEF ChaosRestart, ChaosTypeOK, States
  <2>4. InForce'
    BY <1>6 DEF ChaosRestart, InForce
  <2>5. ASSUME NEW d \in Clients PROVE Follows(d)'
    BY <1>6 DEF ChaosRestart, Follows
  <2>. QED BY <1>u, <2>3, <2>4, <2>5
<1>7. CASE UNCHANGED chaosVars
  <2>1. ChaosTypeOK'
    BY <1>0, <1>7 DEF chaosVars, ChaosTypeOK
  <2>2. InForce'
    BY <1>0, <1>7 DEF chaosVars, InForce
  <2>3. ASSUME NEW d \in Clients PROVE Follows(d)'
    BY <1>0, <1>7 DEF chaosVars, Follows
  <2>. QED BY <1>u, <2>1, <2>2, <2>3
<1>. QED BY <1>1, <1>2, <1>3, <1>4, <1>5, <1>6, <1>7 DEF ChaosNext, Begin

(* So it holds of every state.                                             *)
THEOREM ChaosInvariant == ChaosSpec => []ChaosInv
<1>1. ChaosInit => ChaosInv
  <2>1. ChaosInit => FirstRuleApplies
    BY DEF ChaosInit, FirstRuleApplies
  <2>. QED BY <2>1, ChaosTypeInit DEF ChaosInv
<1>. QED BY <1>1, ChaosStep, PTL DEF ChaosSpec

(* The state of the chaos is well formed: a dwell stays within its bound,  *)
(* a request on its way is under a configuration, and what it is answered  *)
(* with is a status code, whatever number is configured (chaos.rs).        *)
THEOREM ChaosTypeCorrect == ChaosSpec => []ChaosTypeOK
<1>1. ChaosInv => ChaosTypeOK
  BY DEF ChaosInv
<1>. QED BY <1>1, ChaosInvariant, PTL

(* FirstRuleApplies (main.rs:1386-1420, chaos.rs:165-168): whatever the    *)
(* routes become while a request sleeps, it is answered under the first    *)
(* rule whose pattern covers its path, with that rule's errors.            *)
THEOREM FirstRule == ChaosSpec => []FirstRuleApplies
<1>1. ChaosInv => FirstRuleApplies
  BY DEF ChaosInv
<1>. QED BY <1>1, ChaosInvariant, PTL
=============================================================================
