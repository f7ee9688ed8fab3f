-------------------------- MODULE RequestLogsProofs --------------------------
(***************************************************************************)
(* Proofs about RequestLogs, for any requests, services, profiles, bounds  *)
(* of the clock and numbers of crashes.                                    *)
(***************************************************************************)
EXTENDS RequestLogs, SequenceTheorems, TLAPS

LEMMA ClassType ==
  ASSUME NEW headers, NEW ua
  PROVE  InferWorkloadClass(headers, ua) \in Classes
BY DEF InferWorkloadClass, Classes

LEMMA TypeInit == Init => TypeOK
<1>. SUFFICES ASSUME Init PROVE TypeOK
  OBVIOUS
<1>1. (CHOOSE p \in Profiles : TRUE) \in Profiles
  BY LogsAssumption
<1>. QED
  BY <1>1, LogsAssumption DEF Init, TypeOK, Stages, Ids, Kinds, Classes

(* An update of a function of kinds and requests keeps its type.           *)
LEMMA NestedType ==
  ASSUME NEW S, NEW f \in [Kinds -> [Requests -> S]],
         NEW k \in Kinds, NEW r \in Requests, NEW v \in S
  PROVE  [f EXCEPT ![k][r] = v] \in [Kinds -> [Requests -> S]]
OBVIOUS

LogLines == [piece: {"line", "part"}, id: Ids, request: Requests]
EventPieces == [piece: {"text", "newline", "part"}, id: Ids, request: Requests]

(* A line, or a part of one, appended to the log of one service.           *)
LEMMA AppendedType ==
  ASSUME NEW f \in [Services -> Seq(LogLines)], NEW s, NEW l \in LogLines
  PROVE  [f EXCEPT ![s] = Append(@, l)] \in [Services -> Seq(LogLines)]
<1>1. \A t \in Services : Append(f[t], l) \in Seq(LogLines)
  BY AppendProperties
<1>. QED BY <1>1

LEMMA TypeStep == TypeOK /\ [Next]_vars => TypeOK'
<1>. SUFFICES ASSUME TypeOK, [Next]_vars PROVE TypeOK'
  OBVIOUS
<1>. DEFINE States == {"none", "spawned", "text", "written", "failed", "lost"}
<1>. USE LogsAssumption DEF TypeOK, processVars, fileVars
<1>0. "event" \in Kinds /\ "traffic" \in Kinds
  BY DEF Kinds
<1>1. CASE UNCHANGED vars
  BY <1>1 DEF vars
<1>2. ASSUME NEW r \in Requests, NEW p \in Profiles, Record(r, p) PROVE TypeOK'
  <2>1. InferWorkloadClass(p.headers, p.ua) \in Classes /\ "unknown" \in Classes
    BY ClassType DEF Classes
  <2>2. class' \in [Requests -> Classes] /\ profile' \in [Requests -> Profiles]
    BY <1>2, <2>1 DEF Record
  <2>3. entryId' \in [Requests -> Nat \cup {-1}] /\ pc' \in [Requests -> Stages]
    BY <1>2 DEF Record, Stages
  <2>. QED BY <1>2, <2>2, <2>3 DEF Record
<1>3. ASSUME NEW r \in Requests, NEW k \in Kinds, TakeNumber(k, r) PROVE TypeOK'
  <2>1. counter[k] \in Nat /\ counter' \in [Kinds -> Nat]
    BY <1>3 DEF TakeNumber
  <2>2. seq' \in [Kinds -> [Requests -> Nat \cup {-1}]]
    BY <1>3, <2>1, NestedType DEF TakeNumber
  <2>. QED BY <1>3, <2>1, <2>2 DEF TakeNumber
<1>4. ASSUME NEW r \in Requests, NEW k \in Kinds, Stamp(k, r) PROVE TypeOK'
  <2>1. MakeId(clock, seq[k][r]) \in Ids
    BY DEF MakeId, Ids
  <2>2. id' \in [Kinds -> [Requests -> Ids]]
    BY <1>4, <2>1, NestedType DEF Stamp
  <2>3. task' \in [Kinds -> [Requests -> States]]
    BY <1>4, NestedType DEF Stamp
  <2>4. pc' \in [Requests -> Stages]
    BY <1>4 DEF Stamp, Stages
  <2>. QED BY <1>4, <2>2, <2>3, <2>4 DEF Stamp
<1>5. ASSUME NEW r \in Requests, Observe(r) PROVE TypeOK'
  <2>1. pc' \in [Requests -> Stages] /\ observed' \in 0..Samples
    BY <1>5 DEF Observe, Stages
  <2>. QED BY <1>5, <2>1 DEF Observe
<1>6. ASSUME NEW r \in Requests, WriteLine(r) PROVE TypeOK'
  <2>2. traffic' \in [Services -> Seq(LogLines)]
    <3>1. Piece("traffic", r, "line") \in LogLines
      BY <1>0 DEF Piece, LogLines
    <3>2. traffic \in [Services -> Seq(LogLines)]
      BY DEF LogLines
    <3>. HIDE DEF TypeOK
    <3>. QED BY <1>6, <3>1, <3>2, AppendedType DEF WriteLine
  <2>3. task' \in [Kinds -> [Requests -> States]]
    BY <1>0, <1>6, NestedType DEF WriteLine
  <2>. QED BY <1>6, <2>2, <2>3 DEF WriteLine, LogLines
<1>7. ASSUME NEW r \in Requests, WriteText(r) PROVE TypeOK'
  <2>1. events' \in Seq(EventPieces)
    BY <1>0, <1>7 DEF WriteText, Piece, EventPieces
  <2>2. task' \in [Kinds -> [Requests -> States]]
    BY <1>0, <1>7, NestedType DEF WriteText
  <2>. QED BY <1>7, <2>1, <2>2 DEF WriteText, EventPieces
<1>8. ASSUME NEW r \in Requests, WriteNewline(r) PROVE TypeOK'
  <2>1. events' \in Seq(EventPieces)
    BY <1>0, <1>8 DEF WriteNewline, Piece, EventPieces
  <2>2. task' \in [Kinds -> [Requests -> States]]
    BY <1>0, <1>8, NestedType DEF WriteNewline
  <2>. QED BY <1>8, <2>1, <2>2 DEF WriteNewline, EventPieces
<1>9. ASSUME NEW r \in Requests, NEW k \in Kinds, WriteFails(k, r) PROVE TypeOK'
  <2>1. task' \in [Kinds -> [Requests -> States]]
    BY <1>9, NestedType DEF WriteFails
  <2>2. traffic' \in [Services -> Seq(LogLines)]
    <3>1. Piece("traffic", r, "part") \in LogLines
      BY <1>0 DEF Piece, LogLines
    <3>2. traffic \in [Services -> Seq(LogLines)]
      BY DEF LogLines
    <3>3. \/ traffic' = traffic
          \/ traffic' = [traffic EXCEPT ![profile[r].service] =
                           Append(@, Piece("traffic", r, "part"))]
      BY <1>9 DEF WriteFails, CutShort
    <3>. HIDE DEF TypeOK
    <3>. QED BY <3>1, <3>2, <3>3, AppendedType
  <2>3. events' \in Seq(EventPieces)
    <3>1. k = "event" => Piece(k, r, "part") \in EventPieces
      BY <1>0 DEF Piece, EventPieces
    <3>2. events \in Seq(EventPieces)
      BY DEF EventPieces
    <3>. HIDE DEF TypeOK
    <3>. QED BY <1>9, <3>1, <3>2, AppendProperties DEF WriteFails, CutShort
  <2>. QED BY <1>9, <2>1, <2>2, <2>3 DEF WriteFails, LogLines, EventPieces
<1>10. CASE Tick
  <2>1. clock' \in 0..MaxClock
    BY <1>10 DEF Tick
  <2>. QED BY <1>10, <2>1 DEF Tick
<1>11. CASE Crash
  <2>1. pc' \in [Requests -> Stages]
    BY <1>11 DEF Crash, Stages
  <2>2. task' \in [Kinds -> [Requests -> States]]
    BY <1>11 DEF Crash
  <2>3. counter' \in [Kinds -> Nat] /\ observed' \in 0..Samples
    BY <1>11 DEF Crash
  <2>4. clock' \in 0..MaxClock /\ crashes' \in 0..MaxCrashes
    BY <1>11 DEF Crash
  <2>. QED BY <1>11, <2>1, <2>2, <2>3, <2>4 DEF Crash
<1>. QED
  BY <1>1, <1>2, <1>3, <1>4, <1>5, <1>6, <1>7, <1>8, <1>9, <1>10, <1>11
  DEF Next, Handle, Write

(* Type correctness of every behaviour.                                    *)
THEOREM TypeCorrect == Spec => []TypeOK
<1>. QED BY TypeInit, TypeStep, PTL DEF Spec

-----------------------------------------------------------------------------
(* A request draws a number and spawns an append once for each kind, and   *)
(* in order: nothing is drawn or spawned for what is still to come.        *)
StageInv ==
  \A r \in Requests :
    /\ pc[r] = "waiting" => seq["event"][r] = -1
    /\ pc[r] \in {"waiting", "event"} => task["event"][r] = "none"
    /\ pc[r] \in {"waiting", "event", "observe"} => seq["traffic"][r] = -1
    /\ pc[r] \in {"waiting", "event", "observe", "traffic"} => task["traffic"][r] = "none"

(* A request that has drawn a number and not yet read the clock, and one   *)
(* that has its id.                                                        *)
Drawn(k, r)   == pc[r] = k /\ seq[k][r] # -1
Stamped(k, r) == task[k][r] # "none"

(* Numbers drawn in this process are below its counter and differ, also    *)
(* from those in the ids of this millisecond: an id of this millisecond is *)
(* of this process.  Ids of earlier ones have an earlier clock.            *)
NumberInv ==
  \A k \in Kinds : \A r, s \in Requests :
    /\ Drawn(k, r) => seq[k][r] < counter[k]
    /\ Drawn(k, r) /\ Drawn(k, s) /\ seq[k][r] = seq[k][s] => r = s
    /\ Stamped(k, r) => id[k][r][1] <= clock
    /\ Stamped(k, r) /\ id[k][r][1] = clock => id[k][r][2] < counter[k]
    /\ Stamped(k, r) /\ id[k][r][1] = clock /\ Drawn(k, s) => id[k][r][2] # seq[k][s]
    /\ Stamped(k, r) /\ Stamped(k, s) /\ id[k][r] = id[k][s] => r = s

(* A line, or a part of one, has the id of its request, which has no other *)
(* line or part.                                                           *)
TrafficInv ==
  \A s \in Services : \A i \in DOMAIN traffic[s] :
    LET r == traffic[s][i].request IN
    /\ traffic[s][i].id = id["traffic"][r] /\ task["traffic"][r] \in {"written", "failed"}
    /\ profile[r].service = s /\ pc[r] # "waiting"
    /\ \A j \in DOMAIN traffic[s] : traffic[s][j].request = r => i = j

(* An event has the id of its request, which has no other event.           *)
EventInv ==
  \A i \in DOMAIN events :
    LET r == events[i].request IN
    events[i].piece = "text" =>
      /\ events[i].id = id["event"][r]
      /\ task["event"][r] \in {"text", "written", "failed", "lost"}
      /\ \A j \in DOMAIN events : events[j].piece = "text" /\ events[j].request = r => i = j

LogsInv == TypeOK /\ StageInv /\ NumberInv /\ TrafficInv /\ EventInv

LEMMA LogsInit == Init => LogsInv
<1>. SUFFICES ASSUME Init PROVE LogsInv
  OBVIOUS
<1>1. TypeOK
  BY TypeInit
<1>2. StageInv
  BY DEF Init, StageInv, Kinds
<1>3. NumberInv
  BY DEF Init, NumberInv, Drawn, Stamped, Kinds
<1>4. TrafficInv /\ EventInv
  BY DEF Init, TrafficInv, EventInv
<1>. QED BY <1>1, <1>2, <1>3, <1>4 DEF LogsInv

LEMMA StageStep == TypeOK /\ StageInv /\ [Next]_vars => StageInv'
<1>. SUFFICES ASSUME TypeOK, StageInv, [Next]_vars PROVE StageInv'
  OBVIOUS
<1>. USE DEF TypeOK, StageInv, Kinds
<1>1. CASE UNCHANGED vars
  BY <1>1 DEF vars, processVars
<1>2. ASSUME NEW r \in Requests, NEW p \in Profiles, Record(r, p) PROVE StageInv'
  BY <1>2 DEF Record
<1>3. ASSUME NEW r \in Requests, NEW k \in Kinds, TakeNumber(k, r) PROVE StageInv'
  BY <1>3 DEF TakeNumber
<1>4. ASSUME NEW r \in Requests, NEW k \in Kinds, Stamp(k, r) PROVE StageInv'
  BY <1>4 DEF Stamp
<1>5. ASSUME NEW r \in Requests, Observe(r) PROVE StageInv'
  BY <1>5 DEF Observe
<1>6. ASSUME NEW r \in Requests, WriteLine(r) PROVE StageInv'
  BY <1>6 DEF WriteLine
<1>7. ASSUME NEW r \in Requests, WriteText(r) \/ WriteNewline(r) PROVE StageInv'
  BY <1>7 DEF WriteText, WriteNewline
<1>8. ASSUME NEW r \in Requests, NEW k \in Kinds, WriteFails(k, r) PROVE StageInv'
  BY <1>8 DEF WriteFails
<1>9. CASE Tick
  BY <1>9 DEF Tick, processVars
<1>10. CASE Crash
  BY <1>10 DEF Crash
<1>. QED
  BY <1>1, <1>2, <1>3, <1>4, <1>5, <1>6, <1>7, <1>8, <1>9, <1>10 DEF Next, Handle, Write

(* A step that draws no number, makes no id and leaves the clock alone.    *)
LEMMA NumberFrame ==
  ASSUME NumberInv, UNCHANGED <<clock, counter, seq, id>>,
         \A k \in Kinds, r \in Requests : Drawn(k, r)' => Drawn(k, r),
         \A k \in Kinds, r \in Requests : Stamped(k, r)' => Stamped(k, r)
  PROVE  NumberInv'
<1>. SUFFICES ASSUME NEW k \in Kinds, NEW r \in Requests, NEW s \in Requests
              PROVE  (/\ Drawn(k, r) => seq[k][r] < counter[k]
                      /\ Drawn(k, r) /\ Drawn(k, s) /\ seq[k][r] = seq[k][s] => r = s
                      /\ Stamped(k, r) => id[k][r][1] <= clock
                      /\ Stamped(k, r) /\ id[k][r][1] = clock => id[k][r][2] < counter[k]
                      /\ Stamped(k, r) /\ id[k][r][1] = clock /\ Drawn(k, s)
                           => id[k][r][2] # seq[k][s]
                      /\ Stamped(k, r) /\ Stamped(k, s) /\ id[k][r] = id[k][s] => r = s)'
  BY DEF NumberInv
<1>. QED BY DEF NumberInv

LEMMA NumberStep == TypeOK /\ StageInv /\ NumberInv /\ [Next]_vars => NumberInv'
<1>. SUFFICES ASSUME TypeOK, StageInv, NumberInv, [Next]_vars PROVE NumberInv'
  OBVIOUS
<1>. DEFINE States == {"none", "spawned", "text", "written", "failed", "lost"}
<1>0. /\ clock \in Nat /\ counter \in [Kinds -> Nat]
      /\ pc \in [Requests -> Stages] /\ seq \in [Kinds -> [Requests -> Nat \cup {-1}]]
      /\ id \in [Kinds -> [Requests -> Ids]] /\ task \in [Kinds -> [Requests -> States]]
  BY LogsAssumption DEF TypeOK
<1>1. CASE UNCHANGED vars
  BY <1>1, NumberFrame DEF vars, processVars, Drawn, Stamped
<1>2. ASSUME NEW r \in Requests, NEW p \in Profiles, Record(r, p) PROVE NumberInv'
  <2>1. \A k \in Kinds, q \in Requests : Drawn(k, q)' => Drawn(k, q)
    BY <1>0, <1>2 DEF Record, StageInv, Kinds, Drawn
  <2>. QED BY <1>2, <2>1, NumberFrame DEF Record, Stamped
<1>3. ASSUME NEW r \in Requests, NEW k \in Kinds, TakeNumber(k, r) PROVE NumberInv'
  <2>1. /\ seq'[k][r] = counter[k] /\ counter'[k] = counter[k] + 1 /\ counter[k] \in Nat
        /\ \A j \in Kinds : j # k => counter'[j] = counter[j]
        /\ \A j \in Kinds, q \in Requests : j # k \/ q # r => seq'[j][q] = seq[j][q]
        /\ pc' = pc /\ id' = id /\ clock' = clock /\ task' = task
    BY <1>0, <1>3 DEF TakeNumber
  <2>2. /\ \A j \in Kinds, q \in Requests : Drawn(j, q)' => Drawn(j, q) \/ (j = k /\ q = r)
        /\ \A j \in Kinds, q \in Requests : Stamped(j, q)' => Stamped(j, q)
        /\ ~Drawn(k, r)
    BY <1>3, <2>1 DEF TakeNumber, Drawn, Stamped
  <2>3. \A j \in Kinds, q \in Requests :
          (j # k \/ q # r => seq[j][q] = seq'[j][q]) /\ id[j][q][2] \in Nat \cup {-1}
    BY <1>0, <2>1 DEF Ids
  <2>. SUFFICES ASSUME NEW j \in Kinds, NEW q \in Requests, NEW s \in Requests
                PROVE  (/\ Drawn(j, q) => seq[j][q] < counter[j]
                        /\ Drawn(j, q) /\ Drawn(j, s) /\ seq[j][q] = seq[j][s] => q = s
                        /\ Stamped(j, q) => id[j][q][1] <= clock
                        /\ Stamped(j, q) /\ id[j][q][1] = clock => id[j][q][2] < counter[j]
                        /\ Stamped(j, q) /\ id[j][q][1] = clock /\ Drawn(j, s)
                             => id[j][q][2] # seq[j][s]
                        /\ Stamped(j, q) /\ Stamped(j, s) /\ id[j][q] = id[j][s] => q = s)'
    BY DEF NumberInv
  <2>4. /\ Drawn(j, q) => seq[j][q] < counter[j]
        /\ Drawn(j, s) => seq[j][s] < counter[j]
        /\ Drawn(j, q) /\ Drawn(j, s) /\ seq[j][q] = seq[j][s] => q = s
        /\ Stamped(j, q) => id[j][q][1] <= clock
        /\ Stamped(j, q) /\ id[j][q][1] = clock => id[j][q][2] < counter[j]
        /\ Stamped(j, q) /\ id[j][q][1] = clock /\ Drawn(j, s) => id[j][q][2] # seq[j][s]
        /\ Stamped(j, q) /\ Stamped(j, s) /\ id[j][q] = id[j][s] => q = s
    BY DEF NumberInv
  <2>5. counter[j] \in Nat /\ seq[j][q] \in Nat \cup {-1} /\ seq[j][s] \in Nat \cup {-1}
    BY <1>0
  <2>6. CASE j # k
    BY <2>1, <2>2, <2>3, <2>4, <2>6
  <2>7. CASE j = k
    BY <2>1, <2>2, <2>3, <2>4, <2>5, <2>7
  <2>. QED BY <2>6, <2>7
<1>4. ASSUME NEW r \in Requests, NEW k \in Kinds, Stamp(k, r) PROVE NumberInv'
  <2>1. Drawn(k, r) /\ ~Stamped(k, r)
    BY <1>4 DEF Stamp, StageInv, Kinds, Drawn, Stamped
  <2>2. /\ \A j \in Kinds, q \in Requests : j # k \/ q # r => id'[j][q] = id[j][q]
        /\ \A j \in Kinds, q \in Requests : Stamped(j, q)' => Stamped(j, q) \/ (j = k /\ q = r)
        /\ \A j \in Kinds, q \in Requests : Drawn(j, q)' => Drawn(j, q) /\ q # r
        /\ id'[k][r] = <<clock, seq[k][r]>>
        /\ clock' = clock /\ counter' = counter /\ seq' = seq
    BY <1>0, <1>4 DEF Stamp, StageInv, MakeId, Kinds, Drawn, Stamped
  <2>. QED BY <1>0, <2>1, <2>2 DEF NumberInv
<1>5. ASSUME NEW r \in Requests, Observe(r) PROVE NumberInv'
  <2>1. \A k \in Kinds, q \in Requests : Drawn(k, q)' => Drawn(k, q)
    BY <1>0, <1>5 DEF Observe, StageInv, Kinds, Drawn
  <2>. QED BY <1>5, <2>1, NumberFrame DEF Observe, Stamped
<1>6. ASSUME NEW r \in Requests, WriteLine(r) PROVE NumberInv'
  <2>1. \A k \in Kinds, q \in Requests : Stamped(k, q)' => Stamped(k, q)
    BY <1>0, <1>6 DEF WriteLine, Stamped, Kinds
  <2>. QED BY <1>6, <2>1, NumberFrame DEF WriteLine, Drawn
<1>7. ASSUME NEW r \in Requests, WriteText(r) \/ WriteNewline(r) PROVE NumberInv'
  <2>1. \A k \in Kinds, q \in Requests : Stamped(k, q)' => Stamped(k, q)
    BY <1>0, <1>7 DEF WriteText, WriteNewline, Stamped, Kinds
  <2>. QED BY <1>7, <2>1, NumberFrame DEF WriteText, WriteNewline, Drawn
<1>8. ASSUME NEW r \in Requests, NEW k \in Kinds, WriteFails(k, r) PROVE NumberInv'
  <2>1. \A j \in Kinds, q \in Requests : Stamped(j, q)' => Stamped(j, q)
    BY <1>0, <1>8 DEF WriteFails, Stamped
  <2>. QED BY <1>8, <2>1, NumberFrame DEF WriteFails, Drawn
<1>9. ASSUME clock' = clock + 1, UNCHANGED <<seq, id>>, counter' \in [Kinds -> Nat],
             \A k \in Kinds, q \in Requests : Drawn(k, q)' => Drawn(k, q) /\ counter' = counter,
             \A k \in Kinds, q \in Requests : Stamped(k, q)' => Stamped(k, q)
      PROVE  NumberInv'
  <2>1. \A k \in Kinds, q \in Requests :
          id[k][q][1] \in Nat \cup {-1} /\ (Stamped(k, q) => id[k][q][1] <= clock)
    BY <1>0 DEF Ids, NumberInv
  <2>2. \A k \in Kinds, q \in Requests :
          Stamped(k, q)' => id'[k][q][1] < clock'
    <3>. SUFFICES ASSUME NEW k \in Kinds, NEW q \in Requests, Stamped(k, q)'
                  PROVE  id'[k][q][1] < clock'
      OBVIOUS
    <3>1. id[k][q][1] <= clock /\ id[k][q][1] \in Nat \cup {-1}
      BY <1>9, <2>1
    <3>2. id' = id /\ clock' = clock + 1
      BY <1>9
    <3>. QED BY <1>0, <3>1, <3>2
  <2>. SUFFICES ASSUME NEW k \in Kinds, NEW r \in Requests, NEW s \in Requests
                PROVE  (/\ Drawn(k, r) => seq[k][r] < counter[k]
                        /\ Drawn(k, r) /\ Drawn(k, s) /\ seq[k][r] = seq[k][s] => r = s
                        /\ Stamped(k, r) => id[k][r][1] <= clock
                        /\ Stamped(k, r) /\ id[k][r][1] = clock => id[k][r][2] < counter[k]
                        /\ Stamped(k, r) /\ id[k][r][1] = clock /\ Drawn(k, s)
                             => id[k][r][2] # seq[k][s]
                        /\ Stamped(k, r) /\ Stamped(k, s) /\ id[k][r] = id[k][s] => r = s)'
    BY DEF NumberInv
  <2>3. Stamped(k, r)' => id'[k][r][1] <= clock' /\ id'[k][r][1] # clock'
    BY <1>0, <1>9, <2>1, <2>2
  <2>. QED BY <1>9, <2>3 DEF NumberInv
<1>10. CASE Tick
  BY <1>0, <1>9, <1>10 DEF Tick, processVars, Drawn, Stamped
<1>11. CASE Crash
  <2>1. \A k \in Kinds, q \in Requests : ~Drawn(k, q)'
    BY <1>0, <1>11 DEF Crash, Drawn, Kinds
  <2>2. \A k \in Kinds, q \in Requests : Stamped(k, q)' => Stamped(k, q)
    BY <1>0, <1>11 DEF Crash, Stamped
  <2>. QED BY <1>9, <1>11, <2>1, <2>2 DEF Crash
<1>. QED
  BY <1>1, <1>2, <1>3, <1>4, <1>5, <1>6, <1>7, <1>8, <1>10, <1>11 DEF Next, Handle, Write

-----------------------------------------------------------------------------
LEMMA RequestOfLine ==
  ASSUME TypeOK, NEW s \in Services, NEW i \in DOMAIN traffic[s]
  PROVE  traffic[s][i].request \in Requests
<1>1. traffic[s] \in Seq(LogLines)
  BY DEF TypeOK, LogLines
<1>2. traffic[s][i] \in LogLines
  BY <1>1
<1>. QED BY <1>2 DEF LogLines

(* A step that writes no line and does not undo one.                       *)
LEMMA TrafficFrame ==
  ASSUME TypeOK, TrafficInv, traffic' = traffic,
         \A r \in Requests :
           task["traffic"][r] \in {"written", "failed"} /\ pc[r] # "waiting" =>
           /\ id'["traffic"][r] = id["traffic"][r] /\ task'["traffic"][r] = task["traffic"][r]
           /\ profile'[r] = profile[r] /\ pc'[r] # "waiting"
  PROVE  TrafficInv'
<1>1. \A s \in Services : \A i \in DOMAIN traffic[s] : traffic[s][i].request \in Requests
  BY RequestOfLine
<1>. QED BY <1>1 DEF TrafficInv

(* Appending adds one place, at the end.                                   *)
LEMMA AppendPlaces ==
  ASSUME NEW S, NEW q \in Seq(S), NEW e \in S
  PROVE  /\ \A i \in DOMAIN q : i \in DOMAIN Append(q, e) /\ Append(q, e)[i] = q[i]
         /\ \A i \in DOMAIN Append(q, e) :
              i \notin DOMAIN q => i = Len(q) + 1 /\ Append(q, e)[i] = e
OBVIOUS

LEMMA TrafficStep == TypeOK /\ StageInv /\ TrafficInv /\ [Next]_vars => TrafficInv'
<1>. SUFFICES ASSUME TypeOK, StageInv, TrafficInv, [Next]_vars PROVE TrafficInv'
  OBVIOUS
<1>. DEFINE States == {"none", "spawned", "text", "written", "failed", "lost"}
<1>0. /\ pc \in [Requests -> Stages] /\ profile \in [Requests -> Profiles]
      /\ id \in [Kinds -> [Requests -> Ids]] /\ task \in [Kinds -> [Requests -> States]]
      /\ "traffic" \in Kinds
  BY DEF TypeOK, Kinds
<1>1. CASE UNCHANGED vars
  BY <1>1, TrafficFrame DEF vars, processVars, fileVars
<1>2. ASSUME NEW r \in Requests, NEW p \in Profiles, Record(r, p) PROVE TrafficInv'
  BY <1>0, <1>2, TrafficFrame DEF Record, fileVars
<1>3. ASSUME NEW r \in Requests, NEW k \in Kinds, TakeNumber(k, r) PROVE TrafficInv'
  BY <1>3, TrafficFrame DEF TakeNumber, fileVars
<1>4. ASSUME NEW r \in Requests, NEW k \in Kinds, Stamp(k, r) PROVE TrafficInv'
  <2>1. k = "traffic" => task["traffic"][r] = "none"
    BY <1>4 DEF Stamp, StageInv
  <2>2. \A q \in Requests :
          task["traffic"][q] \in {"written", "failed"} /\ pc[q] # "waiting" =>
          /\ id'["traffic"][q] = id["traffic"][q] /\ task'["traffic"][q] = task["traffic"][q]
          /\ pc'[q] # "waiting"
    BY <1>0, <1>4, <2>1 DEF Stamp
  <2>. QED BY <1>4, <2>2, TrafficFrame DEF Stamp, fileVars
<1>5. ASSUME NEW r \in Requests, Observe(r) PROVE TrafficInv'
  BY <1>0, <1>5, TrafficFrame DEF Observe, fileVars
<1>6. ASSUME NEW r \in Requests, NEW p \in {"line", "part"},
             traffic' = [traffic EXCEPT ![profile[r].service] =
                           Append(@, Piece("traffic", r, p))],
             task["traffic"][r] = "spawned", task'["traffic"][r] \in {"written", "failed"},
             \A q \in Requests : q # r => task'["traffic"][q] = task["traffic"][q],
             UNCHANGED <<id, profile, pc>>
      PROVE  TrafficInv'
  <2>. DEFINE home == profile[r].service
              line == Piece("traffic", r, p)
  <2>1. /\ task'["traffic"][r] \in {"written", "failed"} /\ task["traffic"][r] = "spawned"
        /\ \A q \in Requests : q # r => task'["traffic"][q] = task["traffic"][q]
        /\ id' = id /\ profile' = profile /\ pc' = pc /\ pc[r] # "waiting"
    BY <1>0, <1>6 DEF StageInv
  <2>2. \A s \in Services : traffic[s] \in Seq(LogLines)
    BY DEF TypeOK, LogLines
  <2>3. line \in LogLines /\ line.request = r /\ line.id = id["traffic"][r]
    BY <1>0 DEF Piece, LogLines
  <2>4. \A s \in Services :
          traffic'[s] = IF s = home THEN Append(traffic[s], line) ELSE traffic[s]
    BY <1>6 DEF TypeOK
  <2>5. \A s \in Services : \A i \in DOMAIN traffic[s] :
          traffic[s][i].request \in Requests /\ traffic[s][i].request # r
    BY <2>1, RequestOfLine DEF TrafficInv
  <2>. SUFFICES ASSUME NEW s \in Services, NEW i \in DOMAIN traffic'[s]
                PROVE  LET q == traffic'[s][i].request IN
                       /\ traffic'[s][i].id = id'["traffic"][q] /\ task'["traffic"][q] \in {"written", "failed"}
                       /\ profile'[q].service = s /\ pc'[q] # "waiting"
                       /\ \A j \in DOMAIN traffic'[s] : traffic'[s][j].request = q => i = j
    BY DEF TrafficInv
  <2>6. CASE s # home
    BY <2>1, <2>4, <2>5, <2>6 DEF TrafficInv
  <2>7. CASE s = home
    <3>1. traffic'[s] = Append(traffic[s], line) /\ traffic[s] \in Seq(LogLines)
      BY <2>2, <2>4, <2>7
    <3>2. /\ \A j \in DOMAIN traffic[s] :
               j \in DOMAIN traffic'[s] /\ traffic'[s][j] = traffic[s][j]
          /\ \A j \in DOMAIN traffic'[s] :
               j \notin DOMAIN traffic[s] => j = Len(traffic[s]) + 1 /\ traffic'[s][j] = line
      <4>. HIDE DEF line
      <4>. QED BY <2>3, <3>1, AppendPlaces
    <3>3. CASE i \in DOMAIN traffic[s]
      <4>1. traffic'[s][i] = traffic[s][i] /\ traffic[s][i].request \in Requests \ {r}
        BY <2>5, <3>2, <3>3
      <4>2. \A j \in DOMAIN traffic'[s] : traffic'[s][j].request = traffic[s][i].request =>
              j \in DOMAIN traffic[s] /\ traffic[s][j].request = traffic[s][i].request
        BY <2>3, <3>2, <4>1
      <4>. QED BY <2>1, <3>3, <4>1, <4>2 DEF TrafficInv
    <3>4. CASE i \notin DOMAIN traffic[s]
      BY <2>1, <2>3, <2>5, <2>7, <3>2, <3>4
    <3>. QED BY <3>3, <3>4
  <2>. QED BY <2>6, <2>7
<1>11. ASSUME NEW r \in Requests, WriteLine(r) PROVE TrafficInv'
  <2>1. /\ task["traffic"][r] = "spawned" /\ task'["traffic"][r] = "written"
        /\ \A q \in Requests : q # r => task'["traffic"][q] = task["traffic"][q]
    BY <1>0, <1>11 DEF WriteLine
  <2>. QED BY <1>6, <1>11, <2>1 DEF WriteLine
<1>7. ASSUME NEW r \in Requests, WriteText(r) \/ WriteNewline(r) PROVE TrafficInv'
  <2>1. task'["traffic"] = task["traffic"]
    BY <1>0, <1>7 DEF WriteText, WriteNewline
  <2>. QED BY <1>7, <2>1, TrafficFrame DEF WriteText, WriteNewline
<1>8. ASSUME NEW r \in Requests, NEW k \in Kinds, WriteFails(k, r) PROVE TrafficInv'
  <2>1. CASE traffic' = traffic
    <3>1. \A q \in Requests : task["traffic"][q] \in {"written", "failed"} =>
            task'["traffic"][q] = task["traffic"][q]
      BY <1>0, <1>8 DEF WriteFails
    <3>. QED BY <1>8, <2>1, <3>1, TrafficFrame DEF WriteFails
  <2>2. CASE k = "traffic" /\ CutShort(k, r)
    <3>1. /\ task["traffic"][r] = "spawned" /\ task'["traffic"][r] = "failed"
          /\ \A q \in Requests : q # r => task'["traffic"][q] = task["traffic"][q]
      BY <1>0, <1>8, <2>2 DEF WriteFails, CutShort
    <3>. QED BY <1>6, <1>8, <2>2, <3>1 DEF WriteFails, CutShort
  <2>. QED BY <1>8, <2>1, <2>2 DEF WriteFails, CutShort, fileVars
<1>9. CASE Tick
  BY <1>9, TrafficFrame DEF Tick, processVars, fileVars
<1>10. CASE Crash
  <2>1. \A q \in Requests : task["traffic"][q] \in {"written", "failed"} =>
          task'["traffic"][q] = task["traffic"][q]
    BY <1>0, <1>10 DEF Crash
  <2>. QED BY <1>10, <2>1, TrafficFrame DEF Crash, fileVars
<1>. QED
  BY <1>1, <1>2, <1>3, <1>4, <1>5, <1>7, <1>8, <1>9, <1>10, <1>11 DEF Next, Handle, Write

-----------------------------------------------------------------------------
LEMMA RequestOfPiece ==
  ASSUME TypeOK, NEW i \in DOMAIN events
  PROVE  events[i].request \in Requests
<1>1. events \in Seq(EventPieces)
  BY DEF TypeOK, EventPieces
<1>2. events[i] \in EventPieces
  BY <1>1
<1>. QED BY <1>2 DEF EventPieces

(* A step that writes no event and does not undo one.                      *)
LEMMA EventFrame ==
  ASSUME TypeOK, EventInv, events' = events,
         \A r \in Requests : task["event"][r] \in {"text", "written", "failed", "lost"} =>
           /\ id'["event"][r] = id["event"][r]
           /\ task'["event"][r] \in {"text", "written", "failed", "lost"}
  PROVE  EventInv'
<1>1. \A i \in DOMAIN events : events[i].request \in Requests
  BY RequestOfPiece
<1>. QED BY <1>1 DEF EventInv

LEMMA EventStep == TypeOK /\ StageInv /\ EventInv /\ [Next]_vars => EventInv'
<1>. SUFFICES ASSUME TypeOK, StageInv, EventInv, [Next]_vars PROVE EventInv'
  OBVIOUS
<1>. DEFINE States == {"none", "spawned", "text", "written", "failed", "lost"}
<1>0. /\ id \in [Kinds -> [Requests -> Ids]] /\ task \in [Kinds -> [Requests -> States]]
      /\ "event" \in Kinds
  BY DEF TypeOK, Kinds
<1>1. CASE UNCHANGED vars
  BY <1>1, EventFrame DEF vars, processVars, fileVars
<1>2. ASSUME NEW r \in Requests, NEW p \in Profiles, Record(r, p) PROVE EventInv'
  BY <1>2, EventFrame DEF Record, fileVars
<1>3. ASSUME NEW r \in Requests, NEW k \in Kinds, TakeNumber(k, r) PROVE EventInv'
  BY <1>3, EventFrame DEF TakeNumber, fileVars
<1>4. ASSUME NEW r \in Requests, NEW k \in Kinds, Stamp(k, r) PROVE EventInv'
  <2>1. k = "event" => task["event"][r] = "none"
    BY <1>4 DEF Stamp, StageInv
  <2>2. \A q \in Requests : task["event"][q] \in {"text", "written", "failed", "lost"} =>
          id'["event"][q] = id["event"][q] /\ task'["event"][q] = task["event"][q]
    BY <1>0, <1>4, <2>1 DEF Stamp
  <2>. QED BY <1>4, <2>2, EventFrame DEF Stamp, fileVars
<1>5. ASSUME NEW r \in Requests, Observe(r) PROVE EventInv'
  BY <1>5, EventFrame DEF Observe, fileVars
<1>6. ASSUME NEW r \in Requests, WriteLine(r) PROVE EventInv'
  <2>1. task'["event"] = task["event"]
    BY <1>0, <1>6 DEF WriteLine
  <2>. QED BY <1>6, <2>1, EventFrame DEF WriteLine
<1>7. ASSUME NEW r \in Requests, NEW p \in {"text", "newline", "part"},
             events' = Append(events, Piece("event", r, p)), id' = id,
             task["event"][r] = IF p = "newline" THEN "text" ELSE "spawned",
             task'["event"][r] \in {"text", "written", "failed"},
             \A q \in Requests : q # r => task'["event"][q] = task["event"][q]
      PROVE  EventInv'
  <2>. DEFINE new == Piece("event", r, p)
  <2>1. /\ new \in EventPieces /\ events \in Seq(EventPieces)
        /\ new.piece = p /\ new.request = r /\ new.id = id["event"][r]
    BY <1>0 DEF TypeOK, Piece, EventPieces
  <2>2. /\ \A j \in DOMAIN events : j \in DOMAIN events' /\ events'[j] = events[j]
        /\ \A j \in DOMAIN events' :
             j \notin DOMAIN events => j = Len(events) + 1 /\ events'[j] = new
    <3>1. events' = Append(events, new)
      BY <1>7
    <3>. HIDE DEF new
    <3>. QED BY <2>1, <3>1, AppendPlaces
  <2>3. \A j \in DOMAIN events : events[j].request \in Requests
    BY RequestOfPiece
  <2>4. p = "text" => \A j \in DOMAIN events : events[j].piece = "text" => events[j].request # r
    BY <1>7 DEF EventInv
  <2>. SUFFICES ASSUME NEW i \in DOMAIN events', events'[i].piece = "text"
                PROVE  LET q == events'[i].request IN
                       /\ events'[i].id = id'["event"][q]
                       /\ task'["event"][q] \in {"text", "written", "failed", "lost"}
                       /\ \A j \in DOMAIN events' :
                            events'[j].piece = "text" /\ events'[j].request = q => i = j
    BY DEF EventInv
  <2>5. CASE i \in DOMAIN events
    <3>1. events'[i] = events[i] /\ events[i].request \in Requests
      BY <2>2, <2>3, <2>5
    <3>2. \A j \in DOMAIN events' :
            events'[j].piece = "text" /\ events'[j].request = events[i].request =>
              j \in DOMAIN events /\ events'[j] = events[j]
      BY <2>1, <2>2, <2>4, <2>5, <3>1
    <3>3. /\ events[i].id = id["event"][events[i].request]
          /\ task["event"][events[i].request] \in {"text", "written", "failed", "lost"}
          /\ \A j \in DOMAIN events :
               events[j].piece = "text" /\ events[j].request = events[i].request => i = j
      BY <2>5, <3>1 DEF EventInv
    <3>4. task'["event"][events[i].request] \in {"text", "written", "failed", "lost"}
      BY <1>7, <3>1, <3>3
    <3>. QED BY <1>7, <3>1, <3>2, <3>3, <3>4
  <2>6. CASE i \notin DOMAIN events
    <3>1. events'[i] = new /\ p = "text"
      BY <2>1, <2>2, <2>6
    <3>2. \A j \in DOMAIN events' : j # i =>
            j \in DOMAIN events /\ events'[j] = events[j]
      BY <2>2, <2>6
    <3>. QED BY <1>7, <2>1, <2>4, <3>1, <3>2
  <2>. QED BY <2>5, <2>6
<1>8. ASSUME NEW r \in Requests, WriteText(r) PROVE EventInv'
  <2>1. /\ task["event"][r] = "spawned" /\ task'["event"][r] = "text"
        /\ \A q \in Requests : q # r => task'["event"][q] = task["event"][q]
    BY <1>0, <1>8 DEF WriteText
  <2>. QED BY <1>7, <1>8, <2>1 DEF WriteText
<1>9. ASSUME NEW r \in Requests, WriteNewline(r) PROVE EventInv'
  <2>1. /\ task["event"][r] = "text" /\ task'["event"][r] = "written"
        /\ \A q \in Requests : q # r => task'["event"][q] = task["event"][q]
    BY <1>0, <1>9 DEF WriteNewline
  <2>. QED BY <1>7, <1>9, <2>1 DEF WriteNewline
<1>10. ASSUME NEW r \in Requests, NEW k \in Kinds, WriteFails(k, r) PROVE EventInv'
  <2>1. CASE events' = events
    <3>1. \A q \in Requests : task["event"][q] \in {"text", "written", "failed", "lost"} =>
            task'["event"][q] \in {"text", "written", "failed", "lost"}
      BY <1>0, <1>10 DEF WriteFails
    <3>. QED BY <1>10, <2>1, <3>1, EventFrame DEF WriteFails
  <2>2. CASE k = "event" /\ CutShort(k, r)
    <3>1. /\ task["event"][r] = "spawned" /\ task'["event"][r] = "failed"
          /\ \A q \in Requests : q # r => task'["event"][q] = task["event"][q]
      BY <1>0, <1>10, <2>2 DEF WriteFails, CutShort
    <3>. QED BY <1>7, <1>10, <2>2, <3>1 DEF WriteFails, CutShort
  <2>. QED BY <1>10, <2>1, <2>2 DEF WriteFails, CutShort, fileVars
<1>11. CASE Tick
  BY <1>11, EventFrame DEF Tick, processVars, fileVars
<1>12. CASE Crash
  <2>1. \A q \in Requests : task["event"][q] \in {"text", "written", "failed", "lost"} =>
          task'["event"][q] \in {"text", "written", "failed", "lost"}
    BY <1>0, <1>12 DEF Crash
  <2>. QED BY <1>12, <2>1, EventFrame DEF Crash, fileVars
<1>. QED
  BY <1>1, <1>2, <1>3, <1>4, <1>5, <1>6, <1>8, <1>9, <1>10, <1>11, <1>12 DEF Next, Handle, Write

-----------------------------------------------------------------------------
LEMMA LogsStep == LogsInv /\ [Next]_vars => LogsInv'
BY TypeStep, StageStep, NumberStep, TrafficStep, EventStep DEF LogsInv

(* Requests with a line, or with an event, have ids that differ.           *)
LEMMA IdsDiffer == LogsInv => IdsUnique
<1>. SUFFICES ASSUME LogsInv PROVE IdsUnique
  OBVIOUS
<1>0. "traffic" \in Kinds /\ "event" \in Kinds /\ TypeOK
  BY DEF Kinds, LogsInv
<1>1. TrafficIdsUnique
  <2>. SUFFICES ASSUME NEW s \in Services, NEW t \in Services,
                       NEW i \in DOMAIN traffic[s], NEW j \in DOMAIN traffic[t],
                       traffic[s][i].id = traffic[t][j].id
                PROVE  s = t /\ i = j
    BY DEF TrafficIdsUnique
  <2>. DEFINE q == traffic[s][i].request  r == traffic[t][j].request
  <2>1. q \in Requests /\ r \in Requests
    BY <1>0, RequestOfLine
  <2>2. Stamped("traffic", q) /\ Stamped("traffic", r) /\ id["traffic"][q] = id["traffic"][r]
    BY DEF LogsInv, TrafficInv, Stamped
  <2>3. q = r
    <3>. HIDE DEF q, r
    <3>. QED BY <1>0, <2>1, <2>2 DEF LogsInv, NumberInv
  <2>. QED BY <2>3 DEF LogsInv, TrafficInv
<1>2. EventIdsUnique
  <2>. SUFFICES ASSUME NEW i \in DOMAIN events, NEW j \in DOMAIN events,
                       events[i].piece = "text", events[j].piece = "text",
                       events[i].id = events[j].id
                PROVE  i = j
    BY DEF EventIdsUnique
  <2>. DEFINE q == events[i].request  r == events[j].request
  <2>1. q \in Requests /\ r \in Requests
    BY <1>0, RequestOfPiece
  <2>2. Stamped("event", q) /\ Stamped("event", r) /\ id["event"][q] = id["event"][r]
    BY DEF LogsInv, EventInv, Stamped
  <2>3. q = r
    <3>. HIDE DEF q, r
    <3>. QED BY <1>0, <2>1, <2>2 DEF LogsInv, NumberInv
  <2>. QED BY <2>3 DEF LogsInv, EventInv
<1>. QED BY <1>1, <1>2 DEF IdsUnique

(* No two lines of the traffic logs and no two events have the same id,    *)
(* across restarts too (main.rs:213-214, wide_events.rs:135-136).          *)
THEOREM IdsCorrect == Spec => []IdsUnique
<1>. QED BY LogsInit, LogsStep, IdsDiffer, PTL DEF Spec

-----------------------------------------------------------------------------
(* More markers never make a request more human.                           *)
LEMMA InferMonotone ==
  ASSUME NEW h, NEW u, NEW h2, NEW u2, h \subseteq h2, u \subseteq u2, u = {} => u2 = {}
  PROVE  Rank(InferWorkloadClass(h, u)) <= Rank(InferWorkloadClass(h2, u2))
<1>1. IsCi(h, u) => IsCi(h2, u2)
  BY DEF IsCi
<1>2. IsAgent(h, u) => IsAgent(h2, u2)
  BY DEF IsAgent
<1>3. u \cap HUMAN_BROWSER_SIGNATURES # {} => u2 \cap HUMAN_BROWSER_SIGNATURES # {}
  OBVIOUS
<1>4. Rank("unknown") = 0 /\ Rank("human") = 1 /\ Rank("agent") = 2 /\ Rank("ci") = 3
  BY DEF Rank
<1>. HIDE DEF Rank, IsCi, IsAgent
<1>. QED BY <1>1, <1>2, <1>3, <1>4 DEF InferWorkloadClass

(* The class of a request is the one of the headers and User-Agent it came *)
(* with.                                                                   *)
ClassInv ==
  Observability =>
    \A r \in Requests :
      entryId[r] # -1 => class[r] = InferWorkloadClass(profile[r].headers, profile[r].ua)

LEMMA ClassStep == TypeOK /\ ClassInv /\ [Next]_vars => ClassInv'
<1>. SUFFICES ASSUME TypeOK, ClassInv, [Next]_vars PROVE ClassInv'
  OBVIOUS
<1>1. ASSUME NEW r \in Requests, NEW p \in Profiles, Record(r, p) PROVE ClassInv'
  <2>1. /\ class \in [Requests -> Classes] /\ profile \in [Requests -> Profiles]
        /\ entryId \in [Requests -> Nat \cup {-1}]
    BY DEF TypeOK
  <2>. QED BY <1>1, <2>1 DEF Record, ClassInv
<1>2. CASE UNCHANGED <<profile, class, entryId>>
  BY <1>2 DEF ClassInv
<1>3. ASSUME NEW r \in Requests, Handle(r) \/ Write(r) \/ \E k \in Kinds : WriteFails(k, r)
      PROVE  UNCHANGED <<profile, class, entryId>>
  BY <1>3 DEF Handle, Write, TakeNumber, Stamp, Observe, WriteLine, WriteText, WriteNewline,
              WriteFails
<1>4. CASE Tick \/ Crash
  BY <1>2, <1>4 DEF Tick, Crash, processVars
<1>. QED BY <1>1, <1>2, <1>3, <1>4 DEF Next, vars, processVars

(* A request with more markers of a runner or an agent is never taken for  *)
(* something more human (workload_class.rs:27-35).                         *)
THEOREM ClassCorrect == Spec => []ClassMonotone
<1>1. Init => ClassInv
  BY DEF Init, ClassInv
<1>2. ClassInv => ClassMonotone
  BY InferMonotone DEF ClassInv, ClassMonotone
<1>. QED BY TypeInit, TypeStep, ClassStep, <1>1, <1>2, PTL DEF Spec
=============================================================================
