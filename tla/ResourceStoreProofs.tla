------------------------ MODULE ResourceStoreProofs ------------------------
(***************************************************************************)
(* Proofs about ResourceStore, for any finite set of resources and any     *)
(* captures, transitions, write failures, disconnects and crashes.         *)
(***************************************************************************)
EXTENDS ResourceStore, FiniteSetTheorems, WellFoundedInduction, TLAPS

(* A record of a resource that a capture which has begun is the body of,   *)
(* and whose status agrees with its state.                                 *)
Made(x, r) ==
  /\ r \in Record /\ Consistent(x, r)
  /\ target[r.body] = x /\ pc[r.body] \notin {"idle", "spawned"}

(* Every record that is kept, on its way to the log or in it.              *)
RecordInv ==
  /\ \A x \in Resources : by_service[x] # NoResource => Made(x, by_service[x])
  /\ \A x \in Resources : bucket[x] # NoResource => Made(x, bucket[x])
  /\ \A i \in DOMAIN log.lines : \A j \in DOMAIN log.lines[i] :
       log.lines[i][j].rec # NoResource => Made(log.lines[i][j].res, log.lines[i][j].rec)
  /\ \A o \in Ops : pc[o] = "line" => rec[o] # NoResource /\ Made(target[o], rec[o])
  /\ \A t \in Transitions : pc[t] = "applied" => by_service[target[t]] # NoResource
  /\ log.open => log.lines # <<>>

(* Until the map is loaded nobody works on it or on the log.               *)
BootInv ==
  /\ serving # "up" => /\ by_service = EmptyMap /\ tails = {}
                       /\ \A o \in Ops : pc[o] \in {"idle", "done", "gone"}
  /\ serving \in {"compact", "insert"} => bucket = Replay(log)
  /\ crashes = 0 => serving = "up"

(* The state a transition reported leads to the one its resource is in, as *)
(* long as the map lives that it was made in.                              *)
Follows(x, r, h) == r # NoResource /\ r.state \in ReachableFrom(MachineOf[x], h)

ReachInv ==
  /\ \A t \in Transitions : pc[t] = "idle" => header[t] = NoState
  /\ \A t \in Transitions :
       /\ header[t] # NoState /\ CapturedOnce(target[t])
       /\ crashes = 0 \/ pc[t] \in {"applied", "line", "newline", "respond"}
       => Follows(target[t], by_service[target[t]], header[t])
  /\ \A t \in Transitions :
       /\ Reports(t) /\ served[t] # NoResource /\ CapturedOnce(target[t])
       => Follows(target[t], served[t], header[t])

StoreInv == TypeOK /\ RecordInv /\ BootInv /\ ReachInv /\ NoDoubleTransition

-----------------------------------------------------------------------------
(* A set of naturals that is not empty and is bounded has a greatest.      *)
LEMMA GreatestNat ==
  ASSUME NEW k \in Nat, NEW S, S \subseteq 1..k, S # {}
  PROVE  \E n \in S : \A m \in S : m <= n
<1>. DEFINE T == {k - n : n \in S}
<1>0. T \subseteq Nat /\ T # {}
  <2>1. T \subseteq Nat
    OBVIOUS
  <2>2. PICK n \in S : TRUE
    OBVIOUS
  <2>3. k - n \in T
    BY <2>2
  <2>. QED BY <2>1, <2>3
<1>1. PICK t \in T : \A u \in T : ~ (<<u, t>> \in OpToRel(<, Nat))
  <2>. HIDE DEF T
  <2>. QED BY <1>0, NatLessThanWellFounded, WFMin
<1>2. PICK n \in S : t = k - n
  OBVIOUS
<1>3. \A u \in T : ~ (u < t)
  <2>. HIDE DEF T
  <2>. QED BY <1>0, <1>1 DEF OpToRel
<1>4. \A m \in S : ~ (k - m < k - n)
  BY <1>2, <1>3
<1>. QED BY <1>4

-----------------------------------------------------------------------------
(* The steps of a machine, and the states it can reach.                    *)
LEMMA ApplyEdge ==
  ASSUME NEW m \in Machines \cup {NoMachine}, NEW s, NEW a, Apply(m, s, a) # NoState
  PROVE  /\ m \in Machines /\ Apply(m, s, a) \in StatesOf(m)
         /\ Apply(m, s, a) \in States /\ <<s, a, Apply(m, s, a)>> \in Edges[m]
<1>1. m # NoMachine /\ \E n \in StatesOf(m) : <<s, a, n>> \in Edges[m]
  BY DEF Apply
<1>2. Apply(m, s, a) \in StatesOf(m) /\ <<s, a, Apply(m, s, a)>> \in Edges[m]
  BY <1>1 DEF Apply
<1>3. m \in Machines
  BY <1>1
<1>. QED BY <1>2, <1>3 DEF States

LEMMA ReachSelf ==
  ASSUME NEW m, NEW s \in StatesOf(m)
  PROVE  s \in ReachableFrom(m, s)
BY DEF ReachableFrom

LEMMA ReachEdge ==
  ASSUME NEW m, NEW h, NEW s \in ReachableFrom(m, h), NEW a, NEW n \in StatesOf(m),
         <<s, a, n>> \in Edges[m]
  PROVE  n \in ReachableFrom(m, h)
<1>1. \A set : Closed(m, set) /\ s \in set => n \in set
  BY DEF Closed
<1>. QED BY <1>1 DEF ReachableFrom

-----------------------------------------------------------------------------
(* What the log holds, and what a boot makes of it.                        *)
Line == [res: Resources, rec: Record \cup {NoResource}]
Log == [lines: Seq(Seq(Line)), open: BOOLEAN, utf8: BOOLEAN]

LEMMA ReplayLast ==
  ASSUME NEW f \in Log, NEW x \in Resources, f.utf8, Parsable(f, x) # {}
  PROVE  \E i \in Parsable(f, x) : /\ \A j \in Parsable(f, x) : j <= i
                                   /\ Replay(f)[x] = f.lines[i][1].rec
<1>. DEFINE last == CHOOSE i \in Parsable(f, x) : \A j \in Parsable(f, x) : j <= i
<1>1. Parsable(f, x) \subseteq 1..Len(f.lines) /\ Len(f.lines) \in Nat
  BY DEF Log, Parsable
<1>2. last \in Parsable(f, x) /\ \A j \in Parsable(f, x) : j <= last
  BY <1>1, GreatestNat
<1>3. Replay(f)[x] = f.lines[last][1].rec
  BY DEF Replay
<1>. QED BY <1>2, <1>3

LEMMA ReplayNone ==
  ASSUME NEW f, NEW x \in Resources, ~f.utf8 \/ Parsable(f, x) = {}
  PROVE  Replay(f)[x] = NoResource
BY DEF Replay

(* What is replayed of a resource is a record of a line about it.          *)
LEMMA ReplayFrom ==
  ASSUME NEW f \in Log, NEW x \in Resources, Replay(f)[x] # NoResource
  PROVE  \E i \in DOMAIN f.lines : \E j \in DOMAIN f.lines[i] :
           f.lines[i][j].res = x /\ f.lines[i][j].rec = Replay(f)[x]
<1>1. f.utf8 /\ Parsable(f, x) # {}
  BY ReplayNone
<1>2. PICK i \in Parsable(f, x) : Replay(f)[x] = f.lines[i][1].rec
  BY <1>1, ReplayLast
<1>3. i \in DOMAIN f.lines /\ Len(f.lines[i]) = 1 /\ f.lines[i][1].res = x
  BY DEF Parsable
<1>4. 1 \in DOMAIN f.lines[i]
  BY <1>3 DEF Log
<1>. QED BY <1>2, <1>3, <1>4

LEMMA ReplayType ==
  ASSUME NEW f \in Log
  PROVE  Replay(f) \in [Resources -> Record \cup {NoResource}]
<1>1. ASSUME NEW x \in Resources PROVE Replay(f)[x] \in Record \cup {NoResource}
  <2>1. CASE Replay(f)[x] # NoResource
    <3>1. PICK i \in DOMAIN f.lines : \E j \in DOMAIN f.lines[i] :
            f.lines[i][j].rec = Replay(f)[x]
      BY <2>1, ReplayFrom
    <3>2. \A j \in DOMAIN f.lines[i] : f.lines[i][j] \in Line
      BY DEF Log
    <3>. QED BY <3>1, <3>2 DEF Line
  <2>. QED BY <2>1
<1>2. Replay(f) = [x \in Resources |-> Replay(f)[x]]
  BY DEF Replay
<1>. QED BY <1>1, <1>2

(* A record is appended after all others: nothing else changes.            *)
LEMMA AppendLineType ==
  ASSUME NEW f \in Log, f.open => f.lines # <<>>, NEW x \in Resources,
         NEW r \in Record \cup {NoResource}
  PROVE  LET g == AppendLine(f, x, r)
         IN  /\ g \in Log /\ g.lines # <<>>
             /\ \A i \in DOMAIN g.lines : \A j \in DOMAIN g.lines[i] :
                  \/ g.lines[i][j] = [res |-> x, rec |-> r]
                  \/ i \in DOMAIN f.lines /\ j \in DOMAIN f.lines[i]
                       /\ g.lines[i][j] = f.lines[i][j]
<1>. DEFINE e == [res |-> x, rec |-> r]
            g == AppendLine(f, x, r)
            n == Len(f.lines)
<1>0. f.lines \in Seq(Seq(Line)) /\ f.open \in BOOLEAN /\ f.utf8 \in BOOLEAN /\ e \in Line /\ n \in Nat
  BY DEF Log, Line
<1>1. CASE f.open
  <2>1. n \in DOMAIN f.lines /\ f.lines[n] \in Seq(Line)
    BY <1>0, <1>1
  <2>2. g = [lines |-> [f.lines EXCEPT ![n] = Append(f.lines[n], e)], open |-> f.open,
            utf8 |-> f.utf8]
    BY <1>1 DEF AppendLine, Log
  <2>3. Append(f.lines[n], e) \in Seq(Line)
    BY <1>0, <2>1
  <2>4. [f.lines EXCEPT ![n] = Append(f.lines[n], e)] \in Seq(Seq(Line))
    BY <1>0, <2>1, <2>3
  <2>5. \A j \in DOMAIN Append(f.lines[n], e) :
          \/ Append(f.lines[n], e)[j] = e
          \/ j \in DOMAIN f.lines[n] /\ Append(f.lines[n], e)[j] = f.lines[n][j]
    BY <1>0, <2>1
  <2>6. \A i \in DOMAIN g.lines :
          IF i = n THEN g.lines[i] = Append(f.lines[n], e)
                   ELSE i \in DOMAIN f.lines /\ g.lines[i] = f.lines[i]
    BY <2>2
  <2>7. g.lines # <<>> /\ g \in Log
    <3>1. n \in DOMAIN g.lines
      BY <2>1, <2>2
    <3>. QED BY <1>0, <2>2, <2>4, <3>1 DEF Log
  <2>. HIDE DEF e, g
  <2>8. \A i \in DOMAIN g.lines : \A j \in DOMAIN g.lines[i] :
          \/ g.lines[i][j] = e
          \/ i \in DOMAIN f.lines /\ j \in DOMAIN f.lines[i]
               /\ g.lines[i][j] = f.lines[i][j]
    BY <2>1, <2>5, <2>6
  <2>. QED BY <2>7, <2>8 DEF e, g
<1>2. CASE ~f.open
  <2>1. g = [lines |-> Append(f.lines, <<e>>), open |-> TRUE, utf8 |-> f.utf8]
    BY <1>2 DEF AppendLine, Log
  <2>2. Append(f.lines, <<e>>) \in Seq(Seq(Line))
    BY <1>0
  <2>3. \A i \in DOMAIN g.lines :
          \/ i \in DOMAIN f.lines /\ g.lines[i] = f.lines[i]
          \/ g.lines[i] = <<e>>
    BY <1>0, <2>1
  <2>4. \A j \in DOMAIN <<e>> : <<e>>[j] = e
    OBVIOUS
  <2>5. g.lines # <<>> /\ g \in Log
    <3>1. Len(Append(f.lines, <<e>>)) = n + 1
      BY <1>0
    <3>2. g.lines # <<>>
      BY <1>0, <2>1, <3>1
    <3>. QED BY <2>1, <2>2, <3>2 DEF Log
  <2>. HIDE DEF e, g
  <2>6. \A i \in DOMAIN g.lines : \A j \in DOMAIN g.lines[i] :
          \/ g.lines[i][j] = e
          \/ i \in DOMAIN f.lines /\ j \in DOMAIN f.lines[i]
               /\ g.lines[i][j] = f.lines[i][j]
    BY <2>3, <2>4
  <2>. QED BY <2>5, <2>6 DEF e, g
<1>. QED BY <1>1, <1>2

(* A compacted log has one line per resource of the map, and replays to    *)
(* the map.                                                                *)
LEMMA CompactedReplay ==
  ASSUME NEW map \in [Resources -> Record \cup {NoResource}], NEW f \in Compacted(map)
  PROVE  /\ f \in Log /\ ~f.open /\ f.utf8 /\ Replay(f) = map
         /\ \A i \in DOMAIN f.lines : \A j \in DOMAIN f.lines[i] :
              /\ f.lines[i][j].res \in Resources
              /\ f.lines[i][j].rec = map[f.lines[i][j].res]
              /\ map[f.lines[i][j].res] # NoResource
<1>. DEFINE H == Held(map)
            e(x) == [res |-> x, rec |-> map[x]]
            S == {<<e(x)>> : x \in H}
            n == Cardinality(S)
            lines == f.lines
<1>1. /\ f = [lines |-> f.lines, open |-> FALSE, utf8 |-> TRUE]
      /\ lines \in [1..n -> S] /\ \A i, j \in 1..n : i # j => lines[i] # lines[j]
  <2>1. PICK l \in SetToSeqs(S) : f = [lines |-> l, open |-> FALSE, utf8 |-> TRUE]
    BY DEF Compacted
  <2>2. lines = l
    BY <2>1
  <2>3. l \in [1..n -> S] /\ \A i, j \in 1..n : i # j => l[i] # l[j]
    BY <2>1 DEF SetToSeqs
  <2>. HIDE DEF S, n
  <2>. QED BY <2>1, <2>2, <2>3
<1>2. \A x \in H : x \in Resources /\ e(x) \in Line /\ map[x] # NoResource
  BY DEF Held, Line
<1>3. IsFiniteSet(S) /\ n \in Nat
  <2>1. IsFiniteSet(H)
    BY OpsAssumption, FS_Subset DEF Held
  <2>2. [x \in H |-> <<e(x)>>] \in Surjection(H, S)
    BY DEF Surjection
  <2>. HIDE DEF S, H, e
  <2>. QED BY <2>1, <2>2, FS_Surjection, FS_CardinalityType
<1>4. \A l \in S : \E x \in H : l = <<e(x)>>
  OBVIOUS
<1>5. \A i \in 1..n : \E x \in H : lines[i] = <<e(x)>>
  BY <1>1, <1>4
<1>6. lines \in Seq(Seq(Line)) /\ DOMAIN lines = 1..n
  <2>1. ASSUME NEW l \in S PROVE l \in Seq(Line)
    <3>1. PICK x \in H : l = <<e(x)>>
      BY <1>4
    <3>2. e(x) \in Line
      BY <1>2
    <3>. HIDE DEF e
    <3>. QED BY <3>1, <3>2
  <2>. HIDE DEF S
  <2>. QED BY <1>1, <1>3, <2>1
<1>7. \A x \in H : \E i \in 1..n : lines[i] = <<e(x)>>
  <2>1. lines \in Injection(1..n, S)
    BY <1>1 DEF Injection, IsInjective
  <2>2. IsFiniteSet(1..n) /\ Cardinality(1..n) = n
    BY <1>3, FS_Interval
  <2>3. lines \in Surjection(1..n, S)
    <3>. HIDE DEF S, lines
    <3>1. Cardinality(S) = n
      OBVIOUS
    <3>. HIDE DEF n
    <3>. QED BY <1>3, <2>1, <2>2, <3>1, FS_Injection
  <2>4. \A l \in S : \E i \in 1..n : lines[i] = l
    BY <2>3 DEF Surjection
  <2>. QED BY <2>4
<1>8. \A x \in H : Parsable(f, x) # {}
  <2>. SUFFICES ASSUME NEW x \in H PROVE Parsable(f, x) # {}
    OBVIOUS
  <2>1. PICK i \in 1..n : lines[i] = <<e(x)>>
    BY <1>7
  <2>2. /\ i \in DOMAIN f.lines /\ Len(f.lines[i]) = 1 /\ f.lines[i][1].res = x
        /\ f.lines[i][1].rec # NoResource
    BY <1>2, <1>6, <2>1
  <2>. QED BY <2>2 DEF Parsable
<1>9. f \in Log /\ ~f.open /\ f.utf8
  <2>1. PICK l : f = [lines |-> l, open |-> FALSE, utf8 |-> TRUE]
    BY <1>1
  <2>2. l \in Seq(Seq(Line))
    BY <1>6, <2>1
  <2>. QED BY <2>1, <2>2 DEF Log
<1>10. ASSUME NEW i \in DOMAIN f.lines, NEW j \in DOMAIN f.lines[i]
       PROVE  /\ f.lines[i][j].res \in H
              /\ f.lines[i][j].rec = map[f.lines[i][j].res]
  <2>1. PICK x \in H : lines[i] = <<e(x)>>
    BY <1>5, <1>6
  <2>2. f.lines[i][j] = e(x)
    BY <2>1
  <2>. QED BY <2>2
<1>11. ASSUME NEW x \in Resources PROVE Replay(f)[x] = map[x]
  <2>1. CASE x \in H
    <3>1. Replay(f)[x] # NoResource
      <4>1. PICK i \in Parsable(f, x) : Replay(f)[x] = f.lines[i][1].rec
        BY <1>8, <1>9, <2>1, ReplayLast
      <4>2. f.lines[i][1].rec # NoResource
        BY DEF Parsable
      <4>. QED BY <4>1, <4>2
    <3>2. PICK i \in DOMAIN f.lines : \E j \in DOMAIN f.lines[i] :
            f.lines[i][j].res = x /\ f.lines[i][j].rec = Replay(f)[x]
      BY <1>9, <3>1, ReplayFrom
    <3>. QED BY <1>10, <3>2
  <2>2. CASE x \notin H
    <3>1. ASSUME Replay(f)[x] # NoResource PROVE FALSE
      <4>1. PICK i \in DOMAIN f.lines : \E j \in DOMAIN f.lines[i] : f.lines[i][j].res = x
        BY <1>9, <3>1, ReplayFrom
      <4>. QED BY <1>10, <2>2, <4>1
    <3>. QED BY <2>2, <3>1 DEF Held
  <2>. QED BY <2>1, <2>2
<1>12. Replay(f) = map
  <2>1. Replay(f) = [x \in Resources |-> Replay(f)[x]]
    BY DEF Replay
  <2>. QED BY <1>11, <2>1
<1>. QED BY <1>2, <1>9, <1>10, <1>12

-----------------------------------------------------------------------------
(* The types.                                                              *)
USE DEF inputVars, bootVars, respVars

LEMMA CapturedType ==
  ASSUME TypeOK, NEW c \in Captures
  PROVE  /\ target[c] \in Resources /\ Captured(c) \in Record
         /\ Consistent(target[c], Captured(c)) /\ Captured(c).body = c
<1>1. target[c] \in Resources /\ MachineOf[target[c]] \in Machines \cup {NoMachine}
  BY OpsAssumption DEF TypeOK, Ops
<1>2. \A m \in Machines : Initial[m] \in StatesOf(m) /\ Initial[m] \in States
  BY DEF States, StatesOf
<1>3. Captured(c) = [body |-> c,
                     state |-> IF MachineOf[target[c]] = NoMachine
                                 THEN NoState ELSE Initial[MachineOf[target[c]]],
                     status |-> IF c \in textual THEN "upstream" ELSE "absent"]
  BY DEF Captured
<1>4. Captured(c) \in Record
  BY <1>1, <1>2, <1>3 DEF Record
<1>. QED BY <1>1, <1>2, <1>3, <1>4 DEF Consistent

(* A transition of a held resource takes it along an edge of its machine.  *)
LEMMA SteppedType ==
  ASSUME NEW x \in Resources, NEW r \in Record, Consistent(x, r), NEW a,
         NEW n, n = Apply(MachineOf[x], r.state, a), n # NoState
  PROVE  /\ Stepped(r, n) \in Record /\ Consistent(x, Stepped(r, n))
         /\ Stepped(r, n).body = r.body /\ Stepped(r, n).state = n
         /\ n \in StatesOf(MachineOf[x]) /\ n \in States
         /\ <<r.state, a, n>> \in Edges[MachineOf[x]]
<1>1. /\ MachineOf[x] \in Machines /\ n \in StatesOf(MachineOf[x])
      /\ n \in States /\ <<r.state, a, n>> \in Edges[MachineOf[x]]
  BY ApplyEdge, OpsAssumption
<1>2. MachineOf[x] # NoMachine
  BY <1>1, OpsAssumption
<1>3. /\ Stepped(r, n) \in Record
      /\ Stepped(r, n).body = r.body /\ Stepped(r, n).state = n
      /\ Stepped(r, n).status = IF r.status = "absent" THEN "absent" ELSE n
  <2>. DEFINE v == IF r.status = "absent" THEN r.status ELSE n
  <2>1. Stepped(r, n) = [r EXCEPT !.state = n, !.status = v]
    BY DEF Stepped
  <2>2. v \in States \cup {"upstream", "absent"}
    BY <1>1
  <2>3. v = IF r.status = "absent" THEN "absent" ELSE n
    OBVIOUS
  <2>. HIDE DEF v
  <2>. QED BY <1>1, <2>1, <2>2, <2>3 DEF Record
<1>. QED BY <1>1, <1>2, <1>3 DEF Consistent

LEMMA NextStateStep ==
  ASSUME TypeOK, RecordInv, NEW t \in Transitions, NextState(t) # NoState
  PROVE  LET x == target[t]
             r == by_service[x]
             n == NextState(t)
         IN  /\ x \in Resources /\ r \in Record /\ Made(x, r) /\ Made(x, Stepped(r, n))
             /\ Stepped(r, n) # NoResource /\ Stepped(r, n).state = n
             /\ n \in StatesOf(MachineOf[x]) /\ n \in States
             /\ <<r.state, action[t], n>> \in Edges[MachineOf[x]]
<1>1. target[t] \in Resources
  BY DEF TypeOK, Ops
<1>2. /\ by_service[target[t]] # NoResource
      /\ NextState(t) = Apply(MachineOf[target[t]], by_service[target[t]].state, action[t])
  BY DEF NextState
<1>3. Made(target[t], by_service[target[t]])
  BY <1>1, <1>2 DEF RecordInv
<1>4. by_service[target[t]] \in Record /\ Consistent(target[t], by_service[target[t]])
  BY <1>3 DEF Made
<1>. QED BY <1>1, <1>2, <1>3, <1>4, SteppedType, NoResourceAssumption DEF Made

(* What is left of a line that was cut short comes after all others.       *)
LEMMA CutLineType ==
  ASSUME log \in Log, log.open => log.lines # <<>>, target \in [Ops -> Resources],
         NEW o \in Ops, PersistFail(o)
  PROVE  /\ log' \in Log /\ (log'.open => log'.lines # <<>>)
         /\ \A i \in DOMAIN log'.lines : \A j \in DOMAIN log'.lines[i] :
              \/ log'.lines[i][j].rec = NoResource
              \/ i \in DOMAIN log.lines /\ j \in DOMAIN log.lines[i]
                   /\ log'.lines[i][j] = log.lines[i][j]
<1>. DEFINE g == AppendLine(log, target[o], NoResource)
<1>1. CASE log' = log
  BY <1>1
<1>2. ASSUME NEW u \in BOOLEAN, log' = [g EXCEPT !.utf8 = u]
      PROVE  /\ log' \in Log /\ log'.lines # <<>>
             /\ \A i \in DOMAIN log'.lines : \A j \in DOMAIN log'.lines[i] :
                  \/ log'.lines[i][j].rec = NoResource
                  \/ i \in DOMAIN log.lines /\ j \in DOMAIN log.lines[i]
                       /\ log'.lines[i][j] = log.lines[i][j]
  <2>1. /\ g \in Log /\ g.lines # <<>>
        /\ \A i \in DOMAIN g.lines : \A j \in DOMAIN g.lines[i] :
             \/ g.lines[i][j] = [res |-> target[o], rec |-> NoResource]
             \/ i \in DOMAIN log.lines /\ j \in DOMAIN log.lines[i]
                  /\ g.lines[i][j] = log.lines[i][j]
    BY AppendLineType
  <2>. HIDE DEF g
  <2>2. log' \in Log /\ log'.lines = g.lines
    BY <1>2, <2>1 DEF Log
  <2>. QED BY <2>1, <2>2
<1>3. log' = log \/ \E u \in BOOLEAN : log' = [g EXCEPT !.utf8 = u]
  BY DEF PersistFail, Log
<1>. QED BY <1>1, <1>2, <1>3

LEMMA TypeInit == Init => TypeOK
BY OpsAssumption DEF Init, TypeOK, EmptyMap, EmptyLog

LEMMA OpTypes ==
  ASSUME TypeOK, RecordInv, NEW o \in Ops,
         WriteLine(o) \/ QueueNewline(o) \/ WriteNewline(o) \/ LoseNewline(o) \/ PersistFail(o)
  PROVE  TypeOK'
<1>1. CASE WriteLine(o)
  <2>1. /\ target[o] \in Resources /\ rec[o] \in Record
        /\ log \in Log /\ (log.open => log.lines # <<>>)
    BY <1>1 DEF WriteLine, TypeOK, RecordInv, Log, Line
  <2>2. log' \in Log
    BY <1>1, <2>1, AppendLineType DEF WriteLine
  <2>. QED BY <1>1, <2>2 DEF TypeOK, WriteLine, Log, Line
<1>2. CASE QueueNewline(o)
  BY <1>2 DEF TypeOK, QueueNewline, Persisted
<1>3. CASE WriteNewline(o)
  <2>1. log' \in Log
    BY <1>3 DEF WriteNewline, AppendNewline, TypeOK, Log, Line
  <2>. QED BY <1>3, <2>1 DEF TypeOK, WriteNewline, Log, Line
<1>4. CASE PersistFail(o)
  <2>1. log' \in Log
    BY <1>4, CutLineType DEF TypeOK, RecordInv, Log, Line
  <2>. QED BY <1>4, <2>1 DEF TypeOK, PersistFail, Persisted, Log, Line
<1>5. CASE LoseNewline(o)
  BY <1>5 DEF TypeOK, LoseNewline
<1>. QED BY <1>1, <1>2, <1>3, <1>5, <1>4

LEMMA LoadTypes ==
  ASSUME TypeOK, Crash \/ LoadRead \/ LoadReadFail \/ LoadCompact \/ LoadCompactFail \/ LoadInsert
  PROVE  TypeOK'
<1>0. log \in Log
  BY DEF TypeOK, Log, Line
<1>1. CASE Crash
  BY <1>1, OpsAssumption DEF TypeOK, Crash, EmptyMap
<1>2. CASE LoadRead
  BY <1>0, <1>2, ReplayType DEF TypeOK, LoadRead
<1>3. CASE LoadCompact
  BY <1>3, CompactedReplay DEF TypeOK, LoadCompact, Log, Line
<1>4. CASE LoadReadFail \/ LoadCompactFail
  BY <1>4 DEF TypeOK, LoadReadFail, LoadCompactFail
<1>5. CASE LoadInsert
  BY <1>5 DEF TypeOK, LoadInsert, EmptyMap
<1>. QED BY <1>1, <1>2, <1>3, <1>4, <1>5

LEMMA TypeStep == TypeOK /\ RecordInv /\ [Next]_vars => TypeOK'
<1>. SUFFICES ASSUME TypeOK, RecordInv, [Next]_vars PROVE TypeOK'
  OBVIOUS
<1>1. CASE UNCHANGED vars
  BY <1>1 DEF vars, TypeOK
<1>2. ASSUME NEW c \in Captures, Learn(c) \/ CaptureCreate(c) PROVE TypeOK'
  <2>1. Captured(c) \in Record /\ c \in Ops /\ target[c] \in Resources
    BY CapturedType DEF Ops
  <2>2. CASE Learn(c)
    BY <2>1, <2>2 DEF TypeOK, Learn
  <2>3. CASE CaptureCreate(c)
    BY <2>1, <2>3 DEF TypeOK, CaptureCreate
  <2>. QED BY <1>2, <2>2, <2>3
<1>3. ASSUME NEW t \in Transitions, ApplyTransition(t) PROVE TypeOK'
  <2>1. /\ target[t] \in Resources /\ Stepped(by_service[target[t]], NextState(t)) \in Record
        /\ NextState(t) \in States /\ t \in Ops
    BY <1>3, NextStateStep DEF ApplyTransition, Made, Ops
  <2>2. by_service' \in [Resources -> Record \cup {NoResource}]
    BY <1>3, <2>1 DEF TypeOK, ApplyTransition
  <2>. QED BY <1>3, <2>1, <2>2 DEF TypeOK, ApplyTransition
<1>4. ASSUME NEW t \in Transitions,
             RejectTransition(t) \/ SnapshotTransition(t) \/ Respond(t) \/ Disconnect(t)
      PROVE  TypeOK'
  <2>1. t \in Ops /\ target[t] \in Resources
    BY DEF Ops, TypeOK
  <2>2. by_service[target[t]] \in Record \cup {NoResource}
    BY <2>1 DEF TypeOK
  <2>. QED BY <1>4, <2>1, <2>2
           DEF TypeOK, RejectTransition, SnapshotTransition, Respond, Disconnect
<1>. QED BY <1>1, <1>2, <1>3, <1>4, OpTypes, LoadTypes DEF Next, Start, Progress

-----------------------------------------------------------------------------
(* The records: each is a captured body of its resource, taken along the   *)
(* edges of its machine.                                                   *)
LEMMA StepCases ==
  ASSUME Next
  PROVE  \/ \E c \in Captures : Learn(c) \/ CaptureCreate(c)
         \/ \E t \in Transitions :
              \/ ApplyTransition(t) \/ RejectTransition(t) \/ SnapshotTransition(t)
              \/ Respond(t) \/ Disconnect(t)
         \/ \E o \in Ops : \/ WriteLine(o) \/ PersistFail(o) \/ QueueNewline(o)
                           \/ WriteNewline(o) \/ LoseNewline(o)
         \/ Crash \/ LoadRead \/ LoadReadFail \/ LoadCompact \/ LoadCompactFail \/ LoadInsert
BY DEF Next, Start, Progress

(* A capture that has begun stays begun, and no step changes a request.    *)
LEMMA BegunStays ==
  ASSUME TypeOK, [Next]_vars
  PROVE  /\ target' = target /\ action' = action /\ textual' = textual
         /\ \A c \in Captures : pc[c] \notin {"idle", "spawned"} => pc'[c] \notin {"idle", "spawned"}
<1>0. Captures \subseteq Ops /\ DOMAIN pc = Ops
  BY DEF Ops, TypeOK
<1>1. CASE UNCHANGED vars
  BY <1>1 DEF vars
<1>2. ASSUME NEW c \in Captures, Learn(c) \/ CaptureCreate(c)
      PROVE  /\ target' = target /\ action' = action /\ textual' = textual
             /\ \A d \in Captures : pc[d] \notin {"idle", "spawned"} => pc'[d] \notin {"idle", "spawned"}
  BY <1>0, <1>2 DEF Learn, CaptureCreate
<1>3. ASSUME NEW t \in Transitions,
             \/ ApplyTransition(t) \/ RejectTransition(t) \/ SnapshotTransition(t)
             \/ Respond(t) \/ Disconnect(t)
      PROVE  /\ target' = target /\ action' = action /\ textual' = textual
             /\ \A d \in Captures : pc[d] \notin {"idle", "spawned"} => pc'[d] \notin {"idle", "spawned"}
  BY <1>0, <1>3
     DEF ApplyTransition, RejectTransition, SnapshotTransition, Respond, Disconnect
<1>4. ASSUME NEW o \in Ops, \/ WriteLine(o) \/ PersistFail(o) \/ QueueNewline(o)
                            \/ WriteNewline(o) \/ LoseNewline(o)
      PROVE  /\ target' = target /\ action' = action /\ textual' = textual
             /\ \A d \in Captures : pc[d] \notin {"idle", "spawned"} => pc'[d] \notin {"idle", "spawned"}
  BY <1>0, <1>4
     DEF WriteLine, PersistFail, QueueNewline, WriteNewline, LoseNewline, Persisted
<1>5. CASE Crash \/ LoadRead \/ LoadReadFail \/ LoadCompact \/ LoadCompactFail \/ LoadInsert
  BY <1>0, <1>5 DEF Crash, LoadRead, LoadReadFail, LoadCompact, LoadCompactFail, LoadInsert
<1>. QED BY <1>1, <1>2, <1>3, <1>4, <1>5, StepCases

(* Made, of a record after the step.                                       *)
MadeThen(x, r) ==
  /\ r \in Record /\ Consistent(x, r)
  /\ target'[r.body] = x /\ pc'[r.body] \notin {"idle", "spawned"}

LEMMA MadeStays ==
  ASSUME TypeOK, [Next]_vars
  PROVE  \A x, r : Made(x, r) => MadeThen(x, r)
<1>. SUFFICES ASSUME NEW x, NEW r, Made(x, r) PROVE MadeThen(x, r)
  OBVIOUS
<1>1. r.body \in Captures
  BY DEF Made, Record
<1>. QED BY <1>1, BegunStays DEF Made, MadeThen

LEMMA MapMade ==
  ASSUME TypeOK, RecordInv, [Next]_vars, NEW x \in Resources, by_service'[x] # NoResource
  PROVE  MadeThen(x, by_service'[x])
<1>1. CASE by_service' = by_service
  BY <1>1, MadeStays DEF RecordInv
<1>2. ASSUME NEW c \in Captures, CaptureCreate(c) PROVE MadeThen(x, by_service'[x])
  <2>1. CASE x = target[c]
    <3>1. by_service'[x] = Captured(c)
      BY <1>2, <2>1 DEF CaptureCreate, TypeOK
    <3>2. target'[c] = x /\ pc'[c] = "line"
      BY <1>2, <2>1 DEF CaptureCreate, TypeOK, Ops
    <3>3. Captured(c) \in Record /\ Consistent(x, Captured(c)) /\ Captured(c).body = c
      BY <2>1, CapturedType
    <3>. QED BY <3>1, <3>2, <3>3 DEF MadeThen
  <2>2. CASE x # target[c]
    <3>1. by_service'[x] = by_service[x]
      BY <1>2, <2>2 DEF CaptureCreate, TypeOK
    <3>. QED BY <3>1, MadeStays DEF RecordInv
  <2>. QED BY <2>1, <2>2
<1>3. ASSUME NEW t \in Transitions, ApplyTransition(t) PROVE MadeThen(x, by_service'[x])
  <2>1. CASE x = target[t]
    <3>1. by_service'[x] = Stepped(by_service[x], NextState(t))
      BY <1>3, <2>1 DEF ApplyTransition, TypeOK
    <3>2. Made(x, Stepped(by_service[x], NextState(t)))
      BY <1>3, <2>1, NextStateStep DEF ApplyTransition
    <3>. QED BY <3>1, <3>2, MadeStays
  <2>2. CASE x # target[t]
    <3>1. by_service'[x] = by_service[x]
      BY <1>3, <2>2 DEF ApplyTransition, TypeOK
    <3>. QED BY <3>1, MadeStays DEF RecordInv
  <2>. QED BY <2>1, <2>2
<1>4. CASE Crash
  BY <1>4 DEF Crash, EmptyMap
<1>5. CASE LoadInsert
  BY <1>5, MadeStays DEF LoadInsert, RecordInv
<1>6. ASSUME by_service' # by_service
      PROVE  \/ \E c \in Captures : CaptureCreate(c)
             \/ \E t \in Transitions : ApplyTransition(t)
             \/ Crash \/ LoadInsert
  BY <1>6, StepCases
     DEF vars, Learn, RejectTransition, SnapshotTransition, Respond, Disconnect,
         WriteLine, PersistFail, QueueNewline, WriteNewline, LoseNewline,
         LoadRead, LoadReadFail, LoadCompact, LoadCompactFail
<1>. QED BY <1>1, <1>2, <1>3, <1>4, <1>5, <1>6

LEMMA BucketMade ==
  ASSUME TypeOK, RecordInv, [Next]_vars, NEW x \in Resources, bucket'[x] # NoResource
  PROVE  MadeThen(x, bucket'[x])
<1>1. CASE bucket' = bucket
  BY <1>1, MadeStays DEF RecordInv
<1>2. CASE Crash \/ LoadInsert
  BY <1>2 DEF Crash, LoadInsert, EmptyMap
<1>3. CASE LoadRead
  <2>1. bucket'[x] = Replay(log)[x] /\ log \in Log
    BY <1>3 DEF LoadRead, TypeOK, Log, Line
  <2>2. PICK i \in DOMAIN log.lines : \E j \in DOMAIN log.lines[i] :
          log.lines[i][j].res = x /\ log.lines[i][j].rec = Replay(log)[x]
    BY <2>1, ReplayFrom
  <2>3. Made(x, Replay(log)[x])
    BY <2>1, <2>2 DEF RecordInv
  <2>. QED BY <2>1, <2>3, MadeStays
<1>4. ASSUME bucket' # bucket PROVE Crash \/ LoadInsert \/ LoadRead
  BY <1>4, StepCases
     DEF vars, Learn, CaptureCreate, ApplyTransition, RejectTransition,
         SnapshotTransition, Respond, Disconnect,
         WriteLine, PersistFail, QueueNewline, WriteNewline, LoseNewline,
         LoadReadFail, LoadCompact, LoadCompactFail
<1>. QED BY <1>1, <1>2, <1>3, <1>4

LEMMA LogMade ==
  ASSUME TypeOK, RecordInv, [Next]_vars
  PROVE  /\ log'.open => log'.lines # <<>>
         /\ \A i \in DOMAIN log'.lines : \A j \in DOMAIN log'.lines[i] :
              log'.lines[i][j].rec # NoResource =>
                MadeThen(log'.lines[i][j].res, log'.lines[i][j].rec)
<1>0. log \in Log
  BY DEF TypeOK, Log, Line
<1>1. \A i \in DOMAIN log.lines : \A j \in DOMAIN log.lines[i] :
        log.lines[i][j].rec # NoResource =>
          MadeThen(log.lines[i][j].res, log.lines[i][j].rec)
  BY MadeStays DEF RecordInv
<1>2. CASE log'.lines = log.lines /\ (log'.open => log.open)
  BY <1>2, <1>1 DEF RecordInv
<1>3. ASSUME NEW o \in Ops, WriteLine(o)
      PROVE  /\ log'.open => log'.lines # <<>>
             /\ \A i \in DOMAIN log'.lines : \A j \in DOMAIN log'.lines[i] :
                  log'.lines[i][j].rec # NoResource =>
                    MadeThen(log'.lines[i][j].res, log'.lines[i][j].rec)
  <2>1. /\ target[o] \in Resources /\ rec[o] \in Record /\ Made(target[o], rec[o])
        /\ log.open => log.lines # <<>>
    BY <1>3 DEF WriteLine, TypeOK, RecordInv, Made
  <2>2. log' = AppendLine(log, target[o], rec[o])
    BY <1>3 DEF WriteLine
  <2>3. /\ log'.lines # <<>>
        /\ \A i \in DOMAIN log'.lines : \A j \in DOMAIN log'.lines[i] :
             \/ log'.lines[i][j] = [res |-> target[o], rec |-> rec[o]]
             \/ i \in DOMAIN log.lines /\ j \in DOMAIN log.lines[i]
                  /\ log'.lines[i][j] = log.lines[i][j]
    BY <1>0, <2>1, <2>2, AppendLineType
  <2>4. MadeThen(target[o], rec[o])
    BY <2>1, MadeStays
  <2>5. \A i \in DOMAIN log.lines : \A j \in DOMAIN log.lines[i] :
          log.lines[i][j].rec # NoResource =>
            MadeThen(log.lines[i][j].res, log.lines[i][j].rec)
    BY <1>1
  <2>6. ASSUME NEW i \in DOMAIN log'.lines, NEW j \in DOMAIN log'.lines[i],
               log'.lines[i][j].rec # NoResource
        PROVE  MadeThen(log'.lines[i][j].res, log'.lines[i][j].rec)
    <3>1. CASE log'.lines[i][j] = [res |-> target[o], rec |-> rec[o]]
      BY <2>4, <3>1
    <3>2. CASE /\ i \in DOMAIN log.lines /\ j \in DOMAIN log.lines[i]
               /\ log'.lines[i][j] = log.lines[i][j]
      BY <2>5, <2>6, <3>2
    <3>. QED BY <2>3, <3>1, <3>2
  <2>. QED BY <2>3, <2>6
<1>4. ASSUME NEW o \in Ops, WriteNewline(o)
      PROVE  log'.lines = log.lines /\ ~log'.open
  BY <1>0, <1>4 DEF WriteNewline, AppendNewline, Log
<1>5. CASE LoadCompact
  <2>1. bucket \in [Resources -> Record \cup {NoResource}] /\ log' \in Compacted(bucket)
    BY <1>5 DEF LoadCompact, TypeOK
  <2>2. /\ ~log'.open
        /\ \A i \in DOMAIN log'.lines : \A j \in DOMAIN log'.lines[i] :
             /\ log'.lines[i][j].res \in Resources
             /\ log'.lines[i][j].rec = bucket[log'.lines[i][j].res]
             /\ bucket[log'.lines[i][j].res] # NoResource
    BY <2>1, CompactedReplay
  <2>3. \A x \in Resources : bucket[x] # NoResource => MadeThen(x, bucket[x])
    BY MadeStays DEF RecordInv
  <2>. QED BY <2>2, <2>3
<1>6. ASSUME NEW o \in Ops, PersistFail(o)
      PROVE  /\ log'.open => log'.lines # <<>>
             /\ \A i \in DOMAIN log'.lines : \A j \in DOMAIN log'.lines[i] :
                  log'.lines[i][j].rec # NoResource =>
                    MadeThen(log'.lines[i][j].res, log'.lines[i][j].rec)
  <2>1. /\ log'.open => log'.lines # <<>>
        /\ \A i \in DOMAIN log'.lines : \A j \in DOMAIN log'.lines[i] :
             \/ log'.lines[i][j].rec = NoResource
             \/ i \in DOMAIN log.lines /\ j \in DOMAIN log.lines[i]
                  /\ log'.lines[i][j] = log.lines[i][j]
    BY <1>0, <1>6, CutLineType DEF TypeOK, RecordInv
  <2>. QED BY <1>1, <2>1
<1>7. ASSUME log' # log
      PROVE  \/ \E o \in Ops : WriteLine(o) \/ WriteNewline(o) \/ PersistFail(o)
             \/ LoadCompact
  BY <1>7, StepCases
     DEF vars, Learn, CaptureCreate, ApplyTransition, RejectTransition,
         SnapshotTransition, Respond, Disconnect, QueueNewline,
         LoseNewline, Crash, LoadRead, LoadReadFail, LoadCompactFail, LoadInsert
<1>. QED BY <1>2, <1>3, <1>4, <1>5, <1>7, <1>6

(* What is about to be written was held when it was looked up.             *)
LEMMA LineMade ==
  ASSUME TypeOK, RecordInv, [Next]_vars, NEW o \in Ops, pc'[o] = "line"
  PROVE  rec'[o] # NoResource /\ MadeThen(target'[o], rec'[o])
<1>0. target' = target
  BY BegunStays
<1>1. CASE pc[o] = "line" /\ rec'[o] = rec[o]
  BY <1>0, <1>1, MadeStays DEF RecordInv
<1>2. CASE o \in Captures /\ CaptureCreate(o)
  <2>1. rec'[o] = Captured(o)
    BY <1>2 DEF CaptureCreate, TypeOK
  <2>2. /\ Captured(o) \in Record /\ Consistent(target[o], Captured(o))
        /\ Captured(o).body = o
    BY <1>2, CapturedType
  <2>. QED BY <1>0, <2>1, <2>2, NoResourceAssumption DEF MadeThen
<1>3. CASE o \in Transitions /\ SnapshotTransition(o)
  <2>1. rec'[o] = by_service[target[o]] /\ target[o] \in Resources
    BY <1>3 DEF SnapshotTransition, TypeOK
  <2>2. by_service[target[o]] # NoResource /\ Made(target[o], by_service[target[o]])
    BY <1>3, <2>1 DEF SnapshotTransition, RecordInv
  <2>. QED BY <1>0, <2>1, <2>2, MadeStays
<1>4. \/ pc[o] = "line" /\ rec'[o] = rec[o]
      \/ o \in Captures /\ CaptureCreate(o)
      \/ o \in Transitions /\ SnapshotTransition(o)
  <2>0. DOMAIN pc = Ops /\ DOMAIN rec = Ops /\ Captures \subseteq Ops /\ Transitions \subseteq Ops
    BY DEF TypeOK, Ops
  <2>1. CASE UNCHANGED vars
    BY <2>1 DEF vars
  <2>2. ASSUME NEW c \in Captures, Learn(c) \/ CaptureCreate(c)
        PROVE  (pc[o] = "line" /\ rec'[o] = rec[o]) \/ (o = c /\ CaptureCreate(c))
    <3>1. CASE Learn(c)
      <4>1. rec' = rec /\ pc' = [pc EXCEPT ![c] = "spawned"]
        BY <3>1 DEF Learn
      <4>. QED BY <2>0, <4>1
    <3>2. CASE CaptureCreate(c)
      BY <2>0, <3>2 DEF CaptureCreate
    <3>. QED BY <2>2, <3>1, <3>2
  <2>3. ASSUME NEW t \in Transitions,
               \/ ApplyTransition(t) \/ RejectTransition(t) \/ SnapshotTransition(t)
               \/ Respond(t) \/ Disconnect(t)
        PROVE  (pc[o] = "line" /\ rec'[o] = rec[o]) \/ (o = t /\ SnapshotTransition(t))
    <3>1. CASE SnapshotTransition(t)
      BY <2>0, <3>1 DEF SnapshotTransition
    <3>2. CASE ApplyTransition(t) \/ RejectTransition(t) \/ Respond(t) \/ Disconnect(t)
      <4>1. rec' = rec /\ \E s \in {"applied", "done", "gone"} : pc' = [pc EXCEPT ![t] = s]
        BY <3>2 DEF ApplyTransition, RejectTransition, Respond, Disconnect
      <4>. QED BY <2>0, <4>1
    <3>. QED BY <2>3, <3>1, <3>2
  <2>4. ASSUME NEW q \in Ops, \/ WriteLine(q) \/ PersistFail(q) \/ QueueNewline(q)
                              \/ WriteNewline(q) \/ LoseNewline(q)
        PROVE  pc[o] = "line" /\ rec'[o] = rec[o]
    BY <2>0, <2>4
       DEF WriteLine, PersistFail, QueueNewline, WriteNewline, LoseNewline, Persisted
  <2>5. CASE Crash \/ LoadRead \/ LoadReadFail \/ LoadCompact \/ LoadCompactFail \/ LoadInsert
    BY <2>0, <2>5 DEF Crash, LoadRead, LoadReadFail, LoadCompact, LoadCompactFail, LoadInsert
  <2>. QED BY <2>1, <2>2, <2>3, <2>4, <2>5, StepCases
<1>. QED BY <1>1, <1>2, <1>3, <1>4

LEMMA AppliedHeld ==
  ASSUME TypeOK, RecordInv, BootInv, [Next]_vars, NEW t \in Transitions, pc'[t] = "applied"
  PROVE  by_service'[target'[t]] # NoResource
<1>0. /\ target' = target /\ t \in Ops /\ DOMAIN pc = Ops /\ target[t] \in Resources
      /\ Captures \cap Transitions = {} /\ Captures \subseteq Ops /\ Transitions \subseteq Ops
  BY BegunStays, OpsAssumption DEF TypeOK, Ops
<1>1. CASE pc[t] = "applied" /\ by_service' = by_service
  BY <1>0, <1>1 DEF RecordInv
<1>2. ASSUME NEW c \in Captures, CaptureCreate(c)
      PROVE  by_service'[target'[t]] # NoResource
  <2>1. pc[t] = "applied" /\ Captured(c) # NoResource
    BY <1>0, <1>2, CapturedType, NoResourceAssumption DEF CaptureCreate
  <2>2. by_service[target[t]] # NoResource
    BY <2>1 DEF RecordInv
  <2>. QED BY <1>0, <1>2, <2>1, <2>2 DEF CaptureCreate, TypeOK
<1>3. ASSUME NEW u \in Transitions, ApplyTransition(u)
      PROVE  by_service'[target'[t]] # NoResource
  <2>1. Stepped(by_service[target[u]], NextState(u)) # NoResource
    BY <1>3, NextStateStep DEF ApplyTransition
  <2>2. CASE target[t] = target[u]
    BY <1>0, <1>3, <2>1, <2>2 DEF ApplyTransition, TypeOK
  <2>3. CASE target[t] # target[u]
    <3>1. pc[t] = "applied"
      BY <1>0, <1>3, <2>3 DEF ApplyTransition
    <3>2. by_service[target[t]] # NoResource
      BY <3>1 DEF RecordInv
    <3>. QED BY <1>0, <1>3, <2>3, <3>2 DEF ApplyTransition, TypeOK
  <2>. QED BY <2>2, <2>3
<1>4. ASSUME Crash \/ LoadInsert PROVE FALSE
  <2>1. CASE Crash
    BY <1>0, <2>1 DEF Crash
  <2>2. CASE LoadInsert
    BY <1>0, <2>2 DEF LoadInsert, BootInv
  <2>. QED BY <1>4, <2>1, <2>2
<1>5. \/ pc[t] = "applied" /\ by_service' = by_service
      \/ \E c \in Captures : CaptureCreate(c)
      \/ \E u \in Transitions : ApplyTransition(u)
      \/ Crash \/ LoadInsert
  <2>1. CASE UNCHANGED vars
    BY <2>1 DEF vars
  <2>2. CASE Next
    BY <1>0, <2>2, StepCases
       DEF Learn, RejectTransition, SnapshotTransition, Respond, Disconnect,
           WriteLine, PersistFail, QueueNewline, WriteNewline, LoseNewline, Persisted,
           LoadRead, LoadReadFail, LoadCompact, LoadCompactFail
  <2>. QED BY <2>1, <2>2
<1>. QED BY <1>1, <1>2, <1>3, <1>4, <1>5

LEMMA RecordStep ==
  ASSUME TypeOK, RecordInv, BootInv, [Next]_vars
  PROVE  RecordInv'
<1>1. \A x \in Resources : by_service'[x] # NoResource => MadeThen(x, by_service'[x])
  BY MapMade
<1>2. \A x \in Resources : bucket'[x] # NoResource => MadeThen(x, bucket'[x])
  BY BucketMade
<1>3. \A o \in Ops : pc'[o] = "line" => rec'[o] # NoResource /\ MadeThen(target'[o], rec'[o])
  BY LineMade
<1>4. \A t \in Transitions : pc'[t] = "applied" => by_service'[target'[t]] # NoResource
  BY AppliedHeld
<1>. QED BY <1>1, <1>2, <1>3, <1>4, LogMade DEF RecordInv, Made, MadeThen

LEMMA RecordInit == Init => RecordInv
BY DEF Init, RecordInv, EmptyMap, EmptyLog, Ops

-----------------------------------------------------------------------------
(* The boot: what it parsed is what its log replays to, compacted or not.  *)
LEMMA BootInit == Init => BootInv
BY DEF Init, BootInv

LEMMA BootStep ==
  ASSUME TypeOK, BootInv, [Next]_vars
  PROVE  BootInv'
<1>0. Captures \subseteq Ops /\ Transitions \subseteq Ops
  BY DEF Ops
<1>1. CASE UNCHANGED vars
  BY <1>1 DEF vars, BootInv
<1>2. CASE serving = "up" /\ serving' = "up"
  BY <1>2 DEF BootInv
<1>3. CASE Crash
  BY <1>3 DEF Crash, BootInv, TypeOK
<1>4. CASE LoadRead
  <2>1. /\ by_service' = by_service /\ tails' = tails /\ pc' = pc /\ log' = log
        /\ serving = "read" /\ bucket' = Replay(log) /\ crashes' = crashes
    BY <1>4 DEF LoadRead
  <2>. QED BY <2>1 DEF BootInv
<1>5. CASE LoadCompact
  <2>1. bucket \in [Resources -> Record \cup {NoResource}]
    BY DEF TypeOK
  <2>2. Replay(log') = bucket /\ bucket' = bucket
    BY <1>5, <2>1, CompactedReplay DEF LoadCompact
  <2>3. Replay(log)' = Replay(log')
    BY DEF Replay, Parsable
  <2>4. /\ by_service' = by_service /\ tails' = tails /\ pc' = pc
        /\ serving = "compact" /\ crashes' = crashes
    BY <1>5 DEF LoadCompact
  <2>. QED BY <2>2, <2>3, <2>4 DEF BootInv
<1>6. CASE LoadReadFail \/ LoadCompactFail
  BY <1>6 DEF LoadReadFail, LoadCompactFail, BootInv
<1>7. CASE LoadInsert
  BY <1>7 DEF LoadInsert, BootInv
<1>8. ASSUME NEW c \in Captures, Learn(c) \/ CaptureCreate(c)
      PROVE  serving = "up" /\ serving' = "up"
  BY <1>0, <1>8 DEF Learn, CaptureCreate, BootInv, TypeOK
<1>9. ASSUME NEW t \in Transitions,
             \/ ApplyTransition(t) \/ RejectTransition(t) \/ SnapshotTransition(t)
             \/ Respond(t) \/ Disconnect(t)
      PROVE  serving = "up" /\ serving' = "up"
  BY <1>0, <1>9
     DEF ApplyTransition, RejectTransition, SnapshotTransition, Respond, Disconnect, BootInv
<1>10. ASSUME NEW o \in Ops, \/ WriteLine(o) \/ PersistFail(o) \/ QueueNewline(o)
                             \/ WriteNewline(o) \/ LoseNewline(o)
       PROVE  serving = "up" /\ serving' = "up"
  BY <1>10 DEF WriteLine, PersistFail, QueueNewline, WriteNewline, LoseNewline, BootInv
<1>. QED BY <1>1, <1>2, <1>3, <1>4, <1>5, <1>6, <1>7, <1>8, <1>9, <1>10, StepCases

(* The map is not served before it holds what the log replays to.          *)
LEMMA BootStepRebuilds ==
  ASSUME TypeOK, BootInv, [Next]_vars, serving # "up", serving' = "up"
  PROVE  \/ by_service' = Replay(log')
         \/ /\ DiskFaults /\ serving = "read"
            /\ by_service' = EmptyMap /\ log' = log
<1>0. Captures \subseteq Ops /\ Transitions \subseteq Ops
  BY DEF Ops
<1>1. CASE LoadRead
  <2>1. Held(Replay(log)) = {}
    BY <1>1 DEF LoadRead
  <2>2. Replay(log) = [x \in Resources |-> Replay(log)[x]]
    BY DEF Replay
  <2>3. Replay(log) = EmptyMap
    BY <2>1, <2>2 DEF Held, EmptyMap
  <2>. QED BY <1>1, <2>3 DEF LoadRead, BootInv
<1>2. CASE LoadInsert
  BY <1>2 DEF LoadInsert, BootInv
<1>3. CASE LoadReadFail
  BY <1>3 DEF LoadReadFail, BootInv
<1>4. LoadRead \/ LoadInsert \/ LoadReadFail
  BY <1>0, StepCases
     DEF vars, Learn, CaptureCreate, ApplyTransition, RejectTransition, SnapshotTransition,
         Respond, Disconnect, WriteLine, PersistFail, QueueNewline, WriteNewline,
         LoseNewline, Crash, LoadCompact, LoadCompactFail, BootInv
<1>. QED BY <1>1, <1>2, <1>4, <1>3

-----------------------------------------------------------------------------
(* The states: a step leads on from what was reported.                     *)
LEMMA ReachInit == Init => ReachInv /\ NoDoubleTransition
BY DEF Init, ReachInv, NoDoubleTransition, Reports

(* A capture does not replace the only captured body of its resource.      *)
LEMMA CreatesOnce ==
  ASSUME TypeOK, RecordInv, NEW c \in Captures, CaptureCreate(c), CapturedOnce(target[c])
  PROVE  by_service[target[c]] = NoResource
<1>. SUFFICES ASSUME by_service[target[c]] # NoResource PROVE FALSE
  OBVIOUS
<1>. DEFINE b == by_service[target[c]].body
<1>1. target[c] \in Resources
  BY DEF TypeOK, Ops
<1>2. b \in Captures /\ target[b] = target[c] /\ pc[b] \notin {"idle", "spawned"}
  BY <1>1 DEF RecordInv, Made, Record
<1>3. b = c
  BY <1>2 DEF CapturedOnce
<1>. QED BY <1>2, <1>3 DEF CaptureCreate

(* While the map lives, a resource captured once that is held stays held,  *)
(* in a state that follows all those its state followed.                   *)
LEMMA FollowsStays ==
  ASSUME TypeOK, RecordInv, BootInv, [Next]_vars, ~Crash, NEW x \in Resources,
         CapturedOnce(x), NEW h, Follows(x, by_service[x], h), serving = "up"
  PROVE  Follows(x, by_service'[x], h)
<1>1. CASE by_service' = by_service
  BY <1>1
<1>2. ASSUME NEW c \in Captures, CaptureCreate(c) PROVE Follows(x, by_service'[x], h)
  <2>1. target[c] # x
    BY <1>2, CreatesOnce DEF Follows
  <2>. QED BY <1>2, <2>1 DEF CaptureCreate, TypeOK
<1>3. ASSUME NEW t \in Transitions, ApplyTransition(t) PROVE Follows(x, by_service'[x], h)
  <2>1. CASE target[t] = x
    <3>. DEFINE n == NextState(t)
    <3>1. by_service'[x] = Stepped(by_service[x], n)
      BY <1>3, <2>1 DEF ApplyTransition, TypeOK
    <3>2. /\ by_service'[x] # NoResource /\ by_service'[x].state = n
          /\ n \in StatesOf(MachineOf[x])
          /\ <<by_service[x].state, action[t], n>> \in Edges[MachineOf[x]]
      BY <1>3, <2>1, <3>1, NextStateStep DEF ApplyTransition
    <3>. HIDE DEF n
    <3>. QED BY <3>2, ReachEdge DEF Follows
  <2>2. CASE target[t] # x
    BY <1>3, <2>2 DEF ApplyTransition, TypeOK
  <2>. QED BY <2>1, <2>2
<1>4. \/ by_service' = by_service
      \/ \E c \in Captures : CaptureCreate(c)
      \/ \E t \in Transitions : ApplyTransition(t)
  BY StepCases
     DEF vars, Learn, RejectTransition, SnapshotTransition, Respond, Disconnect,
         WriteLine, PersistFail, QueueNewline, WriteNewline, LoseNewline,
         LoadRead, LoadReadFail, LoadCompact, LoadCompactFail, LoadInsert
<1>. QED BY <1>1, <1>2, <1>3, <1>4

Live == {"applied", "line", "newline", "respond"}

(* What a step does to a transition t that does not apply itself.          *)
LEMMA TransitionStep ==
  ASSUME TypeOK, [Next]_vars, NEW t \in Transitions, ~ApplyTransition(t)
  PROVE  /\ header'[t] = header[t]
         /\ pc'[t] = "idle" => pc[t] = "idle"
         /\ crashes' = 0 \/ pc'[t] \in Live
              => ~Crash /\ (pc'[t] \in Live => pc[t] \in Live) /\ (crashes' = 0 => crashes = 0)
         /\ pc'[t] = "done" => \/ pc[t] = "done" /\ served'[t] = served[t]
                               \/ Respond(t) \/ RejectTransition(t)
<1>. DEFINE P == /\ header'[t] = header[t]
                 /\ pc'[t] = "idle" => pc[t] = "idle"
                 /\ ~Crash /\ (pc'[t] \in Live => pc[t] \in Live) /\ crashes' = crashes
                 /\ pc'[t] = "done" => \/ pc[t] = "done" /\ served'[t] = served[t]
                                       \/ Respond(t) \/ RejectTransition(t)
<1>0. /\ t \in Ops /\ Captures \subseteq Ops /\ Transitions \subseteq Ops
      /\ Captures \cap Transitions = {} /\ DOMAIN pc = Ops
      /\ DOMAIN header = Transitions /\ DOMAIN served = Transitions /\ crashes \in Nat
  BY OpsAssumption DEF TypeOK, Ops
<1>1. CASE UNCHANGED vars
  BY <1>0, <1>1 DEF vars, Crash
<1>2. ASSUME NEW c \in Captures, Learn(c) \/ CaptureCreate(c) PROVE P
  BY <1>0, <1>2 DEF Learn, CaptureCreate, Crash
<1>3. ASSUME NEW u \in Transitions, ApplyTransition(u) PROVE P
  <2>1. u # t
    BY <1>3
  <2>. QED BY <1>0, <1>3, <2>1 DEF ApplyTransition, Crash
<1>4. ASSUME NEW u \in Transitions, RejectTransition(u) \/ Respond(u) PROVE P
  <2>1. CASE u = t
    BY <1>0, <1>4, <2>1 DEF RejectTransition, Respond, Crash, Live
  <2>2. CASE u # t
    BY <1>0, <1>4, <2>2 DEF RejectTransition, Respond, Crash
  <2>. QED BY <2>1, <2>2
<1>5. ASSUME NEW u \in Transitions, SnapshotTransition(u) \/ Disconnect(u) PROVE P
  BY <1>0, <1>5 DEF SnapshotTransition, Disconnect, Crash, Live
<1>6. ASSUME NEW o \in Ops, \/ WriteLine(o) \/ PersistFail(o) \/ QueueNewline(o)
                            \/ WriteNewline(o) \/ LoseNewline(o)
      PROVE  P
  <2>1. t \notin Captures
    BY <1>0
  <2>. QED BY <1>0, <1>6, <2>1
           DEF WriteLine, PersistFail, QueueNewline, WriteNewline, LoseNewline,
               Persisted, Crash, Live
<1>7. CASE LoadRead \/ LoadReadFail \/ LoadCompact \/ LoadCompactFail \/ LoadInsert
  BY <1>0, <1>7 DEF LoadRead, LoadReadFail, LoadCompact, LoadCompactFail, LoadInsert, Crash
<1>8. CASE Crash
  BY <1>0, <1>8 DEF Crash, Live
<1>. QED BY <1>0, <1>1, <1>2, <1>3, <1>4, <1>5, <1>6, <1>7, <1>8, StepCases

(* What a transition reports is the state it took its resource to.         *)
LEMMA ApplyReports ==
  ASSUME TypeOK, RecordInv, NEW t \in Transitions, ApplyTransition(t)
  PROVE  /\ header'[t] = NextState(t) /\ header'[t] # NoState /\ pc'[t] = "applied"
         /\ Follows(target[t], by_service'[target[t]], header'[t])
         /\ <<by_service[target[t]].state, action[t], header'[t]>> \in Edges[MachineOf[target[t]]]
<1>1. header'[t] = NextState(t) /\ header'[t] # NoState /\ pc'[t] = "applied"
  BY DEF ApplyTransition, TypeOK, Ops
<1>2. by_service'[target[t]] = Stepped(by_service[target[t]], NextState(t))
  BY DEF ApplyTransition, TypeOK, Ops
<1>. QED BY <1>1, <1>2, NextStateStep, ReachSelf DEF Follows

LEMMA ReachStep ==
  ASSUME TypeOK, RecordInv, BootInv, ReachInv, [Next]_vars
  PROVE  ReachInv'
<1>0. target' = target /\ action' = action
  BY BegunStays
<1>1. ASSUME NEW t \in Transitions, pc'[t] = "idle" PROVE header'[t] = NoState
  <2>1. CASE ApplyTransition(t)
    BY <1>1, <2>1, ApplyReports
  <2>2. CASE ~ApplyTransition(t)
    BY <1>1, <2>2, TransitionStep DEF ReachInv
  <2>. QED BY <2>1, <2>2
<1>2. ASSUME NEW t \in Transitions, header'[t] # NoState, CapturedOnce(target[t]),
             crashes' = 0 \/ pc'[t] \in Live
      PROVE  Follows(target[t], by_service'[target[t]], header'[t])
  <2>1. CASE ApplyTransition(t)
    BY <2>1, ApplyReports
  <2>2. CASE ~ApplyTransition(t)
    <3>1. header'[t] = header[t] /\ ~Crash /\ (crashes = 0 \/ pc[t] \in Live)
      BY <1>2, <2>2, TransitionStep
    <3>2. Follows(target[t], by_service[target[t]], header[t])
      BY <1>2, <3>1 DEF ReachInv, Live
    <3>3. serving = "up" /\ target[t] \in Resources
      BY <3>1 DEF BootInv, Live, Ops, TypeOK
    <3>. QED BY <1>2, <3>1, <3>2, <3>3, FollowsStays
  <2>. QED BY <2>1, <2>2
<1>3. ASSUME NEW t \in Transitions, header'[t] # NoState, pc'[t] = "done",
             served'[t] # NoResource, CapturedOnce(target[t])
      PROVE  Follows(target[t], served'[t], header'[t])
  <2>1. CASE ApplyTransition(t)
    BY <1>3, <2>1, ApplyReports
  <2>2. CASE ~ApplyTransition(t)
    <3>1. /\ header'[t] = header[t]
          /\ \/ pc[t] = "done" /\ served'[t] = served[t]
             \/ Respond(t) \/ RejectTransition(t)
      BY <1>3, <2>2, TransitionStep
    <3>2. CASE pc[t] = "done" /\ served'[t] = served[t]
      BY <1>3, <3>1, <3>2 DEF ReachInv, Reports
    <3>3. CASE Respond(t)
      <4>1. served'[t] = by_service[target[t]] /\ pc[t] = "respond"
        BY <3>3 DEF Respond, TypeOK
      <4>. QED BY <1>3, <3>1, <4>1 DEF ReachInv
    <3>4. CASE RejectTransition(t)
      BY <1>3, <3>1, <3>4 DEF RejectTransition, ReachInv
    <3>. QED BY <3>1, <3>2, <3>3, <3>4
  <2>. QED BY <2>1, <2>2
<1>4. \A x : CapturedOnce(x)' <=> CapturedOnce(x)
  BY <1>0 DEF CapturedOnce
<1>5. \A x, r, h : Follows(x, r, h)' <=> Follows(x, r, h)
  BY DEF Follows
<1>. QED BY <1>0, <1>1, <1>2, <1>3 DEF ReachInv, Reports, Live, CapturedOnce, Follows

(* Who takes a step along an edge of a machine without a way back finds    *)
(* its resource in a state from which nobody has reported the next.        *)
LEMMA NoDoubleStep ==
  ASSUME TypeOK, RecordInv, BootInv, ReachInv, NoDoubleTransition, [Next]_vars
  PROVE  NoDoubleTransition'
<1>0. target' = target /\ action' = action
  BY BegunStays
<1>1. ASSUME NEW t \in Transitions, NEW u \in Transitions, t # u, target[t] = target[u],
             ApplyTransition(t), header[u] # NoState, CapturedOnce(target[t]),
             OneWay(MachineOf[target[t]]), crashes = 0
      PROVE  header'[t] # header[u]
  <2>. DEFINE m == MachineOf[target[t]]
              s == by_service[target[t]].state
  <2>1. <<s, action[t], header'[t]>> \in Edges[m]
    BY <1>1, ApplyReports
  <2>2. s \notin ReachableFrom(m, header'[t])
    <3>. HIDE DEF s
    <3>. QED BY <1>1, <2>1 DEF OneWay
  <2>3. s \in ReachableFrom(m, header[u])
    BY <1>1 DEF ReachInv, Follows
  <2>. QED BY <2>2, <2>3
<1>2. ASSUME NEW t \in Transitions, NEW u \in Transitions, t # u, target[t] = target[u],
             action[t] = action[u], header'[t] # NoState, header'[u] # NoState,
             CapturedOnce(target[t]), OneWay(MachineOf[target[t]]), crashes' = 0
      PROVE  header'[t] # header'[u]
  <2>1. crashes = 0
    <3>1. CASE ApplyTransition(t)
      BY <1>2, <3>1 DEF ApplyTransition
    <3>2. CASE ~ApplyTransition(t)
      BY <1>2, <3>2, TransitionStep
    <3>. QED BY <3>1, <3>2
  <2>2. CASE ApplyTransition(t)
    <3>1. header'[u] = header[u]
      BY <1>2, <2>2 DEF ApplyTransition, TypeOK
    <3>. QED BY <1>1, <1>2, <2>1, <2>2, <3>1
  <2>3. CASE ApplyTransition(u)
    <3>1. header'[t] = header[t]
      BY <1>2, <2>3 DEF ApplyTransition, TypeOK
    <3>. QED BY <1>1, <1>2, <2>1, <2>3, <3>1
  <2>4. CASE ~ApplyTransition(t) /\ ~ApplyTransition(u)
    <3>1. header'[t] = header[t] /\ header'[u] = header[u]
      BY <2>4, TransitionStep
    <3>. QED BY <1>2, <2>1, <3>1 DEF NoDoubleTransition
  <2>. QED BY <2>2, <2>3, <2>4
<1>. QED BY <1>0, <1>2 DEF NoDoubleTransition, CapturedOnce, OneWay, ReachableFrom, Closed

-----------------------------------------------------------------------------
LEMMA StoreInvariant == Spec => []StoreInv
<1>1. Init => StoreInv
  BY TypeInit, RecordInit, BootInit, ReachInit DEF StoreInv
<1>2. StoreInv /\ [Next]_vars => StoreInv'
  BY TypeStep, RecordStep, BootStep, ReachStep, NoDoubleStep DEF StoreInv
<1>. QED BY <1>1, <1>2, PTL DEF Spec

(* Every variable keeps its type.                                          *)
THEOREM TypeCorrect == Spec => []TypeOK
<1>1. StoreInv => TypeOK
  BY DEF StoreInv
<1>. QED BY <1>1, StoreInvariant, PTL

(* A resource is in a state of its machine, and its body's status agrees,  *)
(* in memory and in what a restart makes of the log, whatever is lost of   *)
(* the writes and of the process (resource_store.rs:283-311).              *)
THEOREM BodiesTrack == Spec => []BodyTracksState
<1>1. StoreInv => BodyTracksState
  <2>. SUFFICES ASSUME StoreInv, NEW x \in Resources
                PROVE  Consistent(x, by_service[x]) /\ Consistent(x, Replay(log)[x])
    BY DEF BodyTracksState
  <2>1. RecordInv /\ log \in Log
    BY DEF StoreInv, TypeOK, Log, Line
  <2>2. Consistent(x, by_service[x])
    BY <2>1 DEF RecordInv, Made, Consistent
  <2>3. CASE Replay(log)[x] # NoResource
    <3>1. PICK i \in DOMAIN log.lines : \E j \in DOMAIN log.lines[i] :
            log.lines[i][j].res = x /\ log.lines[i][j].rec = Replay(log)[x]
      BY <2>1, <2>3, ReplayFrom
    <3>2. Made(x, Replay(log)[x])
      BY <2>1, <2>3, <3>1 DEF RecordInv
    <3>. QED BY <2>2, <3>2 DEF Made
  <2>4. CASE Replay(log)[x] = NoResource
    BY <2>2, <2>4 DEF Consistent
  <2>. QED BY <2>3, <2>4
<1>. QED BY <1>1, StoreInvariant, PTL

(* A boot starts to serve with the map its log replays to, whether the log *)
(* was compacted, could not be, or an earlier boot died on the way; with   *)
(* an empty one only if it could not read the log                          *)
(* (resource_store.rs:354-363, resource_store.rs:383-386).                 *)
THEOREM BootRebuilds == Spec => BootRebuildsMap
<1>1. StoreInv /\ [Next]_vars
        => [serving # "up" /\ serving' = "up" =>
              \/ by_service' = Replay(log')
              \/ /\ DiskFaults /\ serving = "read"
                 /\ by_service' = EmptyMap /\ log' = log]_vars
  BY BootStepRebuilds DEF StoreInv
<1>. QED BY <1>1, StoreInvariant, PTL DEF Spec, BootRebuildsMap

(* Of two requests for the same step of a machine without a way back, at   *)
(* most one is told that it succeeded (resource_store.rs:281-311).         *)
THEOREM NoDouble == Spec => []NoDoubleTransition
<1>1. StoreInv => NoDoubleTransition
  BY DEF StoreInv
<1>. QED BY <1>1, StoreInvariant, PTL

(* The body a transition is answered with shows the step or later ones     *)
(* (main.rs:1699), also after crashes between other requests.              *)
THEOREM BodiesNotOlder == Spec => []BodyNotOlder
<1>1. StoreInv => BodyNotOlder
  BY DEF StoreInv, ReachInv, BodyNotOlder, Follows
<1>. QED BY <1>1, StoreInvariant, PTL
=============================================================================
