------------------------ MODULE MockSequencesProofs ------------------------
(***************************************************************************)
(* Proofs about MockSequences, for any definitions, endpoints, requests    *)
(* and admin requests, and any write failures, disconnects and restarts.   *)
(***************************************************************************)
EXTENDS MockSequences, WellFoundedInduction, TLAPS

USE DEF inputVars, histVars, saveVars

(* A set of naturals that is not empty has a least member.                 *)
LEMMA LeastNat ==
  ASSUME NEW S, S \subseteq Nat, S # {}
  PROVE  \E n \in S : \A m \in S : n <= m
<1>1. PICK n \in S : \A m \in S : ~ (<<m, n>> \in OpToRel(<, Nat))
  BY NatLessThanWellFounded, WFMin
<1>2. \A m \in S : ~ (m < n)
  BY <1>1 DEF OpToRel
<1>. QED BY <1>2

-----------------------------------------------------------------------------
(* The recursion that Retain is: that there is a function that satisfies   *)
(* it, up to every length.                                                 *)
Keep(s, id, f, n) ==
  IF n = 0 THEN <<>> ELSE IF IdOf[s[n]] = id THEN f[n - 1] ELSE Append(f[n - 1], s[n])

LEMMA KeptExists ==
  ASSUME NEW s, NEW id, NEW k \in Nat
  PROVE  \E f : f = [n \in 0..k |-> Keep(s, id, f, n)]
<1>. DEFINE Good(m, f) == f = [n \in 0..m |-> Keep(s, id, f, n)]
            Bad == {m \in Nat : \A f : ~ Good(m, f)}
<1>. SUFFICES ASSUME Bad # {} PROVE FALSE
  OBVIOUS
<1>1. PICK m \in Bad : \A j \in Bad : m <= j
  <2>1. Bad \subseteq Nat
    OBVIOUS
  <2>. HIDE DEF Bad
  <2>. QED BY <2>1, LeastNat
<1>2. CASE m = 0
  <2>. DEFINE g == [n \in 0..0 |-> <<>>]
  <2>1. \A n \in 0..0 : Keep(s, id, g, n) = <<>>
    BY DEF Keep
  <2>2. Good(0, g)
    BY <2>1
  <2>. QED BY <1>1, <1>2, <2>2
<1>3. CASE m # 0
  <2>1. m - 1 \in Nat /\ m - 1 \notin Bad
    BY <1>1, <1>3
  <2>2. PICK f : Good(m - 1, f)
    BY <2>1
  <2>. DEFINE g == [n \in 0..m |-> IF n = m THEN Keep(s, id, f, m) ELSE f[n]]
  <2>3. \A n \in 0..(m - 1) : f[n] = Keep(s, id, f, n)
    BY <2>2
  <2>4. ASSUME NEW n \in 0..m PROVE g[n] = Keep(s, id, g, n)
    <3>1. n # 0 => n - 1 \in 0..(m - 1) /\ g[n - 1] = f[n - 1]
      BY <2>1
    <3>2. Keep(s, id, g, n) = Keep(s, id, f, n)
      BY <3>1 DEF Keep
    <3>3. g[n] = Keep(s, id, f, n)
      BY <2>1, <2>3
    <3>. QED BY <3>2, <3>3
  <2>5. Good(m, g)
    BY <2>4
  <2>. QED BY <1>1, <2>5
<1>. QED BY <1>2, <1>3

LEMMA KeptDef ==
  ASSUME NEW s \in Seq(Defs), NEW id
  PROVE  \A n \in 0..Len(s) : Kept(s, id)[n] = Keep(s, id, Kept(s, id), n)
<1>1. Len(s) \in Nat
  OBVIOUS
<1>2. PICK f : f = [n \in 0..Len(s) |-> Keep(s, id, f, n)]
  BY <1>1, KeptExists
<1>3. Kept(s, id) = [n \in 0..Len(s) |-> Keep(s, id, Kept(s, id), n)]
  BY <1>2 DEF Kept, Keep
<1>4. \A n \in 0..Len(s) : [k \in 0..Len(s) |-> Keep(s, id, Kept(s, id), k)][n] = Keep(s, id, Kept(s, id), n)
  OBVIOUS
<1>. QED BY <1>3, <1>4

(* What the definitions of another id leave is the others, all of them.    *)
LEMMA KeptFacts ==
  ASSUME NEW s \in Seq(Defs), NEW id
  PROVE  \A n \in 0..Len(s) :
           LET k == Kept(s, id)[n]
           IN  /\ k \in Seq(Defs)
               /\ \A i \in DOMAIN k : IdOf[k[i]] # id
               /\ \A j \in 1..n : IdOf[s[j]] # id => \E i \in DOMAIN k : k[i] = s[j]
<1>. DEFINE K == Kept(s, id)
            Ok(n) == /\ K[n] \in Seq(Defs)
                     /\ \A i \in DOMAIN K[n] : IdOf[K[n][i]] # id
                     /\ \A j \in 1..n : IdOf[s[j]] # id => \E i \in DOMAIN K[n] : K[n][i] = s[j]
            Bad == {n \in 0..Len(s) : ~ Ok(n)}
<1>. SUFFICES ASSUME Bad # {} PROVE FALSE
  OBVIOUS
<1>0. Len(s) \in Nat
  OBVIOUS
<1>1. PICK m \in Bad : \A j \in Bad : m <= j
  <2>1. Bad \subseteq Nat
    OBVIOUS
  <2>. HIDE DEF Bad
  <2>. QED BY <2>1, LeastNat
<1>2. CASE m = 0
  <2>1. K[0] = <<>>
    BY <1>0, KeptDef DEF Keep
  <2>2. Ok(0)
    <3>. HIDE DEF K
    <3>. QED BY <2>1
  <2>. QED BY <1>1, <1>2, <2>2
<1>3. CASE m # 0
  <2>1. m \in 1..Len(s) /\ m - 1 \in 0..Len(s) /\ m - 1 \notin Bad
    BY <1>0, <1>1, <1>3
  <2>2. Ok(m - 1)
    BY <2>1
  <2>3. K[m] = IF IdOf[s[m]] = id THEN K[m - 1] ELSE Append(K[m - 1], s[m])
    BY <1>3, <2>1, KeptDef DEF Keep
  <2>. DEFINE k == K[m - 1]
  <2>4. /\ k \in Seq(Defs) /\ s[m] \in Defs
        /\ \A i \in DOMAIN k : IdOf[k[i]] # id
        /\ \A j \in 1..(m - 1) : IdOf[s[j]] # id => \E i \in DOMAIN k : k[i] = s[j]
    BY <2>1, <2>2
  <2>. HIDE DEF K, k
  <2>5. CASE IdOf[s[m]] = id
    <3>1. K[m] = k
      BY <2>3, <2>5 DEF k
    <3>2. \A j \in 1..m : j = m \/ j \in 1..(m - 1)
      BY <2>1
    <3>3. Ok(m)
      BY <2>4, <2>5, <3>1, <3>2
    <3>. QED BY <1>1, <3>3 DEF K
  <2>6. CASE IdOf[s[m]] # id
    <3>1. K[m] = Append(k, s[m])
      BY <2>3, <2>6 DEF k
    <3>2. /\ K[m] \in Seq(Defs) /\ DOMAIN K[m] = 1..(Len(k) + 1) /\ Len(k) \in Nat
          /\ K[m][Len(k) + 1] = s[m] /\ \A i \in DOMAIN k : i \in DOMAIN K[m] /\ K[m][i] = k[i]
          /\ DOMAIN k = 1..Len(k)
      BY <2>4, <3>1
    <3>3. \A i \in DOMAIN K[m] : IdOf[K[m][i]] # id
      BY <2>4, <2>6, <3>2
    <3>4. ASSUME NEW j \in 1..m, IdOf[s[j]] # id PROVE \E i \in DOMAIN K[m] : K[m][i] = s[j]
      <4>1. CASE j = m
        BY <3>2, <4>1
      <4>2. CASE j # m
        <5>1. j \in 1..(m - 1)
          BY <2>1, <4>2
        <5>. QED BY <2>4, <3>2, <3>4, <5>1
      <4>. QED BY <4>1, <4>2
    <3>5. Ok(m)
      BY <3>2, <3>3, <3>4
    <3>. QED BY <1>1, <3>5 DEF K
  <2>. QED BY <2>5, <2>6
<1>. QED BY <1>2, <1>3

LEMMA RetainFacts ==
  ASSUME NEW s \in Seq(Defs), NEW id
  PROVE  /\ Retain(s, id) \in Seq(Defs)
         /\ \A other : other # id /\ WithId(s, other) # {} => WithId(Retain(s, id), other) # {}
<1>0. Len(s) \in 0..Len(s) /\ DOMAIN s = 1..Len(s)
  OBVIOUS
<1>1. /\ Retain(s, id) \in Seq(Defs)
      /\ \A j \in 1..Len(s) : IdOf[s[j]] # id =>
           \E i \in DOMAIN Retain(s, id) : Retain(s, id)[i] = s[j]
  <2>. DEFINE n == Len(s)
  <2>1. \A m \in 0..n :
          LET k == Kept(s, id)[m]
          IN  /\ k \in Seq(Defs)
              /\ \A j \in 1..m : IdOf[s[j]] # id => \E i \in DOMAIN k : k[i] = s[j]
    BY KeptFacts
  <2>2. n \in 0..n /\ Retain(s, id) = Kept(s, id)[n]
    BY <1>0 DEF Retain
  <2>. HIDE DEF n
  <2>3. /\ Retain(s, id) \in Seq(Defs)
        /\ \A j \in 1..n : IdOf[s[j]] # id =>
             \E i \in DOMAIN Retain(s, id) : Retain(s, id)[i] = s[j]
    BY <2>1, <2>2
  <2>. QED BY <2>3 DEF n
<1>2. ASSUME NEW other, other # id, WithId(s, other) # {} PROVE WithId(Retain(s, id), other) # {}
  <2>1. PICK j \in DOMAIN s : IdOf[s[j]] = other
    BY <1>2 DEF WithId
  <2>2. PICK i \in DOMAIN Retain(s, id) : Retain(s, id)[i] = s[j]
    BY <1>0, <1>1, <1>2, <2>1
  <2>. QED BY <2>1, <2>2 DEF WithId
<1>. QED BY <1>1, <1>2

LEMMA FoundFacts ==
  ASSUME TypeOK, NEW r, Found(r) # None
  PROVE  /\ Found(r) \in Defs /\ IdOf[Found(r)] \in Ids
         /\ WithId(sequences, IdOf[Found(r)]) # {}
<1>. DEFINE hits == {i \in DOMAIN sequences : <<sequences[i], asked[r]>> \in Answers}
            i == CHOOSE n \in hits : \A j \in hits : n <= j
<1>1. sequences \in Seq(Defs) /\ hits \subseteq Nat
  BY DEF TypeOK
<1>2. hits # {} /\ Found(r) = sequences[i]
  BY DEF Found, First
<1>3. \E n \in hits : \A j \in hits : n <= j
  <2>. HIDE DEF hits
  <2>. QED BY <1>1, <1>2, LeastNat
<1>4. i \in DOMAIN sequences
  BY <1>3
<1>. HIDE DEF i
<1>5. Found(r) \in Defs
  BY <1>1, <1>2, <1>4
<1>6. i \in WithId(sequences, IdOf[Found(r)])
  BY <1>2, <1>4 DEF WithId
<1>. QED BY <1>5, <1>6, SequencesAssumption

-----------------------------------------------------------------------------
(* A handle is open on a file that is there.                               *)
HandleInv ==
  \A a \in Admins : (sfd[a] = "tmp" => tmp # None) /\ (sfd[a] = "main" => file # None)

LEMMA AdvanceType ==
  ASSUME NEW d \in Defs, Length[d] # 0, NEW c \in Nat
  PROVE  Advance(d, c) \in 0..(CursorValues - 1) /\ Index(d, c) \in Nat
<1>1. Length[d] \in Nat \ {0} /\ CursorValues \in Nat \ {0}
  BY SequencesAssumption
<1>2. (c + 1) % Length[d] \in Nat
  BY <1>1
<1>. QED BY <1>1, <1>2 DEF Advance, Index

LEMMA OverwritesType ==
  ASSUME NEW old \in Seq(Defs), NEW new \in Seq(Defs), NEW f \in Overwrites(old, new)
  PROVE  f \in Seq(Defs)
<1>1. PICK cut \in (IF new = <<>> THEN {0} ELSE 1..Len(old) + 1) :
        f = new \o SubSeq(old, cut + 1, Len(old))
  BY DEF Overwrites
<1>0. Len(old) \in Nat /\ cut \in Nat
  BY <1>1
<1>2. SubSeq(old, cut + 1, Len(old)) \in Seq(Defs)
  BY <1>0
<1>. QED BY <1>1, <1>2

LEMMA CutShortType ==
  ASSUME NEW old \in Seq(Defs), NEW new \in Seq(Defs), NEW f \in CutShort(old, new)
  PROVE  f \in Seq(Defs)
<1>1. CASE \E cut \in 0..Len(old) : f = SubSeq(old, cut + 1, Len(old))
  <2>1. PICK cut \in 0..Len(old) : f = SubSeq(old, cut + 1, Len(old))
    BY <1>1
  <2>2. Len(old) \in Nat /\ cut \in Nat
    BY <2>1
  <2>. QED BY <2>1, <2>2
<1>2. CASE \E n \in 1..Len(new) : f \in Overwrites(old, SubSeq(new, 1, n))
  <2>1. PICK n \in 1..Len(new) : f \in Overwrites(old, SubSeq(new, 1, n))
    BY <1>2
  <2>2. SubSeq(new, 1, n) \in Seq(Defs)
    <3>1. Len(new) \in Nat /\ n \in Nat /\ n <= Len(new)
      BY <2>1
    <3>. QED BY <3>1
  <2>. QED BY <2>1, <2>2, OverwritesType
<1>. QED BY <1>1, <1>2 DEF CutShort

LEMMA EmptyTypes == \A S : <<>> \in Seq(S)
OBVIOUS

LEMMA ElementType == \A S : \A s \in Seq(S) : \A i \in DOMAIN s : s[i] \in S
OBVIOUS

LEMMA LinesType ==
  /\ None # <<>> /\ \A f : f \in Seq(Defs) => Lines(f) = f /\ f # None
  /\ \A f : f # None => Lines(f) = f
BY SequencesAssumption, EmptyTypes DEF Lines

LEMMA JobType ==
  ASSUME TypeOK, NEW a \in Admins
  PROVE  /\ job[a].kind = "create" => job[a].def \in Defs /\ IdOf[job[a].def] \in Ids
         /\ job[a].kind \in {"reset", "delete"} => job[a].id \in Ids
<1>1. job[a] \in Jobs
  BY DEF TypeOK
<1>. QED BY <1>1, SequencesAssumption DEF Jobs

LEMMA SequencesInit == Init => TypeOK /\ HandleInv
<1>. SUFFICES ASSUME Init PROVE TypeOK /\ HandleInv
  OBVIOUS
<1>1. HandleInv
  BY DEF Init, HandleInv
<1>2. /\ sequences \in Seq(Defs) /\ listed \in Seq(Defs)
      /\ Lines(file) \in Seq(Defs) /\ Lines(tmp) \in Seq(Defs)
  BY EmptyTypes DEF Init, Lines
<1>3. /\ all \in [Admins -> Seq(Defs)]
      /\ turns \in [Ids -> Seq([def: Defs, index: Nat])]
  BY EmptyTypes DEF Init
<1>4. /\ counters \in [Ids -> 0..(CursorValues - 1) \cup {None}]
      /\ crashes \in 0..MaxCrashes /\ raced \in BOOLEAN
  <2>1. counters \in [Ids -> 0..(CursorValues - 1) \cup {None}]
    BY DEF Init
  <2>2. crashes \in 0..MaxCrashes
    BY SequencesAssumption DEF Init
  <2>3. raced \in BOOLEAN
    BY DEF Init
  <2>. QED BY <2>1, <2>2, <2>3
<1>5. /\ pc \in [Requests \cup Admins -> {"idle", "locked", "done", "dropped", "gone"}]
      /\ spc \in [Admins -> {"none", "spawned", "truncated", "written", "saved"}]
      /\ sfd \in [Admins -> {"none", "tmp", "main", "orphan"}]
      /\ asked \in [Requests -> Endpoints] /\ job \in [Admins -> Jobs]
  BY DEF Init
<1>. QED BY <1>1, <1>2, <1>3, <1>4, <1>5 DEF TypeOK

LEMMA RequestTypes ==
  ASSUME TypeOK, NEW r \in Requests, RequestStep(r)
  PROVE  TypeOK'
<1>1. CASE LockForRequest(r)
  BY <1>1 DEF LockForRequest, TypeOK
<1>2. CASE ServeSequence(r)
  <2>1. pc' \in [Requests \cup Admins -> {"idle", "locked", "done", "dropped", "gone"}]
    BY <1>2 DEF ServeSequence, TypeOK
  <2>2. CASE counters' = counters /\ turns' = turns
    BY <1>2, <2>1, <2>2 DEF ServeSequence, TypeOK
  <2>3. CASE ~ (Found(r) = None \/ Length[Found(r)] = 0)
    <3>. DEFINE d == Found(r)
                id == IdOf[d]
    <3>1. d \in Defs /\ id \in Ids /\ Length[d] # 0
      BY <2>3, FoundFacts
    <3>2. Cursor(id) \in Nat
      BY <3>1, SequencesAssumption DEF Cursor, TypeOK
    <3>3. Advance(d, Cursor(id)) \in 0..(CursorValues - 1) /\ Index(d, Cursor(id)) \in Nat
      BY <3>1, <3>2, AdvanceType
    <3>4. /\ counters' = [counters EXCEPT ![id] = Advance(d, Cursor(id))]
          /\ turns' = [turns EXCEPT ![id] =
                         Append(turns[id], [def |-> d, index |-> Index(d, Cursor(id))])]
      BY <1>2, <2>3 DEF ServeSequence
    <3>. HIDE DEF d, id
    <3>5. counters' \in [Ids -> 0..(CursorValues - 1) \cup {None}]
      BY <3>1, <3>3, <3>4 DEF TypeOK
    <3>6. Append(turns[id], [def |-> d, index |-> Index(d, Cursor(id))])
            \in Seq([def: Defs, index: Nat])
      <4>1. [def |-> d, index |-> Index(d, Cursor(id))] \in [def: Defs, index: Nat]
        BY <3>1, <3>3 DEF d
      <4>2. turns[id] \in Seq([def: Defs, index: Nat])
        BY <3>1 DEF TypeOK
      <4>. QED BY <4>1, <4>2
    <3>7. turns' \in [Ids -> Seq([def: Defs, index: Nat])]
      BY <3>1, <3>4, <3>6 DEF TypeOK
    <3>. QED BY <1>2, <2>1, <3>5, <3>7 DEF ServeSequence, TypeOK
  <2>. QED BY <1>2, <2>2, <2>3 DEF ServeSequence
<1>. QED BY <1>1, <1>2 DEF RequestStep

LEMMA AdminTypes ==
  ASSUME TypeOK, NEW a \in Admins, AdminStep(a)
  PROVE  TypeOK'
<1>0. a \in Requests \cup Admins /\ sequences \in Seq(Defs)
  BY DEF TypeOK
<1>1. CASE CreateSequence(a)
  <2>1. sequences' \in Seq(Defs)
    <3>1. job[a].def \in Defs /\ Retain(sequences, IdOf[job[a].def]) \in Seq(Defs)
      BY <1>0, <1>1, JobType, RetainFacts DEF CreateSequence
    <3>. QED BY <1>1, <3>1 DEF CreateSequence
  <2>. QED BY <1>1, <2>1 DEF CreateSequence, SpawnSave, TypeOK
<1>2. CASE ResetSequence(a)
  BY <1>2, JobType, EmptyTypes DEF ResetSequence, TypeOK
<1>3. CASE DeleteSequence(a)
  <2>1. sequences' \in Seq(Defs)
    BY <1>0, <1>3, RetainFacts DEF DeleteSequence
  <2>. QED BY <1>3, <2>1 DEF DeleteSequence, TypeOK
<1>4. CASE DeleteCursor(a)
  BY <1>0, <1>4, JobType, EmptyTypes DEF DeleteCursor, SpawnSave, TypeOK
<1>. QED BY <1>1, <1>2, <1>3, <1>4 DEF AdminStep, BeginAdmin

LEMMA SaveTypes ==
  ASSUME TypeOK, HandleInv, NEW a \in Admins, SaveStep(a)
  PROVE  TypeOK'
<1>1. CASE SaveTruncate(a)
  BY <1>1, EmptyTypes DEF SaveTruncate, TypeOK, Lines
<1>2. CASE SaveWrite(a)
  <2>1. Lines(file') \in Seq(Defs) /\ Lines(tmp') \in Seq(Defs)
    <3>1. CASE sfd[a] = "tmp"
      <4>1. tmp \in Seq(Defs) /\ all[a] \in Seq(Defs)
        BY <3>1, LinesType DEF HandleInv, TypeOK
      <4>2. tmp' \in Overwrites(tmp, all[a]) /\ file' = file
        BY <1>2, <3>1 DEF SaveWrite
      <4>3. tmp' \in Seq(Defs)
        BY <4>1, <4>2, OverwritesType
      <4>. QED BY <4>2, <4>3, LinesType DEF TypeOK
    <3>2. CASE sfd[a] = "main"
      <4>1. file \in Seq(Defs) /\ all[a] \in Seq(Defs)
        BY <3>2, LinesType DEF HandleInv, TypeOK
      <4>2. file' \in Overwrites(file, all[a]) /\ tmp' = tmp
        BY <1>2, <3>2 DEF SaveWrite
      <4>3. file' \in Seq(Defs)
        BY <4>1, <4>2, OverwritesType
      <4>. QED BY <4>2, <4>3, LinesType DEF TypeOK
    <3>3. CASE sfd[a] \notin {"tmp", "main"}
      <4>1. file' = file /\ tmp' = tmp
        BY <1>2, <3>3 DEF SaveWrite
      <4>. QED BY <4>1 DEF TypeOK
    <3>. QED BY <3>1, <3>2, <3>3
  <2>. QED BY <1>2, <2>1 DEF SaveWrite, TypeOK
<1>3. CASE SaveFail(a)
  <2>1. Lines(file') \in Seq(Defs) /\ Lines(tmp') \in Seq(Defs)
    <3>1. CASE sfd[a] = "tmp" /\ tmp' \in CutShort(tmp, all[a]) /\ file' = file
      <4>1. tmp \in Seq(Defs) /\ all[a] \in Seq(Defs)
        BY <3>1, LinesType DEF HandleInv, TypeOK
      <4>2. tmp' \in Seq(Defs)
        BY <3>1, <4>1, CutShortType
      <4>. QED BY <3>1, <4>2, LinesType DEF TypeOK
    <3>2. CASE sfd[a] = "main" /\ file' \in CutShort(file, all[a]) /\ tmp' = tmp
      <4>1. file \in Seq(Defs) /\ all[a] \in Seq(Defs)
        BY <3>2, LinesType DEF HandleInv, TypeOK
      <4>2. file' \in Seq(Defs)
        BY <3>2, <4>1, CutShortType
      <4>. QED BY <3>2, <4>2, LinesType DEF TypeOK
    <3>3. CASE UNCHANGED <<file, tmp>>
      BY <3>3 DEF TypeOK
    <3>. QED BY <1>3, <3>1, <3>2, <3>3 DEF SaveFail
  <2>. QED BY <1>3, <2>1 DEF SaveFail, TypeOK
<1>4. CASE SaveRename(a)
  <2>1. Lines(file') \in Seq(Defs) /\ Lines(tmp') \in Seq(Defs)
    BY <1>4 DEF SaveRename, TypeOK, Lines
  <2>2. sfd' \in [Admins -> {"none", "tmp", "main", "orphan"}]
    <3>1. CASE tmp = None
      BY <1>4, <3>1 DEF SaveRename, TypeOK
    <3>2. CASE tmp # None
      <4>1. sfd' = [b \in Admins |-> CASE sfd[b] = "tmp"  -> "main"
                                       [] sfd[b] = "main" -> "orphan"
                                       [] OTHER -> sfd[b]]
        BY <1>4, <3>2 DEF SaveRename
      <4>. QED BY <4>1 DEF TypeOK
    <3>. QED BY <3>1, <3>2
  <2>. QED BY <1>4, <2>1, <2>2 DEF SaveRename, TypeOK
<1>. QED BY <1>1, <1>2, <1>3, <1>4 DEF SaveStep

LEMMA TypeStep ==
  ASSUME TypeOK, HandleInv, [Next]_vars
  PROVE  TypeOK'
<1>1. CASE UNCHANGED vars
  BY <1>1 DEF vars, TypeOK, Lines
<1>2. ASSUME NEW o \in Requests \cup Admins, Disconnect(o) PROVE TypeOK'
  BY <1>2 DEF Disconnect, TypeOK
<1>3. CASE Restart
  <2>1. sequences' \in Seq(Defs)
    BY <1>3, EmptyTypes DEF Restart, TypeOK
  <2>. QED BY <1>3, <2>1, SequencesAssumption DEF Restart, TypeOK
<1>. QED BY <1>1, <1>2, <1>3, RequestTypes, AdminTypes, SaveTypes DEF Next

LEMMA HandleStep ==
  ASSUME TypeOK, HandleInv, [Next]_vars
  PROVE  HandleInv'
<1>1. CASE UNCHANGED <<sfd, file, tmp>>
  BY <1>1 DEF HandleInv
<1>2. ASSUME NEW a \in Admins, SaveTruncate(a) PROVE HandleInv'
  BY <1>2, LinesType DEF SaveTruncate, HandleInv, TypeOK
<1>3. ASSUME NEW a \in Admins, SaveWrite(a) PROVE HandleInv'
  <2>1. CASE sfd[a] = "tmp"
    <3>1. tmp \in Seq(Defs) /\ all[a] \in Seq(Defs)
      BY <2>1, LinesType DEF HandleInv, TypeOK
    <3>2. tmp' \in Seq(Defs) /\ file' = file
      BY <1>3, <2>1, <3>1, OverwritesType DEF SaveWrite
    <3>3. tmp' # None
      BY <3>2, LinesType
    <3>. QED BY <1>3, <3>2, <3>3 DEF SaveWrite, HandleInv, TypeOK
  <2>2. CASE sfd[a] = "main"
    <3>1. file \in Seq(Defs) /\ all[a] \in Seq(Defs)
      BY <2>2, LinesType DEF HandleInv, TypeOK
    <3>2. file' \in Seq(Defs) /\ tmp' = tmp
      BY <1>3, <2>2, <3>1, OverwritesType DEF SaveWrite
    <3>3. file' # None
      BY <3>2, LinesType
    <3>. QED BY <1>3, <3>2, <3>3 DEF SaveWrite, HandleInv, TypeOK
  <2>3. CASE sfd[a] \notin {"tmp", "main"}
    BY <1>3, <2>3 DEF SaveWrite, HandleInv, TypeOK
  <2>. QED BY <2>1, <2>2, <2>3
<1>4. ASSUME NEW a \in Admins, SaveFail(a) PROVE HandleInv'
  <2>1. CASE sfd[a] = "tmp" /\ tmp' \in CutShort(tmp, all[a]) /\ file' = file
    <3>1. tmp \in Seq(Defs) /\ all[a] \in Seq(Defs)
      BY <2>1, LinesType DEF HandleInv, TypeOK
    <3>2. tmp' # None
      BY <2>1, <3>1, CutShortType, LinesType
    <3>. QED BY <1>4, <2>1, <3>2 DEF SaveFail, HandleInv, TypeOK
  <2>2. CASE sfd[a] = "main" /\ file' \in CutShort(file, all[a]) /\ tmp' = tmp
    <3>1. file \in Seq(Defs) /\ all[a] \in Seq(Defs)
      BY <2>2, LinesType DEF HandleInv, TypeOK
    <3>2. file' # None
      BY <2>2, <3>1, CutShortType, LinesType
    <3>. QED BY <1>4, <2>2, <3>2 DEF SaveFail, HandleInv, TypeOK
  <2>3. CASE UNCHANGED <<file, tmp>>
    BY <1>4, <2>3 DEF SaveFail, HandleInv, TypeOK
  <2>. QED BY <1>4, <2>1, <2>2, <2>3 DEF SaveFail
<1>5. ASSUME NEW a \in Admins, SaveRename(a) PROVE HandleInv'
  <2>1. CASE tmp = None
    BY <1>5, <2>1 DEF SaveRename, HandleInv
  <2>2. CASE tmp # None
    <3>1. /\ file' = tmp /\ tmp' = None
          /\ sfd' = [b \in Admins |-> CASE sfd[b] = "tmp"  -> "main"
                                        [] sfd[b] = "main" -> "orphan"
                                        [] OTHER -> sfd[b]]
      BY <1>5, <2>2 DEF SaveRename
    <3>2. \A b \in Admins : sfd'[b] # "tmp"
      BY <3>1
    <3>. QED BY <2>2, <3>1, <3>2 DEF HandleInv
  <2>. QED BY <2>1, <2>2
<1>6. CASE Restart
  BY <1>6 DEF Restart, HandleInv
<1>7. \/ UNCHANGED <<sfd, file, tmp>> \/ Restart
      \/ \E a \in Admins : SaveTruncate(a) \/ SaveWrite(a) \/ SaveFail(a) \/ SaveRename(a)
  BY DEF vars, Next, RequestStep, LockForRequest, ServeSequence, AdminStep, BeginAdmin,
         CreateSequence, ResetSequence, DeleteSequence, DeleteCursor, SpawnSave,
         SaveStep, Disconnect
<1>. QED BY <1>1, <1>2, <1>3, <1>4, <1>5, <1>6, <1>7

-----------------------------------------------------------------------------
(* No cursor outlives its definition.                                      *)
LEMMA OrphanStep ==
  ASSUME TypeOK, NoOrphanCounters, [Next]_vars
  PROVE  NoOrphanCounters'
<1>. DEFINE Deletes(a, id) == job[a].kind = "delete" /\ job[a].id = id
<1>0. /\ sequences \in Seq(Defs) /\ Requests \cap Admins = {}
      /\ DOMAIN pc = Requests \cup Admins
  BY SequencesAssumption DEF TypeOK
<1>1. CASE UNCHANGED <<sequences, counters, pc, job>>
  BY <1>1 DEF NoOrphanCounters, WithId
<1>2. ASSUME NEW r \in Requests, LockForRequest(r) PROVE NoOrphanCounters'
  <2>1. \A a \in Admins : pc'[a] = pc[a]
    BY <1>0, <1>2 DEF LockForRequest
  <2>. QED BY <1>2, <2>1 DEF LockForRequest, NoOrphanCounters, WithId
<1>3. ASSUME NEW r \in Requests, ServeSequence(r) PROVE NoOrphanCounters'
  <2>1. \A a \in Admins : pc'[a] = pc[a]
    BY <1>0, <1>3 DEF ServeSequence
  <2>2. sequences' = sequences /\ job' = job
    BY <1>3 DEF ServeSequence
  <2>3. ASSUME NEW id \in Ids, counters'[id] # counters[id] PROVE WithId(sequences, id) # {}
    <3>1. /\ Found(r) # None
          /\ counters' = [counters EXCEPT ![IdOf[Found(r)]] =
                            Advance(Found(r), Cursor(IdOf[Found(r)]))]
      BY <1>3, <2>3 DEF ServeSequence
    <3>2. id = IdOf[Found(r)]
      BY <2>3, <3>1 DEF TypeOK
    <3>. QED BY <3>1, <3>2, FoundFacts
  <2>. QED BY <2>1, <2>2, <2>3 DEF NoOrphanCounters, WithId
<1>4. ASSUME NEW a \in Admins, CreateSequence(a) PROVE NoOrphanCounters'
  <2>. DEFINE d == job[a].def
              rest == Retain(sequences, IdOf[d])
  <2>1. rest \in Seq(Defs) /\ d \in Defs /\ sequences' = Append(rest, d)
    BY <1>0, <1>4, JobType, RetainFacts DEF CreateSequence
  <2>2. ASSUME NEW id \in Ids, WithId(sequences, id) # {} PROVE WithId(sequences', id) # {}
    <3>1. CASE id = IdOf[d]
      <4>1. Len(rest) + 1 \in DOMAIN sequences' /\ sequences'[Len(rest) + 1] = d
        <5>. HIDE DEF rest, d
        <5>. QED BY <2>1
      <4>. QED BY <3>1, <4>1 DEF WithId
    <3>2. CASE id # IdOf[d]
      <4>1. WithId(rest, id) # {}
        BY <1>0, <2>2, <3>2, RetainFacts
      <4>2. PICK i \in DOMAIN rest : IdOf[rest[i]] = id
        BY <4>1 DEF WithId
      <4>3. i \in DOMAIN sequences' /\ sequences'[i] = rest[i]
        <5>. HIDE DEF rest, d
        <5>. QED BY <2>1
      <4>. QED BY <4>2, <4>3 DEF WithId
    <3>. QED BY <3>1, <3>2
  <2>3. /\ counters' = counters /\ job' = job /\ pc[a] = "idle"
        /\ \A b \in Admins : b # a => pc'[b] = pc[b]
    BY <1>0, <1>4 DEF CreateSequence
  <2>. QED BY <2>2, <2>3 DEF NoOrphanCounters, WithId
<1>5. ASSUME NEW a \in Admins, ResetSequence(a) PROVE NoOrphanCounters'
  <2>1. /\ sequences' = sequences /\ job' = job /\ pc[a] = "idle"
        /\ \A b \in Admins : b # a => pc'[b] = pc[b]
        /\ \A id \in Ids : counters'[id] \in {counters[id], None}
    BY <1>0, <1>5 DEF ResetSequence, TypeOK
  <2>. QED BY <2>1 DEF NoOrphanCounters, WithId
<1>6. ASSUME NEW a \in Admins, DeleteSequence(a) PROVE NoOrphanCounters'
  <2>1. /\ counters' = counters /\ job' = job /\ pc[a] = "idle" /\ pc'[a] = "locked"
        /\ \A b \in Admins : b # a => pc'[b] = pc[b]
        /\ job[a].kind = "delete" /\ sequences' = Retain(sequences, job[a].id)
    BY <1>0, <1>6 DEF DeleteSequence
  <2>2. ASSUME NEW id \in Ids, id # job[a].id, WithId(sequences, id) # {}
        PROVE  WithId(sequences', id) # {}
    BY <1>0, <2>1, <2>2, RetainFacts
  <2>3. ASSUME NEW id \in Ids, counters'[id] # None, WithId(sequences', id) = {}
        PROVE  \E b \in Admins : Deletes(b, id) /\ pc'[b] \in {"locked", "dropped"}
    <3>1. CASE id = job[a].id
      BY <2>1, <3>1
    <3>2. CASE id # job[a].id
      <4>1. PICK b \in Admins : Deletes(b, id) /\ pc[b] \in {"locked", "dropped"}
        BY <2>1, <2>2, <2>3, <3>2 DEF NoOrphanCounters
      <4>. QED BY <2>1, <4>1
    <3>. QED BY <3>1, <3>2
  <2>. QED BY <2>1, <2>3 DEF NoOrphanCounters, WithId
<1>7. ASSUME NEW a \in Admins, DeleteCursor(a) PROVE NoOrphanCounters'
  <2>1. /\ sequences' = sequences /\ job' = job
        /\ \A b \in Admins : b # a => pc'[b] = pc[b]
        /\ counters'[job[a].id] = None
        /\ \A id \in Ids : id # job[a].id => counters'[id] = counters[id]
    BY <1>0, <1>7, JobType DEF DeleteCursor, TypeOK
  <2>. QED BY <2>1 DEF NoOrphanCounters, WithId
<1>8. ASSUME NEW o \in Requests \cup Admins, Disconnect(o) PROVE NoOrphanCounters'
  <2>1. /\ sequences' = sequences /\ job' = job /\ counters' = counters
        /\ \A b \in Admins : pc[b] \in {"locked", "dropped"} => pc'[b] \in {"locked", "dropped"}
    BY <1>0, <1>8 DEF Disconnect
  <2>. QED BY <2>1 DEF NoOrphanCounters, WithId
<1>9. CASE Restart
  BY <1>9 DEF Restart, NoOrphanCounters
<1>10. ASSUME NEW a \in Admins, SaveStep(a) PROVE UNCHANGED <<sequences, counters, pc, job>>
  BY <1>10 DEF SaveStep, SaveTruncate, SaveWrite, SaveFail, SaveRename
<1>11. CASE UNCHANGED vars
  BY <1>1, <1>11 DEF vars
<1>. QED BY <1>1, <1>2, <1>3, <1>4, <1>5, <1>6, <1>7, <1>8, <1>9, <1>10, <1>11
         DEF Next, RequestStep, AdminStep, BeginAdmin

LEMMA OrphanInit == Init => NoOrphanCounters
BY DEF Init, NoOrphanCounters

-----------------------------------------------------------------------------
(* The cursor of an id is the one its last response advanced to; that of a *)
(* loop was within its length, unless taken over for that response.        *)
TurnsInv ==
  \A id \in Ids :
    LET n == Len(turns[id]) IN
    /\ n = 0 <=> counters[id] = None
    /\ n > 0 =>
         LET d == turns[id][n].def IN
         \E c \in 0..(n - 1) :
           /\ Length[d] # 0 /\ turns[id][n].index = Index(d, c)
           /\ counters[id] = Advance(d, c)
           /\ d \in Loops /\ (n = 1 \/ turns[id][n - 1].def = d) => c < Length[d]

LEMMA Remainder ==
  ASSUME NEW n \in Nat, NEW k \in Nat \ {0}
  PROVE  n % k \in 0..(k - 1) /\ n % k <= n /\ (n < k => n % k = n) /\ k % k = 0
OBVIOUS

(* The cursor grows by at most one, and that of a loop stays in its length.*)
LEMMA AdvanceBound ==
  ASSUME NEW d \in Defs, Length[d] # 0, NEW c \in Nat
  PROVE  /\ Advance(d, c) \in 0..(c + 1)
         /\ d \in Loops => Advance(d, c) < Length[d]
<1>1. Length[d] \in Nat \ {0} /\ CursorValues \in Nat \ {0}
  BY SequencesAssumption
<1>. DEFINE q == IF d \in Loops THEN (c + 1) % Length[d] ELSE c + 1
<1>2. q \in 0..(c + 1) /\ (d \in Loops => q < Length[d])
  BY <1>1, Remainder
<1>3. Advance(d, c) = q % CursorValues
  BY DEF Advance
<1>4. q % CursorValues \in 0..q
  <2>1. q \in Nat
    BY <1>2
  <2>. HIDE DEF q
  <2>2. q % CursorValues \in 0..(CursorValues - 1) /\ q % CursorValues <= q
    BY <1>1, <2>1, Remainder, Zenon
  <2>. QED BY <1>1, <2>1, <2>2
<1>. HIDE DEF q
<1>. QED BY <1>1, <1>2, <1>3, <1>4

(* The response after the next one, before the cursor wraps.               *)
LEMMA NextIndex ==
  ASSUME NEW d \in Defs, Length[d] # 0, NEW c \in Nat, c + 1 < CursorValues
  PROVE  LET last == Length[d] - 1
             index == Index(d, Advance(d, c))
         IN  IF Index(d, c) < last THEN index = Index(d, c) + 1
             ELSE IF d \notin Loops THEN index = last
             ELSE c < Length[d] => index = 0
<1>1. Length[d] \in Nat \ {0} /\ CursorValues \in Nat \ {0}
  BY SequencesAssumption
<1>2. CASE c + 1 < Length[d]
  <2>0. c + 1 \in Nat
    OBVIOUS
  <2>1. (c + 1) % Length[d] = c + 1 /\ (c + 1) % CursorValues = c + 1
    BY <1>1, <1>2, <2>0, Remainder, Zenon
  <2>2. Advance(d, c) = c + 1
    BY <2>1 DEF Advance
  <2>. QED BY <1>1, <1>2, <2>2 DEF Index
<1>3. CASE ~(c + 1 < Length[d]) /\ d \notin Loops
  <2>0. c + 1 \in Nat
    OBVIOUS
  <2>1. (c + 1) % CursorValues = c + 1
    BY <1>1, <2>0, Remainder, Zenon
  <2>2. Advance(d, c) = c + 1
    BY <1>3, <2>1 DEF Advance
  <2>. QED BY <1>1, <1>3, <2>2 DEF Index
<1>4. CASE c + 1 = Length[d] /\ d \in Loops
  <2>1. (c + 1) % Length[d] = 0 /\ 0 % CursorValues = 0
    BY <1>1, <1>4, Remainder
  <2>2. Advance(d, c) = 0
    BY <1>4, <2>1 DEF Advance
  <2>. QED BY <1>1, <1>4, <2>2 DEF Index
<1>5. CASE ~(c < Length[d]) /\ d \in Loops
  BY <1>1, <1>5 DEF Index
<1>. QED BY <1>1, <1>2, <1>3, <1>4, <1>5

Served(r) ==
  [def |-> Found(r), index |-> Index(Found(r), Cursor(IdOf[Found(r)]))]

(* A request takes one turn of one sequence, or none.                      *)
LEMMA ServeTurn ==
  ASSUME TypeOK, NEW r \in Requests, ServeSequence(r), counters' # counters \/ turns' # turns
  PROVE  LET d == Found(r)
             x == IdOf[d]
         IN  /\ d \in Defs /\ x \in Ids /\ Length[d] # 0
             /\ counters'[x] = Advance(d, Cursor(x))
             /\ turns'[x] = Append(turns[x], Served(r))
             /\ \A id \in Ids : id # x => counters'[id] = counters[id] /\ turns'[id] = turns[id]
<1>1. Found(r) # None /\ Length[Found(r)] # 0
  BY DEF ServeSequence
<1>2. Found(r) \in Defs /\ IdOf[Found(r)] \in Ids
  BY <1>1, FoundFacts
<1>3. /\ counters' = [counters EXCEPT ![IdOf[Found(r)]] =
                        Advance(Found(r), Cursor(IdOf[Found(r)]))]
      /\ turns' = [turns EXCEPT ![IdOf[Found(r)]] =
                     Append(turns[IdOf[Found(r)]], Served(r))]
  BY <1>1 DEF ServeSequence, Served
<1>. QED BY <1>1, <1>2, <1>3 DEF TypeOK

(* Where the cursor of an id is, with n turns taken.                       *)
LEMMA CursorBound ==
  ASSUME TypeOK, TurnsInv, NEW id \in Ids
  PROVE  Cursor(id) \in 0..Len(turns[id])
<1>. DEFINE n == Len(turns[id])
<1>0. turns[id] \in Seq([def: Defs, index: Nat])
  BY DEF TypeOK
<1>3. n \in Nat /\ DOMAIN turns[id] = 1..n
  BY <1>0
<1>1. CASE n = 0
  BY <1>3, <1>1 DEF TurnsInv, Cursor
<1>2. CASE n # 0
  <2>1. n > 0 /\ n \in DOMAIN turns[id]
    BY <1>3, <1>2
  <2>2. PICK c \in 0..(n - 1) : /\ Length[turns[id][n].def] # 0
                                /\ counters[id] = Advance(turns[id][n].def, c)
    BY <2>1 DEF TurnsInv
  <2>3. turns[id][n].def \in Defs
    <3>. HIDE DEF n
    <3>1. turns[id][n] \in [def: Defs, index: Nat]
      BY <1>0, <2>1, ElementType
    <3>. QED BY <3>1
  <2>4. c \in Nat /\ Advance(turns[id][n].def, c) \in 0..(c + 1)
    BY <1>3, <2>1, <2>2, <2>3, AdvanceBound
  <2>5. counters[id] # None
    BY <1>3, <1>2 DEF TurnsInv
  <2>. QED BY <1>3, <2>2, <2>4, <2>5 DEF Cursor
<1>. QED BY <1>1, <1>2

LEMMA TurnsInit == Init => TurnsInv /\ InOrder
BY DEF Init, TurnsInv, InOrder

(* An id whose cursor and turns stay, or are dropped.                      *)
TurnsOf(id) == UNCHANGED <<counters[id], turns[id]>> \/ (counters'[id] = None /\ turns'[id] = <<>>)

LEMMA TurnsKept ==
  ASSUME TypeOK, [Next]_vars
  PROVE  (\A id \in Ids : TurnsOf(id)) \/ (\E r \in Requests : ServeSequence(r))
<1>1. CASE UNCHANGED <<counters, turns>>
  BY <1>1 DEF TurnsOf
<1>2. CASE Restart
  BY <1>2 DEF Restart, TurnsOf
<1>3. ASSUME NEW a \in Admins, ResetSequence(a) PROVE \A id \in Ids : TurnsOf(id)
  BY <1>3 DEF ResetSequence, TurnsOf, TypeOK
<1>4. ASSUME NEW a \in Admins, DeleteCursor(a) PROVE \A id \in Ids : TurnsOf(id)
  BY <1>4 DEF DeleteCursor, TurnsOf, TypeOK
<1>5. \/ UNCHANGED <<counters, turns>> \/ Restart
      \/ \E a \in Admins : ResetSequence(a) \/ DeleteCursor(a)
      \/ \E r \in Requests : ServeSequence(r)
  BY DEF vars, Next, RequestStep, LockForRequest, AdminStep, BeginAdmin, CreateSequence,
         DeleteSequence, SpawnSave, SaveStep, SaveTruncate, SaveWrite, SaveFail,
         SaveRename, Disconnect
<1>. QED BY <1>1, <1>2, <1>3, <1>4, <1>5

LEMMA AppendTurn ==
  ASSUME NEW S, NEW s \in Seq(S), NEW e \in S
  PROVE  /\ Append(s, e) \in Seq(S) /\ Len(s) \in Nat
         /\ Len(Append(s, e)) = Len(s) + 1 /\ Append(s, e)[Len(s) + 1] = e
         /\ DOMAIN s = 1..Len(s) /\ DOMAIN Append(s, e) = 1..(Len(s) + 1)
         /\ \A i \in 1..Len(s) : Append(s, e)[i] = s[i]
OBVIOUS

(* The turns of an id, in order.                                           *)
Ordered(s) ==
  \A i \in DOMAIN s :
    LET d == s[i].def
        last == Length[d] - 1
        index == s[i].index
        TookOver == i > 2 /\ s[i - 2].def # d
    IN  i <= CursorValues =>
          IF i = 1 THEN index = 0
          ELSE s[i - 1].def = d =>
                 IF s[i - 1].index < last THEN index = s[i - 1].index + 1
                 ELSE IF d \notin Loops THEN index = last
                 ELSE TookOver \/ index = 0

LEMMA TurnsStep ==
  ASSUME TypeOK, TypeOK', TurnsInv, InOrder, [Next]_vars
  PROVE  TurnsInv' /\ InOrder'
<1>. DEFINE Inv(s, k) ==
       LET n == Len(s) IN
       /\ n = 0 <=> k = None
       /\ n > 0 =>
            LET d == s[n].def IN
            \E c \in 0..(n - 1) :
              /\ Length[d] # 0 /\ s[n].index = Index(d, c) /\ k = Advance(d, c)
              /\ d \in Loops /\ (n = 1 \/ s[n - 1].def = d) => c < Length[d]
<1>1. (InOrder <=> \A id \in Ids : Ordered(turns[id])) /\ (InOrder' <=> \A id \in Ids : Ordered(turns'[id]))
  BY DEF InOrder, Ordered
<1>2. /\ TurnsInv <=> \A id \in Ids : Inv(turns[id], counters[id])
      /\ TurnsInv' <=> \A id \in Ids : Inv(turns'[id], counters'[id])
  BY DEF TurnsInv, Index, Advance
<1>. SUFFICES ASSUME NEW id \in Ids
              PROVE  Inv(turns'[id], counters'[id]) /\ Ordered(turns'[id])
  <2>. HIDE DEF Inv
  <2>. QED BY <1>1, <1>2
<1>3. Inv(turns[id], counters[id]) /\ Ordered(turns[id])
  <2>. HIDE DEF Inv
  <2>. QED BY <1>1, <1>2
<1>4. Inv(<<>>, None) /\ Ordered(<<>>)
  BY DEF Ordered
<1>5. CASE TurnsOf(id)
  <2>. HIDE DEF Inv
  <2>. QED BY <1>3, <1>4, <1>5 DEF TurnsOf
<1>6. ASSUME NEW r \in Requests, ServeSequence(r), ~ TurnsOf(id)
      PROVE  Inv(turns'[id], counters'[id]) /\ Ordered(turns'[id])
  <2>. DEFINE d == Found(r)
              c == Cursor(id)
              s == turns[id]
              n == Len(s)
              e == Served(r)
              t == turns'[id]
  <2>1. /\ d \in Defs /\ id = IdOf[d] /\ Length[d] \in Nat \ {0}
        /\ counters'[id] = Advance(d, c) /\ t = Append(s, e)
    BY <1>6, ServeTurn, SequencesAssumption DEF TurnsOf
  <2>2. c \in 0..n /\ s \in Seq([def: Defs, index: Nat])
    BY CursorBound DEF TypeOK
  <2>3. e.def = d /\ e.index = Index(d, c) /\ e \in [def: Defs, index: Nat]
    <3>1. e = [def |-> d, index |-> Index(d, c)]
      BY <2>1 DEF Served
    <3>2. c \in Nat
      BY <2>2
    <3>3. Index(d, c) \in Nat
      BY <2>1, <3>2, AdvanceType
    <3>. HIDE DEF d, c, e
    <3>. QED BY <2>1, <3>1, <3>3
  <2>4. /\ n \in Nat /\ Len(t) = n + 1 /\ t[n + 1] = e
        /\ DOMAIN s = 1..n /\ DOMAIN t = 1..(n + 1) /\ \A i \in 1..n : t[i] = s[i]
    <3>. HIDE DEF s, t, e
    <3>. QED BY <2>1, <2>2, <2>3, AppendTurn
  <2>5. c \in Nat /\ counters'[id] # None
    BY <2>1, <2>2, <2>4, AdvanceType, SequencesAssumption
  (* The turn before, if there is one.                                     *)
  <2>6. ASSUME n # 0, s[n].def = d
        PROVE  \E b \in 0..(n - 1) :
                 /\ s[n].index = Index(d, b) /\ c = Advance(d, b)
                 /\ d \in Loops /\ (n = 1 \/ s[n - 1].def = d) => b < Length[d]
    <3>1. n > 0 /\ counters[id] # None
      BY <1>3, <2>4, <2>6
    <3>2. c = counters[id]
      BY <3>1 DEF Cursor
    <3>. QED BY <1>3, <2>6, <3>1, <3>2
  <2>. HIDE DEF d, c, s, n, e, t
  <2>7. d \in Loops /\ (n + 1 = 1 \/ t[n].def = d) => c < Length[d]
    <3>1. CASE n = 0
      BY <2>1, <2>2, <3>1
    <3>2. CASE n # 0 /\ t[n].def = d /\ d \in Loops
      <4>1. s[n].def = d
        BY <2>4, <3>2
      <4>2. PICK b \in 0..(n - 1) : c = Advance(d, b)
        BY <2>6, <3>2, <4>1
      <4>3. b \in Nat
        BY <2>4, <3>2
      <4>. QED BY <2>1, <3>2, <4>2, <4>3, AdvanceBound
    <3>. QED BY <2>4, <3>1, <3>2
  <2>8. Inv(t, counters'[id])
    <3>1. c \in 0..(n + 1 - 1) /\ Length[d] # 0
      BY <2>1, <2>2, <2>4
    <3>2. n + 1 # 0 /\ n + 1 > 0 /\ n + 1 - 1 = n
      BY <2>4
    <3>. QED BY <2>1, <2>3, <2>4, <2>5, <2>7, <3>1, <3>2
  <2>. HIDE DEF Inv
  <2>9. Ordered(t)
    <3>1. ASSUME n # 0, n + 1 <= CursorValues, s[n].def = d
          PROVE  LET last == Length[d] - 1 IN
                 IF s[n].index < last THEN e.index = s[n].index + 1
                 ELSE IF d \notin Loops THEN e.index = last
                 ELSE (n + 1 > 2 /\ s[n - 1].def # d) \/ e.index = 0
      <4>1. PICK b \in 0..(n - 1) :
              /\ s[n].index = Index(d, b) /\ c = Advance(d, b)
              /\ d \in Loops /\ (n = 1 \/ s[n - 1].def = d) => b < Length[d]
        BY <2>6, <3>1
      <4>2. b \in Nat /\ b + 1 < CursorValues
        BY <2>4, <3>1, SequencesAssumption
      <4>3. LET last == Length[d] - 1 IN
            IF s[n].index < last THEN e.index = s[n].index + 1
            ELSE IF d \notin Loops THEN e.index = last
            ELSE b < Length[d] => e.index = 0
        BY <2>1, <2>3, <4>1, <4>2, NextIndex
      <4>4. n = 1 \/ n + 1 > 2
        BY <2>4, <3>1
      <4>. QED BY <4>1, <4>3, <4>4
    <3>2. n = 0 => e.index = 0
      BY <2>1, <2>2, <2>3 DEF Index
    <3>3. \A i \in 1..n : /\ t[i] = s[i] /\ (i # 1 => t[i - 1] = s[i - 1])
                          /\ (i > 2 => t[i - 2] = s[i - 2])
      <4>1. \A i \in 1..n : /\ i # 1 => i - 1 \in 1..n
                            /\ i > 2 => i - 2 \in 1..n
        BY <2>4
      <4>. QED BY <2>4, <4>1
    <3>4. /\ n # 0 => t[n + 1 - 1] = s[n]
          /\ n + 1 > 2 => t[n + 1 - 2] = s[n - 1]
      <4>1. /\ n + 1 - 1 = n /\ n + 1 - 2 = n - 1
            /\ n # 0 => n \in 1..n
            /\ n + 1 > 2 => n - 1 \in 1..n
        BY <2>4
      <4>. QED BY <2>4, <4>1
    <3>. DEFINE Good(i) ==
           i <= CursorValues =>
             IF i = 1 THEN t[i].index = 0
             ELSE t[i - 1].def = t[i].def =>
                    IF t[i - 1].index < Length[t[i].def] - 1
                      THEN t[i].index = t[i - 1].index + 1
                    ELSE IF t[i].def \notin Loops THEN t[i].index = Length[t[i].def] - 1
                    ELSE (i > 2 /\ t[i - 2].def # t[i].def) \/ t[i].index = 0
    <3>5. ASSUME NEW i \in 1..n PROVE Good(i)
      BY <1>3, <2>4, <3>3 DEF Ordered, s
    <3>6. Good(n + 1)
      BY <2>3, <2>4, <3>1, <3>2, <3>4
    <3>7. \A i \in DOMAIN t : i \in 1..n \/ i = n + 1
      BY <2>4
    <3>8. \A i \in DOMAIN t : Good(i)
      <4>. HIDE DEF Good
      <4>. QED BY <3>5, <3>6, <3>7
    <3>. QED BY <3>8 DEF Ordered
  <2>. QED BY <2>8, <2>9 DEF t
<1>. HIDE DEF Inv
<1>. QED BY <1>5, <1>6, TurnsKept

-----------------------------------------------------------------------------
(* As long as no list is changed before it has been saved: one save at a   *)
(* time is under way, and it writes the current list.                      *)
SaveInv ==
  /\ \A a \in Admins : pc[a] \in {"idle", "locked"} => spc[a] = "none"
  /\ ~raced =>
       /\ \A a, b \in Unsaved : a = b
       /\ \A a \in Admins :
            /\ spc[a] \in {"spawned", "truncated", "written"} => all[a] = sequences
            /\ spc[a] = "truncated" => sfd[a] = "tmp" /\ tmp = <<>>
            /\ spc[a] = "written" => tmp = all[a]

LEMMA SaveInit == Init => SaveInv
BY DEF Init, SaveInv, Unsaved

(* What is written to a file that is empty is all it holds.                *)
LEMMA OverwritesEmpty ==
  ASSUME NEW new \in Seq(Defs), NEW f \in Overwrites(<<>>, new)
  PROVE  f = new
<1>1. PICK cut \in Nat : f = new \o SubSeq(<<>>, cut + 1, 0)
  <2>1. PICK cut \in (IF new = <<>> THEN {0} ELSE 1..Len(<<>>) + 1) :
          f = new \o SubSeq(<<>>, cut + 1, Len(<<>>))
    BY DEF Overwrites
  <2>2. Len(<<>>) = 0 /\ cut \in Nat
    BY <2>1
  <2>. QED BY <2>1, <2>2
<1>2. SubSeq(<<>>, cut + 1, 0) = <<>>
  BY <1>1
<1>. QED BY <1>1, <1>2

LEMMA SaveInvStep ==
  ASSUME TypeOK, HandleInv, SaveInv, [Next]_vars
  PROVE  SaveInv'
<1>0. /\ DOMAIN pc = Requests \cup Admins /\ DOMAIN spc = Admins /\ DOMAIN all = Admins
      /\ DOMAIN sfd = Admins /\ Requests \cap Admins = {}
  BY SequencesAssumption DEF TypeOK
<1>1. CASE UNCHANGED <<sequences, pc, spc, all, sfd, tmp, raced>>
  BY <1>1 DEF SaveInv, Unsaved
<1>2. ASSUME NEW r \in Requests, RequestStep(r) PROVE SaveInv'
  <2>1. /\ UNCHANGED <<sequences, spc, all, sfd, tmp, raced>>
        /\ \A a \in Admins : pc'[a] = pc[a]
    BY <1>0, <1>2 DEF RequestStep, LockForRequest, ServeSequence
  <2>2. Unsaved' = Unsaved
    BY <2>1 DEF Unsaved
  <2>. QED BY <2>1, <2>2 DEF SaveInv
<1>3. ASSUME NEW a \in Admins, CreateSequence(a) PROVE SaveInv'
  <2>1. /\ pc[a] = "idle" /\ pc'[a] = "done" /\ spc'[a] = "spawned" /\ all'[a] = sequences'
        /\ \A b \in Admins : b # a => pc'[b] = pc[b] /\ spc'[b] = spc[b] /\ all'[b] = all[b]
        /\ UNCHANGED <<sfd, tmp>> /\ raced' = (raced \/ Unsaved # {})
    BY <1>0, <1>3 DEF CreateSequence, SpawnSave
  <2>2. ASSUME ~raced' PROVE \A b \in Admins : b # a => pc[b] # "locked" /\ spc[b] \in {"none", "saved"}
    BY <2>1, <2>2 DEF Unsaved
  <2>. QED BY <2>1, <2>2 DEF SaveInv, Unsaved
<1>4. ASSUME NEW a \in Admins, ResetSequence(a) PROVE SaveInv'
  <2>1. /\ pc[a] = "idle" /\ pc'[a] = "done" /\ spc[a] = "none"
        /\ \A b \in Admins : b # a => pc'[b] = pc[b]
        /\ UNCHANGED <<sequences, spc, all, sfd, tmp, raced>>
    BY <1>0, <1>4 DEF ResetSequence, SaveInv
  <2>. QED BY <2>1 DEF SaveInv, Unsaved
<1>5. ASSUME NEW a \in Admins, DeleteSequence(a) PROVE SaveInv'
  <2>1. /\ pc[a] = "idle" /\ pc'[a] = "locked" /\ spc[a] = "none"
        /\ \A b \in Admins : b # a => pc'[b] = pc[b]
        /\ UNCHANGED <<spc, all, sfd, tmp>> /\ raced' = (raced \/ Unsaved # {})
    BY <1>0, <1>5 DEF DeleteSequence, SaveInv
  <2>2. ASSUME ~raced' PROVE \A b \in Admins : b # a => pc[b] # "locked" /\ spc[b] \in {"none", "saved"}
    BY <2>1, <2>2 DEF Unsaved
  <2>. QED BY <2>1, <2>2 DEF SaveInv, Unsaved
<1>6. ASSUME NEW a \in Admins, DeleteCursor(a) PROVE SaveInv'
  <2>1. /\ pc[a] = "locked" /\ pc'[a] = "done" /\ spc'[a] = "spawned" /\ all'[a] = sequences
        /\ \A b \in Admins : b # a => pc'[b] = pc[b] /\ spc'[b] = spc[b] /\ all'[b] = all[b]
        /\ UNCHANGED <<sequences, sfd, tmp, raced>>
    BY <1>0, <1>6 DEF DeleteCursor, SpawnSave
  <2>2. a \in Unsaved /\ Unsaved' = Unsaved
    BY <2>1 DEF Unsaved
  <2>. QED BY <2>1, <2>2 DEF SaveInv
<1>7. ASSUME NEW o \in Requests \cup Admins, Disconnect(o) PROVE SaveInv'
  <2>1. /\ UNCHANGED <<sequences, spc, all, sfd, tmp, raced>>
        /\ \A b \in Admins : pc'[b] = pc[b] \/ pc'[b] = "dropped"
    BY <1>0, <1>7 DEF Disconnect
  <2>2. Unsaved' \subseteq Unsaved
    BY <2>1 DEF Unsaved
  <2>. QED BY <2>1, <2>2 DEF SaveInv
<1>8. ASSUME NEW a \in Admins, SaveStep(a) PROVE SaveInv'
  <2>1. a \in Unsaved /\ spc[a] \in {"spawned", "truncated", "written"}
    BY <1>8 DEF SaveStep, SaveTruncate, SaveWrite, SaveFail, SaveRename, Unsaved
  <2>2. /\ spc'[a] \in {"truncated", "written", "saved"}
        /\ \A b \in Admins : b # a => spc'[b] = spc[b]
        /\ UNCHANGED <<sequences, pc, all, raced>>
    BY <1>0, <1>8 DEF SaveStep, SaveTruncate, SaveWrite, SaveFail, SaveRename
  <2>3. Unsaved' \subseteq Unsaved
    BY <2>1, <2>2 DEF Unsaved
  <2>4. \A b \in Admins : pc[b] \in {"idle", "locked"} => spc'[b] = "none"
    BY <2>1, <2>2 DEF SaveInv
  <2>5. ASSUME ~raced
        PROVE  /\ \A b \in Admins : spc'[b] \in {"spawned", "truncated", "written"} => b = a
               /\ all[a] = sequences
    <3>1. \A b \in Unsaved : b = a
      BY <2>1, <2>5 DEF SaveInv
    <3>. QED BY <2>1, <2>2, <2>5, <3>1 DEF SaveInv, Unsaved
  <2>6. ASSUME ~raced
        PROVE  /\ spc'[a] = "truncated" => sfd'[a] = "tmp" /\ tmp' = <<>>
               /\ spc'[a] = "written" => tmp' = all[a]
    <3>1. CASE SaveTruncate(a)
      BY <1>0, <3>1 DEF SaveTruncate
    <3>2. CASE SaveWrite(a)
      <4>1. sfd[a] = "tmp" /\ tmp = <<>> /\ all[a] \in Seq(Defs)
        BY <2>6, <3>2 DEF SaveWrite, SaveInv, TypeOK
      <4>2. tmp' \in Overwrites(<<>>, all[a])
        BY <3>2, <4>1 DEF SaveWrite
      <4>3. tmp' = all[a] /\ spc'[a] = "written"
        BY <1>0, <3>2, <4>1, <4>2, OverwritesEmpty DEF SaveWrite
      <4>. QED BY <4>3
    <3>3. CASE SaveFail(a) \/ SaveRename(a)
      BY <1>0, <3>3 DEF SaveFail, SaveRename
    <3>. QED BY <1>8, <3>1, <3>2, <3>3 DEF SaveStep
  <2>. QED BY <2>2, <2>3, <2>4, <2>5, <2>6 DEF SaveInv
<1>9. CASE Restart
  <2>1. /\ \A b \in Admins : spc'[b] \in {"none", "saved"} /\ (spc[b] = "none" => spc'[b] = "none")
        /\ \A b \in Admins : pc'[b] \in {"idle", "gone"} /\ (pc'[b] = "idle" => pc[b] = "idle")
    BY <1>9 DEF Restart
  <2>2. Unsaved' = {}
    BY <2>1 DEF Unsaved
  <2>. QED BY <2>1, <2>2 DEF SaveInv
<1>10. CASE UNCHANGED vars
  BY <1>1, <1>10 DEF vars
<1>. QED BY <1>2, <1>3, <1>4, <1>5, <1>6, <1>7, <1>8, <1>9, <1>10
         DEF Next, AdminStep, BeginAdmin

(* The file changes from one current list to the next.                     *)
LEMMA FileStep ==
  ASSUME TypeOK, SaveInv, [Next]_vars, ~raced, file' # file
  PROVE  Lines(file') = sequences
<1>1. PICK a \in Admins : SaveWrite(a) \/ SaveFail(a) \/ SaveRename(a)
  BY DEF vars, Next, RequestStep, LockForRequest, ServeSequence, AdminStep, BeginAdmin,
         CreateSequence, ResetSequence, DeleteSequence, DeleteCursor, SpawnSave,
         SaveStep, SaveTruncate, Disconnect, Restart
<1>2. CASE SaveWrite(a) \/ SaveFail(a)
  <2>1. CASE SaveWrite(a)
    BY <2>1 DEF SaveWrite, SaveInv
  <2>2. CASE SaveFail(a)
    <3>1. sfd[a] = "main" /\ spc[a] = "truncated"
      BY <2>2 DEF SaveFail
    <3>. QED BY <3>1 DEF SaveInv
  <2>. QED BY <1>2, <2>1, <2>2
<1>3. CASE SaveRename(a)
  <2>1. file' = tmp /\ tmp # None
    BY <1>3 DEF SaveRename
  <2>2. tmp = sequences
    BY <1>3 DEF SaveRename, SaveInv
  <2>. QED BY <2>1, <2>2 DEF Lines
<1>. QED BY <1>1, <1>2, <1>3

-----------------------------------------------------------------------------
(***************************************************************************)
(* Refinement: every step is a step of SequenceObject or leaves what it    *)
(* speaks of unchanged.                                                    *)
(***************************************************************************)
(* An admin that waits for the cursors is a delete, has taken the id from  *)
(* the list it found, and is alone in holding a lock of the list.          *)
LockInv ==
  \A a \in Admins :
    pc[a] = "locked" =>
      /\ job[a].kind = "delete" /\ sequences = Retain(listed, job[a].id)
      /\ \A o \in Requests \cup Admins : pc[o] = "locked" => o = a

LEMMA LockInit == Init => LockInv
  BY DEF Init, LockInv

LEMMA LockStep ==
  ASSUME TypeOK, LockInv, [Next]_vars
  PROVE  LockInv'
<1>0. Requests \cap Admins = {} /\ DOMAIN pc = Requests \cup Admins
  BY SequencesAssumption DEF TypeOK
<1>1. CASE UNCHANGED <<sequences, listed, pc, job>>
  BY <1>1 DEF LockInv
<1>2. ASSUME NEW r \in Requests, LockForRequest(r) PROVE LockInv'
  <2>1. \A a \in Admins : pc'[a] # "locked"
    BY <1>0, <1>2 DEF LockForRequest, CanRead
  <2>. QED BY <2>1 DEF LockInv
<1>3. ASSUME NEW o \in Requests \cup Admins, NEW how, how # "locked",
             pc' = [pc EXCEPT ![o] = how], UNCHANGED <<sequences, listed, job>>
      PROVE  LockInv'
  BY <1>0, <1>3 DEF LockInv
<1>4. ASSUME NEW a \in Admins, CreateSequence(a) PROVE LockInv'
  <2>1. \A b \in Admins : pc'[b] # "locked"
    BY <1>0, <1>4 DEF CreateSequence, CanWrite
  <2>. QED BY <2>1 DEF LockInv
<1>5. ASSUME NEW a \in Admins, DeleteSequence(a) PROVE LockInv'
  <2>1. \A o \in Requests \cup Admins : pc'[o] = "locked" => o = a
    BY <1>0, <1>5 DEF DeleteSequence, CanWrite
  <2>. QED BY <1>5, <2>1 DEF DeleteSequence, LockInv
<1>6. CASE Restart
  <2>1. \A a \in Admins : pc'[a] # "locked"
    BY <1>6 DEF Restart
  <2>. QED BY <2>1 DEF LockInv
<1>7. ASSUME NEW r \in Requests, ServeSequence(r) PROVE LockInv'
  BY <1>3, <1>7 DEF ServeSequence
<1>8. ASSUME NEW a \in Admins, ResetSequence(a) \/ DeleteCursor(a) PROVE LockInv'
  BY <1>3, <1>8 DEF ResetSequence, DeleteCursor
<1>9. ASSUME NEW o \in Requests \cup Admins, Disconnect(o) PROVE LockInv'
  BY <1>3, <1>9 DEF Disconnect
<1>10. ASSUME NEW a \in Admins, SaveStep(a) PROVE LockInv'
  BY <1>1, <1>10 DEF SaveStep, SaveTruncate, SaveWrite, SaveFail, SaveRename
<1>11. CASE UNCHANGED vars
  BY <1>1, <1>11 DEF vars
<1>. QED BY <1>2, <1>4, <1>5, <1>6, <1>7, <1>8, <1>9, <1>10, <1>11
         DEF Next, RequestStep, AdminStep, BeginAdmin

Statuses == [o \in Requests \cup Admins |->
               IF pc[o] \in {"idle", "locked"} THEN "open" ELSE pc[o]]

LEMMA ObjectInit == Init => Object!Init
<1>. SUFFICES ASSUME Init PROVE Object!Init
  OBVIOUS
<1>1. Statuses = [o \in Requests \cup Admins |-> "open"]
  BY DEF Init, Statuses
<1>2. Seen = <<>>
  BY DEF Init, Seen
<1>. QED BY <1>1, <1>2 DEF Init, Object!Init, Statuses

(* Every step of the handlers is a step of the object, or a stutter.       *)
THEOREM ObjectStep ==
  ASSUME TypeOK, LockInv, [Next]_vars
  PROVE  Object!Next \/ UNCHANGED Object!vars
<1>0. /\ Requests \cap Admins = {} /\ DOMAIN pc = Requests \cup Admins
      /\ pc \in [Requests \cup Admins -> {"idle", "locked", "done", "dropped", "gone"}]
  BY SequencesAssumption DEF TypeOK
<1>1. ASSUME NEW o \in Requests \cup Admins, NEW how \in {"done", "dropped"},
             pc[o] \in {"idle", "locked"}, pc' = [pc EXCEPT ![o] = how]
      PROVE  Object!End(o, how)
  <2>1. Statuses[o] = "open" /\ Statuses' = [Statuses EXCEPT ![o] = how]
    BY <1>0, <1>1 DEF Statuses
  <2>. QED BY <2>1 DEF Object!End, Statuses
<1>2. CASE UNCHANGED <<sequences, listed, pc, counters, turns, asked, job>>
  <2>1. Seen' = Seen /\ Statuses' = Statuses
    BY <1>2 DEF Seen, CanRead, Statuses
  <2>. QED BY <1>2, <2>1 DEF Object!vars, Statuses
<1>3. ASSUME NEW o \in Requests \cup Admins,
             pc[o] = "idle", pc' = [pc EXCEPT ![o] = "locked"]
      PROVE  Statuses' = Statuses
  BY <1>0, <1>3 DEF Statuses
<1>4. ASSUME NEW r \in Requests, LockForRequest(r) PROVE UNCHANGED Object!vars
  <2>1. Statuses' = Statuses
    BY <1>3, <1>4 DEF LockForRequest
  <2>2. \A a \in Admins : pc'[a] = pc[a]
    BY <1>0, <1>4 DEF LockForRequest
  <2>3. Seen' = Seen
    BY <1>4, <2>2 DEF LockForRequest, Seen, CanRead
  <2>. QED BY <1>4, <2>1, <2>3 DEF LockForRequest, Object!vars, Statuses
<1>5. ASSUME NEW r \in Requests, ServeSequence(r) PROVE Object!Serve(r)
  <2>1. /\ pc[r] = "locked" /\ pc' = [pc EXCEPT ![r] = "done"]
        /\ UNCHANGED <<sequences, asked, job>>
    BY <1>5 DEF ServeSequence
  <2>2. \A a \in Admins : pc[a] # "locked" /\ pc'[a] # "locked"
    BY <1>0, <2>1 DEF LockInv
  <2>3. Seen = sequences /\ Seen' = Seen
    BY <2>1, <2>2 DEF Seen, CanRead
  <2>4. Object!End(r, "done")
    BY <1>1, <2>1
  <2>. QED BY <1>5, <2>1, <2>3, <2>4 DEF ServeSequence, Object!Serve, Found, Cursor
<1>6. ASSUME NEW a \in Admins, CreateSequence(a) PROVE Object!Create(a)
  <2>1. /\ pc[a] = "idle" /\ pc' = [pc EXCEPT ![a] = "done"]
        /\ job[a].kind = "create" /\ UNCHANGED <<counters, turns, asked, job>>
        /\ sequences' = Append(Retain(sequences, IdOf[job[a].def]), job[a].def)
    BY <1>6 DEF CreateSequence
  <2>2. \A b \in Admins : pc[b] # "locked" /\ pc'[b] # "locked"
    BY <1>0, <1>6, <2>1 DEF CreateSequence, CanWrite
  <2>3. Seen = sequences /\ Seen' = sequences'
    BY <2>2 DEF Seen, CanRead
  <2>4. Object!End(a, "done")
    BY <1>1, <2>1
  <2>. QED BY <2>1, <2>3, <2>4 DEF Object!Create
<1>7. ASSUME NEW a \in Admins, ResetSequence(a) PROVE Object!Reset(a)
  <2>1. /\ pc[a] = "idle" /\ pc' = [pc EXCEPT ![a] = "done"] /\ job[a].kind = "reset"
        /\ counters' = [counters EXCEPT ![job[a].id] = None]
        /\ turns' = [turns EXCEPT ![job[a].id] = <<>>]
        /\ UNCHANGED <<sequences, listed, asked, job>>
    BY <1>7 DEF ResetSequence
  <2>2. \A b \in Admins : pc'[b] = "locked" <=> pc[b] = "locked"
    BY <1>0, <2>1
  <2>3. Seen' = Seen
    BY <2>1, <2>2 DEF Seen, CanRead
  <2>4. Object!End(a, "done")
    BY <1>1, <2>1
  <2>. QED BY <2>1, <2>3, <2>4 DEF Object!Reset, Object!DropCursor
<1>8. ASSUME NEW a \in Admins, DeleteSequence(a) PROVE UNCHANGED Object!vars
  <2>1. /\ pc[a] = "idle" /\ pc' = [pc EXCEPT ![a] = "locked"]
        /\ listed' = sequences /\ UNCHANGED <<counters, turns, asked, job>>
    BY <1>8 DEF DeleteSequence
  <2>2. Statuses' = Statuses
    BY <1>3, <2>1
  <2>3. Seen = sequences /\ Seen' = listed'
    BY <1>0, <1>8, <2>1 DEF DeleteSequence, CanWrite, Seen, CanRead
  <2>. QED BY <2>1, <2>2, <2>3 DEF Object!vars, Statuses
<1>9. ASSUME NEW a \in Admins, pc[a] = "locked", NEW how \in {"done", "dropped"},
             pc' = [pc EXCEPT ![a] = how], UNCHANGED <<sequences, asked, job>>
      PROVE  /\ job[a].kind = "delete" /\ Object!End(a, how)
             /\ Seen' = Retain(Seen, job[a].id)
  <2>1. job[a].kind = "delete" /\ sequences = Retain(listed, job[a].id)
    BY <1>9 DEF LockInv
  <2>2. \A b \in Admins : pc'[b] # "locked"
    BY <1>0, <1>9 DEF LockInv
  <2>3. Seen = listed /\ Seen' = sequences
    BY <1>9, <2>2 DEF Seen, CanRead
  <2>4. Object!End(a, how)
    BY <1>1, <1>9
  <2>. QED BY <2>1, <2>3, <2>4
<1>10. ASSUME NEW a \in Admins, DeleteCursor(a) PROVE Object!Delete(a)
  <2>1. /\ pc[a] = "locked" /\ pc' = [pc EXCEPT ![a] = "done"]
        /\ counters' = [counters EXCEPT ![job[a].id] = None]
        /\ turns' = [turns EXCEPT ![job[a].id] = <<>>]
        /\ UNCHANGED <<sequences, asked, job>>
    BY <1>10 DEF DeleteCursor
  <2>. QED BY <1>9, <2>1 DEF Object!Delete, Object!DropCursor
<1>11. ASSUME NEW r \in Requests, Disconnect(r) PROVE Object!Leave(r)
  <2>1. /\ Disconnects /\ pc[r] = "locked" /\ pc' = [pc EXCEPT ![r] = "dropped"]
        /\ UNCHANGED <<sequences, listed, counters, turns, asked, job>>
    BY <1>11 DEF Disconnect
  <2>2. \A a \in Admins : pc'[a] = pc[a]
    BY <1>0, <2>1
  <2>3. Seen' = Seen
    BY <2>1, <2>2 DEF Seen, CanRead
  <2>4. Object!End(r, "dropped")
    BY <1>1, <2>1
  <2>. QED BY <2>1, <2>3, <2>4 DEF Object!Leave
<1>12. ASSUME NEW a \in Admins, Disconnect(a) PROVE Object!Forsake(a)
  <2>1. /\ Disconnects /\ pc[a] = "locked" /\ pc' = [pc EXCEPT ![a] = "dropped"]
        /\ UNCHANGED <<sequences, counters, turns, asked, job>>
    BY <1>12 DEF Disconnect
  <2>. QED BY <1>9, <2>1 DEF Object!Forsake
<1>13. CASE Restart
  <2>1. \A o \in Requests \cup Admins : pc'[o] = IF pc[o] = "idle" THEN "idle" ELSE "gone"
    BY <1>13 DEF Restart
  <2>2. /\ Statuses' \in [Requests \cup Admins -> {"open", "gone"}]
        /\ \A o \in Requests \cup Admins : Statuses'[o] = "open" => Statuses[o] = "open"
    BY <2>1 DEF Statuses
  <2>3. Seen' \in Seq(Defs)
    BY <1>13, <2>1, EmptyTypes DEF Restart, Seen, CanRead, TypeOK
  <2>4. Object!Restart
    BY <1>13, <2>2, <2>3 DEF Restart, Object!Restart, Statuses
  <2>. QED BY <2>4 DEF Object!Next
<1>14. ASSUME NEW a \in Admins, SaveStep(a) PROVE UNCHANGED Object!vars
  <2>1. UNCHANGED <<sequences, listed, pc, counters, turns, asked, job>>
    BY <1>14 DEF SaveStep, SaveTruncate, SaveWrite, SaveFail, SaveRename
  <2>2. Seen' = Seen /\ Statuses' = Statuses
    BY <2>1 DEF Seen, CanRead, Statuses
  <2>. QED BY <2>1, <2>2 DEF Object!vars, Statuses
<1>15. CASE UNCHANGED vars
  BY <1>2, <1>15 DEF vars
<1>16. ASSUME NEW r \in Requests, RequestStep(r) \/ Disconnect(r)
       PROVE  Object!Next \/ UNCHANGED Object!vars
  BY <1>4, <1>5, <1>11, <1>16 DEF RequestStep, Object!Next
<1>17. ASSUME NEW a \in Admins, AdminStep(a) \/ SaveStep(a) \/ Disconnect(a)
       PROVE  Object!Next \/ UNCHANGED Object!vars
  BY <1>6, <1>7, <1>8, <1>10, <1>12, <1>14, <1>17 DEF AdminStep, BeginAdmin, Object!Next
<1>. QED BY <1>13, <1>15, <1>16, <1>17 DEF Next

-----------------------------------------------------------------------------
SequencesInv ==
  TypeOK /\ HandleInv /\ NoOrphanCounters /\ TurnsInv /\ InOrder /\ SaveInv /\ LockInv

LEMMA SequencesInvariant == Spec => []SequencesInv
<1>1. Init => SequencesInv
  BY SequencesInit, OrphanInit, TurnsInit, SaveInit, LockInit DEF SequencesInv
<1>2. SequencesInv /\ [Next]_vars => SequencesInv'
  BY TypeStep, HandleStep, OrphanStep, TurnsStep, SaveInvStep, LockStep DEF SequencesInv
<1>. QED BY <1>1, <1>2, PTL DEF Spec

(* Every variable keeps its type: a cursor stays in its width, and what    *)
(* overlapping saves leave in the file is a list.                          *)
THEOREM TypeCorrect == Spec => []TypeOK
<1>1. SequencesInv => TypeOK
  BY DEF SequencesInv
<1>. QED BY <1>1, SequencesInvariant, PTL

(* No cursor outlives its definition, however requests, resets, deletes    *)
(* and restarts interleave (main.rs:1084-1097).                            *)
THEOREM NoOrphans == Spec => []NoOrphanCounters
<1>1. SequencesInv => NoOrphanCounters
  BY DEF SequencesInv
<1>. QED BY <1>1, SequencesInvariant, PTL

(* Concurrent requests get consecutive responses, up to the first wrap of  *)
(* the cursor (matcher.rs:161-170, README.md:129).                         *)
THEOREM TurnsInOrder == Spec => []InOrder
<1>1. SequencesInv => InOrder
  BY DEF SequencesInv
<1>. QED BY <1>1, SequencesInvariant, PTL

(* The file goes from one current list to the next (io.rs:277-286).        *)
THEOREM SavesCurrent == Spec => SavesCurrentList
<1>1. SequencesInv /\ [Next]_vars => [~raced /\ file' # file => Lines(file') = sequences]_vars
  BY FileStep DEF SequencesInv
<1>. QED BY <1>1, SequencesInvariant, PTL DEF Spec, SavesCurrentList

(* AtomicSequences (main.rs:1084-1097): the handlers, with their two locks *)
(* taken one after the other, implement SequenceObject, whose calls take   *)
(* effect at one moment.                                                   *)
THEOREM HandlersAreAtomic == Spec => AtomicSequences
<1>1. SequencesInv /\ [Next]_vars => [Object!Next]_Object!vars
  BY ObjectStep DEF SequencesInv
<1>. QED BY <1>1, ObjectInit, SequencesInvariant, PTL DEF Spec, AtomicSequences, Object!Spec
=============================================================================
