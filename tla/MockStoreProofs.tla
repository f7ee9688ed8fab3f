-------------------------- MODULE MockStoreProofs --------------------------
(***************************************************************************)
(* Proofs about MockStore, for any services, keys, tenants, tasks and any  *)
(* number of crashes.                                                      *)
(***************************************************************************)
EXTENDS MockStore, FiniteSetTheorems, TLAPS

(* Every handle is open on a file that exists: a recorder's on the mock    *)
(* file, a loader's on its tmp file or, once another loader has renamed    *)
(* that, on the mock file.                                                 *)
HandlesOpen ==
  /\ \A w \in Recorders : wpc[w] = "opened" => disk[svcOf[w]] # NoFile
  /\ \A l \in Loaders : lpc[l] \in {"trunc", "write", "rename"} => lsvc[l] \in Services
  /\ \A l \in Loaders : lfd[l] # "none" => lpc[l] = "write"
  /\ \A l \in Loaders : lfd[l] = "tmp" => tmp[lsvc[l]] # NoFile
  /\ \A l \in Loaders : lfd[l] = "main" => disk[lsvc[l]] # NoFile

TypeInv == TypeOK /\ HandlesOpen

(* The library a boot starts from is a library, the file it is empty.      *)
LEMMA EmptyTypes ==
  EmptySegment \in Segment /\ EmptyLibrary \in Library /\ EmptyFile \in File
  BY DEF EmptySegment, EmptyLibrary, EmptyFile, Whole, Segment, Library, File

(* No file is no file.                                                     *)
LEMMA FileExists ==
  ASSUME NEW f \in File PROVE f # NoFile
  BY ProcessAssumption

(* A line more makes a segment of a segment.                               *)
LEMMA LineType ==
  ASSUME TypeOK, NEW seg \in Segment, NEW e \in Recorders
  PROVE  WithLine(seg, e) \in Segment
  <1>1. keyOf[e] \in Keys /\ e \in Entries
    BY ProcessAssumption DEF TypeOK
  <1> QED BY <1>1 DEF WithLine, Segment

(* Every file, or none, has a segment of lines and parses to a segment.    *)
LEMMA ParsedType ==
  ASSUME TypeOK, NEW f \in File \cup {NoFile}
  PROVE  Lines(f) \in Segment /\ Parsed(f) \in Segment
  <1>1. Lines(f) \in Segment
    <2>1. CASE f = NoFile
      BY <2>1, EmptyTypes DEF Lines
    <2>2. CASE f # NoFile
      <3>1. f.lines \in Segment
        BY <2>2 DEF File
      <3>2. f.tail \in Entries => WithLine(f.lines, f.tail) \in Segment
        BY <3>1, LineType, ProcessAssumption
      <3> QED BY <2>2, <3>1, <3>2 DEF Lines
    <2> QED BY <2>1, <2>2
  <1> QED BY <1>1, EmptyTypes DEF Parsed

(* An appended line, and one that is cut short, leave a file.              *)
LEMMA AppendedType ==
  ASSUME TypeOK, NEW f \in File, NEW e \in Recorders
  PROVE  /\ Appended(f, e) \in File
         /\ [f EXCEPT !.lines = WithLine(Lines(f), e), !.tail = NoEntry] \in File
         /\ [f EXCEPT !.tail = e] \in File
         /\ \A u \in BOOLEAN : [f EXCEPT !.tail = Part, !.utf8 = u] \in File
  <1>1. f.lines \in Segment /\ Lines(f) \in Segment /\ e \in Entries
    BY ParsedType, ProcessAssumption DEF File
  <1>2. WithLine(f.lines, e) \in Segment /\ WithLine(Lines(f), e) \in Segment
    BY <1>1, LineType
  <1> HIDE DEF Segment
  <1> QED BY <1>1, <1>2 DEF Appended, File

(* What two writes through one handle mix is a file.                       *)
LEMMA MixedType ==
  ASSUME NEW old \in File, NEW new \in Segment, NEW written,
         NEW tails \in SUBSET (Entries \cup {NoEntry, Part}),
         NEW f \in Mixed(old, new, written, tails)
  PROVE  f \in File
  <1>1. PICK stale \in SUBSET Keys, t \in tails, u \in BOOLEAN :
          f = [lines |-> [k \in Keys |-> IF k \in stale THEN old.lines[k]
                                         ELSE IF k \in written THEN new[k] ELSE NoEntry],
               tail |-> t, utf8 |-> u]
    BY DEF Mixed
  <1>2. old.lines \in Segment
    BY DEF File
  <1>3. [k \in Keys |-> IF k \in stale THEN old.lines[k]
                        ELSE IF k \in written THEN new[k] ELSE NoEntry] \in Segment
    BY <1>2 DEF Segment
  <1> QED BY <1>1, <1>3 DEF File

(* A write through a handle, complete or cut short, leaves a file.         *)
LEMMA ContentType ==
  ASSUME NEW old \in File, NEW new \in Segment
  PROVE  Overwrites(old, new) \subseteq File /\ CutShort(old, new) \subseteq File
  <1>1. old.tail \in Entries \cup {NoEntry, Part}
    BY DEF File
  <1>2. Whole(new) \in File
    BY DEF Whole, File
  <1>3. Overwrites(old, new) \subseteq File
    <2>1. Mixed(old, new, Keys, {NoEntry, old.tail}) \subseteq File
      BY <1>1, MixedType
    <2> QED BY <1>2, <2>1 DEF Overwrites
  <1>4. ASSUME NEW f \in CutShort(old, new) PROVE f \in File
    <2>1. CASE f = old
      BY <2>1
    <2>2. CASE f # old
      <3>1. PICK written \in SUBSET Keys :
              f \in Mixed(old, new, written,
                          {NoEntry, Part, old.tail} \cup {new[k] : k \in Keys \ written})
        BY <1>4, <2>2 DEF CutShort
      <3>2. {NoEntry, Part, old.tail} \cup {new[k] : k \in Keys \ written}
              \in SUBSET (Entries \cup {NoEntry, Part})
        BY <1>1 DEF Segment
      <3> QED BY <3>1, <3>2, MixedType
    <2> QED BY <2>1, <2>2
  <1> QED BY <1>3, <1>4

(* Publishing a recorded entry makes a library of a library.               *)
LEMMA InsertType ==
  ASSUME NEW lib \in Library, NEW s \in Services, NEW k \in Keys, NEW e \in Entries
  PROVE  Insert(lib, s, k, e) \in Library
  BY DEF Insert, Library, Segment

(* So does putting a reloaded segment in its place.                        *)
LEMMA SetSegmentType ==
  ASSUME NEW lib \in Library, NEW s \in Services, NEW seg \in Segment
  PROVE  SetSegment(lib, s, seg) \in Library
  BY DEF SetSegment, Library

(* The smart swap starts from a recorded entry, never from nothing.        *)
LEMMA CandidatesType ==
  ASSUME NEW lib \in Library, NEW s \in Services, NEW k \in Keys,
         NEW e \in SwapCandidates(lib, s, k)
  PROVE  e \in Entries
  <1>1. PICK j \in Keys : e = lib[s][j] /\ lib[s][j] # NoEntry
    BY DEF SwapCandidates
  <1>2. lib[s][j] \in Entries \cup {NoEntry}
    BY DEF Library, Segment
  <1> QED BY <1>1, <1>2

(* The proxy starts type correct, with no handle open.                     *)
THEOREM TypeInit == Init => TypeInv
  <1> SUFFICES ASSUME Init PROVE TypeInv
    OBVIOUS
  <1>1. TypeOK
    BY EmptyTypes, ProcessAssumption DEF Init, TypeOK
  <1>2. HandlesOpen
    BY DEF Init, HandlesOpen
  <1> QED BY <1>1, <1>2 DEF TypeInv

USE DEF vars, writerVars, fileVars, loaderVars, watchVars, requestVars, inputVars

(* The history of lines that reached a file is one of recorders.           *)
LEMMA ReachedType ==
  ASSUME TypeOK, NEW r \in Recorders, NEW s, Reached(r, s)
  PROVE  landed' \in Seq(Recorders) /\ raced' \subseteq Recorders
  <1>1. landed \in Seq(Recorders) /\ landed' = Append(landed, r)
    BY DEF TypeOK, Reached
  <1>2. landed' \in Seq(Recorders)
    BY <1>1
  <1> QED BY <1>2 DEF TypeOK, Reached

(* A loader's write goes to a file that exists, which stays one.           *)
LEMMA HandleTypes ==
  ASSUME TypeOK, HandlesOpen, NEW l \in Loaders, WriteTmp(l) \/ WriteTmpFail(l)
  PROVE  /\ disk' \in [Services -> File \cup {NoFile}]
         /\ tmp' \in [Services -> File \cup {NoFile}]
         /\ \A s \in Services : disk[s] # NoFile => disk'[s] # NoFile
         /\ \A s \in Services : tmp[s] # NoFile => tmp'[s] # NoFile
         /\ channel' \subseteq Services
  <1> DEFINE s == lsvc[l]
  <1>1. s \in Services /\ lparsed[l] \in Segment
    BY DEF WriteTmp, WriteTmpFail, HandlesOpen, TypeOK
  <1>2. /\ lfd[l] = "tmp" => tmp[s] \in File
        /\ lfd[l] = "main" => disk[s] \in File
    BY <1>1 DEF TypeOK, HandlesOpen
  <1>3. WriteHandle(l, Overwrites) \/ WriteHandle(l, CutShort)
    BY DEF WriteTmp, WriteTmpFail
  <1>4. CASE lfd[l] = "tmp"
    <2>1. \E f \in Overwrites(tmp[s], lparsed[l]) \cup CutShort(tmp[s], lparsed[l]) :
            tmp' = [tmp EXCEPT ![s] = f]
      BY <1>3, <1>4 DEF WriteHandle
    <2>2. \E f \in File : tmp' = [tmp EXCEPT ![s] = f]
      BY <1>1, <1>2, <1>4, <2>1, ContentType
    <2>3. UNCHANGED <<disk, channel>>
      BY <1>3, <1>4 DEF WriteHandle
    <2> HIDE DEF s
    <2> QED BY <1>1, <2>2, <2>3, FileExists DEF TypeOK
  <1>5. CASE lfd[l] = "main"
    <2>1. \E f \in Overwrites(disk[s], lparsed[l]) \cup CutShort(disk[s], lparsed[l]) :
            disk' = [disk EXCEPT ![s] = f]
      BY <1>3, <1>5 DEF WriteHandle
    <2>2. \E f \in File : disk' = [disk EXCEPT ![s] = f]
      BY <1>1, <1>2, <1>5, <2>1, ContentType
    <2>3. tmp' = tmp /\ Notify({s})
      BY <1>3, <1>5 DEF WriteHandle
    <2> HIDE DEF s
    <2>4. channel' \subseteq Services
      BY <1>1, <2>3 DEF Notify, TypeOK
    <2> QED BY <1>1, <2>2, <2>3, <2>4, FileExists DEF TypeOK
  <1>6. CASE lfd[l] \notin {"tmp", "main"}
    BY <1>3, <1>6 DEF WriteHandle, TypeOK
  <1> QED BY <1>4, <1>5, <1>6

(* No step breaks the types, or leaves an open handle without its file.    *)
THEOREM TypeStep == TypeInv /\ [Next]_vars => TypeInv'
  <1> SUFFICES ASSUME TypeOK, HandlesOpen, [Next]_vars
               PROVE  TypeOK' /\ HandlesOpen'
    BY DEF TypeInv
  <1> USE ProcessAssumption, EmptyTypes
  <1> DEFINE Goal == TypeOK' /\ HandlesOpen'
  <1> SUFFICES Goal
    BY DEF Goal
  <1> HIDE DEF Goal
  <1>1. ASSUME NEW w \in Writers, PublishLoad(w) PROVE Goal
    BY <1>1 DEF Goal, PublishLoad, TypeOK, HandlesOpen, Recorders
  <1>2. ASSUME NEW e \in Editors, EditSave(e) PROVE Goal
    <2> DEFINE s == svcOf[e]
    <2> DEFINE f == IF disk[s] = NoFile THEN EmptyFile ELSE disk[s]
    <2>1. s \in Services /\ e \in Recorders
      BY DEF TypeOK, Recorders
    <2>2. f \in File
      BY <2>1 DEF TypeOK
    <2> HIDE DEF f, s
    <2>3. PICK g \in File : disk' = [disk EXCEPT ![s] = g]
      <3>1. \/ disk' = [disk EXCEPT ![s] = Appended(f, e)]
            \/ disk' = [disk EXCEPT ![s] =
                          [f EXCEPT !.lines = WithLine(Lines(f), e), !.tail = NoEntry]]
        BY <1>2 DEF EditSave, f, s
      <3> QED BY <2>1, <2>2, <3>1, AppendedType
    <2>4. channel' \subseteq Services
      BY <1>2, <2>1 DEF EditSave, s, Notify, TypeOK
    <2>5. landed' \in Seq(Recorders) /\ raced' \cup joined' \subseteq Recorders
      <3>1. Reached(e, s) /\ (joined' = joined \cup JoinedBy(f, e) \/ joined' = joined)
        BY <1>2 DEF EditSave, f, s
      <3>2. joined' \subseteq Recorders
        BY <3>1 DEF JoinedBy, TypeOK
      <3> QED BY <2>1, <3>1, <3>2, ReachedType
    <2>6. wpc' = [wpc EXCEPT ![e] = "done"]
      BY <1>2 DEF EditSave
    <2>7. UNCHANGED <<up, crashes, live, inputVars, wsnap, tmp, loaderVars, batch,
                      requestVars>>
      BY <1>2 DEF EditSave
    <2> QED BY <2>1, <2>3, <2>4, <2>5, <2>6, <2>7, FileExists DEF Goal, TypeOK, HandlesOpen
  <1>3. ASSUME NEW w \in Writers, PublishStore(w) PROVE Goal
    <2>1. Insert(wsnap[w], svcOf[w], keyOf[w], w) \in Library
      BY InsertType DEF TypeOK, Recorders
    <2> QED BY <1>3, <2>1 DEF Goal, PublishStore, TypeOK, HandlesOpen, Recorders
  <1>4. ASSUME NEW w \in Writers, AppendOpen(w) PROVE Goal
    <2>1. /\ disk' \in [Services -> File \cup {NoFile}]
          /\ \A s \in Services : disk[s] # NoFile => disk'[s] # NoFile
          /\ disk'[svcOf[w]] # NoFile
      BY <1>4, FileExists DEF AppendOpen, TypeOK, Recorders
    <2>2. channel' \subseteq Services
      BY <1>4 DEF AppendOpen, Notify, TypeOK, Recorders
    <2> QED BY <1>4, <2>1, <2>2 DEF Goal, AppendOpen, TypeOK, HandlesOpen, Recorders
  (* A write of an appended line, complete or not.                         *)
  <1>5. ASSUME NEW w \in Writers, NEW s \in Services, NEW g \in File,
               NEW c \in {"done", "failed"},
               disk' = [disk EXCEPT ![s] = g] \/ disk' = disk,
               landed' \in Seq(Recorders), raced' \cup joined' \subseteq Recorders,
               wpc' = [wpc EXCEPT ![w] = c], channel' \subseteq Services,
               UNCHANGED <<up, crashes, live, inputVars, wsnap, tmp, loaderVars, batch,
                           requestVars>>
        PROVE  Goal
    <2>1. /\ disk' \in [Services -> File \cup {NoFile}]
          /\ \A t \in Services : disk[t] # NoFile => disk'[t] # NoFile
      BY <1>5, FileExists DEF TypeOK
    <2>2. /\ wpc' \in [Recorders -> {"idle", "loaded", "spawned", "opened", "orphaned",
                                      "done", "failed"}]
          /\ \A r \in Recorders : wpc'[r] = "opened" => wpc[r] = "opened"
      BY <1>5 DEF TypeOK
    <2> QED BY <1>5, <2>1, <2>2 DEF Goal, TypeOK, HandlesOpen
  <1>6. ASSUME NEW w \in Writers, AppendWrite(w) \/ AppendFail(w) PROVE Goal
    <2> DEFINE s == svcOf[w]
    <2>1. w \in Recorders /\ s \in Services
      BY DEF TypeOK, Recorders
    <2>2. wpc[w] = "opened" => disk[s] \in File
      BY <2>1 DEF TypeOK, HandlesOpen
    <2>3. channel' \subseteq Services
      BY <1>6, <2>1 DEF AppendWrite, AppendFail, LineCutShort, Notify, TypeOK
    <2>4. UNCHANGED <<up, crashes, live, inputVars, wsnap, tmp, loaderVars, batch,
                      requestVars>>
      BY <1>6 DEF AppendWrite, AppendFail
    <2> HIDE DEF s
    <2>5. ASSUME AppendWrite(w) PROVE Goal
      <3>1. CASE wpc[w] = "opened"
        <4>1. /\ disk' = [disk EXCEPT ![s] = Appended(disk[s], w)]
              /\ Reached(w, s) /\ joined' = joined \cup JoinedBy(disk[s], w)
              /\ wpc' = [wpc EXCEPT ![w] = "done"]
          BY <2>1, <2>5, <3>1 DEF AppendWrite, s, TypeOK
        <4>2. Appended(disk[s], w) \in File
          BY <2>1, <2>2, <3>1, AppendedType
        <4>3. joined' \subseteq Recorders
          BY <4>1 DEF JoinedBy, TypeOK
        <4>4. landed' \in Seq(Recorders) /\ raced' \subseteq Recorders
          BY <2>1, <4>1, ReachedType
        <4> QED BY <1>5, <2>1, <2>3, <2>4, <4>1, <4>2, <4>3, <4>4
      <3>2. CASE wpc[w] # "opened"
        <4>1. /\ UNCHANGED <<disk, landed, joined>> /\ raced' = raced \cup {w}
              /\ wpc' = [wpc EXCEPT ![w] = "done"]
          BY <2>5, <3>2 DEF AppendWrite
        <4>2. landed' \in Seq(Recorders) /\ raced' \cup joined' \subseteq Recorders
          BY <2>1, <4>1 DEF TypeOK
        <4> QED BY <1>5, <2>1, <2>3, <2>4, <4>1, <4>2
      <3> QED BY <3>1, <3>2
    <2>6. ASSUME AppendFail(w) PROVE Goal
      <3>0. wpc' = [wpc EXCEPT ![w] = "failed"]
        BY <2>6 DEF AppendFail
      <3>1. CASE UNCHANGED <<disk, landed, raced, joined>>
        <4>1. landed' \in Seq(Recorders) /\ raced' \cup joined' \subseteq Recorders
          BY <3>1 DEF TypeOK
        <4> QED BY <1>5, <2>1, <2>3, <2>4, <3>0, <3>1, <4>1
      <3>2. CASE wpc[w] = "opened" /\ LineCutShort(w, s)
        <4>1. disk[s] \in File
          BY <2>2, <3>2
        <4>2. joined' \subseteq Recorders
          BY <3>2 DEF LineCutShort, TypeOK
        <4>3. landed' \in Seq(Recorders) /\ raced' \subseteq Recorders
          <5>1. Reached(w, s) \/ UNCHANGED <<landed, raced>>
            BY <3>2 DEF LineCutShort
          <5> QED BY <2>1, <5>1, ReachedType DEF TypeOK
        <4>4. PICK g \in File : disk' = [disk EXCEPT ![s] = g]
          <5>1. CASE \E u \in {disk[s].utf8, FALSE} :
                       disk' = [disk EXCEPT ![s] = [@ EXCEPT !.tail = Part, !.utf8 = u]]
            <6>1. PICK u \in {disk[s].utf8, FALSE} :
                       disk' = [disk EXCEPT ![s] = [disk[s] EXCEPT !.tail = Part, !.utf8 = u]]
              BY <2>1, <5>1 DEF TypeOK
            <6>2. u \in BOOLEAN
              BY <4>1, <6>1 DEF File
            <6> QED BY <2>1, <4>1, <6>1, <6>2, AppendedType
          <5>2. CASE disk' = [disk EXCEPT ![s] = [@ EXCEPT !.tail = w]]
            <6>1. disk' = [disk EXCEPT ![s] = [disk[s] EXCEPT !.tail = w]]
              BY <2>1, <5>2 DEF TypeOK
            <6> QED BY <2>1, <4>1, <6>1, AppendedType
          <5> QED BY <3>2, <5>1, <5>2 DEF LineCutShort
        <4> QED BY <1>5, <2>1, <2>3, <2>4, <3>0, <4>2, <4>3, <4>4
      <3> QED BY <2>6, <3>1, <3>2 DEF AppendFail, s
    <2> QED BY <1>6, <2>5, <2>6
  <1>7. ASSUME NEW l \in FullLoaders, ReloadFull(l) PROVE Goal
    BY <1>7 DEF Goal, ReloadFull, StartLoad, FullLoaders, TypeOK, HandlesOpen
  <1>8. ASSUME NEW s \in Services, ReloadOneFile(s) PROVE Goal
    BY <1>8 DEF Goal, ReloadOneFile, StartLoad, TypeOK, HandlesOpen
  <1>9. CASE BootLoad
    BY <1>9 DEF Goal, BootLoad, StartLoad, TypeOK, HandlesOpen
  <1>10. ASSUME NEW l \in Loaders, NEW s \in Services, ReadSegment(l, s) PROVE Goal
    <2>1. Parsed(disk[s]) \in Segment
      BY ParsedType DEF TypeOK
    <2>2. SetSegment(lacc[l], s, Parsed(disk[s])) \in Library
      BY <2>1, SetSegmentType DEF TypeOK
    <2>3. lacc' \in [Loaders -> Library]
      BY <1>10, <2>2 DEF ReadSegment, TypeOK
    <2>4. /\ lpc' \in [Loaders -> {"idle", "scan", "trunc", "write", "rename"}]
          /\ lsvc' \in [Loaders -> Services \cup {NoService}]
          /\ lparsed' \in [Loaders -> Segment]
          /\ ltodo' \in [Loaders -> SUBSET Services]
      <3>1. ltodo' \in [Loaders -> SUBSET Services]
        BY <1>10 DEF ReadSegment, TypeOK
      <3>2. CASE Parsed(disk[s]) = EmptySegment
        BY <1>10, <3>1, <3>2 DEF ReadSegment, TypeOK
      <3>3. CASE Parsed(disk[s]) # EmptySegment
        <4>1. /\ lpc' = [lpc EXCEPT ![l] = "trunc"]
              /\ lsvc' = [lsvc EXCEPT ![l] = s]
              /\ lparsed' = [lparsed EXCEPT ![l] = Parsed(disk[s])]
          BY <1>10, <3>3 DEF ReadSegment
        <4> QED BY <2>1, <3>1, <4>1 DEF TypeOK
      <3> QED BY <3>2, <3>3
    <2>5. lfd[l] = "none"
      BY <1>10 DEF ReadSegment, TypeOK, HandlesOpen
    <2>6. /\ \A m \in Loaders : m # l => lpc'[m] = lpc[m] /\ lsvc'[m] = lsvc[m]
          /\ lpc'[l] \in {"trunc", "write", "rename"} => lsvc'[l] = s
      BY <1>10 DEF ReadSegment, TypeOK
    <2>7. UNCHANGED <<up, crashes, live, inputVars, writerVars, fileVars, lfd,
                      watchVars, requestVars>>
      BY <1>10 DEF ReadSegment
    <2> QED BY <2>3, <2>4, <2>5, <2>6, <2>7 DEF Goal, TypeOK, HandlesOpen
  <1>29. ASSUME NEW l \in Loaders, NEW s \in Services, ReadSegmentFail(l, s) PROVE Goal
    <2>1. SetSegment(lacc[l], s, EmptySegment) \in Library
      BY SetSegmentType DEF TypeOK
    <2> QED BY <1>29, <2>1 DEF Goal, ReadSegmentFail, TypeOK, HandlesOpen
  <1>11. ASSUME NEW l \in Loaders, TruncateTmp(l) PROVE Goal
    <2>1. lsvc[l] \in Services
      BY <1>11 DEF TruncateTmp, HandlesOpen
    <2> QED BY <1>11, <2>1, FileExists DEF Goal, TruncateTmp, TypeOK, HandlesOpen
  <1>12. ASSUME NEW l \in Loaders, WriteTmp(l) PROVE Goal
    <2>1. /\ lpc' = [lpc EXCEPT ![l] = "rename"]
          /\ lfd' = [lfd EXCEPT ![l] = "none"]
          /\ UNCHANGED <<up, crashes, live, inputVars, writerVars, landed, raced, joined,
                 ltodo, lacc, lsvc, lparsed, batch, requestVars>>
          /\ lpc[l] = "write"
      BY <1>12 DEF WriteTmp
    <2> QED BY <1>12, <2>1, HandleTypes DEF Goal, TypeOK, HandlesOpen, Recorders
  <1>13. ASSUME NEW l \in Loaders, WriteTmpFail(l) PROVE Goal
    <2>1. /\ lpc' = [lpc EXCEPT ![l] = "scan"]
          /\ lsvc' = [lsvc EXCEPT ![l] = NoService]
          /\ lparsed' = [lparsed EXCEPT ![l] = EmptySegment]
          /\ lfd' = [lfd EXCEPT ![l] = "none"]
          /\ UNCHANGED <<up, crashes, live, inputVars, writerVars, landed, raced, joined,
                 ltodo, lacc, batch, requestVars>>
      BY <1>13 DEF WriteTmpFail, DropFile
    <2> QED BY <1>13, <2>1, HandleTypes DEF Goal, TypeOK, HandlesOpen, Recorders
  <1>14. ASSUME NEW l \in Loaders, RenameTmp(l) PROVE Goal
    <2>1. lsvc[l] \in Services
      BY <1>14 DEF RenameTmp, HandlesOpen
    <2>2. CASE tmp[lsvc[l]] = NoFile
      BY <1>14, <2>1, <2>2 DEF Goal, RenameTmp, DropFile, TypeOK, HandlesOpen
    <2>3. CASE tmp[lsvc[l]] # NoFile
      <3> DEFINE s == lsvc[l]
      <3>1. /\ disk' = [disk EXCEPT ![s] = tmp[s]]
            /\ tmp' = [tmp EXCEPT ![s] = NoFile]
            /\ wpc' = [w \in Recorders |->
                         IF wpc[w] = "opened" /\ svcOf[w] = s THEN "orphaned" ELSE wpc[w]]
            /\ lfd' = [m \in Loaders |->
                         CASE lsvc[m] = s /\ lfd[m] = "tmp"  -> "main"
                           [] lsvc[m] = s /\ lfd[m] = "main" -> "orphan"
                           [] OTHER -> lfd[m]]
            /\ lpc' = [lpc EXCEPT ![l] = "scan"]
            /\ lsvc' = [lsvc EXCEPT ![l] = NoService]
            /\ lparsed' = [lparsed EXCEPT ![l] = EmptySegment]
            /\ lpc[l] = "rename"
        BY <1>14, <2>3 DEF RenameTmp, DropFile
      <3>2. channel' \subseteq Services
        BY <1>14, <2>1, <2>3 DEF RenameTmp, Notify, TypeOK
      <3>3. UNCHANGED <<up, crashes, live, inputVars, wsnap, landed, raced, joined,
                        ltodo, lacc, batch, requestVars>>
        BY <1>14 DEF RenameTmp
      <3>4. tmp[s] \in File /\ s \in Services
        BY <2>1, <2>3 DEF TypeOK
      <3> HIDE DEF s
      <3>5. TypeOK'
        <4>1. /\ disk' \in [Services -> File \cup {NoFile}]
              /\ tmp' \in [Services -> File \cup {NoFile}]
          BY <3>1, <3>4 DEF TypeOK
        <4>2. /\ wpc' \in [Recorders -> {"idle", "loaded", "spawned", "opened",
                                          "orphaned", "done", "failed"}]
              /\ lfd' \in [Loaders -> {"none", "tmp", "main", "orphan"}]
          BY <3>1 DEF TypeOK
        <4> QED BY <3>1, <3>2, <3>3, <4>1, <4>2 DEF TypeOK
      <3>6. HandlesOpen'
        BY <3>1, <3>3, <3>4, FileExists DEF TypeOK, HandlesOpen
      <3> QED BY <3>5, <3>6 DEF Goal
    <2> QED BY <2>2, <2>3
  <1>15. ASSUME NEW l \in Loaders, PublishLoaded(l) PROVE Goal
    BY <1>15 DEF Goal, PublishLoaded, TypeOK, HandlesOpen
  <1>16. ASSUME NEW l \in FullLoaders, AbandonReload(l) PROVE Goal
    BY <1>16 DEF Goal, AbandonReload, FullLoaders, TypeOK, HandlesOpen
  <1>17. CASE Debounce
    BY <1>17 DEF Goal, Debounce, TypeOK, HandlesOpen
  <1>18. ASSUME NEW r \in Requests, BeginRequest(r) PROVE Goal
    BY <1>18 DEF Goal, BeginRequest, TypeOK, HandlesOpen
  <1>19. ASSUME NEW r \in Requests, NEW a \in Entries \cup {NoMock, Pending}, Answer(r, a)
         PROVE  Goal
    BY <1>19 DEF Goal, Answer, TypeOK, HandlesOpen
  <1>20. ASSUME NEW r \in Requests, ExactHit(r) PROVE Goal
    <2>1. FindExact(rsnap[r], svcOf[r], keyOf[r]) \in Entries
      BY <1>20 DEF ExactHit, FindExact, TypeOK, Library, Segment
    <2> QED BY <1>19, <1>20, <2>1 DEF ExactHit
  <1>21. ASSUME NEW r \in Requests, ExactMiss(r) PROVE Goal
    BY <1>21 DEF Goal, ExactMiss, TypeOK, HandlesOpen
  <1>22. ASSUME NEW r \in Requests, SwapHit(r) PROVE Goal
    <2>1. PICK e \in SwapCandidates(rsnap[r], svcOf[r], keyOf[r]) : Answer(r, e)
      BY <1>22 DEF SwapHit
    <2>2. e \in Entries
      BY <2>1, CandidatesType DEF TypeOK
    <2> QED BY <1>19, <2>1, <2>2
  <1>23. ASSUME NEW r \in Requests, TotalMiss(r) PROVE Goal
    BY <1>19, <1>23 DEF TotalMiss
  <1>24. CASE Crash
    <2>1. wpc' \in [Recorders -> {"idle", "loaded", "spawned", "opened", "orphaned",
                                  "done", "failed"}]
      BY <1>24 DEF Crash, TypeOK
    <2>2. /\ rpc' \in [Requests -> {"idle", "exact", "swap", "done"}]
          /\ crashes' \in 0..MaxCrashes
      BY <1>24 DEF Crash, TypeOK
    <2>3. \A w \in Recorders : wpc'[w] = "opened" => wpc[w] = "opened"
      BY <1>24 DEF Crash, TypeOK
    <2>4. TypeOK'
      BY <1>24, <2>1, <2>2 DEF Crash, TypeOK
    <2>5. HandlesOpen'
      BY <1>24, <2>3 DEF Crash, TypeOK, HandlesOpen
    <2> QED BY <2>4, <2>5 DEF Goal
  <1>25. CASE UNCHANGED vars
    BY <1>25 DEF Goal, TypeOK, HandlesOpen
  <1>26. CASE Start
    BY <1>26, <1>1, <1>2, <1>7, <1>18 DEF Start
  <1>27. CASE Progress
    BY <1>27, <1>3, <1>4, <1>6, <1>8, <1>9, <1>10, <1>11, <1>12, <1>13, <1>14,
       <1>15, <1>17, <1>20, <1>21, <1>22, <1>23, <1>29
       DEF Progress, WriterStep, LoaderStep, RequestStep
  <1>28. CASE Cut
    BY <1>28, <1>16, <1>24 DEF Cut
  <1> QED BY <1>25, <1>26, <1>27, <1>28 DEF Next

(* The model is type correct, and no task writes to a file that is not     *)
(* there.                                                                  *)
THEOREM TypeCorrect == Spec => []TypeOK
  <1>1. Init => TypeInv
    BY TypeInit
  <1>2. TypeInv /\ [Next]_vars => TypeInv'
    BY TypeStep
  <1> QED BY <1>1, <1>2, PTL DEF Spec, TypeInv

-----------------------------------------------------------------------------
(***************************************************************************)
(* Isolation.  An entry never leaves the place it was recorded for: in     *)
(* every library and file, published, under construction or left behind,   *)
(* what stands under a service and a key was recorded for them.            *)
(***************************************************************************)
Belongs(seg, s) ==
  \A k \in Keys : seg[k] # NoEntry => svcOf[seg[k]] = s /\ keyOf[seg[k]] = k

Faithful(lib) == \A s \in Services : Belongs(lib[s], s)

LibrariesFaithful ==
  /\ Faithful(live)
  /\ \A w \in Writers : Faithful(wsnap[w])
  /\ \A l \in Loaders : Faithful(lacc[l])
  /\ \A r \in Requests : Faithful(rsnap[r])

(* So do the lines of a file, and the one that may end it.                 *)
FileBelongs(f, s) ==
  Belongs(f.lines, s) /\ (f.tail \in Entries => svcOf[f.tail] = s)

FilesFaithful ==
  /\ \A s \in Services : disk[s] # NoFile => FileBelongs(disk[s], s)
  /\ \A s \in Services : tmp[s] # NoFile => FileBelongs(tmp[s], s)
  /\ \A l \in Loaders : lpc[l] \in {"trunc", "write", "rename"}
                         => Belongs(lparsed[l], lsvc[l])

Fidelity == LibrariesFaithful /\ FilesFaithful

(* An empty library or segment holds nothing of another service or key.    *)
LEMMA EmptyFaithful ==
  Faithful(EmptyLibrary) /\ \A s \in Services : Belongs(EmptySegment, s)
  BY DEF Faithful, Belongs, EmptyLibrary, EmptySegment

(* A publish files the entry under the service and key it was recorded for. *)
LEMMA InsertFaithful ==
  ASSUME NEW lib \in Library, Faithful(lib),
         NEW e, svcOf[e] \in Services, keyOf[e] \in Keys
  PROVE  Faithful(Insert(lib, svcOf[e], keyOf[e], e))
  BY DEF Faithful, Belongs, Insert, Library, Segment

(* A reload puts a segment only under the service of its file.             *)
LEMMA SetSegmentFaithful ==
  ASSUME NEW lib \in Library, Faithful(lib), NEW s \in Services, NEW seg,
         Belongs(seg, s)
  PROVE  Faithful(SetSegment(lib, s, seg))
  BY DEF Faithful, SetSegment, Library

(* An added line belongs where the entry was recorded.                     *)
LEMMA LineBelongs ==
  ASSUME NEW seg \in Segment, NEW e, keyOf[e] \in Keys, Belongs(seg, svcOf[e])
  PROVE  Belongs(WithLine(seg, e), svcOf[e])
  BY DEF Belongs, WithLine, Segment

(* So do the lines of a file, counting one that lacks its newline.         *)
LEMMA LinesBelong ==
  ASSUME TypeOK, NEW s \in Services, NEW f \in File, FileBelongs(f, s)
  PROVE  Belongs(Lines(f), s)
  <1>1. f.lines \in Segment /\ f # NoFile
    BY FileExists DEF File
  <1>2. CASE f.tail \in Entries
    <2>1. keyOf[f.tail] \in Keys /\ svcOf[f.tail] = s
      BY <1>2, ProcessAssumption DEF TypeOK, FileBelongs
    <2> QED BY <1>1, <1>2, <2>1, LineBelongs DEF Lines, FileBelongs
  <1>3. CASE f.tail \notin Entries
    BY <1>1, <1>3 DEF Lines, FileBelongs
  <1> QED BY <1>2, <1>3

(* What a file parses to belongs to the service it is named for.           *)
LEMMA ParsedBelongs ==
  ASSUME TypeOK, NEW s \in Services, FilesFaithful
  PROVE  Belongs(Parsed(disk[s]), s)
  <1>1. CASE disk[s] = NoFile
    BY <1>1, EmptyFaithful DEF Parsed
  <1>2. CASE disk[s] # NoFile
    <2>1. disk[s] \in File /\ FileBelongs(disk[s], s)
      BY <1>2 DEF TypeOK, FilesFaithful
    <2> QED BY <2>1, LinesBelong, EmptyFaithful DEF Parsed
  <1> QED BY <1>1, <1>2

(* An appended line, one that is cut short and one that is saved by hand   *)
(* belong where the entry was recorded.                                    *)
LEMMA AppendedBelongs ==
  ASSUME TypeOK, NEW e \in Recorders, NEW f \in File, FileBelongs(f, svcOf[e])
  PROVE  /\ FileBelongs(Appended(f, e), svcOf[e])
         /\ FileBelongs([f EXCEPT !.lines = WithLine(Lines(f), e), !.tail = NoEntry], svcOf[e])
         /\ FileBelongs([f EXCEPT !.tail = e], svcOf[e])
         /\ \A u : FileBelongs([f EXCEPT !.tail = Part, !.utf8 = u], svcOf[e])
  <1>1. /\ keyOf[e] \in Keys /\ svcOf[e] \in Services
        /\ f.lines \in Segment /\ Lines(f) \in Segment
    BY ParsedType DEF TypeOK, File
  <1>2. /\ Belongs(f.lines, svcOf[e]) /\ Belongs(Lines(f), svcOf[e])
    BY <1>1, LinesBelong DEF FileBelongs
  <1>3. Belongs(WithLine(f.lines, e), svcOf[e]) /\ Belongs(WithLine(Lines(f), e), svcOf[e])
    BY <1>1, <1>2, LineBelongs
  <1>4. Part \notin Entries /\ NoEntry \notin Entries
    BY ProcessAssumption, NoEntryAssumption
  <1> HIDE DEF Segment
  <1> QED BY <1>2, <1>3, <1>4 DEF FileBelongs, Appended, File

(* Two writes through one handle mix lines of one service only.            *)
LEMMA MixedBelongs ==
  ASSUME NEW old \in File, NEW new, NEW written, NEW tails, NEW s,
         FileBelongs(old, s), Belongs(new, s),
         \A t \in tails : t \in Entries => svcOf[t] = s,
         NEW f \in Mixed(old, new, written, tails)
  PROVE  FileBelongs(f, s)
  BY DEF FileBelongs, Belongs, Mixed

(* So does a write through a handle, complete or cut short.                *)
LEMMA ContentBelongs ==
  ASSUME NEW old \in File, NEW new \in Segment, NEW s,
         FileBelongs(old, s), Belongs(new, s),
         NEW f \in Overwrites(old, new) \cup CutShort(old, new)
  PROVE  FileBelongs(f, s)
  <1>1. Part \notin Entries /\ NoEntry \notin Entries
    BY ProcessAssumption, NoEntryAssumption
  <1>2. CASE f = Whole(new)
    BY <1>1, <1>2 DEF Whole, FileBelongs
  <1>3. CASE f = old
    BY <1>3
  <1>4. CASE f \in Mixed(old, new, Keys, {NoEntry, old.tail})
    <2>1. \A t \in {NoEntry, old.tail} : t \in Entries => svcOf[t] = s
      BY <1>1 DEF FileBelongs
    <2> QED BY <1>4, <2>1, MixedBelongs
  <1>5. ASSUME NEW written \in SUBSET Keys, NEW tails,
               tails = {NoEntry, Part, old.tail} \cup {new[k] : k \in Keys \ written},
               f \in Mixed(old, new, written, tails)
        PROVE  FileBelongs(f, s)
    <2>1. \A t \in tails : t \in Entries => svcOf[t] = s
      BY <1>1, <1>5 DEF FileBelongs, Belongs
    <2> QED BY <1>5, <2>1, MixedBelongs
  <1> QED BY <1>2, <1>3, <1>4, <1>5 DEF Overwrites, CutShort

(* A loader's write puts nothing of another service in a file.             *)
LEMMA HandleBelongs ==
  ASSUME TypeOK, HandlesOpen, FilesFaithful,
         NEW l \in Loaders, WriteTmp(l) \/ WriteTmpFail(l)
  PROVE  /\ \A s \in Services : disk'[s] # NoFile => FileBelongs(disk'[s], s)
         /\ \A s \in Services : tmp'[s] # NoFile => FileBelongs(tmp'[s], s)
  <1> DEFINE s == lsvc[l]
  <1>1. s \in Services /\ lparsed[l] \in Segment /\ Belongs(lparsed[l], s)
    BY DEF WriteTmp, WriteTmpFail, HandlesOpen, TypeOK, FilesFaithful
  <1>2. /\ lfd[l] = "tmp" => tmp[s] \in File /\ FileBelongs(tmp[s], s)
        /\ lfd[l] = "main" => disk[s] \in File /\ FileBelongs(disk[s], s)
    BY <1>1 DEF TypeOK, HandlesOpen, FilesFaithful
  <1>3. WriteHandle(l, Overwrites) \/ WriteHandle(l, CutShort)
    BY DEF WriteTmp, WriteTmpFail
  <1>4. CASE lfd[l] = "tmp"
    <2>1. PICK f \in Overwrites(tmp[s], lparsed[l]) \cup CutShort(tmp[s], lparsed[l]) :
            tmp' = [tmp EXCEPT ![s] = f]
      BY <1>3, <1>4 DEF WriteHandle
    <2>2. FileBelongs(f, s)
      BY <1>1, <1>2, <1>4, ContentBelongs
    <2>3. disk' = disk
      BY <1>3, <1>4 DEF WriteHandle
    <2> HIDE DEF s
    <2> QED BY <1>1, <2>1, <2>2, <2>3 DEF TypeOK, FilesFaithful
  <1>5. CASE lfd[l] = "main"
    <2>1. PICK f \in Overwrites(disk[s], lparsed[l]) \cup CutShort(disk[s], lparsed[l]) :
            disk' = [disk EXCEPT ![s] = f]
      BY <1>3, <1>5 DEF WriteHandle
    <2>2. FileBelongs(f, s)
      BY <1>1, <1>2, <1>5, ContentBelongs
    <2>3. tmp' = tmp
      BY <1>3, <1>5 DEF WriteHandle
    <2> HIDE DEF s
    <2> QED BY <1>1, <2>1, <2>2, <2>3 DEF TypeOK, FilesFaithful
  <1>6. CASE lfd[l] \notin {"tmp", "main"}
    BY <1>3, <1>6 DEF WriteHandle, FilesFaithful
  <1> QED BY <1>4, <1>5, <1>6

(* A save by hand puts nothing of another service in a file ...            *)
LEMMA EditBelongs ==
  ASSUME TypeOK, FilesFaithful, NEW e \in Editors, EditSave(e)
  PROVE  \A s \in Services : disk'[s] # NoFile => FileBelongs(disk'[s], s)
  <1> DEFINE f == IF disk[svcOf[e]] = NoFile THEN EmptyFile ELSE disk[svcOf[e]]
  <1>1. e \in Recorders /\ svcOf[e] \in Services
    BY DEF TypeOK, Recorders
  <1>2. FileBelongs(EmptyFile, svcOf[e])
    BY <1>1, EmptyFaithful, NoEntryAssumption DEF EmptyFile, Whole, FileBelongs
  <1>3. f \in File /\ FileBelongs(f, svcOf[e])
    BY <1>1, <1>2, EmptyTypes DEF TypeOK, FilesFaithful
  <1>4. \/ disk' = [disk EXCEPT ![svcOf[e]] = Appended(f, e)]
        \/ disk' = [disk EXCEPT ![svcOf[e]] =
                      [f EXCEPT !.lines = WithLine(Lines(f), e), !.tail = NoEntry]]
    BY DEF EditSave
  <1> HIDE DEF f
  <1>5. PICK g : disk' = [disk EXCEPT ![svcOf[e]] = g] /\ FileBelongs(g, svcOf[e])
    BY <1>1, <1>3, <1>4, AppendedBelongs
  <1> QED BY <1>1, <1>5 DEF TypeOK, FilesFaithful

(* ... nor does an append, complete or cut short.                          *)
LEMMA AppendBelongs ==
  ASSUME TypeOK, HandlesOpen, FilesFaithful,
         NEW w \in Writers, AppendWrite(w) \/ AppendFail(w)
  PROVE  \A s \in Services : disk'[s] # NoFile => FileBelongs(disk'[s], s)
  <1> DEFINE f == disk[svcOf[w]]
  <1>1. w \in Recorders /\ svcOf[w] \in Services
    BY DEF TypeOK, Recorders
  <1>2. CASE disk' = disk
    BY <1>2 DEF FilesFaithful
  <1>3. CASE disk' # disk
    <2>1. /\ wpc[w] = "opened"
          /\ \/ disk' = [disk EXCEPT ![svcOf[w]] = Appended(f, w)]
             \/ disk' = [disk EXCEPT ![svcOf[w]] = [f EXCEPT !.tail = w]]
             \/ \E u \in {f.utf8, FALSE} :
                  disk' = [disk EXCEPT ![svcOf[w]] = [f EXCEPT !.tail = Part, !.utf8 = u]]
      BY <1>1, <1>3 DEF AppendWrite, AppendFail, LineCutShort, TypeOK
    <2>2. f \in File /\ FileBelongs(f, svcOf[w])
      BY <1>1, <2>1 DEF TypeOK, HandlesOpen, FilesFaithful
    <2> HIDE DEF f
    <2>3. PICK g : disk' = [disk EXCEPT ![svcOf[w]] = g] /\ FileBelongs(g, svcOf[w])
      BY <1>1, <2>1, <2>2, AppendedBelongs
    <2> QED BY <1>1, <2>3 DEF TypeOK, FilesFaithful
  <1> QED BY <1>2, <1>3

(* At the start nothing is misplaced ...                                   *)
THEOREM FidelityInit == Init => Fidelity
  BY EmptyFaithful DEF Init, Fidelity, LibrariesFaithful, FilesFaithful

(* ... and no publish, append, reload, compaction or crash misplaces one.  *)
THEOREM FidelityStep == TypeInv /\ Fidelity /\ [Next]_vars => Fidelity'
  <1> SUFFICES ASSUME TypeOK, HandlesOpen, LibrariesFaithful, FilesFaithful, [Next]_vars
               PROVE  Fidelity'
    BY DEF TypeInv, Fidelity
  <1> USE ProcessAssumption, EmptyFaithful
  <1> DEFINE Goal == Fidelity'
  <1> SUFFICES Goal
    BY DEF Goal
  <1> HIDE DEF Goal
  <1> USE DEF LibrariesFaithful, FilesFaithful, Faithful, Belongs, FileBelongs
  <1>1. ASSUME NEW w \in Writers, PublishLoad(w) PROVE Goal
    BY <1>1 DEF Goal, Fidelity, PublishLoad, TypeOK
  <1>2. ASSUME NEW e \in Editors, EditSave(e) PROVE Goal
    <2>1. \A s \in Services : disk'[s] # NoFile => FileBelongs(disk'[s], s)
      BY <1>2, EditBelongs
    <2>2. UNCHANGED <<live, inputVars, wsnap, tmp, loaderVars, requestVars>>
      BY <1>2 DEF EditSave
    <2> QED BY <2>1, <2>2 DEF Goal, Fidelity
  <1>3. ASSUME NEW w \in Writers, PublishStore(w) PROVE Goal
    <2> DEFINE lib == Insert(wsnap[w], svcOf[w], keyOf[w], w)
    <2>1. wsnap[w] \in Library /\ svcOf[w] \in Services /\ keyOf[w] \in Keys
      BY DEF TypeOK, Recorders
    <2>2. Faithful(lib)
      BY <2>1, InsertFaithful
    <2> HIDE DEF lib
    <2>3. /\ live' = lib
          /\ wsnap' = [wsnap EXCEPT ![w] = EmptyLibrary]
          /\ UNCHANGED <<inputVars, fileVars, loaderVars, requestVars>>
      BY <1>3 DEF PublishStore, lib
    <2> QED BY <2>2, <2>3 DEF Goal, Fidelity, TypeOK
  <1>4. ASSUME NEW w \in Writers, AppendOpen(w) PROVE Goal
    <2>1. \A s \in Services : disk'[s] = disk[s] \/ disk'[s] = EmptyFile
      BY <1>4 DEF AppendOpen, TypeOK
    <2>2. UNCHANGED <<live, inputVars, wsnap, tmp, loaderVars, requestVars>>
      BY <1>4 DEF AppendOpen
    <2>3. \A s \in Services : FileBelongs(EmptyFile, s)
      BY NoEntryAssumption DEF EmptyFile, Whole, FileBelongs
    <2> QED BY <2>1, <2>2, <2>3 DEF Goal, Fidelity, FileBelongs
  <1>5. ASSUME NEW w \in Writers, AppendWrite(w) \/ AppendFail(w) PROVE Goal
    <2>1. \A s \in Services : disk'[s] # NoFile => FileBelongs(disk'[s], s)
      BY <1>5, AppendBelongs
    <2>2. UNCHANGED <<live, inputVars, wsnap, tmp, loaderVars, requestVars>>
      BY <1>5 DEF AppendWrite, AppendFail
    <2> QED BY <2>1, <2>2 DEF Goal, Fidelity
  <1>7. ASSUME NEW l \in FullLoaders, ReloadFull(l) PROVE Goal
    BY <1>7 DEF Goal, Fidelity, ReloadFull, StartLoad, FullLoaders, TypeOK
  <1>8. ASSUME NEW s \in Services, ReloadOneFile(s) PROVE Goal
    BY <1>8 DEF Goal, Fidelity, ReloadOneFile, StartLoad, TypeOK
  <1>9. CASE BootLoad
    BY <1>9 DEF Goal, Fidelity, BootLoad, StartLoad, TypeOK
  <1>10. ASSUME NEW l \in Loaders, NEW s \in Services, ReadSegment(l, s) PROVE Goal
    <2> DEFINE f == Parsed(disk[s])
    <2> DEFINE lib == SetSegment(lacc[l], s, f)
    <2>1. Belongs(f, s)
      BY ParsedBelongs
    <2>2. Faithful(lib)
      <3>1. lacc[l] \in Library /\ Faithful(lacc[l])
        BY DEF TypeOK
      <3> QED BY <2>1, <3>1, SetSegmentFaithful
    <2> HIDE DEF f, lib
    <2>3. /\ lacc' = [lacc EXCEPT ![l] = lib]
          /\ UNCHANGED <<live, inputVars, wsnap, fileVars, requestVars>>
          /\ \/ UNCHANGED <<lpc, lsvc, lparsed>>
             \/ /\ lpc' = [lpc EXCEPT ![l] = "trunc"]
                /\ lsvc' = [lsvc EXCEPT ![l] = s]
                /\ lparsed' = [lparsed EXCEPT ![l] = f]
      BY <1>10 DEF ReadSegment, lib, f
    <2>4. LibrariesFaithful'
      BY <2>2, <2>3 DEF TypeOK
    <2>5. FilesFaithful'
      <3>1. \A m \in Loaders : lpc'[m] \in {"trunc", "write", "rename"}
                              => Belongs(lparsed'[m], lsvc'[m])
        BY <2>1, <2>3 DEF TypeOK
      <3> QED BY <2>3, <3>1
    <2> QED BY <2>4, <2>5 DEF Goal, Fidelity
  <1>27. ASSUME NEW l \in Loaders, NEW s \in Services, ReadSegmentFail(l, s) PROVE Goal
    <2> DEFINE lib == SetSegment(lacc[l], s, EmptySegment)
    <2>1. Faithful(lib)
      <3>1. lacc[l] \in Library /\ Faithful(lacc[l]) /\ Belongs(EmptySegment, s)
        BY DEF TypeOK
      <3> QED BY <3>1, SetSegmentFaithful
    <2> HIDE DEF lib
    <2>2. /\ lacc' = [lacc EXCEPT ![l] = lib]
          /\ UNCHANGED <<live, inputVars, wsnap, fileVars, lpc, lsvc, lparsed, requestVars>>
      BY <1>27 DEF ReadSegmentFail, lib
    <2> QED BY <2>1, <2>2 DEF Goal, Fidelity, TypeOK
  <1>11. ASSUME NEW l \in Loaders, TruncateTmp(l) PROVE Goal
    <2>1. \A s \in Services : tmp'[s] = tmp[s] \/ tmp'[s] = EmptyFile
      BY <1>11 DEF TruncateTmp, TypeOK
    <2>2. \A s \in Services : FileBelongs(EmptyFile, s)
      BY NoEntryAssumption DEF EmptyFile, Whole, FileBelongs
    <2>3. \A m \in Loaders : lpc'[m] \in {"trunc", "write", "rename"}
                             => lpc[m] \in {"trunc", "write", "rename"}
      BY <1>11 DEF TruncateTmp, TypeOK
    <2>4. UNCHANGED <<live, inputVars, wsnap, disk, lacc, lsvc, lparsed, requestVars>>
      BY <1>11 DEF TruncateTmp
    <2> QED BY <2>1, <2>2, <2>3, <2>4 DEF Goal, Fidelity, FileBelongs
  <1>12. ASSUME NEW l \in Loaders, WriteTmp(l) \/ WriteTmpFail(l) PROVE Goal
    <2>1. UNCHANGED <<live, inputVars, writerVars, lacc, requestVars>>
      BY <1>12 DEF WriteTmp, WriteTmpFail
    <2>2. \A m \in Loaders : lpc'[m] \in {"trunc", "write", "rename"}
            => /\ lpc[m] \in {"trunc", "write", "rename"}
               /\ lsvc'[m] = lsvc[m] /\ lparsed'[m] = lparsed[m]
      BY <1>12 DEF WriteTmp, WriteTmpFail, DropFile, TypeOK
    <2>3. /\ \A s \in Services : disk'[s] # NoFile => FileBelongs(disk'[s], s)
          /\ \A s \in Services : tmp'[s] # NoFile => FileBelongs(tmp'[s], s)
      BY <1>12, HandleBelongs
    <2> QED BY <2>1, <2>2, <2>3 DEF Goal, Fidelity, FileBelongs
  <1>14. ASSUME NEW l \in Loaders, RenameTmp(l) PROVE Goal
    <2>1. /\ lpc' = [lpc EXCEPT ![l] = "scan"]
          /\ lsvc' = [lsvc EXCEPT ![l] = NoService]
          /\ lparsed' = [lparsed EXCEPT ![l] = EmptySegment]
          /\ UNCHANGED <<live, inputVars, wsnap, lacc, requestVars>>
      BY <1>14 DEF RenameTmp, DropFile
    <2>2. LibrariesFaithful'
      BY <2>1
    <2>3. \A s \in Services : /\ disk'[s] \in {disk[s], tmp[s]}
                             /\ tmp'[s] \in {tmp[s], NoFile}
      BY <1>14 DEF RenameTmp, TypeOK
    <2>4. FilesFaithful'
      <3>1. \A m \in Loaders : lpc'[m] \in {"trunc", "write", "rename"}
              => lpc'[m] = lpc[m] /\ lsvc'[m] = lsvc[m] /\ lparsed'[m] = lparsed[m]
        BY <2>1 DEF TypeOK
      <3> QED BY <2>1, <2>3, <3>1
    <2> QED BY <2>2, <2>4 DEF Goal, Fidelity
  <1>15. ASSUME NEW l \in Loaders, PublishLoaded(l) PROVE Goal
    BY <1>15 DEF Goal, Fidelity, PublishLoaded, TypeOK
  <1>16. ASSUME NEW l \in FullLoaders, AbandonReload(l) PROVE Goal
    BY <1>16 DEF Goal, Fidelity, AbandonReload, FullLoaders, TypeOK
  <1>17. CASE Debounce
    BY <1>17 DEF Goal, Fidelity, Debounce
  <1>18. ASSUME NEW r \in Requests, BeginRequest(r) PROVE Goal
    BY <1>18 DEF Goal, Fidelity, BeginRequest, TypeOK
  <1>19. ASSUME NEW r \in Requests, NEW a, Answer(r, a) PROVE Goal
    BY <1>19 DEF Goal, Fidelity, Answer, TypeOK
  <1>20. ASSUME NEW r \in Requests, RequestStep(r) PROVE Goal
    <2>1. CASE ExactMiss(r)
      BY <2>1 DEF Goal, Fidelity, ExactMiss
    <2> QED BY <1>19, <1>20, <2>1 DEF RequestStep, ExactHit, SwapHit, TotalMiss
  <1>21. CASE Crash
    BY <1>21 DEF Goal, Fidelity, Crash
  <1>22. CASE UNCHANGED vars
    BY <1>22 DEF Goal, Fidelity
  <1>23. CASE Start
    BY <1>23, <1>1, <1>7, <1>2, <1>18 DEF Start
  <1>24. CASE Progress
    BY <1>24, <1>3, <1>4, <1>5, <1>8, <1>9, <1>10, <1>11, <1>12, <1>14,
       <1>15, <1>17, <1>20, <1>27
       DEF Progress, WriterStep, LoaderStep
  <1>25. CASE Cut
    BY <1>25, <1>16, <1>21 DEF Cut
  <1> QED BY <1>22, <1>23, <1>24, <1>25 DEF Next

(* Every answer is an entry of the request's own service and tenant.       *)
THEOREM IsolationStep ==
  TypeInv /\ Fidelity /\ TenantIsolation /\ [Next]_vars => TenantIsolation'
  <1> SUFFICES ASSUME TypeOK, Fidelity, TenantIsolation, [Next]_vars
               PROVE  TenantIsolation'
    BY DEF TypeInv
  <1> USE ProcessAssumption
  <1>1. UNCHANGED inputVars
    BY DEF Next, Start, Progress, Cut, WriterStep, LoaderStep, RequestStep, PublishLoad,
           EditSave, ReloadFull, StartLoad, BeginRequest, PublishStore, AppendOpen,
           AppendWrite, AppendFail, ReloadOneFile, BootLoad, ReadSegment, ReadSegmentFail,
           TruncateTmp, WriteTmp, WriteTmpFail, RenameTmp, PublishLoaded, AbandonReload,
           Debounce,
           Answer, ExactHit, ExactMiss, SwapHit, TotalMiss, Crash
  <1>2. ASSUME NEW r \in Requests, NEW a, Answer(r, a),
               a \in Entries => /\ svcOf[a] = svcOf[r]
                               /\ TenantOf[keyOf[a]] = TenantOf[keyOf[r]]
        PROVE  TenantIsolation'
    BY <1>2 DEF Answer, TenantIsolation, TypeOK
  <1>3. ASSUME NEW r \in Requests, ExactHit(r) PROVE TenantIsolation'
    <2> DEFINE e == rsnap[r][svcOf[r]][keyOf[r]]
    <2>1. Answer(r, e) /\ e # NoEntry
      BY <1>3 DEF ExactHit, FindExact
    <2>2. svcOf[e] = svcOf[r] /\ keyOf[e] = keyOf[r]
      BY <2>1 DEF TypeOK, Fidelity, LibrariesFaithful, Faithful, Belongs
    <2> QED BY <1>2, <2>1, <2>2
  <1>4. ASSUME NEW r \in Requests, SwapHit(r) PROVE TenantIsolation'
    <2>1. PICK e \in SwapCandidates(rsnap[r], svcOf[r], keyOf[r]) : Answer(r, e)
      BY <1>4 DEF SwapHit
    <2>2. PICK k \in Keys : /\ e = rsnap[r][svcOf[r]][k] /\ e # NoEntry
                            /\ TenantOf[k] = TenantOf[keyOf[r]]
      BY <2>1 DEF SwapCandidates
    <2>3. svcOf[e] = svcOf[r] /\ keyOf[e] = k
      BY <2>2 DEF TypeOK, Fidelity, LibrariesFaithful, Faithful, Belongs
    <2> QED BY <1>2, <2>1, <2>2, <2>3
  <1>5. ASSUME NEW r \in Requests, TotalMiss(r) PROVE TenantIsolation'
    BY <1>2, <1>5 DEF TotalMiss
  <1>6. CASE UNCHANGED resp
    BY <1>1, <1>6 DEF TenantIsolation
  <1>7. UNCHANGED resp \/ \E r \in Requests : ExactHit(r) \/ SwapHit(r) \/ TotalMiss(r)
    BY DEF Next, Start, Progress, Cut, WriterStep, LoaderStep, RequestStep, PublishLoad,
           EditSave, ReloadFull, StartLoad, BeginRequest, PublishStore, AppendOpen,
           AppendWrite, AppendFail, ReloadOneFile, BootLoad, ReadSegment, ReadSegmentFail,
           TruncateTmp, WriteTmp, WriteTmpFail, RenameTmp, PublishLoaded, AbandonReload,
           Debounce,
           ExactMiss, Crash
  <1> QED BY <1>3, <1>4, <1>5, <1>6, <1>7

(* Per-test isolation: whatever reloads, compactions, write failures and   *)
(* crashes come in between, a request is answered with an entry recorded   *)
(* for its service under its tenant.                                       *)
THEOREM Isolation == Spec => []TenantIsolation
  <1>1. Init => TypeInv /\ Fidelity /\ TenantIsolation
    <2>1. Init => TenantIsolation
      BY ProcessAssumption DEF Init, TenantIsolation
    <2> QED BY <2>1, TypeInit, FidelityInit
  <1>2. TypeInv /\ Fidelity /\ TenantIsolation /\ [Next]_vars
        => TypeInv' /\ Fidelity' /\ TenantIsolation'
    BY TypeStep, FidelityStep, IsolationStep
  <1> QED BY <1>1, <1>2, PTL DEF Spec

-----------------------------------------------------------------------------
(***************************************************************************)
(* Refinement: every step is a step of SnapshotServing or leaves what it   *)
(* speaks of unchanged.                                                    *)
(***************************************************************************)
Asked  == [r \in Requests |-> <<svcOf[r], keyOf[r]>>]
Status == [r \in Requests |->
             IF rpc[r] \in {"exact", "swap"} THEN "open" ELSE rpc[r]]

(* The promise and the store speak of the same libraries.                  *)
LEMMA SameLibraries == Serving!EmptyLibrary = EmptyLibrary /\ Serving!Library = Library
  BY DEF Serving!EmptyLibrary, EmptyLibrary, Serving!EmptySegment, EmptySegment,
         Serving!Library, Library, Serving!Segment, Segment

(* The initial states of the store are initial states of the promise.      *)
THEOREM ServingInit == Init => Serving!Init
  <1> SUFFICES ASSUME Init PROVE Serving!Init
    OBVIOUS
  <1>1. Asked \in [Requests -> Services \X Keys]
    BY DEF Init, Asked
  <1>2. Status = [r \in Requests |-> "idle"]
    BY DEF Init, Status
  <1> QED BY <1>1, <1>2, SameLibraries DEF Init, Serving!Init, Asked, Status

(* Every step of the store is a step of the promise, or a stutter.         *)
THEOREM ServingStep ==
  TypeInv /\ TypeInv' /\ [Next]_vars => [Serving!Next]_Serving!vars
  <1> SUFFICES ASSUME TypeOK, TypeOK', [Next]_vars
               PROVE  Serving!Next \/ UNCHANGED Serving!vars
    BY DEF TypeInv
  <1> USE ProcessAssumption
  <1>1. CASE UNCHANGED <<live, inputVars, requestVars>>
    BY <1>1 DEF Serving!vars
  <1>2. CASE UNCHANGED <<inputVars, requestVars>>
    <2>1. live' \in Library
      BY DEF TypeOK
    <2>2. Serving!Publish
      BY <1>2, <2>1, SameLibraries DEF Serving!Publish
    <2> QED BY <2>2 DEF Serving!Next
  <1>3. ASSUME NEW r \in Requests, BeginRequest(r) PROVE Serving!Next
    <2>1. Status[r] = "idle" /\ Status' = [Status EXCEPT ![r] = "open"]
      <3>1. rpc[r] = "idle" /\ rpc' = [rpc EXCEPT ![r] = "exact"]
        BY <1>3 DEF BeginRequest
      <3> QED BY <3>1 DEF Status, TypeOK
    <2>2. Serving!Begin(r)
      BY <1>3, <2>1 DEF BeginRequest, Serving!Begin, Status
    <2> QED BY <2>2 DEF Serving!Next
  <1>4. ASSUME NEW r \in Requests, NEW a \in Serving!Answers(rsnap[r], r), Answer(r, a),
               rpc[r] \in {"exact", "swap"}
        PROVE  Serving!Next
    <2>1. Status[r] = "open" /\ Status' = [Status EXCEPT ![r] = "done"]
      <3>1. rpc[r] \in {"exact", "swap"} /\ rpc' = [rpc EXCEPT ![r] = "done"]
        BY <1>4 DEF Answer
      <3> QED BY <3>1 DEF Status, TypeOK
    <2>2. Serving!Reply(r)
      BY <1>4, <2>1, SameLibraries DEF Answer, Serving!Reply, Status
    <2> QED BY <2>2 DEF Serving!Next
  <1>5. ASSUME NEW r \in Requests, RequestStep(r)
        PROVE  Serving!Next \/ UNCHANGED Serving!vars
    <2>0. Asked[r][1] = svcOf[r] /\ Asked[r][2] = keyOf[r]
      BY DEF Asked
    <2>1. CASE ExactHit(r)
      <3>1. FindExact(rsnap[r], svcOf[r], keyOf[r]) \in Serving!Answers(rsnap[r], r)
        BY <2>0, <2>1 DEF ExactHit, Serving!Answers, Serving!FindExact, FindExact, Asked
      <3> QED BY <1>4, <2>1, <3>1 DEF ExactHit
    <2>2. CASE SwapHit(r)
      <3>1. PICK e \in SwapCandidates(rsnap[r], svcOf[r], keyOf[r]) : Answer(r, e)
        BY <2>2 DEF SwapHit
      <3>2. e \in Serving!Answers(rsnap[r], r)
        BY <2>0, <3>1
           DEF Serving!Answers, Serving!SwapCandidates, SwapCandidates, Asked
      <3> QED BY <1>4, <2>2, <3>1, <3>2 DEF SwapHit
    <2>3. CASE TotalMiss(r)
      <3>1. NoMock \in Serving!Answers(rsnap[r], r)
        BY DEF Serving!Answers
      <3> QED BY <1>4, <2>3, <3>1 DEF TotalMiss
    <2>4. CASE ExactMiss(r)
      <3>1. Status' = Status
        BY <2>4 DEF ExactMiss, Status, TypeOK
      <3> QED BY <2>4, <3>1 DEF ExactMiss, Serving!vars, Status
    <2> QED BY <1>5, <2>1, <2>2, <2>3, <2>4 DEF RequestStep
  <1>6. CASE Crash
    <2>1. Status' = [r \in Requests |-> IF Status[r] = "open" THEN "done" ELSE Status[r]]
      BY <1>6 DEF Crash, Status, TypeOK
    <2>2. Serving!Halt
      BY <1>6, <2>1, SameLibraries DEF Crash, Serving!Halt, Status
    <2> QED BY <2>2 DEF Serving!Next
  <1>7. CASE Start
    <2>1. (\E r \in Requests : BeginRequest(r)) \/ UNCHANGED <<inputVars, requestVars>>
      BY <1>7 DEF Start, PublishLoad, EditSave, ReloadFull, StartLoad
    <2> QED BY <1>2, <1>3, <2>1
  <1>8. CASE Progress
    <2>1. ASSUME NEW w \in Writers, WriterStep(w) PROVE UNCHANGED <<inputVars, requestVars>>
      BY <2>1 DEF WriterStep, PublishStore, AppendOpen, AppendWrite, AppendFail
    <2>2. ASSUME NEW l \in Loaders, LoaderStep(l) PROVE UNCHANGED <<inputVars, requestVars>>
      BY <2>2 DEF LoaderStep, ReadSegment, ReadSegmentFail, TruncateTmp, WriteTmp,
                  WriteTmpFail, RenameTmp, PublishLoaded
    <2>3. (\E r \in Requests : RequestStep(r)) \/ UNCHANGED <<inputVars, requestVars>>
      BY <1>8, <2>1, <2>2 DEF Progress, ReloadOneFile, StartLoad, BootLoad, Debounce
    <2> QED BY <1>2, <1>5, <2>3
  <1>9. CASE Cut
    BY <1>2, <1>6, <1>9 DEF Cut, AbandonReload
  <1>10. CASE UNCHANGED vars
    BY <1>1, <1>10
  <1> QED BY <1>7, <1>8, <1>9, <1>10 DEF Next

(* The store keeps the promise of SnapshotServing: a request under way is  *)
(* answered from the library that was published when it started.           *)
THEOREM StoreServesSnapshots == Spec => ServesSnapshot
  <1>1. Init => TypeInv /\ Serving!Init
    BY TypeInit, ServingInit
  <1>2. TypeInv /\ [Next]_vars => TypeInv'
    BY TypeStep
  <1>3. TypeInv /\ TypeInv' /\ [Next]_vars => [Serving!Next]_Serving!vars
    BY ServingStep
  <1> QED BY <1>1, <1>2, <1>3, PTL DEF Spec, ServesSnapshot, Serving!Spec

-----------------------------------------------------------------------------
(***************************************************************************)
(* Durability: what keeps a line in its file while loaders compact it.     *)
(***************************************************************************)
(* seg has the lines that reached the file of s outside a compaction and   *)
(* stand alone, but for the spared ones, or later ones for their keys.     *)
Keeps(seg, s, spared) ==
  \A i \in 1..Len(landed) :
    landed[i] \notin raced \cup joined \cup spared /\ svcOf[landed[i]] = s
      => seg[keyOf[landed[i]]] \in { landed[j] : j \in i..Len(landed) }

(* An entry that ends the file of s is the last that reached it.           *)
TailLast(t, s) ==
  t \in Entries => \E j \in 1..Len(landed) :
    landed[j] = t /\ \A k \in j + 1 .. Len(landed) : svcOf[landed[k]] # s

(* A line that has no newline yet may still be spoiled: the whole ones     *)
(* keep what they have to keep without it.                                 *)
FileKeeps(f, s) == Keeps(f.lines, s, {f.tail}) /\ TailLast(f.tail, s)

(* They will after a step.                                                 *)
Keeping(seg, s, spared) ==
  \A i \in 1..Len(landed') :
    landed'[i] \notin raced' \cup joined' \cup spared /\ svcOf'[landed'[i]] = s
      => seg[keyOf'[landed'[i]]] \in { landed'[j] : j \in i..Len(landed') }

TailLasting(t, s) ==
  t \in Entries => \E j \in 1..Len(landed') :
    landed'[j] = t /\ \A k \in j + 1 .. Len(landed') : svcOf'[landed'[k]] # s

FileKeeping(f, s) == Keeping(f.lines, s, {f.tail}) /\ TailLasting(f.tail, s)

Present(f) == IF f = NoFile THEN EmptyFile ELSE f

(* So it is in every mock file, and in what a loader parsed from one; the  *)
(* loader's handle is on a tmp file that is empty before its write and     *)
(* holds what it parsed after it.                                          *)
DurableInv ==
  /\ \A s \in Services : FileKeeps(Present(disk[s]), s)
  /\ \A l \in Loaders :
       /\ lpc[l] \in {"trunc", "write", "rename"} => Keeps(lparsed[l], lsvc[l], {})
       /\ lpc[l] = "write" => lfd[l] = "tmp" /\ tmp[lsvc[l]] = EmptyFile
       /\ lpc[l] = "rename" => tmp[lsvc[l]] = Whole(lparsed[l])

(* A file, or the empty one in place of none, with the same lines.         *)
LEMMA PresentType ==
  ASSUME NEW f \in File \cup {NoFile}
  PROVE  Present(f) \in File /\ Lines(Present(f)) = Lines(f)
  <1>1. CASE f = NoFile
    BY <1>1, EmptyTypes, FileExists, NoEntryAssumption DEF Present, Lines, EmptyFile, Whole
  <1>2. CASE f # NoFile
    BY <1>2 DEF Present
  <1> QED BY <1>1, <1>2

(* What lines up to now and the one at the end keep, all of them keep: the *)
(* last one is later than any it stands for.                               *)
LEMMA LinesKeep ==
  ASSUME TypeOK, NEW f \in File, NEW s, FileKeeps(f, s)
  PROVE  Keeps(Lines(f), s, {})
  <1> SUFFICES ASSUME NEW i \in 1..Len(landed),
                      landed[i] \notin raced \cup joined, svcOf[landed[i]] = s
               PROVE  \E k \in i..Len(landed) : Lines(f)[keyOf[landed[i]]] = landed[k]
    BY DEF Keeps
  <1>1. landed \in Seq(Recorders) /\ Len(landed) \in Nat
    BY DEF TypeOK
  <1>2. landed[i] \in Recorders /\ keyOf[landed[i]] \in Keys /\ f.lines \in Segment /\ f # NoFile
    BY <1>1, FileExists DEF TypeOK, File
  <1>3. landed[i] # f.tail
        => \E k \in i..Len(landed) : f.lines[keyOf[landed[i]]] = landed[k]
    BY DEF FileKeeps, Keeps
  <1>4. CASE f.tail \notin Entries
    <2>1. landed[i] # f.tail /\ Lines(f) = f.lines
      BY <1>2, <1>4, ProcessAssumption DEF Lines
    <2> QED BY <1>3, <2>1
  <1>5. CASE f.tail \in Entries
    <2>1. PICK j \in 1..Len(landed) :
            landed[j] = f.tail /\ \A k \in j + 1 .. Len(landed) : svcOf[landed[k]] # s
      BY <1>5 DEF FileKeeps, TailLast
    <2>2. i \in 1..j /\ j \in i..Len(landed)
      BY <1>1, <2>1
    <2>3. Lines(f) = WithLine(f.lines, f.tail)
      BY <1>2, <1>5 DEF Lines
    <2>4. CASE keyOf[landed[i]] = keyOf[f.tail]
      <3>1. Lines(f)[keyOf[landed[i]]] = f.tail
        BY <1>2, <2>3, <2>4 DEF WithLine, Segment
      <3> QED BY <2>1, <2>2, <3>1
    <2>5. CASE keyOf[landed[i]] # keyOf[f.tail]
      <3>1. Lines(f)[keyOf[landed[i]]] = f.lines[keyOf[landed[i]]] /\ landed[i] # f.tail
        BY <1>2, <2>3, <2>5 DEF WithLine, Segment
      <3> QED BY <1>3, <3>1
    <2> QED BY <2>4, <2>5
  <1> QED BY <1>4, <1>5

(* A file that parses to the invariant has the property.                   *)
LEMMA DurableFollows == TypeOK /\ DurableInv => DurableOnceWhole
  <1> SUFFICES ASSUME TypeOK, DurableInv PROVE DurableOnceWhole
    OBVIOUS
  <1>1. landed \in Seq(Recorders) /\ DOMAIN landed = 1..Len(landed)
    BY DEF TypeOK
  <1>2. \A i \in 1..Len(landed) : svcOf[landed[i]] \in Services
    BY <1>1 DEF TypeOK
  <1>3. ASSUME NEW s \in Services PROVE Keeps(Lines(disk[s]), s, {})
    <2>1. disk[s] \in File \cup {NoFile} /\ FileKeeps(Present(disk[s]), s)
      BY DEF TypeOK, DurableInv
    <2>2. Present(disk[s]) \in File /\ Lines(Present(disk[s])) = Lines(disk[s])
      BY <2>1, PresentType
    <2> QED BY <2>1, <2>2, LinesKeep
  <1> QED BY <1>1, <1>2, <1>3 DEF Keeps, DurableOnceWhole

(* A line more in the log of lines: a segment that has it, or that needs   *)
(* not have it, keeps what it kept.                                        *)
LEMMA LineKept ==
  ASSUME TypeOK, UNCHANGED inputVars,
         NEW w \in Recorders, landed' = Append(landed, w),
         raced \subseteq raced', joined \subseteq joined',
         NEW s \in Services, NEW f, NEW g, NEW spared, NEW free, Keeps(f, s, spared),
         spared \cap Recorders \subseteq raced' \cup joined' \cup free,
         \/ /\ g = f
            /\ svcOf[w] = s => w \in raced' \cup joined' \cup free
         \/ /\ f \in Segment /\ svcOf[w] = s
            /\ g = WithLine(f, w)
  PROVE  Keeping(g, s, free)
  <1>1. landed \in Seq(Recorders) /\ Len(landed) \in Nat
    BY DEF TypeOK
  <1>2. /\ Len(landed') = Len(landed) + 1
        /\ landed'[Len(landed')] = w
        /\ \A i \in 1..Len(landed) : landed'[i] = landed[i] /\ landed[i] \in Recorders
    BY <1>1
  <1>3. UNCHANGED <<svcOf, keyOf>>
    OBVIOUS
  <1> SUFFICES ASSUME NEW i \in 1..Len(landed'),
                      landed'[i] \notin raced' \cup joined' \cup free, svcOf[landed'[i]] = s
               PROVE  \E j \in i..Len(landed') : g[keyOf[landed'[i]]] = landed'[j]
    BY <1>3 DEF Keeping
  <1>4. CASE i = Len(landed')
    <2>1. g = WithLine(f, w) /\ f \in Segment
      BY <1>2, <1>4
    <2>2. keyOf[w] \in Keys
      BY DEF TypeOK
    <2>3. g[keyOf[w]] = w
      BY <2>1, <2>2 DEF Segment, WithLine
    <2> QED BY <1>1, <1>2, <1>4, <2>3
  <1>5. CASE i \in 1..Len(landed)
    <2>0. landed[i] \notin raced \cup joined \cup spared /\ svcOf[landed[i]] = s
      BY <1>2, <1>5
    <2>1. PICK j \in i..Len(landed) : f[keyOf[landed[i]]] = landed[j]
      BY <1>5, <2>0 DEF Keeps
    <2>2. j \in 1..Len(landed) /\ j \in i..Len(landed') /\ Len(landed') \in i..Len(landed')
      BY <1>1, <1>2, <1>5
    <2>3. keyOf[landed[i]] \in Keys
      BY <1>2, <1>5 DEF TypeOK
    <2>4. g[keyOf[landed[i]]] \in {f[keyOf[landed[i]]], w}
      BY <2>3 DEF Segment, WithLine
    <2> QED BY <1>2, <1>5, <2>1, <2>2, <2>4
  <1> QED BY <1>1, <1>2, <1>4, <1>5

(* Lines that are spoiled need no more be kept.                            *)
LEMMA SpoiledSpared ==
  ASSUME TypeOK, UNCHANGED <<inputVars, landed, raced>>, joined \subseteq joined',
         NEW s, NEW f, NEW spared, NEW free, Keeps(f, s, spared),
         spared \cap Recorders \subseteq joined' \cup free
  PROVE  Keeping(f, s, free)
  <1>1. \A i \in 1..Len(landed) : landed[i] \in Recorders
    BY DEF TypeOK
  <1> QED BY <1>1 DEF Keeps, Keeping

(* An entry at the end of one file stays its last while others grow.       *)
LEMMA TailStays ==
  ASSUME TypeOK, UNCHANGED inputVars, NEW w \in Recorders, landed' = Append(landed, w),
         NEW s, NEW t, TailLast(t, s), svcOf[w] # s
  PROVE  TailLasting(t, s)
  <1>1. landed \in Seq(Recorders) /\ Len(landed) \in Nat
    BY DEF TypeOK
  <1>2. /\ Len(landed') = Len(landed) + 1
        /\ landed'[Len(landed')] = w
        /\ \A i \in 1..Len(landed) : landed'[i] = landed[i]
    BY <1>1
  <1> SUFFICES ASSUME t \in Entries PROVE TailLasting(t, s)
    BY DEF TailLasting
  <1>3. PICK j \in 1..Len(landed) :
          landed[j] = t /\ \A k \in j + 1 .. Len(landed) : svcOf[landed[k]] # s
    BY DEF TailLast
  <1>4. j \in 1..Len(landed') /\ landed'[j] = t
    BY <1>1, <1>2, <1>3
  <1>5. ASSUME NEW k \in j + 1 .. Len(landed') PROVE svcOf'[landed'[k]] # s
    <2>1. k \in j + 1 .. Len(landed) \/ k = Len(landed')
      BY <1>1, <1>2, <1>3
    <2>2. k \in j + 1 .. Len(landed) => k \in 1..Len(landed)
      BY <1>1, <1>3
    <2> QED BY <1>2, <1>3, <2>1, <2>2
  <1> QED BY <1>4, <1>5 DEF TailLasting

(* A line that is appended, saved by hand, or written but for its newline, *)
(* lets its file keep what it has to keep.                                 *)
LEMMA LandingKeeps ==
  ASSUME TypeOK, UNCHANGED inputVars,
         NEW w \in Recorders, landed' = Append(landed, w),
         raced \subseteq raced', joined \subseteq joined',
         NEW f \in File, FileKeeps(f, svcOf[w]), NEW g,
         \/ g = Appended(f, w) /\ joined' = joined \cup JoinedBy(f, w)
         \/ g = [f EXCEPT !.lines = WithLine(Lines(f), w), !.tail = NoEntry]
         \/ f.tail = NoEntry /\ g = [f EXCEPT !.tail = w]
  PROVE  FileKeeping(g, svcOf[w])
  <1> DEFINE s == svcOf[w]
  <1>1. /\ s \in Services /\ f.lines \in Segment /\ Lines(f) \in Segment
        /\ Entries = Recorders /\ NoEntry \notin Entries /\ Part \notin Entries
    BY ParsedType, ProcessAssumption, NoEntryAssumption DEF TypeOK, File
  <1>2. Keeps(f.lines, s, {f.tail}) /\ Keeps(Lines(f), s, {})
    BY LinesKeep DEF FileKeeps
  <1>3. TailLasting(NoEntry, s)
    BY <1>1 DEF TailLasting
  <1> HIDE DEF Segment
  <1>4. CASE f.tail = NoEntry /\ g = [f EXCEPT !.lines = WithLine(@, w)]
    <2>1. Keeping(WithLine(f.lines, w), s, {NoEntry})
      BY <1>1, <1>2, <1>4, LineKept
    <2>2. g.lines = WithLine(f.lines, w) /\ g.tail = NoEntry
      BY <1>4 DEF File
    <2> QED BY <1>3, <2>1, <2>2 DEF FileKeeping
  <1>5. CASE f.tail # NoEntry /\ g = [f EXCEPT !.tail = NoEntry]
             /\ joined' = joined \cup JoinedBy(f, w)
    <2>1. w \in joined' /\ {f.tail} \cap Recorders \subseteq joined'
      BY <1>1, <1>5 DEF JoinedBy
    <2>2. Keeping(f.lines, s, {NoEntry})
      BY <1>1, <1>2, <2>1, LineKept
    <2>3. g.lines = f.lines /\ g.tail = NoEntry
      BY <1>5 DEF File
    <2> QED BY <1>3, <2>2, <2>3 DEF FileKeeping
  <1>6. CASE g = [f EXCEPT !.lines = WithLine(Lines(f), w), !.tail = NoEntry]
    <2>1. Keeping(WithLine(Lines(f), w), s, {NoEntry})
      BY <1>1, <1>2, LineKept
    <2>2. g.lines = WithLine(Lines(f), w) /\ g.tail = NoEntry
      BY <1>6 DEF File
    <2> QED BY <1>3, <2>1, <2>2 DEF FileKeeping
  <1>7. CASE f.tail = NoEntry /\ g = [f EXCEPT !.tail = w]
    <2>1. Keeping(f.lines, s, {w})
      BY <1>1, <1>2, <1>7, LineKept
    <2>2. g.lines = f.lines /\ g.tail = w
      BY <1>7 DEF File
    <2>3. TailLasting(w, s)
      <3>1. landed \in Seq(Recorders) /\ Len(landed) \in Nat
        BY DEF TypeOK
      <3>2. Len(landed') = Len(landed) + 1 /\ landed'[Len(landed')] = w
        BY <3>1
      <3>3. Len(landed') \in 1..Len(landed')
            /\ \A k \in Len(landed') + 1 .. Len(landed') : FALSE
        BY <3>1, <3>2
      <3> QED BY <3>2, <3>3 DEF TailLasting
    <2> QED BY <2>1, <2>2, <2>3 DEF FileKeeping
  <1> QED BY <1>4, <1>5, <1>6, <1>7 DEF Appended

(* The mock files are empty at the start.                                  *)
THEOREM DurableInit == Init => DurableInv
  BY NoEntryAssumption
     DEF Init, DurableInv, FileKeeps, Keeps, TailLast, Present, EmptyFile, Whole

(* While reloads do not overlap, no step takes from a file what it has     *)
(* to keep.                                                                *)
THEOREM DurableStep ==
  TypeInv /\ TypeInv' /\ ReloadsApart /\ DurableInv /\ [Next]_vars => DurableInv'
  <1> SUFFICES ASSUME TypeOK, HandlesOpen, TypeOK', HandlesOpen', ReloadsApart, DurableInv,
                      [Next]_vars
               PROVE  DurableInv'
    BY DEF TypeInv
  <1> USE ProcessAssumption, EmptyTypes
  <1> DEFINE Goal == DurableInv'
  <1> SUFFICES Goal
    BY DEF Goal
  <1> HIDE DEF Goal
  <1>1. CASE UNCHANGED <<inputVars, fileVars, lpc, lsvc, lparsed, lfd>>
    BY <1>1 DEF Goal, DurableInv, FileKeeps, Keeps, TailLast
  (* A line reaches the mock file of its service, which becomes g.         *)
  <1>2. ASSUME NEW w \in Recorders, NEW g \in File, FileKeeping(g, svcOf[w]),
               disk' = [disk EXCEPT ![svcOf[w]] = g],
               Reached(w, svcOf[w]), joined \subseteq joined',
               UNCHANGED <<inputVars, tmp, loaderVars>>
        PROVE  Goal
    <2>1. svcOf[w] \in Services
      BY DEF TypeOK
    <2>2. /\ raced \subseteq raced' /\ UNCHANGED inputVars
          /\ landed' = Append(landed, w)
          /\ Compacting(svcOf[w]) => w \in raced'
      BY <1>2 DEF Reached
    <2>3. ASSUME NEW s \in Services PROVE FileKeeping(Present(disk'[s]), s)
      <3>1. CASE s = svcOf[w]
        <4>1. Present(disk'[s]) = g
          BY <1>2, <3>1, FileExists DEF Present, TypeOK
        <4> QED BY <1>2, <3>1, <4>1
      <3>2. CASE s # svcOf[w]
        <4> DEFINE f == Present(disk[s])
        <4>1. Present(disk'[s]) = f
          BY <1>2, <3>2 DEF TypeOK
        <4>2. Keeps(f.lines, s, {f.tail}) /\ TailLast(f.tail, s)
          BY DEF DurableInv, FileKeeps
        <4> HIDE DEF f
        <4>3. Keeping(f.lines, s, {f.tail})
          BY <1>2, <2>2, <3>2, <4>2, LineKept
        <4>4. TailLasting(f.tail, s)
          BY <2>2, <3>2, <4>2, TailStays
        <4> QED BY <4>1, <4>3, <4>4 DEF FileKeeping
      <3> QED BY <3>1, <3>2
    <2>4. ASSUME NEW l \in Loaders, lpc[l] \in {"trunc", "write", "rename"}
          PROVE  Keeping(lparsed[l], lsvc[l], {})
      <3>1. lsvc[l] \in Services /\ Keeps(lparsed[l], lsvc[l], {})
        BY <2>4 DEF HandlesOpen, DurableInv
      <3>2. svcOf[w] = lsvc[l] => w \in raced'
        BY <2>2, <2>4 DEF Compacting
      <3> QED BY <1>2, <2>2, <3>1, <3>2, LineKept
    <2>5. UNCHANGED <<lpc, lsvc, lparsed, lfd, tmp>>
      BY <1>2
    <2>6. \A s \in Services : FileKeeps(Present(disk[s]), s)'
      BY <2>3 DEF FileKeeping, FileKeeps, Keeping, Keeps, TailLasting, TailLast
    <2>7. \A l \in Loaders : lpc'[l] \in {"trunc", "write", "rename"}
                            => Keeps(lparsed[l], lsvc[l], {})'
      BY <2>4, <2>5 DEF Keeping, Keeps
    <2> QED BY <2>5, <2>6, <2>7 DEF Goal, DurableInv
  (* A part of a line reaches it.                                          *)
  <1>3. ASSUME NEW s \in Services, disk[s] \in File, NEW u \in BOOLEAN,
               disk' = [disk EXCEPT ![s] = [disk[s] EXCEPT !.tail = Part, !.utf8 = u]],
               joined' = joined \cup ({disk[s].tail} \cap Entries),
               UNCHANGED <<inputVars, landed, raced, tmp, loaderVars>>
        PROVE  Goal
    <2>1. joined \subseteq joined' /\ UNCHANGED <<inputVars, landed, raced>>
      BY <1>3
    <2>2. ASSUME NEW t \in Services PROVE FileKeeping(Present(disk'[t]), t)
      <3> DEFINE f == Present(disk[t])
      <3> DEFINE g == Present(disk'[t])
      <3>1. Keeps(f.lines, t, {f.tail}) /\ TailLast(f.tail, t)
        BY DEF DurableInv, FileKeeps
      <3>2. /\ g.lines = f.lines
            /\ \/ g.tail = f.tail
               \/ g.tail = Part /\ {f.tail} \cap Recorders \subseteq joined'
        <4>1. CASE t = s
          <5>1. disk'[t] = [disk[t] EXCEPT !.tail = Part, !.utf8 = u] /\ disk'[t] \in File
            <6>1. [disk[t] EXCEPT !.tail = Part, !.utf8 = u] \in File
              BY <1>3, <4>1 DEF File
            <6> QED BY <1>3, <4>1, <6>1 DEF TypeOK
          <5>2. f = disk[t] /\ g = [disk[t] EXCEPT !.tail = Part, !.utf8 = u]
            BY <1>3, <4>1, <5>1, FileExists DEF Present
          <5> HIDE DEF f, g
          <5>3. g.lines = f.lines /\ g.tail = Part
            BY <1>3, <4>1, <5>2 DEF File
          <5>4. {f.tail} \cap Recorders \subseteq joined'
            BY <1>3, <4>1, <5>2
          <5> QED BY <5>3, <5>4
        <4>2. CASE t # s
          BY <1>3, <4>2 DEF TypeOK
        <4> QED BY <4>1, <4>2
      <3> HIDE DEF f, g
      <3>3. Keeping(f.lines, t, {g.tail})
        BY <2>1, <3>1, <3>2, SpoiledSpared
      <3>4. TailLasting(g.tail, t)
        BY <2>1, <3>1, <3>2 DEF TailLast, TailLasting
      <3> QED BY <3>2, <3>3, <3>4 DEF FileKeeping, g
    <2>3. \A l \in Loaders : lpc[l] \in {"trunc", "write", "rename"}
                            => Keeping(lparsed[l], lsvc[l], {})
      BY <2>1 DEF DurableInv, Keeping, Keeps
    <2>5. UNCHANGED <<lpc, lsvc, lparsed, lfd, tmp>>
      BY <1>3
    <2>6. \A t \in Services : FileKeeps(Present(disk[t]), t)'
      BY <2>2 DEF FileKeeping, FileKeeps, Keeping, Keeps, TailLasting, TailLast
    <2>7. \A l \in Loaders : lpc'[l] \in {"trunc", "write", "rename"}
                            => Keeps(lparsed[l], lsvc[l], {})'
      BY <2>3, <2>5 DEF Keeping, Keeps
    <2> QED BY <2>5, <2>6, <2>7 DEF Goal, DurableInv
  <1>21. ASSUME NEW e \in Editors, EditSave(e) PROVE Goal
    <2> DEFINE f == Present(disk[svcOf[e]])
    <2>1. e \in Recorders /\ svcOf[e] \in Services
      BY DEF Recorders, TypeOK
    <2>2. f \in File /\ FileKeeps(f, svcOf[e])
      BY <2>1, PresentType DEF TypeOK, DurableInv
    <2>3. PICK g : /\ disk' = [disk EXCEPT ![svcOf[e]] = g]
                   /\ \/ g = Appended(f, e) /\ joined' = joined \cup JoinedBy(f, e)
                      \/ /\ g = [f EXCEPT !.lines = WithLine(Lines(f), e), !.tail = NoEntry]
                         /\ joined' = joined
      BY <1>21 DEF EditSave, Present
    <2>4. /\ Reached(e, svcOf[e]) /\ UNCHANGED <<inputVars, tmp, loaderVars>>
          /\ joined \subseteq joined'
      BY <1>21, <2>3 DEF EditSave
    <2>5. landed' = Append(landed, e) /\ raced \subseteq raced' /\ UNCHANGED inputVars
      BY <2>4 DEF Reached
    <2> HIDE DEF f
    <2>6. g \in File /\ FileKeeping(g, svcOf[e])
      <3>1. ASSUME g = Appended(f, e) PROVE g \in File
        BY <2>1, <2>2, <3>1, AppendedType
      <3>2. ASSUME g = [f EXCEPT !.lines = WithLine(Lines(f), e), !.tail = NoEntry]
            PROVE  g \in File
        BY <2>1, <2>2, <3>2, AppendedType
      <3>3. g \in File
        BY <2>3, <3>1, <3>2
      <3>4. FileKeeping(g, svcOf[e])
        BY <2>1, <2>2, <2>3, <2>4, <2>5, LandingKeeps
      <3> QED BY <3>3, <3>4
    <2> QED BY <1>2, <2>1, <2>3, <2>4, <2>6
  <1>4. ASSUME NEW w \in Writers, AppendOpen(w) PROVE Goal
    <2>1. \A s \in Services : Present(disk'[s]) = Present(disk[s])
      BY <1>4, FileExists DEF AppendOpen, Present, TypeOK, Recorders
    <2>2. UNCHANGED <<inputVars, landed, raced, joined, tmp, loaderVars>>
      BY <1>4 DEF AppendOpen
    <2> QED BY <2>1, <2>2 DEF Goal, DurableInv, FileKeeps, Keeps, TailLast
  (* A line goes to a file that has been renamed away.                     *)
  <1>22. CASE /\ raced \subseteq raced'
              /\ UNCHANGED <<inputVars, disk, tmp, landed, joined, loaderVars>>
    BY <1>22 DEF Goal, DurableInv, FileKeeps, Keeps, TailLast
  <1>5. ASSUME NEW w \in Writers, AppendWrite(w) \/ AppendFail(w) PROVE Goal
    <2> DEFINE s == svcOf[w]
    <2> DEFINE f == disk[s]
    <2>1. w \in Recorders /\ s \in Services
      BY DEF Recorders, TypeOK
    <2>2. wpc[w] = "opened" => f \in File /\ FileKeeps(f, s) /\ Present(f) = f
      BY <2>1 DEF HandlesOpen, Present, TypeOK, DurableInv
    <2>3. UNCHANGED <<inputVars, tmp, loaderVars>>
      BY <1>5 DEF AppendWrite, AppendFail
    (* What happens to the file.                                           *)
    <2>4. \/ raced \subseteq raced' /\ UNCHANGED <<disk, landed, joined>>
          \/ /\ wpc[w] = "opened" /\ Reached(w, s)
             /\ \/ /\ disk' = [disk EXCEPT ![s] = Appended(f, w)]
                   /\ joined' = joined \cup JoinedBy(f, w)
                \/ /\ disk' = [disk EXCEPT ![s] = [f EXCEPT !.tail = w]]
                   /\ f.tail = NoEntry /\ joined \subseteq joined'
          \/ /\ wpc[w] = "opened" /\ UNCHANGED <<landed, raced>>
             /\ joined' = joined \cup ({f.tail} \cap Entries)
             /\ \E u \in {f.utf8, FALSE} :
                  disk' = [disk EXCEPT ![s] = [f EXCEPT !.tail = Part, !.utf8 = u]]
      BY <1>5, <2>1 DEF AppendWrite, AppendFail, LineCutShort, TypeOK
    <2>5. CASE raced \subseteq raced' /\ UNCHANGED <<disk, landed, joined>>
      BY <1>22, <2>3, <2>5
    <2>6. ASSUME wpc[w] = "opened", Reached(w, s), NEW g,
                 disk' = [disk EXCEPT ![s] = g], joined \subseteq joined',
                 \/ g = Appended(f, w) /\ joined' = joined \cup JoinedBy(f, w)
                 \/ f.tail = NoEntry /\ g = [f EXCEPT !.tail = w]
          PROVE  Goal
      <3>1. landed' = Append(landed, w) /\ raced \subseteq raced' /\ UNCHANGED inputVars
        BY <2>3, <2>6 DEF Reached
      <3>2. f \in File /\ FileKeeps(f, s)
        BY <2>2, <2>6
      <3> HIDE DEF f
      <3>3. g \in File /\ FileKeeping(g, s)
        BY <2>1, <2>6, <3>1, <3>2, AppendedType, LandingKeeps
      <3> QED BY <1>2, <2>1, <2>3, <2>6, <3>3
    <2>7. ASSUME wpc[w] = "opened", UNCHANGED <<landed, raced>>,
                 joined' = joined \cup ({f.tail} \cap Entries),
                 NEW u \in {f.utf8, FALSE},
                 disk' = [disk EXCEPT ![s] = [f EXCEPT !.tail = Part, !.utf8 = u]]
          PROVE  Goal
      <3>1. u \in BOOLEAN /\ f \in File
        BY <2>2, <2>7 DEF File
      <3> QED BY <1>3, <2>1, <2>3, <2>7, <3>1
    <2> QED BY <2>4, <2>5, <2>6, <2>7
  <1>6. ASSUME NEW l \in Loaders, NEW s \in Services, ReadSegment(l, s) PROVE Goal
    <2>1. UNCHANGED <<inputVars, fileVars, lfd>> /\ lpc[l] = "scan"
      BY <1>6 DEF ReadSegment
    <2>2. CASE Parsed(disk[s]) = EmptySegment
      BY <1>1, <1>6, <2>1, <2>2 DEF ReadSegment
    <2>3. CASE Parsed(disk[s]) # EmptySegment
      <3>1. /\ lpc' = [lpc EXCEPT ![l] = "trunc"]
            /\ lsvc' = [lsvc EXCEPT ![l] = s]
            /\ lparsed' = [lparsed EXCEPT ![l] = Parsed(disk[s])]
        BY <1>6, <2>3 DEF ReadSegment
      <3>2. \A m \in Loaders \ {l} :
              lpc'[m] = lpc[m] /\ lsvc'[m] = lsvc[m] /\ lparsed'[m] = lparsed[m]
        BY <3>1 DEF TypeOK
      <3>3. lpc'[l] = "trunc" /\ lsvc'[l] = s /\ lparsed'[l] = Parsed(disk[s])
        BY <3>1 DEF TypeOK
      <3>4. Keeps(Parsed(disk[s]), s, {})
        <4>1. disk[s] \in File /\ Parsed(disk[s]) = Lines(disk[s])
          BY <2>3 DEF Parsed, TypeOK
        <4>2. FileKeeps(disk[s], s)
          BY <4>1, FileExists DEF DurableInv, Present
        <4> QED BY <4>1, <4>2, LinesKeep
      <3>5. Keeps(lparsed'[l], lsvc'[l], {})
        BY <3>3, <3>4
      <3> HIDE DEF Parsed
      <3>6. \A m \in Loaders : lpc'[m] \in {"trunc", "write", "rename"}
                              => Keeps(lparsed[m], lsvc[m], {})'
        BY <2>1, <3>2, <3>5 DEF DurableInv, Keeps
      <3>7. \A t \in Services : FileKeeps(Present(disk[t]), t)'
        BY <2>1 DEF DurableInv, FileKeeps, Keeps, TailLast
      <3>8. \A m \in Loaders : lpc'[m] \in {"write", "rename"} => m # l
        BY <3>3
      <3>9. \A m \in Loaders :
              /\ lpc'[m] = "write" => lfd'[m] = "tmp" /\ tmp'[lsvc'[m]] = EmptyFile
              /\ lpc'[m] = "rename" => tmp'[lsvc'[m]] = Whole(lparsed'[m])
        BY <2>1, <3>2, <3>8 DEF DurableInv
      <3> QED BY <3>6, <3>7, <3>9 DEF Goal, DurableInv
    <2> QED BY <2>2, <2>3
  <1>23. ASSUME NEW l \in Loaders, NEW s \in Services, ReadSegmentFail(l, s) PROVE Goal
    BY <1>1, <1>23 DEF ReadSegmentFail
  <1>7. ASSUME NEW l \in Loaders, TruncateTmp(l) PROVE Goal
    <2>1. lsvc[l] \in Services /\ lpc[l] = "trunc"
      BY <1>7 DEF TruncateTmp, HandlesOpen
    <2>2. \A m \in Loaders \ {l} : lpc[m] = "idle"
      BY <2>1 DEF ReloadsApart
    <2>3. /\ lpc' = [lpc EXCEPT ![l] = "write"] /\ lfd' = [lfd EXCEPT ![l] = "tmp"]
          /\ tmp' = [tmp EXCEPT ![lsvc[l]] = EmptyFile]
          /\ UNCHANGED <<inputVars, disk, landed, raced, joined, lsvc, lparsed>>
      BY <1>7 DEF TruncateTmp
    <2>4. \A s \in Services : FileKeeps(Present(disk[s]), s)'
      BY <2>3 DEF DurableInv, FileKeeps, Keeps, TailLast
    <2>5. Keeps(lparsed[l], lsvc[l], {})'
      BY <2>1, <2>3 DEF DurableInv, Keeps
    <2> QED BY <2>1, <2>2, <2>3, <2>4, <2>5 DEF Goal, DurableInv, TypeOK
  <1>8. ASSUME NEW l \in Loaders, WriteTmp(l) PROVE Goal
    <2>1. /\ lsvc[l] \in Services /\ lpc[l] = "write"
          /\ lfd[l] = "tmp" /\ tmp[lsvc[l]] = EmptyFile /\ lparsed[l] \in Segment
      BY <1>8 DEF WriteTmp, HandlesOpen, DurableInv, TypeOK
    <2>2. \A m \in Loaders \ {l} : lpc[m] = "idle"
      BY <2>1 DEF ReloadsApart
    <2>3. tmp' = [tmp EXCEPT ![lsvc[l]] = Whole(lparsed[l])] /\ UNCHANGED disk
      BY <1>8, <2>1 DEF WriteTmp, WriteHandle, Overwrites
    <2>5. /\ lpc' = [lpc EXCEPT ![l] = "rename"]
          /\ UNCHANGED <<inputVars, landed, raced, joined, lsvc, lparsed>>
      BY <1>8 DEF WriteTmp
    <2>6. /\ \A m \in Loaders \ {l} : lpc'[m] = "idle"
          /\ lpc'[l] = "rename" /\ tmp'[lsvc'[l]] = Whole(lparsed'[l])
      BY <2>1, <2>2, <2>3, <2>5 DEF TypeOK
    <2>7. \A s \in Services : FileKeeps(Present(disk[s]), s)'
      BY <2>3, <2>5 DEF DurableInv, FileKeeps, Keeps, TailLast
    <2>8. Keeps(lparsed[l], lsvc[l], {})'
      BY <2>1, <2>5 DEF DurableInv, Keeps
    <2> QED BY <2>6, <2>7, <2>8 DEF Goal, DurableInv
  (* A loader is done with its file, or with its reload.                   *)
  <1>9. ASSUME NEW l \in Loaders, lpc[l] # "idle", lpc'[l] \in {"scan", "idle"},
               \A m \in Loaders \ {l} : lpc'[m] = lpc[m],
               UNCHANGED <<inputVars, disk, landed, raced, joined>>
        PROVE  Goal
    <2>1. \A m \in Loaders \ {l} : lpc'[m] = "idle"
      BY <1>9 DEF ReloadsApart
    <2>2. \A s \in Services : FileKeeps(Present(disk[s]), s)'
      BY <1>9 DEF DurableInv, FileKeeps, Keeps, TailLast
    <2> QED BY <1>9, <2>1, <2>2 DEF Goal, DurableInv
  <1>10. ASSUME NEW l \in Loaders, WriteTmpFail(l) PROVE Goal
    <2>1. disk' = disk
      BY <1>10 DEF WriteTmpFail, WriteHandle, HandlesOpen, DurableInv
    <2> QED BY <1>9, <1>10, <2>1 DEF WriteTmpFail, DropFile, TypeOK
  <1>11. ASSUME NEW l \in Loaders, RenameTmp(l) PROVE Goal
    <2>1. /\ lsvc[l] \in Services /\ lpc[l] = "rename"
          /\ tmp[lsvc[l]] = Whole(lparsed[l]) /\ lparsed[l] \in Segment
          /\ Keeps(lparsed[l], lsvc[l], {})
      BY <1>11 DEF RenameTmp, HandlesOpen, DurableInv, TypeOK
    <2>2. /\ \A m \in Loaders \ {l} : lpc[m] = "idle"
          /\ lpc' = [lpc EXCEPT ![l] = "scan"]
      BY <1>11, <2>1 DEF RenameTmp, DropFile, ReloadsApart
    <2>3. /\ disk' = [disk EXCEPT ![lsvc[l]] = Whole(lparsed[l])]
          /\ UNCHANGED <<inputVars, landed, raced, joined>>
      <3>1. Whole(lparsed[l]) # NoFile
        BY <2>1, FileExists DEF TypeOK, HandlesOpen, Whole, File
      <3> QED BY <1>11, <2>1, <3>1 DEF RenameTmp
    <2>4. \A s \in Services : FileKeeps(Present(disk[s]), s)'
      <3> SUFFICES ASSUME NEW s \in Services PROVE FileKeeps(Present(disk[s]), s)'
        OBVIOUS
      <3>1. CASE s = lsvc[l]
        <4>1. Present(disk'[s]).lines = lparsed[l] /\ Present(disk'[s]).tail = NoEntry
          <5>1. disk'[s] = Whole(lparsed[l]) /\ disk'[s] \in File
            BY <2>1, <2>3, <3>1 DEF TypeOK, Whole, File
          <5>2. Present(disk'[s]) = Whole(lparsed[l])
            BY <5>1, FileExists DEF Present
          <5> QED BY <5>2 DEF Whole
        <4>2. Keeps(lparsed[l], s, {NoEntry})
          BY <2>1, <3>1 DEF Keeps
        <4> QED BY <2>3, <4>1, <4>2, NoEntryAssumption DEF FileKeeps, Keeps, TailLast
      <3>2. CASE s # lsvc[l]
        <4>1. disk'[s] = disk[s]
          BY <2>3, <3>2 DEF TypeOK
        <4> QED BY <2>3, <4>1 DEF DurableInv, FileKeeps, Keeps, TailLast
      <3> QED BY <3>1, <3>2
    <2>5. \A m \in Loaders : lpc'[m] \in {"idle", "scan"}
      BY <2>2 DEF TypeOK
    <2> QED BY <2>4, <2>5 DEF Goal, DurableInv
  <1>12. ASSUME NEW l \in Loaders, PublishLoaded(l) PROVE Goal
    BY <1>9, <1>12 DEF PublishLoaded, TypeOK
  <1>13. ASSUME NEW l \in FullLoaders, AbandonReload(l) PROVE Goal
    BY <1>9, <1>13 DEF AbandonReload, FullLoaders, TypeOK
  <1>14. ASSUME NEW l \in Loaders, NEW base, NEW todo, StartLoad(l, base, todo) PROVE Goal
    BY <1>14 DEF StartLoad, Goal, DurableInv, FileKeeps, Keeps, TailLast, TypeOK
  <1>15. CASE Crash
    BY <1>15 DEF Crash, Goal, DurableInv, FileKeeps, Keeps, TailLast
  <1>16. CASE Start
    BY <1>1, <1>14, <1>16, <1>21 DEF Start, PublishLoad, ReloadFull, FullLoaders, BeginRequest
  <1>17. ASSUME NEW w \in Writers, WriterStep(w) PROVE Goal
    BY <1>1, <1>4, <1>5, <1>17 DEF WriterStep, PublishStore
  <1>18. ASSUME NEW r \in Requests, RequestStep(r) PROVE Goal
    BY <1>1, <1>18 DEF RequestStep, ExactHit, ExactMiss, SwapHit, TotalMiss, Answer
  <1>19. CASE Progress
    BY <1>1, <1>6, <1>7, <1>8, <1>10, <1>11, <1>12, <1>14, <1>17, <1>18, <1>19, <1>23
       DEF Progress, LoaderStep, ReloadOneFile, Debounce, BootLoad
  <1>20. CASE UNCHANGED vars
    BY <1>1, <1>20
  <1> QED BY <1>13, <1>15, <1>16, <1>19, <1>20 DEF Next, Cut

(* Compaction is crash-safe: in every behaviour in which reloads do not    *)
(* overlap, a line that reached its file outside a compaction, and is not  *)
(* joined with one that a failing write cut short, stays there until a     *)
(* later line for its key replaces it, whatever fails or crashes.          *)
THEOREM Durable == Spec /\ []ReloadsApart => []DurableOnceWhole
  <1>1. Init => TypeInv /\ DurableInv
    BY TypeInit, DurableInit
  <1>2. TypeInv /\ ReloadsApart /\ DurableInv /\ [Next]_vars => TypeInv' /\ DurableInv'
    BY TypeStep, DurableStep
  <1>3. TypeInv /\ DurableInv => DurableOnceWhole
    BY DurableFollows DEF TypeInv
  <1> QED BY <1>1, <1>2, <1>3, PTL DEF Spec

(* One reload route or the watcher, and nothing else, besides the boot.    *)
OneLoader ==
  \A l, m \in FullLoaders \cup (IF FsWatch THEN {Watcher} ELSE {}) : l = m

(* The boot loads before the listener accepts, everyone else after, and    *)
(* the watcher works only when it is told.                                 *)
AloneInv ==
  /\ up => lpc[Boot] = "idle"
  /\ ~up => \A l \in Loaders \ {Boot} : lpc[l] = "idle"
  /\ ~FsWatch => channel = {} /\ batch = {} /\ lpc[Watcher] = "idle"

(* Then there are no two loaders at work.                                  *)
LEMMA AloneApart ==
  ASSUME OneLoader, AloneInv PROVE ReloadsApart
  BY ProcessAssumption DEF OneLoader, AloneInv, ReloadsApart, FullLoaders

(* It begins so ...                                                        *)
THEOREM AloneInit == Init => AloneInv
  BY ProcessAssumption DEF Init, AloneInv

(* ... and stays so.                                                       *)
THEOREM AloneStep == TypeInv /\ AloneInv /\ [Next]_vars => AloneInv'
  <1> SUFFICES ASSUME TypeOK, AloneInv, [Next]_vars PROVE AloneInv'
    BY DEF TypeInv
  <1> USE ProcessAssumption
  <1> DEFINE Goal == AloneInv'
  <1> SUFFICES Goal
    BY DEF Goal
  <1> HIDE DEF Goal
  (* A loader at work goes on, or is done.                                 *)
  <1>1. ASSUME NEW l \in Loaders, lpc[l] # "idle", lpc'[l] = "idle" \/ up' = up,
               \A m \in Loaders \ {l} : lpc'[m] = lpc[m],
               up' = up \/ (up' /\ lpc'[l] = "idle"),
               FsWatch \/ channel' = channel, batch' = batch
        PROVE  Goal
    BY <1>1 DEF Goal, AloneInv, TypeOK
  <1>2. CASE UNCHANGED <<up, lpc, batch>> /\ (FsWatch \/ channel' = channel)
    BY <1>2 DEF Goal, AloneInv
  <1>3. ASSUME NEW l \in Loaders, LoaderStep(l) PROVE Goal
    <2>1. CASE \E s \in Services : ReadSegment(l, s)
      BY <1>1, <2>1 DEF ReadSegment, TypeOK
    <2>7. CASE \E s \in Services : ReadSegmentFail(l, s)
      BY <1>2, <2>7 DEF ReadSegmentFail
    <2>2. CASE TruncateTmp(l)
      BY <1>1, <2>2 DEF TruncateTmp, TypeOK
    <2>3. CASE WriteTmp(l)
      BY <1>1, <2>3 DEF WriteTmp, WriteHandle, Notify, TypeOK
    <2>4. CASE WriteTmpFail(l)
      BY <1>1, <2>4 DEF WriteTmpFail, WriteHandle, DropFile, Notify, TypeOK
    <2>5. CASE RenameTmp(l)
      BY <1>1, <2>5 DEF RenameTmp, DropFile, Notify, TypeOK
    <2>6. CASE PublishLoaded(l)
      BY <1>1, <2>6 DEF PublishLoaded, TypeOK
    <2> QED BY <1>3, <2>1, <2>2, <2>3, <2>4, <2>5, <2>6, <2>7 DEF LoaderStep
  <1>4. ASSUME NEW l \in FullLoaders, AbandonReload(l) PROVE Goal
    BY <1>1, <1>4 DEF AbandonReload, FullLoaders, TypeOK
  <1>5. ASSUME NEW l \in FullLoaders, ReloadFull(l) PROVE Goal
    BY <1>5 DEF ReloadFull, StartLoad, FullLoaders, Goal, AloneInv, TypeOK
  <1>6. CASE BootLoad
    BY <1>6 DEF BootLoad, StartLoad, Goal, AloneInv, TypeOK
  <1>7. ASSUME NEW s \in Services, ReloadOneFile(s) PROVE Goal
    BY <1>7 DEF ReloadOneFile, StartLoad, Goal, AloneInv, TypeOK
  <1>8. CASE Debounce
    BY <1>8 DEF Debounce, Goal, AloneInv, TypeOK
  <1>9. CASE Crash
    BY <1>9 DEF Crash, Goal, AloneInv
  <1>10. CASE Start
    BY <1>2, <1>5, <1>10 DEF Start, PublishLoad, EditSave, Notify, BeginRequest
  <1>11. ASSUME NEW w \in Writers, WriterStep(w) PROVE Goal
    BY <1>2, <1>11 DEF WriterStep, PublishStore, AppendOpen, AppendWrite, AppendFail,
                         LineCutShort, Notify
  <1>12. ASSUME NEW r \in Requests, RequestStep(r) PROVE Goal
    BY <1>2, <1>12 DEF RequestStep, ExactHit, ExactMiss, SwapHit, TotalMiss, Answer
  <1>13. CASE Progress
    BY <1>3, <1>6, <1>7, <1>8, <1>11, <1>12, <1>13 DEF Progress
  <1>14. CASE UNCHANGED vars
    BY <1>2, <1>14
  <1> QED BY <1>4, <1>9, <1>10, <1>13, <1>14 DEF Next, Cut

(* So a proxy with one way to reload keeps the lines that stand alone, in  *)
(* every behaviour.                                                        *)
THEOREM DurableAlone ==
  ASSUME OneLoader
  PROVE  Spec => []DurableOnceWhole
  <1>1. Init => TypeInv /\ AloneInv
    BY TypeInit, AloneInit
  <1>2. TypeInv /\ AloneInv /\ [Next]_vars => TypeInv' /\ AloneInv'
    BY TypeStep, AloneStep
  <1>3. AloneInv => ReloadsApart
    BY AloneApart
  <1> QED BY <1>1, <1>2, <1>3, Durable, PTL DEF Spec

-----------------------------------------------------------------------------
(***************************************************************************)
(* What a write that is cut short costs: a file that does not end with a   *)
(* newline stands for one failed write, and the next line that lands on it *)
(* takes its place.                                                        *)
(***************************************************************************)
Spoiled == {r \in joined : wpc[r] = "done"}
Failed  == {w \in Writers : wpc[w] = "failed"}
OpenEnded == {s \in Services : disk[s] # NoFile /\ disk[s].tail # NoEntry}

(* A recorder whose line runs on with another is through with it, and one  *)
(* whose line lacks its newline has failed.                                *)
SpoilHistory ==
  /\ \A r \in joined : wpc[r] \in {"done", "failed"}
  /\ \A s \in OpenEnded : disk[s].tail \in Entries => wpc[disk[s].tail] = "failed"

SpoilInv ==
  SpoilHistory /\ Cardinality(Spoiled) + Cardinality(OpenEnded) <= Cardinality(Failed)

(* What is counted is finite.                                              *)
LEMMA SpoilFinite ==
  ASSUME TypeOK, IsFiniteSet(Recorders), IsFiniteSet(Services)
  PROVE  IsFiniteSet(Spoiled) /\ IsFiniteSet(OpenEnded) /\ IsFiniteSet(Failed)
  <1>1. /\ Spoiled \in SUBSET Recorders /\ Failed \in SUBSET Recorders
        /\ OpenEnded \in SUBSET Services
    BY DEF TypeOK, Spoiled, Failed, OpenEnded, Recorders
  <1> QED BY <1>1, FS_Subset

(* While reloads do not overlap, every step keeps the balance.             *)
THEOREM SpoilStep ==
  ASSUME IsFiniteSet(Recorders), IsFiniteSet(Services)
  PROVE  TypeInv /\ TypeInv' /\ DurableInv /\ SpoilInv /\ [Next]_vars => SpoilInv'
  <1> SUFFICES ASSUME TypeOK, TypeOK', HandlesOpen, DurableInv, SpoilInv, [Next]_vars
               PROVE  SpoilInv'
    BY DEF TypeInv
  <1> USE ProcessAssumption, NoEntryAssumption
  <1>0. /\ IsFiniteSet(Spoiled) /\ IsFiniteSet(OpenEnded) /\ IsFiniteSet(Failed)
        /\ IsFiniteSet(Failed')
    <2>1. Failed' \in SUBSET Recorders
      BY DEF Failed, Recorders
    <2> QED BY <2>1, SpoilFinite, FS_Subset
  <1>1. ASSUME SpoilHistory', NEW x, NEW y,
               \/ /\ Spoiled' \subseteq Spoiled /\ OpenEnded' \subseteq OpenEnded
                  /\ Failed \subseteq Failed'
               \/ /\ Spoiled' \subseteq Spoiled \cup {x}
                  /\ OpenEnded' \subseteq OpenEnded \ {y} /\ y \in OpenEnded
                  /\ Failed \subseteq Failed'
               \/ /\ Spoiled' \subseteq Spoiled /\ OpenEnded' \subseteq OpenEnded \cup {y}
                  /\ Failed \cup {x} \subseteq Failed' /\ x \notin Failed
        PROVE  SpoilInv'
    <2>1. Cardinality(Spoiled') + Cardinality(OpenEnded') <= Cardinality(Failed')
      <3> DEFINE S == Spoiled
                 O == OpenEnded
                 F == Failed
                 S1 == Spoiled'
                 O1 == OpenEnded'
                 F1 == Failed'
      <3>1. /\ IsFiniteSet(S) /\ IsFiniteSet(O) /\ IsFiniteSet(F) /\ IsFiniteSet(F1)
            /\ Cardinality(S) + Cardinality(O) <= Cardinality(F)
        BY <1>0 DEF SpoilInv
      <3>2. \/ S1 \subseteq S /\ O1 \subseteq O /\ F \subseteq F1
            \/ /\ S1 \subseteq S \cup {x} /\ O1 \subseteq O \ {y} /\ y \in O
               /\ F \subseteq F1
            \/ /\ S1 \subseteq S /\ O1 \subseteq O \cup {y} /\ F \cup {x} \subseteq F1
               /\ x \notin F
        BY <1>1
      (* A file that no longer ends within a line pays for a line that is  *)
      (* spoiled, a write that fails for a file that ends within one.      *)
      <3>3. Cardinality(S1) + Cardinality(O1) <= Cardinality(F1)
        <4> HIDE DEF S, O, F, S1, O1, F1
        <4>1. /\ Cardinality(S) \in Nat /\ Cardinality(O) \in Nat /\ Cardinality(F) \in Nat
              /\ Cardinality(F1) \in Nat
          BY <3>1, FS_CardinalityType
        <4>2. CASE S1 \subseteq S /\ O1 \subseteq O /\ F \subseteq F1
          <5>1. /\ Cardinality(S1) <= Cardinality(S) /\ IsFiniteSet(S1)
                /\ Cardinality(O1) <= Cardinality(O) /\ IsFiniteSet(O1)
                /\ Cardinality(F) <= Cardinality(F1)
            BY <3>1, <4>2, FS_Subset
          <5>2. Cardinality(S1) \in Nat /\ Cardinality(O1) \in Nat
            BY <5>1, FS_CardinalityType
          <5> QED BY <3>1, <4>1, <5>1, <5>2
        <4>3. CASE S1 \subseteq S \cup {x} /\ O1 \subseteq O \ {y} /\ y \in O /\ F \subseteq F1
          <5>1. /\ IsFiniteSet(S \cup {x}) /\ Cardinality(S \cup {x}) <= Cardinality(S) + 1
                /\ IsFiniteSet(O \ {y}) /\ Cardinality(O \ {y}) = Cardinality(O) - 1
            <6>1. IsFiniteSet(S \cup {x})
                  /\ Cardinality(S \cup {x}) = IF x \in S THEN Cardinality(S) ELSE Cardinality(S) + 1
              BY <3>1, FS_AddElement
            <6>2. IsFiniteSet(O \ {y})
                  /\ Cardinality(O \ {y}) = IF y \in O THEN Cardinality(O) - 1 ELSE Cardinality(O)
              BY <3>1, FS_RemoveElement
            <6> QED BY <4>1, <4>3, <6>1, <6>2
          <5>2. /\ Cardinality(S1) <= Cardinality(S \cup {x}) /\ IsFiniteSet(S1)
                /\ Cardinality(O1) <= Cardinality(O \ {y}) /\ IsFiniteSet(O1)
                /\ Cardinality(F) <= Cardinality(F1)
            BY <3>1, <4>3, <5>1, FS_Subset
          <5>3. /\ Cardinality(S1) \in Nat /\ Cardinality(O1) \in Nat
                /\ Cardinality(S \cup {x}) \in Nat
            BY <5>1, <5>2, FS_CardinalityType
          <5> QED BY <3>1, <4>1, <5>1, <5>2, <5>3
        <4>4. CASE S1 \subseteq S /\ O1 \subseteq O \cup {y} /\ F \cup {x} \subseteq F1 /\ x \notin F
          <5>1. /\ IsFiniteSet(O \cup {y}) /\ Cardinality(O \cup {y}) <= Cardinality(O) + 1
                /\ IsFiniteSet(F \cup {x}) /\ Cardinality(F \cup {x}) = Cardinality(F) + 1
            <6>1. IsFiniteSet(O \cup {y})
                  /\ Cardinality(O \cup {y}) = IF y \in O THEN Cardinality(O) ELSE Cardinality(O) + 1
              BY <3>1, FS_AddElement
            <6>2. IsFiniteSet(F \cup {x})
                  /\ Cardinality(F \cup {x}) = IF x \in F THEN Cardinality(F) ELSE Cardinality(F) + 1
              BY <3>1, FS_AddElement
            <6> QED BY <4>1, <4>4, <6>1, <6>2
          <5>2. /\ Cardinality(S1) <= Cardinality(S) /\ IsFiniteSet(S1)
                /\ Cardinality(O1) <= Cardinality(O \cup {y}) /\ IsFiniteSet(O1)
                /\ Cardinality(F \cup {x}) <= Cardinality(F1)
            BY <3>1, <4>4, <5>1, FS_Subset
          <5>3. /\ Cardinality(S1) \in Nat /\ Cardinality(O1) \in Nat
                /\ Cardinality(O \cup {y}) \in Nat
            BY <5>1, <5>2, FS_CardinalityType
          <5> QED BY <3>1, <4>1, <5>1, <5>2, <5>3
        <4> QED BY <3>2, <4>2, <4>3, <4>4
      <3> QED BY <3>3
    <2> QED BY <1>1, <2>1 DEF SpoilInv
  (* Nothing happens to a file, or it becomes one that ends with a newline. *)
  <1>2. ASSUME joined' = joined,
               \A r \in Recorders : /\ wpc'[r] = "done" => r \notin joined \/ wpc[r] = "done"
                                    /\ wpc[r] = "failed" => wpc'[r] = "failed"
                                    /\ wpc[r] = "done" => wpc'[r] = "done",
               \A s \in Services : \/ disk'[s] = disk[s]
                                   \/ disk'[s] # NoFile => disk'[s].tail = NoEntry
        PROVE  SpoilInv'
    <2>1. /\ Spoiled' \subseteq Spoiled /\ OpenEnded' \subseteq OpenEnded
          /\ Failed \subseteq Failed'
      BY <1>2 DEF Spoiled, OpenEnded, Failed, TypeOK, Recorders
    <2>2. SpoilHistory'
      <3>1. \A r \in joined' : wpc'[r] \in {"done", "failed"}
        BY <1>2 DEF SpoilInv, SpoilHistory, TypeOK
      <3>2. ASSUME NEW s \in Services, disk'[s] # NoFile, disk'[s].tail \in Entries
            PROVE  wpc'[disk'[s].tail] = "failed"
        <4>1. disk'[s] = disk[s] /\ s \in OpenEnded
          BY <1>2, <3>2 DEF OpenEnded
        <4> QED BY <1>2, <3>2, <4>1 DEF SpoilInv, SpoilHistory
      <3> QED BY <3>1, <3>2 DEF SpoilHistory, OpenEnded
    <2> QED BY <1>1, <2>1, <2>2
  (* A line lands on a file that ends within one, and ends it.             *)
  <1>3. ASSUME NEW e \in Recorders, NEW s \in OpenEnded,
               wpc[e] \notin {"done", "failed"}, wpc' = [wpc EXCEPT ![e] = "done"],
               joined' = joined \cup JoinedBy(disk[s], e),
               disk' = [disk EXCEPT ![s] = [disk[s] EXCEPT !.tail = NoEntry]]
        PROVE  SpoilInv'
    <2>1. JoinedBy(disk[s], e) \subseteq {e, disk[s].tail} /\ joined' \subseteq Recorders
      BY <1>3 DEF JoinedBy, TypeOK
    <2>2. disk[s].tail \in Entries => wpc[disk[s].tail] = "failed" /\ disk[s].tail # e
      BY <1>3 DEF SpoilInv, SpoilHistory
    <2>3. s \in Services /\ disk[s] \in File
      BY DEF OpenEnded, TypeOK
    <2>4. \A t \in Services : \/ t # s /\ disk'[t] = disk[t]
                              \/ t = s /\ disk'[t].tail = NoEntry
      BY <1>3, <2>3 DEF TypeOK, File
    <2>5. OpenEnded' \subseteq OpenEnded \ {s}
      BY <2>4 DEF OpenEnded
    <2>6. Spoiled' \subseteq Spoiled \cup {e}
      <3> SUFFICES ASSUME NEW r \in joined', wpc'[r] = "done", r # e PROVE r \in Spoiled
        BY DEF Spoiled
      <3>1. r \in Recorders /\ wpc[r] = "done"
        BY <1>3, <2>1 DEF TypeOK
      <3>2. r # disk[s].tail
        BY <2>2, <3>1
      <3> QED BY <1>3, <2>1, <3>1, <3>2 DEF Spoiled
    <2>7. Failed \subseteq Failed'
      BY <1>3 DEF Failed, TypeOK, Recorders
    <2>8. SpoilHistory'
      <3>1. \A r \in joined' : wpc'[r] \in {"done", "failed"}
        <4> SUFFICES ASSUME NEW r \in joined' PROVE wpc'[r] \in {"done", "failed"}
          OBVIOUS
        <4>1. r \in Recorders /\ r \in joined \cup {e, disk[s].tail}
          BY <1>3, <2>1
        <4>2. CASE r = e
          BY <1>3, <4>2 DEF TypeOK
        <4>3. CASE r # e
          <5>1. wpc'[r] = wpc[r]
            BY <1>3, <4>1, <4>3 DEF TypeOK
          <5> QED BY <2>2, <4>1, <4>3, <5>1 DEF SpoilInv, SpoilHistory
        <4> QED BY <4>2, <4>3
      <3>2. ASSUME NEW t \in OpenEnded', disk'[t].tail \in Entries
            PROVE  wpc'[disk'[t].tail] = "failed"
        <4>1. t \in OpenEnded /\ disk'[t] = disk[t]
          BY <2>4, <2>5 DEF OpenEnded
        <4>2. wpc[disk[t].tail] = "failed"
          BY <3>2, <4>1 DEF SpoilInv, SpoilHistory
        <4> QED BY <1>3, <3>2, <4>1, <4>2 DEF TypeOK
      <3> QED BY <3>1, <3>2 DEF SpoilHistory
    <2> QED BY <1>1, <2>5, <2>6, <2>7, <2>8
  (* A write is cut short.                                                 *)
  <1>4. ASSUME NEW w \in Writers, NEW s \in Services, disk[s] \in File, NEW g \in File,
               g.tail = Part \/ g.tail = w,
               wpc[w] \notin {"done", "failed"}, wpc' = [wpc EXCEPT ![w] = "failed"],
               joined' = joined \cup ({disk[s].tail} \cap Entries),
               disk' = [disk EXCEPT ![s] = g]
        PROVE  SpoilInv'
    <2>1. s \in OpenEnded /\ disk[s].tail \in Entries => wpc[disk[s].tail] = "failed"
      BY <1>4 DEF SpoilInv, SpoilHistory
    <2>2. disk[s].tail \in Entries => s \in OpenEnded
      BY <1>4, FileExists DEF OpenEnded
    <2>3. \A t \in Services : t # s => disk'[t] = disk[t]
      BY <1>4 DEF TypeOK
    <2>4. OpenEnded' \subseteq OpenEnded \cup {s}
      BY <2>3 DEF OpenEnded
    <2>5. joined' \subseteq Recorders /\ w \in Recorders
      BY <1>4 DEF TypeOK, Recorders
    <2>6. Spoiled' \subseteq Spoiled
      <3> SUFFICES ASSUME NEW r \in joined', wpc'[r] = "done" PROVE r \in Spoiled
        BY DEF Spoiled
      <3>1. r \in Recorders /\ wpc[r] = "done"
        BY <1>4, <2>5 DEF TypeOK
      <3>2. r \in joined
        BY <1>4, <2>1, <2>2, <3>1
      <3> QED BY <3>1, <3>2 DEF Spoiled
    <2>7. Failed \cup {w} \subseteq Failed' /\ w \notin Failed
      BY <1>4, <2>5 DEF Failed, TypeOK, Recorders
    <2>8. SpoilHistory'
      <3>1. \A r \in joined' : wpc'[r] \in {"done", "failed"}
        <4> SUFFICES ASSUME NEW r \in joined' PROVE wpc'[r] \in {"done", "failed"}
          OBVIOUS
        <4>1. r \in Recorders /\ wpc[r] \in {"done", "failed"}
          BY <1>4, <2>1, <2>2, <2>5 DEF SpoilInv, SpoilHistory
        <4> QED BY <1>4, <2>5, <4>1 DEF TypeOK
      <3>2. ASSUME NEW t \in OpenEnded', disk'[t].tail \in Entries
            PROVE  wpc'[disk'[t].tail] = "failed"
        <4>1. CASE t = s
          <5>1. disk'[t] = g
            BY <1>4, <4>1 DEF TypeOK
          <5>2. g.tail = w
            BY <1>4, <3>2, <5>1
          <5> QED BY <1>4, <2>5, <5>1, <5>2 DEF TypeOK
        <4>2. CASE t # s
          <5>1. t \in OpenEnded /\ disk'[t] = disk[t]
            BY <2>3, <2>4, <4>2 DEF OpenEnded
          <5>2. wpc[disk[t].tail] = "failed"
            BY <3>2, <5>1 DEF SpoilInv, SpoilHistory
          <5> QED BY <1>4, <3>2, <5>1, <5>2 DEF TypeOK
        <4> QED BY <4>1, <4>2
      <3> QED BY <3>1, <3>2 DEF SpoilHistory
    <2> QED BY <1>1, <2>4, <2>6, <2>7, <2>8
  <1>5. CASE UNCHANGED <<wpc, disk, joined>>
    BY <1>2, <1>5
  <1>6. ASSUME NEW w \in Recorders, NEW c,
               wpc[w] \notin {"done", "failed"}, wpc' = [wpc EXCEPT ![w] = c],
               UNCHANGED joined,
               \A s \in Services : \/ disk'[s] = disk[s]
                                   \/ disk'[s] # NoFile => disk'[s].tail = NoEntry
        PROVE  SpoilInv'
    <2>1. w \notin joined
      BY <1>6 DEF SpoilInv, SpoilHistory
    <2> QED BY <1>2, <1>6, <2>1 DEF TypeOK
  <1>7. ASSUME NEW e \in Editors, EditSave(e) PROVE SpoilInv'
    <2> DEFINE s == svcOf[e]
    <2> DEFINE f == IF disk[s] = NoFile THEN EmptyFile ELSE disk[s]
    <2>1. /\ e \in Recorders /\ s \in Services /\ f \in File
          /\ wpc[e] = "idle" /\ wpc' = [wpc EXCEPT ![e] = "done"]
      BY <1>7, EmptyTypes DEF EditSave, TypeOK, Recorders
    <2>2. CASE disk' = [disk EXCEPT ![s] = Appended(f, e)] /\ joined' = joined \cup JoinedBy(f, e)
      <3>1. CASE f.tail = NoEntry
        <4>1. joined' = joined /\ Appended(f, e).tail = NoEntry
          BY <2>1, <2>2, <3>1 DEF JoinedBy, Appended, File
        <4> HIDE DEF f, s
        <4>2. \A t \in Services : \/ disk'[t] = disk[t]
                                  \/ disk'[t] # NoFile => disk'[t].tail = NoEntry
          BY <2>1, <2>2, <4>1 DEF TypeOK
        <4> QED BY <1>6, <2>1, <4>1, <4>2
      <3>2. CASE f.tail # NoEntry
        <4>1. f = disk[s] /\ s \in OpenEnded
          BY <2>1, <3>2 DEF OpenEnded, EmptyFile, Whole
        <4>2. Appended(f, e) = [disk[s] EXCEPT !.tail = NoEntry]
          BY <3>2, <4>1 DEF Appended
        <4> QED BY <1>3, <2>1, <2>2, <4>1, <4>2
      <3> QED BY <3>1, <3>2
    <2>3. CASE /\ disk' = [disk EXCEPT ![s] =
                             [f EXCEPT !.lines = WithLine(Lines(f), e), !.tail = NoEntry]]
               /\ joined' = joined
      <3> DEFINE g == [f EXCEPT !.lines = WithLine(Lines(f), e), !.tail = NoEntry]
      <3>1. g.tail = NoEntry
        BY <2>1 DEF File
      <3> HIDE DEF g
      <3>2. \A t \in Services : \/ disk'[t] = disk[t]
                                \/ disk'[t] # NoFile => disk'[t].tail = NoEntry
        BY <2>1, <2>3, <3>1 DEF TypeOK, g
      <3> QED BY <1>6, <2>1, <2>3, <3>2
    <2> QED BY <1>7, <2>2, <2>3 DEF EditSave
  <1>8. ASSUME NEW w \in Writers, WriterStep(w) PROVE SpoilInv'
    <2> DEFINE s == svcOf[w]
    <2>1. w \in Recorders /\ s \in Services /\ (wpc[w] = "opened" => disk[s] \in File)
      BY DEF Recorders, TypeOK, HandlesOpen
    <2>2. CASE PublishStore(w)
      BY <1>6, <2>1, <2>2 DEF PublishStore
    <2>3. CASE AppendOpen(w)
      <3>1. \A t \in Services : \/ disk'[t] = disk[t]
                                \/ disk'[t] # NoFile => disk'[t].tail = NoEntry
        BY <2>1, <2>3 DEF AppendOpen, TypeOK, EmptyFile, Whole
      <3> QED BY <1>6, <2>1, <2>3, <3>1 DEF AppendOpen
    <2>4. CASE AppendWrite(w)
      <3>1. CASE wpc[w] # "opened"
        BY <1>6, <2>1, <2>4, <3>1 DEF AppendWrite
      <3>2. ASSUME wpc[w] = "opened"
            PROVE  /\ disk' = [disk EXCEPT ![s] = Appended(disk[s], w)]
                   /\ joined' = joined \cup JoinedBy(disk[s], w) /\ disk[s] \in File
                   /\ wpc' = [wpc EXCEPT ![w] = "done"]
        BY <2>1, <2>4, <3>2 DEF AppendWrite, TypeOK
      <3>3. CASE wpc[w] = "opened" /\ disk[s].tail = NoEntry
        <4>1. joined' = joined /\ Appended(disk[s], w).tail = NoEntry
          BY <3>2, <3>3 DEF JoinedBy, Appended, File
        <4> HIDE DEF s
        <4>2. \A t \in Services : \/ disk'[t] = disk[t]
                                  \/ disk'[t] # NoFile => disk'[t].tail = NoEntry
          BY <2>1, <3>2, <3>3, <4>1 DEF TypeOK
        <4> QED BY <1>6, <2>1, <3>2, <3>3, <4>1, <4>2
      <3>4. CASE wpc[w] = "opened" /\ disk[s].tail # NoEntry
        <4>1. s \in OpenEnded
          BY <2>1, <3>4, FileExists DEF OpenEnded
        <4>2. Appended(disk[s], w) = [disk[s] EXCEPT !.tail = NoEntry]
          BY <3>4 DEF Appended
        <4> QED BY <1>3, <2>1, <3>2, <3>4, <4>1, <4>2
      <3> QED BY <3>1, <3>3, <3>4
    <2>5. CASE AppendFail(w)
      <3>1. wpc[w] \notin {"done", "failed"} /\ wpc' = [wpc EXCEPT ![w] = "failed"]
        BY <2>5 DEF AppendFail
      <3>2. CASE UNCHANGED <<disk, joined>>
        BY <1>6, <2>1, <3>1, <3>2
      <3>3. CASE wpc[w] = "opened" /\ LineCutShort(w, s)
        <4>1. disk[s] \in File /\ joined' = joined \cup ({disk[s].tail} \cap Entries)
          BY <2>1, <3>3 DEF LineCutShort
        <4>2. PICK g \in File : disk' = [disk EXCEPT ![s] = g] /\ (g.tail = Part \/ g.tail = w)
          <5>1. CASE \E u \in {disk[s].utf8, FALSE} :
                       disk' = [disk EXCEPT ![s] = [@ EXCEPT !.tail = Part, !.utf8 = u]]
            <6>1. PICK u \in {disk[s].utf8, FALSE} :
                    disk' = [disk EXCEPT ![s] = [disk[s] EXCEPT !.tail = Part, !.utf8 = u]]
              BY <2>1, <5>1 DEF TypeOK
            <6>2. /\ [disk[s] EXCEPT !.tail = Part, !.utf8 = u] \in File
                  /\ [disk[s] EXCEPT !.tail = Part, !.utf8 = u].tail = Part
              BY <4>1, <6>1 DEF File
            <6> QED BY <6>1, <6>2
          <5>2. CASE disk' = [disk EXCEPT ![s] = [@ EXCEPT !.tail = w]]
            <6>1. disk' = [disk EXCEPT ![s] = [disk[s] EXCEPT !.tail = w]]
              BY <2>1, <5>2 DEF TypeOK
            <6>2. /\ [disk[s] EXCEPT !.tail = w] \in File
                  /\ [disk[s] EXCEPT !.tail = w].tail = w
              BY <2>1, <4>1 DEF File
            <6> QED BY <6>1, <6>2
          <5> QED BY <3>3, <5>1, <5>2 DEF LineCutShort
        <4> QED BY <1>4, <2>1, <3>1, <4>1, <4>2
      <3> QED BY <2>5, <3>2, <3>3 DEF AppendFail
    <2> QED BY <1>8, <2>2, <2>3, <2>4, <2>5 DEF WriterStep
  <1>9. ASSUME NEW l \in Loaders, LoaderStep(l) PROVE SpoilInv'
    <2>1. CASE RenameTmp(l)
      <3>1. tmp[lsvc[l]] = Whole(lparsed[l]) /\ lsvc[l] \in Services
        BY <2>1 DEF RenameTmp, DurableInv, HandlesOpen
      <3>2. \A t \in Services : \/ disk'[t] = disk[t]
                                \/ disk'[t].tail = NoEntry
        BY <2>1, <3>1 DEF RenameTmp, Whole, TypeOK
      <3>3. \A r \in Recorders : \/ wpc'[r] = wpc[r]
                                 \/ wpc[r] = "opened" /\ wpc'[r] = "orphaned"
        BY <2>1 DEF RenameTmp, TypeOK
      <3> QED BY <1>2, <2>1, <3>2, <3>3 DEF RenameTmp
    <2>2. CASE WriteTmp(l) \/ WriteTmpFail(l)
      <3>1. disk' = disk
        BY <2>2 DEF WriteTmp, WriteTmpFail, WriteHandle, HandlesOpen, DurableInv
      <3> QED BY <1>5, <2>2, <3>1 DEF WriteTmp, WriteTmpFail
    <2> QED BY <1>5, <1>9, <2>1, <2>2
            DEF LoaderStep, ReadSegment, ReadSegmentFail, TruncateTmp, PublishLoaded
  <1>10. CASE Crash
    <2>1. \A r \in Recorders : wpc'[r] = "done" => wpc[r] = "done"
      BY <1>10 DEF Crash
    <2>2. \A r \in Recorders : wpc[r] \in {"done", "failed"} => wpc'[r] = wpc[r]
      BY <1>10 DEF Crash
    <2> QED BY <1>2, <1>10, <2>1, <2>2 DEF Crash
  <1>11. ASSUME NEW r \in Requests, RequestStep(r) PROVE SpoilInv'
    BY <1>5, <1>11 DEF RequestStep, ExactHit, ExactMiss, SwapHit, TotalMiss, Answer
  <1>12. ASSUME NEW w \in Writers, PublishLoad(w) PROVE SpoilInv'
    BY <1>6, <1>12 DEF PublishLoad, Recorders
  <1>13. CASE Start
    BY <1>5, <1>7, <1>12, <1>13 DEF Start, ReloadFull, StartLoad, BeginRequest
  <1>14. CASE Progress
    BY <1>5, <1>8, <1>9, <1>11, <1>14
       DEF Progress, ReloadOneFile, StartLoad, Debounce, BootLoad
  <1>15. CASE Cut
    BY <1>5, <1>10, <1>15 DEF Cut, AbandonReload
  <1>16. CASE UNCHANGED vars
    BY <1>5, <1>16
  <1> QED BY <1>13, <1>14, <1>15, <1>16 DEF Next

(* In every behaviour in which reloads do not overlap, writes that are cut *)
(* short spoil, of the lines written whole, no more than one each.         *)
THEOREM OneLineSpoiled ==
  ASSUME IsFiniteSet(Recorders), IsFiniteSet(Services)
  PROVE  Spec /\ []ReloadsApart => []CutSpoilsOneLine
  <1>1. Init => TypeInv /\ DurableInv
    BY TypeInit, DurableInit
  <1>2. Init => SpoilInv
    <2> SUFFICES ASSUME Init PROVE SpoilInv
      OBVIOUS
    <2>1. Spoiled = {} /\ OpenEnded = {} /\ Failed = {} /\ SpoilHistory
      BY DEF Init, Spoiled, OpenEnded, Failed, SpoilHistory, Recorders
    <2> QED BY <2>1, FS_EmptySet DEF SpoilInv
  <1>3. TypeInv /\ ReloadsApart /\ DurableInv /\ [Next]_vars => TypeInv' /\ DurableInv'
    BY TypeStep, DurableStep
  <1>4. TypeInv /\ TypeInv' /\ DurableInv /\ SpoilInv /\ [Next]_vars => SpoilInv'
    BY SpoilStep
  <1>5. TypeInv /\ SpoilInv => CutSpoilsOneLine
    <2> SUFFICES ASSUME TypeOK, SpoilInv PROVE CutSpoilsOneLine
      BY DEF TypeInv
    <2>1. IsFiniteSet(Spoiled) /\ IsFiniteSet(OpenEnded) /\ IsFiniteSet(Failed)
      BY SpoilFinite
    <2>2. Cardinality(Spoiled) \in Nat /\ Cardinality(OpenEnded) \in Nat
          /\ Cardinality(Failed) \in Nat
      BY <2>1, FS_CardinalityType
    <2> QED BY <2>2 DEF SpoilInv, CutSpoilsOneLine, Spoiled, Failed
  <1> QED BY <1>1, <1>2, <1>3, <1>4, <1>5, PTL DEF Spec
=============================================================================
