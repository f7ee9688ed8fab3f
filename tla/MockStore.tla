----------------------------- MODULE MockStore -----------------------------
(***************************************************************************)
(* The life of the mock library: the ArcSwap that publishes it (main.rs,   *)
(* io.rs), the handlers that insert an entry into it, the append log on    *)
(* disk, the loaders that rebuild it from disk and compact the log on the  *)
(* way, the file watcher that starts them, the requests it answers, and    *)
(* the crash and restart of the process.                                   *)
(*                                                                         *)
(* A file is the function its lines parse to, last line wins per key, with *)
(* what a write that was cut short leaves at its end; a file that does not *)
(* exist is NoFile.  Every step below is one system call, one atomic load  *)
(* or store, or code that runs without yielding.                           *)
(***************************************************************************)
EXTENDS MockLibrary, Naturals, Sequences, FiniteSets

CONSTANTS
  Writers,     \* requests that record one entry each: LEARN, POST /ghost/mocks
  Editors,     \* saves of a mock file by hand, one line each
  Requests,    \* requests answered in MOCK mode
  Loaders,     \* tasks that rebuild the library from disk
  Boot,        \* the load run_proxy performs before it serves
  Watcher,     \* the fs_watch task
  FsWatch,     \* TRUE iff MOCK_RELOAD_STRATEGY is fs_watch
  SmartSwap,   \* SMART_SWAP_ENABLED
  DiskFaults,  \* TRUE iff opening, reading or writing a file may fail
  MaxCrashes,  \* bound on the number of crashes
  NoFile,      \* the path names no file
  Part,        \* a part of a line, which does not parse
  NoService, NoMock, Pending   \* no file in hand; a miss; not answered yet

Recorders == Writers \cup Editors

(* What follows the last newline of a file: nothing, a part of a line, or  *)
(* an entry whose newline alone is missing.  A line that is cut within a   *)
(* character leaves bytes that are no UTF-8.                               *)
File == [lines: Segment, tail: Entries \cup {NoEntry, Part}, utf8: BOOLEAN]

ASSUME ProcessAssumption ==
  /\ Entries = Recorders          \* an entry is named by who recorded it
  /\ Boot \in Loaders /\ Watcher \in Loaders /\ Boot # Watcher
  /\ {FsWatch, SmartSwap, DiskFaults} \subseteq BOOLEAN
  /\ MaxCrashes \in Nat
  /\ NoFile \notin File /\ Part \notin Entries \cup {NoEntry} /\ NoService \notin Services
  /\ {NoMock, Pending} \cap Entries = {}

FullLoaders == Loaders \ {Boot, Watcher}  \* reload route, SIGHUP, poll ticker

VARIABLES
  up,        \* the listener accepts requests
  crashes,   \* crashes so far
  svcOf,     \* the service and
  keyOf,     \*   the key a recorder or a request is about
  live,      \* AppState.mocks, the published library
  wpc,       \* where a writer is
  wsnap,     \* the library a writer cloned
  disk,      \* the inode that mock_<svc>.jsonl names
  tmp,       \* the inode that mock_<svc>.jsonl.tmp names
  lpc,       \* where a loader is
  ltodo,     \* the services it has still to load
  lacc,      \* the library it builds
  lsvc,      \* the file in its hand,
  lparsed,   \*   what it parsed from it, and
  lfd,       \*   the inode its open tmp handle is, by the name it has now
  channel,   \* fs events not yet received by the watcher
  batch,     \* the paths of the current debounce window
  rpc,       \* where a request is
  rsnap,     \* the library it loaded at its start
  resp,      \* what it was answered with
  landed,    \* history: recorders in the order their lines reached the file
  raced,     \* history: recorders whose line met a compaction under way
  joined     \* history: recorders whose line runs on with another

writerVars  == <<wpc, wsnap>>
fileVars    == <<disk, tmp, landed, raced, joined>>
loaderVars  == <<lpc, ltodo, lacc, lsvc, lparsed, lfd>>
watchVars   == <<channel, batch>>
requestVars == <<rpc, rsnap, resp>>
inputVars   == <<svcOf, keyOf>>
vars == <<up, crashes, live, inputVars, writerVars, fileVars, loaderVars,
          watchVars, requestVars>>

Whole(seg) == [lines |-> seg, tail |-> NoEntry, utf8 |-> TRUE]
EmptyFile == Whole(EmptySegment)

WithLine(seg, e) == [seg EXCEPT ![keyOf[e]] = e]

(* The entries that stand on a line of their own, the last one with or     *)
(* without a newline.                                                      *)
Lines(file) ==
  IF file = NoFile THEN EmptySegment
  ELSE IF file.tail \in Entries THEN WithLine(file.lines, file.tail) ELSE file.lines

(* read_to_string and parse: nothing comes of a file that is not UTF-8.    *)
Parsed(file) ==
  IF file # NoFile /\ file.utf8 THEN Lines(file) ELSE EmptySegment

(* Variant for checking: the line is written without its newline.          *)
AppendedUnended(f, e) == [f EXCEPT !.tail = IF @ = NoEntry THEN e ELSE Part]

(* O_APPEND: the line lands on what an earlier one left, if anything, and  *)
(* ends it; together they do not parse.                                    *)
Appended(f, e) ==
  IF f.tail = NoEntry THEN [f EXCEPT !.lines = WithLine(@, e)]
  ELSE [f EXCEPT !.tail = NoEntry]

(* The recorders whose lines do not parse because e's lands on f.          *)
JoinedBy(f, e) == IF f.tail = NoEntry THEN {} ELSE {e, f.tail} \cap Entries

(* `std::fs::write` truncated before, but a handle shared by two loaders   *)
(* can still hold the other's bytes.  What of them is beyond the end of    *)
(* the new content survives: a broken line, which may begin within a       *)
(* character, then whole lines, which come last and win.                   *)
Mixed(old, new, written, tails) ==
  { [lines |-> [k \in Keys |-> IF k \in stale THEN old.lines[k]
                               ELSE IF k \in written THEN new[k] ELSE NoEntry],
     tail |-> t, utf8 |-> u] :
      stale \in SUBSET {k \in Keys : old.lines[k] # NoEntry},
      t \in tails, u \in BOOLEAN }

Overwrites(old, new) ==
  IF old = EmptyFile THEN {Whole(new)} ELSE Mixed(old, new, Keys, {NoEntry, old.tail})

(* The write ends early, after some lines and perhaps within one.          *)
CutShort(old, new) ==
  {old} \cup
  UNION { Mixed(old, new, written, {NoEntry, Part, old.tail} \cup {new[k] : k \in Keys \ written}) :
          written \in SUBSET {k \in Keys : new[k] # NoEntry} }

Compacting(s) ==
  \E l \in Loaders : lsvc[l] = s /\ lpc[l] \in {"trunc", "write", "rename"}

(* Variant for checking: events are not queued while the watcher reloads.  *)
NotifyWhenIdle(S) ==
  channel' = IF FsWatch /\ up /\ lpc[Watcher] = "idle" THEN channel \cup S ELSE channel

(* notify reports a change of a file in mock_dir to the running watcher.   *)
Notify(S) == channel' = IF FsWatch /\ up THEN channel \cup S ELSE channel

(***************************************************************************)
(* Writers: proxy_handler in LEARN mode and handle_create_mock.            *)
(***************************************************************************)
PublishLoad(w) ==
  /\ up /\ wpc[w] = "idle"
  /\ wpc' = [wpc EXCEPT ![w] = "loaded"]
  /\ wsnap' = [wsnap EXCEPT ![w] = live]
  /\ UNCHANGED <<up, crashes, live, inputVars, fileVars, loaderVars,
                 watchVars, requestVars>>

(* store() of the clone, spawn of the append, and the response.            *)
PublishStore(w) ==
  /\ wpc[w] = "loaded"
  /\ live' = Insert(wsnap[w], svcOf[w], keyOf[w], w)
  /\ wpc' = [wpc EXCEPT ![w] = "spawned"]
  /\ wsnap' = [wsnap EXCEPT ![w] = EmptyLibrary]
  /\ UNCHANGED <<up, crashes, inputVars, fileVars, loaderVars, watchVars,
                 requestVars>>

AppendOpen(w) ==
  LET s == svcOf[w] IN
  /\ wpc[w] = "spawned"
  /\ wpc' = [wpc EXCEPT ![w] = "opened"]
  /\ IF disk[s] = NoFile
       THEN disk' = [disk EXCEPT ![s] = EmptyFile] /\ Notify({s})
       ELSE UNCHANGED <<disk, channel>>
  /\ UNCHANGED <<up, crashes, live, inputVars, wsnap, tmp, landed, raced,
                 joined, loaderVars, batch, requestVars>>

(* History: the line of r is complete in the file of s.                    *)
Reached(r, s) ==
  /\ landed' = Append(landed, r)
  /\ raced' = IF Compacting(s) THEN raced \cup {r} ELSE raced

(* The line goes to the inode the handle was opened on; "orphaned" is one  *)
(* that a compaction has since renamed away.                               *)
AppendWrite(w) ==
  LET s == svcOf[w] IN
  /\ wpc[w] \in {"opened", "orphaned"}
  /\ wpc' = [wpc EXCEPT ![w] = "done"]
  /\ IF wpc[w] = "opened"
       THEN /\ disk' = [disk EXCEPT ![s] = Appended(@, w)]
            /\ Reached(w, s)
            /\ joined' = joined \cup JoinedBy(disk[s], w)
            /\ Notify({s})
       ELSE /\ raced' = raced \cup {w}
            /\ UNCHANGED <<disk, landed, joined, channel>>
  /\ UNCHANGED <<up, crashes, live, inputVars, wsnap, tmp, loaderVars, batch,
                 requestVars>>

(* The write ends early (the disk is full): within the line, perhaps       *)
(* within a character of it, or just before its newline.                   *)
LineCutShort(w, s) ==
  /\ \/ /\ \E u \in {disk[s].utf8, FALSE} :
             disk' = [disk EXCEPT ![s] = [@ EXCEPT !.tail = Part, !.utf8 = u]]
        /\ UNCHANGED <<landed, raced>>
     \/ /\ disk[s].tail = NoEntry
        /\ disk' = [disk EXCEPT ![s] = [@ EXCEPT !.tail = w]]
        /\ Reached(w, s)
  /\ joined' = joined \cup ({disk[s].tail} \cap Entries)
  /\ Notify({s})

(* The open failed, which is at most logged and counted, or the write did, *)
(* after tokio's File::write_all had returned: nobody learns of that one.  *)
(* It may have written a part of the line before.                          *)
AppendFail(w) ==
  /\ DiskFaults
  /\ wpc[w] \in {"spawned", "opened", "orphaned"}
  /\ wpc' = [wpc EXCEPT ![w] = "failed"]
  /\ \/ UNCHANGED <<disk, landed, raced, joined, channel>>
     \/ wpc[w] = "opened" /\ LineCutShort(w, svcOf[w])
  /\ UNCHANGED <<up, crashes, live, inputVars, wsnap, tmp, loaderVars, batch,
                 requestVars>>

(* External: somebody adds a line to a mock file in place, on what is left *)
(* of an earlier one or on a line of its own.                              *)
EditSave(e) ==
  LET s == svcOf[e]
      f == IF disk[s] = NoFile THEN EmptyFile ELSE disk[s] IN
  /\ wpc[e] = "idle"
  /\ wpc' = [wpc EXCEPT ![e] = "done"]
  /\ \/ /\ disk' = [disk EXCEPT ![s] = Appended(f, e)]
        /\ joined' = joined \cup JoinedBy(f, e)
     \/ /\ disk' = [disk EXCEPT ![s] =
                      [f EXCEPT !.lines = WithLine(Lines(f), e), !.tail = NoEntry]]
        /\ UNCHANGED joined
  /\ Reached(e, s)
  /\ Notify({s})
  /\ UNCHANGED <<up, crashes, live, inputVars, wsnap, tmp, loaderVars, batch,
                 requestVars>>

(***************************************************************************)
(* Loaders: reload_full, reload_one_file, load_one_segment.                *)
(***************************************************************************)
StartLoad(l, base, todo) ==
  /\ lpc[l] = "idle"
  /\ lpc' = [lpc EXCEPT ![l] = "scan"]
  /\ lacc' = [lacc EXCEPT ![l] = base]
  /\ ltodo' = [ltodo EXCEPT ![l] = todo]
  /\ UNCHANGED <<up, crashes, live, inputVars, writerVars, fileVars, lsvc,
                 lparsed, lfd, channel, requestVars>>

ReloadFull(l) ==
  /\ up /\ l \in FullLoaders
  /\ StartLoad(l, EmptyLibrary, Services)
  /\ UNCHANGED batch

BootLoad ==
  /\ ~up
  /\ StartLoad(Boot, EmptyLibrary, Services)
  /\ UNCHANGED batch

(* reload_one_file takes its snapshot before it awaits the file.           *)
ReloadOneFile(s) ==
  /\ up /\ s \in batch
  /\ StartLoad(Watcher, live, {s})
  /\ batch' = batch \ {s}

(* A file that reads to no entry is left as it is.                         *)
ReadSegment(l, s) ==
  /\ lpc[l] = "scan" /\ s \in ltodo[l]
  /\ ltodo' = [ltodo EXCEPT ![l] = @ \ {s}]
  /\ lacc' = [lacc EXCEPT ![l] = SetSegment(@, s, Parsed(disk[s]))]
  /\ IF Parsed(disk[s]) = EmptySegment
       THEN UNCHANGED <<lpc, lsvc, lparsed>>
       ELSE /\ lpc' = [lpc EXCEPT ![l] = "trunc"]
            /\ lsvc' = [lsvc EXCEPT ![l] = s]
            /\ lparsed' = [lparsed EXCEPT ![l] = Parsed(disk[s])]
  /\ UNCHANGED <<up, crashes, live, inputVars, writerVars, fileVars, lfd,
                 watchVars, requestVars>>

(* read_to_string failed: the segment is dropped, the file kept.           *)
ReadSegmentFail(l, s) ==
  /\ DiskFaults
  /\ lpc[l] = "scan" /\ s \in ltodo[l]
  /\ ltodo' = [ltodo EXCEPT ![l] = @ \ {s}]
  /\ lacc' = [lacc EXCEPT ![l] = SetSegment(@, s, EmptySegment)]
  /\ UNCHANGED <<up, crashes, live, inputVars, writerVars, fileVars, lpc, lsvc,
                 lparsed, lfd, watchVars, requestVars>>

(* Variant for checking: the mock file is rewritten in place.              *)
TruncateMain(l) ==
  /\ lpc[l] = "trunc"
  /\ lpc' = [lpc EXCEPT ![l] = "write"]
  /\ disk' = [disk EXCEPT ![lsvc[l]] = EmptyFile]
  /\ lfd' = [lfd EXCEPT ![l] = "main"]
  /\ UNCHANGED <<up, crashes, live, inputVars, writerVars, tmp, landed, raced,
                 joined, ltodo, lacc, lsvc, lparsed, watchVars, requestVars>>

(* fs::write opens the tmp file and truncates it ...                       *)
TruncateTmp(l) ==
  /\ lpc[l] = "trunc"
  /\ lpc' = [lpc EXCEPT ![l] = "write"]
  /\ tmp' = [tmp EXCEPT ![lsvc[l]] = EmptyFile]
  /\ lfd' = [lfd EXCEPT ![l] = "tmp"]
  /\ UNCHANGED <<up, crashes, live, inputVars, writerVars, disk, landed, raced,
                 joined, ltodo, lacc, lsvc, lparsed, watchVars, requestVars>>

(* The new content of what the loader's handle is on by now.               *)
WriteHandle(l, Content(_, _)) ==
  LET s == lsvc[l] IN
  CASE lfd[l] = "tmp" ->
         /\ \E f \in Content(tmp[s], lparsed[l]) : tmp' = [tmp EXCEPT ![s] = f]
         /\ UNCHANGED <<disk, channel>>
    [] lfd[l] = "main" ->
         /\ \E f \in Content(disk[s], lparsed[l]) : disk' = [disk EXCEPT ![s] = f]
         /\ Notify({s})
         /\ UNCHANGED tmp
    [] OTHER -> UNCHANGED <<disk, tmp, channel>>

(* ... and writes the compacted lines to it.                               *)
WriteTmp(l) ==
  /\ lpc[l] = "write"
  /\ lpc' = [lpc EXCEPT ![l] = "rename"]
  /\ lfd' = [lfd EXCEPT ![l] = "none"]
  /\ WriteHandle(l, Overwrites)
  /\ UNCHANGED <<up, crashes, live, inputVars, writerVars, landed, raced, joined,
                 ltodo, lacc, lsvc, lparsed, batch, requestVars>>

DropFile(l) ==
  /\ lpc' = [lpc EXCEPT ![l] = "scan"]
  /\ lsvc' = [lsvc EXCEPT ![l] = NoService]
  /\ lparsed' = [lparsed EXCEPT ![l] = EmptySegment]

(* Opening or writing tmp failed, the write perhaps after some of it: the  *)
(* segment is used, nothing is renamed.                                    *)
WriteTmpFail(l) ==
  /\ DiskFaults
  /\ lpc[l] \in {"trunc", "write"}
  /\ DropFile(l)
  /\ lfd' = [lfd EXCEPT ![l] = "none"]
  /\ WriteHandle(l, CutShort)
  /\ UNCHANGED <<up, crashes, live, inputVars, writerVars, landed, raced, joined,
                 ltodo, lacc, batch, requestVars>>

(* rename(tmp, path), which fails when another loader has renamed it.      *)
(* Handles follow the inode: an open tmp handle now is the main file, one  *)
(* on the replaced file writes to no path.                                 *)
RenameTmp(l) ==
  LET s == lsvc[l] IN
  /\ lpc[l] = "rename"
  /\ DropFile(l)
  /\ IF tmp[s] = NoFile
       THEN UNCHANGED <<disk, tmp, wpc, lfd, channel>>
       ELSE /\ disk' = [disk EXCEPT ![s] = tmp[s]]
            /\ tmp' = [tmp EXCEPT ![s] = NoFile]
            /\ wpc' = [w \in Recorders |->
                         IF wpc[w] = "opened" /\ svcOf[w] = s
                           THEN "orphaned" ELSE wpc[w]]
            /\ lfd' = [m \in Loaders |->
                         CASE lsvc[m] = s /\ lfd[m] = "tmp"  -> "main"
                           [] lsvc[m] = s /\ lfd[m] = "main" -> "orphan"
                           [] OTHER -> lfd[m]]
            /\ Notify({s})
  /\ UNCHANGED <<up, crashes, live, inputVars, wsnap, landed, raced, joined,
                 ltodo, lacc, batch, requestVars>>

(* store.store(..): the rebuilt library replaces the live one.             *)
PublishLoaded(l) ==
  /\ lpc[l] = "scan" /\ ltodo[l] = {}
  /\ live' = lacc[l]
  /\ up' = TRUE
  /\ lpc' = [lpc EXCEPT ![l] = "idle"]
  /\ lacc' = [lacc EXCEPT ![l] = EmptyLibrary]
  /\ UNCHANGED <<crashes, inputVars, writerVars, fileVars, ltodo, lsvc,
                 lparsed, lfd, watchVars, requestVars>>

(* The client of a reload request hangs up: the handler is dropped where   *)
(* it awaits.  A write it began goes on, so it is dropped after it.        *)
AbandonReload(l) ==
  /\ l \in FullLoaders /\ lpc[l] \in {"scan", "rename"}
  /\ lpc' = [lpc EXCEPT ![l] = "idle"]
  /\ ltodo' = [ltodo EXCEPT ![l] = {}]
  /\ lacc' = [lacc EXCEPT ![l] = EmptyLibrary]
  /\ lsvc' = [lsvc EXCEPT ![l] = NoService]
  /\ lparsed' = [lparsed EXCEPT ![l] = EmptySegment]
  /\ UNCHANGED <<up, crashes, live, inputVars, writerVars, fileVars, lfd,
                 watchVars, requestVars>>

(* The debounce window closes: the watcher works on all it received.       *)
Debounce ==
  /\ up /\ batch = {} /\ lpc[Watcher] = "idle" /\ channel # {}
  /\ batch' = channel
  /\ channel' = {}
  /\ UNCHANGED <<up, crashes, live, inputVars, writerVars, fileVars,
                 loaderVars, requestVars>>

(***************************************************************************)
(* Requests: the library phases of proxy_handler in MOCK mode.             *)
(***************************************************************************)
BeginRequest(r) ==
  /\ up /\ rpc[r] = "idle"
  /\ rpc' = [rpc EXCEPT ![r] = "exact"]
  /\ rsnap' = [rsnap EXCEPT ![r] = live]
  /\ UNCHANGED <<up, crashes, live, inputVars, writerVars, fileVars,
                 loaderVars, watchVars, resp>>

Answer(r, a) ==
  /\ resp' = [resp EXCEPT ![r] = a]
  /\ rpc' = [rpc EXCEPT ![r] = "done"]
  /\ rsnap' = [rsnap EXCEPT ![r] = EmptyLibrary]
  /\ UNCHANGED <<up, crashes, live, inputVars, writerVars, fileVars,
                 loaderVars, watchVars>>

(* Variant for checking: the look-up is not tested for a miss.             *)
ExactUnchecked(r) ==
  /\ rpc[r] = "exact"
  /\ Answer(r, FindExact(rsnap[r], svcOf[r], keyOf[r]))

ExactHit(r) ==
  /\ rpc[r] = "exact"
  /\ FindExact(rsnap[r], svcOf[r], keyOf[r]) # NoEntry
  /\ Answer(r, FindExact(rsnap[r], svcOf[r], keyOf[r]))

(* No entry, or one recorded for another body; the next phases (sequences, *)
(* resources) do not touch the library.                                    *)
ExactMiss(r) ==
  /\ rpc[r] = "exact"
  /\ rpc' = [rpc EXCEPT ![r] = "swap"]
  /\ UNCHANGED <<up, crashes, live, inputVars, writerVars, fileVars,
                 loaderVars, watchVars, rsnap, resp>>

(* Variant for checking: the library is loaded again for the swap.         *)
SwapReloading(r) ==
  /\ rpc[r] = "swap" /\ SmartSwap
  /\ \E e \in SwapCandidates(live, svcOf[r], keyOf[r]) : Answer(r, e)

SwapHit(r) ==
  /\ rpc[r] = "swap" /\ SmartSwap
  /\ \E e \in SwapCandidates(rsnap[r], svcOf[r], keyOf[r]) : Answer(r, e)

(* No candidate, or none that can be substituted safely.                   *)
TotalMiss(r) ==
  /\ rpc[r] = "swap"
  /\ Answer(r, NoMock)

(***************************************************************************)
(* The process dies at any point; its files stay.                          *)
(***************************************************************************)
Crash ==
  /\ crashes < MaxCrashes
  /\ crashes' = crashes + 1
  /\ up' = FALSE
  /\ live' = EmptyLibrary
  /\ wpc' = [w \in Recorders |-> IF w \in Writers /\ wpc[w] \notin {"idle", "done"}
                                   THEN "failed" ELSE wpc[w]]
  /\ wsnap' = [w \in Writers |-> EmptyLibrary]
  /\ lpc' = [l \in Loaders |-> "idle"]
  /\ ltodo' = [l \in Loaders |-> {}]
  /\ lacc' = [l \in Loaders |-> EmptyLibrary]
  /\ lsvc' = [l \in Loaders |-> NoService]
  /\ lparsed' = [l \in Loaders |-> EmptySegment]
  /\ lfd' = [l \in Loaders |-> "none"]
  /\ channel' = {} /\ batch' = {}
  /\ rpc' = [r \in Requests |-> IF rpc[r] \in {"exact", "swap"} THEN "done" ELSE rpc[r]]
  /\ rsnap' = [r \in Requests |-> EmptyLibrary]
  /\ UNCHANGED <<inputVars, fileVars, resp>>

-----------------------------------------------------------------------------
Init ==
  /\ up = TRUE /\ crashes = 0
  /\ svcOf \in [Recorders \cup Requests -> Services]
  /\ keyOf \in [Recorders \cup Requests -> Keys]
  /\ live = EmptyLibrary
  /\ wpc = [w \in Recorders |-> "idle"]
  /\ wsnap = [w \in Writers |-> EmptyLibrary]
  /\ disk = [s \in Services |-> NoFile]
  /\ tmp = [s \in Services |-> NoFile]
  /\ lpc = [l \in Loaders |-> "idle"]
  /\ ltodo = [l \in Loaders |-> {}]
  /\ lacc = [l \in Loaders |-> EmptyLibrary]
  /\ lsvc = [l \in Loaders |-> NoService]
  /\ lparsed = [l \in Loaders |-> EmptySegment]
  /\ lfd = [l \in Loaders |-> "none"]
  /\ channel = {} /\ batch = {}
  /\ rpc = [r \in Requests |-> "idle"]
  /\ rsnap = [r \in Requests |-> EmptyLibrary]
  /\ resp = [r \in Requests |-> Pending]
  /\ landed = <<>> /\ raced = {} /\ joined = {}

WriterStep(w) ==
  PublishStore(w) \/ AppendOpen(w) \/ AppendWrite(w) \/ AppendFail(w)

LoaderStep(l) ==
  \/ \E s \in Services : ReadSegment(l, s) \/ ReadSegmentFail(l, s)
  \/ TruncateTmp(l) \/ WriteTmp(l) \/ WriteTmpFail(l) \/ RenameTmp(l)
  \/ PublishLoaded(l)

RequestStep(r) == ExactHit(r) \/ ExactMiss(r) \/ SwapHit(r) \/ TotalMiss(r)

(* What a client or an operator sets off ...                               *)
Start ==
  \/ \E w \in Writers : PublishLoad(w)
  \/ \E e \in Editors : EditSave(e)
  \/ \E l \in FullLoaders : ReloadFull(l)
  \/ \E r \in Requests : BeginRequest(r)

(* ... and what the process does of itself.                                *)
Progress ==
  \/ \E w \in Writers : WriterStep(w)
  \/ \E l \in Loaders : LoaderStep(l)
  \/ \E s \in Services : ReloadOneFile(s)
  \/ \E r \in Requests : RequestStep(r)
  \/ Debounce
  \/ BootLoad

(* What cuts work short.                                                   *)
Cut == Crash \/ \E l \in FullLoaders : AbandonReload(l)

Next == Start \/ Progress \/ Cut

Spec == Init /\ [][Next]_vars

(* The runtime polls every task that is ready and system calls return.     *)
Fairness ==
  /\ \A w \in Writers : WF_vars(WriterStep(w))
  /\ \A l \in Loaders : WF_vars(LoaderStep(l))
  /\ \A s \in Services : WF_vars(ReloadOneFile(s))
  /\ \A r \in Requests : WF_vars(RequestStep(r))
  /\ WF_vars(Debounce)
  /\ WF_vars(BootLoad)

FairSpec == Spec /\ Fairness

(***************************************************************************)
(* Properties.                                                             *)
(***************************************************************************)
TypeOK ==
  /\ up \in BOOLEAN /\ crashes \in 0..MaxCrashes
  /\ svcOf \in [Recorders \cup Requests -> Services]
  /\ keyOf \in [Recorders \cup Requests -> Keys]
  /\ live \in Library
  /\ wpc \in [Recorders -> {"idle", "loaded", "spawned", "opened", "orphaned",
                            "done", "failed"}]
  /\ wsnap \in [Writers -> Library]
  /\ disk \in [Services -> File \cup {NoFile}]
  /\ tmp \in [Services -> File \cup {NoFile}]
  /\ lpc \in [Loaders -> {"idle", "scan", "trunc", "write", "rename"}]
  /\ ltodo \in [Loaders -> SUBSET Services]
  /\ lacc \in [Loaders -> Library]
  /\ lsvc \in [Loaders -> Services \cup {NoService}]
  /\ lparsed \in [Loaders -> Segment]
  /\ lfd \in [Loaders -> {"none", "tmp", "main", "orphan"}]
  /\ channel \subseteq Services /\ batch \subseteq Services
  /\ rpc \in [Requests -> {"idle", "exact", "swap", "done"}]
  /\ rsnap \in [Requests -> Library]
  /\ resp \in [Requests -> Entries \cup {NoMock, Pending}]
  /\ landed \in Seq(Recorders) /\ raced \cup joined \subseteq Recorders

(* Per-test isolation (main.rs:1401-1410, io.rs:48): a request is answered *)
(* only with an entry recorded for its service and under its tenant,       *)
(* whatever reloads, compactions and publishes happened in between.        *)
TenantIsolation ==
  \A r \in Requests : resp[r] \in Entries =>
    /\ svcOf[resp[r]] = svcOf[r]
    /\ TenantOf[keyOf[resp[r]]] = TenantOf[keyOf[r]]

(* A request under way is answered from the one library it loaded at its   *)
(* start (README.md:90): the handlers, loaders and watcher implement the   *)
(* promise of SnapshotServing.                                             *)
Serving == INSTANCE SnapshotServing WITH
  asked <- [r \in Requests |-> <<svcOf[r], keyOf[r]>>],
  current <- live,
  view <- rsnap,
  status <- [r \in Requests |->
               IF rpc[r] \in {"exact", "swap"} THEN "open" ELSE rpc[r]],
  answer <- resp
ServesSnapshot == Serving!Spec

(* At most one loader is at work: what the lines of a file rely on.        *)
ReloadsApart == \A l, m \in Loaders : lpc[l] # "idle" /\ lpc[m] # "idle" => l = m

(* Compaction is crash-safe and never goes back (io.rs:168-176): a line    *)
(* that reached the file outside a compaction of that file, and does not   *)
(* run on with a line a failing write cut short, stays there until a later *)
(* line for its key replaces it, through any number of compactions, failed *)
(* reads and writes and crashes, as long as reloads do not overlap.  That  *)
(* it is there does not say that it is read: in a file that a write cut    *)
(* within a character, nothing is (SurvivesRestart).                       *)
DurableOnceWhole ==
  \A i \in DOMAIN landed : landed[i] \notin raced \cup joined =>
    Lines(disk[svcOf[landed[i]]])[keyOf[landed[i]]]
      \in { landed[j] : j \in i..Len(landed) }

(* A write that is cut short spoils one line besides its own, the next     *)
(* that lands on it, and no more (io.rs:243-266), whatever is appended,    *)
(* edited, compacted or restarted after it: of the lines that were written *)
(* whole, no more run on with another than writes have failed, as long as  *)
(* reloads do not overlap.                                                 *)
CutSpoilsOneLine ==
  Cardinality({r \in joined : wpc[r] = "done"})
    <= Cardinality({w \in Writers : wpc[w] = "failed"})

(* Every line in a file is served in the end under fs_watch, and stays     *)
(* served: publishes that undo a reload, and reloads that undo a publish,  *)
(* are repaired by the reloads that follow.                                *)
Converges == <>[](live = [s \in Services |-> Parsed(disk[s])])

(* main.rs:982-985: new requests see a recorded entry, until something is  *)
(* recorded over it.                                                       *)
NewRequestsSeeEntry ==
  \A w \in Writers :
    /\ wpc[w] \in {"spawned", "opened", "orphaned", "done"}
    /\ \A v \in Recorders \ {w} : <<svcOf[v], keyOf[v]>> # <<svcOf[w], keyOf[w]>>
    => live[svcOf[w]][keyOf[w]] = w

(* main.rs:984-985: an appended entry survives a restart, that is, it is   *)
(* in what the restart reads of the file.                                  *)
SurvivesRestart ==
  \A w \in Writers :
    /\ wpc[w] = "done"
    /\ \A v \in Recorders \ {w} : <<svcOf[v], keyOf[v]>> # <<svcOf[w], keyOf[w]>>
    => Parsed(disk[svcOf[w]])[keyOf[w]] = w

(* io.rs:23-26: a reload of one file leaves the other segments untouched.  *)
SegmentsIndependent ==
  [][ lpc[Watcher] = "scan" /\ lpc'[Watcher] = "idle" /\ up
      => \E s \in Services : \A t \in Services \ {s} : live'[t] = live[t] ]_vars

(* README.md:85: the debounce coalesces the events of a save; once nobody  *)
(* writes any more the watcher comes to rest.                              *)
WatcherSettles == <>[](channel = {} /\ batch = {} /\ lpc[Watcher] = "idle")
=============================================================================
