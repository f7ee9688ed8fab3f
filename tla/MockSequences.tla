--------------------------- MODULE MockSequences ---------------------------
(***************************************************************************)
(* Mock sequences: the list of definitions and the map of cursors, each    *)
(* behind a RwLock of its own; the requests that take a response and move  *)
(* the cursor; the admin handlers; the saves these spawn, which all write  *)
(* the file through one tmp path; and the restart of the process.          *)
(*                                                                         *)
(* Whoever takes both locks takes sequences first.  Code that holds the    *)
(* cursors does not yield, so only the wait for them is a step.            *)
(***************************************************************************)
EXTENDS Naturals, Sequences

CONSTANTS
  Ids, Endpoints,
  Defs,         \* MockSequence values
  IdOf,         \* [Defs -> Ids]
  Length,       \* [Defs -> Nat], how many responses it has
  Loops,        \* those with loop_responses
  Answers,      \* <<definition, endpoint>>: method equal and paths match
  Requests,     \* MOCK requests that get as far as the sequence phase
  Admins,       \* POST, DELETE and reset requests
  CursorValues, \* how many values a cursor can have: it is a u32
  DiskFaults,   \* TRUE iff a save, or the read at boot, may fail
  Disconnects,  \* TRUE iff clients may hang up: the handler is dropped
  MaxCrashes,   \* bound on the number of crashes
  None          \* no cursor, no definition, no file

Jobs == [kind: {"create"}, def: Defs] \cup [kind: {"reset", "delete"}, id: Ids]

ASSUME SequencesAssumption ==
  /\ IdOf \in [Defs -> Ids] /\ Length \in [Defs -> Nat]
  /\ Loops \subseteq Defs /\ Answers \subseteq Defs \X Endpoints
  /\ CursorValues \in Nat \ {0} /\ MaxCrashes \in Nat
  /\ {DiskFaults, Disconnects} \subseteq BOOLEAN
  /\ Requests \cap Admins = {}
  /\ None \notin Nat /\ None \notin Defs /\ None \notin Seq(Defs)

VARIABLES
  sequences,  \* AppState.sequences
  counters,   \* AppState.sequence_counters: [Ids -> cursor or None]
  crashes,
  asked,      \* the endpoint a request asks for
  job,        \* what an admin request asks for
  pc,         \* "locked": holds the sequences lock and waits for counters
  spc,        \* where the save an admin request spawned is
  all,        \* the list it saves
  sfd,        \* the inode its handle is open on, by its name
  file, tmp,  \* sequences.jsonl and its .tmp: a list of lines, or None
  turns,      \* history: what each cursor gave since it was last dropped
  raced,      \* history: the list was changed before it had been saved
  listed      \* history: the list before the last delete

inputVars == <<asked, job>>
histVars  == <<turns, raced, listed>>
saveVars  == <<spc, all, sfd, file, tmp>>
vars == <<sequences, counters, crashes, inputVars, pc, saveVars, histVars>>

WithId(s, id) == {i \in DOMAIN s : IdOf[s[i]] = id}

(* Kept(s, id)[n] is what the first n definitions of s leave.              *)
Kept(s, id) ==
  LET kept[n \in 0..Len(s)] ==
        IF n = 0 THEN <<>>
        ELSE IF IdOf[s[n]] = id THEN kept[n - 1] ELSE Append(kept[n - 1], s[n])
  IN  kept
Retain(s, id) == Kept(s, id)[Len(s)]

(* RwLock of the list: a request reads it, create and delete write it.     *)
CanWrite == \A o \in Requests \cup Admins : pc[o] # "locked"
CanRead  == \A a \in Admins : pc[a] # "locked"

(* Those whose save is still to come or under way.                         *)
Unsaved ==
  {a \in Admins : pc[a] = "locked" \/ spc[a] \notin {"none", "saved"}}

(***************************************************************************)
(* find_sequence_response                                                  *)
(***************************************************************************)
First(s, e) ==
  LET hits == {i \in DOMAIN s : <<s[i], e>> \in Answers}
  IN  IF hits = {} THEN None ELSE s[CHOOSE i \in hits : \A j \in hits : i <= j]
Found(r) == First(sequences, asked[r])

(* Variant for checking: cursors count from one.                           *)
IndexFromOne(d, cursor) == IF cursor < Length[d] THEN cursor - 1 ELSE Length[d] - 1

Index(d, cursor) == IF cursor < Length[d] THEN cursor ELSE Length[d] - 1

(* Variant for checking: a loop stays at its end.                          *)
AdvanceToEnd(d, cursor) ==
  IF d \in Loops /\ cursor + 1 = Length[d] THEN cursor ELSE (cursor + 1) % CursorValues

Advance(d, cursor) ==
  (IF d \in Loops THEN (cursor + 1) % Length[d] ELSE cursor + 1) % CursorValues

(* or_insert(0)                                                            *)
Cursor(id) == IF counters[id] = None THEN 0 ELSE counters[id]

(* Variant for checking: the list is read without its lock.                *)
ReadUnlocked(r) ==
  /\ pc[r] = "idle"
  /\ pc' = [pc EXCEPT ![r] = "locked"]
  /\ UNCHANGED <<sequences, counters, crashes, inputVars, saveVars, histVars>>

LockForRequest(r) ==
  /\ pc[r] = "idle" /\ CanRead
  /\ pc' = [pc EXCEPT ![r] = "locked"]
  /\ UNCHANGED <<sequences, counters, crashes, inputVars, saveVars, histVars>>

ServeSequence(r) ==
  LET d == Found(r) IN
  /\ pc[r] = "locked"
  /\ pc' = [pc EXCEPT ![r] = "done"]
  /\ IF d = None \/ Length[d] = 0
       THEN UNCHANGED <<counters, turns>>
       ELSE LET id == IdOf[d] IN
            /\ counters' = [counters EXCEPT ![id] = Advance(d, Cursor(id))]
            /\ turns' = [turns EXCEPT ![id] =
                 Append(@, [def |-> d, index |-> Index(d, Cursor(id))])]
  /\ UNCHANGED <<sequences, crashes, inputVars, saveVars, raced, listed>>

(***************************************************************************)
(* Admin handlers.                                                         *)
(***************************************************************************)
SpawnSave(a, list) ==
  /\ spc' = [spc EXCEPT ![a] = "spawned"]
  /\ all' = [all EXCEPT ![a] = list]
  /\ UNCHANGED <<sfd, file, tmp>>

(* A definition replaced goes to the end; its cursor stays where it is.    *)
CreateSequence(a) ==
  /\ pc[a] = "idle" /\ job[a].kind = "create" /\ CanWrite
  /\ sequences' = Append(Retain(sequences, IdOf[job[a].def]), job[a].def)
  /\ SpawnSave(a, sequences')
  /\ pc' = [pc EXCEPT ![a] = "done"]
  /\ raced' = (raced \/ Unsaved # {})
  /\ UNCHANGED <<counters, crashes, inputVars, turns, listed>>

ResetSequence(a) ==
  /\ pc[a] = "idle" /\ job[a].kind = "reset"
  /\ counters' = [counters EXCEPT ![job[a].id] = None]
  /\ turns' = [turns EXCEPT ![job[a].id] = <<>>]
  /\ pc' = [pc EXCEPT ![a] = "done"]
  /\ UNCHANGED <<sequences, crashes, inputVars, saveVars, raced, listed>>

DeleteSequence(a) ==
  /\ pc[a] = "idle" /\ job[a].kind = "delete" /\ CanWrite
  /\ sequences' = Retain(sequences, job[a].id)
  /\ pc' = [pc EXCEPT ![a] = "locked"]
  /\ raced' = (raced \/ Unsaved # {})
  /\ listed' = sequences
  /\ UNCHANGED <<counters, crashes, inputVars, saveVars, turns>>

(* Variant for checking: the cursor is forgotten.                          *)
KeepCursor(a) ==
  /\ pc[a] = "locked" /\ job[a].kind = "delete"
  /\ SpawnSave(a, sequences)
  /\ pc' = [pc EXCEPT ![a] = "done"]
  /\ UNCHANGED <<sequences, counters, crashes, inputVars, histVars>>

(* Variant for checking: the list is read under a second lock.             *)
DeleteRelocking(a) ==
  /\ pc[a] = "locked" /\ job[a].kind = "delete" /\ CanRead
  /\ counters' = [counters EXCEPT ![job[a].id] = None]
  /\ turns' = [turns EXCEPT ![job[a].id] = <<>>]
  /\ SpawnSave(a, sequences)
  /\ pc' = [pc EXCEPT ![a] = "done"]
  /\ UNCHANGED <<sequences, crashes, inputVars, raced, listed>>

DeleteCursor(a) ==
  /\ pc[a] = "locked" /\ job[a].kind = "delete"
  /\ counters' = [counters EXCEPT ![job[a].id] = None]
  /\ turns' = [turns EXCEPT ![job[a].id] = <<>>]
  /\ SpawnSave(a, sequences)
  /\ pc' = [pc EXCEPT ![a] = "done"]
  /\ UNCHANGED <<sequences, crashes, inputVars, raced, listed>>

(* The handler is dropped while it waits, and its lock with it.            *)
Disconnect(o) ==
  /\ Disconnects
  /\ pc[o] = "locked"
  /\ pc' = [pc EXCEPT ![o] = "dropped"]
  /\ UNCHANGED <<sequences, counters, crashes, inputVars, saveVars, histVars>>

(***************************************************************************)
(* save_sequences                                                          *)
(***************************************************************************)
Lines(f) == IF f = None THEN <<>> ELSE f

(* Whole lines of an older content that a second handle left at the end.   *)
Overwrites(old, new) ==
  { new \o SubSeq(old, cut + 1, Len(old)) :
      cut \in IF new = <<>> THEN {0} ELSE 1..Len(old) + 1 }

(* A write that is cut short leaves some first lines of what it writes; if *)
(* it ends within the first one, some line of the older content may go too. *)
CutShort(old, new) ==
  { SubSeq(old, cut + 1, Len(old)) : cut \in 0..Len(old) } \cup
  UNION { Overwrites(old, SubSeq(new, 1, n)) : n \in 1..Len(new) }

(* Variant for checking: the file is written in place.                     *)
SaveInPlace(a) ==
  /\ spc[a] = "spawned"
  /\ file' = <<>>
  /\ sfd' = [sfd EXCEPT ![a] = "main"]
  /\ spc' = [spc EXCEPT ![a] = "truncated"]
  /\ UNCHANGED <<sequences, counters, crashes, inputVars, pc, all, tmp, histVars>>

SaveTruncate(a) ==
  /\ spc[a] = "spawned"
  /\ tmp' = <<>>
  /\ sfd' = [sfd EXCEPT ![a] = "tmp"]
  /\ spc' = [spc EXCEPT ![a] = "truncated"]
  /\ UNCHANGED <<sequences, counters, crashes, inputVars, pc, all, file, histVars>>

SaveWrite(a) ==
  /\ spc[a] = "truncated"
  /\ CASE sfd[a] = "tmp"  -> tmp' \in Overwrites(tmp, all[a]) /\ UNCHANGED file
       [] sfd[a] = "main" -> file' \in Overwrites(file, all[a]) /\ UNCHANGED tmp
       [] OTHER -> UNCHANGED <<file, tmp>>
  /\ sfd' = [sfd EXCEPT ![a] = "none"]
  /\ spc' = [spc EXCEPT ![a] = "written"]
  /\ UNCHANGED <<sequences, counters, crashes, inputVars, pc, all, histVars>>

(* An open or a write that fails is not reported, and nothing is renamed;  *)
(* what was written of it stays.                                           *)
SaveFail(a) ==
  /\ DiskFaults /\ spc[a] \in {"spawned", "truncated"}
  /\ \/ UNCHANGED <<file, tmp>>
     \/ /\ spc[a] = "truncated"
        /\ \/ sfd[a] = "tmp" /\ tmp' \in CutShort(tmp, all[a]) /\ UNCHANGED file
           \/ sfd[a] = "main" /\ file' \in CutShort(file, all[a]) /\ UNCHANGED tmp
  /\ sfd' = [sfd EXCEPT ![a] = "none"]
  /\ spc' = [spc EXCEPT ![a] = "saved"]
  /\ UNCHANGED <<sequences, counters, crashes, inputVars, pc, all, histVars>>

SaveRename(a) ==
  /\ spc[a] = "written"
  /\ IF tmp = None
       THEN UNCHANGED <<file, tmp, sfd>>
       ELSE /\ file' = tmp
            /\ tmp' = None
            /\ sfd' = [b \in Admins |-> CASE sfd[b] = "tmp"  -> "main"
                                          [] sfd[b] = "main" -> "orphan"
                                          [] OTHER -> sfd[b]]
  /\ spc' = [spc EXCEPT ![a] = "saved"]
  /\ UNCHANGED <<sequences, counters, crashes, inputVars, pc, all, histVars>>

(* The process dies at any point; the next boot loads the file, or no list *)
(* if it cannot read it, and starts with no cursors, before it serves.     *)
Restart ==
  /\ crashes < MaxCrashes
  /\ crashes' = crashes + 1
  /\ \/ sequences' = Lines(file)
     \/ DiskFaults /\ sequences' = <<>>
  /\ counters' = [id \in Ids |-> None]
  /\ turns' = [id \in Ids |-> <<>>]
  /\ pc' = [o \in Requests \cup Admins |-> IF pc[o] = "idle" THEN "idle" ELSE "gone"]
  /\ spc' = [a \in Admins |-> IF spc[a] = "none" THEN "none" ELSE "saved"]
  /\ sfd' = [a \in Admins |-> "none"]
  /\ UNCHANGED <<inputVars, all, file, tmp, raced, listed>>

-----------------------------------------------------------------------------
Init ==
  /\ sequences = <<>> /\ counters = [id \in Ids |-> None] /\ crashes = 0
  /\ asked \in [Requests -> Endpoints]
  /\ job \in [Admins -> Jobs]
  /\ pc = [o \in Requests \cup Admins |-> "idle"]
  /\ spc = [a \in Admins |-> "none"]
  /\ all = [a \in Admins |-> <<>>]
  /\ sfd = [a \in Admins |-> "none"]
  /\ file = None /\ tmp = None
  /\ turns = [id \in Ids |-> <<>>] /\ raced = FALSE /\ listed = <<>>

RequestStep(r) == LockForRequest(r) \/ ServeSequence(r)
BeginAdmin(a) == CreateSequence(a) \/ ResetSequence(a) \/ DeleteSequence(a)
AdminStep(a) == BeginAdmin(a) \/ DeleteCursor(a)
SaveStep(a) == SaveTruncate(a) \/ SaveWrite(a) \/ SaveFail(a) \/ SaveRename(a)

Next ==
  \/ \E r \in Requests : RequestStep(r)
  \/ \E a \in Admins : AdminStep(a) \/ SaveStep(a)
  \/ \E o \in Requests \cup Admins : Disconnect(o)
  \/ Restart

Spec == Init /\ [][Next]_vars

(* A handler whose lock is free is polled again.                           *)
FairSpec ==
  /\ Spec
  /\ \A r \in Requests : WF_vars(RequestStep(r))
  /\ \A a \in Admins : WF_vars(AdminStep(a))

AtRest ==
  /\ CanWrite
  /\ \A a \in Admins : spc[a] \in {"none", "saved"}

(***************************************************************************)
(* Properties.                                                             *)
(***************************************************************************)
TypeOK ==
  /\ sequences \in Seq(Defs)
  /\ counters \in [Ids -> 0..CursorValues - 1 \cup {None}]
  /\ crashes \in 0..MaxCrashes
  /\ asked \in [Requests -> Endpoints] /\ job \in [Admins -> Jobs]
  /\ pc \in [Requests \cup Admins -> {"idle", "locked", "done", "dropped", "gone"}]
  /\ spc \in [Admins -> {"none", "spawned", "truncated", "written", "saved"}]
  /\ all \in [Admins -> Seq(Defs)]
  /\ sfd \in [Admins -> {"none", "tmp", "main", "orphan"}]
  /\ Lines(file) \in Seq(Defs) /\ Lines(tmp) \in Seq(Defs)
  /\ turns \in [Ids -> Seq([def: Defs, index: Nat])] /\ raced \in BOOLEAN
  /\ listed \in Seq(Defs)

(* A sequence created anew starts at its first response                    *)
(* (main.rs:1084-1097): no cursor outlives the definition it belongs to,   *)
(* however requests, resets and deletes interleave.  Only a delete that    *)
(* was dropped between its two locks leaves one behind.                    *)
NoOrphanCounters ==
  \A id \in Ids :
    counters[id] # None /\ WithId(sequences, id) = {}
    => \E a \in Admins : /\ job[a].kind = "delete" /\ job[a].id = id
                         /\ pc[a] \in {"locked", "dropped"}

(* The cursor advances on each call (README.md:129): concurrent requests   *)
(* get consecutive responses from the first on, none skipped and none      *)
(* given twice before the end, where a sequence loops or stays, until the  *)
(* cursor wraps.  Only a loop that took over the cursor of the definition  *)
(* it replaces may go on anywhere after its first turn, if that is its end.*)
InOrder ==
  \A id \in Ids : \A i \in DOMAIN turns[id] :
    LET d == turns[id][i].def
        last == Length[d] - 1
        index == turns[id][i].index
        TookOver == i > 2 /\ turns[id][i - 2].def # d
    IN  i <= CursorValues =>
          IF i = 1 THEN index = 0
          ELSE turns[id][i - 1].def = d =>
                 IF turns[id][i - 1].index < last THEN index = turns[id][i - 1].index + 1
                 ELSE IF d \notin Loops THEN index = last
                 ELSE TookOver \/ index = 0

(* The list that requests see: until a delete has dropped its cursor too,  *)
(* that from before it.                                                    *)
Seen == IF CanRead THEN sequences ELSE listed

Object == INSTANCE SequenceObject WITH
  list   <- Seen,
  status <- [o \in Requests \cup Admins |->
               IF pc[o] \in {"idle", "locked"} THEN "open" ELSE pc[o]]

(* A delete takes the list and the cursors one after the other and may     *)
(* wait between them (main.rs:1088-1090); yet whoever is answered, request *)
(* or admin, finds and leaves the list and its cursors as if each call had *)
(* happened at one moment.                                                 *)
AtomicSequences == Object!Spec

(* The two locks are always taken in one order: nobody waits for ever      *)
(* (main.rs:1575-1576, 1088-1090).                                         *)
Answered == <>(\A o \in Requests \cup Admins : pc[o] \notin {"idle", "locked"})

(* The file goes from one current list to the next (io.rs:277-286), with   *)
(* write failures and crashes anywhere, as long as no list is changed      *)
(* before it has been saved.                                               *)
SavesCurrentList ==
  [][~raced /\ file' # file => Lines(file') = sequences]_vars

(* ARCHITECTURE.md:84: the file holds the sequence state.                  *)
FileMatchesMemory == AtRest => Lines(file) = sequences

(* The test test_sequence_clamps_at_last_when_not_looping: a call beyond   *)
(* the end gets the last response.                                         *)
ClampsAtLast ==
  \A id \in Ids : \A i \in 2..Len(turns[id]) :
    LET d == turns[id][i].def IN
    d \notin Loops /\ turns[id][i - 1] = [def |-> d, index |-> Length[d] - 1]
    => turns[id][i].index = Length[d] - 1

(* README.md:129, the cursor advances on each call: a loop of more than    *)
(* one response does not give the same one twice in a row.                 *)
LoopAdvances ==
  \A id \in Ids : \A i \in 2..Len(turns[id]) :
    LET d == turns[id][i].def IN
    d \in Loops /\ Length[d] > 1 /\ turns[id][i - 1].def = d
    => turns[id][i].index # turns[id][i - 1].index
=============================================================================
