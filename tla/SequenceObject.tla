--------------------------- MODULE SequenceObject ---------------------------
(***************************************************************************)
(* What the sequences promise: a request and an admin call that is         *)
(* answered has had its whole effect, at one moment, on one list with its  *)
(* cursors.  Only a call whose client hangs up may have had part of it.    *)
(***************************************************************************)
EXTENDS Sequences

CONSTANTS
  Ids, Defs, IdOf, Length, Requests, Admins, Disconnects, None,
  Retain(_, _),   \* a list without the definitions of an id
  First(_, _),    \* the first definition of a list that answers an endpoint
  Index(_, _),    \* the response a definition gives at a cursor
  Advance(_, _)   \* the cursor after it

VARIABLES list, counters, turns, asked, job,
          status  \* "open", "done", "dropped" or "gone"

vars == <<list, counters, turns, asked, job, status>>

End(o, how) == status[o] = "open" /\ status' = [status EXCEPT ![o] = how]

Init ==
  /\ list = <<>> /\ counters = [id \in Ids |-> None] /\ turns = [id \in Ids |-> <<>>]
  /\ status = [o \in Requests \cup Admins |-> "open"]

Serve(r) ==
  LET d == First(list, asked[r])
      id == IdOf[d]
      cursor == IF counters[id] = None THEN 0 ELSE counters[id]
  IN  /\ End(r, "done")
      /\ IF d = None \/ Length[d] = 0
           THEN UNCHANGED <<counters, turns>>
           ELSE /\ counters' = [counters EXCEPT ![id] = Advance(d, cursor)]
                /\ turns' = [turns EXCEPT ![id] =
                     Append(@, [def |-> d, index |-> Index(d, cursor)])]
      /\ UNCHANGED <<list, asked, job>>

Create(a) ==
  /\ job[a].kind = "create" /\ End(a, "done")
  /\ list' = Append(Retain(list, IdOf[job[a].def]), job[a].def)
  /\ UNCHANGED <<counters, turns, asked, job>>

DropCursor(id) ==
  /\ counters' = [counters EXCEPT ![id] = None]
  /\ turns' = [turns EXCEPT ![id] = <<>>]

Reset(a) ==
  /\ job[a].kind = "reset" /\ End(a, "done")
  /\ DropCursor(job[a].id)
  /\ UNCHANGED <<list, asked, job>>

Delete(a) ==
  /\ job[a].kind = "delete" /\ End(a, "done")
  /\ list' = Retain(list, job[a].id)
  /\ DropCursor(job[a].id)
  /\ UNCHANGED <<asked, job>>

(* The client hangs up: a request has no effect, and a delete leaves the   *)
(* cursor of what it deleted.                                              *)
Leave(r) ==
  /\ Disconnects /\ End(r, "dropped")
  /\ UNCHANGED <<list, counters, turns, asked, job>>

Forsake(a) ==
  /\ Disconnects /\ job[a].kind = "delete" /\ End(a, "dropped")
  /\ list' = Retain(list, job[a].id)
  /\ UNCHANGED <<counters, turns, asked, job>>

(* A restart ends what it interrupts, without effect on what it serves.    *)
Restart ==
  /\ list' \in Seq(Defs)
  /\ counters' = [id \in Ids |-> None] /\ turns' = [id \in Ids |-> <<>>]
  /\ status' \in [Requests \cup Admins -> {"open", "gone"}]
  /\ \A o \in Requests \cup Admins : status'[o] = "open" => status[o] = "open"
  /\ UNCHANGED <<asked, job>>

Next ==
  \/ \E r \in Requests : Serve(r) \/ Leave(r)
  \/ \E a \in Admins : Create(a) \/ Reset(a) \/ Delete(a) \/ Forsake(a)
  \/ Restart

Spec == Init /\ [][Next]_vars
=============================================================================
