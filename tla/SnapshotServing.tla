-------------------------- MODULE SnapshotServing --------------------------
(***************************************************************************)
(* What a request is promised about the mock library (README.md:90,        *)
(* main.rs:1391-1398): it is answered from one library, the one that was   *)
(* published when it started, whatever is published meanwhile.             *)
(***************************************************************************)
EXTENDS MockLibrary

CONSTANTS Requests, NoMock, Pending

VARIABLES asked,      \* the <<service, key>> of each request
          current,    \* the published library
          view,       \* the library a request under way is bound to
          status,     \* "idle", "open" or "done"
          answer

vars == <<asked, current, view, status, answer>>

(* Exact hit, smart swap, or a miss (which a differing body can cause even *)
(* when there is an entry).                                                *)
Answers(lib, r) ==
  LET s == asked[r][1]
      k == asked[r][2]
  IN  ({FindExact(lib, s, k)} \ {NoEntry}) \cup SwapCandidates(lib, s, k)
        \cup {NoMock}

Init ==
  /\ asked \in [Requests -> Services \X Keys]
  /\ current = EmptyLibrary
  /\ view = [r \in Requests |-> EmptyLibrary]
  /\ status = [r \in Requests |-> "idle"]
  /\ answer = [r \in Requests |-> Pending]

Publish ==
  /\ current' \in Library
  /\ UNCHANGED <<asked, view, status, answer>>

Begin(r) ==
  /\ status[r] = "idle"
  /\ status' = [status EXCEPT ![r] = "open"]
  /\ view' = [view EXCEPT ![r] = current]
  /\ UNCHANGED <<asked, current, answer>>

Reply(r) ==
  /\ status[r] = "open"
  /\ status' = [status EXCEPT ![r] = "done"]
  /\ view' = [view EXCEPT ![r] = EmptyLibrary]
  /\ \E a \in Answers(view[r], r) : answer' = [answer EXCEPT ![r] = a]
  /\ UNCHANGED <<asked, current>>

(* The process dies: open requests are never answered, nothing is served.  *)
Halt ==
  /\ current' = EmptyLibrary
  /\ view' = [r \in Requests |-> EmptyLibrary]
  /\ status' = [r \in Requests |->
                  IF status[r] = "open" THEN "done" ELSE status[r]]
  /\ UNCHANGED <<asked, answer>>

Next == Publish \/ Halt \/ \E r \in Requests : Begin(r) \/ Reply(r)

Spec == Init /\ [][Next]_vars
=============================================================================
