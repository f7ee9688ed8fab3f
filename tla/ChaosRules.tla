----------------------------- MODULE ChaosRules -----------------------------
(***************************************************************************)
(* The pure part of chaos.rs: which endpoint rule a request falls under,   *)
(* the latency and the error that a configuration may draw, and the path   *)
(* that goes to the event log.                                             *)
(*                                                                         *)
(* A path or a pattern is the sequence of its segments.  A draw of the     *)
(* random generator is the set of what it may give.                        *)
(***************************************************************************)
EXTENDS Integers, Sequences, SequencesExt

CONSTANTS
  Services,     \* ids of routed services
  SegmentNames, \* path segments, among them "*" and "**"
  Ids,          \* those that are UUIDs, or numbers of five digits or more
  Configs,      \* ChaosConfig values
  NoConfig, NoError

Segment == SegmentNames \cup {"{id}"}

(* A config: its flags, its model, its rate ("never", "sometimes",         *)
(* "always") and that of a degraded service, its jitter or flat latency,   *)
(* error_codes, error_status, and rules: <<[pattern, config]>>.            *)
ASSUME RulesAssumption ==
  /\ Ids \subseteq SegmentNames /\ NoConfig \notin Configs
  /\ \A cc \in Configs :
       /\ cc.enabled \in BOOLEAN /\ cc.model \in {"uniform", "markov"}
       /\ {cc.rate, cc.degradedRate} \subseteq {"never", "sometimes", "always"}
       /\ cc.modes \subseteq {"MOCK", "PASSTHROUGH"}
       /\ {cc.min, cc.max, cc.mult} \subseteq Nat
       /\ cc.codes \in Seq([status: Nat, weight: Nat, valid: BOOLEAN])
       /\ cc.status \in Nat
       /\ cc.rules \in Seq([pattern: Seq(SegmentNames), config: Configs])

(* Variant for checking: '**' takes one segment at least.                  *)
MatchingDeeper(p, s, i, next) ==
  {j \in 1..Len(s) + 1 :
     IF i > Len(p) THEN j > Len(s)
     ELSE IF j > Len(s) THEN p[i] = "**" /\ i = Len(p)
     ELSE IF p[i] = "**" THEN i = Len(p) \/ \E k \in j + 1..Len(s) + 1 : k \in next
     ELSE p[i] \in {"*", s[j]} /\ j + 1 \in next}

(***************************************************************************)
(* glob_match_segs: the places of the path s where what is left of the     *)
(* pattern p from its i-th segment matches what is left of the path, when  *)
(* next are those of the segment after it.                                 *)
(***************************************************************************)
MatchingFrom(p, s, i, next) ==
  {j \in 1..Len(s) + 1 :
     IF i > Len(p) THEN j > Len(s)
     ELSE IF j > Len(s) THEN p[i] = "**" /\ i = Len(p)
     ELSE IF p[i] = "**" THEN i = Len(p) \/ \E k \in j..Len(s) + 1 : k \in next
     ELSE p[i] \in {"*", s[j]} /\ j + 1 \in next}

GlobMatch(p, s) ==
  LET from[i \in 1..Len(p) + 1] ==
        MatchingFrom(p, s, i, IF i > Len(p) THEN {} ELSE from[i + 1])
  IN  1 \in from[1]

(* find_endpoint_rule, or the service's own configuration.                 *)
ActiveConfig(cc, path) ==
  LET at == SelectInSeq(cc.rules, LAMBDA r : GlobMatch(r.pattern, path))
  IN  IF at = 0 THEN cc ELSE cc.rules[at].config

(* compute_latency_ms: jitter between the two bounds, whichever is the     *)
(* smaller, unless max_ms is 0.  A flat latency has min = max.             *)
Latencies(cc) ==
  IF cc.max = 0 THEN {0}
  ELSE IF cc.min <= cc.max THEN cc.min..cc.max ELSE cc.max..cc.min

(* Variant for checking: the number as it is configured.                   *)
AsGiven(e) == e.status

(* from_u16, and the plain 500 when it or the headers are invalid.         *)
StatusOf(e) == IF e.valid /\ e.status \in 100..999 THEN e.status ELSE 500

(* draw_error: an entry that has weight, or the first when the draw is 0.  *)
DrawnErrors(cc) ==
  LET weighed == {n \in DOMAIN cc.codes : cc.codes[n].weight > 0} IN
  IF weighed # {} THEN { StatusOf(cc.codes[n]) : n \in weighed \cup {1} }
  ELSE IF cc.status > 0 THEN { StatusOf([status |-> cc.status, valid |-> TRUE]) }
  ELSE {NoError}

(* What one request may be answered with: NoError goes on to the handler.  *)
Errors(cc, rate) ==
  CASE rate = "never"     -> {NoError}
    [] rate = "always"    -> DrawnErrors(cc)
    [] rate = "sometimes" -> DrawnErrors(cc) \cup {NoError}

(* scrub_path: the query goes, ids become "{id}", empty segments go.       *)
ScrubPath(path) ==
  LET segs == SelectSeq(path, LAMBDA t : t # "")
  IN  [n \in DOMAIN segs |-> IF segs[n] \in Ids THEN "{id}" ELSE segs[n]]
=============================================================================
