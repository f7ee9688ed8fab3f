--------------------------- MODULE ChaosInjection ---------------------------
(***************************************************************************)
(* Chaos as concurrent requests meet it (main.rs, markov_chaos.rs): each   *)
(* is bound to the configuration of its route, steps the Markov state its  *)
(* service shares, sleeps, and may then be answered with an error.         *)
(*                                                                         *)
(* Time is counted in ticks.  A dwell is kept as what is left of it, which *)
(* supposes a clock that is not set back.                                  *)
(***************************************************************************)
EXTENDS ChaosRules

CONSTANTS
  Clients,      \* each makes one request after the other
  Profiles,     \* requests: service, mode, path, whether there is a query
  Tables,       \* [Services -> Configs or NoConfig]: the routes in force
  MaxDwell,     \* bound on a dwell, in ticks
  MaxRestarts   \* bound on the number of restarts

ASSUME InjectionAssumption ==
  /\ Profiles \subseteq [service: Services, mode: {"MOCK", "PASSTHROUGH"},
                          path: Seq(SegmentNames), query: BOOLEAN]
  /\ Tables \subseteq [Services -> Configs \cup {NoConfig}]
  /\ MaxDwell \in Nat \ {0} /\ MaxRestarts \in Nat
  /\ NoError \notin Nat

VARIABLES
  upstreams,  \* AppState.upstreams, by service
  markov,     \* AppState.markov_state: kind and dwell left, or "none"
  restarts,
  pc,         \* "idle", "sleeping", or "drawing" when there is no latency
  profile,    \* the request a client is making
  active,     \* the configuration it is under, or NoConfig
  rate,       \* its error rate
  wait,       \* what is left of its latency
  outcome,    \* the error its last request was answered with, or NoError
  logged      \* the path in the log line of its last request, or <<>>

reqVars == <<pc, profile, active, rate, wait, outcome, logged>>
chaosVars == <<upstreams, markov, restarts, reqVars>>

Fresh == [kind |-> "none", left |-> 0]

(* Variant for checking: every step draws a dwell.                         *)
StepRedrawing(m) ==
  IF m.left > 0 THEN { [m EXCEPT !.left = d] : d \in 1..MaxDwell }
  ELSE { [kind |-> IF m.kind = "degraded" THEN "healthy" ELSE "degraded", left |-> d] :
           d \in 1..MaxDwell }

(* MarkovState::step on a state that may not exist yet: MarkovState::new   *)
(* is healthy with an expired dwell.                                       *)
Step(m) ==
  IF m.left > 0 THEN {m}
  ELSE { [kind |-> IF m.kind = "degraded" THEN "healthy" ELSE "degraded", left |-> d] :
           d \in 1..MaxDwell }

(* The gate is the service's; the modes are those of the rule.             *)
Applies(cc, p) ==
  /\ cc # NoConfig /\ cc.enabled
  /\ LET ac == ActiveConfig(cc, p.path) IN ac.modes = {} \/ p.mode \in ac.modes

(* The proxy binds a request to its route.  Without chaos it goes on.      *)
Undisturbed(c, p) ==
  /\ pc[c] = "idle" /\ ~Applies(upstreams[p.service], p)
  /\ profile' = [profile EXCEPT ![c] = p]
  /\ active' = [active EXCEPT ![c] = NoConfig]
  /\ outcome' = [outcome EXCEPT ![c] = NoError]
  /\ logged' = [logged EXCEPT ![c] = <<>>]
  /\ UNCHANGED <<upstreams, markov, restarts, pc, rate, wait>>

(* Under a rule or the service's configuration: the Markov step and the    *)
(* latency are drawn before the first await.                               *)
Disturbed(c, p) ==
  LET ac == ActiveConfig(upstreams[p.service], p.path) IN
  /\ pc[c] = "idle" /\ Applies(upstreams[p.service], p)
  /\ markov' \in IF ac.model = "uniform" THEN {markov}
                 ELSE { [markov EXCEPT ![p.service] = m] : m \in Step(markov[p.service]) }
  /\ LET degraded == ac.model = "markov" /\ markov'[p.service].kind = "degraded" IN
     /\ rate' = [rate EXCEPT ![c] = CASE ac.model = "uniform" -> ac.rate
                                      [] degraded -> ac.degradedRate
                                      [] OTHER    -> "never"]
     /\ wait' \in { [wait EXCEPT ![c] = l * (IF degraded THEN ac.mult ELSE 1)] :
                      l \in Latencies(ac) }
  /\ pc' = [pc EXCEPT ![c] = IF wait'[c] > 0 THEN "sleeping" ELSE "drawing"]
  /\ profile' = [profile EXCEPT ![c] = p]
  /\ active' = [active EXCEPT ![c] = ac]
  /\ outcome' = [outcome EXCEPT ![c] = NoError]
  /\ logged' = [logged EXCEPT ![c] = <<>>]
  /\ UNCHANGED <<upstreams, restarts>>

(* Variant for checking: the configuration is looked up anew for the draw. *)
DrawRereading(c) ==
  /\ pc[c] # "idle" /\ wait[c] = 0
  /\ LET cc == upstreams[profile[c].service]
         ac == IF cc = NoConfig THEN active[c] ELSE ActiveConfig(cc, profile[c].path) IN
     \E e \in Errors(ac, rate[c]) :
       /\ outcome' = [outcome EXCEPT ![c] = e]
       /\ logged' = [logged EXCEPT ![c] =
            IF e # NoError \/ pc[c] = "sleeping"
              THEN <<profile[c].path, profile[c].query>> ELSE <<>>]
  /\ pc' = [pc EXCEPT ![c] = "idle"]
  /\ UNCHANGED <<upstreams, markov, restarts, profile, active, rate, wait>>

(* The error is drawn when the sleep is over.  The log line shows          *)
(* path_query; the scrubbed path is computed and dropped.                  *)
Draw(c) ==
  /\ pc[c] # "idle" /\ wait[c] = 0
  /\ \E e \in Errors(active[c], rate[c]) :
       /\ outcome' = [outcome EXCEPT ![c] = e]
       /\ logged' = [logged EXCEPT ![c] =
            IF e # NoError \/ pc[c] = "sleeping"
              THEN <<profile[c].path, profile[c].query>> ELSE <<>>]
  /\ pc' = [pc EXCEPT ![c] = "idle"]
  /\ UNCHANGED <<upstreams, markov, restarts, profile, active, rate, wait>>

(* POST /ghost/upstreams: neither the Markov states nor requests on their  *)
(* way are touched.                                                        *)
ChaosSetUpstreams(table) ==
  /\ upstreams' = table
  /\ UNCHANGED <<markov, restarts, reqVars>>

Tick ==
  /\ \/ \E s \in Services : markov[s].left > 0
     \/ \E c \in Clients : wait[c] > 0
  /\ markov' = [s \in Services |-> [markov[s] EXCEPT !.left = IF @ > 0 THEN @ - 1 ELSE 0]]
  /\ wait' = [c \in Clients |-> IF wait[c] > 0 THEN wait[c] - 1 ELSE 0]
  /\ UNCHANGED <<upstreams, restarts, pc, profile, active, rate, outcome, logged>>

(* Neither the routes nor the Markov states are kept.                      *)
ChaosRestart ==
  /\ restarts < MaxRestarts
  /\ restarts' = restarts + 1
  /\ upstreams' = [s \in Services |-> NoConfig]
  /\ markov' = [s \in Services |-> Fresh]
  /\ pc' = [c \in Clients |-> "idle"]
  /\ wait' = [c \in Clients |-> 0]
  /\ active' = [c \in Clients |-> NoConfig]
  /\ outcome' = [c \in Clients |-> NoError]
  /\ logged' = [c \in Clients |-> <<>>]
  /\ UNCHANGED <<profile, rate>>

-----------------------------------------------------------------------------
ChaosInit ==
  /\ upstreams = [s \in Services |-> NoConfig]
  /\ markov = [s \in Services |-> Fresh] /\ restarts = 0
  /\ pc = [c \in Clients |-> "idle"]
  /\ profile \in [Clients -> Profiles] /\ \A c, d \in Clients : profile[c] = profile[d]
  /\ active = [c \in Clients |-> NoConfig]
  /\ rate = [c \in Clients |-> "never"]
  /\ wait = [c \in Clients |-> 0]
  /\ outcome = [c \in Clients |-> NoError]
  /\ logged = [c \in Clients |-> <<>>]

Begin(c) == \E p \in Profiles : Undisturbed(c, p) \/ Disturbed(c, p)

ChaosNext ==
  \/ \E c \in Clients : Begin(c) \/ Draw(c)
  \/ \E table \in Tables : ChaosSetUpstreams(table)
  \/ Tick \/ ChaosRestart

ChaosSpec == ChaosInit /\ [][ChaosNext]_chaosVars

(* The clock ticks, and a timer that has expired wakes its task.           *)
ChaosFairSpec == ChaosSpec /\ WF_chaosVars(Tick) /\ \A c \in Clients : WF_chaosVars(Draw(c))

(***************************************************************************)
(* Properties.                                                             *)
(***************************************************************************)
ChaosTypeOK ==
  /\ upstreams \in [Services -> Configs \cup {NoConfig}]
  /\ markov \in [Services -> [kind: {"none", "healthy", "degraded"}, left: 0..MaxDwell]]
  /\ restarts \in 0..MaxRestarts
  /\ pc \in [Clients -> {"idle", "sleeping", "drawing"}] /\ profile \in [Clients -> Profiles]
  /\ active \in [Clients -> Configs \cup {NoConfig}]
  /\ rate \in [Clients -> {"never", "sometimes", "always"}]
  /\ wait \in [Clients -> Nat]
  /\ outcome \in [Clients -> 100..999 \cup {NoError}]
  /\ logged \in [Clients -> {<<>>} \cup (Seq(SegmentNames) \X BOOLEAN)]

(* Covers(p, s): s splits into one stretch per segment of p, of any length *)
(* for "**" and of one segment for the others, which it equals but for     *)
(* "*": what chaos.rs:123 says of patterns.                                *)
Covers(p, s) ==
  \E cut \in [0..Len(p) -> 0..Len(s)] :
    /\ cut[0] = 0 /\ cut[Len(p)] = Len(s)
    /\ \A i \in DOMAIN p :
         /\ cut[i - 1] <= cut[i]
         /\ p[i] # "**" => cut[i] = cut[i - 1] + 1 /\ p[i] \in {"*", s[cut[i]]}

(* Patterns that do not end in two "**".                                   *)
Plain(p) == Len(p) < 2 \/ p[Len(p)] # "**" \/ p[Len(p) - 1] # "**"

(* A request is under the first rule of its service whose pattern covers   *)
(* its path, whatever the routes became while it sleeps (chaos.rs:46, 165- *)
(* 168): a configuration it is under is that of a covering rule with no    *)
(* covering rule before it, or the service's own when none covers, and an  *)
(* error it is answered with is one of that configuration's.  A rule whose *)
(* pattern ends in two "**" may be passed over.                            *)
Under(p, ac) ==
  \E cc \in Configs :
    LET covers(n) == Covers(cc.rules[n].pattern, p.path)
        passed(n) == covers(n) => ~Plain(cc.rules[n].pattern)
    IN  /\ cc.enabled /\ \E t \in Tables : t[p.service] = cc
        /\ \/ ac = cc /\ \A n \in DOMAIN cc.rules : passed(n)
           \/ \E n \in DOMAIN cc.rules :
                /\ covers(n) /\ ac = cc.rules[n].config
                /\ \A m \in 1..n - 1 : passed(m)

FirstRuleApplies ==
  \A c \in Clients :
    /\ pc[c] # "idle" \/ outcome[c] # NoError => Under(profile[c], active[c])
    /\ outcome[c] # NoError => outcome[c] \in DrawnErrors(active[c])

Stepping(s) ==
  \E c \in Clients, p \in Profiles :
    /\ p.service = s /\ upstreams[s] # NoConfig
    /\ ActiveConfig(upstreams[s], p.path).model = "markov" /\ Disturbed(c, p)

(* An outage ends, and after it there is another (markov_chaos.rs:59-78):  *)
(* while requests of a service keep coming under the Markov model, it is   *)
(* healthy again and again and degraded again and again, whichever rules,  *)
(* clients and changes of the routes the steps come from.                  *)
OutagesComeAndGo ==
  \A s \in Services :
    []<><<Stepping(s)>>_chaosVars =>
      []<>(markov[s].kind = "healthy") /\ []<>(markov[s].kind = "degraded")

(* chaos.rs:150: "**" matches zero or more segments.                       *)
DoubleStarAnyDepth ==
  \A c \in Clients :
    pc[c] # "idle" /\ upstreams[profile[c].service] # NoConfig
      => LET cc == upstreams[profile[c].service] IN
         \A n \in DOMAIN cc.rules :
           Covers(cc.rules[n].pattern, profile[c].path)
             => GlobMatch(cc.rules[n].pattern, profile[c].path)

(* markov_chaos.rs:13: a restart resets every service to healthy: the      *)
(* first step of a state finds it healthy.                                 *)
StartsHealthy ==
  [][\A s \in Services :
       markov[s].kind = "none" => markov'[s].kind \in {"none", "healthy"}]_chaosVars

(* chaos.rs:76: a healthy service fires no errors.                         *)
NoErrorsWhileHealthy ==
  [][\A c \in Clients :
       outcome[c] = NoError /\ outcome'[c] # NoError /\ active[c].model = "markov"
         => markov[profile[c].service].kind = "degraded"]_chaosVars

(* main.rs:1429-1431: what is logged is the scrubbed path, without query.  *)
LoggedIsScrubbed ==
  \A c \in Clients :
    logged[c] # <<>> => logged[c] = <<ScrubPath(profile[c].path), FALSE>>
=============================================================================
