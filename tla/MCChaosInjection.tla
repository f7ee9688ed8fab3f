-------------------------- MODULE MCChaosInjection --------------------------
(* A small instance of ChaosInjection for TLC. *)
EXTENDS ChaosInjection

Config(model, sane, degraded, modes, min, max, mult, codes, status, rules) ==
  [enabled |-> TRUE, model |-> model, rate |-> sane, degradedRate |-> degraded,
   modes |-> modes, min |-> min, max |-> max, mult |-> mult, codes |-> codes,
   status |-> status, rules |-> rules]
Rule(pattern, config) == [pattern |-> pattern, config |-> config]
Code(status, weight, valid) == [status |-> status, weight |-> weight, valid |-> valid]

Flaky   == Config("uniform", "sometimes", "never", {"MOCK"}, 0, 0, 1,
                  << Code(99, 1, TRUE), Code(503, 0, TRUE), Code(429, 2, FALSE) >>, 0, <<>>)
Slow    == [Config("uniform", "never", "never", {}, 1, 1, 1, <<>>, 0, <<>>) EXCEPT !.enabled = FALSE]
Quiet   == Config("markov", "never", "sometimes", {"PASSTHROUGH"}, 1, 1, 2, <<>>, 0, <<>>)
Outage ==
  Config("markov", "never", "always", {}, 1, 0, 2, <<>>, 503,
         << Rule(<<"x", "**", "**">>, Quiet) >>)
Layered ==
  Config("markov", "never", "sometimes", {}, 0, 1, 1, << Code(500, 0, TRUE) >>, 502,
         << Rule(<<"api", "**", "items">>, Slow), Rule(<<"api", "*">>, Flaky),
            Rule(<<"api", "**">>, Quiet) >>)
Starred ==
  Config("uniform", "always", "never", {}, 0, 0, 1, <<>>, 503,
         << Rule(<<"api", "**", "**">>, Quiet) >>)
Off == [Layered EXCEPT !.enabled = FALSE]
MCConfigs == {Flaky, Outage, Slow, Quiet, Layered, Starred, Off}

Ask(s, mode, path) == [service |-> s, mode |-> mode, path |-> path, query |-> TRUE]
MCProfiles ==
  { Ask("s", "MOCK", <<"api", "items">>), Ask("s", "MOCK", <<"api", "12345">>),
    Ask("s", "MOCK", <<"api", "12345", "x">>), Ask("s", "PASSTHROUGH", <<"api", "12345", "x">>), Ask("s", "MOCK", <<"x">>) }
MCTables == { [s \in Services |-> Layered], [s \in Services |-> Outage] }
MCAllTables == { [s \in Services |-> cc] : cc \in {Starred, Outage, Quiet, Off, NoConfig} }
MCStarProfiles ==
  { Ask("s", "PASSTHROUGH", <<"api">>), Ask("s", "PASSTHROUGH", <<"api", "12345">>) }
=============================================================================
