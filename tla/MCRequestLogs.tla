--------------------------- MODULE MCRequestLogs ---------------------------
(* A small instance of RequestLogs for TLC. *)
EXTENDS RequestLogs

Profile(s, headers, ua) == [service |-> s, headers |-> headers, ua |-> ua]
MCProfiles ==
  { Profile("s", {}, {"continue"}), Profile("t", {}, {"Mozilla/", "continue"}),
    Profile(NoService, {"x-ci"}, {"Mozilla/", "continue"}) }
MCMarkers ==
  { Profile("s", {HeadlessHeader}, {}), Profile("s", {}, {"curl"}),
    Profile("s", {OverrideHeader, "x-ci"}, {"Mozilla/"}) }
=============================================================================
