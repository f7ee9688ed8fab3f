--------------------------- MODULE MCModeControl ---------------------------
(* Small instances of ModeControl for TLC. *)
EXTENDS ModeControl

CONSTANTS a, b, c

=============================================================================
