--------------------------- MODULE MCDeskIntents ---------------------------
(* DeskIntents on small instances for TLC. *)
EXTENDS DeskIntents
=============================================================================
