---------------------------- MODULE MCDeskQuotes ----------------------------
(* DeskQuotes on a small instance for TLC. *)
EXTENDS DeskQuotes
=============================================================================
