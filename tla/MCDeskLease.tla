----------------------------- MODULE MCDeskLease -----------------------------
(***************************************************************************)
(* DeskLease on a small instance for TLC, in one of two scenes: two calls  *)
(* contend for the lease while the operator stays away, or one call writes *)
(* while the operator replaces the mandate and flips the kill switch.      *)
(***************************************************************************)
EXTENDS DeskLease, FiniteSets, TLC

VARIABLE scene

Scenes == {"takeover", "authority"}

InitScene == Init /\ scene \in Scenes

NextScene ==
  /\ Next /\ UNCHANGED scene
  /\ scene = "takeover" => book' = book /\ kill' = kill
  /\ scene = "authority" => Cardinality({c \in Call : pc'[c] # "new"}) <= 1

SpecScene == InitScene /\ [][NextScene]_<<vars, scene>>

\* Calls are interchangeable.
CallSymmetry == Permutations(Call)
=============================================================================
