-------------------------- MODULE MCDeskDirectional --------------------------
(***************************************************************************)
(* What a directional book has beside single orders, pairs (DeskPair) and  *)
(* protected positions (DeskGuards), on small instances for TLC.  The two  *)
(* share the lease, which each has as one call at a time, but no state     *)
(* their properties are about: a behaviour here is one of the part that is *)
(* chosen at the start, while the other rests in its initial state.        *)
(***************************************************************************)
EXTENDS TLC

CONSTANTS Qty, Tries,                      \* DeskPair
          Slot, NoSlot, MaxQty, MinPrice, MaxPrice   \* DeskGuards

VARIABLES part,
          pair, late, row, suspended, slipped,
          pairEnabled, pairCall, pairVenue,
          kind, inv, sent, guard, pos, own, entered, price, cancels, exits,
          guardsEnabled, guardsCall, guardsVenue

pairVars == <<pair, late, row, suspended, slipped,
              pairEnabled, pairCall, pairVenue>>
guardsVars == <<kind, inv, sent, guard, pos, own, entered, price, cancels,
                exits, guardsEnabled, guardsCall, guardsVenue>>
vars == <<part, pairVars, guardsVars>>

Pair == INSTANCE DeskPair
          WITH enabled <- pairEnabled, call <- pairCall, venue <- pairVenue
Guards == INSTANCE DeskGuards
            WITH enabled <- guardsEnabled, call <- guardsCall,
                 venue <- guardsVenue

ASSUME DirectionalAssumptions ==
  Pair!PairAssumption /\ Guards!GuardAssumption

Init ==
  \/ part = "pair" /\ Pair!Init /\ Guards!Init /\ kind = "perp"
  \/ part = "guards" /\ Pair!Init /\ Guards!Init

PairStep == part = "pair" /\ Pair!Next /\ UNCHANGED <<part, guardsVars>>
GuardsStep == part = "guards" /\ Guards!Next /\ UNCHANGED <<part, pairVars>>

Next == PairStep \/ GuardsStep
Spec == Init /\ [][Next]_vars

\* The fairness of the two modules, each for its own part: as a behaviour is
\* one of a single part, a condition on each is one on the disjunction.
OfPair == part = "pair" /\ UNCHANGED <<part, guardsVars>>
OfGuards == part = "guards" /\ UNCHANGED <<part, pairVars>>
Tick == (OfPair /\ Pair!TickPair) \/ (OfGuards /\ Guards!TickDesk)
GoOn == (OfPair /\ Pair!Progress) \/ (OfGuards /\ Guards!Advance)
Arrivals == (OfPair /\ Pair!Outside) \/ (OfGuards /\ Guards!Deliver)

FairSpec ==
  /\ Spec
  /\ SF_vars(Tick) /\ WF_vars(GoOn) /\ WF_vars(Arrivals)
  /\ SF_vars(OfGuards /\ Guards!Execute)

\* Rows are interchangeable.
SlotSymmetry == Permutations(Slot)

-----------------------------------------------------------------------------
(* The properties, as the modules state them *)

\* Types, and no row counts more than the exchange traded.
TypeOK ==
  /\ part = "pair" => Pair!TypeOK
  /\ part = "guards" => Guards!TypeOK

\* The exchange works at most one order of a pair (advancePair).
OneOrderAtATime == part = "pair" => Pair!OneOrderAtATime

\* Unwinding never turns a leg round (advancePair).
NeverReversed == part = "pair" => Pair!NeverReversed

\* A pair that has ended is hedged or flat, with no order left, unless a fill
\* slipped in between the two questions of a sync (advancePair, syncLedger).
EndsHedged == part = "pair" => Pair!EndsHedged

\* The old stop rests until its replacement does (protect).
StopKept == Guards!StopKept

\* A pair comes to an end or to the operator (advancePair).
PairEnds == Pair!PairEnds

\* A position that stays as it is gets the stop that is wanted (protect).
Guarded == Guards!Guarded

\* A position below its stop is closed (protect, tick, submit).
CrossedIsExited == Guards!CrossedIsExited
=============================================================================
