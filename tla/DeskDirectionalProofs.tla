------------------------ MODULE DeskDirectionalProofs ------------------------
(***************************************************************************)
(* Theorems about a directional book: the stops of a position and the      *)
(* orders of a pair, for any number of stops, lots, prices and tries.      *)
(***************************************************************************)
EXTENDS MCDeskDirectional, SumTheorems

-----------------------------------------------------------------------------
(* The stops: the inductive invariant *)

\* Of what the call has read, and where it is.
CallType ==
  [at : {"idle", "dead", "sync", "account", "protect", "drop", "dropping",
         "exit", "exiting", "place", "ack"},
   enabled : BOOLEAN, goal : Guards!Stop \cup {0}, live : 0 .. MaxQty,
   ours : SUBSET Slot, todo : SUBSET Slot, slot : Slot \cup {NoSlot},
   key : {"none", "crossed", "unguarded", "protect"}, late : BOOLEAN]

GuardTypes ==
  /\ Guards!TypeOK
  /\ guardsCall \in CallType
  /\ kind \in {"perp", "spot"}
  /\ entered \in Guards!Stop \cup {0}
  /\ price \in 1 .. MaxPrice

\* Of the row of a stop.
RowType == [state : Guards!Uncertain \cup {"over", "child", "working"},
            stop : Guards!Stop \cup {0}, size : 0 .. MaxQty]

\* A stop the exchange knows, or is asked to cancel, is of some size.
Sized ==
  \A i \in Slot :
    guardsVenue[i] # "none" \/ i \in cancels => guard[i].size > 0

\* A stop is wanted for a position only.
StopHeld == inv.stop # 0 => inv.qty > 0

\* What protect goes by: the position is not larger than what it has read; a
\* stop of that size is there as long as the position is; and so is the one it
\* places.
ProtectInv ==
  guardsCall.at \in {"protect", "place", "ack"} =>
    /\ pos <= guardsCall.live
    /\ \A i \in guardsCall.ours : guard[i].size > 0

ReadInv ==
  guardsCall.at = "protect" =>
    /\ inv.suspended \/ inv.qty = guardsCall.live \/ inv.qty = 0
    /\ \A i \in guardsCall.ours :
         guard[i].size >= guardsCall.live =>
           guardsVenue[i] = "open" \/ pos = 0 \/ guardsCall.late

PlaceInv ==
  guardsCall.at \in {"place", "ack"} =>
    /\ guardsCall.slot \in Slot \ guardsCall.ours
    /\ guardsCall.slot \notin cancels
    /\ guard[guardsCall.slot].size = guardsCall.live
    /\ guardsCall.live > 0
    /\ guard[guardsCall.slot].state = "submitting"
    /\ guardsVenue[guardsCall.slot] = "gone" => guardsCall.at = "ack" /\ pos = 0
    /\ guardsCall.at = "place" =>
         guardsVenue[guardsCall.slot] \notin {"open", "flight"}

\* What a call still has to cancel is not all there is, or need not be.
DropInv ==
  guardsCall.at \in {"drop", "dropping"} =>
    /\ guardsCall.at = "dropping" => guardsCall.slot \in guardsCall.todo
    /\ \/ inv.suspended \/ inv.stop = 0 \/ pos = 0 \/ guardsCall.late
       \/ \E k \in Slot \ guardsCall.todo :
            guardsVenue[k] = "open" /\ guard[k].size >= pos

\* An exit is of some size, under a key, until it is on its way.
ExitInv ==
  /\ guardsCall.at \in {"exit", "exiting"} => guardsCall.live > 0
  /\ guardsCall.at = "exit" => guardsCall.key # "none"

StopsInv ==
  /\ Sized /\ StopHeld /\ ProtectInv /\ ReadInv /\ PlaceInv /\ DropInv
  /\ ExitInv

GuardInv == GuardTypes /\ StopsInv

\* A call is somewhere between its start and protect, or past it.
Elsewhere == {"idle", "dead", "sync", "account", "exit", "exiting"}

-----------------------------------------------------------------------------
(* The stops: every step keeps the invariant *)

LEMMA StopConstants ==
  /\ MaxQty \in Nat \ {0} /\ MaxPrice \in Nat \ {0} /\ MinPrice \in Nat \ {0}
  /\ NoSlot \notin Slot
  /\ \A s \in Guards!Stop : s \in Nat /\ s # 0
BY DirectionalAssumptions DEF Guards!GuardAssumption, Guards!Stop

\* What a call becomes at its ends.
LEMMA CallEnds ==
  /\ Guards!Idle \in CallType /\ Guards!Idle.at = "idle"
  /\ Guards!Dead \in CallType /\ Guards!Dead.at = "dead"
<1>1. Guards!Idle \in CallType /\ Guards!Idle.at = "idle"
  BY StopConstants DEF CallType, Guards!Idle
<1> QED  BY <1>1 DEF CallType, Guards!Dead

LEMMA CancelEnds ==
  ASSUME GuardTypes, NEW S \in SUBSET Slot
  PROVE  /\ Guards!Cancel(S) \in CallType
         /\ Guards!Cancel(S).at \in {"idle", "drop"}
         /\ Guards!Cancel(S).at = "drop" =>
              /\ Guards!Cancel(S).todo = S
              /\ Guards!Cancel(S).late = guardsCall.late
<1>1. CASE S = {}
  BY <1>1, CallEnds DEF Guards!Cancel
<1>2. CASE S # {}
  <2>1. Guards!Cancel(S) = [Guards!Idle EXCEPT !.at = "drop", !.todo = S,
                                               !.late = guardsCall.late]
    BY <1>2 DEF Guards!Cancel
  <2>2. Guards!Idle \in CallType /\ guardsCall.late \in BOOLEAN
    BY CallEnds DEF GuardTypes, CallType
  <2> QED  BY <2>1, <2>2 DEF CallType
<1> QED  BY <1>1, <1>2

LEMMA ExitEnds ==
  ASSUME GuardTypes, guardsCall.live > 0,
         NEW key \in {"crossed", "unguarded", "protect"}
  PROVE  /\ Guards!Exit(key) \in CallType
         /\ Guards!Exit(key).at \in {"idle", "exit"}
         /\ Guards!Exit(key).at = "exit" =>
              Guards!Exit(key).live > 0 /\ Guards!Exit(key).key # "none"
<1>1. CASE Guards!Exit(key) = Guards!Idle
  BY <1>1, CallEnds
<1>2. CASE Guards!Exit(key)
             = [Guards!Idle EXCEPT !.at = "exit", !.live = guardsCall.live,
                                   !.key = key]
  <2>1. Guards!Idle \in CallType /\ guardsCall.live \in 0 .. MaxQty
    BY CallEnds DEF GuardTypes, CallType
  <2> QED  BY <1>2, <2>1 DEF CallType
<1> QED  BY <1>1, <1>2 DEF Guards!Exit

\* A call that is elsewhere, with the stops and the position as they were.
LEMMA QuietGuards ==
  ASSUME GuardInv,
         guardsCall' \in CallType, guardsCall'.at \in Elsewhere, ExitInv',
         UNCHANGED <<guardsEnabled, inv, guard, kind, pos, own, entered, price,
                     guardsVenue, cancels>>,
         sent' \subseteq {"crossed", "unguarded", "protect"},
         exits' \subseteq 1 .. MaxQty
  PROVE  GuardInv'
<1>1. GuardTypes'
  BY DEF GuardInv, GuardTypes, Guards!TypeOK, Guards!Open
<1>2. StopsInv'
  BY DEF GuardInv, Elsewhere, StopsInv, Sized, StopHeld, ProtectInv, ReadInv,
     PlaceInv, DropInv
<1> QED  BY <1>1, <1>2 DEF GuardInv

\* The steps that read, decide or end, and leave the rest alone.
LEMMA EndingGuards ==
  ASSUME GuardInv,
         \/ Guards!TickDesk \/ \E s \in Guards!Stop : Guards!Revise(s)
         \/ Guards!Skip \/ Guards!CrossedExit \/ Guards!SpotExit
         \/ Guards!RefuseReplacement \/ Guards!SubmitExit \/ Guards!SendExit
         \/ Guards!Unconfirmed \/ Guards!Break
  PROVE  GuardInv'
<1>1. CASE Guards!TickDesk
  BY <1>1, QuietGuards, CallEnds DEF GuardInv, GuardTypes, Guards!TypeOK,
     Guards!Open, CallType, StopsInv, ExitInv, Elsewhere, Guards!TickDesk,
     Guards!Vacant, Guards!rows, Guards!market, Guards!requests
<1>2. ASSUME NEW s \in Guards!Stop, Guards!Revise(s)  PROVE GuardInv'
  <2>1. /\ UNCHANGED <<Guards!rows, Guards!market, Guards!requests>>
        /\ guardsCall' = [Guards!Idle EXCEPT
                            !.at = "sync", !.enabled = guardsEnabled,
                            !.goal = s]
    BY <1>2, Zenon DEF Guards!Revise
  <2>2. guardsCall' \in CallType /\ guardsCall'.at = "sync"
    BY <2>1, CallEnds DEF CallType, GuardInv, GuardTypes, Guards!TypeOK
  <2> QED
    BY <2>1, <2>2, QuietGuards DEF GuardInv, GuardTypes, Guards!TypeOK,
       ExitInv, Elsewhere, Guards!rows, Guards!market, Guards!requests
<1>3. CASE Guards!Skip
  BY <1>3, QuietGuards, CallEnds DEF GuardInv, GuardTypes, Guards!TypeOK,
     Guards!Open, CallType, StopsInv, ExitInv, Elsewhere, Guards!Skip,
     Guards!Held, Guards!rows, Guards!market, Guards!requests
<1>4. CASE Guards!CrossedExit
  BY <1>4, QuietGuards, ExitEnds DEF GuardInv, GuardTypes, Guards!TypeOK,
     Guards!Open, CallType, StopsInv, ExitInv, Elsewhere, Guards!CrossedExit,
     Guards!MayExit, Guards!rows, Guards!market, Guards!requests,
     Guards!Wanting, Guards!Crossed, Guards!Guarding, Guards!Matching,
     Guards!Held
<1>5. CASE Guards!SpotExit
  BY <1>5, QuietGuards, CallEnds, ExitEnds DEF GuardInv, GuardTypes,
     Guards!TypeOK, Guards!Open, CallType, StopsInv, ExitInv, Elsewhere,
     Guards!SpotExit, Guards!Held, Guards!Crossed, Guards!rows, Guards!market,
     Guards!requests
<1>6. CASE Guards!RefuseReplacement
  BY <1>6, QuietGuards, CallEnds DEF GuardInv, GuardTypes, Guards!TypeOK,
     Guards!Open, CallType, StopsInv, ExitInv, Elsewhere,
     Guards!RefuseReplacement, Guards!Wanting, Guards!Crossed, Guards!InDoubt,
     Guards!rows, Guards!market, Guards!requests, Guards!Guarding,
     Guards!Matching, Guards!Uncertain, Guards!Held
<1>7. CASE Guards!SubmitExit
  BY <1>7, QuietGuards, StopConstants DEF GuardInv, GuardTypes, Guards!TypeOK,
     Guards!Open, CallType, StopsInv, ExitInv, Elsewhere, Guards!SubmitExit,
     Guards!market, Guards!requests
<1>8. CASE Guards!SendExit
  <2>1. exits' \subseteq 1 .. MaxQty
    <3>1. guardsCall.live \in 1 .. MaxQty
      BY <1>8, StopConstants DEF GuardInv, GuardTypes, CallType, StopsInv,
           ExitInv, Guards!SendExit
    <3> QED
      BY <1>8, <3>1 DEF GuardInv, GuardTypes, Guards!TypeOK, Guards!Open,
         Guards!SendExit
  <2> QED
    BY <1>8, <2>1, QuietGuards, CallEnds DEF GuardInv, GuardTypes,
       Guards!TypeOK, Guards!Open, ExitInv, Elsewhere, Guards!SendExit,
       Guards!rows, Guards!market
<1>9. CASE Guards!Break
  BY <1>9, QuietGuards, CallEnds DEF GuardInv, GuardTypes, Guards!TypeOK,
     Guards!Open, CallType, StopsInv, ExitInv, Elsewhere, Guards!Break,
     Guards!Vacant, Guards!rows, Guards!market, Guards!requests
<1>10. CASE Guards!Unconfirmed
  BY <1>10, QuietGuards, CallEnds DEF GuardInv, GuardTypes, Guards!TypeOK,
     Guards!Open, StopsInv, ExitInv, Elsewhere, Guards!Unconfirmed,
     Guards!rows, Guards!market, Guards!requests
<1> QED  BY <1>1, <1>2, <1>3, <1>4, <1>5, <1>6, <1>7, <1>8, <1>9, <1>10

\* An entry: its stop rests, of the size of the entry.
LEMMA EnterGuards ==
  ASSUME GuardInv, NEW i \in Slot, NEW s \in Guards!Stop, NEW n \in 1 .. MaxQty,
         Guards!Enter(i, s, n)
  PROVE  GuardInv'
<1>1. GuardTypes'
  BY StopConstants, CallEnds DEF GuardInv, GuardTypes, Guards!TypeOK,
     CallType, Guards!Enter, Guards!Tradable, Guards!Free, Guards!Open,
     Guards!Crossed, Guards!Vacant, Guards!NoGuard
<1>2. StopsInv'
  BY StopConstants, CallEnds DEF GuardInv, GuardTypes, Guards!TypeOK,
     StopsInv, Sized, StopHeld, ProtectInv, ReadInv, PlaceInv, DropInv,
     ExitInv, Guards!Enter, Guards!Tradable, Guards!Free,
     Guards!Open, Guards!Crossed, Guards!Vacant, Guards!NoGuard
<1> QED  BY <1>1, <1>2 DEF GuardInv

\* The position only becomes smaller.
LEMMA ReduceGuards ==
  ASSUME GuardInv, Guards!Reduce
  PROVE  GuardInv'
<1>1. GuardTypes'
  BY StopConstants, CallEnds DEF GuardInv, GuardTypes, Guards!TypeOK,
     Guards!Open, CallType, Guards!Reduce, Guards!Tradable, Guards!rows,
     Guards!requests, Guards!Vacant
<1>2. StopsInv'
  BY StopConstants, CallEnds DEF GuardInv, GuardTypes, Guards!TypeOK,
     Guards!Open, StopsInv, Sized, StopHeld, ProtectInv, ReadInv, PlaceInv,
     DropInv, ExitInv, Guards!Reduce, Guards!Tradable, Guards!rows,
     Guards!requests, Guards!Vacant
<1> QED  BY <1>1, <1>2 DEF GuardInv

\* The row of an open stop is not forgotten.
LEMMA RowStays ==
  ASSUME GuardInv, NEW i \in Slot, guardsVenue[i] = "open"
  PROVE  /\ guard[i] # Guards!NoGuard
         /\ \A state : Guards!Row(i, state) # Guards!NoGuard
<1>1. guard[i].size # 0 /\ guard[i] \in RowType
  BY DEF GuardInv, GuardTypes, Guards!TypeOK, RowType, StopsInv, Sized
<1> QED  BY <1>1 DEF Guards!Row, Guards!NoGuard, RowType

LEMMA ForgetStays ==
  ASSUME GuardInv, Guards!Forget, UNCHANGED cancels,
         \/ \E state : guard' = [i \in Slot |-> Guards!Row(i, state[i])]
         \/ \E k \in Slot : \E state :
              guard' = [guard EXCEPT ![k] = Guards!Row(k, state)]
  PROVE  /\ \A i \in Slot : guardsVenue[i] = "open" => guardsVenue'[i] = "open"
         /\ cancels' \subseteq Guards!Open'
<1>1. ASSUME NEW i \in Slot, guardsVenue[i] = "open"
      PROVE  guard'[i] # Guards!NoGuard
  BY <1>1, RowStays DEF GuardInv, GuardTypes, Guards!TypeOK
<1>2. \A i \in Slot : guardsVenue[i] = "open" => guardsVenue'[i] = "open"
  BY <1>1 DEF Guards!Forget
<1> QED
  BY <1>2 DEF GuardInv, GuardTypes, Guards!TypeOK, Guards!Open

\* Rows that are over are forgotten when the exchange cannot act on them.
LEMMA BookFillsGuards ==
  ASSUME GuardInv, Guards!BookFills
  PROVE  GuardInv'
<1>0. cancels' \subseteq Guards!Open'
  <2>1. guard' = [i \in Slot |->
                   Guards!Row(i, [j \in Slot |-> Guards!StateOf(j)][i])]
    BY DEF Guards!BookFills
  <2> QED  BY <2>1, ForgetStays DEF Guards!BookFills
<1>1. GuardTypes'
  <2>1. guard' \in [Slot -> RowType]
    BY StopConstants DEF GuardInv, GuardTypes, Guards!TypeOK, Guards!Open,
       RowType, Guards!BookFills, Guards!StateOf, Guards!Row, Guards!NoGuard,
       Guards!Uncertain
  <2>2. guardsCall' \in CallType
    BY StopConstants DEF GuardInv, GuardTypes, CallType, Guards!BookFills
  <2> QED
    BY <1>0, <2>1, <2>2 DEF GuardInv, GuardTypes, Guards!TypeOK, RowType,
       Guards!BookFills, Guards!Forget
<1>2. StopsInv'
  BY StopConstants DEF GuardInv, GuardTypes, Guards!TypeOK, Guards!Open,
     StopsInv, Sized, StopHeld, ProtectInv, ReadInv, PlaceInv, DropInv,
     ExitInv, Guards!BookFills, Guards!Row, Guards!StateOf, Guards!Forget,
     Guards!NoGuard, Guards!Uncertain
<1> QED  BY <1>1, <1>2 DEF GuardInv

\* A position that is gone or disputed needs no stop.
LEMMA RemoveAllGuards ==
  ASSUME GuardInv, Guards!RemoveAll
  PROVE  GuardInv'
<1>1. GuardTypes'
  BY StopConstants, CancelEnds DEF GuardInv, GuardTypes, Guards!TypeOK,
     Guards!Open, CallType, Guards!RemoveAll, Guards!rows, Guards!market,
     Guards!requests
<1>2. StopsInv'
  BY StopConstants, CancelEnds DEF GuardInv, GuardTypes, CallType,
     Guards!TypeOK, Guards!Open, StopsInv, Sized, StopHeld, ProtectInv,
     ReadInv, PlaceInv, DropInv, ExitInv, Guards!RemoveAll, Guards!rows,
     Guards!market, Guards!requests
<1> QED  BY <1>1, <1>2 DEF GuardInv

LEMMA NoneWantedGuards ==
  ASSUME GuardInv, Guards!NoneWanted
  PROVE  GuardInv'
<1>1. GuardTypes'
  BY StopConstants, CancelEnds DEF GuardInv, GuardTypes, Guards!TypeOK,
     Guards!Open, CallType, Guards!NoneWanted, Guards!Guarding, Guards!rows,
     Guards!market, Guards!requests, Guards!Held
<1>2. StopsInv'
  BY StopConstants, CancelEnds DEF GuardInv, GuardTypes, CallType,
     Guards!TypeOK, Guards!Open, StopsInv, Sized, StopHeld, ProtectInv,
     ReadInv, PlaceInv, DropInv, ExitInv, Guards!NoneWanted, Guards!Guarding,
     Guards!rows, Guards!market, Guards!requests, Guards!Held
<1> QED  BY <1>1, <1>2 DEF GuardInv

\* The stop that is kept is there, of the size of the position.
LEMMA KeepGuards ==
  ASSUME GuardInv, NEW i \in Slot, Guards!Keep(i)
  PROVE  GuardInv'
<1>1. GuardTypes'
  BY StopConstants, CancelEnds DEF GuardInv, GuardTypes, Guards!TypeOK,
     Guards!Open, CallType, Guards!Keep, Guards!Guarding, Guards!Matching,
     Guards!rows, Guards!market, Guards!requests, Guards!Held
<1>2. DropInv'
  <2>1. /\ i \in guardsCall.ours /\ guard[i].size = guardsCall.live
        /\ pos <= guardsCall.live /\ guardsCall.ours \subseteq Slot
        /\ guardsVenue[i] = "open" \/ pos = 0 \/ guardsCall.late
        /\ \A j \in guardsCall.ours : guard[j].size > 0
    BY StopConstants DEF GuardInv, GuardTypes, CallType, Guards!TypeOK,
       Guards!Open, StopsInv, ProtectInv, ReadInv, Guards!Keep,
       Guards!Guarding, Guards!Held, Guards!Matching
  <2>2. guardsCall'.at = "drop" =>
          /\ guardsCall'.todo = guardsCall.ours \ {i}
          /\ guardsCall'.late = guardsCall.late
    BY <2>1, CancelEnds DEF GuardInv, Guards!Keep
  <2>3. guardsCall'.at # "dropping"
    BY <2>1, CancelEnds DEF GuardInv, Guards!Keep
  <2> QED
    BY <2>1, <2>2, <2>3 DEF DropInv, Guards!Keep, Guards!rows,
         Guards!market, Guards!requests
<1>3. StopsInv'
  BY <1>2, CancelEnds DEF GuardInv, GuardTypes, CallType, StopsInv, Sized,
     StopHeld, ProtectInv, ReadInv, PlaceInv, ExitInv, Guards!Keep,
     Guards!rows, Guards!market, Guards!requests
<1> QED  BY <1>1, <1>3 DEF GuardInv

\* The new stop is sent while the old ones rest.
LEMMA DispatchGuards ==
  ASSUME GuardInv, Guards!Dispatch
  PROVE  GuardInv'
<1>1. GuardTypes'
  BY StopConstants DEF GuardInv, GuardTypes, Guards!TypeOK, Guards!Open,
     CallType, Guards!Dispatch, Guards!AfterPost, Guards!rows, Guards!market,
     StopsInv, PlaceInv
<1>2. StopsInv'
  BY DEF GuardInv, StopsInv, Sized, StopHeld, ProtectInv, ReadInv, PlaceInv,
     DropInv, ExitInv, Guards!Dispatch, Guards!AfterPost,
     Guards!rows, Guards!market
<1> QED  BY <1>1, <1>2 DEF GuardInv

\* The new stop rests, or has closed the position.
LEMMA AcknowledgeGuards ==
  ASSUME GuardInv, Guards!Acknowledge
  PROVE  GuardInv'
<1>1. GuardTypes'
  <2>1. guard' \in [Slot -> RowType]
    BY StopConstants DEF GuardInv, GuardTypes, Guards!TypeOK, Guards!Open,
       RowType, StopsInv, PlaceInv, Guards!Acknowledge, Guards!Uncertain
  <2>2. guardsCall' \in CallType
    BY CancelEnds DEF GuardInv, GuardTypes, CallType, Guards!Acknowledge
  <2> QED
    BY <2>1, <2>2 DEF GuardInv, GuardTypes, Guards!TypeOK, Guards!Open,
       RowType, Guards!Acknowledge, Guards!market, Guards!requests
<1>2. StopsInv'
  BY StopConstants, CancelEnds DEF GuardInv, GuardTypes, CallType,
     Guards!TypeOK, Guards!Open, StopsInv, Sized, StopHeld, ProtectInv,
     ReadInv, PlaceInv, DropInv, ExitInv, Guards!Acknowledge, Guards!market,
     Guards!requests
<1> QED  BY <1>1, <1>2 DEF GuardInv

LEMMA FailGuards ==
  ASSUME GuardInv, Guards!Fail
  PROVE  GuardInv'
<1>0. cancels' \subseteq Guards!Open'
  BY ForgetStays DEF GuardInv, StopsInv, PlaceInv, Guards!Fail, Guards!Unplaced
<1>1. GuardTypes'
  <2>1. guard' \in [Slot -> RowType]
    BY StopConstants DEF GuardInv, GuardTypes, Guards!TypeOK, Guards!Open,
       RowType, StopsInv, PlaceInv, Guards!Fail, Guards!Unplaced, Guards!Row,
       Guards!NoGuard, Guards!Uncertain
  <2>2. guardsCall' \in CallType
    BY CallEnds, ExitEnds DEF GuardInv, GuardTypes, StopsInv, PlaceInv,
       Guards!Fail, Guards!Unplaced
  <2> QED
    BY <1>0, <2>1, <2>2 DEF GuardInv, GuardTypes, Guards!TypeOK, RowType,
       Guards!Fail, Guards!Unplaced, Guards!Forget, Guards!market
<1>2. StopsInv'
  BY CallEnds, ExitEnds DEF GuardInv, StopsInv, Sized, StopHeld, ProtectInv,
     ReadInv, PlaceInv, DropInv, ExitInv, Guards!Fail,
     Guards!Unplaced, Guards!Row, Guards!Forget, Guards!market,
     Guards!NoGuard
<1> QED  BY <1>1, <1>2 DEF GuardInv

LEMMA RefusedGuards ==
  ASSUME GuardInv, Guards!Refused
  PROVE  GuardInv'
<1>0. cancels' \subseteq Guards!Open'
  BY ForgetStays
     DEF GuardInv, StopsInv, PlaceInv, Guards!Refused, Guards!Unplaced
<1>1. GuardTypes'
  <2>1. guard' \in [Slot -> RowType]
    BY StopConstants DEF GuardInv, GuardTypes, Guards!TypeOK, Guards!Open,
       RowType, StopsInv, PlaceInv, Guards!Refused, Guards!Unplaced,
       Guards!Row, Guards!NoGuard, Guards!Uncertain
  <2>2. guardsCall' \in CallType
    BY CallEnds, ExitEnds DEF GuardInv, GuardTypes, StopsInv, PlaceInv,
       Guards!Refused, Guards!Unplaced
  <2> QED
    BY <1>0, <2>1, <2>2 DEF GuardInv, GuardTypes, Guards!TypeOK, RowType,
       Guards!Refused, Guards!Unplaced, Guards!Forget, Guards!market
<1>2. StopsInv'
  BY CallEnds, ExitEnds DEF GuardInv, StopsInv, Sized, StopHeld, ProtectInv,
     ReadInv, PlaceInv, DropInv, ExitInv, Guards!Refused,
     Guards!Unplaced, Guards!Row, Guards!Forget, Guards!market,
     Guards!NoGuard
<1> QED  BY <1>1, <1>2 DEF GuardInv

LEMMA LoseAnswerGuards ==
  ASSUME GuardInv, Guards!LoseAnswer
  PROVE  GuardInv'
<1>1. GuardTypes'
  <2>1. guard' \in [Slot -> RowType]
    BY StopConstants DEF GuardInv, GuardTypes, Guards!TypeOK, Guards!Open,
       RowType, StopsInv, PlaceInv, Guards!LoseAnswer, Guards!Uncertain
  <2>2. guardsCall' \in CallType
    BY CallEnds DEF GuardInv, GuardTypes, CallType, Guards!LoseAnswer
  <2> QED
    BY <2>1, <2>2 DEF GuardInv, GuardTypes, Guards!TypeOK, Guards!Open,
       RowType, Guards!LoseAnswer, Guards!market, Guards!requests
<1>2. StopsInv'
  BY CallEnds DEF GuardInv, StopsInv, Sized, StopHeld, ProtectInv, ReadInv,
     PlaceInv, DropInv, ExitInv, Guards!LoseAnswer, Guards!market,
     Guards!requests
<1> QED  BY <1>1, <1>2 DEF GuardInv

LEMMA SendCancelGuards ==
  ASSUME GuardInv, NEW i \in Slot, Guards!SendCancel(i)
  PROVE  GuardInv'
<1>1. GuardTypes'
  <2>1. guard' \in [Slot -> RowType]
    BY StopConstants DEF GuardInv, GuardTypes, Guards!TypeOK, Guards!Open,
       RowType, Guards!SendCancel, Guards!rows
  <2>2. guardsCall' \in CallType
    BY StopConstants DEF GuardInv, GuardTypes, CallType, Guards!SendCancel
  <2> QED
    BY <2>1, <2>2 DEF GuardInv, GuardTypes, Guards!TypeOK, Guards!Open,
       RowType, Guards!SendCancel, Guards!rows, Guards!market
<1>2. StopsInv'
  BY DEF GuardInv, StopsInv, Sized, StopHeld, ProtectInv, ReadInv, PlaceInv,
     DropInv, ExitInv, Guards!SendCancel, Guards!Open, Guards!rows,
     Guards!market
<1> QED  BY <1>1, <1>2 DEF GuardInv

\* What the account says becomes what protect goes by.
LEMMA ReadAccountGuards ==
  ASSUME GuardInv, Guards!ReadAccount
  PROVE  GuardInv'
<1> DEFINE flagged == [inv EXCEPT !.suspended =
                         @ \/ (inv.qty # 0 /\ inv.qty # pos)]
           read == [guardsCall EXCEPT !.at = "protect", !.goal = 0,
                                      !.live = pos, !.ours = Guards!Open]
<1>1. /\ UNCHANGED <<guardsEnabled, guard, kind, pos, own, entered, price,
                     guardsVenue, cancels, exits>>
      /\ sent' = sent \/ sent' = {}
      /\ \/ inv' = flagged
         \/ /\ guardsCall.goal # 0 /\ pos > 0 /\ inv.qty = pos
            /\ inv' = [flagged EXCEPT !.stop = guardsCall.goal]
      /\ guardsCall' = read \/ guardsCall' = Guards!Idle
  BY DEF Guards!ReadAccount, Guards!Inventory, Guards!market, Guards!requests
<1>2. flagged \in [qty : 0 .. MaxQty, stop : Guards!Stop \cup {0},
                   suspended : BOOLEAN]
  BY DEF GuardInv, GuardTypes, Guards!TypeOK, Guards!Open
<1>3. /\ flagged.qty = inv.qty /\ flagged.stop = inv.stop
      /\ flagged.suspended \/ inv.qty = pos \/ inv.qty = 0
  BY DEF GuardInv, GuardTypes, Guards!TypeOK, Guards!Open
<1>4. /\ read \in CallType /\ read.at = "protect"
      /\ read.live = pos /\ read.ours = Guards!Open
  <2>1. /\ guardsCall \in CallType /\ pos \in 0 .. MaxQty
        /\ Guards!Open \in SUBSET Slot
    BY DEF GuardInv, GuardTypes, Guards!TypeOK, Guards!Open
  <2> HIDE DEF Guards!Open
  <2> QED  BY <2>1 DEF CallType
<1> HIDE DEF flagged, read
<1>5. guardsCall' \in CallType /\ guardsCall'.at \in {"protect", "idle"}
  BY <1>1, <1>4, CallEnds
<1>6. /\ inv' \in [qty : 0 .. MaxQty, stop : Guards!Stop \cup {0},
                   suspended : BOOLEAN]
      /\ inv'.qty = inv.qty
      /\ inv'.suspended \/ inv.qty = pos \/ inv.qty = 0
      /\ inv'.stop # 0 => inv.qty > 0
  <2>1. CASE inv' = flagged
    BY <2>1, <1>2, <1>3 DEF GuardInv, StopsInv, StopHeld
  <2>2. CASE /\ guardsCall.goal # 0 /\ pos > 0 /\ inv.qty = pos
             /\ inv' = [flagged EXCEPT !.stop = guardsCall.goal]
    BY <2>2, <1>2, <1>3 DEF GuardInv, GuardTypes, CallType
  <2> QED  BY <1>1, <2>1, <2>2
<1>7. GuardTypes'
  BY <1>1, <1>5, <1>6 DEF GuardInv, GuardTypes, Guards!TypeOK, Guards!Open
<1>8. Sized' /\ StopHeld'
  BY <1>1, <1>6 DEF GuardInv, StopsInv, Sized, StopHeld
<1>9. guardsCall'.at = "protect" =>
        guardsCall'.live = pos /\ guardsCall'.ours = Guards!Open
  BY <1>1, <1>4, CallEnds
<1>10. ProtectInv' /\ ReadInv'
  BY <1>1, <1>5, <1>6, <1>9, StopConstants DEF GuardInv, GuardTypes,
     Guards!TypeOK, StopsInv, Sized, ProtectInv, ReadInv, Guards!Open
<1>11. PlaceInv' /\ DropInv' /\ ExitInv'
  BY <1>5 DEF PlaceInv, DropInv, ExitInv
<1> QED  BY <1>7, <1>8, <1>10, <1>11 DEF GuardInv, StopsInv

\* The row of a new stop takes a slot that the exchange knows nothing of.
LEMMA DraftGuards ==
  ASSUME GuardInv, NEW i \in Slot, Guards!Draft(i)
  PROVE  GuardInv'
<1> DEFINE r == [state |-> "submitting", stop |-> inv.stop,
                 size |-> guardsCall.live]
<1>1. /\ UNCHANGED <<guardsEnabled, inv, sent, kind, pos, own, entered, price,
                     guardsVenue, cancels, exits>>
      /\ guardsCall.at = "protect" /\ guardsCall.live > 0
      /\ guard[i].size = 0 /\ guard' = [guard EXCEPT ![i] = r]
  BY DEF Guards!Draft, Guards!Wanting, Guards!Guarding, Guards!Held,
         Guards!Free, Guards!NoGuard, Guards!market, Guards!requests
<1>2. /\ guardsCall' \in CallType /\ guardsCall'.at = "place"
      /\ guardsCall'.slot = i /\ guardsCall'.live = guardsCall.live
      /\ guardsCall'.ours = guardsCall.ours
  BY DEF GuardInv, GuardTypes, CallType, Guards!Draft
<1>3. r \in RowType /\ r.size = guardsCall.live /\ r.state = "submitting"
  BY DEF GuardInv, GuardTypes, Guards!TypeOK, Guards!Open, CallType, RowType,
     Guards!Uncertain
<1> HIDE DEF r
<1>4. /\ guard' \in [Slot -> RowType]
      /\ guard'[i].size = guardsCall.live /\ guard'[i].state = "submitting"
      /\ \A j \in Slot \ {i} : guard'[j] = guard[j]
  BY <1>1, <1>3 DEF GuardInv, GuardTypes, Guards!TypeOK, Guards!Open, RowType
<1>5. GuardTypes'
  BY <1>1, <1>2, <1>4 DEF GuardInv, GuardTypes, Guards!TypeOK, Guards!Open,
     RowType
<1>6. /\ i \notin guardsCall.ours /\ i \notin cancels
      /\ guardsVenue[i] = "none"
      /\ guardsCall.ours \subseteq Slot
  BY <1>1 DEF GuardInv, GuardTypes, CallType, StopsInv, Sized, ProtectInv
<1>7. Sized' /\ StopHeld' /\ ProtectInv' /\ ReadInv'
  BY <1>1, <1>2, <1>4, <1>6 DEF GuardInv, StopsInv, Sized, StopHeld,
     ProtectInv, ReadInv
<1>8. PlaceInv'
  BY <1>1, <1>2, <1>4, <1>6 DEF PlaceInv
<1>9. DropInv' /\ ExitInv'
  BY <1>2 DEF DropInv, ExitInv
<1> QED  BY <1>5, <1>7, <1>8, <1>9 DEF GuardInv, StopsInv

LEMMA ToggleGuards ==
  ASSUME GuardInv, Guards!Toggle
  PROVE  GuardInv'
<1>1. GuardTypes'
  BY StopConstants DEF GuardInv, GuardTypes, Guards!TypeOK, Guards!Open,
     CallType, Guards!Toggle, Guards!market, Guards!requests
<1>2. StopsInv'
  BY DEF GuardInv, StopsInv, Sized, StopHeld, ProtectInv, ReadInv, PlaceInv,
     DropInv, ExitInv, Guards!Toggle, Guards!market,
     Guards!requests
<1> QED  BY <1>1, <1>2 DEF GuardInv

LEMMA CloseByHandGuards ==
  ASSUME GuardInv, Guards!CloseByHand
  PROVE  GuardInv'
<1>1. GuardTypes'
  BY StopConstants DEF GuardInv, GuardTypes, Guards!TypeOK, Guards!Open,
     CallType, Guards!CloseByHand, Guards!rows, Guards!requests
<1>2. StopsInv'
  BY StopConstants DEF GuardInv, GuardTypes, CallType, Guards!TypeOK,
     Guards!Open, StopsInv, Sized, StopHeld, ProtectInv, ReadInv, PlaceInv,
     DropInv, ExitInv, Guards!CloseByHand, Guards!rows, Guards!requests
<1> QED  BY <1>1, <1>2 DEF GuardInv

LEMMA AdoptGuards ==
  ASSUME GuardInv, Guards!Adopt
  PROVE  GuardInv'
<1>1. GuardTypes'
  BY StopConstants, CallEnds DEF GuardInv, GuardTypes, Guards!TypeOK,
     Guards!Open, CallType, Guards!Adopt, Guards!Vacant, Guards!Inventory,
     Guards!requests
<1>2. StopsInv'
  BY StopConstants, CallEnds DEF GuardInv, GuardTypes, Guards!TypeOK,
     Guards!Open, StopsInv, Sized, StopHeld, ProtectInv, ReadInv, PlaceInv,
     DropInv, ExitInv, Guards!Adopt, Guards!Vacant, Guards!Inventory,
     Guards!requests
<1> QED  BY <1>1, <1>2 DEF GuardInv

LEMMA AbandonGuards ==
  ASSUME GuardInv, NEW i \in Slot, Guards!Abandon(i)
  PROVE  GuardInv'
<1>0. cancels' \subseteq Guards!Open'
  BY ForgetStays DEF Guards!Abandon
<1>1. GuardTypes'
  BY <1>0, StopConstants, CallEnds DEF GuardInv, GuardTypes, Guards!TypeOK,
     CallType, Guards!Abandon, Guards!Vacant, Guards!Uncertain,
     Guards!Row, Guards!Forget, Guards!market, Guards!NoGuard
<1>2. StopsInv'
  BY CallEnds DEF GuardInv, GuardTypes, Guards!TypeOK, Guards!Open, StopsInv,
     Sized, StopHeld, ProtectInv, ReadInv, PlaceInv, DropInv, ExitInv,
     Guards!Abandon, Guards!Vacant, Guards!Uncertain, Guards!Row,
     Guards!Forget, Guards!market, Guards!NoGuard
<1> QED  BY <1>1, <1>2 DEF GuardInv

LEMMA ArriveGuards ==
  ASSUME GuardInv, NEW i \in Slot, Guards!Arrive(i)
  PROVE  GuardInv'
<1>1. GuardTypes'
  BY StopConstants DEF GuardInv, GuardTypes, Guards!TypeOK, Guards!Open,
     CallType, Guards!Arrive, Guards!Becomes, Guards!rows, Guards!market
<1>2. StopsInv'
  BY DEF GuardInv, StopsInv, Sized, StopHeld, ProtectInv, ReadInv, PlaceInv,
     DropInv, ExitInv, Guards!Arrive, Guards!Becomes, Guards!rows,
     Guards!market
<1> QED  BY <1>1, <1>2 DEF GuardInv

LEMMA RefuseGuards ==
  ASSUME GuardInv, NEW i \in Slot, Guards!Refuse(i)
  PROVE  GuardInv'
<1>1. GuardTypes'
  BY StopConstants DEF GuardInv, GuardTypes, Guards!TypeOK, Guards!Open,
     CallType, Guards!Refuse, Guards!Becomes, Guards!rows, Guards!market
<1>2. StopsInv'
  BY DEF GuardInv, StopsInv, Sized, StopHeld, ProtectInv, ReadInv, PlaceInv,
     DropInv, ExitInv, Guards!Refuse, Guards!Becomes, Guards!rows,
     Guards!market
<1> QED  BY <1>1, <1>2 DEF GuardInv

LEMMA MoveGuards ==
  ASSUME GuardInv, NEW p \in MinPrice .. MaxPrice, Guards!Move(p)
  PROVE  GuardInv'
<1>1. GuardTypes'
  BY StopConstants DEF GuardInv, GuardTypes, Guards!TypeOK, Guards!Open,
     CallType, Guards!Move, Guards!rows, Guards!requests
<1>2. StopsInv'
  BY DEF GuardInv, StopsInv, Sized, StopHeld, ProtectInv, ReadInv, PlaceInv,
     DropInv, ExitInv, Guards!Move, Guards!rows, Guards!requests
<1> QED  BY <1>1, <1>2 DEF GuardInv

LEMMA TakeExitGuards ==
  ASSUME GuardInv, NEW n \in exits, NEW filled \in 0 .. MaxQty,
         Guards!TakeExit(n, filled)
  PROVE  GuardInv'
<1>1. GuardTypes'
  BY StopConstants DEF GuardInv, GuardTypes, Guards!TypeOK, Guards!Open,
     CallType, Guards!TakeExit, Guards!Less, Guards!rows
<1>2. StopsInv'
  BY StopConstants DEF GuardInv, GuardTypes, CallType, Guards!TypeOK,
     Guards!Open, StopsInv, Sized, StopHeld, ProtectInv, ReadInv, PlaceInv,
     DropInv, ExitInv, Guards!TakeExit, Guards!Less, Guards!rows
<1> QED  BY <1>1, <1>2 DEF GuardInv

\* How a stop ends: its row goes, or stays for a call that has read it or does
\* not know its fate.
LEMMA HowItEnds ==
  ASSUME GuardInv, NEW i \in Slot, guardsVenue[i] = "open", Guards!Ends(i),
         cancels' = cancels \ {i}
  PROVE  /\ guard' \in [Slot -> RowType]
         /\ guardsVenue' \in [Slot -> {"none", "flight", "open", "refused",
                                       "gone"}]
         /\ cancels' \subseteq Guards!Open'
         /\ \A j \in Slot \ {i} : /\ guard'[j] = guard[j]
                                  /\ guardsVenue'[j] = guardsVenue[j]
         /\ i \in guardsCall.ours \/ guard[i].state \in Guards!Uncertain =>
              guard' = guard /\ guardsVenue'[i] = "gone"
         /\ guardsVenue'[i] # "open"
         /\ Sized'
<1>1. /\ guard \in [Slot -> RowType] /\ guard[i].size > 0
      /\ guardsVenue \in [Slot -> {"none", "flight", "open", "refused",
                                  "gone"}]
      /\ cancels \subseteq Guards!Open
  BY DEF GuardInv, GuardTypes, Guards!TypeOK, Guards!Open, RowType, StopsInv,
     Sized
<1>2. Guards!NoGuard \in RowType
  BY StopConstants DEF Guards!NoGuard, RowType
<1>3. CASE guard[i].state \notin Guards!Uncertain /\ i \notin guardsCall.ours
  <2>1. /\ guard' = [guard EXCEPT ![i] = Guards!NoGuard]
        /\ guardsVenue' = [guardsVenue EXCEPT ![i] = "none"]
    BY <1>3 DEF Guards!Ends
  <2> QED
    BY <1>1, <1>2, <1>3, <2>1 DEF GuardInv, StopsInv, Sized, Guards!Open
<1>4. CASE ~(guard[i].state \notin Guards!Uncertain
               /\ i \notin guardsCall.ours)
  <2>1. guard' = guard /\ guardsVenue' = [guardsVenue EXCEPT ![i] = "gone"]
    BY <1>4 DEF Guards!Ends
  <2> QED
    BY <1>1, <2>1 DEF GuardInv, StopsInv, Sized, Guards!Open
<1> QED  BY <1>3, <1>4

\* A stop that is reached reduces the position by its size.
LEMMA TriggerGuards ==
  ASSUME GuardInv, NEW i \in Slot, Guards!Trigger(i)
  PROVE  GuardInv'
<1>1. /\ UNCHANGED <<guardsEnabled, inv, sent, guardsCall, price, exits, kind>>
      /\ guardsVenue[i] = "open" /\ Guards!Ends(i) /\ cancels' = cancels \ {i}
  BY DEF Guards!Trigger, Guards!Open
<1>2. /\ pos' \in 0 .. MaxQty /\ own' \in 0 .. MaxQty /\ pos' <= pos
      /\ guard[i].size >= pos => pos' = 0
      /\ entered' \in Guards!Stop \cup {0}
  BY StopConstants DEF Guards!Trigger, GuardInv, GuardTypes, Guards!TypeOK,
     Guards!Open, Guards!Less
<1>3. GuardTypes'
  BY <1>1, <1>2, HowItEnds DEF GuardInv, GuardTypes, Guards!TypeOK,
     Guards!Open, RowType
<1>4. Sized' /\ StopHeld' /\ ExitInv'
  BY <1>1, HowItEnds DEF GuardInv, StopsInv, StopHeld, ExitInv
<1>5. guardsCall.ours \subseteq Slot /\ guardsCall.live \in Nat /\ pos \in Nat
      /\ \A j \in Slot : guard[j].size \in Nat
  BY StopConstants DEF GuardInv, GuardTypes, Guards!TypeOK, Guards!Open,
     CallType
<1>6. ProtectInv' /\ ReadInv'
  BY <1>1, <1>2, <1>5, HowItEnds DEF GuardInv, StopsInv, ProtectInv, ReadInv
<1>7. PlaceInv'
  BY <1>1, <1>2, <1>5, HowItEnds DEF GuardInv, StopsInv, ProtectInv, PlaceInv,
     Guards!Uncertain
<1>8. DropInv'
  BY <1>1, <1>2, <1>5, HowItEnds DEF GuardInv, StopsInv, DropInv
<1> QED  BY <1>3, <1>4, <1>6, <1>7, <1>8 DEF GuardInv, StopsInv

\* A cancellation arrives: of what the call still has to cancel, the stop that
\* is left to the position is none; another one that goes came late.
LEMMA TakeCancelGuards ==
  ASSUME GuardInv, NEW i \in Slot, Guards!TakeCancel(i)
  PROVE  GuardInv'
<1> DEFINE rest == guardsCall.todo \ {i}
<1>1. /\ UNCHANGED <<guardsEnabled, inv, sent, kind, pos, own, entered, price,
                     exits>>
      /\ guardsVenue[i] = "open" /\ Guards!Ends(i)
      /\ i \in cancels /\ cancels' = cancels \ {i}
  BY DEF Guards!TakeCancel, Guards!market, GuardInv, GuardTypes, Guards!TypeOK,
     Guards!Open
<1>2. rest \in SUBSET Slot /\ guardsCall.ours \subseteq Slot
  BY DEF GuardInv, GuardTypes, CallType
<1>3. Sized' /\ StopHeld'
  BY <1>1, HowItEnds DEF GuardInv, StopsInv, StopHeld
<1>4. CASE Guards!Awaited(i)
  <2>1. /\ guardsCall' \in CallType /\ guardsCall'.at \in {"idle", "drop"}
        /\ guardsCall'.at = "drop" => /\ guardsCall'.todo = rest
                                     /\ guardsCall'.late = guardsCall.late
    BY <1>2, <1>4, CancelEnds DEF GuardInv, Guards!TakeCancel
  <2>2. GuardTypes'
    BY <1>1, <2>1, HowItEnds DEF GuardInv, GuardTypes, Guards!TypeOK,
       Guards!Open, RowType
  <2>3. ProtectInv' /\ ReadInv' /\ PlaceInv' /\ ExitInv'
    BY <2>1 DEF ProtectInv, ReadInv, PlaceInv, ExitInv
  <2>4. DropInv'
    <3>1. guardsCall.at = "dropping" /\ i \in guardsCall.todo
      BY <1>4 DEF GuardInv, StopsInv, DropInv, Guards!Awaited
    <3> QED
      BY <1>1, <2>1, <3>1, HowItEnds DEF GuardInv, StopsInv, DropInv
  <2> QED  BY <1>3, <2>2, <2>3, <2>4 DEF GuardInv, StopsInv
<1>5. CASE ~Guards!Awaited(i)
  <2>1. guardsCall' = [guardsCall EXCEPT !.late = @ \/ Guards!Chosen]
    BY <1>5 DEF Guards!TakeCancel
  <2>2. /\ guardsCall' \in CallType
        /\ guardsCall'.late = (guardsCall.late \/ Guards!Chosen)
        /\ guardsCall'.at = guardsCall.at /\ guardsCall'.live = guardsCall.live
        /\ guardsCall'.ours = guardsCall.ours
        /\ guardsCall'.todo = guardsCall.todo
        /\ guardsCall'.slot = guardsCall.slot
        /\ guardsCall'.key = guardsCall.key
    BY <2>1 DEF GuardInv, GuardTypes, CallType, Guards!Chosen
  <2>3. GuardTypes'
    BY <1>1, <2>2, HowItEnds DEF GuardInv, GuardTypes, Guards!TypeOK,
       Guards!Open, RowType
  <2>4. ProtectInv' /\ ReadInv'
    BY <1>1, <1>2, <2>2, HowItEnds DEF GuardInv, StopsInv, ProtectInv, ReadInv,
       Guards!Chosen
  <2>5. PlaceInv'
    <3>1. ASSUME guardsCall.at \in {"place", "ack"}
          PROVE  guardsCall.slot \in Slot \ {i}
      BY <1>1, <3>1 DEF GuardInv, StopsInv, PlaceInv
    <3> QED
      BY <1>1, <2>2, <3>1, HowItEnds DEF GuardInv, StopsInv, PlaceInv
  <2>6. DropInv' /\ ExitInv'
    BY <2>2 DEF GuardInv, StopsInv, DropInv, ExitInv, Guards!Chosen
  <2> QED  BY <1>3, <2>3, <2>4, <2>5, <2>6 DEF GuardInv, StopsInv
<1> QED  BY <1>4, <1>5

\* A cancellation is lost: nothing is different but that the call ends.
LEMMA LoseCancelGuards ==
  ASSUME GuardInv, NEW i \in Slot, Guards!LoseCancel(i)
  PROVE  GuardInv'
<1>1. GuardTypes'
  BY CallEnds DEF GuardInv, GuardTypes, Guards!TypeOK, Guards!LoseCancel,
     Guards!rows, Guards!market, Guards!Open
<1>2. StopsInv'
  BY CallEnds DEF GuardInv, StopsInv, Sized, StopHeld, ProtectInv, ReadInv,
     PlaceInv, DropInv, ExitInv, Guards!LoseCancel, Guards!rows,
     Guards!market
<1> QED  BY <1>1, <1>2 DEF GuardInv

-----------------------------------------------------------------------------
(* The stops: what the invariant gives *)

LEMMA GuardsInit == Guards!Init => GuardInv
<1> SUFFICES ASSUME Guards!Init  PROVE GuardInv
  OBVIOUS
<1>1. GuardTypes
  BY StopConstants, CallEnds DEF Guards!Init, GuardTypes, Guards!TypeOK,
     Guards!Open, Guards!NoGuard, Guards!Stop
<1>2. StopsInv
  BY CallEnds DEF Guards!Init, StopsInv, Sized, StopHeld, ProtectInv, ReadInv,
     PlaceInv, DropInv, ExitInv
<1> QED  BY <1>1, <1>2 DEF GuardInv

LEMMA GuardInvStep ==
  ASSUME GuardInv, [Guards!Next]_(Guards!vars)
  PROVE  GuardInv'
<1>1. CASE UNCHANGED Guards!vars
  <2>1. /\ UNCHANGED <<guardsEnabled, inv, sent, guard, guardsCall>>
        /\ UNCHANGED <<kind, pos, own, entered, price>>
        /\ UNCHANGED <<guardsVenue, cancels, exits>>
    BY <1>1 DEF Guards!vars, Guards!rows, Guards!market, Guards!requests
  <2>2. GuardTypes'
    BY <2>1 DEF GuardInv, GuardTypes, Guards!TypeOK, Guards!Open
  <2>3. StopsInv'
    BY <2>1 DEF GuardInv, StopsInv, Sized, StopHeld, ProtectInv, ReadInv,
       PlaceInv, DropInv, ExitInv
  <2> QED  BY <2>2, <2>3 DEF GuardInv
<1>2. CASE Guards!Advance
  BY <1>2, EndingGuards, BookFillsGuards, ReadAccountGuards, RemoveAllGuards,
     NoneWantedGuards, DispatchGuards, AcknowledgeGuards, RefusedGuards,
     KeepGuards, DraftGuards, SendCancelGuards DEF Guards!Advance
<1>3. CASE Guards!Environment
  BY <1>3, ToggleGuards, CloseByHandGuards, AdoptGuards, ReduceGuards,
     AbandonGuards, ArriveGuards, RefuseGuards, TakeCancelGuards,
     LoseCancelGuards,
     TriggerGuards, EnterGuards, MoveGuards, TakeExitGuards
     DEF Guards!Environment
<1>4. CASE \/ Guards!TickDesk \/ \E s \in Guards!Stop : Guards!Revise(s)
           \/ Guards!Fail \/ Guards!LoseAnswer \/ Guards!Break
  BY <1>4, EndingGuards, FailGuards, LoseAnswerGuards
<1> QED  BY <1>1, <1>2, <1>3, <1>4 DEF Guards!Next

\* Whatever else happens, an open stop stays open.
LEMMA OpenStays ==
  ASSUME GuardInv, [Guards!Next]_(Guards!vars), NEW i \in Slot,
         guardsVenue[i] = "open",
         ~Guards!Trigger(i), ~Guards!TakeCancel(i)
  PROVE  guardsVenue'[i] = "open"
<1>1. /\ guardsVenue \in [Slot -> {"none", "flight", "open", "refused",
                                  "gone"}]
      /\ guard[i].size # 0 /\ guard[i] \in RowType
  BY StopConstants DEF GuardInv, GuardTypes, Guards!TypeOK, Guards!Open,
     RowType, StopsInv, Sized
<1>2. ASSUME Guards!Forget, guard'[i] # Guards!NoGuard
      PROVE  guardsVenue'[i] = "open"
  BY <1>2 DEF Guards!Forget
<1>3. \A state : /\ Guards!Row(i, state) # Guards!NoGuard
                /\ guard[i] # Guards!NoGuard
  BY RowStays
<1>4. CASE Guards!BookFills
  BY <1>2, <1>3, <1>4 DEF Guards!BookFills
<1>5. CASE Guards!Fail \/ Guards!Refused
  <2>1. guard'[i] # Guards!NoGuard
    <3>1. guard' = [guard EXCEPT ![guardsCall.slot] =
                      Guards!Row(guardsCall.slot, "over")]
      BY <1>5 DEF Guards!Fail, Guards!Refused, Guards!Unplaced
    <3> QED  BY <1>3, <3>1 DEF GuardInv, GuardTypes, Guards!TypeOK, Guards!Open
  <2> QED  BY <1>2, <1>5, <2>1 DEF Guards!Fail, Guards!Refused, Guards!Unplaced
<1>6. ASSUME NEW j \in Slot, Guards!Abandon(j)
      PROVE  guardsVenue'[i] = "open"
  <2>1. guard'[i] # Guards!NoGuard
    BY <1>3, <1>6 DEF Guards!Abandon, GuardInv, GuardTypes, Guards!TypeOK,
       Guards!Open
  <2> QED  BY <1>2, <1>6, <2>1 DEF Guards!Abandon
<1>7. CASE Guards!Dispatch
  BY <1>1, <1>7 DEF Guards!Dispatch, GuardInv, StopsInv, PlaceInv
<1>8. ASSUME NEW j \in Slot,
             \/ Guards!Arrive(j) \/ Guards!Refuse(j) \/ Guards!Trigger(j)
             \/ Guards!TakeCancel(j)
             \/ \E s \in Guards!Stop, n \in 1 .. MaxQty : Guards!Enter(j, s, n)
      PROVE  guardsVenue'[i] = "open"
  BY <1>1, <1>8 DEF Guards!Arrive, Guards!Refuse, Guards!Becomes,
     Guards!Trigger, Guards!TakeCancel, Guards!Ends, Guards!Enter
<1>9. CASE UNCHANGED Guards!requests
  BY <1>9 DEF Guards!requests
<1>10. CASE UNCHANGED guardsVenue
  BY <1>10
<1>11. CASE \/ Guards!ReadAccount \/ Guards!RemoveAll \/ Guards!NoneWanted
            \/ Guards!Acknowledge \/ \E j \in Slot : \/ Guards!Keep(j)
                                                    \/ Guards!Draft(j)
            \/ Guards!TickDesk \/ \E s \in Guards!Stop : Guards!Revise(s)
            \/ Guards!Skip \/ Guards!CrossedExit \/ Guards!SpotExit
            \/ Guards!RefuseReplacement \/ Guards!SubmitExit \/ Guards!Break
            \/ Guards!LoseAnswer \/ Guards!Toggle \/ Guards!CloseByHand
            \/ Guards!Unconfirmed \/ Guards!Adopt \/ Guards!Reduce
            \/ \E p \in MinPrice .. MaxPrice : Guards!Move(p)
  BY <1>9, <1>11, Zenon
     DEF Guards!ReadAccount, Guards!RemoveAll, Guards!NoneWanted,
     Guards!Acknowledge, Guards!Keep, Guards!Draft, Guards!TickDesk,
     Guards!Revise, Guards!Skip, Guards!CrossedExit, Guards!SpotExit,
     Guards!RefuseReplacement, Guards!SubmitExit, Guards!Break,
     Guards!LoseAnswer, Guards!Toggle, Guards!CloseByHand, Guards!Adopt,
     Guards!Unconfirmed, Guards!Reduce, Guards!Move
<1>12. CASE \/ \E j \in Slot : Guards!SendCancel(j)
            \/ \E j \in Slot : Guards!LoseCancel(j)
            \/ Guards!SendExit
            \/ \E n \in exits, f \in 0 .. MaxQty : Guards!TakeExit(n, f)
  BY <1>10, <1>12, Zenon DEF Guards!SendCancel, Guards!LoseCancel,
     Guards!SendExit, Guards!TakeExit
<1>13. CASE UNCHANGED Guards!vars
  BY <1>9, <1>13 DEF Guards!vars
<1> QED
  BY <1>4, <1>5, <1>6, <1>7, <1>8, <1>11, <1>12, <1>13 DEF Guards!Next,
     Guards!Advance, Guards!Environment

\* A stop leaves the exchange by being triggered, which moves the position, or
\* by a cancellation that its call waits for; then another is left.
LEMMA LastStop ==
  ASSUME GuardInv, [Guards!Next]_(Guards!vars), Guards!Undisturbed,
         NEW i \in Slot, guardsVenue[i] = "open",
         ~guardsCall.late, ~Guards!ComesLate
  PROVE  \E j \in Slot : guardsVenue'[j] = "open"
<1>1. CASE Guards!Trigger(i)
  <2>1. pos \in Nat /\ guard[i].size \in Nat /\ guard[i].size > 0 /\ pos > 0
    BY StopConstants DEF GuardInv, GuardTypes, Guards!TypeOK, Guards!Open,
       StopsInv, Sized, Guards!Undisturbed
  <2>2. pos' # pos
    BY <1>1, <2>1 DEF Guards!Trigger, Guards!Less
  <2> QED  BY <2>2 DEF Guards!Undisturbed
<1>2. CASE Guards!TakeCancel(i) /\ guardsVenue'[i] # "open"
  <2>1. guardsCall.at = "dropping" /\ guardsCall.slot = i
    BY <1>2 DEF Guards!TakeCancel, Guards!ComesLate, Guards!Awaited
  <2>2. PICK k \in Slot \ guardsCall.todo : guardsVenue[k] = "open"
    BY <2>1 DEF GuardInv, StopsInv, DropInv, Guards!Undisturbed, GuardTypes,
       Guards!TypeOK, Guards!Open
  <2>3. k # i
    BY <2>1, <2>2 DEF GuardInv, StopsInv, DropInv
  <2>4. guardsVenue'[k] = guardsVenue[k]
    BY <1>2, <2>3, HowItEnds DEF Guards!TakeCancel
  <2> QED  BY <2>2, <2>4
<1> QED  BY <1>1, <1>2, OpenStays

\* The inductive invariant of the stops.
THEOREM GuardsInductive == Spec => []GuardInv
<1>1. Init => GuardInv
  BY GuardsInit DEF Init
<1>2. GuardInv /\ [Next]_vars => GuardInv'
  <2> SUFFICES ASSUME GuardInv, [Next]_vars  PROVE GuardInv'
    OBVIOUS
  <2>1. CASE GuardsStep
    BY <2>1, GuardInvStep DEF GuardsStep
  <2>2. CASE UNCHANGED guardsVars
    <3>1. UNCHANGED Guards!vars
      BY <2>2 DEF guardsVars, Guards!vars, Guards!rows, Guards!market,
         Guards!requests
    <3> QED  BY <3>1, GuardInvStep
  <2> QED  BY <2>1, <2>2 DEF Next, PairStep, vars
<1> QED  BY <1>1, <1>2, PTL DEF Spec

\* While a position is held undisturbed under a stop nothing leaves it without
\* one, for any number of stops, prices and sizes: the replacement rests before
\* the old stop goes, whatever fails in between.
THEOREM StopKeptHolds == Spec => StopKept
<1>1. GuardInv /\ [Next]_vars =>
        [Guards!Undisturbed /\ Guards!Open # {} /\ ~guardsCall.late
           /\ ~Guards!ComesLate => Guards!Open' # {}]_(Guards!vars)
  <2> SUFFICES ASSUME GuardInv, [Next]_vars, Guards!Undisturbed,
                      ~(UNCHANGED Guards!vars),
                      NEW i \in Slot, guardsVenue[i] = "open",
                      ~guardsCall.late, ~Guards!ComesLate
               PROVE  \E j \in Slot : guardsVenue'[j] = "open"
    BY DEF Guards!Open
  <2>1. Guards!Next
    BY DEF Next, PairStep, GuardsStep, vars, guardsVars, Guards!vars,
       Guards!rows, Guards!market, Guards!requests
  <2> QED  BY <2>1, LastStop
<1> QED  BY <1>1, GuardsInductive, PTL DEF Spec, StopKept, Guards!StopKept

-----------------------------------------------------------------------------
(* The pair: the inductive invariant *)

\* The order that opens leg k; what was traded to unwind the leg, and what the
\* rows count of it.
Lead(k) == <<k, 0>>
Sold(k) == SumOf([p \in Pair!Part |-> pairVenue[p].traded], Pair!Unwinds(k))
Booked(k) == SumOf([p \in Pair!Part |-> row[p].filled], Pair!Unwinds(k))

\* There is an order, or a call is about to send it.
Begun(p) == Pair!Exists(p) \/ pairCall.part = p

\* The call has been through the ledger and has not done with it.
Synced == pairCall.at = "advance" \/ pairCall.part # Pair!NoPart

PairRow == [state : Pair!Live \cup Pair!Over \cup {"none", "abandoned"},
            qty : 0 .. Qty, filled : 0 .. Qty]

VenueRow == [status : {"none", "flight", "open", "filled", "canceled",
                       "refused"},
             traded : 0 .. Qty]

PairCall ==
  [at : {"idle", "dead", "fetch", "status", "account", "advance", "synced",
         "ack"},
   part : Pair!Part \cup {Pair!NoPart}, qty : 0 .. Qty,
   expired : BOOLEAN, enabled : BOOLEAN, seen : [Pair!Part -> 0 .. Qty]]

PairTypes ==
  /\ pair \in Pair!Active \cup Pair!Ended \cup {"none", "intervention"}
  /\ late \in BOOLEAN /\ pairEnabled \in BOOLEAN /\ slipped \in BOOLEAN
  /\ row \in [Pair!Part -> PairRow]
  /\ pairVenue \in [Pair!Part -> VenueRow]
  /\ suspended \in [Pair!Leg -> BOOLEAN]
  /\ pairCall \in PairCall

\* What a row and the exchange say of one order: while the exchange may trade
\* it the row is live, and the row counts no more than was traded.
RowInv(p) ==
  /\ row[p].filled <= pairVenue[p].traded
  /\ pairVenue[p].traded <= row[p].qty
  /\ row[p].state = "none" => pairVenue[p].status = "none" /\ row[p].qty = 0
  /\ row[p].state # "none" => row[p].qty > 0
  /\ pairVenue[p].status \in {"none", "flight", "refused"} =>
       pairVenue[p].traded = 0
  /\ pairVenue[p].status \in {"flight", "open", "canceled"} =>
       pairVenue[p].traded < row[p].qty
  /\ pairVenue[p].status = "filled" => pairVenue[p].traded = row[p].qty
  /\ pairVenue[p].status \in {"flight", "open"} => Pair!IsLive(p)
  /\ row[p].state = "terminal" => pairVenue[p].status = "canceled"
  /\ row[p].state = "filled" =>
       pairVenue[p].status = "filled" /\ row[p].filled = row[p].qty
  /\ row[p].state \in {"rejected", "abandoned"} =>
       pairVenue[p].status \in {"none", "refused"}

\* The call, and the order it submits: no other order is live.
SubmitInv ==
  /\ pairCall.at \in {"idle", "dead", "advance"} =>
       pairCall.part = Pair!NoPart
  /\ pairCall.at \in {"synced", "ack"} => pairCall.part # Pair!NoPart
  /\ pairCall.part # Pair!NoPart =>
       /\ pairCall.qty > 0
       /\ Pair!Exists(pairCall.part) =>
            row[pairCall.part].state = "submitting"
       /\ pairCall.at = "ack" => Pair!Exists(pairCall.part)
       /\ pairCall.at # "ack" => pairVenue[pairCall.part].status = "none"
       /\ \A q \in Pair!Part \ {pairCall.part} : ~Pair!IsLive(q)

OneLive == \A p, q \in Pair!Part : Pair!IsLive(p) /\ Pair!IsLive(q) => p = q

\* What a sync has read: fills between those booked and those traded.
SeenInv ==
  pairCall.at \in {"status", "account"} =>
    \A p \in Pair!Part : /\ row[p].filled <= pairCall.seen[p]
                         /\ pairCall.seen[p] <= pairVenue[p].traded

\* A call runs for a pair that is active; if it has seen the deadline or a book
\* that is stopped, the pair is late.
PlanInv ==
  /\ pair = "none" => \A p \in Pair!Part : ~Pair!Exists(p)
  /\ ~pairEnabled => late
  /\ ~Pair!Free => pair \in Pair!Active
  /\ ~Pair!Free /\ (pairCall.expired \/ ~pairCall.enabled) => late

\* Whatever comes after the first leg comes after its end, with fills.
FirstInv ==
  \A q \in Pair!Part \ {Pair!First} : Begun(q) =>
    /\ Pair!Exists(Pair!First) /\ ~Pair!IsLive(Pair!First)
    /\ row[Pair!First].filled > 0
    /\ pairCall.part # Pair!First

\* The pair has left its plan for good.
Doomed ==
  \/ pair \notin {"first", "hedging"}
  \/ row[Pair!Second].state \in {"rejected", "terminal"}

\* A leg is unwound when neither leg can fill any more and no hedge can follow;
\* what the leg has traded is booked.
UnwindInv ==
  \A k \in Pair!Leg : \A u \in Pair!Unwinds(k) : Begun(u) =>
    /\ ~Pair!IsLive(Pair!Second) /\ row[Pair!Second].state # "filled"
    /\ pairCall.part # Pair!Second
    /\ late \/ Doomed
    /\ ~Pair!Free => pairCall.expired \/ ~pairCall.enabled \/ Doomed
    /\ row[Lead(k)].filled > 0
    /\ row[Lead(k)].filled = pairVenue[Lead(k)].traded

\* The second leg is unwound when the first is done with.
LegsInv ==
  \A u \in Pair!Unwinds(2) : Begun(u) =>
    /\ \A v \in Pair!Unwinds(1) : ~Pair!IsLive(v) /\ pairCall.part # v
    /\ \/ suspended[1]
       \/ /\ pairVenue[Pair!First].traded = Sold(1)
          /\ \A v \in Pair!Unwinds(1) : row[v].filled = pairVenue[v].traded

\* After a sync the ledger and the account agree on a leg that has no live
\* order, or its instrument is suspended, or nothing is held of it.
AgreeInv(k) ==
  /\ Synced /\ ~suspended[k]
  /\ \A p \in Pair!Part : p[1] = k => ~Pair!IsLive(p)
  /\ row[Lead(k)].filled # Booked(k)
  => row[Lead(k)].filled - Booked(k) = pairVenue[Lead(k)].traded - Sold(k)

\* After a sync, and unless a fill slipped in, an order that is over is counted.
OverInv(p) ==
  ~slipped /\ ~Pair!IsLive(p) =>
    /\ Synced => row[p].filled = pairVenue[p].traded
    /\ pairCall.at \in {"status", "account"} =>
         pairCall.seen[p] = pairVenue[p].traded

\* What is traded, or may still be traded, to unwind a leg is not more than
\* was traded to open it.
RoomInv(k) ==
  /\ Sold(k) <= pairVenue[Lead(k)].traded
  /\ \A u \in Pair!Unwinds(k) : Pair!IsLive(u) =>
       Sold(k) - pairVenue[u].traded + row[u].qty <= pairVenue[Lead(k)].traded
  /\ pairCall.part \in Pair!Unwinds(k) /\ ~Pair!Exists(pairCall.part) =>
       Sold(k) + pairCall.qty <= pairVenue[Lead(k)].traded

\* The hedge is as large as the first leg, unless a fill slipped in.
HedgeInv ==
  ~slipped =>
    /\ Pair!Exists(Pair!Second) =>
         row[Pair!Second].qty = pairVenue[Pair!First].traded
    /\ pairCall.part = Pair!Second =>
         pairCall.qty = pairVenue[Pair!First].traded

EndInv ==
  ~slipped /\ pair \in Pair!Ended =>
    /\ \A p \in Pair!Part : ~Pair!MayTrade(p)
    /\ pair # "complete" =>
         \A k \in Pair!Leg : pairVenue[Lead(k)].traded = Sold(k)
    /\ pair = "complete" => pairVenue[Lead(1)].traded - Sold(1)
                              = pairVenue[Lead(2)].traded - Sold(2)

RowsInv == \A p \in Pair!Part : RowInv(p)
AgreesInv == \A k \in Pair!Leg : AgreeInv(k)
OversInv == \A p \in Pair!Part : OverInv(p)
RoomsInv == \A k \in Pair!Leg : RoomInv(k)

PairInv ==
  /\ PairTypes /\ RowsInv /\ SubmitInv /\ OneLive /\ SeenInv /\ PlanInv
  /\ FirstInv /\ UnwindInv /\ LegsInv
  /\ AgreesInv /\ OversInv /\ RoomsInv /\ HedgeInv /\ EndInv

-----------------------------------------------------------------------------
(* The pair: orders and sums *)

LEMMA PairConstants == Qty \in Nat \ {0} /\ Tries \in Nat \ {0}
BY DirectionalAssumptions DEF Pair!PairAssumption

\* The orders of a pair.
LEMMA PartFacts ==
  /\ Pair!Leg = {1, 2}
  /\ Pair!First \in Pair!Part /\ Pair!Second \in Pair!Part
  /\ Pair!First # Pair!Second /\ Pair!NoPart \notin Pair!Part
  /\ Lead(1) = Pair!First /\ Lead(2) = Pair!Second
  /\ Pair!First[1] = 1 /\ Pair!Second[1] = 2
  /\ \A k \in Pair!Leg : \A u \in Pair!Unwinds(k) :
       /\ u \in Pair!Part /\ u[1] = k
       /\ u # Pair!First /\ u # Pair!Second
  /\ \A p \in Pair!Part :
       \/ p = Pair!First \/ p = Pair!Second
       \/ p \in Pair!Unwinds(1) \/ p \in Pair!Unwinds(2)
BY PairConstants DEF Pair!Leg, Pair!First, Pair!Second, Pair!Part, Pair!NoPart,
   Lead, Pair!Unwinds

LEMMA UnwindsFinite ==
  \A k \in Pair!Leg : /\ Pair!Unwinds(k) \subseteq Pair!Part
                      /\ IsFiniteSet(Pair!Unwinds(k))
<1>1. ASSUME NEW k \in Pair!Leg  PROVE IsFiniteSet(Pair!Unwinds(k))
  <2>1. IsFiniteSet({k})
    BY FS_Singleton
  <2>2. IsFiniteSet(1 .. Tries)
    BY PairConstants, FS_Interval
  <2>3. IsFiniteSet({k} \X (1 .. Tries))
    BY Zenon, <2>1, <2>2, FS_Product
  <2> QED  BY <2>3 DEF Pair!Unwinds
<1> QED  BY <1>1, PartFacts

LEMMA IdleFacts ==
  /\ Pair!Idle \in PairCall /\ Pair!Idle.at = "idle"
  /\ Pair!Idle.part = Pair!NoPart /\ ~Pair!Idle.expired
  /\ Pair!Dead \in PairCall /\ Pair!Dead.at = "dead"
  /\ Pair!Dead.part = Pair!NoPart
  /\ \A p \in Pair!Part : Pair!Idle.seen[p] = 0
<1>1. /\ Pair!Idle \in PairCall /\ Pair!Idle.at = "idle"
      /\ Pair!Idle.part = Pair!NoPart /\ ~Pair!Idle.expired
      /\ \A p \in Pair!Part : Pair!Idle.seen[p] = 0
  BY PairConstants DEF Pair!Idle, PairCall
<1> QED  BY <1>1 DEF Pair!Dead, PairCall

LEMMA SoldSame ==
  ASSUME \A p \in Pair!Part : pairVenue'[p].traded = pairVenue[p].traded
  PROVE  \A k \in Pair!Leg : Sold(k)' = Sold(k)
<1> SUFFICES ASSUME NEW k \in Pair!Leg  PROVE Sold(k)' = Sold(k)
  OBVIOUS
<1> DEFINE v == [p \in Pair!Part |-> pairVenue[p].traded]
           w == [p \in Pair!Part |-> pairVenue'[p].traded]
<1>1. v = w
  OBVIOUS
<1> QED  BY <1>1 DEF Sold

LEMMA BookedSame ==
  ASSUME \A p \in Pair!Part : row'[p].filled = row[p].filled
  PROVE  \A k \in Pair!Leg : Booked(k)' = Booked(k)
<1> SUFFICES ASSUME NEW k \in Pair!Leg  PROVE Booked(k)' = Booked(k)
  OBVIOUS
<1> DEFINE v == [p \in Pair!Part |-> row[p].filled]
           w == [p \in Pair!Part |-> row'[p].filled]
<1>1. v = w
  OBVIOUS
<1> QED  BY <1>1 DEF Booked

LEMMA SumsType ==
  ASSUME PairTypes, NEW k \in Pair!Leg
  PROVE  Sold(k) \in Nat /\ Booked(k) \in Nat
<1> DEFINE v == [p \in Pair!Part |-> pairVenue[p].traded]
           w == [p \in Pair!Part |-> row[p].filled]
<1>1. \A p \in Pair!Unwinds(k) : v[p] \in Nat /\ w[p] \in Nat
  BY PartFacts, PairConstants DEF PairTypes, PairRow, VenueRow
<1>2. /\ Sold(k) = SumOf(v, Pair!Unwinds(k))
      /\ Booked(k) = SumOf(w, Pair!Unwinds(k))
  BY DEF Sold, Booked
<1> HIDE DEF v, w
<1> QED  BY <1>1, <1>2, UnwindsFinite, SumPart

\* Sums of equal terms are equal, and of none there is none.
LEMMA SumsAgree ==
  ASSUME PairTypes, NEW k \in Pair!Leg,
         \A u \in Pair!Unwinds(k) : row[u].filled = pairVenue[u].traded
  PROVE  Booked(k) = Sold(k)
<1> DEFINE v == [p \in Pair!Part |-> pairVenue[p].traded]
           w == [p \in Pair!Part |-> row[p].filled]
<1>1. \A u \in Pair!Unwinds(k) : w[u] = v[u]
  BY PartFacts
<1>2. /\ Sold(k) = SumOf(v, Pair!Unwinds(k))
      /\ Booked(k) = SumOf(w, Pair!Unwinds(k))
  BY DEF Sold, Booked
<1> HIDE DEF v, w
<1> QED  BY <1>1, <1>2, UnwindsFinite, SumEqual

LEMMA NothingSold ==
  ASSUME PairTypes, NEW k \in Pair!Leg,
         \A u \in Pair!Unwinds(k) : pairVenue[u].traded = 0
  PROVE  Sold(k) = 0
<1> DEFINE v == [p \in Pair!Part |-> pairVenue[p].traded]
<1>1. \A u \in Pair!Unwinds(k) : v[u] \in Int /\ v[u] = 0
  BY PartFacts
<1>2. Sold(k) = SumOf(v, Pair!Unwinds(k))
  BY DEF Sold
<1> HIDE DEF v
<1>3. SumOf(v, Pair!Unwinds(k)) = SumOf(v, {})
  BY <1>1, UnwindsFinite, SumZeros
<1> QED  BY <1>2, <1>3, FS_EmptySet, SumStep

\* When the rows count no more than was traded, and as much in all, they count
\* each order as it was traded.
LEMMA TermsAgree ==
  ASSUME PairTypes, RowsInv, NEW k \in Pair!Leg, Booked(k) = Sold(k),
         NEW u \in Pair!Unwinds(k)
  PROVE  row[u].filled = pairVenue[u].traded
<1> DEFINE v == [p \in Pair!Part |-> pairVenue[p].traded]
           w == [p \in Pair!Part |-> row[p].filled]
           S == Pair!Unwinds(k)
<1>1. /\ \A p \in S : v[p] \in Int /\ w[p] \in Int /\ w[p] <= v[p]
      /\ v[u] = pairVenue[u].traded /\ w[u] = row[u].filled
  BY PartFacts, PairConstants DEF PairTypes, PairRow, VenueRow, RowsInv, RowInv
<1>2. Sold(k) = SumOf(v, S) /\ Booked(k) = SumOf(w, S)
  BY DEF Sold, Booked
<1>3. IsFiniteSet(S) /\ u \in S /\ IsFiniteSet(S \ {u})
  BY UnwindsFinite, FS_Difference
<1> HIDE DEF v, w, S
<1>4. /\ SumOf(v, S) = v[u] + SumOf(v, S \ {u})
      /\ SumOf(w, S) = w[u] + SumOf(w, S \ {u})
  BY <1>1, <1>3, SumTerm
<1>5. SumOf(w, S \ {u}) <= SumOf(v, S \ {u})
  BY <1>1, <1>3, SumMonotone
<1>6. SumOf(w, S \ {u}) \in Int /\ SumOf(v, S \ {u}) \in Int
  BY <1>1, <1>3, SumType
<1> QED  BY <1>1, <1>2, <1>3, <1>4, <1>5, <1>6

\* What one order trades more is sold more.
LEMMA SoldMore ==
  ASSUME PairTypes, PairTypes', NEW k \in Pair!Leg, NEW u \in Pair!Unwinds(k),
         \A p \in Pair!Part \ {u} : pairVenue'[p].traded = pairVenue[p].traded
  PROVE  Sold(k)' = Sold(k) + pairVenue'[u].traded - pairVenue[u].traded
<1> DEFINE v == [p \in Pair!Part |-> pairVenue[p].traded]
           w == [p \in Pair!Part |-> pairVenue'[p].traded]
           S == Pair!Unwinds(k)
<1>1. /\ \A p \in S : v[p] \in Int /\ w[p] \in Int
      /\ \A p \in S \ {u} : v[p] = w[p]
      /\ v[u] = pairVenue[u].traded /\ w[u] = pairVenue'[u].traded
  BY PartFacts, PairConstants DEF PairTypes, VenueRow
<1>2. Sold(k) = SumOf(v, S) /\ Sold(k)' = SumOf(w, S)
  BY DEF Sold
<1>3. IsFiniteSet(S) /\ u \in S
  BY UnwindsFinite
<1> HIDE DEF v, w, S
<1>4. SumOf(w, S) = SumOf(v, S) + w[u] - v[u]
  BY <1>1, <1>3, SumChange
<1> QED  BY <1>1, <1>2, <1>4

-----------------------------------------------------------------------------
(* The pair: the sums of the model *)

LEMMA FilledSum ==
  ASSUME NEW S \in SUBSET Pair!Part, IsFiniteSet(S)
  PROVE  Pair!Filled(S) = SumOf([p \in Pair!Part |-> row[p].filled], S)
<1> DEFINE v == [p \in Pair!Part |-> row[p].filled]
           IsRec(h) == h = [s \in SUBSET S |->
                              IF s = {} THEN 0
                              ELSE row[Pick(s)].filled + h[s \ {Pick(s)}]]
           g == CHOOSE h : IsRec(h)
<1>1. Pair!Filled(S) = g[S]
  BY Zenon DEF Pair!Filled, Pair!MapThenSumSet, Pair!MapThenFoldSet, Pick
<1>2. ASSUME NEW h  PROVE IsFold(h, v, S) <=> IsRec(h)
  <2>1. ASSUME NEW s \in SUBSET S, s # {}
        PROVE  v[Pick(s)] = row[Pick(s)].filled
    <3>1. Pick(s) \in Pair!Part
      BY <2>1, Picked
    <3> QED  BY <3>1
  <2> HIDE DEF v
  <2>2. [s \in SUBSET S |->
           IF s = {} THEN 0 ELSE v[Pick(s)] + h[s \ {Pick(s)}]]
        = [s \in SUBSET S |->
             IF s = {} THEN 0 ELSE row[Pick(s)].filled + h[s \ {Pick(s)}]]
    BY <2>1
  <2> QED  BY <2>2 DEF IsFold
<1>3. \E h : IsFold(h, v, S)
  BY FoldExists
<1>4. IsRec(g)
  <2> HIDE DEF v, IsRec
  <2> QED  BY <1>2, <1>3
<1> HIDE DEF IsRec, g, v
<1>5. IsFold(g, v, S)
  BY <1>2, <1>4
<1>6. SumOf(v, S) = g[S]
  BY <1>5, SumIsFold
<1> QED  BY <1>1, <1>6 DEF v

LEMMA TradedSum ==
  ASSUME NEW S \in SUBSET Pair!Part, IsFiniteSet(S)
  PROVE  Pair!Traded(S) = SumOf([p \in Pair!Part |-> pairVenue[p].traded], S)
<1> DEFINE v == [p \in Pair!Part |-> pairVenue[p].traded]
           IsRec(h) == h = [s \in SUBSET S |->
                              IF s = {} THEN 0
                              ELSE pairVenue[Pick(s)].traded
                                     + h[s \ {Pick(s)}]]
           g == CHOOSE h : IsRec(h)
<1>1. Pair!Traded(S) = g[S]
  BY Zenon DEF Pair!Traded, Pair!MapThenSumSet, Pair!MapThenFoldSet, Pick
<1>2. ASSUME NEW h  PROVE IsFold(h, v, S) <=> IsRec(h)
  <2>1. ASSUME NEW s \in SUBSET S, s # {}
        PROVE  v[Pick(s)] = pairVenue[Pick(s)].traded
    <3>1. Pick(s) \in Pair!Part
      BY <2>1, Picked
    <3> QED  BY <3>1
  <2> HIDE DEF v
  <2>2. [s \in SUBSET S |->
           IF s = {} THEN 0 ELSE v[Pick(s)] + h[s \ {Pick(s)}]]
        = [s \in SUBSET S |->
             IF s = {} THEN 0
             ELSE pairVenue[Pick(s)].traded + h[s \ {Pick(s)}]]
    BY <2>1
  <2> QED  BY <2>2 DEF IsFold
<1>3. \E h : IsFold(h, v, S)
  BY FoldExists
<1>4. IsRec(g)
  <2> HIDE DEF v, IsRec
  <2> QED  BY <1>2, <1>3
<1> HIDE DEF IsRec, g, v
<1>5. IsFold(g, v, S)
  BY <1>2, <1>4
<1>6. SumOf(v, S) = g[S]
  BY <1>5, SumIsFold
<1> QED  BY <1>1, <1>6 DEF v

\* What the ledger and the account hold of a leg.
LEMMA LegSums ==
  PairTypes =>
    \A k \in Pair!Leg :
      /\ Sold(k) \in Nat /\ Booked(k) \in Nat
      /\ Pair!Inventory(k) = row[Lead(k)].filled - Booked(k)
      /\ Pair!Position(k) = pairVenue[Lead(k)].traded - Sold(k)
      /\ Pair!Traded({<<k, 0>>}) = pairVenue[Lead(k)].traded
      /\ Pair!Traded(Pair!Unwinds(k)) = Sold(k)
<1> SUFFICES ASSUME PairTypes, NEW k \in Pair!Leg
             PROVE  /\ Sold(k) \in Nat /\ Booked(k) \in Nat
                    /\ Pair!Inventory(k) = row[Lead(k)].filled - Booked(k)
                    /\ Pair!Position(k) = pairVenue[Lead(k)].traded - Sold(k)
                    /\ Pair!Traded({<<k, 0>>}) = pairVenue[Lead(k)].traded
                    /\ Pair!Traded(Pair!Unwinds(k)) = Sold(k)
  OBVIOUS
<1> DEFINE v == [p \in Pair!Part |-> pairVenue[p].traded]
           w == [p \in Pair!Part |-> row[p].filled]
           l == Lead(k)
<1>1. l \in Pair!Part /\ l = <<k, 0>>
  BY PartFacts DEF Lead
<1>2. /\ v[l] \in Int /\ w[l] \in Int
      /\ v[l] = pairVenue[l].traded /\ w[l] = row[l].filled
  BY <1>1, PairConstants DEF PairTypes, PairRow, VenueRow
<1>3. IsFiniteSet({l}) /\ IsFiniteSet(Pair!Unwinds(k))
  BY FS_Singleton, UnwindsFinite
<1>4. /\ Pair!Traded({l}) = SumOf(v, {l}) /\ Pair!Filled({l}) = SumOf(w, {l})
      /\ Pair!Traded(Pair!Unwinds(k)) = Sold(k)
      /\ Pair!Filled(Pair!Unwinds(k)) = Booked(k)
  BY <1>1, <1>3, UnwindsFinite, FilledSum, TradedSum DEF Sold, Booked
<1> HIDE DEF v, w, l
<1>5. SumOf(v, {l}) = v[l] /\ SumOf(w, {l}) = w[l]
  <2>1. {l} \ {l} = {} /\ Pick({l}) = l
    BY Picked
  <2>2. SumOf(v, {l}) = v[l] + 0 /\ SumOf(w, {l}) = w[l] + 0
    BY <1>3, <2>1, SumStep
  <2> QED  BY <1>2, <2>2
<1> QED  BY <1>1, <1>2, <1>4, <1>5, SumsType DEF Pair!Inventory, Pair!Position,
         l


-----------------------------------------------------------------------------
(* The pair: every step keeps the invariant *)

\* submit returns to advancePair, or ends the tick with the leg being unwound.
LEMMA Returned ==
  ASSUME PairTypes, NEW p \in Pair!Part, Pair!Return(p)
  PROVE  /\ pairCall' \in PairCall /\ pairCall'.part = Pair!NoPart
         /\ \/ /\ p \in {Pair!First, Pair!Second} /\ pair' = pair
               /\ pairCall'.at = "advance"
               /\ pairCall'.expired = pairCall.expired
               /\ pairCall'.enabled = pairCall.enabled
            \/ /\ p \notin {Pair!First, Pair!Second} /\ pair' = "unwind"
               /\ pairCall'.at = "idle"
<1>1. CASE p \in {Pair!First, Pair!Second}
  <2>1. /\ pairCall' = [pairCall EXCEPT !.at = "advance", !.part = Pair!NoPart]
        /\ pair' = pair
    BY <1>1 DEF Pair!Return
  <2> QED  BY <1>1, <2>1 DEF PairTypes, PairCall
<1>2. CASE p \notin {Pair!First, Pair!Second}
  BY <1>2, IdleFacts DEF Pair!Return, Pair!Set
<1> QED  BY <1>1, <1>2

\* A submission that ends with the order in state s.
LEMMA Answered ==
  ASSUME PairInv, NEW p \in Pair!Part, pairCall.part = p, Pair!Exists(p),
         NEW s \in {"rejected", "working", "settling", "unknown"},
         s = "rejected" => pairVenue[p].status \in {"none", "refused"},
         row' = [row EXCEPT ![p].state = s], Pair!Return(p),
         UNCHANGED <<suspended, late, pairEnabled, pairVenue, slipped>>
  PROVE  PairInv'
<1>1. /\ row' \in [Pair!Part -> PairRow]
      /\ row'[p].state = s
      /\ \A q \in Pair!Part \ {p} : row'[q].state = row[q].state
      /\ \A q \in Pair!Part : /\ row'[q].filled = row[q].filled
                              /\ row'[q].qty = row[q].qty
  BY DEF PairInv, PairTypes, PairRow, Pair!Live, Pair!Over
<1>2. /\ \A k \in Pair!Leg : Sold(k)' = Sold(k)
      /\ \A k \in Pair!Leg : Booked(k)' = Booked(k)
  BY <1>1, SoldSame, BookedSame
<1>3. /\ pairCall' \in PairCall /\ pairCall'.part = Pair!NoPart
      /\ \/ /\ p \in {Pair!First, Pair!Second} /\ pair' = pair
            /\ pairCall'.at = "advance"
            /\ pairCall'.expired = pairCall.expired
            /\ pairCall'.enabled = pairCall.enabled
         \/ /\ p \notin {Pair!First, Pair!Second} /\ pair' = "unwind"
            /\ pairCall'.at = "idle"
  BY Returned DEF PairInv
<1>4. /\ row[p].state = "submitting" /\ p # Pair!NoPart
      /\ \A q \in Pair!Part \ {p} : ~Pair!IsLive(q)
  BY PartFacts DEF PairInv, SubmitInv
<1>5. (PairTypes /\ RowsInv /\ SubmitInv /\ OneLive /\ SeenInv /\ PlanInv)'
  BY <1>1, <1>2, <1>3, <1>4, PairConstants, PartFacts, SumsType DEF PairInv,
     PairTypes, PairRow, VenueRow, PairCall, RowsInv, RowInv, SubmitInv,
     OneLive, SeenInv, PlanInv, Pair!Exists, Pair!IsLive, Pair!Live, Pair!Over,
     Pair!Active, Pair!Ended, Pair!Free
<1>6. (FirstInv /\ UnwindInv /\ LegsInv)'
  BY <1>1, <1>2, <1>3, <1>4, PairConstants, PartFacts, SumsType DEF PairInv,
     SubmitInv, FirstInv, Begun, UnwindInv, Doomed, LegsInv, Pair!Exists,
     Pair!IsLive, Pair!Live, Pair!Free
<1>7. (OversInv /\ RoomsInv /\ HedgeInv /\ EndInv)'
  BY <1>1, <1>2, <1>3, <1>4, PairConstants, PartFacts, SumsType DEF PairInv,
     PairTypes, PairRow, VenueRow, PairCall, RowsInv, RowInv, OversInv,
     OverInv, Synced, RoomsInv, RoomInv, HedgeInv, EndInv, Pair!Exists,
     Pair!IsLive, Pair!Live, Pair!Over, Pair!Active, Pair!Ended, Pair!MayTrade
<1>8. AgreesInv'
  <2> SUFFICES ASSUME NEW k \in Pair!Leg  PROVE AgreeInv(k)'
    BY DEF AgreesInv
  <2>1. CASE Lead(k) = p
    <3>1. \A u \in Pair!Unwinds(k) : ~Pair!Exists(u)
      BY <1>4, <2>1, PartFacts DEF PairInv, FirstInv, UnwindInv, Begun,
         Pair!IsLive, Pair!Live
    <3>2. Booked(k) = Sold(k)
      BY <3>1, PartFacts, PairConstants, SumsAgree
         DEF PairInv, PairTypes, PairRow, VenueRow, RowsInv, RowInv, Pair!Exists
    <3>3. s = "rejected" => row[p].filled = 0 /\ pairVenue[p].traded = 0
      BY PairConstants DEF PairInv, PairTypes, PairRow, VenueRow, RowsInv,
         RowInv
    <3> QED  BY <1>1, <1>2, <2>1, <3>2, <3>3, PartFacts, SumsType
             DEF AgreeInv, PairInv, Pair!IsLive, Pair!Live
  <2>2. CASE Lead(k) # p
    BY <1>1, <1>2, <1>3, <1>4, <2>2, PartFacts
       DEF AgreeInv, PairInv, AgreesInv, Synced, Pair!IsLive
  <2> QED  BY <2>1, <2>2
<1> QED  BY <1>5, <1>6, <1>7, <1>8 DEF PairInv

\* Whatever an order is rejected for before it is sent; an answer of the
\* exchange; an answer that is lost.
LEMMA RejectPair ==
  ASSUME PairInv, NEW p \in Pair!Part, Pair!Reject(p)  PROVE PairInv'
<1>1. /\ pairCall.part = p /\ Pair!Exists(p) /\ Pair!Return(p)
      /\ row' = [row EXCEPT ![p].state = "rejected"]
      /\ UNCHANGED <<suspended, late, pairEnabled, pairVenue, slipped>>
  BY DEF Pair!Reject, Pair!Drafted
<1>2. pairVenue[p].status = "none"
  BY PartFacts DEF PairInv, SubmitInv, Pair!Reject
<1> QED  BY <1>1, <1>2, Answered

LEMMA AcknowledgePair ==
  ASSUME PairInv, NEW p \in Pair!Part, Pair!Acknowledge(p)  PROVE PairInv'
<1> DEFINE s == CASE pairVenue[p].status = "refused" -> "rejected"
                  [] pairVenue[p].status = "open"
                       /\ pairVenue[p].traded = 0 -> "working"
                  [] OTHER -> "settling"
<1>1. /\ pairCall.part = p /\ pairCall.at = "ack" /\ Pair!Return(p)
      /\ row' = [row EXCEPT ![p].state = s]
      /\ UNCHANGED <<suspended, late, pairEnabled, pairVenue, slipped>>
  BY DEF Pair!Acknowledge
<1>2. Pair!Exists(p)
  BY <1>1, PartFacts DEF PairInv, SubmitInv
<1>3. /\ s \in {"rejected", "working", "settling", "unknown"}
      /\ s = "rejected" => pairVenue[p].status \in {"none", "refused"}
  OBVIOUS
<1> HIDE DEF s
<1> QED  BY <1>1, <1>2, <1>3, Answered

LEMMA LoseAnswerPair ==
  ASSUME PairInv, NEW p \in Pair!Part, Pair!LoseAnswer(p)  PROVE PairInv'
<1>1. /\ pairCall.part = p /\ pairCall.at = "ack" /\ Pair!Return(p)
      /\ row' = [row EXCEPT ![p].state = "unknown"]
      /\ UNCHANGED <<suspended, late, pairEnabled, pairVenue, slipped>>
  BY DEF Pair!LoseAnswer, Pair!Uncertain
<1>2. Pair!Exists(p)
  BY <1>1, PartFacts DEF PairInv, SubmitInv
<1> QED  BY <1>1, <1>2, Answered

\* advancePair sends an order for n lots while no other is live.
LEMMA Sent ==
  ASSUME PairInv, pairCall.at = "advance",
         NEW p \in Pair!Part, NEW n \in 1 .. Qty, Pair!Send(p, n),
         UNCHANGED <<pair, row, suspended, late, pairEnabled, pairVenue,
                     slipped>>,
         \A q \in Pair!Part : ~Pair!IsLive(q),
         p # Pair!First =>
           Pair!Exists(Pair!First) /\ row[Pair!First].filled > 0,
         p = Pair!Second =>
           /\ n = row[Pair!First].filled
           /\ \A k \in Pair!Leg : \A u \in Pair!Unwinds(k) : ~Pair!Exists(u),
         \A k \in Pair!Leg : p \in Pair!Unwinds(k) =>
           /\ row[Pair!Second].state # "filled"
           /\ late \/ Doomed
           /\ pairCall.expired \/ ~pairCall.enabled \/ Doomed
           /\ row[Lead(k)].filled > 0
           /\ row[Lead(k)].filled = pairVenue[Lead(k)].traded
           /\ Sold(k) + n <= pairVenue[Lead(k)].traded,
         p \in Pair!Unwinds(2) =>
           \/ suspended[1]
           \/ /\ pairVenue[Pair!First].traded = Sold(1)
              /\ \A v \in Pair!Unwinds(1) : row[v].filled = pairVenue[v].traded,
         p \in Pair!Unwinds(1) => \A u \in Pair!Unwinds(2) : ~Pair!Exists(u)
  PROVE  PairInv'
<1>1. /\ pairCall' \in PairCall
      /\ pairCall'.at = "fetch" /\ pairCall'.part = p /\ pairCall'.qty = n
      /\ pairCall'.expired = pairCall.expired
      /\ pairCall'.enabled = pairCall.enabled
      /\ ~Pair!Exists(p)
  <2>1. /\ pairCall' = [pairCall EXCEPT !.at = "fetch", !.part = p, !.qty = n]
        /\ pairCall \in PairCall /\ n \in 0 .. Qty
    BY PairConstants DEF Pair!Send, PairInv, PairTypes
  <2>2. pairCall' \in PairCall
    BY <2>1 DEF PairCall
  <2> QED  BY <2>1, <2>2 DEF PairCall, Pair!Send
<1>2. /\ \A k \in Pair!Leg : Sold(k)' = Sold(k)
      /\ \A k \in Pair!Leg : Booked(k)' = Booked(k)
  BY SoldSame, BookedSame
<1>3. pairCall.part = Pair!NoPart
  BY DEF PairInv, SubmitInv
<1>4. (PairTypes /\ RowsInv /\ SubmitInv /\ OneLive /\ SeenInv /\ PlanInv)'
  BY <1>1, <1>2, <1>3, PairConstants, PartFacts, SumsType DEF PairInv,
     PairTypes, PairRow, VenueRow, PairCall, RowsInv, RowInv, SubmitInv,
     OneLive, SeenInv, PlanInv, Pair!Exists, Pair!IsLive, Pair!Live, Pair!Over,
     Pair!Active, Pair!Ended, Pair!Free
<1>5. (FirstInv /\ UnwindInv /\ LegsInv)'
  BY <1>1, <1>2, <1>3, PairConstants, PartFacts, SumsType DEF PairInv,
     FirstInv, Begun, UnwindInv, Doomed, LegsInv, Pair!Exists, Pair!IsLive,
     Pair!Live, Pair!Free
<1>6. (AgreesInv /\ OversInv /\ RoomsInv /\ HedgeInv /\ EndInv)'
  BY <1>1, <1>2, <1>3, PairConstants, PartFacts, SumsType DEF PairInv,
     SubmitInv, AgreesInv, AgreeInv, Synced, OversInv, OverInv, RoomsInv,
     RoomInv, HedgeInv, EndInv, Pair!Exists, Pair!IsLive, Pair!Live,
     Pair!Ended, Pair!MayTrade
<1> QED  BY <1>4, <1>5, <1>6 DEF PairInv

\* The tick ends with the pair in state s, perhaps after open orders of the
\* legs were cancelled.
LEMMA Ticked ==
  ASSUME PairInv, pairCall.at = "advance",
         NEW s \in Pair!Active \cup Pair!Ended \cup {"intervention"},
         Pair!Set(s),
         UNCHANGED <<row, suspended, late, pairEnabled, slipped>>,
         pairVenue' \in [Pair!Part -> VenueRow],
         \A p \in Pair!Part :
           \/ pairVenue'[p] = pairVenue[p]
           \/ /\ p \in {Pair!First, Pair!Second}
              /\ pairVenue[p].status = "open"
              /\ pairVenue'[p].status = "canceled"
              /\ pairVenue'[p].traded = pairVenue[p].traded,
         \/ s \notin {"first", "hedging"} \/ s = pair
         \/ \A k \in Pair!Leg : \A u \in Pair!Unwinds(k) : ~Pair!Exists(u),
         EndInv'
  PROVE  PairInv'
<1>1. \A p \in Pair!Part :
        /\ pairVenue'[p].traded = pairVenue[p].traded
        /\ \/ pairVenue'[p].status = pairVenue[p].status
           \/ /\ p \in {Pair!First, Pair!Second}
              /\ pairVenue[p].status = "open"
              /\ pairVenue'[p].status = "canceled"
  OBVIOUS
<1>2. /\ \A k \in Pair!Leg : Sold(k)' = Sold(k)
      /\ \A k \in Pair!Leg : Booked(k)' = Booked(k)
  BY <1>1, SoldSame, BookedSame
<1>3. /\ pairCall.part = Pair!NoPart
      /\ pairCall' = Pair!Idle /\ pair' = s
  BY DEF PairInv, SubmitInv, Pair!Set
<1>4. (PairTypes /\ RowsInv /\ SubmitInv /\ OneLive /\ SeenInv /\ PlanInv)'
  BY <1>1, <1>2, <1>3, PairConstants, PartFacts, IdleFacts, SumsType DEF
     PairInv, PairTypes, PairRow, VenueRow, PairCall, RowsInv, RowInv,
     SubmitInv, OneLive, SeenInv, PlanInv, Pair!Exists, Pair!IsLive, Pair!Live,
     Pair!Over, Pair!Active, Pair!Ended, Pair!Free
<1>5. (FirstInv /\ UnwindInv /\ LegsInv)'
  BY <1>1, <1>2, <1>3, PairConstants, PartFacts, IdleFacts, SumsType DEF
     PairInv, FirstInv, Begun, UnwindInv, Doomed, LegsInv, Pair!Exists,
     Pair!IsLive, Pair!Live, Pair!Free
<1>6. (AgreesInv /\ OversInv /\ RoomsInv /\ HedgeInv /\ EndInv)'
  BY <1>1, <1>2, <1>3, PairConstants, PartFacts, IdleFacts, SumsType DEF
     PairInv, AgreesInv, AgreeInv, Synced, OversInv, OverInv, RoomsInv,
     RoomInv, HedgeInv, EndInv, Pair!Exists, Pair!IsLive, Pair!Live,
     Pair!Ended, Pair!MayTrade
<1> QED  BY <1>4, <1>5, <1>6 DEF PairInv

\* A cancellation of legs that work; it may not be confirmed.
LEMMA Canceled ==
  ASSUME PairInv, pairCall.at = "advance",
         NEW S \in SUBSET {Pair!First, Pair!Second},
         NEW s \in {"first", "unwind"},
         Pair!CancelThenSet(S, s),
         UNCHANGED <<row, suspended, late, pairEnabled, slipped>>,
         s = "first" =>
           \A k \in Pair!Leg : \A u \in Pair!Unwinds(k) : ~Pair!Exists(u)
  PROVE  PairInv'
<1> DEFINE canceled == [p \in Pair!Part |->
                          IF p \in S /\ pairVenue[p].status = "open"
                            THEN [pairVenue[p] EXCEPT !.status = "canceled"]
                            ELSE pairVenue[p]]
<1>1. /\ canceled \in [Pair!Part -> VenueRow]
      /\ \A p \in Pair!Part :
           \/ canceled[p] = pairVenue[p]
           \/ /\ p \in {Pair!First, Pair!Second}
              /\ pairVenue[p].status = "open"
              /\ canceled[p].status = "canceled"
              /\ canceled[p].traded = pairVenue[p].traded
  BY DEF PairInv, PairTypes, VenueRow
<1>2. /\ pairVenue' \in {pairVenue, canceled}
      /\ \E t \in {s, pair} : Pair!Set(t)
  BY DEF Pair!CancelThenSet
<1> HIDE DEF canceled
<1>3. pair \in Pair!Active
  BY DEF PairInv, PlanInv, Pair!Free
<1>4. PICK t \in {s, pair} : Pair!Set(t)
  BY <1>2
<1>5. EndInv'
  BY <1>3, <1>4 DEF EndInv, Pair!Set, Pair!Active, Pair!Ended
<1>6. t \in Pair!Active \cup Pair!Ended \cup {"intervention"}
  BY <1>3, <1>4 DEF Pair!Active
<1> QED  BY <1>1, <1>2, <1>4, <1>5, <1>6, Ticked DEF PairInv, PairTypes

LEMMA SubmitFirstPair ==
  ASSUME PairInv, Pair!SubmitFirst  PROVE PairInv'
<1>1. /\ pairCall.at = "advance" /\ ~Pair!Exists(Pair!First)
      /\ UNCHANGED <<row, suspended, late, pairEnabled, pairVenue, slipped>>
  BY DEF Pair!SubmitFirst, Pair!At
<1>2. \A p \in Pair!Part : ~Pair!Exists(p)
  BY <1>1 DEF PairInv, FirstInv, Begun
<1>3. \A p \in Pair!Part : /\ ~Pair!IsLive(p) /\ pairVenue[p].traded = 0
                           /\ ~Pair!MayTrade(p)
  BY <1>2, PairConstants DEF PairInv, PairTypes, PairRow, VenueRow, RowsInv,
     RowInv, Pair!Exists, Pair!IsLive, Pair!Live, Pair!MayTrade
<1>4. CASE pairCall.expired \/ ~pairCall.enabled
  <2>1. Pair!Set("expired")
    BY <1>4 DEF Pair!SubmitFirst
  <2>2. \A k \in Pair!Leg : /\ Sold(k)' = 0
                            /\ pairVenue[Lead(k)].traded = 0
    BY <1>1, <1>3, PartFacts, NothingSold, SoldSame DEF PairInv
  <2>3. EndInv'
    BY <1>1, <1>3, <2>1, <2>2, PartFacts
       DEF EndInv, Pair!Set, Pair!MayTrade
  <2> QED  BY <1>1, <2>1, <2>3, Ticked DEF PairInv, PairTypes, Pair!Ended
<1>5. CASE ~(pairCall.expired \/ ~pairCall.enabled)
  <2>1. Pair!Send(Pair!First, Qty) /\ UNCHANGED pair
    BY <1>5 DEF Pair!SubmitFirst
  <2> QED  BY <1>1, <1>2, <1>3, <2>1, PartFacts, PairConstants, Sent
<1> QED  BY <1>4, <1>5

LEMMA AwaitFirstPair ==
  ASSUME PairInv, Pair!AwaitFirst  PROVE PairInv'
<1>1. /\ pairCall.at = "advance" /\ row[Pair!First].filled = 0
      /\ UNCHANGED <<row, suspended, late, pairEnabled, slipped>>
  BY DEF Pair!AwaitFirst, Pair!At
<1>2. \A p \in Pair!Part \ {Pair!First} :
        ~Pair!Exists(p) /\ pairVenue[p].traded = 0 /\ ~Pair!MayTrade(p)
  BY <1>1, PairConstants DEF PairInv, PairTypes, PairRow, VenueRow, FirstInv,
     Begun, RowsInv, RowInv, Pair!Exists, Pair!MayTrade
<1>3. CASE row[Pair!First].state \in Pair!Over
  <2>1. Pair!Set("no_fill") /\ UNCHANGED pairVenue
    BY <1>3 DEF Pair!AwaitFirst
  <2>2. ~Pair!IsLive(Pair!First) /\ ~Pair!MayTrade(Pair!First)
    BY <1>3, PartFacts DEF PairInv, RowsInv, RowInv, Pair!Over, Pair!Live,
       Pair!IsLive, Pair!MayTrade
  <2>3. ~slipped => pairVenue[Pair!First].traded = 0
    BY <1>1, <2>2, PartFacts DEF PairInv, OversInv, OverInv, Synced
  <2>4. \A k \in Pair!Leg : Sold(k)' = 0
    BY <1>2, <2>1, PartFacts, NothingSold, SoldSame DEF PairInv
  <2>5. EndInv'
    BY <1>1, <1>2, <2>1, <2>2, <2>3, <2>4, PartFacts
       DEF EndInv, Pair!Set, Pair!MayTrade
  <2> QED  BY <1>1, <2>1, <2>5, Ticked DEF PairInv, PairTypes, Pair!Ended
<1>4. CASE row[Pair!First].state \notin Pair!Over
  <2> DEFINE S == IF pairCall.expired
                   THEN Pair!Working \cap {Pair!First} ELSE {}
  <2>1. Pair!CancelThenSet(S, "first") /\ S \in SUBSET {Pair!First, Pair!Second}
    BY <1>4 DEF Pair!AwaitFirst
  <2> HIDE DEF S
  <2>2. \A k \in Pair!Leg : \A u \in Pair!Unwinds(k) : ~Pair!Exists(u)
    BY <1>2, PartFacts
  <2> QED  BY <1>1, <2>1, <2>2, Canceled
<1> QED  BY <1>3, <1>4

\* What holds of a pair whose first leg is opened, as a call advances it.
LEMMA OpenedFacts ==
  ASSUME PairInv, Pair!Opened
  PROVE  /\ pairCall.at = "advance" /\ pairCall.part = Pair!NoPart
         /\ pair \in Pair!Active
         /\ Pair!Exists(Pair!First) /\ row[Pair!First].filled > 0
         /\ row[Pair!First].filled \in 1 .. Qty
BY PartFacts, PairConstants DEF PairInv, PairTypes, PairRow, SubmitInv, PlanInv,
   Pair!Free, Pair!Opened, Pair!At

LEMMA SubmitSecondPair ==
  ASSUME PairInv, Pair!SubmitSecond  PROVE PairInv'
<1>1. /\ Pair!Opened
      /\ ~pairCall.expired /\ pairCall.enabled /\ pair # "unwind"
      /\ row[Pair!First].state \in {"terminal", "filled"}
      /\ Pair!Send(Pair!Second, row[Pair!First].filled)
      /\ ~Pair!Exists(Pair!Second)
      /\ UNCHANGED <<pair, row, suspended, late, pairEnabled, pairVenue,
                     slipped>>
  BY DEF Pair!SubmitSecond, Pair!MayHedge, Pair!InPlan, Pair!rows
<1>2. \A k \in Pair!Leg : \A u \in Pair!Unwinds(k) : ~Pair!Exists(u)
  BY <1>1, OpenedFacts, PartFacts DEF PairInv, UnwindInv, Begun, Doomed,
     Pair!Free, Pair!Active, Pair!Exists
<1>3. \A q \in Pair!Part : ~Pair!IsLive(q)
  BY <1>1, <1>2, PartFacts DEF Pair!IsLive, Pair!Live, Pair!Exists
<1> QED  BY <1>1, <1>2, <1>3, OpenedFacts, PartFacts, Sent

LEMMA CompletePair ==
  ASSUME PairInv, Pair!Complete  PROVE PairInv'
<1>1. /\ Pair!Opened /\ Pair!Set("complete")
      /\ row[Pair!Second].state \in {"filled", "terminal"}
      /\ row[Pair!Second].filled = row[Pair!Second].qty
      /\ UNCHANGED <<row, suspended, late, pairEnabled, pairVenue, slipped>>
  BY DEF Pair!Complete, Pair!Hedged
<1>2. /\ row[Pair!Second].state = "filled"
      /\ pairVenue[Pair!Second].traded = row[Pair!Second].qty
  BY <1>1, PartFacts, PairConstants DEF PairInv, PairTypes, PairRow, VenueRow,
     RowsInv, RowInv
<1>3. \A k \in Pair!Leg : \A u \in Pair!Unwinds(k) : ~Pair!Exists(u)
  BY <1>2, PartFacts DEF PairInv, UnwindInv, Begun
<1>4. \A p \in Pair!Part : ~Pair!IsLive(p)
  BY <1>2, <1>3, PartFacts
     DEF PairInv, FirstInv, Begun, Pair!IsLive, Pair!Exists, Pair!Live
<1>5. \A k \in Pair!Leg : Sold(k) = 0 /\ Sold(k)' = 0
  BY <1>1, <1>3, PartFacts, PairConstants, NothingSold, SoldSame
     DEF PairInv, PairTypes, PairRow, VenueRow, RowsInv, RowInv, Pair!Exists
<1>6. ~slipped => row[Pair!Second].qty = pairVenue[Pair!First].traded
  BY <1>2 DEF PairInv, HedgeInv, Pair!Exists
<1>7. \A p \in Pair!Part : ~Pair!MayTrade(p)
  BY <1>4 DEF PairInv, RowsInv, RowInv, Pair!MayTrade
<1>8. EndInv'
  BY <1>1, <1>2, <1>5, <1>6, <1>7, PartFacts DEF EndInv, Pair!Set, Pair!MayTrade
<1> QED  BY <1>1, <1>8, OpenedFacts, Ticked DEF PairInv, PairTypes, Pair!Ended

LEMMA HedgePair ==
  ASSUME PairInv, Pair!Hedge  PROVE PairInv'
<1>1. /\ Pair!Opened /\ Pair!Set("hedging")
      /\ ~pairCall.expired /\ pairCall.enabled /\ pair # "unwind"
      /\ row[Pair!Second].state \notin {"rejected", "terminal"}
      /\ UNCHANGED <<row, suspended, late, pairEnabled, pairVenue, slipped>>
  BY DEF Pair!Hedge, Pair!Waiting, Pair!InPlan
<1>2. \A k \in Pair!Leg : \A u \in Pair!Unwinds(k) : ~Pair!Exists(u)
  BY <1>1, OpenedFacts, PartFacts DEF PairInv, UnwindInv, Begun, Doomed,
     Pair!Free, Pair!Active
<1>3. EndInv'
  BY <1>1 DEF EndInv, Pair!Set, Pair!Ended
<1> QED  BY <1>1, <1>2, <1>3, OpenedFacts, Ticked DEF PairInv, PairTypes,
         Pair!Active

LEMMA SettleLegsPair ==
  ASSUME PairInv, Pair!SettleLegs  PROVE PairInv'
<1>1. /\ Pair!Opened /\ Pair!CancelThenSet(Pair!Working, "unwind")
      /\ UNCHANGED <<row, suspended, late, pairEnabled, slipped>>
  BY DEF Pair!SettleLegs, Pair!Unwinding
<1>2. Pair!Working \in SUBSET {Pair!First, Pair!Second}
  BY DEF Pair!Working
<1> QED  BY <1>1, <1>2, OpenedFacts, Canceled

\* What holds when the legs are unwound: the pair has left its plan.
LEMMA UnwindingFacts ==
  ASSUME PairInv, Pair!Unwinding,
         ~Pair!IsLive(Pair!First), ~Pair!IsLive(Pair!Second)
  PROVE  /\ Pair!Opened
         /\ row[Pair!Second].state # "filled"
         /\ late \/ Doomed
         /\ pairCall.expired \/ ~pairCall.enabled \/ Doomed
<1>1. Pair!Opened /\ ~Pair!Hedged /\ ~Pair!Waiting
  BY DEF Pair!Unwinding
<1>2. row[Pair!Second].state # "filled"
  BY <1>1, PartFacts DEF PairInv, RowsInv, RowInv, Pair!Hedged
<1>3. pairCall.expired \/ ~pairCall.enabled \/ Doomed
  BY <1>1 DEF Pair!Waiting, Pair!InPlan, Doomed
<1>4. late \/ Doomed
  BY <1>1, <1>3, OpenedFacts DEF PairInv, PlanInv, Pair!Free
<1> QED  BY <1>1, <1>2, <1>3, <1>4

LEMMA UnwoundPair ==
  ASSUME PairInv, Pair!Unwound  PROVE PairInv'
<1>1. /\ Pair!Unwinding /\ Pair!Set("unwound")
      /\ ~Pair!IsLive(Pair!First) /\ ~Pair!IsLive(Pair!Second)
      /\ \A k \in Pair!Leg : ~Pair!Left(k)
      /\ UNCHANGED <<row, suspended, late, pairEnabled, pairVenue, slipped>>
  BY DEF Pair!Unwound
<1>2. Pair!Opened
  BY <1>1 DEF Pair!Unwinding
<1>3. \A k \in Pair!Leg :
        \/ row[Lead(k)].filled = 0
        \/ /\ \A u \in Pair!Unwinds(k) : ~Pair!IsLive(u)
           /\ row[Lead(k)].filled - Booked(k) <= 0
  <2> SUFFICES ASSUME NEW k \in Pair!Leg, row[Lead(k)].filled # 0
               PROVE  /\ \A u \in Pair!Unwinds(k) : ~Pair!IsLive(u)
                      /\ row[Lead(k)].filled - Booked(k) <= 0
    OBVIOUS
  <2>1. row[Lead(k)].filled > 0 /\ row[Lead(k)].filled \in Int
    BY PartFacts, PairConstants DEF PairInv, PairTypes, PairRow
  <2>2. ~Pair!Pending(k) /\ ~(Pair!Inventory(k) > 0)
    BY <1>1, <2>1 DEF Pair!Left, Lead
  <2>3. Pair!Inventory(k) = row[Lead(k)].filled - Booked(k)
    BY LegSums DEF PairInv
  <2>4. \A u \in Pair!Unwinds(k) : ~Pair!IsLive(u)
    BY <2>2 DEF Pair!Pending, Pair!Prior, Pair!Exists, Pair!IsLive, Pair!Live
  <2> QED  BY <2>1, <2>2, <2>3, <2>4, SumsType DEF PairInv
<1>4. \A p \in Pair!Part : ~Pair!IsLive(p)
  BY <1>1, <1>2, <1>3, OpenedFacts, PartFacts
     DEF PairInv, UnwindInv, Begun, Pair!Exists, Pair!IsLive, Pair!Live
<1>5. \A p \in Pair!Part : ~Pair!MayTrade(p)
  BY <1>4 DEF PairInv, RowsInv, RowInv, Pair!MayTrade
<1>6. ASSUME ~slipped, NEW k \in Pair!Leg
      PROVE  pairVenue[Lead(k)].traded = Sold(k)
  <2>1. \A p \in Pair!Part : row[p].filled = pairVenue[p].traded
    BY <1>2, <1>4, <1>6, OpenedFacts DEF PairInv, OversInv, OverInv, Synced
  <2>2. Booked(k) = Sold(k)
    BY <2>1, PartFacts, SumsAgree DEF PairInv
  <2>3. Sold(k) <= pairVenue[Lead(k)].traded
    BY DEF PairInv, RoomsInv, RoomInv
  <2>4. Sold(k) \in Nat /\ pairVenue[Lead(k)].traded \in Nat
    BY PartFacts, PairConstants, SumsType DEF PairInv, PairTypes, VenueRow
  <2> QED  BY <1>3, <2>1, <2>2, <2>3, <2>4, PartFacts
<1>7. \A k \in Pair!Leg : Sold(k)' = Sold(k)
  BY <1>1, SoldSame
<1>8. EndInv'
  BY <1>1, <1>5, <1>6, <1>7, PartFacts DEF EndInv, Pair!Set, Pair!MayTrade
<1> QED  BY <1>1, <1>2, <1>8, OpenedFacts, Ticked DEF PairInv, PairTypes,
         Pair!Ended

\* The rows count no more than was traded, in sum too.
LEMMA BookedAtMost ==
  ASSUME PairTypes, RowsInv, NEW k \in Pair!Leg
  PROVE  Booked(k) <= Sold(k)
<1> DEFINE v == [p \in Pair!Part |-> pairVenue[p].traded]
           w == [p \in Pair!Part |-> row[p].filled]
           S == Pair!Unwinds(k)
<1>1. \A p \in S : v[p] \in Int /\ w[p] \in Int /\ w[p] <= v[p]
  BY PartFacts, PairConstants DEF PairTypes, PairRow, VenueRow, RowsInv, RowInv
<1>2. Sold(k) = SumOf(v, S) /\ Booked(k) = SumOf(w, S)
  BY DEF Sold, Booked
<1>3. IsFiniteSet(S)
  BY UnwindsFinite
<1> HIDE DEF v, w, S
<1> QED  BY <1>1, <1>2, <1>3, SumMonotone

\* With no order on the leg yet, nothing is sold or booked.
LEMMA NothingBooked ==
  ASSUME PairTypes, RowsInv, NEW k \in Pair!Leg,
         \A u \in Pair!Unwinds(k) : ~Pair!Exists(u)
  PROVE  Sold(k) = 0 /\ Booked(k) = 0
<1>1. \A u \in Pair!Unwinds(k) : pairVenue[u].traded = 0 /\ row[u].filled = 0
  BY PartFacts, PairConstants DEF PairTypes, PairRow, VenueRow, RowsInv, RowInv,
     Pair!Exists
<1> QED  BY <1>1, NothingSold, SumsAgree

\* A leg that has nothing left when a later one is unwound is done with, or
\* its instrument is suspended.
LEMMA DoneWith ==
  ASSUME PairInv, Pair!Opened, ~Pair!IsLive(Pair!First), ~Pair!Left(1)
  PROVE  /\ \A v \in Pair!Unwinds(1) : ~Pair!IsLive(v)
         /\ \/ suspended[1]
            \/ /\ pairVenue[Pair!First].traded = Sold(1)
               /\ \A v \in Pair!Unwinds(1) : row[v].filled = pairVenue[v].traded
<1> DEFINE f == row[Pair!First].filled
           t == pairVenue[Pair!First].traded
           b == Booked(1)
           s == Sold(1)
<1>1. /\ f > 0 /\ f \in Nat /\ t \in Nat /\ b \in Nat /\ s \in Nat
      /\ b <= s /\ s <= t
  BY OpenedFacts, PartFacts, PairConstants, SumsType, BookedAtMost
     DEF PairInv, PairTypes, VenueRow, RoomsInv, RoomInv
<1>2. ~Pair!Pending(1) /\ ~(Pair!Inventory(1) > 0) /\ Pair!Inventory(1) = f - b
  BY <1>1, PartFacts, LegSums DEF PairInv, Pair!Left, Lead
<1>3. \A v \in Pair!Unwinds(1) : ~Pair!IsLive(v)
  BY <1>2 DEF Pair!Pending, Pair!Prior, Pair!Exists, Pair!IsLive, Pair!Live
<1>4. ASSUME ~suspended[1]
      PROVE  t = s /\ \A v \in Pair!Unwinds(1) :
                           row[v].filled = pairVenue[v].traded
  <2>1. f # b => f - b = t - s
    BY <1>3, <1>4, OpenedFacts, PartFacts DEF PairInv, AgreesInv, AgreeInv,
       Synced
  <2> HIDE DEF f, t, b, s
  <2>2. f = b
    BY <1>1, <1>2, <2>1
  <2>3. \E v \in Pair!Unwinds(1) : Pair!Exists(v)
    BY <1>1, <2>2, NothingBooked, PartFacts DEF PairInv, b
  <2>4. f = t
    BY <2>3, PartFacts DEF PairInv, UnwindInv, Begun, f, t
  <2>5. b = s /\ t = s
    BY <1>1, <2>2, <2>4
  <2> QED  BY <2>5, TermsAgree, PartFacts DEF PairInv, b, s
<1> QED  BY <1>3, <1>4

LEMMA SameSize ==
  ASSUME NEW S  PROVE Pair!Cardinality(S) = Cardinality(S)
BY Zenon DEF Pair!Cardinality, Cardinality

LEMMA UnwindLegPair ==
  ASSUME PairInv, NEW k \in Pair!Leg, Pair!UnwindLeg(k)  PROVE PairInv'
<1>1. /\ Pair!Unwinding
      /\ ~Pair!IsLive(Pair!First) /\ ~Pair!IsLive(Pair!Second)
      /\ Pair!Left(k) /\ \A j \in Pair!Leg : j < k => ~Pair!Left(j)
      /\ UNCHANGED <<row, suspended, late, pairEnabled, pairVenue, slipped>>
  BY DEF Pair!UnwindLeg
<1>2. /\ Pair!Opened
      /\ row[Pair!Second].state # "filled"
      /\ late \/ Doomed
      /\ pairCall.expired \/ ~pairCall.enabled \/ Doomed
  BY <1>1, UnwindingFacts
<1>3. CASE \E s \in {"unwind", "intervention"} : Pair!Set(s)
  <2>1. PICK s \in {"unwind", "intervention"} : Pair!Set(s)
    BY <1>3
  <2>2. EndInv'
    BY <2>1 DEF EndInv, Pair!Set, Pair!Ended
  <2> QED  BY <1>1, <1>2, <2>1, <2>2, OpenedFacts, Ticked
           DEF PairInv, PairTypes, Pair!Active
<1>4. CASE ~ \E s \in {"unwind", "intervention"} : Pair!Set(s)
  <2> DEFINE n == Pair!Inventory(k)
             u == Pair!Next_(k)
             f == row[Lead(k)].filled
             t == pairVenue[Lead(k)].traded
             b == Booked(k)
             s == Sold(k)
  <2>1. /\ ~Pair!Pending(k) /\ ~suspended[k]
        /\ ~(Cardinality(Pair!Prior(k)) >= Tries)
        /\ Pair!Send(u, n) /\ UNCHANGED pair
    <3>1. ~Pair!Set("unwind") /\ ~Pair!Set("intervention")
      BY <1>4
    <3> QED  BY Zenon, <3>1, SameSize DEF Pair!UnwindLeg
  <2>2. u \in Pair!Unwinds(k) /\ u \in Pair!Part
    <3>1. Cardinality(Pair!Prior(k)) \in Nat
      BY UnwindsFinite, FS_Subset, FS_CardinalityType DEF Pair!Prior
    <3>2. Cardinality(Pair!Prior(k)) + 1 \in 1 .. Tries
      <4> DEFINE c == Cardinality(Pair!Prior(k))
      <4> HIDE DEF c
      <4> QED  BY <2>1, <3>1, PairConstants DEF c
    <3> QED  BY <3>2, SameSize, PartFacts DEF Pair!Next_, Pair!Unwinds
  <2>3. \A v \in Pair!Unwinds(k) : ~Pair!IsLive(v)
    BY <2>1 DEF Pair!Pending, Pair!Prior, Pair!Exists, Pair!IsLive, Pair!Live
  <2>4. /\ f \in 0 .. Qty /\ t \in 0 .. Qty /\ b \in Nat /\ s \in Nat
        /\ f <= t /\ b <= s /\ s <= t /\ f > 0 /\ n > 0 /\ n = f - b
    BY <1>1, <2>1, PartFacts, PairConstants, SumsType, BookedAtMost, LegSums
       DEF PairInv, PairTypes, PairRow, VenueRow, RowsInv, RowInv, RoomsInv,
           RoomInv, Pair!Left, Lead
  <2>5. f # b => f - b = t - s
    BY <1>1, <1>2, <2>1, <2>3, OpenedFacts, PartFacts
       DEF PairInv, AgreesInv, AgreeInv, Synced
  <2>6. f = t
    <3>1. CASE \E v \in Pair!Unwinds(k) : Pair!Exists(v)
      BY <3>1 DEF PairInv, UnwindInv, Begun
    <3>2. CASE \A v \in Pair!Unwinds(k) : ~Pair!Exists(v)
      <4>1. s = 0 /\ b = 0
        BY <3>2, NothingBooked DEF PairInv
      <4> QED  BY <2>4, <2>5, <4>1, PairConstants
    <3> QED  BY <3>1, <3>2
  <2>7. n \in 1 .. Qty /\ s + n <= t
    <3> HIDE DEF f, t, b, s, n
    <3> QED  BY <2>4, <2>5, PairConstants
  <2>8. k = 1 => \A v \in Pair!Unwinds(2) : ~Pair!Exists(v)
    <3> SUFFICES ASSUME k = 1, NEW v \in Pair!Unwinds(2), Pair!Exists(v)
                 PROVE  FALSE
      OBVIOUS
    <3>1. t = s /\ \A w \in Pair!Unwinds(1) :
                         row[w].filled = pairVenue[w].traded
      BY <2>1, PartFacts DEF PairInv, LegsInv, Begun
    <3>2. b = s
      BY <3>1, SumsAgree DEF PairInv
    <3> HIDE DEF f, t, b, s, n
    <3> QED  BY <2>4, <3>1, <3>2, PairConstants
  <2>9. k = 2 => /\ \A v \in Pair!Unwinds(1) : ~Pair!IsLive(v)
                 /\ \/ suspended[1]
                    \/ /\ pairVenue[Pair!First].traded = Sold(1)
                       /\ \A v \in Pair!Unwinds(1) :
                            row[v].filled = pairVenue[v].traded
    BY <1>1, <1>2, DoneWith, PartFacts
  <2>10. \A q \in Pair!Part : ~Pair!IsLive(q)
    BY <1>1, <2>3, <2>8, <2>9, PartFacts DEF Pair!IsLive, Pair!Live, Pair!Exists
  <2>11. \A j \in Pair!Leg : u \in Pair!Unwinds(j) => j = k
    BY <2>2, PartFacts
  <2>12. UNCHANGED <<pair, row, suspended, late, pairEnabled, pairVenue,
                     slipped>>
    BY <1>1, <2>1
  <2> HIDE DEF u, n
  <2> QED  BY <1>2, <2>1, <2>2, <2>4, <2>6, <2>7, <2>8, <2>9, <2>10, <2>11,
           <2>12, OpenedFacts, PartFacts, Sent
<1> QED  BY <1>3, <1>4

\* A step that leaves the orders as they are.
LEMMA Unmoved ==
  ASSUME UNCHANGED <<row, pairVenue>>
  PROVE  /\ \A k \in Pair!Leg : Sold(k)' = Sold(k)
         /\ \A k \in Pair!Leg : Booked(k)' = Booked(k)
BY SoldSame, BookedSame

LEMMA OpenPair ==
  ASSUME PairInv, Pair!Open  PROVE PairInv'
<1>1. /\ pair = "none" /\ pair' = "first" /\ pairEnabled
      /\ pairCall' = [Pair!Idle EXCEPT !.at = "advance", !.enabled = TRUE]
      /\ UNCHANGED <<row, suspended, late, pairEnabled, pairVenue, slipped>>
  BY DEF Pair!Open
<1>2. /\ pairCall' \in PairCall
      /\ pairCall'.at = "advance" /\ pairCall'.part = Pair!NoPart
      /\ ~pairCall'.expired /\ pairCall'.enabled
  BY <1>1, IdleFacts DEF PairCall
<1>3. \A p \in Pair!Part : ~Pair!Exists(p)
  BY <1>1 DEF PairInv, PlanInv
<1>4. \A k \in Pair!Leg : Sold(k)' = 0 /\ Booked(k)' = 0
  BY <1>1, <1>3, NothingBooked, Unmoved, PartFacts DEF PairInv
<1>5. \A p \in Pair!Part : /\ row[p].filled = 0 /\ pairVenue[p].traded = 0
                           /\ ~Pair!IsLive(p)
  BY <1>3, PairConstants DEF PairInv, PairTypes, PairRow, VenueRow, RowsInv,
     RowInv, Pair!Exists, Pair!IsLive, Pair!Live
<1>6. (PairTypes /\ RowsInv /\ SubmitInv /\ OneLive /\ SeenInv /\ PlanInv)'
  BY <1>1, <1>2, <1>3, <1>4, <1>5, PairConstants, PartFacts, SumsType DEF
     PairInv, PairTypes, PairRow, VenueRow, PairCall, RowsInv, RowInv,
     SubmitInv, OneLive, SeenInv, PlanInv, Pair!Exists, Pair!IsLive, Pair!Live,
     Pair!Over, Pair!Active, Pair!Ended, Pair!Free
<1>7. (FirstInv /\ UnwindInv /\ LegsInv)'
  BY <1>1, <1>2, <1>3, <1>4, <1>5, PairConstants, PartFacts, SumsType DEF
     PairInv, FirstInv, Begun, UnwindInv, Doomed, LegsInv, Pair!Exists,
     Pair!IsLive, Pair!Live, Pair!Free
<1>8. (AgreesInv /\ OversInv /\ RoomsInv /\ HedgeInv /\ EndInv)'
  BY <1>1, <1>2, <1>3, <1>4, <1>5, PairConstants, PartFacts, SumsType DEF
     PairInv, AgreesInv, AgreeInv, Synced, OversInv, OverInv, RoomsInv,
     RoomInv, HedgeInv, EndInv, Pair!Exists, Pair!IsLive, Pair!Live,
     Pair!Ended, Pair!MayTrade
<1> QED  BY <1>6, <1>7, <1>8 DEF PairInv

LEMMA TickedPair ==
  ASSUME PairInv, Pair!TickPair  PROVE PairInv'
<1>1. /\ pairCall.at \in {"idle", "dead"} /\ pair \in Pair!Active
      /\ pairCall' = [Pair!Idle EXCEPT !.at = "fetch", !.expired = late,
                                       !.enabled = pairEnabled]
      /\ UNCHANGED <<pair, row, suspended, late, pairEnabled, pairVenue,
                     slipped>>
  BY DEF Pair!TickPair, Pair!Free, Pair!rows
<1>2. /\ pairCall' \in PairCall
      /\ pairCall'.at = "fetch" /\ pairCall'.part = Pair!NoPart
      /\ pairCall'.expired = late /\ pairCall'.enabled = pairEnabled
  BY <1>1, IdleFacts DEF PairInv, PairTypes, PairCall
<1>3. /\ \A k \in Pair!Leg : Sold(k)' = Sold(k)
      /\ \A k \in Pair!Leg : Booked(k)' = Booked(k)
  BY <1>1, Unmoved
<1>4. (PairTypes /\ RowsInv /\ SubmitInv /\ OneLive /\ SeenInv /\ PlanInv)'
  BY <1>1, <1>2, <1>3, PairConstants, PartFacts, SumsType DEF PairInv,
     PairTypes, PairRow, VenueRow, PairCall, RowsInv, RowInv, SubmitInv,
     OneLive, SeenInv, PlanInv, Pair!Exists, Pair!IsLive, Pair!Live, Pair!Over,
     Pair!Active, Pair!Ended, Pair!Free
<1>5. (FirstInv /\ UnwindInv /\ LegsInv)'
  BY <1>1, <1>2, <1>3, PairConstants, PartFacts, SumsType DEF PairInv,
     FirstInv, Begun, UnwindInv, Doomed, LegsInv, Pair!Exists, Pair!IsLive,
     Pair!Live, Pair!Free
<1>6. (AgreesInv /\ OversInv /\ RoomsInv /\ HedgeInv /\ EndInv)'
  BY <1>1, <1>2, <1>3, PairConstants, PartFacts, SumsType DEF PairInv,
     AgreesInv, AgreeInv, Synced, OversInv, OverInv, RoomsInv, RoomInv,
     HedgeInv, EndInv, Pair!Exists, Pair!IsLive, Pair!Live, Pair!Ended,
     Pair!MayTrade
<1> QED  BY <1>4, <1>5, <1>6 DEF PairInv

LEMMA FetchPair ==
  ASSUME PairInv, Pair!Fetch  PROVE PairInv'
<1>1. /\ pairCall.at = "fetch"
      /\ UNCHANGED <<pair, row, suspended, late, pairEnabled, pairVenue,
                     slipped>>
  BY DEF Pair!Fetch, Pair!rows
<1>2. /\ pairCall' \in PairCall
      /\ pairCall'.at = "status" /\ pairCall'.part = pairCall.part
      /\ pairCall'.expired = pairCall.expired /\ pairCall'.qty = pairCall.qty
      /\ pairCall'.enabled = pairCall.enabled
      /\ \A p \in Pair!Part : pairCall'.seen[p] = pairVenue[p].traded
  <2>1. pairCall' = [pairCall EXCEPT
                       !.at = "status",
                       !.seen = [p \in Pair!Part |-> pairVenue[p].traded]]
    BY DEF Pair!Fetch
  <2>2. [p \in Pair!Part |-> pairVenue[p].traded] \in [Pair!Part -> 0 .. Qty]
    BY DEF PairInv, PairTypes, VenueRow
  <2> QED  BY <2>1, <2>2 DEF PairInv, PairTypes, PairCall
<1>3. /\ \A k \in Pair!Leg : Sold(k)' = Sold(k)
      /\ \A k \in Pair!Leg : Booked(k)' = Booked(k)
  BY <1>1, Unmoved
<1>4. (PairTypes /\ RowsInv /\ SubmitInv /\ OneLive /\ SeenInv /\ PlanInv)'
  BY <1>1, <1>2, <1>3, PairConstants, PartFacts, SumsType DEF PairInv,
     PairTypes, PairRow, VenueRow, PairCall, RowsInv, RowInv, SubmitInv,
     OneLive, SeenInv, PlanInv, Pair!Exists, Pair!IsLive, Pair!Live, Pair!Over,
     Pair!Active, Pair!Ended, Pair!Free
<1>5. (FirstInv /\ UnwindInv /\ LegsInv)'
  BY <1>1, <1>2, <1>3, PairConstants, PartFacts, SumsType DEF PairInv,
     FirstInv, Begun, UnwindInv, Doomed, LegsInv, Pair!Exists, Pair!IsLive,
     Pair!Live, Pair!Free
<1>6. (AgreesInv /\ OversInv /\ RoomsInv /\ HedgeInv /\ EndInv)'
  BY <1>1, <1>2, <1>3, PairConstants, PartFacts, SumsType DEF PairInv,
     AgreesInv, AgreeInv, Synced, OversInv, OverInv, RoomsInv, RoomInv,
     HedgeInv, EndInv, Pair!Exists, Pair!IsLive, Pair!Live, Pair!Ended,
     Pair!MayTrade
<1> QED  BY <1>4, <1>5, <1>6 DEF PairInv

LEMMA ReadStatusPair ==
  ASSUME PairInv, Pair!ReadStatus  PROVE PairInv'
<1> DEFINE s(p) == IF Pair!IsLive(p) THEN Pair!StateOf(p) ELSE row[p].state
<1>1. /\ pairCall.at = "status"
      /\ pairCall' = [pairCall EXCEPT !.at = "account"]
      /\ UNCHANGED <<pair, suspended, late, pairEnabled, pairVenue>>
  BY DEF Pair!ReadStatus
<1>2. /\ pairCall' \in PairCall
      /\ pairCall'.at = "account" /\ pairCall'.part = pairCall.part
      /\ pairCall'.expired = pairCall.expired /\ pairCall'.qty = pairCall.qty
      /\ pairCall'.enabled = pairCall.enabled /\ pairCall'.seen = pairCall.seen
  BY <1>1 DEF PairInv, PairTypes, PairCall
<1>3. row' = [p \in Pair!Part |-> [row[p] EXCEPT !.state = s(p)]]
  <2>1. ASSUME NEW p \in Pair!Part
        PROVE  (IF Pair!IsLive(p) THEN [row[p] EXCEPT !.state = Pair!StateOf(p)]
                ELSE row[p]) = [row[p] EXCEPT !.state = s(p)]
    BY DEF PairInv, PairTypes, PairRow
  <2> QED  BY <2>1 DEF Pair!ReadStatus
<1>4. \A p \in Pair!Part :
        /\ row'[p].state = s(p)
        /\ row'[p].qty = row[p].qty /\ row'[p].filled = row[p].filled
  BY <1>3 DEF PairInv, PairTypes, PairRow
<1>5. \A p \in Pair!Part :
        s(p) \in Pair!Live \cup Pair!Over \cup {"none", "abandoned"}
  BY DEF PairInv, PairTypes, PairRow, Pair!StateOf, Pair!Live, Pair!Over
<1>6. row' \in [Pair!Part -> PairRow]
  <2> HIDE DEF s
  <2>1. \A p \in Pair!Part : [row[p] EXCEPT !.state = s(p)] \in PairRow
    BY <1>5 DEF PairInv, PairTypes, PairRow
  <2> QED  BY <1>3, <2>1
<1>7. \A p \in Pair!Part :
        \/ s(p) = row[p].state
        \/ /\ Pair!IsLive(p)
           /\ \/ s(p) = "working" /\ pairVenue[p].status = "open"
              \/ s(p) = "settling" /\ pairVenue[p].status = "filled"
              \/ s(p) = "terminal" /\ pairVenue[p].status = "canceled"
  BY DEF Pair!StateOf
<1>8. /\ slipped' \in BOOLEAN /\ (slipped => slipped')
      /\ ~slipped' => \A p \in Pair!Part :
           Pair!IsLive(p) /\ s(p) = "terminal" =>
             pairCall.seen[p] = pairVenue[p].traded
  BY DEF Pair!ReadStatus, PairInv, PairTypes
<1>9. /\ \A k \in Pair!Leg : Sold(k)' = Sold(k)
      /\ \A k \in Pair!Leg : Booked(k)' = Booked(k)
  BY <1>1, <1>4, SoldSame, BookedSame
<1> HIDE DEF s
<1>10. PairTypes'
  BY <1>1, <1>2, <1>4, <1>6, <1>7, <1>8, <1>9, PairConstants, PartFacts,
     SumsType DEF PairInv, PairTypes, PairRow, VenueRow, PairCall, Pair!Live,
     Pair!Over, Pair!Active, Pair!Ended
<1>11. RowsInv'
  BY <1>1, <1>2, <1>4, <1>6, <1>7, <1>8, <1>9, PairConstants, PartFacts,
     SumsType DEF PairInv, RowsInv, RowInv, Pair!IsLive, Pair!Live
<1>12. SubmitInv'
  BY <1>1, <1>2, <1>4, <1>6, <1>7, <1>8, <1>9, PairConstants, PartFacts,
     SumsType DEF PairInv, PairTypes, PairRow, VenueRow, PairCall, SubmitInv,
     Pair!Exists, Pair!IsLive, Pair!Live, Pair!Over, Pair!Active, Pair!Ended
<1>13. OneLive'
  BY <1>1, <1>2, <1>4, <1>6, <1>7, <1>8, <1>9, PairConstants, PartFacts,
     SumsType DEF PairInv, OneLive, Pair!IsLive, Pair!Live
<1>14. SeenInv'
  BY <1>1, <1>2, <1>4, <1>6, <1>7, <1>8, <1>9, PairConstants, PartFacts,
     SumsType DEF PairInv, SeenInv
<1>15. PlanInv'
  BY <1>1, <1>2, <1>4, <1>6, <1>7, <1>8, <1>9, PairConstants, PartFacts,
     SumsType DEF PairInv, PlanInv, Pair!Exists, Pair!Active, Pair!Free
<1>16. (FirstInv /\ UnwindInv /\ LegsInv)'
  BY <1>1, <1>2, <1>4, <1>6, <1>7, <1>8, <1>9, PairConstants, PartFacts,
     SumsType DEF PairInv, FirstInv, Begun, UnwindInv, Doomed, LegsInv,
     Pair!Exists, Pair!IsLive, Pair!Live, Pair!Free
<1>17. (AgreesInv /\ OversInv /\ RoomsInv /\ HedgeInv /\ EndInv)'
  BY <1>1, <1>2, <1>4, <1>6, <1>7, <1>8, <1>9, PairConstants, PartFacts,
     SumsType DEF PairInv, SubmitInv, AgreesInv, AgreeInv, Synced, OversInv,
     OverInv, RoomsInv, RoomInv, HedgeInv, EndInv, Pair!Exists, Pair!IsLive,
     Pair!Live, Pair!Ended, Pair!MayTrade
<1> QED  BY <1>10, <1>11, <1>12, <1>13, <1>14, <1>15, <1>16, <1>17 DEF PairInv

LEMMA ImportPair ==
  ASSUME PairInv, Pair!Import  PROVE PairInv'
<1> DEFINE over(p) ==
              row[p].state = "settling" /\ pairCall.seen[p] >= row[p].qty
           s(p) == IF over(p) THEN "filled" ELSE row[p].state
<1>1. /\ pairCall.at = "account"
      /\ UNCHANGED <<pair, late, pairEnabled, pairVenue, slipped>>
  BY DEF Pair!Import
<1>2. row' = [p \in Pair!Part |-> [row[p] EXCEPT !.state = s(p),
                                                 !.filled = pairCall.seen[p]]]
  <2>1. row' = [p \in Pair!Part |->
          IF over(p)
            THEN [[row[p] EXCEPT !.filled = pairCall.seen[p]]
                    EXCEPT !.state = "filled"]
            ELSE [row[p] EXCEPT !.filled = pairCall.seen[p]]]
    BY DEF Pair!Import
  <2>2. ASSUME NEW p \in Pair!Part
        PROVE (IF over(p)
                 THEN [[row[p] EXCEPT !.filled = pairCall.seen[p]]
                         EXCEPT !.state = "filled"]
                 ELSE [row[p] EXCEPT !.filled = pairCall.seen[p]])
              = [row[p] EXCEPT !.state = s(p), !.filled = pairCall.seen[p]]
    BY DEF PairInv, PairTypes, PairRow
  <2> QED  BY <2>1, <2>2
<1>3. \A p \in Pair!Part :
        /\ s(p) = row[p].state
             \/ /\ row[p].state = "settling" /\ s(p) = "filled"
                /\ pairCall.seen[p] >= row[p].qty
        /\ pairCall.seen[p] \in 0 .. Qty
  BY DEF PairInv, PairTypes, PairCall
<1> HIDE DEF s, over
<1>4. /\ row' \in [Pair!Part -> PairRow]
      /\ \A p \in Pair!Part :
           /\ row'[p].state = s(p) /\ row'[p].filled = pairCall.seen[p]
           /\ row'[p].qty = row[p].qty
  <2>1. \A p \in Pair!Part :
          [row[p] EXCEPT !.state = s(p), !.filled = pairCall.seen[p]]
            \in PairRow
    BY <1>3 DEF PairInv, PairTypes, PairRow, Pair!Live, Pair!Over
  <2> QED  BY <1>2, <2>1 DEF PairInv, PairTypes, PairRow
<1>5. /\ pairCall' \in PairCall
      /\ pairCall'.part = pairCall.part /\ pairCall'.qty = pairCall.qty
      /\ pairCall'.at = IF pairCall.part = Pair!NoPart
                        THEN "advance" ELSE "synced"
      /\ pairCall'.expired = pairCall.expired
      /\ pairCall'.enabled = pairCall.enabled
  <2>1. pairCall' = [pairCall EXCEPT
           !.seen = Pair!Idle.seen,
           !.at = IF pairCall.part = Pair!NoPart THEN "advance" ELSE "synced"]
    BY DEF Pair!Import
  <2>2. Pair!Idle.seen \in [Pair!Part -> 0 .. Qty]
    BY IdleFacts DEF PairCall
  <2> QED  BY <2>1, <2>2 DEF PairInv, PairTypes, PairCall
<1>6. PairTypes'
  <2>1. suspended' \in [Pair!Leg -> BOOLEAN]
    BY DEF Pair!Import, PairInv, PairTypes
  <2> QED  BY <1>1, <1>4, <1>5, <2>1 DEF PairInv, PairTypes
<1>7. \A k \in Pair!Leg : Sold(k)' = Sold(k)
  BY <1>1, SoldSame
<1>8. (PairTypes =>
          \A k \in Pair!Leg :
            /\ Sold(k) \in Nat /\ Booked(k) \in Nat
            /\ Pair!Inventory(k) = row[Lead(k)].filled - Booked(k)
            /\ Pair!Position(k) = pairVenue[Lead(k)].traded - Sold(k)
            /\ Pair!Traded({<<k, 0>>}) = pairVenue[Lead(k)].traded
            /\ Pair!Traded(Pair!Unwinds(k)) = Sold(k))'
  BY LegSums, PTL
<1>9. ASSUME NEW k \in Pair!Leg
      PROVE  /\ suspended[k] => suspended'[k]
             /\ ~suspended'[k] /\ row'[Lead(k)].filled # Booked(k)' =>
                  row'[Lead(k)].filled - Booked(k)'
                    = pairVenue[Lead(k)].traded - Sold(k)
  <2>1. suspended'[k] <=> \/ suspended[k]
                          \/ /\ Pair!Inventory(k)' # 0
                             /\ Pair!Inventory(k)' # Pair!Position(k)
    BY DEF Pair!Import
  <2>3. /\ Pair!Inventory(k)' = row'[Lead(k)].filled - Booked(k)'
        /\ Booked(k)' \in Nat
    BY <1>6, <1>8
  <2>4. Pair!Position(k) = pairVenue[Lead(k)].traded - Sold(k)
    BY LegSums DEF PairInv
  <2>5. row'[Lead(k)].filled \in Int
    BY <1>6, PartFacts, PairConstants DEF PairTypes, PairRow
  <2> QED  BY <2>1, <2>3, <2>4, <2>5
<1>10. \A p \in Pair!Part :
        /\ row[p].filled <= pairCall.seen[p]
        /\ pairCall.seen[p] <= pairVenue[p].traded
        /\ pairVenue[p].traded <= row[p].qty
        /\ s(p) # row[p].state =>
             /\ pairVenue[p].status = "filled"
             /\ pairCall.seen[p] = row[p].qty
  <2>1. \A p \in Pair!Part :
        /\ row[p].filled <= pairCall.seen[p]
        /\ pairCall.seen[p] <= pairVenue[p].traded
        /\ pairVenue[p].traded <= row[p].qty
        /\ row[p].qty \in Nat /\ pairVenue[p].traded \in Nat
        /\ pairVenue[p].status # "filled" =>
             pairVenue[p].traded < row[p].qty \/ row[p].state # "settling"
    BY <1>1, PairConstants DEF PairInv, SeenInv, PairTypes, PairRow, VenueRow,
       RowsInv, RowInv
  <2> QED  BY <1>3, <2>1, PairConstants
<1>11. (SubmitInv /\ OneLive /\ SeenInv /\ PlanInv)'
  BY <1>1, <1>3, <1>4, <1>5, <1>6, <1>7, <1>9, <1>10, PairConstants, PartFacts,
     SumsType DEF PairInv, PairTypes, PairRow, VenueRow, PairCall, SubmitInv,
     OneLive, SeenInv, PlanInv, Pair!Exists, Pair!IsLive, Pair!Live, Pair!Over,
     Pair!Active, Pair!Ended, Pair!Free
<1>12. RowsInv'
  <2> SUFFICES ASSUME NEW p \in Pair!Part  PROVE RowInv(p)'
    BY DEF RowsInv
  <2>1. CASE s(p) = row[p].state
    BY SMTT(30), <1>1, <1>4, <1>10, <2>1, PairConstants
       DEF PairInv, PairTypes, PairRow, VenueRow, RowsInv, RowInv, Pair!IsLive
  <2>2. CASE s(p) # row[p].state
    BY <1>1, <1>3, <1>4, <1>10, <2>2, PairConstants
       DEF PairInv, PairTypes, PairRow, VenueRow, RowsInv, RowInv, Pair!IsLive
  <2> QED  BY <2>1, <2>2
<1>13. FirstInv'
  BY <1>1, <1>3, <1>4, <1>5, <1>6, <1>7, <1>9, <1>10, PairConstants, PartFacts,
     SumsType DEF PairInv, PairTypes, PairRow, VenueRow, PairCall, FirstInv,
     Begun, Pair!Exists, Pair!IsLive, Pair!Live, Pair!Over, Pair!Active,
     Pair!Ended
<1>14. UnwindInv'
  BY SMTT(30), <1>1, <1>3, <1>4, <1>5, <1>6, <1>7, <1>9, <1>10, PairConstants,
     PartFacts, SumsType DEF PairInv, PairTypes, PairRow, VenueRow, PairCall,
     UnwindInv, Begun, Doomed, Pair!Exists, Pair!IsLive, Pair!Live, Pair!Over,
     Pair!Active, Pair!Ended, Pair!Free
<1>15. LegsInv'
  <2> SUFFICES ASSUME NEW u \in Pair!Unwinds(2), Begun(u)'
               PROVE  /\ \A v \in Pair!Unwinds(1) :
                           ~Pair!IsLive(v)' /\ pairCall'.part # v
                      /\ \/ suspended'[1]
                         \/ /\ pairVenue'[Pair!First].traded = Sold(1)'
                            /\ \A v \in Pair!Unwinds(1) :
                                 row'[v].filled = pairVenue'[v].traded
    BY DEF LegsInv
  <2>1. Begun(u)
    BY <1>3, <1>4, <1>5, PartFacts DEF Begun, Pair!Exists
  <2>2. /\ \A v \in Pair!Unwinds(1) : ~Pair!IsLive(v) /\ pairCall.part # v
        /\ \/ suspended[1]
           \/ /\ pairVenue[Pair!First].traded = Sold(1)
              /\ \A v \in Pair!Unwinds(1) : row[v].filled = pairVenue[v].traded
    BY <2>1 DEF PairInv, LegsInv
  <2>3. ASSUME NEW v \in Pair!Unwinds(1)
        PROVE  /\ ~Pair!IsLive(v)' /\ pairCall'.part # v
               /\ row[v].filled = pairVenue[v].traded =>
                    row'[v].filled = pairVenue'[v].traded
    <3>1. v \in Pair!Part
      BY PartFacts
    <3>2. ~Pair!IsLive(v)' /\ pairCall'.part # v
      BY <1>3, <1>4, <1>5, <2>2, <3>1 DEF Pair!IsLive, Pair!Live
    <3>3. row[v].filled \in Nat /\ pairVenue[v].traded \in Nat
      BY <3>1, PairConstants DEF PairInv, PairTypes, PairRow, VenueRow
    <3> QED  BY <1>1, <1>3, <1>4, <1>10, <3>1, <3>2, <3>3, PairConstants
  <2> QED  BY <1>1, <1>7, <1>9, <2>2, <2>3, PartFacts
<1>16. (AgreesInv /\ OversInv /\ RoomsInv /\ HedgeInv /\ EndInv)'
  BY <1>1, <1>3, <1>4, <1>5, <1>6, <1>7, <1>9, <1>10, PairConstants, PartFacts,
     SumsType DEF PairInv, RowsInv, RowInv, AgreesInv, AgreeInv, Synced,
     OversInv, OverInv, RoomsInv, RoomInv, HedgeInv, EndInv, Pair!Exists,
     Pair!IsLive, Pair!Live, Pair!Ended, Pair!MayTrade
<1> QED  BY <1>6, <1>11, <1>12, <1>13, <1>14, <1>15, <1>16 DEF PairInv

LEMMA DraftPair ==
  ASSUME PairInv, NEW p \in Pair!Part, Pair!Draft(p)  PROVE PairInv'
<1>1. /\ pairCall.at = "synced" /\ pairCall.part = p /\ ~Pair!Exists(p)
      /\ \A q \in Pair!Part \ {p} : ~Pair!IsLive(q)
      /\ UNCHANGED <<pair, suspended, late, pairEnabled, pairVenue, slipped>>
  BY PartFacts DEF Pair!Draft, PairInv, SubmitInv
<1>2. /\ row[p].filled = 0 /\ row[p].state = "none"
      /\ pairVenue[p].status = "none" /\ pairVenue[p].traded = 0
      /\ pairCall.qty \in 1 .. Qty
  BY <1>1, PartFacts, PairConstants DEF PairInv, PairTypes, PairRow, VenueRow,
     PairCall, SubmitInv, RowsInv, RowInv, Pair!Exists
<1>3. /\ row' \in [Pair!Part -> PairRow]
      /\ row'[p].state = "submitting" /\ row'[p].qty = pairCall.qty
      /\ row'[p].filled = 0
      /\ \A q \in Pair!Part \ {p} : row'[q] = row[q]
  <2>1. row' = [row EXCEPT ![p] = [state |-> "submitting", qty |-> pairCall.qty,
                                   filled |-> 0]]
    BY DEF Pair!Draft
  <2>2. [state |-> "submitting", qty |-> pairCall.qty, filled |-> 0] \in PairRow
    BY <1>2, PairConstants DEF PairRow, Pair!Live
  <2> QED  BY <2>1, <2>2 DEF PairInv, PairTypes
<1>4. /\ pairCall' \in PairCall
      /\ pairCall'.at = "fetch" /\ pairCall'.part = p
      /\ pairCall'.qty = pairCall.qty
      /\ pairCall'.expired = pairCall.expired
      /\ pairCall'.enabled = pairCall.enabled
  <2>1. pairCall' = [pairCall EXCEPT !.at = "fetch"]
    BY DEF Pair!Draft
  <2> QED  BY <1>1, <2>1 DEF PairInv, PairTypes, PairCall
<1>5. /\ \A k \in Pair!Leg : Sold(k)' = Sold(k)
      /\ \A k \in Pair!Leg : Booked(k)' = Booked(k)
  BY <1>1, <1>2, <1>3, SoldSame, BookedSame
<1>6. PairTypes'
  BY <1>1, <1>2, <1>3, <1>4, <1>5, PairConstants, PartFacts, SumsType DEF
     PairInv, PairTypes, PairRow, VenueRow, PairCall, Pair!Live, Pair!Over,
     Pair!Active, Pair!Ended
<1>7. RowsInv'
  BY <1>1, <1>2, <1>3, <1>4, <1>5, PairConstants, PartFacts, SumsType DEF
     PairInv, RowsInv, RowInv, Pair!IsLive, Pair!Live
<1>8. SubmitInv'
  BY <1>1, <1>2, <1>3, <1>4, <1>5, PairConstants, PartFacts, SumsType DEF
     PairInv, SubmitInv, Pair!Exists, Pair!IsLive, Pair!Live
<1>9. OneLive'
  BY <1>1, <1>2, <1>3, <1>4, <1>5, PairConstants, PartFacts, SumsType DEF
     PairInv, OneLive, Pair!IsLive, Pair!Live
<1>10. SeenInv'
  BY <1>1, <1>2, <1>3, <1>4, <1>5, PairConstants, PartFacts, SumsType DEF
     PairInv, SeenInv
<1>11. PlanInv'
  BY <1>1, <1>2, <1>3, <1>4, <1>5, PairConstants, PartFacts, SumsType DEF
     PairInv, PlanInv, Pair!Exists, Pair!Active, Pair!Free
<1>12. (FirstInv /\ UnwindInv /\ LegsInv)'
  BY <1>1, <1>2, <1>3, <1>4, <1>5, PairConstants, PartFacts, SumsType DEF
     PairInv, FirstInv, Begun, UnwindInv, Doomed, LegsInv, Pair!Exists,
     Pair!IsLive, Pair!Live, Pair!Free
<1>13. (AgreesInv /\ OversInv /\ RoomsInv /\ HedgeInv /\ EndInv)'
  BY <1>1, <1>2, <1>3, <1>4, <1>5, PairConstants, PartFacts, SumsType DEF
     PairInv, AgreesInv, AgreeInv, Synced, OversInv, OverInv, RoomsInv,
     RoomInv, HedgeInv, EndInv, Pair!Exists, Pair!IsLive, Pair!Live,
     Pair!Ended, Pair!MayTrade
<1> QED  BY <1>6, <1>7, <1>8, <1>9, <1>10, <1>11, <1>12, <1>13 DEF PairInv

LEMMA FailSubmitPair ==
  ASSUME PairInv, Pair!FailSubmit  PROVE PairInv'
<1>1. /\ pairCall.part # Pair!NoPart /\ ~Pair!Exists(pairCall.part)
      /\ pair' = IF pairCall.part = Pair!Second THEN "unwind" ELSE pair
      /\ pairCall' = Pair!Idle
      /\ UNCHANGED <<row, suspended, late, pairEnabled, pairVenue, slipped>>
  BY DEF Pair!FailSubmit, Pair!Drafted
<1>2. /\ \A k \in Pair!Leg : Sold(k)' = Sold(k)
      /\ \A k \in Pair!Leg : Booked(k)' = Booked(k)
  BY <1>1, Unmoved
<1>3. (PairTypes /\ RowsInv /\ SubmitInv /\ OneLive /\ SeenInv /\ PlanInv)'
  BY <1>1, <1>2, IdleFacts, PairConstants, PartFacts, SumsType DEF PairInv,
     PairTypes, PairRow, VenueRow, PairCall, RowsInv, RowInv, SubmitInv,
     OneLive, SeenInv, PlanInv, Pair!Exists, Pair!IsLive, Pair!Live, Pair!Over,
     Pair!Active, Pair!Ended, Pair!Free
<1>4. (FirstInv /\ UnwindInv /\ LegsInv)'
  BY <1>1, <1>2, IdleFacts, PairConstants, PartFacts, SumsType DEF PairInv,
     FirstInv, Begun, UnwindInv, Doomed, LegsInv, Pair!Exists, Pair!IsLive,
     Pair!Live, Pair!Free
<1>5. (AgreesInv /\ OversInv /\ RoomsInv /\ HedgeInv /\ EndInv)'
  BY <1>1, <1>2, IdleFacts, PairConstants, PartFacts, SumsType DEF PairInv,
     AgreesInv, AgreeInv, Synced, OversInv, OverInv, RoomsInv, RoomInv,
     HedgeInv, EndInv, Pair!Exists, Pair!IsLive, Pair!Live, Pair!Ended,
     Pair!MayTrade
<1> QED  BY <1>3, <1>4, <1>5 DEF PairInv

LEMMA DispatchPair ==
  ASSUME PairInv, NEW p \in Pair!Part, Pair!Dispatch(p)  PROVE PairInv'
<1>1. /\ pairCall.at = "synced" /\ pairCall.part = p /\ Pair!Exists(p)
      /\ UNCHANGED <<pair, row, suspended, late, pairEnabled, slipped>>
  BY DEF Pair!Dispatch, Pair!rows
<1>2. row[p].state = "submitting" /\ pairVenue[p].status = "none"
  BY <1>1, PartFacts DEF PairInv, SubmitInv
<1>3. /\ pairVenue' \in [Pair!Part -> VenueRow]
      /\ pairVenue'[p].status = "flight"
      /\ pairVenue'[p].traded = pairVenue[p].traded
      /\ \A q \in Pair!Part \ {p} : pairVenue'[q] = pairVenue[q]
  <2>1. pairVenue' = [pairVenue EXCEPT ![p].status = "flight"]
    BY DEF Pair!Dispatch
  <2> QED  BY <2>1 DEF PairInv, PairTypes, VenueRow
<1>4. /\ pairCall' \in PairCall
      /\ pairCall'.at = "ack" /\ pairCall'.part = p
      /\ pairCall'.qty = pairCall.qty
      /\ pairCall'.expired = pairCall.expired
      /\ pairCall'.enabled = pairCall.enabled
  <2>1. pairCall' = [pairCall EXCEPT !.at = "ack"]
    BY DEF Pair!Dispatch
  <2> QED  BY <1>1, <2>1 DEF PairInv, PairTypes, PairCall
<1>5. /\ \A k \in Pair!Leg : Sold(k)' = Sold(k)
      /\ \A k \in Pair!Leg : Booked(k)' = Booked(k)
  BY <1>1, <1>3, SoldSame, BookedSame
<1>6. PairTypes'
  BY <1>1, <1>2, <1>3, <1>4, <1>5, PairConstants, PartFacts, SumsType DEF
     PairInv, PairTypes, PairRow, VenueRow, PairCall, Pair!Live, Pair!Over,
     Pair!Active, Pair!Ended
<1>7. RowsInv'
  BY <1>1, <1>2, <1>3, <1>4, <1>5, PairConstants, PartFacts, SumsType DEF
     PairInv, RowsInv, RowInv, Pair!IsLive, Pair!Live
<1>8. SubmitInv'
  BY <1>1, <1>2, <1>3, <1>4, <1>5, PairConstants, PartFacts, SumsType DEF
     PairInv, SubmitInv, Pair!Exists, Pair!IsLive, Pair!Live
<1>9. OneLive'
  BY <1>1, <1>2, <1>3, <1>4, <1>5, PairConstants, PartFacts, SumsType DEF
     PairInv, OneLive, Pair!IsLive, Pair!Live
<1>10. SeenInv'
  BY <1>1, <1>2, <1>3, <1>4, <1>5, PairConstants, PartFacts, SumsType DEF
     PairInv, SeenInv
<1>11. PlanInv'
  BY <1>1, <1>2, <1>3, <1>4, <1>5, PairConstants, PartFacts, SumsType DEF
     PairInv, PlanInv, Pair!Exists, Pair!Active, Pair!Free
<1>12. (FirstInv /\ UnwindInv /\ LegsInv)'
  BY <1>1, <1>2, <1>3, <1>4, <1>5, PairConstants, PartFacts, SumsType DEF
     PairInv, FirstInv, Begun, UnwindInv, Doomed, LegsInv, Pair!Exists,
     Pair!IsLive, Pair!Live, Pair!Free
<1>13. (AgreesInv /\ OversInv /\ RoomsInv /\ HedgeInv /\ EndInv)'
  BY <1>1, <1>2, <1>3, <1>4, <1>5, PairConstants, PartFacts, SumsType DEF
     PairInv, SubmitInv, PlanInv, AgreesInv, AgreeInv, Synced, OversInv,
     OverInv, RoomsInv, RoomInv, HedgeInv, EndInv, Pair!Exists, Pair!IsLive,
     Pair!Live, Pair!Active, Pair!Ended, Pair!Free, Pair!MayTrade
<1> QED  BY <1>6, <1>7, <1>8, <1>9, <1>10, <1>11, <1>12, <1>13 DEF PairInv

LEMMA ExpirePair ==
  ASSUME PairInv, Pair!Expire  PROVE PairInv'
<1>1. /\ late' = TRUE
      /\ UNCHANGED <<pair, row, suspended, pairEnabled, pairCall, pairVenue,
                     slipped>>
  BY DEF Pair!Expire, Pair!rows
<1>2. /\ \A k \in Pair!Leg : Sold(k)' = Sold(k)
      /\ \A k \in Pair!Leg : Booked(k)' = Booked(k)
  BY <1>1, Unmoved
<1>3. (PairTypes /\ RowsInv /\ SubmitInv /\ OneLive /\ SeenInv /\ PlanInv)'
  BY <1>1, <1>2, PairConstants, PartFacts, SumsType DEF PairInv, PairTypes,
     PairRow, VenueRow, PairCall, RowsInv, RowInv, SubmitInv, OneLive, SeenInv,
     PlanInv, Pair!Exists, Pair!IsLive, Pair!Live, Pair!Over, Pair!Active,
     Pair!Ended, Pair!Free
<1>4. (FirstInv /\ UnwindInv /\ LegsInv)'
  BY <1>1, <1>2, PairConstants, PartFacts, SumsType DEF PairInv, FirstInv,
     Begun, UnwindInv, Doomed, LegsInv, Pair!Exists, Pair!IsLive, Pair!Live,
     Pair!Free
<1>5. (AgreesInv /\ OversInv /\ RoomsInv /\ HedgeInv /\ EndInv)'
  BY <1>1, <1>2, PairConstants, PartFacts, SumsType DEF PairInv, AgreesInv,
     AgreeInv, Synced, OversInv, OverInv, RoomsInv, RoomInv, HedgeInv, EndInv,
     Pair!Exists, Pair!IsLive, Pair!Live, Pair!Ended, Pair!MayTrade
<1> QED  BY <1>3, <1>4, <1>5 DEF PairInv

LEMMA TogglePair ==
  ASSUME PairInv, Pair!Toggle  PROVE PairInv'
<1>1. /\ late' = TRUE /\ pairEnabled' \in BOOLEAN
      /\ UNCHANGED <<pair, row, suspended, pairCall, pairVenue, slipped>>
  BY DEF Pair!Toggle, Pair!rows, PairInv, PairTypes
<1>2. /\ \A k \in Pair!Leg : Sold(k)' = Sold(k)
      /\ \A k \in Pair!Leg : Booked(k)' = Booked(k)
  BY <1>1, Unmoved
<1>3. (PairTypes /\ RowsInv /\ SubmitInv /\ OneLive /\ SeenInv /\ PlanInv)'
  BY <1>1, <1>2, PairConstants, PartFacts, SumsType DEF PairInv, PairTypes,
     PairRow, VenueRow, PairCall, RowsInv, RowInv, SubmitInv, OneLive, SeenInv,
     PlanInv, Pair!Exists, Pair!IsLive, Pair!Live, Pair!Over, Pair!Active,
     Pair!Ended, Pair!Free
<1>4. (FirstInv /\ UnwindInv /\ LegsInv)'
  BY <1>1, <1>2, PairConstants, PartFacts, SumsType DEF PairInv, FirstInv,
     Begun, UnwindInv, Doomed, LegsInv, Pair!Exists, Pair!IsLive, Pair!Live,
     Pair!Free
<1>5. (AgreesInv /\ OversInv /\ RoomsInv /\ HedgeInv /\ EndInv)'
  BY <1>1, <1>2, PairConstants, PartFacts, SumsType DEF PairInv, AgreesInv,
     AgreeInv, Synced, OversInv, OverInv, RoomsInv, RoomInv, HedgeInv, EndInv,
     Pair!Exists, Pair!IsLive, Pair!Live, Pair!Ended, Pair!MayTrade
<1> QED  BY <1>3, <1>4, <1>5 DEF PairInv

LEMMA CollidePair ==
  ASSUME PairInv, NEW l \in Pair!Leg, Pair!Collide(l)  PROVE PairInv'
<1>1. /\ suspended' \in [Pair!Leg -> BOOLEAN]
      /\ \A k \in Pair!Leg : suspended[k] => suspended'[k]
      /\ pairCall.at \in {"idle", "dead"}
      /\ UNCHANGED <<pair, row, late, pairEnabled, pairCall, pairVenue,
                     slipped>>
  BY DEF Pair!Collide, Pair!Free, PairInv, PairTypes
<1>2. /\ \A k \in Pair!Leg : Sold(k)' = Sold(k)
      /\ \A k \in Pair!Leg : Booked(k)' = Booked(k)
  BY <1>1, Unmoved
<1>3. (PairTypes /\ RowsInv /\ SubmitInv /\ OneLive /\ SeenInv /\ PlanInv)'
  BY <1>1, <1>2, PairConstants, PartFacts, SumsType DEF PairInv, PairTypes,
     PairRow, VenueRow, PairCall, RowsInv, RowInv, SubmitInv, OneLive, SeenInv,
     PlanInv, Pair!Exists, Pair!IsLive, Pair!Live, Pair!Over, Pair!Active,
     Pair!Ended, Pair!Free
<1>4. (FirstInv /\ UnwindInv /\ LegsInv)'
  BY <1>1, <1>2, PairConstants, PartFacts, SumsType DEF PairInv, FirstInv,
     Begun, UnwindInv, Doomed, LegsInv, Pair!Exists, Pair!IsLive, Pair!Live,
     Pair!Free
<1>5. (AgreesInv /\ OversInv /\ RoomsInv /\ HedgeInv /\ EndInv)'
  BY <1>1, <1>2, PairConstants, PartFacts, SumsType DEF PairInv, AgreesInv,
     AgreeInv, Synced, OversInv, OverInv, RoomsInv, RoomInv, HedgeInv, EndInv,
     Pair!Exists, Pair!IsLive, Pair!Live, Pair!Ended, Pair!MayTrade
<1> QED  BY <1>3, <1>4, <1>5 DEF PairInv

LEMMA CrashPair ==
  ASSUME PairInv, Pair!Crash  PROVE PairInv'
<1>1. /\ pairCall' = Pair!Dead
      /\ UNCHANGED <<pair, row, suspended, late, pairEnabled, pairVenue,
                     slipped>>
  BY DEF Pair!Crash, Pair!rows
<1>2. /\ \A k \in Pair!Leg : Sold(k)' = Sold(k)
      /\ \A k \in Pair!Leg : Booked(k)' = Booked(k)
  BY <1>1, Unmoved
<1>3. (PairTypes /\ RowsInv /\ SubmitInv /\ OneLive /\ SeenInv /\ PlanInv)'
  BY <1>1, <1>2, IdleFacts, PairConstants, PartFacts, SumsType DEF PairInv,
     PairTypes, PairRow, VenueRow, PairCall, RowsInv, RowInv, SubmitInv,
     OneLive, SeenInv, PlanInv, Pair!Exists, Pair!IsLive, Pair!Live, Pair!Over,
     Pair!Active, Pair!Ended, Pair!Free
<1>4. (FirstInv /\ UnwindInv /\ LegsInv)'
  BY <1>1, <1>2, IdleFacts, PairConstants, PartFacts, SumsType DEF PairInv,
     FirstInv, Begun, UnwindInv, Doomed, LegsInv, Pair!Exists, Pair!IsLive,
     Pair!Live, Pair!Free
<1>5. (AgreesInv /\ OversInv /\ RoomsInv /\ HedgeInv /\ EndInv)'
  BY <1>1, <1>2, IdleFacts, PairConstants, PartFacts, SumsType DEF PairInv,
     AgreesInv, AgreeInv, Synced, OversInv, OverInv, RoomsInv, RoomInv,
     HedgeInv, EndInv, Pair!Exists, Pair!IsLive, Pair!Live, Pair!Ended,
     Pair!MayTrade
<1> QED  BY <1>3, <1>4, <1>5 DEF PairInv

LEMMA AbandonPair ==
  ASSUME PairInv, NEW p \in Pair!Part, Pair!Abandon(p)  PROVE PairInv'
<1>1. /\ pairCall.at \in {"idle", "dead"}
      /\ row[p].state \in {"submitting", "unknown"}
      /\ pairVenue[p].status \in {"none", "refused"}
      /\ UNCHANGED <<pair, suspended, late, pairEnabled, pairCall, pairVenue,
                     slipped>>
  BY DEF Pair!Abandon, Pair!Free
<1>2. /\ row' \in [Pair!Part -> PairRow]
      /\ row'[p].state = "abandoned"
      /\ \A q \in Pair!Part \ {p} : row'[q].state = row[q].state
      /\ \A q \in Pair!Part : /\ row'[q].filled = row[q].filled
                              /\ row'[q].qty = row[q].qty
  <2>1. row' = [row EXCEPT ![p].state = "abandoned"]
    BY DEF Pair!Abandon
  <2>2. [row[p] EXCEPT !.state = "abandoned"] \in PairRow
    BY DEF PairInv, PairTypes, PairRow
  <2> QED  BY <2>1, <2>2 DEF PairInv, PairTypes, PairRow
<1>3. /\ \A k \in Pair!Leg : Sold(k)' = Sold(k)
      /\ \A k \in Pair!Leg : Booked(k)' = Booked(k)
  BY <1>1, <1>2, SoldSame, BookedSame
<1>4. PairTypes'
  BY <1>1, <1>2 DEF PairInv, PairTypes
<1>5. (RowsInv /\ SubmitInv)'
  BY <1>1, <1>2, PartFacts DEF PairInv, RowsInv, RowInv, SubmitInv,
     Pair!Exists, Pair!IsLive, Pair!Live
<1>6. (OneLive /\ SeenInv /\ PlanInv)'
  BY <1>1, <1>2, <1>3, PairConstants, PartFacts, SumsType DEF PairInv, OneLive,
     SeenInv, PlanInv, Pair!Exists, Pair!IsLive, Pair!Live, Pair!Active,
     Pair!Free
<1>7. (FirstInv /\ UnwindInv /\ LegsInv)'
  BY <1>1, <1>2, <1>3, PairConstants, PartFacts, SumsType DEF PairInv,
     FirstInv, Begun, UnwindInv, Doomed, LegsInv, Pair!Exists, Pair!IsLive,
     Pair!Live, Pair!Free
<1>8. (AgreesInv /\ OversInv /\ RoomsInv /\ HedgeInv /\ EndInv)'
  BY <1>1, <1>2, <1>3, PairConstants, PartFacts, SumsType DEF PairInv,
     SubmitInv, AgreesInv, AgreeInv, Synced, OversInv, OverInv, RoomsInv,
     RoomInv, HedgeInv, EndInv, Pair!Exists, Pair!IsLive, Pair!Live,
     Pair!Ended, Pair!MayTrade
<1> QED  BY <1>4, <1>5, <1>6, <1>7, <1>8 DEF PairInv

\* The exchange trades of an order what it has left, or refuses it.
LEMMA TradePair ==
  ASSUME PairInv, NEW p \in Pair!Part, NEW lots \in Nat, NEW s,
         Pair!Trade(p, lots, s), pairVenue[p].status \in {"flight", "open"},
         \/ s = "filled" /\ pairVenue[p].traded + lots = row[p].qty
         \/ s \in {"open", "canceled"}
            /\ pairVenue[p].traded + lots < row[p].qty
         \/ s = "refused" /\ pairVenue[p].status = "flight" /\ lots = 0
  PROVE  PairInv'
<1>1. UNCHANGED <<pair, row, suspended, late, pairEnabled, pairCall, slipped>>
  BY DEF Pair!Trade, Pair!rows
<1>2. /\ Pair!IsLive(p) /\ Pair!Exists(p)
      /\ pairVenue[p].traded \in 0 .. Qty /\ row[p].qty \in 0 .. Qty
      /\ pairVenue[p].status = "flight" => pairVenue[p].traded = 0
      /\ row[p].qty > 0
  BY PartFacts, PairConstants DEF PairInv, PairTypes, PairRow, VenueRow,
     RowsInv, RowInv, Pair!IsLive, Pair!Live, Pair!Exists
<1>3. pairVenue[p].traded + lots \in 0 .. Qty
      /\ pairVenue[p].traded + lots <= row[p].qty
  BY <1>2, PairConstants
<1>4. /\ pairVenue' \in [Pair!Part -> VenueRow]
      /\ pairVenue'[p].status = s
      /\ pairVenue'[p].traded = pairVenue[p].traded + lots
      /\ \A q \in Pair!Part \ {p} : pairVenue'[q] = pairVenue[q]
  <2>1. pairVenue' = [pairVenue EXCEPT
          ![p] = [status |-> s, traded |-> pairVenue[p].traded + lots]]
    BY DEF Pair!Trade
  <2>2. [status |-> s, traded |-> pairVenue[p].traded + lots] \in VenueRow
    BY <1>3 DEF VenueRow
  <2> QED  BY <2>1, <2>2 DEF PairInv, PairTypes
<1>5. PairTypes'
  BY <1>1, <1>4 DEF PairInv, PairTypes
<1>6. \A k \in Pair!Leg : Booked(k)' = Booked(k)
  BY <1>1, BookedSame
<1>7. \A k \in Pair!Leg :
        IF p \in Pair!Unwinds(k) THEN Sold(k)' = Sold(k) + lots
          ELSE Sold(k)' = Sold(k)
  <2> SUFFICES ASSUME NEW k \in Pair!Leg
               PROVE  IF p \in Pair!Unwinds(k) THEN Sold(k)' = Sold(k) + lots
                        ELSE Sold(k)' = Sold(k)
    OBVIOUS
  <2>1. CASE p \in Pair!Unwinds(k)
    <3>1. Sold(k)' = Sold(k) + pairVenue'[p].traded - pairVenue[p].traded
      BY <1>4, <1>5, <2>1, SoldMore DEF PairInv
    <3> QED  BY <1>2, <1>4, <2>1, <3>1, SumsType DEF PairInv
  <2>2. CASE p \notin Pair!Unwinds(k)
    <3> DEFINE v == [q \in Pair!Part |-> pairVenue[q].traded]
               w == [q \in Pair!Part |-> pairVenue'[q].traded]
    <3>1. \A u \in Pair!Unwinds(k) : v[u] = w[u]
      BY <1>4, <2>2, PartFacts
    <3>2. /\ Sold(k) = SumOf(v, Pair!Unwinds(k))
          /\ Sold(k)' = SumOf(w, Pair!Unwinds(k))
      BY DEF Sold
    <3> HIDE DEF v, w
    <3> QED  BY <2>2, <3>1, <3>2, UnwindsFinite, SumEqual
  <2> QED  BY <2>1, <2>2
<1>8. (SubmitInv /\ OneLive /\ PlanInv)'
  BY <1>1, <1>2, <1>3, <1>4, <1>5, <1>6, <1>7, PairConstants, PartFacts,
     SumsType DEF PairInv, SubmitInv, OneLive, PlanInv, Pair!Exists,
     Pair!IsLive, Pair!Live, Pair!Active, Pair!Free
<1>9. RowsInv'
  BY SMTT(30), <1>1, <1>2, <1>3, <1>4, <1>5, <1>6, <1>7, PairConstants,
     PartFacts, SumsType DEF PairInv, PairTypes, PairRow, VenueRow, PairCall,
     RowsInv, RowInv, Pair!IsLive, Pair!Live, Pair!Over, Pair!Active,
     Pair!Ended
<1>10. SeenInv'
  BY <1>1, <1>2, <1>3, <1>4, <1>5, <1>6, <1>7, PairConstants, PartFacts,
     SumsType DEF PairInv, PairTypes, PairRow, VenueRow, PairCall, SeenInv,
     Pair!Live, Pair!Over, Pair!Active, Pair!Ended
<1>11. (FirstInv /\ UnwindInv /\ LegsInv)'
  BY <1>1, <1>2, <1>3, <1>4, <1>5, <1>6, <1>7, PairConstants, PartFacts,
     SumsType DEF PairInv, FirstInv, Begun, UnwindInv, Doomed, LegsInv,
     Pair!Exists, Pair!IsLive, Pair!Live, Pair!Free
<1>12. AgreesInv'
  BY <1>1, <1>2, <1>3, <1>4, <1>5, <1>6, <1>7, PairConstants, PartFacts,
     SumsType DEF PairInv, AgreesInv, AgreeInv, Synced, Pair!IsLive, Pair!Live
<1>13. OversInv'
  BY <1>1, <1>2, <1>3, <1>4, <1>5, <1>6, <1>7, PairConstants, PartFacts,
     SumsType DEF PairInv, OversInv, OverInv, Synced, Pair!IsLive, Pair!Live
<1>14. RoomsInv'
  <2> SUFFICES ASSUME NEW k \in Pair!Leg  PROVE RoomInv(k)'
    BY DEF RoomsInv
  <2> DEFINE lead == pairVenue[Lead(k)].traded
             sold == Sold(k)
  <2>1. /\ Lead(k) \in Pair!Part /\ Lead(k) \notin Pair!Unwinds(k)
        /\ lead \in Nat /\ sold \in Nat /\ pairVenue'[Lead(k)].traded \in Nat
        /\ lead <= pairVenue'[Lead(k)].traded
    BY <1>2, <1>4, <1>5, PartFacts, PairConstants, SumsType
       DEF PairInv, PairTypes, VenueRow
  <2>2. /\ sold <= lead
        /\ \A u \in Pair!Unwinds(k) : Pair!IsLive(u) =>
             sold - pairVenue[u].traded + row[u].qty <= lead
        /\ pairCall.part \in Pair!Unwinds(k) /\ ~Pair!Exists(pairCall.part) =>
             sold + pairCall.qty <= lead
    BY DEF PairInv, RoomsInv, RoomInv
  <2>3. CASE p \in Pair!Unwinds(k)
    <3>1. Sold(k)' = sold + lots /\ pairVenue'[Lead(k)].traded = lead
      BY <1>4, <1>7, <2>1, <2>3
    <3>2. sold - pairVenue[p].traded + row[p].qty <= lead
      BY <1>2, <2>2, <2>3
    <3>3. \A u \in Pair!Unwinds(k) : Pair!IsLive(u) => u = p
      BY <1>2, PartFacts DEF PairInv, OneLive
    <3>4. pairCall.part \in Pair!Unwinds(k) => Pair!Exists(pairCall.part)
      BY <1>2, PartFacts DEF PairInv, SubmitInv
    <3> HIDE DEF lead, sold
    <3>5. /\ Sold(k)' <= lead
          /\ Sold(k)' - pairVenue'[p].traded + row[p].qty <= lead
      BY <1>2, <1>3, <1>4, <2>1, <3>1, <3>2, PairConstants
    <3> QED  BY <1>1, <3>1, <3>3, <3>4, <3>5
             DEF RoomInv, Pair!Exists, Pair!IsLive
  <2>4. CASE p \notin Pair!Unwinds(k)
    <3>1. /\ Sold(k)' = sold
          /\ \A u \in Pair!Unwinds(k) : /\ pairVenue'[u] = pairVenue[u]
                                        /\ pairVenue[u].traded \in Nat
                                        /\ row[u].qty \in Nat
      BY <1>4, <1>7, <2>4, PartFacts, PairConstants
         DEF PairInv, PairTypes, VenueRow, PairRow
    <3>2. pairCall.qty \in Nat
      BY PairConstants DEF PairInv, PairTypes, PairCall
    <3> HIDE DEF lead, sold
    <3> QED  BY <1>1, <2>1, <2>2, <3>1, <3>2
             DEF RoomInv, Pair!Exists, Pair!IsLive
  <2> QED  BY <2>3, <2>4
<1>15. HedgeInv'
  BY <1>1, <1>2, <1>3, <1>4, <1>5, <1>6, <1>7, PairConstants, PartFacts,
     SumsType DEF PairInv, FirstInv, Begun, HedgeInv, Pair!Exists, Pair!IsLive,
     Pair!Live
<1>16. EndInv'
  BY <1>1, <1>2, <1>3, <1>4, <1>5, <1>6, <1>7, PairConstants, PartFacts,
     SumsType DEF PairInv, EndInv, Pair!Ended, Pair!MayTrade
<1> QED  BY <1>5, <1>8, <1>9, <1>10, <1>11, <1>12, <1>13, <1>14, <1>15, <1>16
         DEF PairInv

LEMMA MatchPair ==
  ASSUME PairInv, NEW p \in Pair!Part, Pair!Match(p)  PROVE PairInv'
<1> DEFINE r == row[p].qty - pairVenue[p].traded
<1>1. /\ pairVenue[p].status \in {"flight", "open"}
      /\ \E lots \in 0 .. r :
           IF lots = r THEN Pair!Trade(p, lots, "filled")
             ELSE \E s \in {"open", "canceled"} : Pair!Trade(p, lots, s)
  BY DEF Pair!Match, Pair!Rest
<1>2. row[p].qty \in Nat /\ pairVenue[p].traded \in Nat
  BY PairConstants DEF PairInv, PairTypes, PairRow, VenueRow
<1>3. PICK lots \in 0 .. r :
        IF lots = r THEN Pair!Trade(p, lots, "filled")
          ELSE \E s \in {"open", "canceled"} : Pair!Trade(p, lots, s)
  BY <1>1
<1>4. lots \in Nat
  OBVIOUS
<1>5. CASE lots = r
  BY <1>1, <1>2, <1>3, <1>4, <1>5, TradePair
<1>6. CASE lots # r
  <2>1. PICK s \in {"open", "canceled"} : Pair!Trade(p, lots, s)
    BY <1>3, <1>6
  <2>2. pairVenue[p].traded + lots < row[p].qty
    BY <1>2, <1>3, <1>6
  <2> QED  BY <1>1, <1>4, <2>1, <2>2, TradePair
<1> QED  BY <1>5, <1>6

LEMMA RefusePair ==
  ASSUME PairInv, NEW p \in Pair!Part, Pair!Refuse(p)  PROVE PairInv'
BY TradePair DEF Pair!Refuse

LEMMA PairNext ==
  ASSUME PairInv, Pair!Next  PROVE PairInv'
BY FetchPair, ReadStatusPair, ImportPair, DraftPair, DispatchPair, RejectPair,
   AcknowledgePair, LoseAnswerPair, FailSubmitPair, SubmitFirstPair,
   AwaitFirstPair, SubmitSecondPair, CompletePair, HedgePair, SettleLegsPair,
   UnwoundPair, UnwindLegPair, OpenPair, TickedPair, ExpirePair, TogglePair,
   CrashPair, CollidePair, AbandonPair, MatchPair, RefusePair DEF Pair!Next,
   Pair!Progress

LEMMA PairInit ==
  ASSUME Pair!Init  PROVE PairInv
<1>1. /\ \A p \in Pair!Part : /\ row[p].state = "none" /\ row[p].qty = 0
                              /\ row[p].filled = 0
                              /\ pairVenue[p].status = "none"
                              /\ pairVenue[p].traded = 0
      /\ row \in [Pair!Part -> PairRow] /\ pairVenue \in [Pair!Part -> VenueRow]
  BY PairConstants DEF Pair!Init, Pair!NoRow, PairRow, VenueRow
<1>2. PairTypes
  BY <1>1, IdleFacts DEF Pair!Init, PairTypes
<1>3. \A k \in Pair!Leg : Sold(k) = 0 /\ Booked(k) = 0
  BY <1>1, <1>2, PartFacts, NothingSold, SumsAgree
<1>4. /\ pair = "none" /\ pairEnabled /\ pairCall = Pair!Idle
      /\ \A p \in Pair!Part : /\ ~Pair!Exists(p) /\ ~Pair!IsLive(p)
                              /\ ~Pair!MayTrade(p) /\ ~Begun(p)
  BY <1>1, IdleFacts, PartFacts DEF Pair!Init, Pair!Exists, Pair!IsLive,
     Pair!Live, Pair!MayTrade, Begun
<1>5. RowsInv /\ SubmitInv /\ OneLive /\ SeenInv /\ PlanInv
  BY <1>1, <1>4, IdleFacts DEF RowsInv, RowInv, SubmitInv, OneLive, SeenInv,
     PlanInv, Pair!Free
<1>6. FirstInv /\ UnwindInv /\ LegsInv
  BY <1>4, PartFacts DEF FirstInv, UnwindInv, LegsInv
<1>7. AgreesInv /\ OversInv /\ RoomsInv /\ HedgeInv /\ EndInv
  BY <1>1, <1>3, <1>4, IdleFacts, PartFacts DEF AgreesInv, AgreeInv, OversInv,
     OverInv, RoomsInv, RoomInv, HedgeInv, EndInv, Synced, Pair!Ended
<1> QED  BY <1>2, <1>5, <1>6, <1>7 DEF PairInv

LEMMA PairRests ==
  ASSUME PairInv, UNCHANGED pairVars  PROVE PairInv'
<1>1. UNCHANGED <<pair, late, row, suspended, slipped, pairEnabled, pairCall,
                  pairVenue>>
  BY DEF pairVars
<1>2. \A k \in Pair!Leg : Sold(k)' = Sold(k) /\ Booked(k)' = Booked(k)
  BY <1>1, Unmoved
<1>3. (PairTypes /\ RowsInv /\ SubmitInv /\ OneLive /\ SeenInv /\ PlanInv)'
  BY <1>1 DEF PairInv, PairTypes, RowsInv, RowInv, SubmitInv, OneLive, SeenInv,
     PlanInv, Pair!Exists, Pair!IsLive, Pair!Free
<1>4. (FirstInv /\ UnwindInv /\ LegsInv)'
  BY <1>1, <1>2, PartFacts DEF PairInv, FirstInv, UnwindInv, LegsInv, Begun,
     Doomed, Pair!Exists, Pair!IsLive, Pair!Free
<1>5. (AgreesInv /\ OversInv /\ RoomsInv /\ HedgeInv /\ EndInv)'
  BY <1>1, <1>2, PartFacts DEF PairInv, AgreesInv, AgreeInv, OversInv, OverInv,
     RoomsInv, RoomInv, HedgeInv, EndInv, Synced, Pair!Exists, Pair!IsLive,
     Pair!MayTrade
<1> QED  BY <1>3, <1>4, <1>5 DEF PairInv

\* The inductive invariant of a pair holds with any number of lots and of tries
\* to unwind it (pair, advancePair, submit, syncLedger).
THEOREM PairInductive == Spec => []PairInv
<1>1. Init => PairInv
  BY PairInit DEF Init
<1>2. PairInv /\ [Next]_vars => PairInv'
  <2> SUFFICES ASSUME PairInv, [Next]_vars  PROVE PairInv'
    OBVIOUS
  <2>1. CASE PairStep
    BY <2>1, PairNext DEF PairStep
  <2>2. CASE GuardsStep
    BY <2>2, PairRests DEF GuardsStep
  <2>3. CASE UNCHANGED vars
    BY <2>3, PairRests DEF vars
  <2> QED  BY <2>1, <2>2, <2>3 DEF Next
<1> QED  BY <1>1, <1>2, PTL DEF Spec

\* OneOrderAtATime: the exchange works at most one order of a pair at a time,
\* so that each is sized by the outcome of the ones before it (advancePair).
THEOREM OneOrderHolds == Spec => []OneOrderAtATime
<1>1. PairInv => OneOrderAtATime
  <2> SUFFICES ASSUME PairInv  PROVE Pair!OneOrderAtATime
    BY DEF OneOrderAtATime
  <2> DEFINE S == {p \in Pair!Part : Pair!MayTrade(p)}
  <2>1. \A p, q \in S : p = q
    BY DEF PairInv, OneLive, RowsInv, RowInv, Pair!MayTrade
  <2>2. Cardinality(S) <= 1
    <3> HIDE DEF S
    <3>1. CASE S = {}
      BY <3>1, FS_EmptySet
    <3>2. CASE S # {}
      <4>1. PICK x \in S : TRUE
        BY <3>2
      <4>2. S = {x}
        BY <2>1, <4>1
      <4> QED  BY <4>2, FS_Singleton
    <3> QED  BY <3>1, <3>2
  <2> QED  BY <2>2, SameSize DEF Pair!OneOrderAtATime
<1> QED  BY <1>1, PairInductive, PTL

\* NeverReversed: what is traded to unwind a leg is not more than was traded to
\* open it, however its orders end and whatever answers are lost (advancePair).
THEOREM NeverReversedHolds == Spec => []NeverReversed
<1>1. PairInv => NeverReversed
  BY LegSums DEF PairInv, RoomsInv, RoomInv, NeverReversed, Pair!NeverReversed
<1> QED  BY <1>1, PairInductive, PTL

\* EndsHedged: a pair that has ended is hedged or flat at the exchange and has
\* no order left there, unless a fill slipped in between the two questions of a
\* sync (advancePair, syncLedger).
THEOREM EndsHedgedHolds == Spec => []EndsHedged
<1>1. PairInv => EndsHedged
  <2> SUFFICES ASSUME PairInv, ~slipped, pair \in Pair!Ended
               PROVE  Pair!Balanced /\ \A p \in Pair!Part : ~Pair!MayTrade(p)
    BY DEF EndsHedged, Pair!EndsHedged
  <2>1. \A k \in Pair!Leg :
          /\ Pair!Position(k) = pairVenue[Lead(k)].traded - Sold(k)
          /\ Sold(k) \in Nat /\ pairVenue[Lead(k)].traded \in Nat
    BY LegSums, PartFacts, PairConstants DEF PairInv, PairTypes, VenueRow
  <2> QED  BY <2>1, PartFacts DEF PairInv, EndInv, Pair!Balanced
<1> QED  BY <1>1, PairInductive, PTL

=============================================================================
