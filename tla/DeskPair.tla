------------------------------- MODULE DeskPair -------------------------------
(***************************************************************************)
(* A pair of opposing orders on two instruments: pair and advancePair of   *)
(* DeskExecution (src/lib/desk/execution.ts 715-859), with the parts of    *)
(* submit and syncLedger it goes through.                                  *)
(*                                                                         *)
(* The lease lets one call run at a time (DeskLease), so there is one call;*)
(* the exchange, the operator and the deadline move between its steps, and *)
(* it may crash at any of them.  The legs have the same quantity, so the   *)
(* hedge of n lots is n lots.                                              *)
(***************************************************************************)
EXTENDS Naturals, FiniteSets, FiniteSetsExt

CONSTANTS Qty,     \* lots of each leg
          Tries    \* 5 in the code: orders that may be sent to unwind a leg

PairAssumption == Qty \in Nat \ {0} /\ Tries \in Nat \ {0}

Leg == {1, 2}

\* The orders of a pair, by what their keys are built from: <<k, 0>> opens leg
\* k, <<k, n>> is the n-th order that unwinds it.
Part == Leg \X (0 .. Tries)
First == <<1, 0>>
Second == <<2, 0>>
Unwinds(k) == {k} \X (1 .. Tries)
NoPart == <<0, 0>>

VARIABLES
  pair,      \* DeskPair.state
  late,      \* the deadline is over or the book has another version
  enabled,   \* book.enabled; every change of it is a new version
  row,       \* the DeskIntent of each part
  suspended, \* DeskInventory.suspended of each leg's instrument
  call,      \* the call that holds the lease, and what it has read
  venue,     \* what the exchange knows of each order
  slipped    \* history: a sync asked an order's status after a trade that
             \* came too late for the fills it had asked for

rows == <<pair, row, suspended>>
vars == <<rows, late, enabled, call, venue, slipped>>

-----------------------------------------------------------------------------

Live == {"submitting", "unknown", "working", "settling", "blocked"}
Over == {"terminal", "rejected", "filled"}
Active == {"first", "hedging", "unwind"}
Ended == {"expired", "no_fill", "complete", "unwound"}

NoRow == [state |-> "none", qty |-> 0, filled |-> 0]
Idle == [at |-> "idle", part |-> NoPart, qty |-> 0, expired |-> FALSE,
         enabled |-> FALSE, seen |-> [p \in Part |-> 0]]

\* After a crash: as good as idle, the next call may start.
Dead == [Idle EXCEPT !.at = "dead"]
Free == call.at \in {"idle", "dead"}

Exists(p) == row[p].state # "none"
IsLive(p) == row[p].state \in Live
Prior(k) == {p \in Unwinds(k) : Exists(p)}

Filled(S) == MapThenSumSet(LAMBDA p : row[p].filled, S)
Traded(S) == MapThenSumSet(LAMBDA p : venue[p].traded, S)

\* What the ledger holds of a leg and what the account does.
Inventory(k) == Filled({<<k, 0>>}) - Filled(Unwinds(k))
Position(k) == Traded({<<k, 0>>}) - Traded(Unwinds(k))

Init ==
  /\ pair = "none"
  /\ late = FALSE
  /\ enabled = TRUE
  /\ row = [p \in Part |-> NoRow]
  /\ suspended = [k \in Leg |-> FALSE]
  /\ call = Idle
  /\ venue = [p \in Part |-> [status |-> "none", traded |-> 0]]
  /\ slipped = FALSE

\* The call returns, or waits for the next tick, with the pair in state s.
Set(s) == pair' = s /\ call' = Idle

-----------------------------------------------------------------------------
(* syncLedger: fills first, then the statuses, the account last *)

Fetch ==
  /\ call.at = "fetch"
  /\ call' = [call EXCEPT !.at = "status",
                          !.seen = [p \in Part |-> venue[p].traded]]
  /\ UNCHANGED <<rows, late, enabled, venue, slipped>>

\* The state a live row takes from the answer of the exchange.
StateOf(p) ==
  CASE venue[p].status = "open" -> "working"
    [] venue[p].status = "filled" -> "settling"
    [] venue[p].status = "canceled" -> "terminal"
    [] OTHER -> row[p].state

ReadStatus ==
  /\ call.at = "status"
  /\ row' = [p \in Part |->
       IF IsLive(p) THEN [row[p] EXCEPT !.state = StateOf(p)] ELSE row[p]]
  /\ slipped' = (slipped \/ \E p \in Part :
                              /\ IsLive(p) /\ StateOf(p) = "terminal"
                              /\ call.seen[p] # venue[p].traded)
  /\ call' = [call EXCEPT !.at = "account"]
  /\ UNCHANGED <<pair, suspended, late, enabled, venue>>

\* The fills are booked, orders all of whose fills are in are settled, and the
\* inventory is compared with the account.
Import ==
  LET filledRow(p) == [row[p] EXCEPT !.filled = call.seen[p]]
      settled(p) == row[p].state = "settling" /\ call.seen[p] >= row[p].qty
  IN
  /\ call.at = "account"
  /\ row' = [p \in Part |->
       IF settled(p) THEN [filledRow(p) EXCEPT !.state = "filled"]
         ELSE filledRow(p)]
  /\ suspended' = [k \in Leg |->
       suspended[k] \/ (Inventory(k)' # 0 /\ Inventory(k)' # Position(k))]
  /\ call' = [call EXCEPT !.seen = Idle.seen,
                          !.at = IF call.part = NoPart THEN "advance"
                                   ELSE "synced"]
  /\ UNCHANGED <<pair, late, enabled, venue, slipped>>

-----------------------------------------------------------------------------
(* submit, of which DeskIntents has the rest *)

\* A part with a row is never sent again: submit returns the row.
Send(p, n) ==
  /\ ~Exists(p)
  /\ call' = [call EXCEPT !.at = "fetch", !.part = p, !.qty = n]

Drafted == call.part # NoPart /\ Exists(call.part)

\* The risk check: an undisputed inventory and no unsettled order on the
\* instrument; the mandate's limits may refuse besides (FailSubmit).
Acceptable(p) ==
  /\ ~suspended[p[1]]
  /\ \A q \in Part \ {p} : q[1] = p[1] => ~IsLive(q)

Draft(p) ==
  /\ call.at = "synced" /\ call.part = p
  /\ ~Exists(p)
  /\ Acceptable(p)
  /\ row' = [row EXCEPT ![p] =
               [state |-> "submitting", qty |-> call.qty, filled |-> 0]]
  /\ call' = [call EXCEPT !.at = "fetch"]
  /\ UNCHANGED <<pair, suspended, late, enabled, venue, slipped>>

\* submit throws before there is a row.  For the second leg this is the end of
\* hedging; otherwise the exception ends the tick.
FailSubmit ==
  /\ call.part # NoPart
  /\ ~Drafted
  /\ pair' = IF call.part = Second THEN "unwind" ELSE pair
  /\ call' = Idle
  /\ UNCHANGED <<row, suspended, late, enabled, venue, slipped>>

\* The last look at the book and, for a leg, at the deadline of the pair.
InTime(p) == enabled /\ (p \in {First, Second} => ~late)

\* submit returns its row to advancePair, which goes on with it.
Return(p) == IF p \in {First, Second}
               THEN /\ call' = [call EXCEPT !.at = "advance", !.part = NoPart]
                    /\ UNCHANGED pair
               ELSE Set("unwind")

Dispatch(p) ==
  /\ call.at = "synced" /\ call.part = p
  /\ Exists(p)
  /\ Acceptable(p) /\ InTime(p)
  /\ venue' = [venue EXCEPT ![p].status = "flight"]
  /\ call' = [call EXCEPT !.at = "ack"]
  /\ UNCHANGED <<rows, late, enabled, slipped>>

\* Nothing was sent: a check fails, or authorize, or the signer.
Reject(p) ==
  /\ Drafted /\ call.part = p /\ call.at # "ack"
  /\ row' = [row EXCEPT ![p].state = "rejected"]
  /\ Return(p)
  /\ UNCHANGED <<suspended, late, enabled, venue, slipped>>

Acknowledge(p) ==
  /\ call.at = "ack" /\ call.part = p
  /\ venue[p].status # "flight"
  /\ row' = [row EXCEPT ![p].state =
       CASE venue[p].status = "refused" -> "rejected"
         [] venue[p].status = "open" /\ venue[p].traded = 0 -> "working"
         [] OTHER -> "settling"]
  /\ Return(p)
  /\ UNCHANGED <<suspended, late, enabled, venue, slipped>>

Uncertain(p) == [row EXCEPT ![p].state = "unknown"]

LoseAnswer(p) ==
  /\ call.at = "ack" /\ call.part = p
  /\ row' = Uncertain(p)
  /\ Return(p)
  /\ UNCHANGED <<suspended, late, enabled, venue, slipped>>

-----------------------------------------------------------------------------
(* pair and advancePair *)

\* The legs are checked, the row is written, and the pair advances at once.
Open ==
  /\ pair = "none"
  /\ Free /\ enabled
  /\ pair' = "first"
  /\ call' = [Idle EXCEPT !.at = "advance", !.enabled = TRUE]
  /\ UNCHANGED <<row, suspended, late, enabled, venue, slipped>>

\* The execution loop takes every pair that has not ended; what it knows of
\* the book is from here.
TickPair ==
  /\ Free
  /\ pair \in Active
  /\ call' = [Idle EXCEPT !.at = "fetch", !.expired = late,
                          !.enabled = enabled]
  /\ UNCHANGED <<rows, late, enabled, venue, slipped>>

At == call.at = "advance"

\* A working order is cancelled before the state is set; a cancellation that
\* is not confirmed ends the tick with the pair as it was.
Working == {p \in {First, Second} : row[p].state = "working"}
CancelThenSet(S, s) ==
  LET canceled == [p \in Part |->
        IF p \in S /\ venue[p].status = "open"
          THEN [venue[p] EXCEPT !.status = "canceled"] ELSE venue[p]]
  IN  \/ venue' = canceled /\ Set(s)
      \/ S # {} /\ venue' \in {venue, canceled} /\ Set(pair)

SubmitFirst ==
  /\ At /\ ~Exists(First)
  /\ IF call.expired \/ ~call.enabled
       THEN Set("expired")
       ELSE Send(First, Qty) /\ UNCHANGED pair
  /\ UNCHANGED <<row, suspended, late, enabled, venue, slipped>>

\* The first leg has no fill: it ends so, or is waited for, or withdrawn.
AwaitFirst ==
  /\ At /\ Exists(First) /\ row[First].filled = 0
  /\ IF row[First].state \in Over
       THEN Set("no_fill") /\ UNCHANGED venue
       ELSE CancelThenSet(IF call.expired THEN Working \cap {First} ELSE {},
                          "first")
  /\ UNCHANGED <<row, suspended, late, enabled, slipped>>

Opened == At /\ Exists(First) /\ row[First].filled > 0
InPlan == ~call.expired /\ call.enabled /\ pair # "unwind"

\* Variant: the hedge is sent while the first leg is still being filled.
AsSoonAsFilled == InPlan /\ ~Exists(Second)

MayHedge ==
  /\ InPlan /\ ~Exists(Second)
  /\ row[First].state \in {"terminal", "filled"}

\* The second leg hedges what the first has filled.
SubmitSecond ==
  /\ Opened /\ MayHedge
  /\ Send(Second, row[First].filled)
  /\ UNCHANGED <<rows, late, enabled, venue, slipped>>

\* Variant: a second leg that is over is as good as filled.
SecondOver == row[Second].state \in {"filled", "terminal"}

Hedged ==
  /\ row[Second].state \in {"filled", "terminal"}
  /\ row[Second].filled = row[Second].qty

Complete ==
  /\ Opened /\ ~MayHedge
  /\ Hedged
  /\ Set("complete")
  /\ UNCHANGED <<row, suspended, late, enabled, venue, slipped>>

\* While the plan stands and the second leg may still fill, it is waited for.
Waiting == InPlan /\ row[Second].state \notin {"rejected", "terminal"}

Hedge ==
  /\ Opened /\ ~MayHedge /\ ~Hedged
  /\ Waiting
  /\ Set("hedging")
  /\ UNCHANGED <<row, suspended, late, enabled, venue, slipped>>

Unwinding == Opened /\ ~MayHedge /\ ~Hedged /\ ~Waiting

\* Neither leg is unwound while one of them may still fill.
SettleLegs ==
  /\ Unwinding
  /\ IsLive(First) \/ IsLive(Second)
  /\ CancelThenSet(Working, "unwind")
  /\ UNCHANGED <<row, suspended, late, enabled, slipped>>

\* Variant: earlier unwinding orders are not waited for.
NotWaited(k) == FALSE

\* Variant: an order that the operator released is waited for.
NotOver(k) == \E p \in Prior(k) : row[p].state \notin Over

Pending(k) == \E p \in Prior(k) : IsLive(p)

\* The legs are looked at in order; the first with something left decides.
Left(k) == row[<<k, 0>>].filled > 0 /\ (Pending(k) \/ Inventory(k) > 0)
Next_(k) == <<k, Cardinality(Prior(k)) + 1>>

UnwindLeg(k) ==
  /\ Unwinding /\ ~IsLive(First) /\ ~IsLive(Second)
  /\ Left(k) /\ \A j \in Leg : j < k => ~Left(j)
  /\ CASE Pending(k) -> Set("unwind")
       [] ~Pending(k) /\ suspended[k] -> Set("intervention")
       [] ~Pending(k) /\ ~suspended[k] /\ ~call.enabled -> Set("unwind")
       [] ~Pending(k) /\ ~suspended[k] /\ call.enabled ->
            IF Cardinality(Prior(k)) >= Tries
              THEN Set("intervention")
              ELSE Send(Next_(k), Inventory(k)) /\ UNCHANGED pair
  /\ UNCHANGED <<row, suspended, late, enabled, venue, slipped>>

Unwound ==
  /\ Unwinding /\ ~IsLive(First) /\ ~IsLive(Second)
  /\ \A k \in Leg : ~Left(k)
  /\ Set("unwound")
  /\ UNCHANGED <<row, suspended, late, enabled, venue, slipped>>

-----------------------------------------------------------------------------
(* The operator, the clock, crashes; once the pair has ended nothing reads *)
(* what they change.                                                       *)

\* The deadline passes, or the mandate changes.
Expire ==
  /\ ~late /\ pair \in Active
  /\ late' = TRUE
  /\ UNCHANGED <<rows, enabled, call, venue, slipped>>

Toggle ==
  /\ pair \in Active
  /\ enabled' = ~enabled
  /\ late' = TRUE
  /\ UNCHANGED <<rows, call, venue, slipped>>

\* The operator trades on an instrument the desk holds (execution-ledger 145).
Collide(k) ==
  /\ Free /\ pair \in Active
  /\ Inventory(k) # 0 /\ ~suspended[k]
  /\ suspended' = [suspended EXCEPT ![k] = TRUE]
  /\ UNCHANGED <<pair, row, late, enabled, call, venue, slipped>>

\* abandon: the order is 120 s old, so none is under way any more, and the
\* exchange has no record of it.
Abandon(p) ==
  /\ Free
  /\ row[p].state \in {"submitting", "unknown"}
  /\ venue[p].status \in {"none", "refused"}
  /\ row' = [row EXCEPT ![p].state = "abandoned"]
  /\ UNCHANGED <<pair, suspended, late, enabled, call, venue, slipped>>

Crash ==
  /\ ~Free
  /\ call' = Dead
  /\ UNCHANGED <<rows, late, enabled, venue, slipped>>

-----------------------------------------------------------------------------
(* The exchange.  These orders do not rest ("Ioc"); the code does not rely *)
(* on it, and here they may.                                               *)

Trade(p, lots, status) ==
  /\ venue' = [venue EXCEPT ![p] =
                 [status |-> status, traded |-> @.traded + lots]]
  /\ UNCHANGED <<rows, late, enabled, call, slipped>>

Rest(p) == row[p].qty - venue[p].traded

\* An order that arrives or is open trades, rests or is cancelled.
Match(p) ==
  /\ venue[p].status \in {"flight", "open"}
  /\ \E lots \in 0 .. Rest(p) :
       IF lots = Rest(p) THEN Trade(p, lots, "filled")
         ELSE \E s \in {"open", "canceled"} : Trade(p, lots, s)

Refuse(p) == venue[p].status = "flight" /\ Trade(p, 0, "refused")

-----------------------------------------------------------------------------

Progress ==
  \/ Fetch \/ ReadStatus \/ Import
  \/ \E p \in Part : Draft(p) \/ Dispatch(p) \/ Reject(p)
                     \/ Acknowledge(p) \/ LoseAnswer(p)
  \/ FailSubmit
  \/ SubmitFirst \/ AwaitFirst \/ SubmitSecond \/ Complete \/ Hedge
  \/ SettleLegs \/ Unwound
  \/ \E k \in Leg : UnwindLeg(k)

Next ==
  \/ Open \/ TickPair \/ Progress \/ Expire \/ Toggle \/ Crash
  \/ \E k \in Leg : Collide(k)
  \/ \E p \in Part : Abandon(p) \/ Match(p) \/ Refuse(p)

Spec == Init /\ [][Next]_vars

\* The worker ticks every 5 s; a call ends by its timeouts at the latest; the
\* exchange decides on what it receives, or the deadline passes.
Decide(p) == Match(p) /\ venue'[p].status # "open"
Outside == Expire \/ \E p \in Part : Decide(p)
FairSpec == Spec /\ WF_vars(Progress) /\ SF_vars(TickPair) /\ WF_vars(Outside)

-----------------------------------------------------------------------------
(* Properties *)

\* Types, and rows that do not count more than the exchange traded.
TypeOK ==
  /\ pair \in Active \cup Ended \cup {"none", "intervention"}
  /\ {late, enabled, slipped} \subseteq BOOLEAN
  /\ \A p \in Part :
       /\ row[p].state \in Live \cup Over \cup {"none", "abandoned"}
       /\ {row[p].qty, venue[p].traded} \subseteq 0 .. Qty
       /\ row[p].filled <= venue[p].traded
  /\ suspended \in [Leg -> BOOLEAN]
  /\ call.part \in Part \cup {NoPart}

MayTrade(p) == venue[p].status \in {"flight", "open"}

\* At any time the exchange works at most one order of a pair, so that each
\* order is sized by the final outcome of the ones before it.
OneOrderAtATime == Cardinality({p \in Part : MayTrade(p)}) <= 1

\* Unwinding never turns a leg round, however its orders end and whatever
\* answers are lost.
NeverReversed ==
  \A k \in Leg : Traded(Unwinds(k)) <= Traded({<<k, 0>>})

Balanced ==
  /\ pair \in {"no_fill", "expired", "unwound"} =>
       \A k \in Leg : Position(k) = 0
  /\ pair = "complete" => Position(1) = Position(2)

\* A pair that has ended is hedged or flat at the exchange and has no order
\* left there, unless a fill slipped in between the two questions of a sync.
EndsHedged ==
  ~slipped /\ pair \in Ended => Balanced /\ \A p \in Part : ~MayTrade(p)

CrashesEnd == <>[][~Crash]_vars
SubmitsSucceed == <>[][~FailSubmit]_vars
StaysEnabled == <>[]enabled
FatesAreKnown == \A p \in Part : []<>(row[p].state \notin {"submitting",
                                                           "unknown"})

\* A pair is brought to an end, or to the operator's attention, once crashes
\* and refusals end, orders of unknown fate are resolved and the book is
\* enabled; except that it waits for ever for a first leg that the operator
\* released.
PairEnds ==
  CrashesEnd /\ SubmitsSucceed /\ StaysEnabled /\ FatesAreKnown =>
    (pair = "first" ~> \/ pair \in Ended \cup {"intervention"}
                       \/ row[First].state = "abandoned")
=============================================================================
