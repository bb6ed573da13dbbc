---------------------------- MODULE DeskIntents ----------------------------
(***************************************************************************)
(* The orders of one autonomous book and its ledger: submit, abandon and   *)
(* adopt of DeskExecution (src/lib/desk/execution.ts) and syncLedger       *)
(* (src/lib/desk/execution-ledger.ts), against an exchange that accepts,   *)
(* fills and cancels on its own and answers when it likes.                 *)
(*                                                                         *)
(* The lease (DeskLease) lets one call run at a time, so the model has one *)
(* call; what it does between two awaits is one step, and the exchange,    *)
(* the operator and the clock move between the steps.  A call may crash at *)
(* any of them, and the next call may then start at once.                  *)
(*                                                                         *)
(* One instrument; every order buys Size lots.  Orders that reduce a       *)
(* position reserve nothing and are not modelled (README).                 *)
(***************************************************************************)
EXTENDS Integers, Sequences, FiniteSets, FiniteSetsExt

CONSTANTS Key,         \* intent keys; the cloid is a function of the key
          Operator,    \* who owns the fills that no order of ours explains
          Quoting,     \* book.kind = "quoting"
          Size,        \* lots of an order
          Cap,         \* gross exposure the mandate allows, in lots
          Window,      \* 8 s in the code: expiresAfter - time of signing
          AbandonAge,  \* 120 s in the code: when an operator may release
          Patience,    \* how long a call takes from its draft to its POST
          MaxTime,     \* bound on the clock
          MaxManual    \* bound on the operator's own trades

ASSUME IntentAssumption ==
  /\ Operator \notin Key
  /\ IsFiniteSet(Key)
  /\ Quoting \in BOOLEAN
  /\ Size \in Nat \ {0}
  /\ {Cap, Window, AbandonAge, Patience, MaxTime, MaxManual} \subseteq Nat

\* Nothing in the code bounds the time between the draft and the POST; a
\* release is safe as long as it is short of 112 s.
ASSUME PatienceAssumption == Patience + Window < AbandonAge

VARIABLES
  now,       \* the clock
  \* The database of the desk:
  intent,    \* the DeskIntent rows, "none" where there is no row
  flows,     \* the fills that have a DeskCashFlow row, as indices of fills
  inv,       \* the DeskInventory row of the instrument
  lastSync,  \* how many fills there were at DeskExecutionState.lastSync
  \* The call that holds the lease:
  call,
  \* The exchange:
  order,     \* what it knows of each cloid
  fills,     \* userFillsByTime, in order of time
  pos,       \* the position of the account
  \* History, read by no action:
  posted     \* how often each key's order was POSTed

db == <<intent, flows, inv, lastSync>>
exchange == <<order, fills, pos>>
vars == <<now, db, call, exchange, posted>>

-----------------------------------------------------------------------------

Live == {"submitting", "unknown", "working", "settling", "blocked"}
Final == {"rejected", "terminal", "filled", "abandoned"}

\* An order at the exchange: not seen, under way, resting, or over; "refused"
\* is an order it answered with an error and keeps no record of.
Statuses == {"none", "flight", "open", "filled", "canceled", "refused"}

NoIntent == [state |-> "none", reserved |-> 0, filled |-> 0, createdAt |-> 0]
NoOrder == [status |-> "none", traded |-> 0, expiresAfter |-> 0]

\* Between calls; a call keeps what it has read in the other fields.
Idle == [task |-> "none", key |-> Operator, at |-> "start", left |-> {},
         next |-> 1, upTo |-> 0, account |-> 0]

\* After a crash: as good as idle, the next call may start.
Dead == [Idle EXCEPT !.at = "dead"]
Free == call.task = "none"

Start(task, k) == [Idle EXCEPT !.task = task, !.key = k, !.at = "fetch"]

\* Number of lots in the fills with an index in ns.
Lots(ns) == MapThenSumSet(LAMBDA n : fills[n].lots, ns)

Init ==
  /\ now = 0
  /\ intent = [k \in Key |-> NoIntent]
  /\ flows = {}
  /\ inv = [exists |-> FALSE, quantity |-> 0, suspended |-> FALSE, since |-> 0]
  /\ lastSync = 0
  /\ call = Idle
  /\ order = [k \in Key |-> NoOrder]
  /\ fills = <<>>
  /\ pos = 0
  /\ posted = [k \in Key |-> 0]

-----------------------------------------------------------------------------
(* syncLedger *)

\* The time range reaches back 120 s behind the last sync, so fills that were
\* handled before may be seen again; none after it is missed.
Fetch(from) ==
  /\ call.at = "fetch"
  /\ from \in 1 .. lastSync + 1
  /\ call' = [call EXCEPT !.at = "status", !.next = from,
                          !.upTo = Len(fills),
                          !.left = {k \in Key : intent[k].state \in Live}]
  /\ UNCHANGED <<now, db, exchange, posted>>

\* venue.status: null for an order the exchange has no record of.
Recorded(k) == order[k].status \in {"open", "filled", "canceled"}

\* One order after the other is asked for.  One the exchange has no record
\* of keeps its state and its reservation.
ReadStatus(k) ==
  /\ call.at = "status"
  /\ k \in call.left
  /\ call' = [call EXCEPT !.left = @ \ {k}]
  /\ intent' =
       CASE ~Recorded(k) -> intent
         [] order[k].status = "open" ->
              [intent EXCEPT ![k].state = "working"]
         [] order[k].status = "filled" ->
              [intent EXCEPT ![k].state = "settling"]
         [] order[k].status = "canceled" ->
              [intent EXCEPT ![k].state = "terminal", ![k].reserved = 0]
  /\ UNCHANGED <<now, flows, inv, lastSync, exchange, posted>>

\* venue.account, after the statuses.
ReadAccount ==
  /\ call.at = "status"
  /\ call.left = {}
  /\ call' = [call EXCEPT !.at = "import", !.account = pos]
  /\ UNCHANGED <<now, db, exchange, posted>>

\* Variant: a fill is booked without looking for its cash flow first.
NotDeduplicated(n) == TRUE

\* No DeskCashFlow row has this fill's venueKey.
Unbooked(n) == n \notin flows

\* A fill before the inventory row's "since" belongs to a former owner.
BeforeOurs(n) == inv.exists /\ n < inv.since

\* The transaction of one fill: skipped, flagged as a collision with the
\* operator, or booked on the order that the fill or its cloid names.
Import ==
  LET n == call.next
      k == fills[n].key
      q == inv.quantity + fills[n].lots
  IN
  /\ call.at = "import"
  /\ n <= call.upTo
  /\ call' = [call EXCEPT !.next = n + 1]
  /\ CASE ~Unbooked(n) \/ BeforeOurs(n) ->
            UNCHANGED <<intent, flows, inv>>
       [] Unbooked(n) /\ ~BeforeOurs(n) /\ k \notin Key ->
            /\ inv' = IF inv.quantity # 0
                        THEN [inv EXCEPT !.suspended = TRUE] ELSE inv
            /\ UNCHANGED <<intent, flows>>
       [] Unbooked(n) /\ ~BeforeOurs(n) /\ k \in Key ->
            /\ flows' = flows \cup {n}
            /\ inv' = IF inv.exists THEN [inv EXCEPT !.quantity = q]
                        ELSE [exists |-> TRUE, quantity |-> q,
                              suspended |-> FALSE, since |-> n]
            /\ intent' = [intent EXCEPT ![k].filled = @ + fills[n].lots]
  /\ UNCHANGED <<now, lastSync, exchange, posted>>

\* Variant: a full order is waited on for more.
FilledBeyond(k) == intent[k].filled > Size

FilledUp(k) == intent[k].filled >= Size

\* One updateMany settles the orders all of whose fills are in.
Settle ==
  /\ call.at = "import"
  /\ call.next > call.upTo
  /\ call' = [call EXCEPT !.at = "compare"]
  /\ intent' = [k \in Key |->
       IF intent[k].state = "settling" /\ FilledUp(k)
         THEN [intent[k] EXCEPT !.state = "filled", !.reserved = 0]
         ELSE intent[k]]
  /\ UNCHANGED <<now, flows, inv, lastSync, exchange, posted>>

\* Variant: a difference is left to the next look at the exchange.
NeverDiffers == FALSE

\* "Exchange inventory differs from desk ledger"; an instrument that the desk
\* holds nothing of is not compared.
Differs == inv.quantity # 0 /\ call.account # inv.quantity

\* The inventory is compared with the account and the sync is dated to its
\* beginning.  A reconcile or tick is over; other calls use what was read.
Compare ==
  /\ call.at = "compare"
  /\ inv' = [inv EXCEPT !.suspended = @ \/ Differs]
  /\ lastSync' = call.upTo
  /\ call' = IF call.task = "reconcile" THEN Idle
               ELSE [call EXCEPT !.at = "synced"]
  /\ UNCHANGED <<now, intent, flows, exchange, posted>>

Reconcile ==
  /\ Free
  /\ call' = Start("reconcile", Operator)
  /\ UNCHANGED <<now, db, exchange, posted>>

-----------------------------------------------------------------------------
(* submit *)

\* Variant: a key whose fate is unknown is submitted again.
KnownFate(k) == intent[k].state \notin {"none", "unknown"}

Known(k) == intent[k].state # "none"

\* A key that has a row returns the row, whatever became of the order.
Submit(k) ==
  /\ Free
  /\ ~Known(k)
  /\ call' = Start("submit", k)
  /\ UNCHANGED <<now, db, exchange, posted>>

\* Variant: orders of unknown fate do not count.
CertainOnly(k) == {j \in Key \ {k} : intent[j].state \in Live \ {"unknown"}}

\* The other orders that hold a reservation when the order of k is assessed.
Unsettled(k) == {j \in Key \ {k} : intent[j].state \in Live}
Reserved(k) == MapThenSumSet(LAMBDA j : intent[j].reserved, Unsettled(k))

\* prepare and assessDeskOrder: the ledger is undisputed and equal to the
\* account; a directional book has no other order on the instrument; and
\* reservations, position and the order together stay under the cap.
Acceptable(k) ==
  /\ ~inv.suspended
  /\ call.account = inv.quantity
  /\ Quoting \/ Unsettled(k) = {}
  /\ Reserved(k) + call.account + Size <= Cap

Drafted == call.task = "submit" /\ intent[call.key].state = "submitting"

\* The row, with its reservation, is written before anything is signed; then
\* everything is read and checked once more.
Draft(k) ==
  /\ call.task = "submit" /\ call.key = k /\ call.at = "synced"
  /\ ~Drafted
  /\ IF Acceptable(k)
       THEN /\ intent' = [intent EXCEPT ![k] =
                 [state |-> "submitting", reserved |-> Size, filled |-> 0,
                  createdAt |-> now]]
            /\ call' = [call EXCEPT !.at = "fetch"]
       ELSE /\ call' = Idle
            /\ UNCHANGED intent
  /\ UNCHANGED <<now, flows, inv, lastSync, exchange, posted>>

\* Nothing was sent: the reservation is released with the answer.
Reject(k) ==
  /\ intent' = [intent EXCEPT ![k].state = "rejected", ![k].reserved = 0]
  /\ call' = Idle

\* The POST.  Signing falls into this step: expiresAfter counts from it.
Dispatch(k) ==
  /\ call.task = "submit" /\ call.key = k /\ call.at = "synced"
  /\ Drafted
  /\ IF Acceptable(k)
       THEN /\ order' = [order EXCEPT ![k] =
                 [status |-> "flight", traded |-> 0,
                  expiresAfter |-> now + Window]]
            /\ posted' = [posted EXCEPT ![k] = @ + 1]
            /\ call' = [call EXCEPT !.at = "ack"]
            /\ UNCHANGED intent
       ELSE /\ Reject(k)
            /\ UNCHANGED <<order, posted>>
  /\ UNCHANGED <<now, flows, inv, lastSync, fills, pos>>

\* An exception before the POST: authorize, a venue read or the signer.
FailBeforeDispatch(k) ==
  /\ Drafted /\ call.key = k
  /\ call.at # "ack"
  /\ Reject(k)
  /\ UNCHANGED <<now, flows, inv, lastSync, exchange, posted>>

\* The answer arrives.  An error on an attached stop or target, which only
\* directional orders have, makes the intent "blocked" whatever the answer to
\* the order itself.
Acknowledge(k, childError) ==
  /\ Drafted /\ call.key = k
  /\ call.at = "ack"
  /\ order[k].status # "flight"
  /\ childError => ~Quoting
  /\ intent' =
       CASE childError ->
              [intent EXCEPT ![k].state = "blocked"]
         [] ~childError /\ order[k].status = "refused" ->
              [intent EXCEPT ![k].state = "rejected", ![k].reserved = 0]
         [] ~childError /\ order[k].status # "refused" ->
              [intent EXCEPT ![k].state =
                                IF Quoting THEN "working" ELSE "settling"]
  /\ call' = Idle
  /\ UNCHANGED <<now, flows, inv, lastSync, exchange, posted>>

\* Variant: any error of a submission is taken for a rejection.
AfterError(k) == [intent EXCEPT ![k].state = "rejected", ![k].reserved = 0]

\* An error after the POST says nothing of the order.
Uncertain(k) == [intent EXCEPT ![k].state = "unknown"]

LoseAnswer(k) ==
  /\ Drafted /\ call.key = k
  /\ call.at = "ack"
  /\ intent' = Uncertain(k)
  /\ call' = Idle
  /\ UNCHANGED <<now, flows, inv, lastSync, exchange, posted>>

-----------------------------------------------------------------------------
(* abandon and adopt *)

\* Variant: any submission of unknown fate may be released.
AnyAge(k) == TRUE

OldEnough(k) == intent[k].createdAt + AbandonAge <= now

Abandon(k) ==
  /\ Free
  /\ intent[k].state \in {"submitting", "unknown"}
  /\ OldEnough(k)
  /\ call' = Start("abandon", k)
  /\ UNCHANGED <<now, db, exchange, posted>>

\* After the sync the exchange is asked once more, and the inventory must be
\* undisputed ("Venue has evidence of this order").
Verify(k) ==
  /\ call.task = "abandon" /\ call.key = k /\ call.at = "synced"
  /\ IF \/ Recorded(k) \/ intent[k].filled > 0
        \/ inv.suspended \/ inv.quantity # call.account
       THEN call' = Idle
       ELSE call' = [call EXCEPT !.at = "release"]
  /\ UNCHANGED <<now, db, exchange, posted>>

ReleaseReservation(k) ==
  /\ call.task = "abandon" /\ call.key = k /\ call.at = "release"
  /\ intent' = [intent EXCEPT ![k].state = "abandoned", ![k].reserved = 0]
  /\ call' = Idle
  /\ UNCHANGED <<now, flows, inv, lastSync, exchange, posted>>

AskHandover ==
  /\ Free
  /\ call' = Start("adopt", Operator)
  /\ UNCHANGED <<now, db, exchange, posted>>

\* The operator hands the position over: the ledger takes the quantity the
\* account showed, as of now.
Adopt ==
  /\ call.task = "adopt" /\ call.at = "synced"
  /\ inv' = IF \E k \in Key : intent[k].state \in Live THEN inv
              ELSE [exists |-> TRUE, quantity |-> call.account,
                    suspended |-> FALSE, since |-> Len(fills) + 1]
  /\ call' = Idle
  /\ UNCHANGED <<now, intent, flows, lastSync, exchange, posted>>

\* The process dies, or the call throws and has nothing to undo.
Crash ==
  /\ ~Free
  /\ call' = Dead
  /\ UNCHANGED <<now, db, exchange, posted>>

-----------------------------------------------------------------------------
(* The exchange, the operator and the clock *)

Trade(k, lots, status) ==
  /\ order' = [order EXCEPT ![k] =
       [status |-> status, traded |-> @.traded + lots, expiresAfter |-> 0]]
  /\ fills' = IF lots = 0 THEN fills
                ELSE Append(fills, [key |-> k, lots |-> lots])
  /\ pos' = pos + lots
  /\ UNCHANGED <<now, db, call, posted>>

\* A quote ("Alo") rests; any other order ("Ioc") takes what there is and the
\* rest of it is canceled.
Arrive(k) ==
  /\ order[k].status = "flight"
  /\ now <= order[k].expiresAfter
  /\ IF Quoting THEN Trade(k, 0, "open")
       ELSE \E lots \in 1 .. Size :
              Trade(k, lots, IF lots = Size THEN "filled" ELSE "canceled")

\* It would cross the spread, or matches nothing, or came too late.
Refuse(k) ==
  /\ order[k].status = "flight"
  /\ Trade(k, 0, "refused")

Fill(k, lots) ==
  /\ order[k].status = "open"
  /\ lots \in 1 .. Size - order[k].traded
  /\ Trade(k, lots, IF order[k].traded + lots = Size THEN "filled" ELSE "open")

\* cancelByCloid of DeskExecution.cancel, the scheduled cancellation, or the
\* exchange's own.  The desk changes no state until it reads the status.
Cancel(k) ==
  /\ order[k].status = "open"
  /\ Trade(k, 0, "canceled")

\* The operator trades the same account by hand.
ManualTrade(lots) ==
  /\ Cardinality({n \in DOMAIN fills : fills[n].key = Operator}) < MaxManual
  /\ pos + lots >= 0
  /\ fills' = Append(fills, [key |-> Operator, lots |-> lots])
  /\ pos' = pos + lots
  /\ UNCHANGED <<now, db, call, order, posted>>

\* A call does not take longer than Patience from its draft to its POST.
Tick ==
  /\ now < MaxTime
  /\ Drafted /\ call.at # "ack" => now < intent[call.key].createdAt + Patience
  /\ now' = now + 1
  /\ UNCHANGED <<db, call, exchange, posted>>

\* What a call does once it has started.
Progress ==
  \/ \E from \in 1 .. lastSync + 1 : Fetch(from)
  \/ \E k \in Key : ReadStatus(k)
  \/ ReadAccount \/ Import \/ Settle \/ Compare
  \/ \E k \in Key :
       \/ Draft(k) \/ Dispatch(k) \/ FailBeforeDispatch(k)
       \/ \E childError \in BOOLEAN : Acknowledge(k, childError)
       \/ LoseAnswer(k) \/ Verify(k) \/ ReleaseReservation(k)
  \/ Adopt

Next ==
  \/ Reconcile \/ AskHandover \/ Crash \/ Tick \/ Progress
  \/ \E k \in Key :
       \/ Submit(k) \/ Abandon(k) \/ Arrive(k) \/ Refuse(k) \/ Cancel(k)
       \/ \E lots \in 1 .. Size : Fill(k, lots)
  \/ \E lots \in {-1, 1} : ManualTrade(lots)

Spec == Init /\ [][Next]_vars

\* The worker's loop ticks every 5 s and tries again when the lease is busy;
\* every call ends, by its timeouts at the latest.
FairSpec == Spec /\ WF_vars(Progress) /\ SF_vars(Reconcile)

-----------------------------------------------------------------------------
(* Properties *)

Tasks == {"none", "submit", "reconcile", "abandon", "adopt"}
Points == {"start", "dead", "fetch", "status", "import", "compare", "synced",
           "ack", "release"}

\* Types and ranges: what the ledger has counted was traded, and neither a
\* reservation nor a position goes below zero or above its order.
TypeOK ==
  /\ now \in 0 .. MaxTime
  /\ intent \in [Key -> [state : Live \cup Final \cup {"none"},
                        reserved : {0, Size}, filled : 0 .. Size,
                        createdAt : 0 .. MaxTime]]
  /\ flows \subseteq DOMAIN fills
  /\ inv \in [exists : BOOLEAN, quantity : Int, suspended : BOOLEAN,
              since : Nat]
  /\ lastSync \in 0 .. Len(fills)
  /\ call \in [task : Tasks, key : Key \cup {Operator}, at : Points,
               left : SUBSET Key, next : Nat, upTo : 0 .. Len(fills),
               account : Nat]
  /\ order \in [Key -> [status : Statuses, traded : 0 .. Size,
                       expiresAfter : Nat]]
  /\ fills \in Seq([key : Key \cup {Operator}, lots : Int])
  /\ pos \in Nat
  /\ posted \in [Key -> Nat]

\* The exchange may still trade the order of k.
MayTrade(k) ==
  \/ order[k].status = "open"
  \/ order[k].status = "flight" /\ now <= order[k].expiresAfter

\* Whatever becomes of a call or of its answer, and whoever releases what, an
\* order the exchange may still trade has its full reservation.
ReservationCoversVenue ==
  \A k \in Key : MayTrade(k) =>
    intent[k].state \in Live /\ intent[k].reserved = Size

\* An intent key reaches the exchange at most once, also when its caller
\* retries after a crash or an answer that was lost.
SentOnce == \A k \in Key : posted[k] <= 1

OperatorTraded == \E n \in DOMAIN fills : fills[n].key = Operator

\* The position and everything the exchange may still add to it stay under
\* the cap of the mandate, unless the operator adds to it by hand.
CapHolds ==
  LET rest(k) == IF MayTrade(k) THEN Size - order[k].traded ELSE 0
  IN  ~OperatorTraded => pos + MapThenSumSet(rest, Key) <= Cap

\* Fills that are seen again, after a crash too, are not counted again, and
\* the order's own count agrees with the cash flows.
FillsBookedOnce ==
  \A k \in Key :
    /\ intent[k].filled = Lots({n \in flows : fills[n].key = k})
    /\ intent[k].filled <= order[k].traded

\* Reconciliation settles every order that is over at the exchange, however
\* its submission ended, and frees what it reserves.
OrdersSettle ==
  \A k \in Key :
    order[k].status \in {"filled", "canceled"} ~> intent[k].state \in Final

Drift == inv.quantity # 0 /\ pos # inv.quantity

\* A position the desk holds and the exchange disagrees about is brought up
\* to date or withdrawn from trading.
DriftIsFound == Drift ~> ~Drift \/ inv.suspended

\* A crash is not repeated for ever.
CrashesEnd == <>[][~Crash]_vars

\* Whatever crashes came before, orders settle once they stop.
SettleAfterCrashes == CrashesEnd => OrdersSettle

\* Whatever crashes came before, a drift is found once they stop.
FindAfterCrashes == CrashesEnd => DriftIsFound
=============================================================================
