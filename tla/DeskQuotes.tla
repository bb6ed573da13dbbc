------------------------------ MODULE DeskQuotes ------------------------------
(***************************************************************************)
(* The quote engine of a quoting book: configureQuotes, tickQuotes and the *)
(* error path of tick (src/lib/desk/execution.ts 860-1001, 1047-1061), and *)
(* the scheduled cancellation of the exchange under which quotes rest.     *)
(*                                                                         *)
(* Times are kept as the time left until them, so that a behaviour may go  *)
(* on for ever: Tick counts down all of them.  0 is "now", and where the   *)
(* code only asks whether a time is far enough ahead, also "past or none". *)
(***************************************************************************)
EXTENDS Integers, FiniteSets

CONSTANTS Slot,    \* rows at hand for quotes; one that is over is used again
          NoSlot,
          Horizon, \* 65 s: how far ahead the cancellation is scheduled
          Renew,   \* 35 s: it is scheduled anew when less is left
          Margin,  \* 8 s: what must be left of it when a quote is checked
          Window,  \* 8 s: how long a request may take to the exchange
          Lag      \* 1 s: how old a check may be when the quote is signed

ASSUME QuoteAssumption ==
  /\ IsFiniteSet(Slot) /\ NoSlot \notin Slot
  /\ {Horizon, Renew, Margin, Window, Lag} \subseteq Nat
  /\ Window <= Margin /\ Margin < Renew /\ Renew <= Horizon

VARIABLES
  \* The database:
  enabled,  \* book.enabled
  config,   \* "none", "current", or "stale": of another version of the book
  cancelAt, \* DeskExecutionState.cancelAt
  quote,    \* the DeskIntent rows of group "maker"
  call,     \* the call that holds the lease
  \* The exchange:
  timer,    \* its scheduled cancellation, also after it came to pass
  armed,    \* the cancellation is still to come
  request,  \* scheduleCancel requests under way
  venue     \* what became of each quote

rows == <<enabled, config, cancelAt, quote>>
exchange == <<timer, armed, request, venue>>
vars == <<rows, call, exchange>>

-----------------------------------------------------------------------------

Side == {"buy", "sell"}
Live == {"submitting", "unknown", "working", "settling"}
Longest == Window + Lag + 1   \* how long past the timer is followed

\* Rows that are over are not told apart, nor what became of their orders.
NoQuote == [state |-> "over", side |-> "buy"]
NoOrder == [status |-> "none", left |-> 0]

\* "time" is what scheduleCancel was asked for, "taken" that the exchange did
\* it; "age" is the time since the last check of the quote being submitted.
Idle == [at |-> "idle", live |-> {}, todo |-> {}, want |-> {},
         slot |-> NoSlot, enabled |-> FALSE, current |-> FALSE,
         time |-> 0, taken |-> FALSE, age |-> 0]

\* After a crash: as good as idle, the next call may start.
Dead == [Idle EXCEPT !.at = "dead"]
Free == call.at \in {"idle", "dead"}

Init ==
  /\ enabled = TRUE /\ config = "none" /\ cancelAt = 0
  /\ quote = [i \in Slot |-> NoQuote]
  /\ call = Idle
  /\ timer = -Longest /\ armed = FALSE /\ request = {}
  /\ venue = [i \in Slot |-> NoOrder]

MayTrade(i) == venue[i].status \in {"flight", "open"}

\* The row of i with state s; one that is over is used again, and the exchange
\* is not asked for it any more.
Row(i, s) == IF s = "over" /\ ~MayTrade(i) THEN NoQuote
               ELSE [quote[i] EXCEPT !.state = s]
Forget == venue' = [i \in Slot |-> IF quote'[i] = NoQuote THEN NoOrder
                                     ELSE venue[i]]

LiveQuotes == {i \in Slot : quote[i].state \in Live}

\* Variant: cancelling is left to the scheduled cancellation.
LeftToTimer(S) == {}

\* What cancelQuotes goes through, of the rows that were read.
ToCancel(S) == {i \in S : quote[i].state \in {"working", "unknown",
                                              "submitting"}}

\* syncLedger on the rows of quotes: what the exchange knows of an order
\* replaces the state; it keeps no record of one it refused.
Synced(i) ==
  LET s == venue[i].status
  IN  CASE quote[i].state \notin Live -> {quote[i].state}
        [] quote[i].state \in Live /\ s = "open" -> {"working"}
        [] quote[i].state \in Live /\ s = "filled" -> {"settling", "over"}
        [] quote[i].state \in Live /\ s = "canceled" -> {"over"}
        [] OTHER -> {quote[i].state}
Sync == \E f \in [Slot -> UNION {Synced(i) : i \in Slot}] :
          /\ \A i \in Slot : f[i] \in Synced(i)
          /\ quote' = [i \in Slot |-> Row(i, f[i])]
          /\ Forget

-----------------------------------------------------------------------------
(* configureQuotes, and changes of the book *)

Configure(c) ==
  /\ Free
  /\ c = "current" => enabled
  /\ config' = c
  /\ UNCHANGED <<enabled, cancelAt, quote, call, exchange>>

\* Every change of the book is a new version of it.
Toggle ==
  /\ enabled' = ~enabled
  /\ config' = IF config = "none" THEN config ELSE "stale"
  /\ call' = [call EXCEPT !.current = FALSE]
  /\ UNCHANGED <<cancelAt, quote, exchange>>

-----------------------------------------------------------------------------
(* tick and tickQuotes *)

TickDesk ==
  /\ Free
  /\ call' = [Idle EXCEPT !.at = "sync", !.enabled = enabled,
                          !.current = TRUE]
  /\ UNCHANGED <<rows, exchange>>

\* The rows are synchronised, then read once for all of what follows.
ReadQuotes ==
  /\ call.at = "sync"
  /\ Sync
  /\ call' = [call EXCEPT !.at = "decide",
                !.live = {i \in Slot : quote'[i].state \in Live}]
  /\ UNCHANGED <<enabled, config, cancelAt, timer, armed, request>>

\* The synchronisation fails: tick cancels what it can, each by itself.
SyncFails ==
  /\ call.at = "sync"
  /\ call' = [call EXCEPT !.at = "pull", !.todo = LiveQuotes]
  /\ UNCHANGED <<rows, exchange>>

\* The exchange confirms the cancellation of an open order, and of no other.
CancelAtVenue(i) == venue' = [venue EXCEPT ![i].status = "canceled"]

Pull(i) ==
  /\ call.at = "pull" /\ i \in call.todo
  /\ call' = IF call.todo = {i} THEN Idle
               ELSE [call EXCEPT !.todo = @ \ {i}]
  /\ \/ venue[i].status = "open" /\ CancelAtVenue(i)
     \/ UNCHANGED venue
  /\ UNCHANGED <<rows, timer, armed, request>>

\* cancelQuotes: one that is not confirmed ends the tick with an exception.
CancelQuote(i) ==
  /\ call.at = "cancel" /\ i \in call.todo
  /\ IF venue[i].status = "open"
       THEN /\ CancelAtVenue(i)
            /\ call' = IF call.todo = {i} THEN Idle
                         ELSE [call EXCEPT !.todo = @ \ {i}]
       ELSE call' = Idle /\ UNCHANGED venue
  /\ UNCHANGED <<rows, timer, armed, request>>

\* cancelQuotes of the quotes in S, after which the tick ends.
CancelAll(S) == call' = IF ToCancel(S) = {} THEN Idle
                  ELSE [call EXCEPT !.at = "cancel", !.todo = ToCancel(S)]

\* A book that is stopped, or has no quotes configured, drains; only when
\* nothing of it is live the timer is forgotten.
Drain ==
  /\ call.at = "decide"
  /\ ~call.enabled \/ config = "none"
  /\ CancelAll(call.live)
  /\ IF call.live = {} THEN config' = "none" /\ cancelAt' = 0
       ELSE UNCHANGED <<config, cancelAt>>
  /\ UNCHANGED <<enabled, quote, exchange>>

Quoting == call.at = "decide" /\ call.enabled /\ config # "none"

\* A quote configuration of another version, foreign orders, a loss, a venue
\* that does not answer: quotes are cancelled.
Object ==
  /\ \/ Quoting
     \/ call.at \in {"renew", "place"}
  /\ CancelAll(call.live)
  /\ UNCHANGED <<rows, exchange>>

TooClose == cancelAt < Renew

\* scheduleCancel is sent; authorize refuses it to a book that has changed.
Schedule ==
  /\ Quoting /\ config = "current" /\ call.current
  /\ TooClose
  /\ request' = request \cup {[time |-> Horizon, left |-> Window]}
  /\ call' = [call EXCEPT !.at = "renew", !.enabled = FALSE,
                          !.time = Horizon]
  /\ UNCHANGED <<rows, timer, armed, venue>>

\* The time is saved when, and only when, the exchange has confirmed it.
Scheduled ==
  /\ call.at = "renew" /\ call.taken
  /\ cancelAt' = call.time
  /\ call' = [call EXCEPT !.at = "requote", !.time = 0, !.taken = FALSE]
  /\ UNCHANGED <<enabled, config, quote, exchange>>

FarEnough ==
  /\ Quoting /\ config = "current" /\ ~TooClose
  /\ call' = [call EXCEPT !.at = "requote", !.enabled = FALSE]
  /\ UNCHANGED <<rows, exchange>>

Unsettled == \E i \in call.live : quote[i].state # "working"

\* Nothing is changed while the fate of an order is open.
Wait ==
  /\ call.at = "requote" /\ Unsettled
  /\ call' = Idle
  /\ UNCHANGED <<rows, exchange>>

\* Quotes whose price or size is off are cancelled, and the tick ends;
\* replacement only after the exchange confirms that they are gone.
Replace(S) ==
  /\ call.at = "requote" /\ ~Unsettled
  /\ S # {} /\ S \subseteq call.live
  /\ CancelAll(S)
  /\ UNCHANGED <<rows, exchange>>

Missing == Side \ {quote[i].side : i \in call.live}

\* New quotes, on sides that have none.
Place(S) ==
  /\ call.at = "requote" /\ ~Unsettled
  /\ S \subseteq Missing
  /\ call' = IF S = {} THEN Idle ELSE [call EXCEPT !.at = "place", !.want = S]
  /\ UNCHANGED <<rows, exchange>>

-----------------------------------------------------------------------------
(* submit of a quote; the rest of submit is in DeskIntents *)

\* (prepare synchronises the rows once more, which this tick no longer reads.)
Draft(i, side) ==
  /\ call.at = "place" /\ side \in call.want
  /\ quote[i] = NoQuote
  /\ quote' = [quote EXCEPT ![i] = [state |-> "submitting", side |-> side]]
  /\ call' = [call EXCEPT !.at = "check", !.want = @ \ {side}, !.slot = i]
  /\ UNCHANGED <<enabled, config, cancelAt, exchange>>

\* submit returns, whatever became of the quote; the other side follows.
Answer(i, state) ==
  /\ quote' = [quote EXCEPT ![i] = Row(i, state)]
  /\ Forget
  /\ call' = IF call.want = {} THEN Idle
               ELSE [call EXCEPT !.at = "place", !.slot = NoSlot, !.age = 0]
  /\ UNCHANGED <<enabled, config, cancelAt, timer, armed, request>>

\* Variant: a timer that is still to come is enough.
StillToCome == cancelAt > 0

Heartbeat == cancelAt > Margin

\* The risk check before the signature, with the heartbeat of the timer.
Check ==
  /\ call.at = "check"
  /\ config # "none" /\ Heartbeat
  /\ call' = [call EXCEPT !.at = "sign", !.age = 0]
  /\ UNCHANGED <<rows, exchange>>

\* A check fails, or authorize, or the signer: nothing was sent.
Reject ==
  /\ call.at \in {"check", "sign"}
  /\ Answer(call.slot, "over")

\* Signature and POST.  A check that is too old is made again.
Dispatch ==
  /\ call.at = "sign" /\ enabled /\ call.current
  /\ IF call.age > Lag
       THEN call' = [call EXCEPT !.at = "check"] /\ UNCHANGED venue
       ELSE /\ venue' = [venue EXCEPT ![call.slot] =
                           [status |-> "flight", left |-> Window]]
            /\ call' = [call EXCEPT !.at = "ack"]
  /\ UNCHANGED <<rows, timer, armed, request>>

Acknowledge ==
  /\ call.at = "ack"
  /\ venue[call.slot].status # "flight"
  /\ Answer(call.slot, IF venue[call.slot].status = "refused"
                         THEN "over" ELSE "working")

\* Variant: an error is taken for a rejection.
Forgotten == "over"

AfterError == "unknown"

LoseAnswer ==
  /\ call.at = "ack"
  /\ Answer(call.slot, AfterError)

\* abandon, by the operator, of an order the exchange knows nothing of and
\* that is too old to be under way.
Abandon(i) ==
  /\ Free
  /\ quote[i].state \in {"submitting", "unknown"}
  /\ venue[i].status \in {"none", "refused"}
  /\ quote' = [quote EXCEPT ![i] = Row(i, "over")]
  /\ Forget
  /\ UNCHANGED <<enabled, config, cancelAt, call, timer, armed, request>>

Crash ==
  /\ ~Free
  /\ call' = Dead
  /\ UNCHANGED <<rows, exchange>>

-----------------------------------------------------------------------------
(* The exchange and the clock *)

Becomes(i, status) ==
  /\ venue' = [venue EXCEPT ![i] = [status |-> status, left |-> 0]]
  /\ UNCHANGED <<rows, call, timer, armed, request>>

Arrive(i) == venue[i].status = "flight" /\ Becomes(i, "open")
Refuse(i) == venue[i].status = "flight" /\ Becomes(i, "refused")
Fill(i) == venue[i].status = "open" /\ Becomes(i, "filled")

\* A request takes effect when it arrives, also when a later one came first.
TakeTimer(r) ==
  /\ r \in request
  /\ request' = request \ {r}
  /\ timer' = r.time /\ armed' = TRUE
  /\ call' = IF call.at = "renew" /\ call.time = r.time
               THEN [call EXCEPT !.taken = TRUE] ELSE call
  /\ UNCHANGED <<rows, venue>>

\* The time has come: every open order of the account is cancelled.
Fire ==
  /\ armed /\ timer = 0
  /\ armed' = FALSE
  /\ venue' = [i \in Slot |-> IF venue[i].status = "open"
                               THEN [venue[i] EXCEPT !.status = "canceled"]
                               ELSE venue[i]]
  /\ UNCHANGED <<rows, call, timer, request>>

\* Counts down to zero.
Less(n) == IF n = 0 THEN 0 ELSE n - 1

\* Time passes.  A request that is too old is not taken any more.
Tick ==
  /\ ~(armed /\ timer = 0)
  /\ timer' = IF timer = -Longest THEN timer ELSE timer - 1
  /\ request' = {[time |-> r.time - 1, left |-> r.left - 1] :
                   r \in {q \in request : q.left > 0}}
  /\ venue' = [i \in Slot |->
       IF venue[i].status = "flight" /\ venue[i].left = 0
         THEN [status |-> "refused", left |-> 0]
         ELSE [venue[i] EXCEPT !.left = Less(@)]]
  /\ cancelAt' = Less(cancelAt)
  /\ call' = [call EXCEPT !.time = Less(@),
                !.age = IF call.at = "sign" /\ @ <= Lag THEN @ + 1 ELSE @]
  /\ UNCHANGED <<enabled, config, quote, armed>>

-----------------------------------------------------------------------------

Progress ==
  \/ ReadQuotes \/ SyncFails \/ Drain \/ Object \/ Schedule \/ Scheduled
  \/ FarEnough \/ Wait
  \/ \E S \in SUBSET Slot : Replace(S)
  \/ \E S \in SUBSET Side : Place(S)
  \/ \E i \in Slot : Pull(i) \/ CancelQuote(i)
                      \/ \E side \in Side : Draft(i, side)
  \/ Check \/ Reject \/ Dispatch \/ Acknowledge \/ LoseAnswer

Next ==
  \/ TickDesk \/ Progress \/ Toggle \/ Crash \/ Tick \/ Fire
  \/ \E c \in {"none", "current"} : Configure(c)
  \/ \E i \in Slot : Abandon(i) \/ Arrive(i) \/ Refuse(i) \/ Fill(i)
  \/ \E r \in request : TakeTimer(r)

Spec == Init /\ [][Next]_vars

\* The worker ticks, calls end, time passes, and the exchange does at a time
\* what was scheduled for it.
FairSpec ==
  Spec /\ SF_vars(TickDesk) /\ WF_vars(Progress) /\ WF_vars(Tick)
       /\ WF_vars(Fire)

-----------------------------------------------------------------------------
(* Properties *)

\* The book never has two orders on one side of the market that may trade,
\* whatever answers are lost and whoever crashes.
OneQuotePerSide ==
  \A i, j \in Slot : i # j /\ MayTrade(i) /\ MayTrade(j)
                       => quote[i].side # quote[j].side

\* A quote comes to rest at the exchange only while a cancellation is armed, or
\* less than Window + Lag after the last one passed, also when scheduleCancel
\* requests overtake each other, calls stall and crash, or time runs on between
\* the heartbeat and the POST.
QuotesUnderTimer ==
  [][\A i \in Slot :
       venue[i].status # "open" /\ venue'[i].status = "open" =>
         armed \/ -timer < Window + Lag]_vars

\* "A venue cancellation timer protects resting quotes on disconnect."
\* (docs/autonomous-desk.md), also a quote that arrives after the worker has
\* gone: the heartbeat leaves it Margin, the request takes up to Lag + Window.
ProtectedOnDisconnect ==
  \A i \in Slot : call.at = "dead" /\ venue[i].status = "open" => armed

FatesAreKnown ==
  \A i \in Slot : []<>(quote[i].state \notin {"submitting", "unknown"})
CrashesEnd == <>[][~Crash /\ ~SyncFails]_vars

\* The quotes of a book that stays stopped are gone after a while, if orders
\* of unknown fate are resolved.
StoppedBookDrains ==
  CrashesEnd /\ FatesAreKnown =>
    (<>[](~enabled) => <>[](\A i \in Slot : ~MayTrade(i)))
=============================================================================
