--------------------------- MODULE DeskQuotesProofs ---------------------------
(***************************************************************************)
(* Theorems about DeskQuotes, for any number of rows and any horizon,      *)
(* margin, transit and lag that QuoteAssumption allows.                    *)
(***************************************************************************)
EXTENDS DeskQuotes, TLAPS

-----------------------------------------------------------------------------
(* The inductive invariant *)

QuoteRow == [state : Live \cup {"over"}, side : Side]
OrderRow == [status : {"none", "flight", "open", "refused", "filled",
                       "canceled"},
             left : 0 .. Window]
RequestRow == [time : Horizon - Window .. Horizon, left : 0 .. Window]
Places == {"idle", "dead", "sync", "decide", "pull", "cancel", "renew",
           "requote", "place", "check", "sign", "ack"}
CallRow == [at : Places, live : SUBSET Slot, todo : SUBSET Slot,
            want : SUBSET Side, slot : Slot \cup {NoSlot},
            enabled : BOOLEAN, current : BOOLEAN, time : 0 .. Horizon,
            taken : BOOLEAN, age : 0 .. Lag + 1]

\* No request asks for less than Horizon - Window from now: it is that old at
\* most.
TypeOK ==
  /\ enabled \in BOOLEAN /\ config \in {"none", "current", "stale"}
  /\ cancelAt \in 0 .. Horizon
  /\ quote \in [Slot -> QuoteRow]
  /\ call \in CallRow
  /\ timer \in -Longest .. Horizon /\ armed \in BOOLEAN
  /\ request \subseteq {r \in RequestRow : r.time = r.left + Horizon - Window}
  /\ venue \in [Slot -> OrderRow]

\* The row of an order that may trade says so.
TradingIsLive == \A i \in Slot : MayTrade(i) => i \in LiveQuotes

OneRowPerSide ==
  \A i, j \in LiveQuotes : i # j => quote[i].side # quote[j].side

\* The rows that a tick goes by are still those that are live, and of what it
\* wants it has none.
TickKnows ==
  /\ call.at \in {"decide", "renew", "requote"} =>
       LiveQuotes \subseteq call.live
  /\ call.at \in {"place", "check", "sign", "ack"} =>
       \A i \in LiveQuotes : quote[i].side \notin call.want
  /\ call.at \in {"check", "sign", "ack"} =>
       call.slot \in Slot /\ quote[call.slot].state = "submitting"
  /\ call.at \in {"check", "sign"} => ~MayTrade(call.slot)

Sides == TradingIsLive /\ OneRowPerSide /\ TickKnows

\* The timer of the exchange is earlier than the saved one by the transit of
\* an overtaken request at most; so is it than the one being saved.
TimerIsNear ==
  /\ cancelAt > 0 => timer >= cancelAt - Window
  /\ call.taken /\ call.time > 0 => timer >= call.time - Window

\* What a check has seen of the timer is gone only as time passes.
CheckIsFresh == call.at = "sign" /\ call.age <= Lag => timer + call.age > 0

\* A call that has its confirmation saves it next, or gives up.
TakenOnce == call.taken => call.at \in {"renew", "cancel"}

\* An order under way may arrive less than Window + Lag after the cancellation.
FlightNearTimer ==
  \A i \in Slot : venue[i].status = "flight" =>
    venue[i].left < timer + Window + Lag

Timing == TimerIsNear /\ CheckIsFresh /\ TakenOnce /\ FlightNearTimer

IInv == TypeOK /\ Sides /\ Timing

-----------------------------------------------------------------------------
(* Types *)

LEMMA Numbers ==
  /\ Horizon \in Nat /\ Renew \in Nat /\ Margin \in Nat /\ Window \in Nat
  /\ Lag \in Nat /\ Window <= Margin /\ Margin < Renew /\ Renew <= Horizon
  /\ Longest = Window + Lag + 1 /\ NoSlot \notin Slot
  BY QuoteAssumption DEF Longest

LEMMA IdleTyped ==
  /\ Idle \in CallRow /\ Idle.at = "idle" /\ ~Idle.taken
  /\ Dead \in CallRow /\ Dead.at = "dead" /\ ~Dead.taken
  /\ NoQuote \in QuoteRow /\ NoQuote.state = "over" /\ NoOrder \in OrderRow
<1>1. 0 \in 0 .. Horizon /\ 0 \in 0 .. Lag + 1 /\ 0 \in 0 .. Window
  BY Numbers
<1>2. QED
  BY <1>1 DEF Idle, Dead, CallRow, Places, NoQuote, QuoteRow, Side, NoOrder,
              OrderRow

LEMMA RowTyped ==
  ASSUME TypeOK, NEW i \in Slot, NEW s \in Live \cup {"over"}
  PROVE  /\ Row(i, s) \in QuoteRow
         /\ Row(i, s).state = s
         /\ s # "over" => Row(i, s).side = quote[i].side
<1>1. quote[i] \in QuoteRow
  BY DEF TypeOK
<1>2. CASE s = "over" /\ ~MayTrade(i)
  BY <1>2, IdleTyped DEF Row
<1>3. CASE ~ (s = "over" /\ ~MayTrade(i))
  BY <1>1, <1>3 DEF Row, QuoteRow
<1>4. QED
  BY <1>2, <1>3

\* What the exchange is not asked for any more may not trade.
LEMMA ForgetTyped ==
  ASSUME TypeOK, Forget
  PROVE  /\ venue' \in [Slot -> OrderRow]
         /\ \A i \in Slot : venue'[i] \in {venue[i], NoOrder}
         /\ \A i \in Slot : MayTrade(i)' => MayTrade(i)
<1>1. venue' \in [Slot -> OrderRow]
  BY IdleTyped DEF Forget, TypeOK
<1>2. \A i \in Slot : venue'[i] \in {venue[i], NoOrder}
  BY DEF Forget
<1>3. QED
  BY <1>1, <1>2 DEF MayTrade, NoOrder

\* syncLedger gives each row the state of its order.
LEMMA SyncTyped ==
  ASSUME TypeOK, Sync
  PROVE  /\ quote' \in [Slot -> QuoteRow]
         /\ \A i \in Slot : /\ quote'[i].state \in Synced(i)
                            /\ i \in LiveQuotes' =>
                                 /\ i \in LiveQuotes
                                 /\ quote'[i].side = quote[i].side
<1>1. PICK f \in [Slot -> UNION {Synced(i) : i \in Slot}] :
        /\ \A i \in Slot : f[i] \in Synced(i)
        /\ quote' = [i \in Slot |-> Row(i, f[i])]
  BY DEF Sync
<1>2. \A i \in Slot : /\ Synced(i) \subseteq Live \cup {"over"}
                      /\ quote[i].state \notin Live => Synced(i) = {"over"}
  BY DEF TypeOK, QuoteRow, Synced, Live
<1>3. \A i \in Slot : /\ Row(i, f[i]) \in QuoteRow
                      /\ Row(i, f[i]).state = f[i]
                      /\ f[i] # "over" => Row(i, f[i]).side = quote[i].side
  BY <1>1, <1>2, RowTyped
<1>4. QED
  BY <1>1, <1>2, <1>3 DEF LiveQuotes, Live

\* cancelQuotes goes through rows, and leaves them to the exchange.
LEMMA CancelAllTyped ==
  ASSUME TypeOK, NEW S \in SUBSET Slot, CancelAll(S)
  PROVE  call' \in CallRow /\ call'.at \in {"idle", "cancel"}
         /\ (call'.taken => call.taken /\ call'.time = call.time)
<1>1. CASE ToCancel(S) = {}
  BY <1>1, IdleTyped DEF CancelAll
<1>2. CASE ToCancel(S) # {}
  <2>1. call' = [call EXCEPT !.at = "cancel", !.todo = ToCancel(S)]
    BY <1>2 DEF CancelAll
  <2>2. ToCancel(S) \in SUBSET Slot
    BY DEF ToCancel
  <2> HIDE DEF ToCancel
  <2>3. QED
    BY <2>1, <2>2 DEF TypeOK, CallRow, Places
<1>3. QED
  BY <1>1, <1>2

\* submit returns to the tick.
LEMMA AnswerTyped ==
  ASSUME TypeOK, NEW i \in Slot, NEW s \in Live \cup {"over"}, Answer(i, s)
  PROVE  /\ call' \in CallRow /\ call'.at \in {"idle", "place"}
         /\ call'.at = "place" => call'.want = call.want
         /\ call'.taken => call.taken /\ call'.time = call.time
         /\ quote' \in [Slot -> QuoteRow]
         /\ quote'[i].state = s
         /\ s # "over" => quote'[i].side = quote[i].side
         /\ \A j \in Slot \ {i} : quote'[j] = quote[j]
<1>1. /\ quote' = [quote EXCEPT ![i] = Row(i, s)]
      /\ call' = IF call.want = {} THEN Idle
                   ELSE [call EXCEPT !.at = "place", !.slot = NoSlot,
                                     !.age = 0]
  BY DEF Answer
<1>2. Row(i, s) \in QuoteRow /\ Row(i, s).state = s
      /\ (s # "over" => Row(i, s).side = quote[i].side)
  BY RowTyped
<1>3. 0 \in 0 .. Lag + 1
  BY Numbers
<1>4. CASE call.want = {}
  BY <1>1, <1>2, <1>4, IdleTyped DEF TypeOK
<1>5. CASE call.want # {}
  BY <1>1, <1>2, <1>3, <1>5 DEF TypeOK, CallRow, Places
<1>6. QED
  BY <1>4, <1>5

\* The actions of the worker and of the operator.
LEMMA WorkTyped ==
  ASSUME TypeOK, NEW S \in SUBSET Slot,
         NEW W \in SUBSET Side, NEW c \in {"none", "current"},
         \/ Configure(c) \/ Toggle \/ TickDesk \/ ReadQuotes \/ SyncFails
         \/ Drain \/ Object \/ Schedule
         \/ Scheduled \/ FarEnough \/ Wait \/ Replace(S) \/ Place(W)
         \/ Check \/ Reject \/ Dispatch \/ Acknowledge
         \/ LoseAnswer \/ Crash
         \/ \E i \in Slot : \/ Pull(i) \/ CancelQuote(i) \/ Abandon(i)
                            \/ \E side \in Side : Draft(i, side),
         call.at \in {"check", "sign", "ack"} => call.slot \in Slot
  PROVE  TypeOK'
<1> USE DEF TypeOK
<1>a. /\ 0 \in 0 .. Horizon /\ 0 \in 0 .. Lag + 1 /\ Horizon \in 0 .. Horizon
      /\ Window \in 0 .. Window /\ Horizon \in Horizon - Window .. Horizon
  BY Numbers
<1>b. \A i \in Slot :
        venue[i].status = "open" /\ CancelAtVenue(i) =>
          venue' \in [Slot -> OrderRow]
  BY DEF CancelAtVenue, OrderRow
<1>1. CASE Configure(c)
  <2>1. config' = c /\ UNCHANGED <<enabled, cancelAt, quote, call, exchange>>
    BY <1>1 DEF Configure
  <2>2. QED
    BY <2>1 DEF exchange
<1>2. CASE Toggle
  <2>1. enabled' \in BOOLEAN
    BY <1>2, Zenon DEF Toggle
  <2>2. /\ config' \in {config, "stale"}
        /\ UNCHANGED <<cancelAt, quote, exchange>>
        /\ call' = [call EXCEPT !.current = FALSE]
    BY <1>2 DEF Toggle
  <2>3. call' \in CallRow
    BY <2>2 DEF CallRow
  <2>4. QED
    BY <2>1, <2>2, <2>3 DEF exchange
<1>3. CASE TickDesk
  <2>1. call' = [Idle EXCEPT !.at = "sync", !.enabled = enabled,
                             !.current = TRUE]
    BY <1>3 DEF TickDesk
  <2>2. enabled \in BOOLEAN /\ Idle \in CallRow
    BY IdleTyped
  <2>3. call' \in CallRow
    BY <2>1, <2>2 DEF CallRow, Places
  <2>4. UNCHANGED <<rows, exchange>>
    BY <1>3 DEF TickDesk
  <2>5. QED
    BY <2>3, <2>4 DEF rows, exchange
<1>4. CASE ReadQuotes
  <2>1. quote' \in [Slot -> QuoteRow] /\ venue' \in [Slot -> OrderRow]
    BY <1>4, SyncTyped, ForgetTyped DEF ReadQuotes, Sync
  <2>2. call' \in CallRow
    BY <1>4 DEF ReadQuotes, CallRow, Places
  <2>3. QED
    BY <1>4, <2>1, <2>2 DEF ReadQuotes
<1>5. CASE SyncFails
  <2>1. LiveQuotes \in SUBSET Slot
    BY DEF LiveQuotes
  <2>2. call' \in CallRow
    BY <1>5, <2>1 DEF SyncFails, CallRow, Places
  <2>3. QED
    BY <1>5, <2>2 DEF SyncFails, rows, exchange
<1>6. ASSUME NEW i \in Slot, Pull(i) \/ CancelQuote(i)
      PROVE  TypeOK'
  <2>1. call' \in CallRow
    BY <1>6, IdleTyped DEF Pull, CancelQuote, CallRow, Places
  <2>2. venue' \in [Slot -> OrderRow]
    BY <1>6, <1>b DEF Pull, CancelQuote
  <2>3. QED
    BY <1>6, <2>1, <2>2 DEF Pull, CancelQuote, rows
<1>7. CASE Drain
  <2>1. call' \in CallRow
    BY <1>7, CancelAllTyped DEF Drain, CallRow
  <2>2. QED
    BY <1>7, <1>a, <2>1 DEF Drain, exchange
<1>8. CASE Object
  BY <1>8, CancelAllTyped DEF Object, rows, exchange, CallRow
<1>9. CASE Schedule
  <2>1. call' \in CallRow
    BY <1>9, <1>a DEF Schedule, CallRow, Places
  <2>2. request' \subseteq
          {r \in RequestRow : r.time = r.left + Horizon - Window}
    BY <1>9, <1>a, Numbers DEF Schedule, RequestRow
  <2>3. QED
    BY <1>9, <2>1, <2>2 DEF Schedule, rows
<1>10. CASE Scheduled
  BY <1>10, <1>a DEF Scheduled, exchange, CallRow, Places
<1>11. CASE FarEnough
  BY <1>11 DEF FarEnough, rows, exchange, CallRow, Places
<1>12. CASE Wait
  BY <1>12, IdleTyped DEF Wait, rows, exchange
<1>13. CASE Replace(S)
  BY <1>13, CancelAllTyped DEF Replace, rows, exchange
<1>14. CASE Place(W)
  BY <1>14, IdleTyped DEF Place, rows, exchange, CallRow, Places
<1>15. ASSUME NEW i \in Slot, NEW side \in Side, Draft(i, side)
       PROVE  TypeOK'
  <2>1. call' \in CallRow
    BY <1>15 DEF Draft, CallRow, Places
  <2>2. quote' \in [Slot -> QuoteRow]
    BY <1>15 DEF Draft, QuoteRow, Live
  <2>3. QED
    BY <1>15, <2>1, <2>2 DEF Draft, exchange
<1>16. CASE Check
  BY <1>16, <1>a DEF Check, rows, exchange, CallRow, Places
<1>17. ASSUME NEW s \in Live \cup {"over"}, call.slot \in Slot,
              Answer(call.slot, s)
       PROVE  TypeOK'
  <2>1. call' \in CallRow /\ quote' \in [Slot -> QuoteRow]
    BY <1>17, AnswerTyped
  <2>2. venue' \in [Slot -> OrderRow]
    BY <1>17, ForgetTyped DEF Answer
  <2>3. QED
    BY <1>17, <2>1, <2>2 DEF Answer
<1>18. CASE Reject
  BY <1>17, <1>18 DEF Reject
<1>19. CASE Dispatch
  <2>1. call' \in CallRow
    BY <1>19 DEF Dispatch, CallRow, Places
  <2>2. venue' \in [Slot -> OrderRow]
    BY <1>19, <1>a DEF Dispatch, OrderRow
  <2>3. QED
    BY <1>19, <2>1, <2>2 DEF Dispatch, rows
<1>20. CASE Acknowledge
  BY <1>17, <1>20 DEF Acknowledge, Live
<1>21. CASE LoseAnswer
  BY <1>17, <1>21 DEF LoseAnswer, AfterError, Live
<1>22. ASSUME NEW i \in Slot, Abandon(i)
       PROVE  TypeOK'
  <2>1. Row(i, "over") \in QuoteRow
    BY RowTyped
  <2>2. venue' \in [Slot -> OrderRow]
    BY <1>22, ForgetTyped DEF Abandon
  <2>3. QED
    BY <1>22, <2>1, <2>2 DEF Abandon
<1>23. CASE Crash
  BY <1>23, IdleTyped DEF Crash, rows, exchange
<1>24. QED
  BY <1>1, <1>2, <1>3, <1>4, <1>5, <1>6, <1>7, <1>8, <1>9, <1>10, <1>11,
     <1>12, <1>13, <1>14, <1>15, <1>16, <1>18, <1>19, <1>20, <1>21, <1>22,
     <1>23

\* The exchange and the clock.
LEMMA ExchangeTyped ==
  ASSUME TypeOK,
         \/ \E i \in Slot : Arrive(i) \/ Refuse(i) \/ Fill(i)
         \/ \E r \in request : TakeTimer(r)
         \/ Fire \/ Tick
  PROVE  TypeOK'
<1> USE DEF TypeOK
<1>1. ASSUME NEW i \in Slot, NEW s \in {"open", "refused", "filled"},
             Becomes(i, s)
      PROVE  TypeOK'
  <2>1. venue' \in [Slot -> OrderRow]
    BY <1>1, Numbers DEF Becomes, OrderRow
  <2>2. QED
    BY <1>1, <2>1 DEF Becomes, rows
<1>2. ASSUME NEW i \in Slot, Arrive(i) \/ Refuse(i) \/ Fill(i)
      PROVE  TypeOK'
  BY <1>1, <1>2 DEF Arrive, Refuse, Fill
<1>3. ASSUME NEW r \in request, TakeTimer(r)
      PROVE  TypeOK'
  <2>1. call' \in CallRow
    BY <1>3 DEF TakeTimer, CallRow
  <2>2. timer' \in -Longest .. Horizon
    BY <1>3, Numbers DEF TakeTimer, RequestRow
  <2>3. QED
    BY <1>3, <2>1, <2>2 DEF TakeTimer, rows
<1>4. CASE Fire
  <2>1. venue' \in [Slot -> OrderRow]
    BY <1>4 DEF Fire, OrderRow
  <2>2. QED
    BY <1>4, <2>1 DEF Fire, rows
<1>5. CASE Tick
  <2>1. call' \in CallRow
    <3>1. Less(call.time) \in 0 .. Horizon
      BY Numbers DEF CallRow, Less
    <3>2. (IF call.at = "sign" /\ call.age <= Lag THEN call.age + 1
             ELSE call.age) \in 0 .. Lag + 1
      BY Numbers DEF CallRow
    <3>3. call' = [call EXCEPT !.time = Less(call.time),
                     !.age = IF call.at = "sign" /\ call.age <= Lag
                               THEN call.age + 1 ELSE call.age]
      BY <1>5 DEF Tick
    <3>4. QED
      BY <3>1, <3>2, <3>3 DEF CallRow
  <2>2. timer' \in -Longest .. Horizon /\ cancelAt' \in 0 .. Horizon
    <3>1. /\ timer' = IF timer = -Longest THEN timer ELSE timer - 1
          /\ cancelAt' = Less(cancelAt)
      BY <1>5 DEF Tick
    <3>2. QED
      BY <3>1, Numbers DEF Less
  <2>3. request' \subseteq
          {q \in RequestRow : q.time = q.left + Horizon - Window}
    BY <1>5, Numbers DEF Tick, RequestRow
  <2>4. venue' \in [Slot -> OrderRow]
    BY <1>5, Numbers DEF Tick, OrderRow, Less
  <2>5. QED
    BY <1>5, <2>1, <2>2, <2>3, <2>4 DEF Tick
<1>6. QED
  BY <1>2, <1>3, <1>4, <1>5

-----------------------------------------------------------------------------
(* One quote per side *)

\* A step after which no more rows are live, and no more orders may trade.
LEMMA NoMoreRows ==
  ASSUME Sides,
         \A i \in LiveQuotes' :
           i \in LiveQuotes /\ quote'[i].side = quote[i].side,
         \A i \in Slot : MayTrade(i)' => MayTrade(i) /\ i \in LiveQuotes'
  PROVE  TradingIsLive' /\ OneRowPerSide'
  BY DEF Sides, TradingIsLive, OneRowPerSide

\* A call that has no rows in mind.
LEMMA KnowsNothing ==
  ASSUME call'.at \notin {"decide", "renew", "requote", "place", "check",
                          "sign", "ack"}
  PROVE  TickKnows'
  BY DEF TickKnows

\* A call that goes on with what it knows.
LEMMA KnowsStill ==
  ASSUME TickKnows,
         \A i \in LiveQuotes' :
           i \in LiveQuotes /\ quote'[i].side = quote[i].side,
         call'.at \in {"decide", "renew", "requote"} =>
           /\ call.at \in {"decide", "renew", "requote"}
           /\ call'.live = call.live,
         call'.at \in {"place", "check", "sign", "ack"} =>
           /\ call.at \in {"place", "check", "sign", "ack"}
           /\ call'.want = call.want,
         call'.at \in {"check", "sign", "ack"} =>
           /\ call.at \in {"check", "sign", "ack"}
           /\ call'.slot = call.slot
           /\ quote'[call.slot] = quote[call.slot],
         call'.at \in {"check", "sign"} =>
           /\ call.at \in {"check", "sign"}
           /\ \A i \in Slot : MayTrade(i)' => MayTrade(i)
  PROVE  TickKnows'
<1>1. call'.at \in {"decide", "renew", "requote"} =>
        LiveQuotes' \subseteq call'.live
  BY DEF TickKnows
<1>2. call'.at \in {"place", "check", "sign", "ack"} =>
        \A i \in LiveQuotes' : quote'[i].side \notin call'.want
  BY DEF TickKnows
<1>3. call'.at \in {"check", "sign", "ack"} =>
        call'.slot \in Slot /\ quote'[call'.slot].state = "submitting"
  BY DEF TickKnows
<1>4. call'.at \in {"check", "sign"} =>
        venue'[call'.slot].status \notin {"flight", "open"}
  BY DEF TickKnows, MayTrade
<1>5. QED
  BY <1>1, <1>2, <1>3, <1>4 DEF TickKnows, MayTrade

\* The steps of a call that only look at the rows.
LEMMA LooksKeepSides ==
  ASSUME TypeOK, Sides, NEW S \in SUBSET Slot, NEW W \in SUBSET Side,
         NEW c \in {"none", "current"},
         \/ Configure(c) \/ Toggle \/ TickDesk \/ SyncFails \/ Drain \/ Object
         \/ Schedule \/ Scheduled \/ FarEnough \/ Wait \/ Replace(S)
         \/ Place(W) \/ Check \/ Crash \/ \E r \in request : TakeTimer(r)
  PROVE  Sides'
<1>1. UNCHANGED <<quote, venue>>
  BY DEF Configure, Toggle, TickDesk, SyncFails, Drain, Object, Schedule,
         Scheduled, FarEnough, Wait, Replace, Place, Check, Crash, TakeTimer,
         rows, exchange
<1>2. /\ LiveQuotes' = LiveQuotes
      /\ \A i \in Slot : MayTrade(i)' = MayTrade(i)
  BY <1>1 DEF LiveQuotes, MayTrade
<1>3. TradingIsLive' /\ OneRowPerSide'
  BY <1>1, <1>2, NoMoreRows DEF Sides, TradingIsLive
<1>4. call \in CallRow
  BY DEF TypeOK
<1>5. TickKnows
  BY DEF Sides
<1>6. TickKnows'
  <2>1. CASE Configure(c) \/ Toggle \/ \E r \in request : TakeTimer(r)
    <3>1. /\ call'.at = call.at /\ call'.live = call.live
          /\ call'.want = call.want /\ call'.slot = call.slot
      BY <1>4, <2>1 DEF Configure, Toggle, TakeTimer, CallRow
    <3>2. QED
      BY <1>1, <1>2, <1>5, <3>1, KnowsStill
  <2>2. CASE TickDesk \/ SyncFails \/ Crash \/ Wait
    BY <1>4, <2>2, IdleTyped, KnowsNothing
    DEF TickDesk, SyncFails, Crash, Wait, CallRow
  <2>3. CASE Drain \/ Object \/ Replace(S)
    <3>1. \E T \in SUBSET Slot : CancelAll(T)
      BY <1>4, <2>3 DEF Drain, Object, Replace, CallRow
    <3>2. QED
      BY <3>1, CancelAllTyped, KnowsNothing
  <2>4. CASE Schedule \/ Scheduled \/ FarEnough
    <3>1. /\ call.at \in {"decide", "renew"}
          /\ call'.at \in {"renew", "requote"}
          /\ call'.live = call.live
      BY <1>4, <2>4 DEF Schedule, Scheduled, FarEnough, Quoting, CallRow
    <3>2. QED
      BY <1>1, <1>2, <1>5, <3>1, KnowsStill
  <2>5. CASE Place(W)
    <3>1. LiveQuotes \subseteq call.live /\ W \subseteq Missing
      BY <1>5, <2>5 DEF Place, TickKnows
    <3>2. \A i \in LiveQuotes : quote[i].side \notin W
      BY <3>1 DEF Missing
    <3>3. CASE W = {}
      BY <2>5, <3>3, IdleTyped, KnowsNothing DEF Place
    <3>4. CASE W # {}
      <4>1. call'.at = "place" /\ call'.want = W
        BY <1>4, <2>5, <3>4 DEF Place, CallRow
      <4>2. QED
        BY <1>1, <1>2, <3>2, <4>1 DEF TickKnows
    <3>5. QED
      BY <3>3, <3>4
  <2>6. CASE Check
    <3>1. /\ call.at = "check" /\ call'.at = "sign" /\ call'.want = call.want
          /\ call'.slot = call.slot
      BY <1>4, <2>6 DEF Check, CallRow
    <3>2. QED
      BY <1>1, <1>2, <1>5, <3>1, KnowsStill
  <2>7. QED
    BY <2>1, <2>2, <2>3, <2>4, <2>5, <2>6
<1>7. QED
  BY <1>3, <1>6 DEF Sides

\* Orders become live by Dispatch only, for the row of the call.
LEMMA OrdersKeepSides ==
  ASSUME TypeOK, Sides,
         \/ \E i \in Slot : \/ Pull(i) \/ CancelQuote(i)
                            \/ Arrive(i) \/ Refuse(i) \/ Fill(i)
         \/ Dispatch \/ Fire \/ Tick
  PROVE  Sides'
<1>1. UNCHANGED quote /\ call \in CallRow /\ venue \in [Slot -> OrderRow]
  BY DEF Pull, CancelQuote, Dispatch, Arrive, Refuse, Fill, Becomes, Fire,
         Tick, rows, TypeOK
<1>2. LiveQuotes' = LiveQuotes
  BY <1>1 DEF LiveQuotes
<1>3. TickKnows /\ TradingIsLive
  BY DEF Sides
<1>4. ASSUME \A j \in Slot : MayTrade(j)' => MayTrade(j),
             \/ UNCHANGED call
             \/ (call' = Idle \/ \E t : call' = [call EXCEPT !.todo = t])
                  /\ call.at \in {"pull", "cancel"}
             \/ \E t, a : call' = [call EXCEPT !.time = t, !.age = a]
      PROVE  Sides'
  <2>1. TradingIsLive' /\ OneRowPerSide'
    BY <1>1, <1>2, <1>3, <1>4, NoMoreRows DEF TradingIsLive
  <2>2. CASE call' = Idle
    BY <2>1, <2>2, IdleTyped, KnowsNothing DEF Sides
  <2>3. CASE call' # Idle
    <3>1. /\ call'.at = call.at /\ call'.live = call.live
          /\ call'.want = call.want /\ call'.slot = call.slot
      BY <1>1, <1>4, <2>3 DEF CallRow
    <3>2. TickKnows'
      BY <1>1, <1>2, <1>3, <1>4, <3>1, KnowsStill
    <3>3. QED
      BY <2>1, <3>2 DEF Sides
  <2>4. QED
    BY <2>2, <2>3
<1>5. ASSUME NEW i \in Slot, Pull(i) \/ CancelQuote(i)
      PROVE  Sides'
  <2>1. \A j \in Slot : MayTrade(j)' => MayTrade(j)
    BY <1>1, <1>5 DEF Pull, CancelQuote, CancelAtVenue, MayTrade, OrderRow
  <2>2. /\ call' = Idle \/ \E t : call' = [call EXCEPT !.todo = t]
        /\ call.at \in {"pull", "cancel"}
    BY <1>5 DEF Pull, CancelQuote
  <2>3. QED
    BY <1>4, <2>1, <2>2
<1>6. ASSUME NEW i \in Slot, Arrive(i) \/ Refuse(i) \/ Fill(i)
      PROVE  Sides'
  <2>1. \A j \in Slot : MayTrade(j)' => MayTrade(j)
    BY <1>1, <1>6 DEF Arrive, Refuse, Fill, Becomes, MayTrade, OrderRow
  <2>2. UNCHANGED call
    BY <1>6 DEF Arrive, Refuse, Fill, Becomes
  <2>3. QED
    BY <1>4, <2>1, <2>2
<1>7. CASE Fire
  <2>1. \A j \in Slot : MayTrade(j)' => MayTrade(j)
    BY <1>1, <1>7 DEF Fire, MayTrade, OrderRow
  <2>2. QED
    BY <1>4, <1>7, <2>1 DEF Fire
<1>8. CASE Tick
  <2>1. \A j \in Slot : MayTrade(j)' => MayTrade(j)
    BY <1>1, <1>8 DEF Tick, MayTrade, OrderRow
  <2>2. \E t, a : call' = [call EXCEPT !.time = t, !.age = a]
    BY <1>8 DEF Tick
  <2>3. QED
    BY <1>4, <2>1, <2>2
<1>9. CASE Dispatch
  <2>1. /\ call.at = "sign" /\ call.slot \in LiveQuotes
        /\ call'.want = call.want /\ call'.slot = call.slot
        /\ \/ call'.at = "check" /\ UNCHANGED venue
           \/ /\ call'.at = "ack"
              /\ \A j \in Slot \ {call.slot} : venue'[j] = venue[j]
    BY <1>1, <1>3, <1>9 DEF Dispatch, CallRow, TickKnows, LiveQuotes, Live
  <2>2. \A j \in Slot : MayTrade(j)' => j \in LiveQuotes'
    BY <1>2, <1>3, <2>1 DEF TradingIsLive, MayTrade
  <2>3. TradingIsLive' /\ OneRowPerSide'
    BY <1>1, <1>2, <2>2 DEF TradingIsLive, OneRowPerSide, Sides
  <2>4. TickKnows'
    <3>1. call'.at = "check" => \A j \in Slot : MayTrade(j)' => MayTrade(j)
      BY <2>1 DEF MayTrade
    <3>2. QED
      BY <1>1, <1>2, <1>3, <2>1, <3>1, KnowsStill
  <2>5. QED
    BY <2>3, <2>4 DEF Sides
<1>10. QED
  BY <1>5, <1>6, <1>7, <1>8, <1>9

\* A row gets a live state from syncLedger, submit and abandon only if it has
\* one, and gets another one when its order may not trade any more.
LEMMA RowsKeepSides ==
  ASSUME TypeOK, Sides,
         \/ ReadQuotes \/ Reject \/ Acknowledge \/ LoseAnswer
         \/ \E i \in Slot : Abandon(i) \/ \E side \in Side : Draft(i, side)
  PROVE  Sides'
<1>1. /\ call \in CallRow /\ quote \in [Slot -> QuoteRow]
      /\ venue \in [Slot -> OrderRow]
  BY DEF TypeOK
<1>2. TickKnows /\ TradingIsLive /\ OneRowPerSide
  BY DEF Sides
<1>3. CASE ReadQuotes
  <2>1. Sync /\ Forget /\ call.at = "sync"
    BY <1>3 DEF ReadQuotes, Sync
  <2>2. /\ quote' \in [Slot -> QuoteRow]
        /\ \A j \in Slot : /\ quote'[j].state \in Synced(j)
                           /\ j \in LiveQuotes' =>
                                /\ j \in LiveQuotes
                                /\ quote'[j].side = quote[j].side
    BY <2>1, SyncTyped
  <2>3. \A j \in Slot : MayTrade(j)' => MayTrade(j)
    BY <2>1, ForgetTyped
  <2>4. ASSUME NEW j \in Slot, MayTrade(j)
        PROVE  j \in LiveQuotes'
    <3>1. quote[j].state \in Live /\ venue[j].status \in {"flight", "open"}
      BY <1>2, <2>4 DEF TradingIsLive, LiveQuotes, MayTrade
    <3>2. Synced(j) \subseteq Live
      BY <3>1 DEF Synced, Live
    <3>3. QED
      BY <2>2, <3>2 DEF LiveQuotes
  <2>5. TradingIsLive' /\ OneRowPerSide'
    <3>1. \A j \in LiveQuotes' :
            j \in LiveQuotes /\ quote'[j].side = quote[j].side
      BY <2>2 DEF LiveQuotes
    <3>2. QED
      BY <2>3, <2>4, <3>1, NoMoreRows
  <2>6. call'.at = "decide" /\ call'.live = LiveQuotes'
    BY <1>1, <1>3 DEF ReadQuotes, CallRow, LiveQuotes
  <2>7. QED
    BY <2>5, <2>6 DEF Sides, TickKnows
<1>4. ASSUME NEW i \in Slot, NEW side \in Side, Draft(i, side)
      PROVE  Sides'
  <2>1. /\ call.at = "place" /\ side \in call.want /\ quote[i].state = "over"
        /\ call'.at = "check" /\ call'.want = call.want \ {side}
        /\ call'.slot = i
        /\ quote' = [quote EXCEPT ![i] = [state |-> "submitting",
                                          side |-> side]]
        /\ UNCHANGED venue
    <3>1. /\ call' = [call EXCEPT !.at = "check", !.want = @ \ {side},
                              !.slot = i]
          /\ quote[i] = NoQuote
          /\ call.at = "place" /\ side \in call.want
          /\ quote' = [quote EXCEPT ![i] = [state |-> "submitting",
                                            side |-> side]]
          /\ UNCHANGED venue
      BY <1>4 DEF Draft, exchange
    <3>2. /\ call'.at = "check" /\ call'.want = call.want \ {side}
          /\ call'.slot = i
      BY <1>1, <3>1 DEF CallRow
    <3>3. QED
      BY <3>1, <3>2, IdleTyped
  <2>2. /\ quote'[i].state = "submitting" /\ quote'[i].side = side
        /\ \A j \in Slot \ {i} : quote'[j] = quote[j]
    BY <1>1, <2>1
  <2>3. LiveQuotes' = LiveQuotes \cup {i} /\ i \notin LiveQuotes
    BY <1>1, <2>1, <2>2 DEF LiveQuotes, Live
  <2>4. \A j \in LiveQuotes : quote[j].side \notin call.want /\ j # i
    BY <1>2, <2>1, <2>3 DEF TickKnows
  <2>5. ~MayTrade(i)
    BY <1>2, <2>3 DEF TradingIsLive
  <2>6. TradingIsLive'
    BY <1>2, <2>1, <2>3 DEF TradingIsLive, MayTrade
  <2>7. OneRowPerSide'
    <3>1. \A j \in LiveQuotes : quote'[j] = quote[j] /\ quote'[j].side # side
      BY <2>1, <2>2, <2>4 DEF LiveQuotes
    <3>2. QED
      BY <1>2, <2>2, <2>3, <3>1 DEF OneRowPerSide
  <2>8. TickKnows'
    <3>1. \A j \in LiveQuotes' : quote'[j].side \notin call'.want
      BY <2>1, <2>2, <2>3, <2>4 DEF LiveQuotes
    <3>2. venue'[i].status \notin {"flight", "open"}
      BY <2>1, <2>5 DEF MayTrade
    <3>3. QED
      BY <2>1, <2>2, <3>1, <3>2 DEF TickKnows, MayTrade
  <2>9. QED
    BY <2>6, <2>7, <2>8 DEF Sides
<1>5. ASSUME NEW j \in Slot, NEW s \in Live \cup {"over"}, j \in LiveQuotes,
             quote' = [quote EXCEPT ![j] = Row(j, s)], Forget,
             s = "over" => ~MayTrade(j),
             call'.at \notin {"decide", "renew", "requote", "check", "sign",
                              "ack"},
             call'.at = "place" =>
               /\ call.at \in {"check", "sign", "ack"}
               /\ call'.want = call.want
      PROVE  Sides'
  <2>1. /\ Row(j, s).state = s
        /\ s # "over" => Row(j, s).side = quote[j].side
    BY RowTyped
  <2>2. \A k \in LiveQuotes' :
          k \in LiveQuotes /\ quote'[k].side = quote[k].side
    BY <1>1, <1>5, <2>1 DEF LiveQuotes, Live
  <2>3. \A k \in Slot : MayTrade(k)' => MayTrade(k) /\ k \in LiveQuotes'
    <3>1. \A k \in Slot : MayTrade(k)' => MayTrade(k)
      BY <1>5, ForgetTyped
    <3>2. \A k \in Slot : MayTrade(k) => k \in LiveQuotes'
      BY <1>1, <1>2, <1>5, <2>1 DEF TradingIsLive, LiveQuotes
    <3>3. QED
      BY <3>1, <3>2
  <2>4. TradingIsLive' /\ OneRowPerSide'
    BY <2>2, <2>3, NoMoreRows
  <2>5. TickKnows'
    BY <1>2, <1>5, <2>2, KnowsStill
  <2>6. QED
    BY <2>4, <2>5 DEF Sides
<1>6. ASSUME NEW s \in Live \cup {"over"},
             call.at \in {"check", "sign", "ack"},
             Answer(call.slot, s), s = "over" => ~MayTrade(call.slot)
      PROVE  Sides'
  <2>1. call.slot \in Slot /\ call.slot \in LiveQuotes
    BY <1>2, <1>6 DEF TickKnows, LiveQuotes, Live
  <2>2. /\ quote' = [quote EXCEPT ![call.slot] = Row(call.slot, s)] /\ Forget
    BY <1>6 DEF Answer
  <2>3. /\ call'.at \in {"idle", "place"}
        /\ call'.at = "place" => call'.want = call.want
    BY <1>6, <2>1, AnswerTyped
  <2>4. QED
    BY <1>5, <1>6, <2>1, <2>2, <2>3
<1>7. CASE Reject
  BY <1>2, <1>6, <1>7 DEF Reject, TickKnows
<1>8. CASE Acknowledge
  <2>1. \E s \in {"over", "working"} :
          /\ Answer(call.slot, s)
          /\ s = "over" => venue[call.slot].status = "refused"
    BY <1>8 DEF Acknowledge
  <2>2. QED
    BY <1>6, <1>8, <2>1 DEF Acknowledge, Live, MayTrade
<1>9. CASE LoseAnswer
  BY <1>6, <1>9 DEF LoseAnswer, AfterError, Live
<1>10. ASSUME NEW i \in Slot, Abandon(i)
       PROVE  Sides'
  <2>1. /\ i \in LiveQuotes /\ ~MayTrade(i) /\ call'.at \in {"idle", "dead"}
    BY <1>10 DEF Abandon, Free, LiveQuotes, Live, MayTrade
  <2>2. quote' = [quote EXCEPT ![i] = Row(i, "over")] /\ Forget
    BY <1>10 DEF Abandon
  <2>3. QED
    BY <1>5, <2>1, <2>2
<1>11. QED
  BY <1>3, <1>4, <1>7, <1>8, <1>9, <1>10

-----------------------------------------------------------------------------
(* Quotes under a timer *)

\* A step that has nothing to do with the timer.
LEMMA TimingKept ==
  ASSUME Timing, UNCHANGED timer, cancelAt' \in {cancelAt, 0},
         call'.taken => /\ call.taken /\ call'.time = call.time
                        /\ call'.at \in {"renew", "cancel"},
         call'.at = "sign" => call.at = "sign" /\ call'.age = call.age,
         \A i \in Slot : venue'[i].status = "flight" => venue'[i] = venue[i]
  PROVE  Timing'
<1>1. TimerIsNear'
  BY DEF Timing, TimerIsNear
<1>2. CheckIsFresh' /\ TakenOnce'
  BY DEF Timing, CheckIsFresh, TakenOnce
<1>3. FlightNearTimer'
  BY DEF Timing, FlightNearTimer
<1>4. QED
  BY <1>1, <1>2, <1>3 DEF Timing

LEMMA OthersKeepTiming ==
  ASSUME TypeOK, Timing,
         \/ \E c \in {"none", "current"} : Configure(c)
         \/ \E S \in SUBSET Slot : Replace(S)
         \/ \E W \in SUBSET Side : Place(W)
         \/ Toggle \/ TickDesk \/ ReadQuotes \/ SyncFails
         \/ Drain \/ Object \/ Schedule
         \/ FarEnough \/ Wait \/ Reject
         \/ Acknowledge \/ LoseAnswer \/ Crash \/ Fire
         \/ \E i \in Slot : \/ Pull(i) \/ CancelQuote(i) \/ Abandon(i)
                            \/ Arrive(i) \/ Refuse(i) \/ Fill(i)
                            \/ \E side \in Side : Draft(i, side),
         call.at \in {"check", "sign", "ack"} => call.slot \in Slot
  PROVE  Timing'
<1>1. call \in CallRow /\ venue \in [Slot -> OrderRow]
  BY DEF TypeOK
<1>2. UNCHANGED timer /\ cancelAt' \in {cancelAt, 0}
  BY DEF Configure, Toggle, TickDesk, ReadQuotes, SyncFails, Pull, CancelQuote,
         Drain, Object, Schedule, FarEnough, Wait, Replace, Place, Draft,
         Reject, Answer, Acknowledge, LoseAnswer, Abandon, Crash, Arrive,
         Refuse, Fill, Becomes, Fire, rows, exchange
<1> DEFINE Calm == /\ call'.taken => /\ call.taken /\ call'.time = call.time
                                     /\ call'.at \in {"renew", "cancel"}
                   /\ call'.at = "sign" =>
                        call.at = "sign" /\ call'.age = call.age
           Same == \A j \in Slot : venue'[j].status = "flight" =>
                     venue'[j] = venue[j]
<1>3. Calm /\ Same => Timing'
  BY <1>2, TimingKept
<1> HIDE DEF Calm, Same
<1>4. UNCHANGED venue => Same
  BY DEF Same
<1>5. Forget => Same
  BY <1>1 DEF Forget, Same, NoOrder
<1>6. TakenOnce
  BY DEF Timing
<1>7. CASE Toggle \/ \E c \in {"none", "current"} : Configure(c)
  <2>1. UNCHANGED venue
    BY <1>7 DEF Configure, Toggle, exchange
  <2>2. /\ call'.taken = call.taken /\ call'.time = call.time
        /\ call'.at = call.at /\ call'.age = call.age
    BY <1>1, <1>7 DEF Configure, Toggle, CallRow
  <2>3. QED
    BY <1>3, <1>4, <1>6, <2>1, <2>2 DEF Calm, TakenOnce
<1>8. CASE TickDesk \/ SyncFails \/ Wait \/ Crash
  <2>1. UNCHANGED venue
    BY <1>8 DEF TickDesk, SyncFails, Wait, Crash, exchange
  <2>2. ~call'.taken /\ call'.at # "sign"
    BY <1>1, <1>6, <1>8, IdleTyped
    DEF TickDesk, SyncFails, Wait, Crash, CallRow, TakenOnce
  <2>3. QED
    BY <1>3, <1>4, <2>1, <2>2 DEF Calm
<1>9. CASE ReadQuotes
  <2>1. Forget
    BY <1>9 DEF ReadQuotes, Sync
  <2>2. ~call'.taken /\ call'.at # "sign"
    BY <1>1, <1>6, <1>9 DEF ReadQuotes, CallRow, TakenOnce
  <2>3. QED
    BY <1>3, <1>5, <2>1, <2>2 DEF Calm
<1>10. CASE Drain \/ Object \/ \E S \in SUBSET Slot : Replace(S)
  <2>1. UNCHANGED venue
    BY <1>10 DEF Drain, Object, Replace, exchange
  <2>2. \E T \in SUBSET Slot : CancelAll(T)
    BY <1>1, <1>10 DEF Drain, Object, Replace, CallRow
  <2>3. Calm
    <3>1. CASE call' = Idle
      BY <3>1, IdleTyped DEF Calm
    <3>2. CASE call' # Idle
      <4>1. PICK T \in SUBSET Slot : call' = [call EXCEPT !.at = "cancel",
                                                         !.todo = ToCancel(T)]
        BY <2>2, <3>2 DEF CancelAll
      <4>2. /\ call'.at = "cancel" /\ call'.taken = call.taken
            /\ call'.time = call.time
        BY <1>1, <4>1 DEF CallRow
      <4>3. QED
        BY <4>2 DEF Calm
    <3>3. QED
      BY <3>1, <3>2
  <2>4. QED
    BY <1>3, <1>4, <2>1, <2>3
<1>11. CASE \/ Schedule \/ FarEnough \/ \E W \in SUBSET Side : Place(W)
            \/ \E i \in Slot, side \in Side : Draft(i, side)
  <2>1. UNCHANGED venue
    BY <1>11 DEF Schedule, FarEnough, Place, Draft, exchange
  <2>2. call.at \in {"decide", "requote", "place"}
    BY <1>11 DEF Schedule, FarEnough, Place, Draft, Quoting
  <2>3. ~call'.taken /\ call'.at # "sign"
    BY <1>1, <1>6, <1>11, <2>2, IdleTyped
    DEF Schedule, FarEnough, Place, Draft, CallRow, TakenOnce
  <2>4. QED
    BY <1>3, <1>4, <2>1, <2>3 DEF Calm
<1>12. ASSUME NEW i \in Slot, Pull(i) \/ CancelQuote(i)
       PROVE  Timing'
  <2>1. Same
    BY <1>1, <1>12 DEF Pull, CancelQuote, CancelAtVenue, Same, OrderRow
  <2>2. call' = Idle \/ /\ call'.at = call.at /\ call'.taken = call.taken
                        /\ call'.time = call.time /\ call'.at # "sign"
    BY <1>1, <1>12 DEF Pull, CancelQuote, CallRow
  <2>3. Calm
    BY <1>6, <2>2, IdleTyped DEF Calm, TakenOnce
  <2>4. QED
    BY <1>3, <2>1, <2>3
<1>13. CASE Reject \/ Acknowledge \/ LoseAnswer
  <2>1. PICK s \in Live \cup {"over"} : Answer(call.slot, s)
    BY <1>13 DEF Reject, Acknowledge, LoseAnswer, AfterError, Live
  <2>2. call.at \in {"check", "sign", "ack"} /\ call.slot \in Slot
    BY <1>13 DEF Reject, Acknowledge, LoseAnswer
  <2>3. Forget
    BY <2>1 DEF Answer
  <2>4. Calm
    BY <1>6, <2>1, <2>2, AnswerTyped DEF Calm, TakenOnce
  <2>5. QED
    BY <1>3, <1>5, <2>3, <2>4
<1>14. ASSUME NEW i \in Slot, Abandon(i)
       PROVE  Timing'
  <2>1. Forget /\ UNCHANGED call
    BY <1>14 DEF Abandon
  <2>2. QED
    BY <1>3, <1>5, <1>6, <2>1 DEF Calm, TakenOnce
<1>15. CASE Fire \/ \E i \in Slot : Arrive(i) \/ Refuse(i) \/ Fill(i)
  <2>1. Same /\ UNCHANGED call
    BY <1>1, <1>15 DEF Arrive, Refuse, Fill, Becomes, Fire, Same, OrderRow
  <2>2. QED
    BY <1>3, <1>6, <2>1 DEF Calm, TakenOnce
<1>16. QED
  BY <1>7, <1>8, <1>9, <1>10, <1>11, <1>12, <1>13, <1>14, <1>15

\* The confirmed time is saved while the timer of the exchange has at least
\* what is left of it, less the transit of an older request.
LEMMA ScheduledKeepsTiming ==
  ASSUME TypeOK, Timing, Scheduled
  PROVE  Timing'
<1>1. /\ call.taken /\ call.at = "renew" /\ cancelAt' = call.time
      /\ call'.at = "requote" /\ ~call'.taken /\ UNCHANGED <<timer, venue>>
  BY DEF TypeOK, Scheduled, CallRow, exchange
<1>2. TimerIsNear' /\ CheckIsFresh' /\ TakenOnce'
  BY <1>1 DEF Timing, TimerIsNear, CheckIsFresh, TakenOnce
<1>3. FlightNearTimer'
  BY <1>1 DEF Timing, FlightNearTimer
<1>4. QED
  BY <1>2, <1>3 DEF Timing

\* More than Margin is left of the saved time, so that the exchange's own timer
\* is still to come.
LEMMA CheckKeepsTiming ==
  ASSUME TypeOK, Timing, Check
  PROVE  Timing'
<1>1. /\ cancelAt > Margin /\ call'.at = "sign" /\ call'.age = 0
      /\ call'.taken = call.taken /\ call.at = "check"
      /\ UNCHANGED <<cancelAt, timer, venue>>
  BY DEF TypeOK, Check, Heartbeat, CallRow, rows, exchange
<1>2. cancelAt \in Int /\ timer \in Int
  BY Numbers DEF TypeOK
<1>3. timer > 0
  BY <1>1, <1>2, Numbers DEF Timing, TimerIsNear
<1>4. ~call'.taken
  BY <1>1 DEF Timing, TakenOnce
<1>5. TimerIsNear' /\ CheckIsFresh' /\ TakenOnce'
  BY <1>1, <1>2, <1>3, <1>4 DEF Timing, TimerIsNear, CheckIsFresh, TakenOnce
<1>6. FlightNearTimer'
  BY <1>1 DEF Timing, FlightNearTimer
<1>7. QED
  BY <1>5, <1>6 DEF Timing

LEMMA DispatchKeepsTiming ==
  ASSUME TypeOK, Timing, Dispatch, call.slot \in Slot
  PROVE  Timing'
<1>1. call \in CallRow /\ venue \in [Slot -> OrderRow] /\ timer \in Int
  BY Numbers DEF TypeOK
<1>2. UNCHANGED <<cancelAt, timer>> /\ ~call.taken /\ call.at = "sign"
  BY DEF Dispatch, rows, Timing, TakenOnce
<1>3. CASE call.age > Lag
  <2>1. call'.at = "check" /\ ~call'.taken /\ UNCHANGED venue
    BY <1>1, <1>2, <1>3 DEF Dispatch, CallRow
  <2>2. QED
    BY <1>2, <2>1, TimingKept
<1>4. CASE ~ (call.age > Lag)
  <2>1. /\ call'.at = "ack" /\ ~call'.taken
        /\ \A j \in Slot : venue'[j] =
             IF j = call.slot THEN [status |-> "flight", left |-> Window]
               ELSE venue[j]
    BY <1>1, <1>2, <1>4 DEF Dispatch, CallRow
  <2>2. timer + Lag > 0
    BY <1>1, <1>2, <1>4, Numbers DEF Timing, CheckIsFresh, CallRow
  <2>3. FlightNearTimer'
    BY <1>1, <1>2, <2>1, <2>2, Numbers DEF Timing, FlightNearTimer
  <2>4. TimerIsNear' /\ CheckIsFresh' /\ TakenOnce'
    BY <1>2, <2>1 DEF Timing, TimerIsNear, CheckIsFresh, TakenOnce
  <2>5. QED
    BY <2>3, <2>4 DEF Timing
<1>5. QED
  BY <1>3, <1>4

\* Whichever request comes last, it asked for more than is gone of it.
LEMMA TakeTimerKeepsTiming ==
  ASSUME TypeOK, Timing, NEW r \in request, TakeTimer(r)
  PROVE  Timing'
<1>1. /\ timer' = r.time /\ r.time >= Horizon - Window /\ r.time >= 1
      /\ r.time \in Int
  BY Numbers DEF TypeOK, TakeTimer, RequestRow
<1>2. /\ UNCHANGED <<cancelAt, venue>> /\ call'.at = call.at
      /\ call'.time = call.time /\ call'.age = call.age
      /\ call'.taken => call.taken \/ call.at = "renew"
  BY DEF TypeOK, TakeTimer, rows, CallRow
<1>3. /\ cancelAt \in 0 .. Horizon /\ call.time \in 0 .. Horizon
      /\ call.age \in 0 .. Lag + 1
  BY DEF TypeOK, CallRow
<1>4. TimerIsNear' /\ CheckIsFresh' /\ TakenOnce'
  BY <1>1, <1>2, <1>3, Numbers
  DEF Timing, TimerIsNear, CheckIsFresh, TakenOnce
<1>5. FlightNearTimer'
  <2>1. \A i \in Slot : venue[i].left \in 0 .. Window
    BY DEF TypeOK, OrderRow
  <2>2. QED
    BY <1>1, <1>2, <2>1, Numbers DEF FlightNearTimer
<1>6. QED
  BY <1>4, <1>5 DEF Timing

\* All times are counted down together.
LEMMA TickKeepsTiming ==
  ASSUME TypeOK, Timing, Tick
  PROVE  Timing'
<1>1. /\ call \in CallRow /\ cancelAt \in 0 .. Horizon
      /\ timer \in -Longest .. Horizon /\ venue \in [Slot -> OrderRow]
  BY DEF TypeOK
<1>2. /\ timer' = IF timer = -Longest THEN timer ELSE timer - 1
      /\ cancelAt' = Less(cancelAt) /\ call'.time = Less(call.time)
      /\ call'.age = IF call.at = "sign" /\ call.age <= Lag
                       THEN call.age + 1 ELSE call.age
      /\ call'.at = call.at /\ call'.taken = call.taken
  BY <1>1 DEF Tick, CallRow
<1>3. call.time \in 0 .. Horizon /\ call.age \in 0 .. Lag + 1
  BY <1>1 DEF CallRow
<1>4. TimerIsNear'
  <2>1. cancelAt' > 0 => timer' >= cancelAt' - Window
    BY <1>1, <1>2, Numbers DEF Timing, TimerIsNear, Less
  <2>2. call'.taken /\ call'.time > 0 => timer' >= call'.time - Window
    BY <1>1, <1>2, <1>3, Numbers DEF Timing, TimerIsNear, Less
  <2>3. QED
    BY <2>1, <2>2 DEF TimerIsNear
<1>5. CheckIsFresh' /\ TakenOnce'
  BY <1>1, <1>2, <1>3, Numbers DEF Timing, CheckIsFresh, TakenOnce
<1>6. FlightNearTimer'
  <2> SUFFICES ASSUME NEW i \in Slot, venue'[i].status = "flight"
               PROVE  venue'[i].left < timer' + Window + Lag
    BY DEF FlightNearTimer
  <2>1. /\ venue[i].status = "flight" /\ venue[i].left \in 1 .. Window
        /\ venue'[i].left = venue[i].left - 1
    BY <1>1, Numbers DEF Tick, OrderRow, Less
  <2>2. venue[i].left < timer + Window + Lag
    BY <2>1 DEF Timing, FlightNearTimer
  <2>3. QED
    BY <1>1, <1>2, <2>1, <2>2, Numbers
<1>7. QED
  BY <1>4, <1>5, <1>6 DEF Timing

-----------------------------------------------------------------------------
(* The inductive invariant holds *)

LEMMA InitIInv == Init => IInv
<1> SUFFICES ASSUME Init
             PROVE  IInv
  OBVIOUS
<1>1. TypeOK
  <2>1. 0 \in 0 .. Horizon /\ -Longest \in -Longest .. Horizon
    BY Numbers
  <2>2. QED
    BY <2>1, IdleTyped DEF Init, TypeOK
<1>2. \A i \in Slot : quote[i].state = "over" /\ venue[i].status = "none"
  BY IdleTyped DEF Init, NoOrder
<1>3. call.at = "idle" /\ ~call.taken /\ cancelAt = 0
  BY IdleTyped DEF Init
<1>4. LiveQuotes = {} /\ \A i \in Slot : ~MayTrade(i)
  BY <1>2 DEF LiveQuotes, Live, MayTrade
<1>5. Sides
  BY <1>3, <1>4 DEF Sides, TradingIsLive, OneRowPerSide, TickKnows
<1>6. Timing
  BY <1>2, <1>3
  DEF Timing, TimerIsNear, CheckIsFresh, TakenOnce, FlightNearTimer
<1>7. QED
  BY <1>1, <1>5, <1>6 DEF IInv

LEMMA StepIInv == IInv /\ [Next]_vars => IInv'
<1> SUFFICES ASSUME IInv, [Next]_vars
             PROVE  IInv'
  OBVIOUS
<1>1. TypeOK /\ Sides /\ Timing
  BY DEF IInv
<1>2. call.at \in {"check", "sign", "ack"} => call.slot \in Slot
  BY <1>1 DEF Sides, TickKnows
<1>3. CASE UNCHANGED vars
  <2>1. UNCHANGED <<enabled, config, cancelAt, quote, call, timer, armed,
                    request, venue>>
    BY <1>3 DEF vars, rows, exchange
  <2>2. TypeOK'
    BY <1>1, <2>1 DEF TypeOK
  <2>3. Sides'
    BY <1>1, <2>1 DEF Sides, TradingIsLive, OneRowPerSide, TickKnows,
                      LiveQuotes, MayTrade
  <2>4. Timing'
    BY <1>1, <2>1 DEF Timing, TimerIsNear, CheckIsFresh, TakenOnce,
                      FlightNearTimer
  <2>5. QED
    BY <2>2, <2>3, <2>4 DEF IInv
<1>4. CASE Next
  <2>1. TypeOK'
    BY <1>1, <1>2, <1>4, WorkTyped, ExchangeTyped DEF Next, Progress
  <2>2. Sides'
    BY <1>1, <1>4, LooksKeepSides, OrdersKeepSides, RowsKeepSides
    DEF Next, Progress
  <2>3. Timing'
    <3>1. Dispatch => call.slot \in Slot
      BY <1>2 DEF Dispatch
    <3>2. QED
      BY <1>1, <1>2, <1>4, <3>1, OthersKeepTiming, ScheduledKeepsTiming,
         CheckKeepsTiming, DispatchKeepsTiming, TakeTimerKeepsTiming,
         TickKeepsTiming DEF Next, Progress
  <2>4. QED
    BY <2>1, <2>2, <2>3 DEF IInv
<1>5. QED
  BY <1>3, <1>4

-----------------------------------------------------------------------------
(* Quotes that come to rest *)

\* Only an order under way comes to rest, and that is all that happens then.
LEMMA RestsOnArrival ==
  ASSUME TypeOK, [Next]_vars, NEW i \in Slot,
         venue[i].status # "open", venue'[i].status = "open"
  PROVE  Arrive(i)
<1>1. venue \in [Slot -> OrderRow] /\ NoOrder.status # "open"
  BY DEF TypeOK, NoOrder
<1>2. venue' # venue
  OBVIOUS
<1>3. ~Forget
  <2>1. ASSUME Forget
        PROVE  venue'[i] \in {venue[i], NoOrder}
    BY <2>1, ForgetTyped
  <2>2. QED
    BY <1>1, <2>1
<1>4. ~(ReadQuotes \/ Reject \/ Acknowledge \/ LoseAnswer)
  BY <1>3 DEF ReadQuotes, Sync, Reject, Acknowledge, LoseAnswer, Answer
<1>5. \A j \in Slot : ~Abandon(j)
  BY <1>3 DEF Abandon
<1>6. \A j \in Slot : ~Pull(j) /\ ~CancelQuote(j)
  BY <1>1, <1>2 DEF Pull, CancelQuote, CancelAtVenue
<1>7. ~Dispatch
  BY <1>1, <1>2 DEF Dispatch
<1>8. ~Fire /\ ~Tick
  <2>1. venue[i] \in OrderRow
    BY <1>1
  <2>2. Fire => venue'[i] = [venue[i] EXCEPT !.status = "canceled"]
                  \/ venue'[i] = venue[i]
    BY DEF Fire
  <2>3. Tick => venue'[i] = [status |-> "refused", left |-> 0]
                  \/ venue'[i] = [venue[i] EXCEPT !.left = Less(@)]
    BY DEF Tick
  <2>4. QED
    BY <2>1, <2>2, <2>3 DEF OrderRow
<1>9. \A j \in Slot : ~Refuse(j) /\ ~Fill(j) /\ (j # i => ~Arrive(j))
  BY <1>1 DEF Refuse, Fill, Arrive, Becomes
<1>10. /\ ~(\E c \in {"none", "current"} : Configure(c))
       /\ ~Toggle /\ ~TickDesk /\ ~Crash
       /\ ~(\E r \in request : TakeTimer(r))
  BY <1>2 DEF Configure, Toggle, TickDesk, Crash, TakeTimer, exchange
<1>11. /\ ~SyncFails /\ ~Drain /\ ~Object /\ ~Schedule /\ ~Scheduled
       /\ ~FarEnough /\ ~Wait /\ ~Check
  BY <1>2 DEF SyncFails, Drain, Object, Schedule, Scheduled, FarEnough, Wait,
              Check, exchange
<1>12. /\ ~(\E S \in SUBSET Slot : Replace(S))
       /\ ~(\E S \in SUBSET Side : Place(S))
       /\ ~(\E j \in Slot, side \in Side : Draft(j, side))
  BY <1>2 DEF Replace, Place, Draft, exchange
<1>13. ~(UNCHANGED vars)
  BY <1>2 DEF vars, exchange
<1>14. ~Progress
  BY <1>4, <1>6, <1>7, <1>11, <1>12 DEF Progress
<1>15. QED
  BY <1>5, <1>8, <1>9, <1>10, <1>13, <1>14 DEF Next

-----------------------------------------------------------------------------
(* Theorems *)

\* Types and ranges: how far ahead a timer is, how old a request or a check.
THEOREM TypeCorrect == Spec => []TypeOK
<1>1. IInv => TypeOK
  BY DEF IInv
<1>2. QED
  BY <1>1, InitIInv, StepIInv, PTL DEF Spec

\* One order per side that may trade: tickQuotes goes by the rows it read after
\* syncLedger, and a row outlives its order.
THEOREM OneQuotePerSideHolds == Spec => []OneQuotePerSide
<1>1. IInv => OneQuotePerSide
  BY DEF IInv, Sides, TradingIsLive, OneRowPerSide, OneQuotePerSide
<1>2. QED
  BY <1>1, InitIInv, StepIInv, PTL DEF Spec

\* A quote comes to rest while a cancellation is armed or less than Window + Lag
\* after it passed, for any Margin that is not less than Window: the requests
\* for the timer that overtake each other cost no more than that.  (That
\* such a quote then stays without one, run quotes_timer shows.)
THEOREM QuotesUnderTimerHolds == Spec => QuotesUnderTimer
<1>1. ASSUME IInv, [Next]_vars, NEW i \in Slot,
             venue[i].status # "open", venue'[i].status = "open"
      PROVE  -timer < Window + Lag
  <2>1. venue[i].status = "flight"
    BY <1>1, RestsOnArrival DEF IInv, Arrive
  <2>2. venue[i].left < timer + Window + Lag
    BY <1>1, <2>1 DEF IInv, Timing, FlightNearTimer
  <2>3. venue[i].left \in Nat /\ timer \in Int
    BY <1>1, Numbers DEF IInv, TypeOK, OrderRow
  <2>4. QED
    BY <2>2, <2>3, Numbers
<1>2. IInv /\ [Next]_vars =>
        [\A i \in Slot :
           venue[i].status # "open" /\ venue'[i].status = "open" =>
             armed \/ -timer < Window + Lag]_vars
  BY <1>1
<1>3. QED
  BY <1>2, InitIInv, StepIInv, PTL DEF Spec, QuotesUnderTimer
=============================================================================
