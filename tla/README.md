# A verification development for centrypto

centrypto is a trading application for the Hyperliquid exchange: a Next.js web
application, a set of worker processes, and the databases they share. Its
newest and most delicate part is the *desk* (`src/lib/desk`,
`src/services/TradingDeskWorker.ts`): autonomous "books" in which role-playing
language models deliberate in shifts and may send real orders, under an
operator's mandate. The desk is where processes race, crash and wait for
answers that may never come, and where an error costs money. Around it are
services with protocols of their own: the collection and analysis of news, the
inference queue, the jobs and the older auto-trader. The modules here model
both; this file says how, what is checked and what is proved.

Source paths without a directory are relative to `src/lib/desk/`.

## 1. Inventory

### The desk

| part | state | operations | what makes it correct |
|---|---|---|---|
| Execution lease and write path (`execution.ts` 58-147, `venue.ts` 130-164) | `DeskExecutionLease` row per owner and network (token, expiresAt, nonce); `DeskBook` row; kill switch | `locked`, its renewal timer, `authorize`, `write`, signing and POST | nonces unique and in order; a call that lost lease, mandate or permission is cut off within the window of its signature |
| Orders and reservations (`execution.ts` 148-498, `execution-risk.ts`) | `DeskIntent` rows: state, reservation, filled quantity | `preview`, `execute`/`submit`, `cancel`, `reconcile`, `abandon`, `adopt` | a key is sent once; whatever the exchange may still trade is reserved; exposure under the cap |
| Ledger (`execution-ledger.ts`) | `DeskCashFlow`, `DeskInventory`, `DeskExecutionState` | `syncLedger` | each fill is booked once; orders settle; a difference between ledger and account is found |
| Protective orders (`execution.ts` 499-714, 1019-1043) | guard intents, stop and target prices | `revise`, `protect`, the exits of `tick` | a held position never loses its stop to its own replacement; a crossed stop ends the position |
| Pairs (`execution.ts` 715-859) | `DeskPair` | `pair`, `advancePair` | both legs or none, whatever becomes of single orders; a pair ends |
| Quotes (`execution.ts` 860-1061) | `quoteJson`, `cancelAt` | `configureQuotes`, `tickQuotes`, `tick` | one quote per side; quotes come to rest under a scheduled cancellation; a stopped book drains |
| Shifts (`shifts.ts`, `TradingDeskWorker.ts`) | `DeskWake`, `DeskShift`, `DeskRecord`; the worker's tasks, `lastRecovery` | `poll`, `claimShift`, `runShift` (renew, pause, complete, fail), `queueWake` | one running shift; orders from one run of a shift only; urgent events are taken; shifts end |
| Tools (`tools.ts`) | `DeskRecord` (dispatch, results) | some 30 tools behind one `authorize` | no write without lease, mandate, mode and role |
| News intake (`triggers.ts` 53-235, `../news/desk-*.ts`) | news cursor, partial-scan record, wakes `news:` | `ingestNews`, `deskNewsSince`, `routeRevision` | nothing that concerns the book is passed over; of an event only the newest revision waits |
| Watches, passes and samples (`triggers.ts` 235-, `pass-review.ts`, `routine-work.ts`, `market.ts`) | `DeskWatch` rows | `requestWatch`, `processWatches`, `sampleMarket`, `releaseNewsPasses` | a pass keeps moves from the desk only while it stands |
| Roundtable (`roundtable.ts`, `roles.ts`, `save` of `shifts.ts`) | notes of a shift, the waves of a run | `runRoundtable`, `recoverContext`, `save` | notes on record were written from the notes on record |
| Research (`research.ts`, `public-cache.ts`, `read-cache.ts`) | `DeskPublicCache`, receipts, shared retrievals | `search_public_sources`, `read_public_source`, `memo` | nobody is told what a correction has superseded |
| Turn of a role (`runtime.ts`, `token-usage.ts`) | connection to the model's process, `DeskTokenUsage` | `callAppServer`, `beginTokenMeter` | no tokens without a row; totals that arrive are kept |
| Parsers (`instruments.ts`, `mandate.ts`) | none | | |

Interactions: the worker's loop polls each book every 5 s and starts at most
one task of each kind per book (execution tick, watches, news, market, fills,
roundtable). The roundtable task claims and runs a shift; the roles' tools call
`DeskExecution`; so do the web routes, for the operator. Everything meets in
the database rows above, which are read and written in many short transactions
with awaits between them, and at the exchange.

### Around it

| part | state | operations | what makes it correct |
|---|---|---|---|
| Inference queue (`src/services/CodexQueueService.ts`) | `CodexJob` rows, the CLI lease | `enqueue`, `submit`, `cancel`, `runOne` | what is given up is not run; one job at a time |
| News analysis (`src/services/NewsIntelligenceService.ts`) | `NewsDocument`, `NewsAnalysis`, in another database | `ingest`, `enqueueAnalysis`, `finalizeAnalyses`, `retryRejected`, `deleteSource` | a job runs on documents claimed for it; no document is stuck |
| Source collection (`src/collector`) | lease of a source, tasks in the browser | `/v1/tasks`, `/v1/captures`, `saveSource` | evidence is stored under the configuration that captured it |
| Analysis jobs (`src/services/OrchestratorService.ts`) | `AnalysisJob` rows, a lock and controllers in memory | submit, run, start the next, cancel, clean up | one runs, one waits, the one that waits is started |
| Limiter of requests (`src/lib/rate-limit/hyperliquid-limiter.ts`, `src/lib/hyperliquid-info.ts`) | buckets, a cache, flights in memory | `enqueue`, `hyperliquidInfoPost`, `fetchWithRateLimit` | requests keep their distance; who asks is answered |
| Stream of order books (`src/lib/hyperliquid-ws.ts`, `src/services/OrderBookManager.ts`) | socket, subscriptions, timers | `connect`, `resubscribe`, `updateSubscriptions` | what is tracked is delivered once the connection lasts |
| Legacy auto-trader (`src/services/AutoTraderService.ts`) | `AutoTraderSettings`, `AutoTraderRun` | `configure`, `runDueOnce`, `claimSettings`, `finalizeStaleRuns` | it and a desk book exclude one another |

Beyond these: the trader library (`src/lib/trader`, `src/lib/risk`), the other
exchange clients, market collectors, screener and sentiment services, wallet
sessions and delegated keys, the web application, and the backtester.
`PROJECT.json` lists each of them with its status.

### Hard behaviours

`PROJECT.json` lists the hazards with their lines. In short: authorization is
checked by several reads and used later; leases expire under a running call;
answers to POSTs get lost while the order lives; calls crash between a row and
the POST it announces; one sync asks the exchange several questions while it
trades; a stop is replaced, a leg unwound, a quote placed by orders whose own
fate may be unknown; a timer at the exchange races the quotes placed under it;
a worker decides by rows it read seconds ago; shifts are interrupted, taken
over, resumed and retried with orders possibly out; a page of news is read
while the log grows and the mandate changes; a deliberation goes on beside the
one that took its shift over; research is corrected while it is being cached; a
turn fails with its last messages on the way; two databases have no common
transaction; a job is cancelled while it is being started.

## 2. Modules

| module | models | companions |
|---|---|---|
| `NonceTenure` | what the lease promises, abstractly | `DeskLeaseProofs` |
| `DeskLease` | `locked`, `authorize`, `write`, the venue's signing steps; implements `NonceTenure` | `MCDeskLease`, `DeskLeaseProofs` |
| `DeskIntents` | `submit`, `reconcile`, `abandon`, `adopt` and `syncLedger` against an exchange with a will of its own | `MCDeskIntents`, `MCDeskBook`, `DeskIntentsProofs`, `SumTheorems` |
| `DeskGuards` | `protect`, `revise`, the exits of `tick`, adoption and release | `MCDeskDirectional`, `DeskDirectionalProofs` |
| `DeskPair` | `pair`, `advancePair` and the submissions they make | `MCDeskDirectional`, `DeskDirectionalProofs` |
| `DeskQuotes` | `configureQuotes`, `tickQuotes`, the scheduled cancellation | `MCDeskQuotes`, `DeskQuotesProofs` |
| `DeskShifts` | `poll`, `claimShift`, `runShift`, the authorization of a tool | `MCDeskShifts`, `DeskShiftsProofs` |
| `DeskNews` | `ingestNews` and what it calls | `MCDeskBook`, `DeskBookProofs` |
| `DeskPasses` | passes: `requestWatch`, `sampleMarket`, `releaseNewsPasses`, `processWatches` | `MCDeskBook`, `DeskBookProofs` |
| `DeskRoundtable` | `runRoundtable`, `save`, `recoverContext` of one shift | `MCDeskBook`, `DeskBookProofs` |
| `DeskResearch` | public research of a shift's roles, with its caches | `MCDeskBook`, `DeskBookProofs` |
| `DeskTurn` | one turn at the model and its meter: `callAppServer`, `beginTokenMeter` | `MCDeskBook`, `DeskBookProofs` |
| `NewsIntelligence` | the intelligence worker: inference queue and news analysis | `MCServices`, `ServicesProofs` |
| `NewsCollection` | bridge and extension that collect a source | `MCServices`, `ServicesProofs` |
| `AnalysisJobs` | the jobs of one wallet | `MCServices` |
| `LegacyTrader` | the auto-trader against the switch of the desk | `MCServices`, `ServicesProofs` |
| `RequestLimiter` | the limiter of requests, for one bucket | `MCServices`, `ServicesProofs` |
| `MarketStream` | the stream of order books under its managers | `MCServices` |

The modules of the desk are layers. `DeskLease` justifies that `DeskIntents`,
`DeskGuards`, `DeskPair` and `DeskQuotes` let one call run at a time;
`DeskShifts` says which shift may make such calls; `DeskNews` and `DeskPasses`
produce the wakes that `DeskShifts` takes; `DeskRoundtable`, `DeskResearch` and
`DeskTurn` are what happens between the claim of a shift and its tools.
`DeskIntents` has the whole of `submit`; the three modules beside it have of
`submit` what their properties depend on (the row before the POST, the lost
answer, the sync before and after).

In all of them an action is the code between two awaits; a crash may come
between any two. `call` (`reader`, `sampler`, `worker`, ...) is a running
function with what it has read; its field `at` is the await it stands at. A
definition commented *Variant* is a plausible error in the definition that
follows it; nothing uses it but the mutants listed in `PROJECT.json`, which
show that each property can fail.

### NonceTenure

A credential that calls hold one after the other; the present holder may be
issued a nonce above all earlier ones. A former holder need not know it is one.

### DeskLease

A *call* is one execution of `locked()`; its random token is its identity.
`lease` is the `DeskExecutionLease` row, `book` the two columns of `DeskBook`
that matter, `kill` the kill switch. `pc` is the await a call is at:

`new` -Start-> `claim` -Claim/Busy-> `task` -Write-> `write` -Authorize-> `row`
-ReadRow-> `cas` -TakeNonce-> `sign` -Authorize-> `stamp` -Sign-> `post`
-Authorize-> `dispatch` -Dispatch-> `task` ... -Release-> `done`

Each of the three passes of `authorize` waits for three reads (`reads`), which
`Promise.all` starts together and the database answers in any order. A crash is
a call that takes no further step. The exchange (`Accept`, external) acts on a
request at any time until its `expiresAfter`, once.

Abstractions: one clock for hosts and exchange (their difference adds to the
window of the properties); one owner, so one row; the authority of the shift
(`authority.getStore`) is in `DeskShifts`; the risk recheck that `submit` adds
is in `DeskIntents`. `turn`, `rank`, `issued`, `lostAt`, `replacedAt`,
`killedAt` are history: no action reads them.

### DeskIntents

`intent`, `flows`, `inv` and `lastSync` are the rows; `call` is the one call
that runs (the lease's doing) with what it has read; `order`, `fills`, `pos`
are the exchange. `submit` is `Submit`, a first sync, `Draft`, a second sync,
`Dispatch`, then `Acknowledge` or `LoseAnswer`; a sync is `Fetch`, one
`ReadStatus` per live order, `ReadAccount`, one `Import` per fill, `Settle`,
`Compare`, and everything else may move between any two of them. `Crash` ends a
call anywhere, and also stands for an exception with nothing to undo; the next
call may start at once, which is more than the lease allows (it makes the next
one wait out the term).

Abstractions: one instrument; every order buys `Size` lots (an order that
reduces a position reserves nothing and takes none of the decisions modelled);
attached stops and targets appear only by the error they may cause
(`childError`); guards, pairs and the quote loop have modules of their own; an
account snapshot is the position (rows that count as reserved only because the
venue lists their order as open, `execution.ts` 205-208, reserve 0 by then);
prices are constant, so that usd and lots are one; the recheck before the POST
is always made (the code skips it for 1 s after the last one, which is a sync
that took no time). `cloid` is a function of the key, so the key names the order
at the exchange. Fills come from a time range that begins at or before the last
sync: `Fetch(from)` takes any start up to there.

`Patience` is the time from the draft to the POST. The code sets no bound on
it, and if it were longer than `AbandonAge - Window` (112 s) an operator could
release the reservation of an order that is still to be sent; the assumption
`PatienceAssumption` states what the code relies on, and both the runs and the
proofs use it.

### DeskGuards

One long position and its stops. `inv` is the `DeskInventory` row (quantity,
wanted stop, suspension), `guard` the rows of stops, `venue` what became of
each, `cancels` and `exits` what is under way. A tick is `TickDesk`,
`BookFills`, `ReadAccount`, then one of the branches of `protect` in its order:
`RemoveAll` (suspended, gone or disputed), `Skip`, `Keep`, `NoneWanted`,
`CrossedExit`, `RefuseReplacement`, `Draft` - `Dispatch` - `Acknowledge`,
`Refused` or `LoseAnswer`, and last the cancellations, one by one. `Revise` is a
tick with a new stop. An exit has a key made of the inventory row's
`updatedAt`; `sent` has the keys that were used with its present value. The
ledger takes a fill of an attached stop for one of its entry, whose stop it then
writes to the row again (`execution-ledger.ts` 169-171); `entered` is the stop
that the next `BookFills` will write.

Abstractions: a target behaves as a stop does and is left out; lots and prices
are small numbers; a position is long; `Enter` and `Reduce` are orders that go
through at once, the rest of `submit` being in `DeskIntents`; a slot (row) that
is over is used again when the exchange cannot act on it any more, and `Enter`
and `Revise` need one that is free for the stop they lead to (a bound).

### DeskPair

`pair` and `row` are the rows, `late` the deadline or another version of the
book, `call` the tick. `TickPair` or `Open` begins; a sync is `Fetch`,
`ReadStatus`, `Import`; at `advance` exactly one branch of `advancePair` is
possible: `SubmitFirst`, `AwaitFirst`, `SubmitSecond`, `Complete`, `Hedge`,
`SettleLegs`, `UnwindLeg` or `Unwound`. A submission is `Send`, a sync, `Draft`,
a sync, `Dispatch`, `Acknowledge` or `LoseAnswer`, as in `DeskIntents`.

Abstractions: both legs have the same quantity; the unhedged budget is one of
the checks before the POST that may fail (`Reject`); orders may rest although
the code sends them as immediate-or-cancel, which it does not rely on. `slipped`
is history.

### DeskQuotes

`quote` are the rows of quotes, `cancelAt` the scheduled cancellation the
database knows, `timer` and `armed` the one of the exchange, `request` calls of
`scheduleCancel` under way, which may overtake each other. Times are times left,
so that `Tick` counts all of them down and behaviours are infinite; `timer` goes
on below zero, as the time since the cancellation, for as long as a request can
still arrive. A tick is
`TickDesk`, `ReadQuotes`, then `Drain`, `Object` (anything `tickQuotes` objects
to), or `Schedule` - `Scheduled` and `FarEnough`, then `Wait`, `Replace` or
`Place` with `Draft`, `Check`, `Dispatch` and the answer for each side.

Abstractions: where a quote should be is a choice (`Replace`); a quote is
filled as a whole or not; `Object` may come whenever the code has a condition
that may lead there.

The code asks for `Margin` (8 s) of the timer before a quote is stamped, up to
`Lag` (1 s) later, with an expiry `Window` (8 s) ahead, so a quote may reach the
exchange up to `Lag` after the cancellation fired, and then rests with none
armed until the next one is scheduled. `QuotesUnderTimer` is therefore an action
property: a quote comes to rest only with a cancellation armed, or less than
`Window + Lag` after the last one. It does not say that every quote at rest is
under one; this is `ProtectedOnDisconnect`, which `quotes_timer` refutes.

### DeskShifts

`book`, `wake`, `shift`, `dispatched` are the rows (`DeskBook`, `DeskWake`,
`DeskShift`, `DeskRecord` of kind dispatch), `pc` and `run` a worker process and
what it has read. `Poll` is the part of `poll` that decides on a roundtable
task, with its outage copies; `Claim` is the serializable transaction of
`claimShift`, all of it; `Begin` to `Fail` is `runShift` with the tools in it.

Abstractions: no clock - a lease may expire at any time, and whether a shift is
older than the limit is chosen when it is looked at; the worker's identity
stands for the lease token, since a worker has one roundtable task per book;
wakes are urgent events (priority 10, live), an operator's research messages
(8), scheduled reviews (5, live) and the outage copies; other wakes (news 4,
fills 7, instructions 8, deadlines, watches, follow-ups) differ from these by
priority or are merged into agendas, and `dueAt`, `expiresAt` and the limit of
36 wakes per shift are left out; the renewal timer's read and its guarded pause
are one step; `deskProbeCoolingDown` is a poll that does not come; what the
roles do with their tools is one interval here, and `DeskRoundtable` has it.

### DeskNews

`log` is the table of revisions, `cursor` and `progress` the book's place in it,
`wake` the notices. One `ingestNews` is `Start`, then in any order `ReadScope`
(the exposure, complete or not) and `ReadWakes` (waiting notices and the
checkpoint), `ReadRows` (the page), `ReadLatest` (of each event the newest
revision), `Route`, and the transaction: `Commit`, or `GiveUp` if version or
cursor are not as read. Another version of the book, `Claim` (a shift takes a
notice) and `Expire` may come at any point.

Abstractions: what the book holds does not change; a revision is an event and a
kind, the four kinds being what `routeRevision` tells apart; under partial
coverage the exposure is any set, as the code goes by an older answer or takes
everything for held; `releaseNewsPasses`, in the same transaction, is in
`DeskPasses`; there is one reader, as `TradingDeskWorker.start` starts one task
of a kind per book (the hazard at `triggers.ts` 140 says what two would do).

### DeskPasses

`pass` are the `DeskWatch` rows of kind pass on one instrument, `sampler` a
`sampleMarket`, `watcher` the outcomes a `processWatches` has read. `Decide` is
`requestWatch`; `Sample`, `List`, `Observe`, `Commit` are `sampleMarket` with
`observePasses` and `routePasses`; `Release` is `releaseNewsPasses`;
`ReadWatches` and `Close` are `processWatches` at a deadline.

Abstractions: whether the instrument is held, has an order or can be quoted,
and the quote itself, are choices of `Observe`; other kinds of watches (price
alerts, scheduled reviews) are left out.

### DeskRoundtable

One shift and the runs it has, one per claim: `note` are the `DeskRecord` rows
of kind note, each with the run that wrote it and the notes it was written from,
`run` and `turn` what a run has in memory. `Recover` is `recoverContext`,
`BeginWave` the snapshot of the notes before a wave, `Answer`, `FailTurn` and
`Save` the task of one role with the fenced insert of its note. A run that has
lost its lease (`Lapse`, `Claim`) goes on until it hears of it (`Stop`).

Abstractions: a note is the run that wrote it; routine shifts, whose roles see
no notes, and consultations, which leave none, are left out.

### DeskResearch

One topic, source and angle. `row`, `receiptRow` are `DeskPublicCache`,
`receipts` and `board` what the process keeps, `inFlight` the retrievals that
requests of one revision share, `call` what each role waits for; `revision` is
the newest revision in the book's wakes. A retrieval asks the cache, retrieves,
looks at the revision again and is put under the one it finds; a request whose
revision has passed meanwhile asks again. Rows expire or are pushed out at any
time.

Abstractions: a result is the revisions on record when its retrieval began and
ended (history) and the one it is filed under; what it says is left out.

### DeskTurn

The host (`at` is how far `callAppServer` is), the model in its process, and the
meter. `pipe` are the messages on their way, `writes` the totals in the chain of
updates. `Receive` is `receive` and `dispatch`; `Fail` is a timeout, a
cancellation, the end of the process or an invalid message; `Write` and
`WriteFails` are the chain; `Finish` waits for it; `Crash` ends the worker's
process.

Abstractions: which messages and contents are valid is a choice; a turn has one
thread; the sums over rows are left out.

### NewsIntelligence

`job`, `lease` are rows of the local database, `doc` of the news database;
`worker` is the loop of `start_intelligence_worker.ts`, `client` a call of
`submit`, `remover` one of `deleteSource`. A turn of the loop is
`finalizeAnalyses` (`ListPreparing` ... `Recover`, `ListAnalyzing` ... `Store`),
`enqueueAnalysis` (`BeginBatch`, `Create`, `ClaimDocs`, `Activate`), and
`runOne` (`TakeLease`, `ResetOld`, `Pick`, `Start`, `Run`, `Save`, `Release`),
one action per statement. `Trip` is a query that fails, `Crash` the end of the
process.

A document is its place in the order in which `enqueueAnalysis` reads those that
are pending, by the priority of the source and then by age, so that one ingested
later may have a place before others. A batch (`BeginBatch`) is a first part of
the pending documents, at most `Batch` of them; how many is a choice, which
stands for the limit of 60 000 characters. (Of the 200 documents that are read
at most 40 are used.) Documents whose job fails are pending again and go first
again, so that those behind them may wait for ever: `DocumentsMove` has this as
an exception (`Overtaken`), and is violated without it.

Abstractions: contents, revisions, retention and expiry (`cleanup`) and
briefings; a row of a job that is over is used again (a bound). `stale` is
history.

### NewsCollection

One source: `lease`, `current`, `due`, `stopped` are its row, `poll` handlers of
`GET /v1/tasks`, `task` what the browser does, `sent` requests on their way to
`POST /v1/captures`, which may be lost or handled after the extension has given
them up. `Store` is the transaction of captures and of reports alike. Several
sources in one answer and pairing are left out. `mixed` is history.

### AnalysisJobs

`row` are the `AnalysisJob` rows of one wallet; `lock` is the chain of promises
of `withWalletJobLock`, `active` and `aborted` the controllers in memory. What a
job does (`runTraderCycle`) is one step that ends in any way. An id is used
again when its row was cleaned up (a bound).

### LegacyTrader

`book`, `enabled`, `status`, `due` are columns of the two settings, `run` and
`left` the rows of runs of living and of dead cycles. `UpdateBook` and
`Configure` are the transactions with their checks and triggers; a process goes
through `ListDue`, `FinalizeStaleRuns`, `Claim`, `StartRun`, `FinishRun`,
`Report`. `beside` is history: the property is about the claim, and what it
does not promise (a claimed cycle that begins to trade later) is a hazard in
`PROJECT.json`.

### RequestLimiter

One bucket (buckets share nothing). `tail`, `previous` are the chain of promises
of `enqueue`, `at`, `wait`, `tries` a request's place, sleep and attempts,
`cache` what `hyperliquidInfoPost` keeps with its flights, `asks` the callers.
`Turn` begins a request whose predecessor is done, `Wake` ends its sleep,
`Headers` are the beginning of an answer, with which the turn is over, `Answer`
its body; `Fails` is a failure of either, `BackOff` a 429, `Retry` the attempt
after it. Times are times left.

### MarketStream

`socket`, `attempts`, `subscriptions`, `batch` are the fields of `HyperliquidWS`
(the last are timers of `resubscribe` that have not fired, by the coins they
will send), `tracked` the symbols of the managers, `feed` the subscriptions of
the exchange. `Track` is `updateSubscriptions`, `Open`, `Close` and `Reconnect`
the socket's events, `Connect` a screener that is made after the attempts to
reconnect were given up. `Open` splits what is remembered into batches of at
most `BatchSize`. A timer that finds the socket closed sends nothing; on one
that is connecting the first `send` throws, so that nothing of its batch is sent
either, and as nobody catches it the process may end (`Throw`: a new one knows
nothing).

The managers of a process share the socket (`ScreenerService.ts` 105-110), and
each unsubscribes what it no longer tracks without asking the others. `cut` is
history: what others unsubscribed while a manager tracks it. `StreamFollows`
promises nothing for such symbols; without the exception it is violated.
Abstraction: pings and the parsing of books are left out.

## 3. Runs

All runs switch deadlock off: the bounds (`MaxTime`, `MaxNonce`, `MaxVersion`,
`MaxRev`, `MaxPass`, `MaxRun`, `MaxTotal`, `MaxPipe`, `MaxEdits`, `MaxLoad`,
`MaxPending`, each wake queued once) let a model stop where the system would go
on.

| run | instance | shows |
|---|---|---|
| `lease` | term 1, window 1, 5 ticks, 2 nonces, 2 book versions; two scenes: 2 calls that contend, or 1 call under an operator | `SentNonces`, `TakeoverStopsWrites`, refinement of `NonceTenure`, `KillStopsOrders`, `MandateStopsWrites` |
| `intents` | 2 quotes of 2 lots, cap 2, 1 manual trade | `CapHolds`; liveness: `SettleAfterCrashes`, `FindAfterCrashes` |
| `directional_book` | orders: 2 of 2 lots, 1 manual trade, 4 ticks; news: 2 revisions of an event, pages of 1, 2 versions; passes: 2, 2 versions; roundtable: 2 runs; research: 2 roles, 2 revisions; turn: 3 tokens, 3 messages | `ReservationCoversVenue`, `SentOnce`, `FillsBookedOnce`, `ReviewsCurrent`, `PassesGiveWay`, `NotesAgree`, `ToldCurrent`, `Counted` |
| `directional_safety` | pair: 2 lots, 2 unwinding orders; guards: 2 stops, 2 lots, 2 prices | `OneOrderAtATime`, `NeverReversed`, `EndsHedged`, `StopKept` |
| `directional_liveness` | the same with 1 unwinding order, and 1 lot under the stops, whose prices are 1 and 2, in a market between 2 and 3 | liveness: `PairEnds`, `Guarded`, `CrossedIsExited` |
| `quotes` | 2 rows, timer 2, renewed at 2, margin 1, window 1, lag 1 | `OneQuotePerSide`, `QuotesUnderTimer`; liveness: `StoppedBookDrains` |
| `quotes_timer` | 1 row, timer 3, else the same | violation: `ProtectedOnDisconnect` |
| `shifts` | 2 workers, 1 urgent event, 1 review, 2 attempts, 2 versions | `OneRunTrades`, `OneRunning`, `AgendaOfOneMode`, `RecoversFirst` |
| `shifts_liveness` | 1 worker, 1 urgent event, 1 review, 3 attempts | liveness: `UrgentTaken`, `ShiftsEnd` |
| `shifts_resume` | 1 worker, 1 urgent event, 1 chat | violation: `ResumesAfterUrgent` |
| `services` | 2 documents of different places, 1 row for jobs with up to 2 of them, 1 job of a trader (with one document only); 2 tasks, 2 handlers, 1 edit; 3 analysis jobs; 2 auto-trader processes; limiter: 2 callers, 2 keys, 1 slot, distance 2, 1 retry, lifetimes 1; stream: 2 managers, 2 coins in batches of up to 2, 2 attempts, 2 timers of a batch | `CancelTakes`, `RunsClaimed`, `CapturedAsConfigured`, `ClaimedAlone`; liveness: `DocumentsMove`, `QueuedStarts`, `TakesTurns`, `StreamFollows` |
| `stream_unsubscribed` | 1 manager, else the same | violation: `NotResubscribed` |

**Modules that share a run.** `MCDeskBook`, `MCDeskDirectional` and `MCServices`
put modules side by side that share no state which their properties depend on.
A behaviour is one of the `part` that is chosen in the initial state, and the
other parts rest; so the run explores the sum of the state spaces, not their
product, and says of each module what a run of its own would. `NewsIntelligence`
and `NewsCollection` meet where a document is stored, which the first has as
`Ingest`; `DeskNews` and `DeskPasses` meet in one transaction, which the second
has as `Release`; a roundtable is shown notes, not how they came about.
`MCDeskLease` restricts `DeskLease` to one of two scenes, with the same effect.

Why the bounds are enough.

* *Lease*: with term and window 1, five ticks let a call claim, stall past its
  term, be overtaken, and send, while the other writes twice; two nonces let two
  writes share a millisecond. The kill switch and the mandate act on each call
  by itself, so one call, begun before or after the change and writing twice,
  shows every order of the steps; the proofs cover any number.
* *Intents*: two orders of two lots have partial fills, a fill seen again, a
  crash between any two steps, and a release (age 3, or 1 for quotes) before and
  after the last moment an order can arrive. Under the cap of `intents` only one
  of its two quotes fits, so that the second is admitted exactly when the first
  is gone, or wrongly. The reservation of quotes, which `directional_book` does
  not have, is covered by the proof of `ReservationHolds`, for any constants.
* *News, passes*: an event, its revision, and a page that holds only one of
  them, so that the newest is on the page, after it, or not there yet when it is
  read; with two versions of the book. Three revisions, and two passes with a
  third version, were also run once on their own and hold; so does what the
  proof says of the reader, with two events and pages of two.
* *Guards, pairs*: two stops are the old and the new one; a position of two lots
  may be reduced or added to under a stop; two unwinding orders let the first be
  partial, lost or refused. Two slots are enough since a row that is over is
  used again. For liveness the pair needs one unwinding order less: running out
  of them leads to `intervention` all the same. The liveness of stops has two
  prices for them, so that one that rests at the wrong price must be replaced
  (this is what the mutant of `Guarded` leaves out); it has positions of one
  lot, and a stop of the wrong size is met in `directional_safety` only (with two
  lots the stops alone have 3.3 million states, too many for its fairness).
* *Quotes*: a timer of two ticks with a margin, a window and a lag of one has
  quotes just before, at and just after the cancellation; two rows are enough as no more than one per
  side is ever placed (this is `OneQuotePerSide`, and the code relies on it).
* *Shifts*: two workers are one that was restarted and one that has not noticed;
  one urgent event and one review give three shifts (the outage copy has its
  own), with two attempts each where mandates change, three, as in the code, for
  liveness. A research conversation that is interrupted is in `shifts_resume`.
  `View` in `MCDeskShifts` leaves out fields of ended shifts that nothing reads.
* *Roundtable, research, turn*: the run that lost its shift and the one that
  took it over; a role that shares a retrieval and one that asks again, across
  one correction; three tokens and messages, so that a total is overtaken by the
  next while the first is being written. The proofs cover any number.
* *Services*: two documents are one that goes first and one that is overtaken,
  in one batch or in two; one job for them meets every order of claim, crash,
  recovery, cancellation and removal (`MaxLoad` keeps the job of a trader to
  behaviours with the first document); two tasks are one that was given up and
  its successor; three analysis jobs are one that ends, one that waits and one
  that is being submitted; two processes are one that stalls and one that takes
  over; two cached requests and a slot make a chain of three; two managers are
  one that unsubscribes what the other tracks; two timers of a batch are one
  from each of two connections.

Symmetry is used in runs without liveness properties only (the properties of
`lease`, `shifts`, `directional_book` and `directional_safety` are of
the form `Init /\ [][...]_vars`).

### What the runs found

Three runs end in a violation of something a comment or a test says.

* **`quotes_timer`.** A quote may reach the exchange after the scheduled
  cancellation has fired, and rests with none armed; if the worker or its network
  is down by then, nothing cancels it. The margin of the heartbeat
  (`execution.ts` 359) is as long as the window of a request (`venue.ts` 151),
  and the heartbeat may be a second old (`execution.ts` 340). The case is narrow:
  the request must be under way for nearly all of its 8 s. `docs/autonomous-desk.md` 17:
  "A venue cancellation timer protects resting quotes on disconnect";
  `execution.ts` 1051: "The previously armed exchange timer covers a total
  network outage."
* **`shifts_resume`.** During an outage `claimShift` does not see live wakes and
  resumes a paused research shift with an urgent live wake in the queue; the
  renewal timer then pauses it again. `shifts.ts` 79: "Resume interrupted work
  after urgent events have drained."
* **`stream_unsubscribed`.** `resubscribe` takes its list when the socket opens
  and sends it by timers; a symbol that is unsubscribed in between is subscribed
  again for good. `src/__tests__/HyperliquidWs.test.ts` 45: "does not
  resubscribe an unsubscribed symbol after reconnect".

Other properties hold with an exception that their comment names, since no
document promises more:

* `EndsHedged`: a sync asks for fills first and for statuses later; an order
  that fills in between and is then over is settled without that fill
  (`slipped`).
* `StopKept`: a cancellation that is confirmed after the call that asked for it
  gave up may remove a stop that a later tick has decided to keep.
* `PairEnds`: a pair waits for ever for a first leg that the operator released.
* `CrossedIsExited`: an exit has one key per `updatedAt` of the inventory row,
  so that a second exit takes another write of that row.
* `DocumentsMove`: documents whose analysis fails each time go first each time,
  and those behind them wait (`Overtaken`). And a removal between two statements
  of `enqueueAnalysis` can leave a job that is pending and cancelled, which no
  runner starts and which keeps the owner's next analysis from beginning
  (`Revived`).
* `RunsClaimed`: a source that is removed under a job (`stale`) leaves it
  running on documents that are gone.
* `StreamFollows`: a manager that stops tracking a symbol unsubscribes it for
  the others of its socket too (`cut`), which then keep the last book they had.
  `docs/architecture.md` 211 says that the socket is shared, not that managers
  may track the same symbol; that they do (the screener's routes build several)
  makes this a hazard of its own, `OrderBookManager.ts` 41.

### Fairness

`DeskIntents!FairSpec`: weak fairness of a call's own steps (every request of
the venue has a timeout of 8 s, so a call that has begun goes on or throws),
strong fairness of `Reconcile` (the worker ticks every 5 s; when it finds the
lease taken it tries again, so it gets it if it is free again and again).
`DeskPair`, `DeskGuards` and `DeskQuotes` have the same: weak fairness of the
call (`Progress`, `Advance`), strong fairness of the tick; and of the exchange
what their properties are about: that it decides on an order it has received
(`Outside`), delivers stops and cancellations (`Deliver`), executes some of the
stops that are reached and of the exits it gets again and again (`Execute`, with
strong fairness), and fires its timer (`Fire`).
`DeskShifts!FairSpec`: weak fairness of the poll, the claim (a transaction with
a timeout of 10 s), the steps of a tool, the end of a run (a role's turn is
limited to 210 s, `runtime.ts` 339) and the expiry of leases; strong fairness of
a poll that finds the exchange reconciled, without which live work waits for
ever by design. `NewsIntelligence`: weak fairness of the worker's loop, strong
fairness of the two choices a turn may skip (it is time for a batch; the lease
is free), time passes. `AnalysisJobs`: every call goes on, cycles end.
`RequestLimiter`: time passes, and each request goes on: its timers fire, and it
is answered or given up by its connection. `MarketStream`: the timers of
`resubscribe` fire; that the connection lasts is a premise of the property.
Where one run has several modules, conditions of two parts are joined into one
on their disjunction (`Tick`, `GoOn`, `Arrivals` of `MCDeskDirectional`, `Goes`
and `Passes` of `MCServices`), which is the same in a behaviour of one part.

Nothing is assumed of the operator, the exchange's prices, or of events. The
liveness properties are conditional on an end of faults (`CrashesEnd`,
`FailuresEnd`, `DisturbancesEnd`): a process that crashes on every run makes no
progress in any design. Where an order of unknown fate blocks the code on
purpose until an operator releases it, the property says so (`FatesAreKnown`,
`InDoubt`). A crash leaves a mark (`Dead`, or `pc = "dead"`) that no guard
distinguishes from idleness: without it a claim that finds nothing, or a sync
that changes nothing, would be the same step as a crash, and `CrashesEnd` would
exclude both.

## 4. Proofs

Checked by TLAPS for all values of the constants that satisfy the named
assumptions.

**`DeskLeaseProofs`** (`CallAssumption`, `BoundAssumption`). `IInv` is `TypeOK`
and five parts:

* `StampInv`: nothing signed lives longer than `Window` from now. This is what
  makes a later event a bound: at the moment the kill switch, the mandate or
  the lease changes, everything already signed dies within `Window`.
* `KillInv`, `BookInv`, `LeaseInv`: what is already sent, and what has passed
  the corresponding read of the *last* authorize (`Passed`), dies within
  `Window` of the change. A call that has not passed that read is stopped by
  it. Only the last of the three passes matters, and it comes after the stamp;
  this is why the order "stamp, authorize, POST" in `venue.ts` 152-163 is
  essential (the mutant `DispatchStampedLate` turns it round).
* `NonceInv`: issued nonces are at most the row's; one that a call holds has
  not been sent.

Theorems: `TypeCorrect`, `NoncesAreUnique`, `KillSwitchHolds`, `MandateHolds`,
`TakeoverHolds`, `LeaseImplementsTenure` (initial states and steps map to those
of `NonceTenure` with the token as holder), and `LeaseOrdersNonces`, which
carries `TenureOrder` over through the refinement. Of the abstract specification
it proves `LaterTenureSignsLater` and `NonceIssuedOnce`: the invariant adds that
the holder has the highest rank and the last nonce is the highest, from which
both follow at each issue. (`DeskLease!TypeOK` is proved
and no longer checked by a run.)

**`DeskIntentsProofs`** (`IntentAssumption`, `PatienceAssumption`). `IInv` is a
type part and, for each key, `NoRowNoOrder`, `PostedOnce`, `OpenCovered` and
`FlightCovered`, with what a running submission or release knows (`SubmitInv`,
`AbandonInv`, `ReleaseInv`). `FlightCovered` carries the argument about time: an
order under way expires by draft + `Patience` + `Window`, and a release begins
at draft + `AbandonAge` or later. On it rests a second invariant, `BookInv`, of
the ledger:

* `TradedInv`, `RowInv`: an order has traded what its fills add up to, and its
  row counts what the cash flows of its fills add up to, so that a fill that is
  read again adds nothing.
* `RangeInv`: a sync books fills of the range it has asked for, of rows that
  were live when it began.
* `AccountInv`: the account a call has read is what the orders had traded at
  some time between the fetch of the fills and now, when settled orders had
  traded all they ever do. This is what lets the comparison of ledger and
  account decide without a common snapshot of both.
* `CapInv`: what is traded and what may still trade of all orders together is
  under the cap. A submission is checked against the ledger and the reserves;
  the two invariants before say that these cover what the account has.

The last two hold as long as the operator has not traded by hand. Theorems:
`IntentsInductive`, `SendsOnce`, `ReservationHolds`, `LedgerInductive`,
`BooksOnce`, `StaysUnderCap`, for any number of keys, lots, fills, crashes and
retries.

**`SumTheorems`**. Sums of a function over a finite set, as `MapThenSumSet`
computes them: what a sum becomes when one term changes or leaves, monotony,
sums of sums. The induction theorems of the library cannot be instantiated, so
each claim is proved for the smallest set that would violate it (`Smallest`, from
`WFMin` over the strict subsets), and the fold, whose recursion is out of reach
too, is characterised by one step (`SumIsFold`, `SumStep`).

**`DeskDirectionalProofs`** (`DirectionalAssumptions`). `GuardInv` has what a
call knows of a position and its stops until it acts on it:

* `ReadInv`, `PlaceInv`: the position is not larger than the call has read;
  stops it has counted are there as long as the position is; the slot of the
  stop it places is not one that counts or that is being cancelled.
* `DropInv`: a call that cancels leaves a stop for the whole position outside of
  what it has yet to cancel, or none is wanted. Hence "place, then cancel", in
  this order, keeps the position under a stop.
* `Sized`, `StopHeld`, `ProtectInv`, `ExitInv`: sizes of stops and exits.

`PairInv` relates the rows of a pair, the tick and the exchange:

* `OneLive`, `SubmitInv`, `FirstInv`, `RowsInv`: one order is live, and while the
  exchange may trade it, it is the one the call works at; what comes after the
  first leg comes after its end.
* `UnwindInv`, `LegsInv`: a leg is unwound when neither leg can fill any more,
  the first leg before the second. The flags a tick has read may be out of date;
  what counts is that they only become worse (`PlanInv`: late stays late).
* `SeenInv`, `AgreesInv`, `OversInv`: what a sync has read is between what is
  booked and what is traded; after a sync the ledger and the account agree on a
  leg without live orders, or its instrument is suspended, or the ledger has
  nothing left of it.
* `RoomsInv`: what was sold to unwind a leg, with what the live order may still
  sell, is at most what was traded to open it. It follows from the agreement
  before the size of an order is computed, and is needed for the order after it.
* `HedgeInv`, `EndInv`: the size of the hedge and the sums at the end, unless a
  fill slipped in between the two questions of a sync.

Theorems: `GuardsInductive`, `StopKeptHolds` (an action property), `PairInductive`,
`OneOrderHolds`, `NeverReversedHolds`, `EndsHedgedHolds`, for any number of
stops, lots, prices and unwinding orders. TLC checked `PairInv` before it was
proved, on 2 lots and 2 unwinding orders; it is not a run of its own.

**`DeskShiftsProofs`** (`ShiftAssumption`). `IInv` is `TypeOK` and:

* `InOrder`, `HasItsWake`, `UnwrittenUnused`: shifts are written one after the
  other, each for a wake of its own, and nothing refers to one that is not
  written. So `Create` always has a row to write, which the bound would
  otherwise hide.
* `RunInv(p)`, `OneSends(s)`: of the runs of a shift that can still send, only
  one has the token, and a shift whose orders have left has a dispatch record;
  whoever takes it over then gets no tools that trade (`NeverDispatched`). An
  old run may still hold its tools and be past the first authorization: it is
  the authorization inside the execution engine, after the dispatch record, that
  stops it. This is why both are needed.
* `OneRunning`, `AgendaOfOneMode` are inductive beside these.

Most of the proof is `ClaimOutcome`: what the claim transaction, with its
supersession, hand-off, retry, resumption and creation, can leave behind.
Theorems: `TypeCorrect`, `OneRunTradesHolds`, `OneRunningHolds`, `AgendaHolds`,
and the action properties `RecoversFirstHolds` and `EndsOnceHolds`.

**`DeskQuotesProofs`** (`QuoteAssumption`: the transit of a request is at most
the margin, which is less than the renewal, which is at most the horizon: 8 s, 8
s, 35 s and 65 s in the code). `IInv` is `TypeOK`, `Sides` (an order that may
trade has a live row, live rows have different sides, and the tick knows all of
them when it places one) and `Timing` (the timer of the exchange is earlier than
the saved one by the transit of an overtaken request at most, and what the last
check has seen of it has only aged since). Theorems: `TypeCorrect`,
`OneQuotePerSideHolds`, `QuotesUnderTimerHolds` (an action property, from the
bound of `Timing` on a quote under way at the moment it arrives: less than
`Window + Lag` after the last cancellation, if none is armed).

**`ServicesProofs`** (the assumptions of `NewsIntelligence` and `MCServices`).
One part each: `LegacyInv` (the two switches are never both on), `CollectionInv`
(the task that has the source works with its configuration, unless its start was
never heard of), `NewsInv` (documents are claimed before their job becomes
pending, and what the worker settles is over), `LimiterInv` (the requests of a
bucket are lined up in some order, the first of which has the turn and the last
of which is `tail`; who sleeps will have waited long enough; a body that is
being read has no place in the line). The order is what makes it safe to remove
a bucket whose last request is done. Theorems:
`ClaimedAloneHolds`, `CapturedAsConfiguredHolds`, `RunsClaimedHolds`,
`CancelTakesHolds`, `KeepsDistanceHolds`. They need
no fairness: `SafetySpec` is `SpecServices` without it.

**`DeskBookProofs`** (`BookAssumptions`). `BookInv` has a part for each module:

* `NewsInv`: what a reader has read is the page after its cursor, then of that
  the newest revisions, then what the book is owed; what waits was listed by it,
  since it alone queues. The cursor may pass a revision because a later one of
  the event lies behind the page and is not yet handled (`Latest`).
* `PassInv`: the pass that a sample has read is of the sample's mandate or of a
  later one; if the book still is as it was read, the conditional update does
  the rest.
* `TableInv`: what a run has in memory is on record, or it is not the holder any
  more and can save nothing; of the holder, what is on record and not in memory
  makes it fail.
* `ResearchInv`: what is cached began and ended at the revision it is filed
  under; who is told asked at that revision or before.
* `TurnInv`: totals grow along the chain and the pipe; unless an update failed,
  the last one that arrived is in the chain or in the row.

Theorems: `Inductive`, `ReviewsCurrentHolds`, `PassesGiveWayHolds`,
`NotesAgreeHolds`, `ToldCurrentHolds`, `CountedHolds`.

### Model-checked only

Every safety property that a passing run checks is a theorem. What is left are
the liveness properties and the fairness they need (`SettleAfterCrashes`,
`FindAfterCrashes`, `UrgentTaken`, `ShiftsEnd`, `PairEnds`, `Guarded`,
`CrossedIsExited`, `StoppedBookDrains`, `DocumentsMove`, `QueuedStarts`,
`Answered` in `TakesTurns`, `StreamFollows`): the provers have no rule for
`ENABLED`. They are checked on the bounds of section 3 only, and so are
`AnalysisJobs` and `MarketStream`, whose properties are liveness.

## 5. Not modelled, and the plan

* P&L, funding and fees, and the prices, depths and limits of `assessDeskOrder`:
  arithmetic over one snapshot, with no state between its calls.
* Watches of other kinds (price alerts, reviews), wakes on fills, the review of
  parked discoveries.
* The trader library, collectors, screener metrics and sentiment: computed from
  scratch from floating-point data.
* Wallet sessions and delegated keys, the user interface, the routes (they call
  the services above), the offline backtester, and the trading cycle of the
  legacy trader, which is prompts and parsing.

Most of the repository's 57 000 lines are in the last two groups, so the map
covers a small share of it; of `src/lib/desk` and its worker it has most of what
changes state.

Next: `DeskLease` with `DeskIntents`, so that a stalled
call may save its answer late; two readers of one book's news; other watches; an
abstract order that `DeskPair` and `DeskGuards` can be shown to use.
