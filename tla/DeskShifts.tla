----------------------------- MODULE DeskShifts -----------------------------
(***************************************************************************)
(* The shifts of one autonomous book: TradingDeskWorker.poll               *)
(* (src/services/TradingDeskWorker.ts), claimShift and runShift            *)
(* (src/lib/desk/shifts.ts) with the authorization of a tool call          *)
(* (src/lib/desk/tools.ts).                                                *)
(*                                                                         *)
(* Events are queued as wakes.  A worker polls the book, claims a shift    *)
(* for the wakes that are due (or takes over or resumes one) and runs it:  *)
(* role models deliberate, and may send orders.  A mandate change, an      *)
(* urgent wake, an error, a crash or a stall of more than the lease ends   *)
(* a run; the next one continues the same shift.                           *)
(*                                                                         *)
(* claimShift is one serializable transaction and one step; the book row   *)
(* that it decides by was read before, by the poll.  Two workers are one   *)
(* that was restarted and one that has not noticed.                        *)
(*                                                                         *)
(* No clock: a lease runs out, and a shift gets too old to be continued,   *)
(* at any time, and a poll finds the exchange reconciled in the last 60 s, *)
(* or not.                                                                 *)
(***************************************************************************)
EXTENDS Integers, Sequences, FiniteSets

CONSTANTS Worker,      \* processes of the desk worker
          NoWorker,    \* the null lease of a paused shift
          Urgent,      \* risk and correction events: live, priority 10
          Chat,        \* an operator's research question: priority 8
          Review,      \* scheduled reviews: live, priority 5
          MaxAttempts, \* 3 in the code
          MaxVersion   \* bound on the book's version

ASSUME ShiftAssumption ==
  /\ NoWorker \notin Worker
  /\ IsFiniteSet(Urgent \cup Chat \cup Review)
  /\ MaxAttempts \in Nat \ {0}
  /\ MaxVersion \in Nat \ {0}

VARIABLES
  book,        \* version and enabled of the DeskBook row
  wake,        \* the DeskWake rows; version 0 where there is none
  shift,       \* the DeskShift rows, in order of createdAt
  dispatched,  \* the shifts that have a DeskRecord of kind "dispatch"
  pc,          \* where each worker is
  run,         \* what it has read: the book, its shift, its tools
  posts        \* history: how many runs of each shift POSTed an order

vars == <<book, wake, shift, dispatched, pc, run, posts>>

-----------------------------------------------------------------------------

Given == Urgent \cup Chat \cup Review

\* While the exchange is out of reach an urgent wake gets a research copy.
Outage(w) == <<"outage", w>>
Wake == Given \cup {Outage(w) : w \in Urgent}

Mode(w) == IF w \in Urgent \cup Review THEN "live" ELSE "research"
Priority(w) == IF w \in Review THEN 5 ELSE IF w \in Chat THEN 8 ELSE 10

\* Each shift has a wake of its own that it was created for; createdAt is in
\* the order of the numbers.
Shifts == 1 .. Cardinality(Wake)

NotQueued == [version |-> 0, shift |-> 0]
NoShift == [status |-> "none", version |-> 0, mode |-> "research",
            risk |-> FALSE, token |-> NoWorker, leased |-> FALSE,
            attempts |-> 0]
Unread == [version |-> 0, enabled |-> FALSE, ready |-> FALSE, shift |-> 0,
           trades |-> FALSE, posted |-> FALSE]

Init ==
  /\ book = [version |-> 1, enabled |-> TRUE]
  /\ wake = [w \in Wake |-> NotQueued]
  /\ shift = [s \in Shifts |-> NoShift]
  /\ dispatched = {}
  /\ pc = [p \in Worker |-> "idle"]
  /\ run = [p \in Worker |-> Unread]
  /\ posts = [s \in Shifts |-> 0]

\* The wakes of version v that no shift has taken.
Queued(v) == {w \in Wake : wake[w].version = v /\ wake[w].shift = 0}

\* queueWake: a second wake with the same key changes nothing.
Enqueue(table, ws, v) ==
  [w \in Wake |-> IF w \in ws /\ table[w] = NotQueued
                    THEN [version |-> v, shift |-> 0] ELSE table[w]]

-----------------------------------------------------------------------------
(* The operator, the events and the passing of time *)

\* updateBook
UpdateBook(enabled) ==
  /\ book.version < MaxVersion
  /\ book' = [version |-> book.version + 1, enabled |-> enabled]
  /\ UNCHANGED <<wake, shift, dispatched, pc, run, posts>>

\* ingestNews queues for a book that is enabled, operatorMessage for any.
Arrive(w) ==
  /\ wake[w] = NotQueued
  /\ w \in Chat \/ book.enabled
  /\ wake' = Enqueue(wake, {w}, book.version)
  /\ UNCHANGED <<book, shift, dispatched, pc, run, posts>>

\* leaseUntil passes.
Expire(s) ==
  /\ shift[s].leased
  /\ shift' = [shift EXCEPT ![s].leased = FALSE]
  /\ UNCHANGED <<book, wake, dispatched, pc, run, posts>>

-----------------------------------------------------------------------------
(* poll() *)

UrgentQueued == Urgent \cap Queued(book.version)
ResearchQueued == {w \in Queued(book.version) : Mode(w) = "research"}
ResearchBegun ==
  \E s \in Shifts :
    /\ shift[s].version = book.version
    /\ shift[s].mode = "research"
    /\ shift[s].status \in {"running", "paused"}

\* What poll looks for before it starts a roundtable task for the book.
Due(ready) ==
  IF book.enabled
    THEN ready \/ UrgentQueued # {} \/ ResearchQueued # {}
    ELSE ResearchBegun \/ ResearchQueued # {}

\* Without a roundtable task; a process that died is started again.
Off == {"idle", "dead"}

\* One roundtable task at a time and worker.  ready: an execution tick of this
\* worker reconciled with the exchange in the last 60 s.
Poll(p, ready) ==
  /\ pc[p] \in Off
  /\ Due(ready)
  /\ wake' = IF book.enabled /\ ~ready
               THEN Enqueue(wake, {Outage(w) : w \in UrgentQueued},
                            book.version)
               ELSE wake
  /\ run' = [run EXCEPT ![p] = [Unread EXCEPT !.version = book.version,
                                              !.enabled = book.enabled,
                                              !.ready = ready]]
  /\ pc' = [pc EXCEPT ![p] = "polled"]
  /\ UNCHANGED <<book, shift, dispatched, posts>>

-----------------------------------------------------------------------------
(* claimShift() *)

\* Shifts of another version are superseded; their lease token stays.
Superseded(v) ==
  [s \in Shifts |->
     IF shift[s].status = "running" /\ shift[s].version # v
       THEN [shift[s] EXCEPT !.status = "superseded", !.leased = FALSE]
       ELSE shift[s]]

\* A table with another row s.
With(table, s, row) == [t \in Shifts |-> IF t = s THEN row ELSE table[t]]

\* Variant: a shift whose lease is over does not count.
CurrentLeased(table) ==
  {s \in Shifts : table[s].status = "running" /\ table[s].leased}

Current(table) == {s \in Shifts : table[s].status = "running"}

\* Variant: only an enabled book makes a difference.
TradesOffline(p) == run[p].enabled

\* The worker may take up live work: the book is enabled and the exchange
\* reconciled.
LiveReady(p) == run[p].enabled /\ run[p].ready
Takes(p, mode) == mode = "research" \/ LiveReady(p)

\* Variant: a run that is taken over is not counted.
SameAttempts(n) == n

Attempted(n) == n + 1

Taken(row, p) ==
  [row EXCEPT !.status = "running", !.token = p, !.leased = TRUE]

\* What becomes of the running shift, if there is one and its lease is over.  A
\* live one is paused during an outage, one that was tried too often or is too
\* old expires, any other one is taken over.
HandsOff(p, row) == ~LiveReady(p) /\ row.mode = "live" /\ ~row.leased

WornOut(row, old) == row.attempts >= MaxAttempts \/ old

AfterCurrent(row, p, old) ==
  CASE HandsOff(p, row) ->
         [row EXCEPT !.status = "paused", !.token = NoWorker]
    [] ~HandsOff(p, row) /\ WornOut(row, old) ->
         [row EXCEPT !.status = "expired", !.token = NoWorker]
    [] OTHER ->
         [Taken(row, p) EXCEPT !.attempts = Attempted(row.attempts)]

\* The transaction ends with these shifts and wakes; s is the shift the worker
\* runs now, or 0.
Ends(p, table, wakes, s) ==
  /\ shift' = table
  /\ wake' = wakes
  /\ pc' = [pc EXCEPT ![p] = IF s = 0 THEN "idle" ELSE "claimed"]
  /\ run' = [run EXCEPT ![p] =
       IF s = 0 THEN Unread ELSE [Unread EXCEPT !.shift = s]]
  /\ UNCHANGED <<book, dispatched, posts>>

\* The wakes a worker may begin a shift with, and the foremost of them.
Eligible(p, wakes) ==
  {w \in Wake : /\ wakes[w].version = run[p].version
                /\ wakes[w].shift = 0
                /\ Takes(p, Mode(w))}
Foremost(ws) == {w \in ws : \A x \in ws : Priority(x) <= Priority(w)}

\* Variant: what was interrupted comes first.
ResumesAlways(ws) == TRUE

\* "Resume interrupted work after urgent events have drained."
Resumes(ws) == \A w \in ws : Priority(w) < 10

PausedFor(p, table) ==
  {s \in Shifts : /\ table[s].status = "paused"
                  /\ table[s].version = run[p].version
                  /\ Takes(p, table[s].mode)}
Oldest(ss) == CHOOSE s \in ss : \A t \in ss : s <= t

\* A new shift takes every queued wake of its first one's mode.
Create(p, table, wakes, first) ==
  LET s == Cardinality({t \in Shifts : table[t].status # "none"}) + 1
      mode == Mode(first)
      agenda == {w \in Wake : /\ wakes[w].version = run[p].version
                              /\ wakes[w].shift = 0
                              /\ Mode(w) = mode}
  IN  Ends(p,
           With(table, s,
             [status |-> "running", version |-> run[p].version, mode |-> mode,
              risk |-> \E w \in agenda : Priority(w) = 10, token |-> p,
              leased |-> TRUE, attempts |-> 1]),
           [w \in Wake |-> IF w \in agenda
                             THEN [wakes[w] EXCEPT !.shift = s] ELSE wakes[w]],
           s)

\* The rest of the transaction, once no shift is running.  old: the shift that
\* would be resumed is.
Choose(p, table, wakes, old) ==
  LET ws == Eligible(p, wakes)
      paused == IF Resumes(ws) THEN PausedFor(p, table) ELSE {}
      s == Oldest(paused)
      dropped == IF paused = {} THEN table
                   ELSE With(table, s, [table[s] EXCEPT !.status = "expired"])
  IN  IF paused # {} /\ ~old
        THEN Ends(p, With(table, s, Taken(table[s], p)), wakes, s)
        ELSE \/ /\ ws = {}
                /\ Ends(p, dropped, wakes, 0)
             \/ \E first \in Foremost(ws) : Create(p, dropped, wakes, first)

\* nextReviewAt has come, or has not: then one more review is queued.
DueReviews(p) ==
  {{}} \cup (IF /\ LiveReady(p)
                /\ book.enabled /\ book.version = run[p].version
               THEN {{w} : w \in {r \in Review : wake[r] = NotQueued}}
               ELSE {})

\* The transaction.  oldCurrent, oldPaused: 15 minutes, or the review interval
\* if that is longer, have passed since createdAt of the shift in question.  A
\* shift that is seen to be old ends, so that its age needs no memory.
Claim(p, oldCurrent, oldPaused) ==
  LET table == Superseded(run[p].version)
      Rest(rows) == \E due \in DueReviews(p) :
        Choose(p, rows, Enqueue(wake, due, book.version), oldPaused)
  IN
  /\ pc[p] = "polled"
  /\ oldCurrent => \E s \in Current(table) : ~table[s].leased
  /\ oldPaused => \E s \in Shifts : table[s].status \in {"running", "paused"}
  /\ \/ \E s \in Current(table) :
          /\ table[s].leased
          /\ Ends(p, table, wake, 0)
     \/ \E s \in Current(table) :
          LET row == AfterCurrent(table[s], p, oldCurrent)
              next == With(table, s, row)
          IN
          /\ ~table[s].leased
          /\ IF Current(next) # {} THEN Ends(p, next, wake, s) ELSE Rest(next)
     \/ /\ Current(table) = {}
        /\ Rest(table)

-----------------------------------------------------------------------------
(* runShift() *)

Mine(p) == shift[run[p].shift]

\* The row still has the token of this run.
Holds(p) == Mine(p).status = "running" /\ Mine(p).token = p

\* Variant: the journal of the shift is not looked at.
NothingDispatched(s) == TRUE

\* "never replay this shift's trading authority"
NeverDispatched(s) == s \notin dispatched

\* The journal is read before the roles begin; only a live shift that has
\* dispatched nothing gets the tools that trade.
Begin(p) ==
  /\ pc[p] = "claimed"
  /\ run' = [run EXCEPT ![p].trades = /\ Mine(p).mode = "live"
                                      /\ NeverDispatched(run[p].shift)]
  /\ pc' = [pc EXCEPT ![p] = "working"]
  /\ UNCHANGED <<book, wake, shift, dispatched, posts>>

\* authorize() of a tool: the shift has its lease and the book its mandate.
Authorized(p) ==
  /\ Holds(p) /\ Mine(p).leased
  /\ book.version = Mine(p).version
  /\ book.enabled

\* A role calls a tool that trades.
CallTool(p) ==
  /\ pc[p] = "working"
  /\ run[p].trades
  /\ Authorized(p)
  /\ pc' = [pc EXCEPT ![p] = "authorized"]
  /\ UNCHANGED <<book, wake, shift, dispatched, run, posts>>

Record(p) ==
  /\ pc[p] = "authorized"
  /\ dispatched' = dispatched \cup {run[p].shift}
  /\ pc' = [pc EXCEPT ![p] = "recorded"]
  /\ UNCHANGED <<book, wake, shift, run, posts>>

\* The execution engine authorizes again, before it signs and sends.
Recheck(p) ==
  /\ pc[p] = "recorded"
  /\ pc' = [pc EXCEPT ![p] = IF Authorized(p) THEN "cleared" ELSE "working"]
  /\ UNCHANGED <<book, wake, shift, dispatched, run, posts>>

Post(p) ==
  /\ pc[p] = "cleared"
  /\ pc' = [pc EXCEPT ![p] = "working"]
  /\ run' = [run EXCEPT ![p].posted = TRUE]
  /\ posts' = IF run[p].posted THEN posts
                ELSE [posts EXCEPT ![run[p].shift] = @ + 1]
  /\ UNCHANGED <<book, wake, shift, dispatched>>

OnShift(p) == pc[p] \notin Off \cup {"polled"}

Leave(p) ==
  /\ pc' = [pc EXCEPT ![p] = "idle"]
  /\ run' = [run EXCEPT ![p] = Unread]

\* The timer may renew the lease, which stays as it is here.
Renews(p) ==
  /\ Holds(p) /\ Mine(p).leased
  /\ book.version = Mine(p).version
  /\ Mine(p).mode = "live" => book.enabled

\* The renewal timer finds an urgent wake, live or not, that no shift has
\* taken.  The run is told to stop; Fail is how it does.  A renewal that fails
\* stops it, too.
Interrupt(p) ==
  LET s == run[p].shift IN
  /\ OnShift(p)
  /\ Renews(p)
  /\ ~Mine(p).risk
  /\ \E w \in Queued(Mine(p).version) : Priority(w) = 10
  /\ shift' = [shift EXCEPT ![s].status = "paused", ![s].token = NoWorker,
                            ![s].leased = FALSE]
  /\ UNCHANGED <<book, wake, dispatched, pc, run, posts>>

Completes(p) == Holds(p)

\* Variant: a review of either mode covers the scheduled ones.
CoversAll(p) == TRUE

Covers(p) == Mine(p).mode = "live"

\* The roles are through.  A live review covers the scheduled ones that are
\* queued; a run that lost the shift changes nothing.
Complete(p) ==
  LET s == run[p].shift IN
  /\ pc[p] = "working"
  /\ IF Completes(p)
       THEN /\ shift' = [shift EXCEPT ![s].status = "completed",
                                      ![s].leased = FALSE]
            /\ wake' = [w \in Wake |->
                 IF Covers(p) /\ w \in Review \cap Queued(Mine(p).version)
                   THEN [wake[w] EXCEPT !.shift = s] ELSE wake[w]]
       ELSE UNCHANGED <<shift, wake>>
  /\ Leave(p)
  /\ UNCHANGED <<book, dispatched, posts>>

\* An error, or the order to stop: the shift keeps token and lease for a
\* while, and ends with the last attempt.
Fail(p) ==
  LET s == run[p].shift IN
  /\ OnShift(p)
  /\ IF Holds(p)
       THEN shift' = [shift EXCEPT
              ![s].leased = TRUE,
              ![s].status = IF Mine(p).attempts >= MaxAttempts
                              THEN "failed" ELSE "running"]
       ELSE UNCHANGED shift
  /\ Leave(p)
  /\ UNCHANGED <<book, wake, dispatched, posts>>

\* The process dies.
Crash(p) ==
  /\ pc[p] \notin Off
  /\ pc' = [pc EXCEPT ![p] = "dead"]
  /\ run' = [run EXCEPT ![p] = Unread]
  /\ UNCHANGED <<book, wake, shift, dispatched, posts>>

-----------------------------------------------------------------------------

Next ==
  \/ \E enabled \in BOOLEAN : UpdateBook(enabled)
  \/ \E w \in Urgent \cup Chat : Arrive(w)
  \/ \E s \in Shifts : Expire(s)
  \/ \E p \in Worker :
       \/ \E isReady \in BOOLEAN : Poll(p, isReady)
       \/ \E oldCurrent, oldPaused \in BOOLEAN :
            Claim(p, oldCurrent, oldPaused)
       \/ Begin(p)
       \/ CallTool(p) \/ Record(p) \/ Recheck(p) \/ Post(p)
       \/ Interrupt(p) \/ Complete(p) \/ Fail(p) \/ Crash(p)

Spec == Init /\ [][Next]_vars

\* The poll is a timer, a claim a transaction with a timeout, a role's turn
\* ends after 210 s, leases run out; and again and again the poll finds the
\* exchange reconciled.
FairSpec ==
  /\ Spec
  /\ \A p \in Worker :
       /\ WF_vars(\E isReady \in BOOLEAN : Poll(p, isReady))
       /\ SF_vars(Poll(p, TRUE))
       /\ WF_vars(\E oldCurrent, oldPaused \in BOOLEAN :
                    Claim(p, oldCurrent, oldPaused))
       /\ WF_vars(Begin(p) \/ Record(p) \/ Recheck(p) \/ Post(p))
       /\ WF_vars(Complete(p) \/ Fail(p))
  /\ \A s \in Shifts : WF_vars(Expire(s))

-----------------------------------------------------------------------------
(* Properties *)

Ended == {"completed", "failed", "expired", "superseded"}
Statuses == Ended \cup {"none", "running", "paused"}
Modes == {"live", "research"}

\* Types and ranges: no shift is begun more often than MaxAttempts, and every
\* agenda belongs to a shift there is room for.
TypeOK ==
  /\ book \in [version : 1 .. MaxVersion, enabled : BOOLEAN]
  /\ wake \in [Wake -> [version : 0 .. MaxVersion,
                        shift : {0} \cup Shifts]]
  /\ shift \in [Shifts -> [status : Statuses, version : 0 .. MaxVersion,
                           mode : Modes, risk : BOOLEAN,
                           token : Worker \cup {NoWorker}, leased : BOOLEAN,
                           attempts : 0 .. MaxAttempts]]
  /\ dispatched \subseteq Shifts
  /\ pc \in [Worker -> Off \cup {"polled", "claimed", "working", "authorized",
                        "recorded", "cleared"}]
  /\ run \in [Worker -> [version : 0 .. MaxVersion, enabled : BOOLEAN,
                         ready : BOOLEAN, shift : {0} \cup Shifts,
                         trades : BOOLEAN, posted : BOOLEAN]]
  /\ posts \in [Shifts -> Nat]

\* Whatever interrupts a shift and however often it is taken over or resumed,
\* orders leave from one of its runs only.
OneRunTrades == \A s \in Shifts : posts[s] <= 1

\* Two workers never have a shift of the book running at once, also when one
\* of them decides by a book row that is out of date.
OneRunning ==
  \A s, t \in Shifts :
    shift[s].status = "running" /\ shift[t].status = "running" => s = t

\* "Never combine research-only operator chat with a trading instruction":
\* what a shift takes, at its creation or at its end, has its mode and was
\* queued under its mandate.
AgendaOfOneMode ==
  \A w \in Wake : wake[w].shift # 0 =>
    /\ shift[wake[w].shift].mode = Mode(w)
    /\ shift[wake[w].shift].version = wake[w].version

\* A shift that has ended stays as it ended, whatever an old run still does.
EndsOnce ==
  [][\A s \in Shifts :
       shift[s].status \in Ended => shift'[s].status = shift[s].status]_vars

\* "Resume against the exchange first": a live shift is begun, taken over or
\* resumed only by a worker that saw the exchange reconciled.
RecoversFirst ==
  [][\A p \in Worker :
       pc[p] = "polled" /\ pc'[p] = "claimed" =>
         (shift'[run'[p].shift].mode = "live" => run[p].ready)]_vars

\* A crash is not repeated for ever.
CrashesEnd == \A p \in Worker : <>[][~Crash(p)]_vars

\* An urgent event is taken by a shift, unless its mandate is replaced.
UrgentTaken ==
  CrashesEnd => \A w \in Urgent :
    wake[w] # NotQueued ~>
      wake[w].shift # 0 \/ wake[w].version # book.version

\* A shift that a worker has begun comes to its end, unless its mandate is
\* replaced.
ShiftsEnd ==
  CrashesEnd => \A s \in Shifts :
    shift[s].status \in {"running", "paused"} ~>
      shift[s].status \in Ended \/ shift[s].version # book.version

\* "Resume interrupted work after urgent events have drained."
ResumesAfterUrgent ==
  [][\A s \in Shifts :
       shift[s].status = "paused" /\ shift'[s].status = "running" =>
         Urgent \cap Queued(shift[s].version) = {}]_vars
=============================================================================
