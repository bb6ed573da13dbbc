------------------------------ MODULE DeskNews ------------------------------
(***************************************************************************)
(* How a desk book takes in news (ingestNews in src/lib/desk/triggers.ts,  *)
(* with deskNewsSince and routeRevision in src/lib/news).  The news store  *)
(* is a log of revisions of events; a book has a cursor into it, and what  *)
(* concerns the book becomes a wake, keyed by the revision.  A reader asks *)
(* for the book's exposure, its waiting wakes and its checkpoint, then for *)
(* the next page of the log, and commits cursor and wakes together, if     *)
(* version and cursor of the book are what they were.  While the exchange  *)
(* does not answer the page is read from a checkpoint of its own and the   *)
(* cursor stays: the range is read again when it answers.  A worker has    *)
(* one reader at a time for a book (TradingDeskWorker.start).              *)
(***************************************************************************)
EXTENDS Integers, Sequences, FiniteSetsExt

CONSTANTS
  Event,
  MaxRev,      \* bound: revisions of the log
  Page,        \* revisions that are read at once, 100 in the code
  MaxVersion   \* bound: versions of the book

NewsAssumption ==
  MaxRev \in Nat /\ Page \in Nat \ {0} /\ MaxVersion \in Nat \ {0}

VARIABLES
  log,       \* NewsEventRevision rows: event and kind, by id
  held,      \* events that target what the book holds
  version,   \* DeskBook row
  enabled,
  cursor,    \* its newsCursor
  progress,  \* the record "news:partial-scan"
  wake,      \* DeskWake rows "news:" + revision
  reader     \* what ingestNews has read

vars == <<log, held, version, enabled, cursor, progress, wake, reader>>

\* What a revision says, as far as routeRevision tells it apart: a verified
\* operational risk, a retraction, correction or resolution, something to
\* discuss, or nothing for a desk.
Kind == {"risk", "correction", "topic", "background"}

Rev == 1 .. MaxRev
NoWake == [state |-> "none", version |-> 1]
NoProgress == [base |-> -1, cursor |-> 0]
Idle == [at |-> "idle", version |-> 1, cursor |-> 0, scoped |-> FALSE,
         listed |-> FALSE, partial |-> FALSE, matched |-> {}, pending |-> {},
         progress |-> NoProgress, rows |-> {}, to |-> 0]

Init ==
  /\ log = <<>> /\ held \in SUBSET Event
  /\ version = 1 /\ enabled = TRUE /\ cursor = 0 /\ progress = NoProgress
  /\ wake = [r \in Rev |-> NoWake]
  /\ reader = Idle

Waiting(r) == wake[r].state = "queued"

-----------------------------------------------------------------------------
(* The log.  Ids are in the order of the commits: finalizeAnalyses takes   *)
(* an advisory lock of the owner.                                          *)

Publish(e, k) ==
  /\ Len(log) < MaxRev
  /\ log' = Append(log, [event |-> e, kind |-> k])
  /\ UNCHANGED <<held, version, enabled, cursor, progress, wake, reader>>

-----------------------------------------------------------------------------
(* ingestNews: reads *)

At(at) == reader.at = at

\* Nothing that is read changes a row, but for the exposure that is kept for
\* an outage, and that ReadScope leaves open.
OnlyReads ==
  UNCHANGED <<log, held, version, enabled, cursor, progress, wake>>

\* poll reads the book, and starts the reader.
Start ==
  /\ At("idle") /\ enabled
  /\ reader' = [reader EXCEPT !.at = "read", !.version = version,
                              !.cursor = cursor]
  /\ OnlyReads

\* newsExposure: while the exchange answers, what the book holds; else
\* anything, as it may go by an older answer, or take everything for held.
ReadScope(partial, matched) ==
  /\ At("read") /\ ~reader.scoped
  /\ ~partial => matched = held
  /\ reader' = [reader EXCEPT !.scoped = TRUE, !.partial = partial,
                              !.matched = matched]
  /\ OnlyReads

\* The waiting wakes and the checkpoint, at the same time.
ReadWakes ==
  /\ At("read") /\ ~reader.listed
  /\ reader' = [reader EXCEPT !.listed = TRUE, !.progress = progress,
                              !.pending = {r \in Rev : Waiting(r)}]
  /\ OnlyReads

\* The checkpoint counts for the cursor it was begun at.
From ==
  IF reader.partial /\ reader.progress.base = reader.cursor
    THEN Max({reader.progress.cursor, reader.cursor})
    ELSE reader.cursor

Same(r, s) == log[r].event = log[s].event
Rows(from) == {r \in DOMAIN log : from < r /\ r <= from + Page}

ReadRows ==
  /\ At("read") /\ reader.scoped /\ reader.listed
  /\ LET rows == Rows(From) IN
     IF rows = {} THEN reader' = Idle
       ELSE reader' = [reader EXCEPT !.at = "latest", !.rows = rows,
                                      !.to = Max(rows)]
  /\ OnlyReads

\* Of an event only the newest revision counts, also one after the page.
Newest(r) == \A s \in DOMAIN log : Same(s, r) => s <= r

ReadLatest ==
  /\ At("latest")
  /\ reader' = [reader EXCEPT !.at = "route",
                              !.rows = {r \in reader.rows : Newest(r)}]
  /\ OnlyReads

\* priorBookEvents: events that a shift has taken up.
Prior == {log[r].event : r \in {s \in DOMAIN log : wake[s].state = "claimed"}}
Pending == {log[r].event : r \in reader.pending}

Followed == Prior \cup Pending

\* routeRevision.  Without the exchange's directory of instruments only what
\* turns out a risk or a correction is kept.
Concerns(r) ==
  LET e == log[r].event
      matched == e \in reader.matched
  IN  \/ /\ log[r].kind = "risk"
         /\ (matched \/ (~reader.partial /\ e \in Followed))
      \/ log[r].kind = "correction" /\ (matched \/ e \in Followed)
      \/ log[r].kind = "topic" /\ (matched \/ ~reader.partial)

\* What is to be queued, and the waiting wakes that it supersedes.
Route ==
  /\ At("route")
  /\ LET routed == {r \in reader.rows : Concerns(r)} IN
     reader' = [reader EXCEPT !.at = "commit", !.rows = routed,
                 !.matched = {},
                 !.pending = {r \in reader.pending :
                                \E s \in routed : s # r /\ Same(s, r)}]
  /\ OnlyReads

-----------------------------------------------------------------------------
(* ingestNews: the transaction *)

\* queueWake does nothing when there is a row.
Delivered(r) ==
  IF r \in reader.pending /\ Waiting(r) THEN [wake[r] EXCEPT !.state = "over"]
  ELSE IF r \in reader.rows /\ wake[r].state = "none"
    THEN [state |-> "queued", version |-> reader.version]
  ELSE wake[r]

Unmoved ==
  enabled /\ version = reader.version /\ cursor = reader.cursor

GiveUp ==
  /\ At("commit") /\ ~Unmoved
  /\ reader' = Idle
  /\ OnlyReads

\* Variant: the cursor moves on also while coverage is partial.
Advanced == reader.to

\* While coverage is partial the cursor stays.
NextCursor ==
  IF reader.partial THEN cursor ELSE reader.to

Commit ==
  /\ At("commit") /\ Unmoved
  /\ cursor' = NextCursor
  /\ progress' =
       IF reader.partial
         THEN [base |-> reader.cursor, cursor |-> reader.to]
       ELSE IF reader.progress # NoProgress THEN NoProgress
       ELSE progress
  /\ wake' = [r \in Rev |-> Delivered(r)]
  /\ reader' = Idle
  /\ UNCHANGED <<log, held, version, enabled>>

\* A query fails, or the process ends.
Fail ==
  /\ ~At("idle") /\ reader' = Idle
  /\ OnlyReads

-----------------------------------------------------------------------------
(* The book, its shifts, and time *)

UpdateBook(on) ==
  /\ version < MaxVersion
  /\ version' = version + 1 /\ enabled' = on
  /\ UNCHANGED <<log, held, cursor, progress, wake, reader>>

\* claimShift takes wakes of the present version.
Claim(r) ==
  /\ Waiting(r) /\ wake[r].version = version /\ enabled
  /\ wake' = [wake EXCEPT ![r].state = "claimed"]
  /\ UNCHANGED <<log, held, version, enabled, cursor, progress, reader>>

\* Only what is not urgent has an expiry.
Expire(r) ==
  /\ Waiting(r) /\ log[r].kind = "topic"
  /\ wake' = [wake EXCEPT ![r].state = "over"]
  /\ UNCHANGED <<log, held, version, enabled, cursor, progress, reader>>

Next ==
  \/ \E e \in Event, k \in Kind : Publish(e, k)
  \/ Start
  \/ \E partial \in BOOLEAN, matched \in SUBSET Event :
       ReadScope(partial, matched)
  \/ ReadWakes \/ ReadRows \/ ReadLatest \/ Route
  \/ Commit \/ GiveUp \/ Fail
  \/ \E on \in BOOLEAN : UpdateBook(on)
  \/ \E r \in Rev : Claim(r) \/ Expire(r)

Spec == Init /\ [][Next]_vars

-----------------------------------------------------------------------------
(* Properties *)

TypeOK ==
  /\ log \in Seq([event : Event, kind : Kind]) /\ held \subseteq Event
  /\ version \in 1 .. MaxVersion /\ enabled \in BOOLEAN
  /\ cursor \in 0 .. Len(log) /\ progress.base \in -1 .. cursor
  /\ wake \in [Rev -> [state : {"none", "queued", "claimed", "over"},
                       version : 1 .. MaxVersion]]
  /\ reader.cursor <= cursor /\ reader.rows \subseteq Rev

\* The book has to be told of r: a risk of what it holds, or a correction of
\* that or of what it was told of before.
Owed(r) ==
  \/ log[r].kind \in {"risk", "correction"} /\ log[r].event \in held
  \/ /\ log[r].kind = "correction"
     /\ \E s \in 1 .. r - 1 :
          Same(s, r) /\ wake[s].state \in {"queued", "claimed"}

\* What the desk is to know of an event is its newest revision: the cursor does
\* not pass one that it is owed, whatever outages, restarts and changes of the
\* book come in between, and once that one waits no earlier one does.
ReviewsCurrent ==
  \A r \in DOMAIN log :
    /\ r <= cursor /\ Newest(r) /\ Owed(r) => wake[r].state # "none"
    /\ wake[r].state # "none" =>
         \A s \in 1 .. r - 1 : Same(s, r) => ~Waiting(s)
=============================================================================
