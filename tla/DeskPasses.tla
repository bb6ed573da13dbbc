----------------------------- MODULE DeskPasses -----------------------------
(***************************************************************************)
(* Passes of a live directional desk: the lead has decided against an      *)
(* instrument, and may have said what would change that (requestWatch in   *)
(* src/lib/desk/routine-work.ts, src/lib/desk/pass-review.ts).  While a    *)
(* pass stands, the market sample keeps moves of the instrument from the   *)
(* desk.  A pass gives way to depth that is there again (sampleMarket), to *)
(* news (ingestNews), to its deadline (processWatches), to a later pass,   *)
(* and to a new mandate; each of them reads the row and writes it later.   *)
(* One instrument; the sample and the look at deadlines are one task each  *)
(* of a worker (TradingDeskWorker.start).                                  *)
(***************************************************************************)
EXTENDS Integers

CONSTANTS
  MaxPass,     \* bound: passes on the instrument
  MaxVersion   \* bound: versions of the book

PassesAssumption == MaxPass \in Nat /\ MaxVersion \in Nat \ {0}

VARIABLES
  version,   \* DeskBook row
  enabled,
  pass,      \* DeskWatch rows of kind pass, in the order of their creation
  sampler,   \* what sampleMarket has read
  watcher,   \* outcomes of the open watches that processWatches has read
  move       \* what became of the move that the last sample saw

vars == <<version, enabled, pass, sampler, watcher, move>>

Pass == 1 .. MaxPass

\* revisitWhen: nothing, depth of some side, or material_news.
Wants == {"either", "depth", "news"}

\* outcomeJson: depthBlockedAt; depthReopenedAt or evidenceReopenedAt.
Unopened == [blocked |-> FALSE, reopened |-> "no"]
Outcome == [blocked : BOOLEAN, reopened : {"no", "depth", "news"}]
NotRead == [blocked |-> FALSE, reopened |-> "unread"]

NoPass == [state |-> "none", version |-> 1, wants |-> "either",
           over |-> FALSE, outcome |-> Unopened]
Idle == [at |-> "idle", version |-> 1, moved |-> FALSE, id |-> 0,
         outcome |-> Unopened, saw |-> "nothing"]

Init ==
  /\ version = 1 /\ enabled = TRUE
  /\ pass = [i \in Pass |-> NoPass]
  /\ sampler = Idle /\ watcher = [i \in Pass |-> NotRead]
  /\ move = "none"

-----------------------------------------------------------------------------
(* Passes, mandates and time *)

\* requestWatch.  The row is of the mandate of the shift, which may be an
\* earlier one.  (What is asked for again while it is open is coalesced: the
\* deadline is part of a pass, nothing changes.)
Decide(i, wants, v) ==
  /\ pass[i].state = "none" /\ \A j \in 1 .. i - 1 : pass[j].state # "none"
  /\ v <= version
  /\ pass' = [pass EXCEPT ![i] = [NoPass EXCEPT !.state = "open",
                                   !.version = v, !.wants = wants]]
  /\ UNCHANGED <<version, enabled, sampler, watcher, move>>

\* The deadline is reached.
Lapse(i) ==
  /\ pass[i].state = "open" /\ ~pass[i].over
  /\ pass' = [pass EXCEPT ![i].over = TRUE]
  /\ UNCHANGED <<version, enabled, sampler, watcher, move>>

UpdateBook(on) ==
  /\ version < MaxVersion
  /\ version' = version + 1 /\ enabled' = on
  /\ UNCHANGED <<pass, sampler, watcher, move>>

\* A later decision under the same mandate counts, whatever became of it.
Superseded(i) ==
  \E j \in i + 1 .. MaxPass :
    pass[j].state # "none" /\ pass[j].version = version

\* A row that the queries of pass-review.ts find.
Listed(i) ==
  pass[i].state = "open" /\ ~pass[i].over /\ pass[i].version = version

-----------------------------------------------------------------------------
(* sampleMarket: observePasses *)

Sample(moved) ==
  /\ sampler.at = "idle" /\ enabled
  /\ sampler' = [Idle EXCEPT !.at = "list", !.version = version,
                             !.moved = moved]
  /\ move' = "none"
  /\ UNCHANGED <<version, enabled, pass, watcher>>

\* Only the newest open pass on an instrument is looked at.  (The query goes
\* by the mandate that poll read; if that is replaced, Commit does nothing.)
List ==
  /\ sampler.at = "list"
  /\ \E i \in 0 .. MaxPass :
       /\ i > 0 => Listed(i)
       /\ \A j \in i + 1 .. MaxPass : ~Listed(j)
       /\ sampler' = [sampler EXCEPT !.at = "observe", !.id = i,
                        !.outcome = IF i = 0 THEN Unopened
                                             ELSE pass[i].outcome]
  /\ UNCHANGED <<version, enabled, pass, watcher, move>>

\* Depth is looked up for a move, or because the pass waits for it.
Awaited ==
  sampler.moved \/ sampler.outcome.blocked \/ pass[sampler.id].wants # "either"

\* What is held, has an order, or cannot be quoted is not observed; nor is
\* anything while the exposure is incomplete: saw is "nothing".
Observe(saw) ==
  /\ sampler.at = "observe"
  /\ saw # "nothing" =>
       /\ sampler.id > 0 /\ sampler.outcome.reopened = "no"
       /\ IF pass[sampler.id].wants = "news"
            THEN sampler.moved /\ saw = "shallow"
            ELSE Awaited
  /\ sampler' = [sampler EXCEPT !.at = "commit", !.saw = saw]
  /\ UNCHANGED <<version, enabled, pass, watcher, move>>

-----------------------------------------------------------------------------
(* sampleMarket: the transaction, with routePasses *)

\* Variant: whether the pass was reopened meanwhile is not looked at.
StillOpen(i, outcome) == pass[i].state = "open"

\* The condition of an update: status, and outcomeJson as it was read.
AsRead(i, outcome) == pass[i].state = "open" /\ pass[i].outcome = outcome

\* The pass answers for the move.
Handled ==
  /\ sampler.saw # "nothing"
  /\ LET i == sampler.id IN
     /\ ~pass[i].over /\ ~Superseded(i)
     /\ \/ sampler.saw = "shallow" \/ sampler.outcome.blocked
        \/ pass[i].wants # "either"
     /\ AsRead(i, sampler.outcome)

\* What the observation makes of the pass; "depth" comes with the wake
\* "depth-recovery:" of the pass.
Observed(i) ==
  IF sampler.saw = "depth"
    THEN [sampler.outcome EXCEPT !.reopened = "depth"]
  ELSE IF pass[i].wants # "news"
    THEN [sampler.outcome EXCEPT !.blocked = TRUE]
  ELSE pass[i].outcome

\* A quote older than 10 s counts for nothing.
Commit(fresh) ==
  /\ sampler.at = "commit" /\ enabled /\ version = sampler.version
  /\ LET handled == Handled /\ fresh IN
     /\ pass' = IF handled
                  THEN [pass EXCEPT ![sampler.id].outcome =
                                       Observed(sampler.id)]
                  ELSE pass
     /\ move' = IF ~sampler.moved THEN "none"
                ELSE IF handled THEN "deferred"
                ELSE "queued"
  /\ sampler' = Idle
  /\ UNCHANGED <<version, enabled, watcher>>

\* The book has changed, a query fails, or the process ends.
GiveUp ==
  /\ sampler.at # "idle" /\ sampler' = Idle
  /\ UNCHANGED <<version, enabled, pass, watcher, move>>

-----------------------------------------------------------------------------
(* ingestNews: releaseNewsPasses, in the transaction that delivers the     *)
(* revision *)

Release(i) ==
  /\ enabled /\ Listed(i) /\ ~Superseded(i)
  /\ pass[i].outcome.reopened = "no"
  /\ pass[i].wants # "either" \/ pass[i].outcome.blocked
  /\ pass' = [pass EXCEPT ![i].outcome.reopened = "news"]
  /\ UNCHANGED <<version, enabled, sampler, watcher, move>>

-----------------------------------------------------------------------------
(* processWatches *)

ReadWatches ==
  /\ watcher' = [i \in Pass |->
       IF pass[i].state = "open" THEN pass[i].outcome ELSE NotRead]
  /\ UNCHANGED <<version, enabled, pass, sampler, move>>

\* At its deadline a pass gets its result, in the outcome that was read.
Close(i) ==
  /\ watcher[i] # NotRead /\ pass[i].over
  /\ pass' = IF AsRead(i, watcher[i])
               THEN [pass EXCEPT ![i].state = "elapsed",
                                 ![i].outcome = watcher[i]]
               ELSE pass
  /\ watcher' = [watcher EXCEPT ![i] = NotRead]
  /\ UNCHANGED <<version, enabled, sampler, move>>

Next ==
  \/ \E i \in Pass, wants \in Wants, v \in 1 .. MaxVersion :
       Decide(i, wants, v)
  \/ \E i \in Pass : Lapse(i) \/ Release(i) \/ Close(i)
  \/ \E on \in BOOLEAN : UpdateBook(on) \/ Sample(on) \/ Commit(on)
  \/ List \/ GiveUp \/ ReadWatches
  \/ \E saw \in {"nothing", "shallow", "depth"} : Observe(saw)

Spec == Init /\ [][Next]_vars

-----------------------------------------------------------------------------
(* Properties *)

TypeOK ==
  /\ version \in 1 .. MaxVersion /\ enabled \in BOOLEAN
  /\ pass \in [Pass -> [state : {"none", "open", "elapsed"},
                        version : 1 .. MaxVersion, wants : Wants,
                        over : BOOLEAN, outcome : Outcome]]
  /\ sampler.id \in 0 .. MaxPass /\ sampler.outcome \in Outcome
  /\ watcher \in [Pass -> Outcome \cup {NotRead}]
  /\ move \in {"none", "queued", "deferred"}

\* The desk's decision on the instrument: it stands, and nothing that would
\* change it has been seen.
Stands(i) ==
  Listed(i) /\ ~Superseded(i) /\ pass[i].outcome.reopened = "no"

\* A move is kept from the desk only by a pass that stands at that moment,
\* whatever happened since the sample read it.  A pass that depth or news has
\* reopened stays so, and is reopened by one of the two.
PassesGiveWay ==
  [][/\ move # "deferred" /\ move' = "deferred" => \E i \in Pass : Stands(i)
     /\ \A i \in Pass :
          LET o == pass[i].outcome IN
          o.reopened # "no" => pass'[i].outcome.reopened = o.reopened]_vars
=============================================================================
