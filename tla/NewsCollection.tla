--------------------------- MODULE NewsCollection ---------------------------
(***************************************************************************)
(* The collection of one news source: the bridge (src/collector/server.ts) *)
(* hands out tasks under a lease and stores what they captured, the        *)
(* browser extension (src/collector/extension/background.js) carries them  *)
(* out, and the operator edits the source (saveSource in                   *)
(* src/services/NewsIntelligenceService.ts).  Requests are lost, answered  *)
(* too late, or handled while others are; the extension may be restarted   *)
(* with its tasks under way.                                               *)
(***************************************************************************)
EXTENDS Naturals

CONSTANTS
  Task,      \* ids of tasks: bound of the model on those that exist at once
  Handler,   \* of GET /v1/tasks: more than one if the extension gave one up
  NoTask,
  MaxEdits   \* bound of the model on the operator's edits

CollectionAssumption == NoTask \notin Task /\ MaxEdits \in Nat

VARIABLES
  config,   \* number of the edit that the source is as of
  lease,    \* leaseTaskId
  current,  \* leaseUntil lies ahead
  due,      \* nextPollAt is over
  stopped,  \* status is one of `paused`
  poll,     \* handlers: configuration they read, whether the row is as read
  task,     \* what the browser does, and of which configuration
  sent,     \* requests POST /v1/captures: where each is
  mixed     \* history: captures of another configuration were stored

vars == <<config, lease, current, due, stopped, poll, task, sent, mixed>>

-----------------------------------------------------------------------------

Kind == {"captures", "report"}
NoPoll == [at |-> "idle", config |-> 0, same |-> FALSE]
NoWork == [at |-> "none", config |-> 0]

Init ==
  /\ config = 0 /\ lease = NoTask /\ current = FALSE
  /\ due = TRUE /\ stopped = FALSE
  /\ poll = [h \in Handler |-> NoPoll]
  /\ task = [t \in Task |-> NoWork]
  /\ sent = [t \in Task |-> [k \in Kind |-> "none"]]
  /\ mixed = FALSE

\* Every update of the row gives it a new updatedAt.
Updated == poll' = [h \in Handler |-> [poll[h] EXCEPT !.same = FALSE]]

NoLease == lease' = NoTask /\ current' = FALSE

Free == ~current
Fresh(t) == task[t].at = "none" /\ lease # t
              /\ \A k \in Kind : sent[t][k] = "none"

-----------------------------------------------------------------------------
(* GET /v1/tasks *)

Candidates(h) ==
  /\ poll[h].at = "idle"
  /\ due /\ ~stopped /\ Free
  /\ poll' = [poll EXCEPT ![h] = [at |-> "claim", config |-> config,
                                 same |-> TRUE]]
  /\ UNCHANGED <<config, lease, current, due, stopped, task, sent, mixed>>

AsRead(h) == poll[h].same /\ Free

\* The browser works with what was read.  The answer may be lost.
Claim(h, t, lost) ==
  /\ poll[h].at = "claim" /\ AsRead(h) /\ Fresh(t)
  /\ lease' = t /\ current' = TRUE /\ due' = FALSE
  /\ task' = IF lost THEN task
               ELSE [task EXCEPT ![t] = [at |-> "collect",
                                         config |-> poll[h].config]]
  /\ poll' = [i \in Handler |-> IF i = h THEN NoPoll
                                  ELSE [poll[i] EXCEPT !.same = FALSE]]
  /\ UNCHANGED <<config, stopped, sent, mixed>>

ClaimNothing(h) ==
  /\ poll[h].at = "claim" /\ ~AsRead(h)
  /\ poll' = [poll EXCEPT ![h] = NoPoll]
  /\ UNCHANGED <<config, lease, current, due, stopped, task, sent, mixed>>

-----------------------------------------------------------------------------
(* The extension: collectFeed, collectSource *)

Send(t, k) == sent' = [sent EXCEPT ![t][k] = "sent"]

Submit(t) ==
  /\ task[t].at = "collect"
  /\ task' = [task EXCEPT ![t].at = "wait"]
  /\ Send(t, "captures")
  /\ UNCHANGED <<config, lease, current, due, stopped, poll, mixed>>

\* Collecting failed; or there is no answer within 15 s, or an error: what was
\* sent may still be handled.  With the report the task is done.
Report(t) ==
  /\ task[t].at \in {"collect", "wait"}
  /\ task' = [task EXCEPT ![t].at = "none"]
  /\ Send(t, "report")
  /\ UNCHANGED <<config, lease, current, due, stopped, poll, mixed>>

\* It was acknowledged; or the extension is restarted.
Drop(t) ==
  /\ task[t].at # "none"
  /\ task' = [task EXCEPT ![t].at = "none"]
  /\ UNCHANGED <<config, lease, current, due, stopped, poll, sent, mixed>>

-----------------------------------------------------------------------------
(* POST /v1/captures *)

Handled(t, k) == sent' = [sent EXCEPT ![t][k] = "none"]

Lose(t, k) ==
  /\ sent[t][k] # "none"
  /\ Handled(t, k)
  /\ UNCHANGED <<config, lease, current, due, stopped, poll, task, mixed>>

Find(t, k) ==
  /\ sent[t][k] = "sent"
  /\ IF lease = t /\ current
       THEN sent' = [sent EXCEPT ![t][k] = "found"]
       ELSE Handled(t, k)
  /\ UNCHANGED <<config, lease, current, due, stopped, poll, task, mixed>>

\* Variant: that the task had the source a moment ago is enough.
HadIt(t) == TRUE

StillHis(t) == lease = t

\* In one transaction with the documents.  A failure polls again in 300 s.
Store(t, k, status) ==
  /\ sent[t][k] = "found"
  /\ Handled(t, k)
  /\ status = "healthy" => k = "captures"
  /\ IF StillHis(t)
       THEN /\ NoLease
            /\ stopped' = (status = "paused")
            /\ due' = (due /\ status = "healthy")
            /\ mixed' = (mixed \/ (/\ k = "captures"
                                     /\ task[t].config # config))
            /\ Updated
       ELSE UNCHANGED <<lease, current, due, stopped, mixed, poll>>
  /\ UNCHANGED <<config, task>>

-----------------------------------------------------------------------------
(* saveSource, of a source that is there *)

Edit ==
  /\ config < MaxEdits
  /\ config' = config + 1
  /\ NoLease /\ due' = TRUE /\ stopped' = FALSE
  /\ Updated
  /\ UNCHANGED <<task, sent, mixed>>

-----------------------------------------------------------------------------
(* Time *)

Expire ==
  /\ current
  /\ current' = FALSE
  /\ UNCHANGED <<config, lease, due, stopped, poll, task, sent, mixed>>

ComeDue ==
  /\ ~due
  /\ due' = TRUE
  /\ UNCHANGED <<config, lease, current, stopped, poll, task, sent, mixed>>

-----------------------------------------------------------------------------

Status == {"healthy", "failed", "paused"}

Next ==
  \/ \E h \in Handler :
       \/ Candidates(h) \/ ClaimNothing(h)
       \/ \E t \in Task, lost \in BOOLEAN : Claim(h, t, lost)
  \/ \E t \in Task :
       \/ Submit(t) \/ Report(t) \/ Drop(t)
       \/ \E k \in Kind : \/ Lose(t, k) \/ Find(t, k)
                          \/ \E s \in Status : Store(t, k, s)
  \/ Edit \/ Expire \/ ComeDue

Spec == Init /\ [][Next]_vars

-----------------------------------------------------------------------------
(* Properties *)

TypeOK ==
  /\ config \in 0..MaxEdits /\ lease \in Task \cup {NoTask}
  /\ current \in BOOLEAN /\ (current => lease # NoTask)
  /\ due \in BOOLEAN /\ stopped \in BOOLEAN /\ mixed \in BOOLEAN
  /\ poll \in [Handler -> [at : {"idle", "claim"}, config : 0..MaxEdits,
                           same : BOOLEAN]]
  /\ task \in [Task -> [at : {"none", "collect", "wait"},
                        config : 0..MaxEdits]]
  /\ sent \in [Task -> [Kind -> {"none", "sent", "found"}]]

\* What is stored as evidence of a source was captured by its configuration of
\* this moment, although the operator may change it after a handler has read
\* the row, while a task is under way, and while its captures are handled.
CapturedAsConfigured == ~mixed
=============================================================================
