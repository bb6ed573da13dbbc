---------------------------- MODULE AnalysisJobs ----------------------------
(***************************************************************************)
(* The analysis jobs of one wallet (src/services/OrchestratorService.ts):  *)
(* a row per job, one job that runs and one that waits, started by the one *)
(* that ends.  Everything happens in one process, whose calls interleave   *)
(* wherever they await the database; withWalletJobLock queues those that   *)
(* count jobs before they change one.                                      *)
(***************************************************************************)
EXTENDS Sequences

CONSTANTS Job, NoJob

JobAssumption == NoJob \notin Job

VARIABLES
  row,      \* AnalysisJob rows: their status
  pc,       \* where the call is that submits, or that runs, a job
  out,      \* the status that it will write
  lock,     \* calls in withWalletJobLock; the first one is in its section
  queued,   \* rows that calls of startNextQueuedJob found
  active,   \* activeJobs
  aborted,  \* jobs whose controller is aborted
  cancels   \* the job that a call of cancelJob is about to cancel

vars == <<row, pc, out, lock, queued, active, aborted, cancels>>

Init ==
  /\ row = [j \in Job |-> "none"]
  /\ pc = [j \in Job |-> "idle"]
  /\ out = [j \in Job |-> "none"]
  /\ lock = <<>> /\ queued = [j \in Job |-> NoJob]
  /\ active = {} /\ aborted = {} /\ cancels = NoJob

Final == {"over", "cancelled"}      \* over is completed or failed
Any(status) == \E j \in Job : row[j] = status

Goto(j, at) == pc' = [pc EXCEPT ![j] = at]
Write(j, status) == row' = [row EXCEPT ![j] = status]

-----------------------------------------------------------------------------
(* withWalletJobLock *)

Enter(j, at) == Goto(j, at) /\ lock' = Append(lock, j)
Leave(j) == lock' = SelectSeq(lock, LAMBDA i : i # j)

\* Variant: a call does not wait for the one before it.
NoWait(j) == \E i \in DOMAIN lock : lock[i] = j

Holds(j) == lock # <<>> /\ Head(lock) = j

-----------------------------------------------------------------------------
(* analyzeMarketWithJobTracking *)

\* Its id is new: the row was cleaned up, bound of the model.
Submit(j) ==
  /\ row[j] = "none" /\ pc[j] = "idle" /\ cancels # j
  /\ Enter(j, "count")
  /\ UNCHANGED <<row, out, queued, active, aborted, cancels>>

CountRunning(j) ==
  /\ pc[j] = "count" /\ Holds(j)
  /\ out' = [out EXCEPT ![j] = IF Any("running") THEN "pending" ELSE "running"]
  /\ Goto(j, "create")
  /\ UNCHANGED <<row, lock, queued, active, aborted, cancels>>

\* One runs and one waits: the job is refused.
Refuse(j) ==
  /\ pc[j] = "create" /\ out[j] = "pending" /\ Any("pending")
  /\ Goto(j, "idle") /\ out' = [out EXCEPT ![j] = "none"] /\ Leave(j)
  /\ UNCHANGED <<row, queued, active, aborted, cancels>>

\* startAnalysisJob: the controller is new.
Started(j) == active' = active \cup {j} /\ UNCHANGED aborted

Create(j) ==
  /\ pc[j] = "create" /\ (out[j] = "pending" => ~Any("pending"))
  /\ Write(j, out[j]) /\ Leave(j)
  /\ IF out[j] = "running" THEN Goto(j, "begin") /\ Started(j)
       ELSE Goto(j, "idle") /\ UNCHANGED <<active, aborted>>
  /\ out' = [out EXCEPT ![j] = "none"]
  /\ UNCHANGED <<queued, cancels>>

-----------------------------------------------------------------------------
(* runAnalysisJob *)

\* The update has no condition on the status.
Begin(j) ==
  /\ pc[j] = "begin"
  /\ Write(j, "running") /\ Goto(j, "cycle")
  /\ UNCHANGED <<out, lock, queued, active, aborted, cancels>>

\* The cycle looks at its signal now and then.
Cycle(j, result) ==
  /\ pc[j] = "cycle"
  /\ result = "cancelled" => j \in aborted
  /\ out' = [out EXCEPT ![j] = result]
  /\ Goto(j, "save")
  /\ UNCHANGED <<row, lock, queued, active, aborted, cancels>>

Save(j) ==
  /\ pc[j] = "save"
  /\ Write(j, out[j])
  /\ out' = [out EXCEPT ![j] = "none"]
  /\ active' = active \ {j} /\ aborted' = aborted \ {j}
  /\ Enter(j, "next")
  /\ UNCHANGED <<queued, cancels>>

-----------------------------------------------------------------------------
(* startNextQueuedJob, for the job j that ended *)

Found(j, q) == queued' = [queued EXCEPT ![j] = q]
StopHere(j) == Goto(j, "idle") /\ Leave(j) /\ Found(j, NoJob)

Recount(j) ==
  /\ pc[j] = "next" /\ Holds(j)
  /\ IF Any("running") THEN StopHere(j)
       ELSE Goto(j, "find") /\ UNCHANGED <<lock, queued>>
  /\ UNCHANGED <<row, out, active, aborted, cancels>>

Find(j) ==
  /\ pc[j] = "find"
  /\ IF Any("pending")
       THEN /\ \E q \in Job : row[q] = "pending" /\ Found(j, q)
            /\ Goto(j, "start") /\ UNCHANGED lock
       ELSE StopHere(j)
  /\ UNCHANGED <<row, out, active, aborted, cancels>>

\* The row may have been cancelled since it was found.
StartNext(j) ==
  /\ pc[j] = "start"
  /\ Leave(j) /\ Found(j, NoJob)
  /\ LET q == queued[j] IN
     IF row[q] = "none"
       THEN Goto(j, "idle") /\ UNCHANGED <<row, active, aborted>>
       ELSE /\ Write(q, "running") /\ Started(q)
            /\ pc' = [pc EXCEPT ![j] = "idle", ![q] = "begin"]
  /\ UNCHANGED <<out, cancels>>

-----------------------------------------------------------------------------
(* cancelJob, and the route app/api/ai/cleanup-jobs *)

\* One call at a time: bound of the model.
Abort(j) ==
  /\ row[j] # "none" /\ cancels = NoJob
  /\ cancels' = j
  /\ aborted' = IF j \in active THEN aborted \cup {j} ELSE aborted
  /\ active' = active \ {j}
  /\ UNCHANGED <<row, pc, out, lock, queued>>

CancelRow(j) ==
  /\ cancels = j /\ cancels' = NoJob
  /\ IF row[j] = "none" THEN UNCHANGED row ELSE Write(j, "cancelled")
  /\ UNCHANGED <<pc, out, lock, queued, active, aborted>>

\* Rows that are over, and those that wait for an hour; nothing runs as long.
Cleanup(j) ==
  /\ row[j] # "none" /\ pc[j] = "idle"
  /\ Write(j, "none")
  /\ UNCHANGED <<pc, out, lock, queued, active, aborted, cancels>>

-----------------------------------------------------------------------------

Step(j) ==
  \/ CountRunning(j) \/ Refuse(j) \/ Create(j)
  \/ Begin(j) \/ (\E result \in Final : Cycle(j, result)) \/ Save(j)
  \/ Recount(j) \/ Find(j) \/ StartNext(j)

Next == \E j \in Job :
  \/ Submit(j) \/ Step(j) \/ Abort(j) \/ CancelRow(j) \/ Cleanup(j)

Spec == Init /\ [][Next]_vars

\* Queries answer, and cycles end.
FairSpec == Spec /\ \A j \in Job : WF_vars(Step(j))

-----------------------------------------------------------------------------
(* Properties *)

TypeOK ==
  /\ row \in [Job -> {"none", "pending", "running"} \cup Final]
  /\ pc \in [Job -> {"idle", "count", "create", "begin", "cycle", "save",
                     "next", "find", "start"}]
  /\ out \in [Job -> {"none", "pending", "running"} \cup Final]
  /\ lock \in Seq(Job) /\ queued \in [Job -> Job \cup {NoJob}]
  /\ active \subseteq Job /\ aborted \subseteq Job
  /\ cancels \in Job \cup {NoJob}
  /\ active \subseteq {j \in Job : pc[j] \in {"begin", "cycle", "save"}}

SubmitAny == \E j \in Job : Submit(j)
SubmitsEnd == <>[][~SubmitAny]_vars

\* A job that waits is started, although the one that runs may end while it is
\* being submitted, and whatever is cancelled in between; but a job that is
\* submitted just when another one has ended goes first, so that it can wait as
\* long as others are submitted.
QueuedStarts == SubmitsEnd => \A j \in Job : []<>(row[j] # "pending")
=============================================================================
