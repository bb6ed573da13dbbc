--------------------------- MODULE NewsIntelligence ---------------------------
(***************************************************************************)
(* The local intelligence worker (src/scripts/start_intelligence_worker.ts)*)
(* with the inference queue (src/services/CodexQueueService.ts) and the    *)
(* analysis of news documents (src/services/NewsIntelligenceService.ts).   *)
(*                                                                         *)
(* Two stores are involved: jobs are rows of the local database, documents *)
(* and analyses of the news database; no transaction spans both.  There is *)
(* one worker process, which may crash and is started again; the web       *)
(* process submits trader jobs, retries rejected documents and removes     *)
(* sources.  All documents have one owner.                                 *)
(***************************************************************************)
EXTENDS Naturals, FiniteSets

CONSTANTS Doc,     \* documents of the owner: their places by the priority of
                   \* the source, then by age
          News,    \* rows at hand for jobs that analyse documents
          Trade,   \* rows at hand for jobs a trader waits for
          NoJob,
          Batch,   \* documents that one job has at most: 40 in the code
          MaxLoad  \* bound: places of documents, and jobs of traders

ASSUME NewsAssumption ==
  /\ Doc \subseteq Nat /\ Batch \in Nat \ {0} /\ MaxLoad \in Nat
  /\ News \cap Trade = {}
  /\ NoJob \notin News \cup Trade

VARIABLES
  job,      \* CodexJob rows
  old,      \* running jobs that started more than 110 s ago
  lease,    \* of the CLI: free, held by the worker, or left by a dead one
  doc,      \* NewsDocument rows
  worker,   \* where the worker is, and what it has read
  client,   \* a call of submit
  remover   \* a call of deleteSource

jobVars == <<job, old, lease>>
vars == <<jobVars, doc, worker, client, remover>>

-----------------------------------------------------------------------------

Job == News \cup Trade
Active == {"preparing", "pending", "running"}
Final == {"completed", "failed", "cancelled"}

\* "stale" is history: a source was removed after the documents were read.
NoRow == [status |-> "none", docs |-> {}, cancel |-> FALSE, stale |-> FALSE]
NoDoc == [status |-> "none", job |-> NoJob]
Unclaimed == [status |-> "pending", job |-> NoJob]
Top == [at |-> "top", todo |-> {}, j |-> NoJob, docs |-> {}, out |-> "none",
        stale |-> FALSE]

Init ==
  /\ job = [j \in Job |-> NoRow] /\ old = {} /\ lease = "free"
  /\ doc = [d \in Doc |-> NoDoc]
  /\ worker = Top
  /\ client = [at |-> "idle", j |-> NoJob]
  /\ remover = "idle"

Has(status) == {j \in Job : job[j].status = status}
Claimed(d, j) == doc[d] = [status |-> "analyzing", job |-> j]

Go(at) == [Top EXCEPT !.at = at]
At(at) == worker.at = at

\* An update of one row, without a condition; it throws if the row is gone.
\* What is thrown in news maintenance leads on to the queue.
SetStatus(j, status, next) ==
  /\ IF job[j].status = "none"
       THEN UNCHANGED job /\ worker' = Go("queue")
       ELSE job' = [job EXCEPT ![j].status = status] /\ worker' = next
  /\ UNCHANGED <<old, lease, doc, client, remover>>

-----------------------------------------------------------------------------
(* finalizeAnalyses: jobs in preparation *)

ListPreparing ==
  /\ At("top")
  /\ worker' = [Go("recover") EXCEPT !.todo = Has("preparing")]
  /\ UNCHANGED <<jobVars, doc, client, remover>>

\* Documents that are pending are claimed, as long as none is elsewhere.
Recover(j) ==
  LET available == {d \in job[j].docs : doc[d] = Unclaimed \/ Claimed(d, j)}
      ok == job[j].docs # {} /\ available = job[j].docs
  IN
  /\ At("recover") /\ j \in worker.todo
  /\ worker' = [worker EXCEPT !.at = "recovered", !.j = j, !.todo = @ \ {j},
                              !.out = IF ok THEN "pending" ELSE "cancelled"]
  /\ doc' = IF ok THEN [d \in Doc |-> IF d \in available
                                       THEN [status |-> "analyzing", job |-> j]
                                       ELSE doc[d]]
              ELSE doc
  /\ UNCHANGED <<jobVars, client, remover>>

SetRecovered ==
  /\ At("recovered")
  /\ SetStatus(worker.j, worker.out,
               [Go("recover") EXCEPT !.todo = worker.todo])

-----------------------------------------------------------------------------
(* finalizeAnalyses: jobs with documents *)

ListAnalyzing ==
  /\ At("recover") /\ worker.todo = {}
  /\ worker' = [Go("settle") EXCEPT
       !.todo = {doc[d].job : d \in {e \in Doc : doc[e].status = "analyzing"}}]
  /\ UNCHANGED <<jobVars, doc, client, remover>>

\* Variant: a row that is gone is not one that has failed.
FailedOnly(j) == job[j].status \in {"failed", "cancelled"}

Failed(j) == job[j].status \in {"none", "failed", "cancelled"}

ReadJob(j) ==
  /\ At("settle") /\ j \in worker.todo
  /\ worker' = [worker EXCEPT !.todo = @ \ {j}, !.j = j,
       !.at = CASE Failed(j) -> "free"
                [] job[j].status = "completed" -> "assess"
                [] OTHER -> "settle"]
  /\ UNCHANGED <<jobVars, doc, client, remover>>

Settled == [Go("settle") EXCEPT !.todo = worker.todo]

FreeDocs ==
  /\ At("free")
  /\ doc' = [d \in Doc |-> IF Claimed(d, worker.j) THEN Unclaimed ELSE doc[d]]
  /\ worker' = Settled
  /\ UNCHANGED <<jobVars, client, remover>>

Mark(j, status) ==
  doc' = [d \in Doc |->
    IF doc[d].job = j THEN [doc[d] EXCEPT !.status = status] ELSE doc[d]]

Judge(verdict) ==
  /\ At("assess")
  /\ worker' = [worker EXCEPT !.at = verdict]
  /\ UNCHANGED <<jobVars, doc, client, remover>>

FailJob ==
  /\ At("invalid")
  /\ SetStatus(worker.j, "failed", [worker EXCEPT !.at = "reject"])

RejectDocs ==
  /\ At("reject")
  /\ Mark(worker.j, "rejected")
  /\ worker' = Settled
  /\ UNCHANGED <<jobVars, client, remover>>

\* The analysis is stored in the transaction that marks its documents, so one
\* that is there before was stored by another worker.
Store ==
  /\ At("valid")
  /\ Mark(worker.j, "analyzed")
  /\ worker' = Settled
  /\ UNCHANGED <<jobVars, client, remover>>

-----------------------------------------------------------------------------
(* enqueueAnalysis *)

\* A row that is over is used again for a new job: bound of the model.
AtHand(j) == job[j].status \notin Active /\ ~\E d \in Doc :
               doc[d] = [status |-> "analyzing", job |-> j]

\* It is not time for it, or the model is not available.
SkipBatch ==
  /\ At("settle") /\ worker.todo = {}
  /\ worker' = Go("queue")
  /\ UNCHANGED <<jobVars, doc, client, remover>>

Pending == {d \in Doc : doc[d].status = "pending"}
Before(e, d) == e < d

\* A batch is the first of the pending documents; how many, its limit of
\* 60 000 characters decides.  (200 are read, more than a batch may have.)
BeginBatch ==
  /\ At("settle") /\ worker.todo = {}
  /\ \A j \in News : job[j].status \notin Active
  /\ \E j \in News : AtHand(j)
  /\ \E docs \in SUBSET Pending \ {{}} :
       /\ Cardinality(docs) <= Batch
       /\ \A d \in docs, e \in Pending : Before(e, d) => e \in docs
       /\ worker' = [Go("create") EXCEPT !.docs = docs]
  /\ UNCHANGED <<jobVars, doc, client, remover>>

\* Variant: a job can be run before its documents are claimed.
AtOnce == "pending"

FirstStatus == "preparing"

Create(j) ==
  /\ At("create") /\ AtHand(j)
  /\ job' = [job EXCEPT ![j] = [NoRow EXCEPT !.status = FirstStatus,
                                  !.docs = worker.docs,
                                  !.stale = worker.stale]]
  /\ worker' = [worker EXCEPT !.at = "claim", !.j = j]
  /\ doc' = [d \in Doc |-> IF doc[d].job = j THEN [doc[d] EXCEPT !.job = NoJob]
                             ELSE doc[d]]
  /\ UNCHANGED <<old, lease, client, remover>>

ClaimDocs ==
  LET ok == \A d \in worker.docs : doc[d].status = "pending"
  IN
  /\ At("claim")
  /\ doc' = IF ok
       THEN [d \in Doc |-> IF d \in worker.docs
                             THEN [status |-> "analyzing", job |-> worker.j]
                             ELSE doc[d]]
       ELSE doc
  /\ worker' = [worker EXCEPT !.at = IF ok THEN "activate" ELSE "discard"]
  /\ UNCHANGED <<jobVars, client, remover>>

Activate == At("activate") /\ SetStatus(worker.j, "pending", Go("queue"))
Discard == At("discard") /\ SetStatus(worker.j, "cancelled", Go("queue"))

-----------------------------------------------------------------------------
(* CodexQueueService.runOne *)

\* Another runner holds the lease, or the model's quota is used up.
SkipRun ==
  /\ At("queue")
  /\ worker' = Top
  /\ UNCHANGED <<jobVars, doc, client, remover>>

TakeLease ==
  /\ At("queue") /\ lease = "free"
  /\ lease' = "held"
  /\ worker' = Go("reset")
  /\ UNCHANGED <<job, old, doc, client, remover>>

ResetOld ==
  /\ At("reset")
  /\ job' = [j \in Job |->
       IF j \in old THEN [job[j] EXCEPT !.status = "failed"] ELSE job[j]]
  /\ old' = {}
  /\ worker' = Go("pick")
  /\ UNCHANGED <<lease, doc, client, remover>>

Waiting == {j \in Has("pending") : ~job[j].cancel}
Best == IF Waiting \cap Trade # {} THEN Waiting \cap Trade ELSE Waiting

Pick ==
  /\ At("pick")
  /\ \/ Best = {} /\ worker' = Go("release")
     \/ \E j \in Best : worker' = [Go("start") EXCEPT !.j = j]
  /\ UNCHANGED <<jobVars, doc, client, remover>>

Start ==
  /\ At("start")
  /\ IF job[worker.j].status = "pending"
       THEN /\ job' = [job EXCEPT ![worker.j].status = "running"]
            /\ worker' = [worker EXCEPT !.at = "run"]
       ELSE UNCHANGED job /\ worker' = Go("release")
  /\ UNCHANGED <<old, lease, doc, client, remover>>

\* The CLI answers or fails; it is aborted when a cancellation is noticed.
Run(out) ==
  /\ At("run")
  /\ out = "cancelled" => job[worker.j].cancel
  /\ worker' = [worker EXCEPT !.at = "save", !.out = out]
  /\ UNCHANGED <<jobVars, doc, client, remover>>

Save ==
  /\ At("save")
  /\ job' = IF job[worker.j].status = "none" THEN job
              ELSE [job EXCEPT ![worker.j].status = worker.out]
  /\ worker' = Go("release")
  /\ UNCHANGED <<old, lease, doc, client, remover>>

Release ==
  /\ At("release")
  /\ lease' = "free"
  /\ worker' = Top
  /\ UNCHANGED <<job, old, doc, client, remover>>

Maintaining == worker.at \in {"recover", "recovered", "settle", "free",
  "assess", "invalid", "reject", "valid", "create", "claim", "activate",
  "discard"}
Running == worker.at \in {"reset", "pick", "start", "run", "save", "release"}

\* A query fails: maintenance goes on with the queue, the queue with the
\* release of the lease; when this fails, too, the lease runs out.
Trip ==
  /\ Maintaining \/ Running
  /\ worker' = [Go(IF Maintaining THEN "queue"
                     ELSE IF At("release") THEN "top" ELSE "release")
                 EXCEPT !.out = "error"]
  /\ lease' = IF At("release") THEN "left" ELSE lease
  /\ UNCHANGED <<job, old, doc, client, remover>>

Crash ==
  /\ ~At("top")
  /\ worker' = [Top EXCEPT !.out = "crash"]
  /\ lease' = IF Running THEN "left" ELSE lease
  /\ UNCHANGED <<job, old, doc, client, remover>>

\* 110 s after its start a job that is still running has nobody who runs it:
\* the CLI is killed after 90 s.
Age(j) ==
  /\ job[j].status = "running" /\ j \notin old
  /\ ~(Running /\ worker.j = j)
  /\ old' = old \cup {j}
  /\ UNCHANGED <<job, lease, doc, worker, client, remover>>

\* The lease was taken before the jobs under it were started.
Expire ==
  /\ lease = "left"
  /\ Has("running") \subseteq old
  /\ lease' = "free"
  /\ UNCHANGED <<job, old, doc, worker, client, remover>>

-----------------------------------------------------------------------------
(* CodexQueueService.submit and cancel, in the web process *)

\* Bound: a place that is taken, and the jobs of traders.
Submitted == Cardinality({j \in Trade : job[j] # NoRow})
Taken(d) ==
  doc[d] # NoDoc \/ d \in worker.docs \/ \E j \in News : d \in job[j].docs
Room == \A d \in Doc : Taken(d) => d + Submitted < MaxLoad

Submit(j) ==
  /\ client.at = "idle" /\ (job[j] # NoRow \/ Room)
  /\ job[j].status \notin Active /\ worker.j # j
  /\ job' = [job EXCEPT ![j] = [NoRow EXCEPT !.status = "pending"]]
  /\ client' = [at |-> "wait", j |-> j]
  /\ UNCHANGED <<old, lease, doc, worker, remover>>

Poll ==
  /\ client.at = "wait" /\ job[client.j].status \in Final
  /\ client' = [at |-> "idle", j |-> NoJob]
  /\ UNCHANGED <<jobVars, doc, worker, remover>>

\* The signal is aborted, or 210 s are over.
GiveUp ==
  /\ client.at = "wait"
  /\ client' = [client EXCEPT !.at = "cancel"]
  /\ UNCHANGED <<jobVars, doc, worker, remover>>

Withdrawn(r) == IF r.status = "pending" THEN [r EXCEPT !.status = "cancelled"]
                  ELSE r
Requested(r) == IF r.status = "running" THEN [r EXCEPT !.cancel = TRUE] ELSE r

\* Variant: first what is running, then what is pending.
RunningFirst(r, first) == IF first THEN Requested(r) ELSE Withdrawn(r)

CancelUpdate(r, first) == IF first THEN Withdrawn(r) ELSE Requested(r)

Cancel ==
  /\ client.at \in {"cancel", "cancelling"}
  /\ job' = [job EXCEPT ![client.j] =
               CancelUpdate(@, client.at = "cancel")]
  /\ client' = [client EXCEPT !.at = IF @ = "cancel" THEN "cancelling"
                                       ELSE "gone"]
  /\ UNCHANGED <<old, lease, doc, worker, remover>>

\* The call throws; or the web process ends.
Leave ==
  /\ client.at # "idle"
  /\ client' = [at |-> "idle", j |-> NoJob]
  /\ UNCHANGED <<jobVars, doc, worker, remover>>

-----------------------------------------------------------------------------
(* Documents *)

\* ingest, of a document that nothing refers to.  A later one may have a place
\* before others, by the priority of its source.
Ingest(d) ==
  /\ doc[d] = NoDoc /\ d \notin worker.docs /\ d + Submitted <= MaxLoad
  /\ \A j \in News : job[j].status \in Active => d \notin job[j].docs
  /\ doc' = [doc EXCEPT ![d] = Unclaimed]
  /\ UNCHANGED <<jobVars, worker, client, remover>>

RetryRejected ==
  /\ \E d \in Doc : doc[d].status = "rejected"
  /\ doc' = [d \in Doc |-> IF doc[d].status = "rejected" THEN Unclaimed
                             ELSE doc[d]]
  /\ UNCHANGED <<jobVars, worker, client, remover>>

Remover(at, next) == remover = at /\ remover' = next

\* deleteSource: cancellations in the one store,
RequestStop ==
  /\ Remover("idle", "requested")
  /\ job' = [j \in Job |-> IF j \in News THEN Requested(job[j]) ELSE job[j]]
  /\ UNCHANGED <<old, lease, doc, worker, client>>

WithdrawJobs ==
  /\ Remover("requested", "withdrawn")
  /\ job' = [j \in Job |->
       IF j \in News /\ job[j].status \in {"preparing", "pending"}
         THEN [job[j] EXCEPT !.status = "cancelled", !.cancel = TRUE]
         ELSE job[j]]
  /\ UNCHANGED <<old, lease, doc, worker, client>>

\* the source with its documents S, and all that was derived, in the other,
RemoveSource(S) ==
  /\ Remover("withdrawn", "removed")
  /\ doc' = [d \in Doc |-> IF doc[d] = NoDoc \/ d \in S THEN NoDoc
                             ELSE Unclaimed]
  /\ job' = [j \in Job |-> [job[j] EXCEPT !.stale = job[j].docs # {}]]
  /\ worker' = [worker EXCEPT !.stale = At("create")]
  /\ UNCHANGED <<old, lease, client>>

\* and the jobs that are over.
DeleteJobs ==
  /\ Remover("removed", "idle")
  /\ job' = [j \in Job |-> IF j \in News /\ job[j].status \in Final THEN NoRow
                             ELSE job[j]]
  /\ UNCHANGED <<old, lease, doc, worker, client>>

RemoverFails ==
  /\ remover # "idle" /\ remover' = "idle"
  /\ UNCHANGED <<jobVars, doc, worker, client>>

-----------------------------------------------------------------------------

Work ==
  \/ ListPreparing \/ (\E j \in News : Recover(j)) \/ SetRecovered
  \/ ListAnalyzing \/ (\E j \in News : ReadJob(j)) \/ FreeDocs
  \/ (\E v \in {"valid", "invalid"} : Judge(v)) \/ FailJob
  \/ RejectDocs \/ Store
  \/ SkipBatch \/ BeginBatch \/ (\E j \in News : Create(j)) \/ ClaimDocs
  \/ Activate \/ Discard
  \/ SkipRun \/ TakeLease \/ ResetOld \/ Pick \/ Start
  \/ (\E out \in Final : Run(out)) \/ Save \/ Release

Web ==
  \/ (\E j \in Trade : Submit(j)) \/ Poll \/ GiveUp \/ Cancel \/ Leave
  \/ (\E d \in Doc : Ingest(d)) \/ RetryRejected
  \/ RequestStop \/ WithdrawJobs \/ (\E S \in SUBSET Doc : RemoveSource(S))
  \/ DeleteJobs \/ RemoverFails

Time == Expire \/ \E j \in Job : Age(j)

Next ==
  \/ Work \/ Trip \/ Crash \/ Web \/ Time

Spec == Init /\ [][Next]_vars

\* The worker's loop goes on, and gets its turns; time passes.
Fairness ==
  /\ WF_vars(Work) /\ SF_vars(BeginBatch) /\ SF_vars(TakeLease)
  /\ WF_vars(Time)

FairSpec == Spec /\ Fairness

-----------------------------------------------------------------------------
(* Properties *)

TypeOK ==
  /\ job \in [Job -> [status : Active \cup Final \cup {"none"},
                      docs : SUBSET Doc, cancel : BOOLEAN, stale : BOOLEAN]]
  /\ old \subseteq Has("running") /\ lease \in {"free", "held", "left"}
  /\ lease = "held" <=> Running
  /\ doc \in [Doc -> [status : {"none", "pending", "analyzing", "analyzed",
                                "rejected"}, job : News \cup {NoJob}]]
  /\ worker.j \in Job \cup {NoJob}

\* A trader that gave its job up leaves nothing behind that will be started,
\* or that runs without being asked to stop, although the worker may start the
\* job between the two updates of cancel.
CancelTakes ==
  client.at = "gone" => LET r == job[client.j] IN
    r.status # "pending" /\ (r.status = "running" => r.cancel)

\* The model is never run on documents that are not claimed for the job in the
\* other store, wherever the worker crashed or a query failed; unless a source
\* was removed in the meantime.
RunsClaimed ==
  \A j \in News :
    job[j].status \in {"pending", "running"} /\ ~job[j].cancel /\ ~job[j].stale
      => \A d \in job[j].docs : Claimed(d, j)

Disturb == Crash \/ Trip \/ RequestStop \/ \E j \in Trade : Submit(j)
DisturbancesEnd == <>[][~Disturb]_vars

\* A removal came between the steps of enqueueAnalysis, or of a recovery: the
\* job it cancelled was made pending, and stays so, as it is not to be started.
Revived == \E j \in News : job[j].status = "pending" /\ job[j].cancel

\* Once faults, removals of sources and the jobs of traders end, no document is
\* being analysed for ever, nor does one wait for ever, except behind documents
\* that go before it and come to wait again and again, as when their job fails
\* each time; unless a removal left a job that is both pending and cancelled,
\* which blocks the owner's analyses.
Overtaken(d) == []<>(\E e \in Pending : Before(e, d))
DocumentsMove ==
  DisturbancesEnd =>
    []<>Revived \/ \A d \in Doc :
      /\ []<>(doc[d].status # "pending") \/ Overtaken(d)
      /\ []<>(doc[d].status # "analyzing")
=============================================================================
