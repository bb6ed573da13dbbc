---------------------------- MODULE ServicesProofs ----------------------------
(***************************************************************************)
(* What is proved of the services beside the desk (MCServices), for any    *)
(* number of documents, rows, tasks, handlers and processes.               *)
(*                                                                         *)
(* The parts rest while one of them acts, so that the invariant is a       *)
(* conjunction with one part for each, and a step of one has to be looked  *)
(* at for its own conjunct only.                                           *)
(***************************************************************************)
EXTENDS MCServices, Naturals, TLAPS

SafetySpec == InitServices /\ [][NextServices]_allVars

-----------------------------------------------------------------------------
(* The legacy auto-trader *)

\* The auto-trader is not enabled beside the desk, which is what a claim asks
\* for in the transaction that makes it.
LegacyInv ==
  /\ ~(book /\ enabled)
  /\ beside = {}

\* updateBook and configure check each other's switch, and claimSettings the
\* switch of the auto-trader: this keeps a cycle from a book that is enabled.
LEMMA LegacyStays ==
  ASSUME LegacyInv, [Legacy!Next]_legacyVars
  PROVE  LegacyInv'
<1>1. CASE \E on \in BOOLEAN : Legacy!UpdateBook(on) \/ Legacy!Configure(on)
  BY <1>1 DEF LegacyInv, Legacy!UpdateBook, Legacy!Configure, Legacy!Stopped
<1>2. ASSUME NEW p \in Process,
             \/ Legacy!ListDue(p) \/ Legacy!FinalizeStaleRuns(p)
             \/ Legacy!StartRun(p) \/ Legacy!FinishRun(p) \/ Legacy!Throw(p)
             \/ Legacy!Report(p) \/ Legacy!Crash(p)
      PROVE  LegacyInv'
  BY <1>2 DEF LegacyInv, Legacy!ListDue, Legacy!FinalizeStaleRuns,
              Legacy!StartRun, Legacy!FinishRun, Legacy!Throw,
              Legacy!Report, Legacy!Crash
<1>3. ASSUME NEW p \in Process, Legacy!Claim(p)
      PROVE  LegacyInv'
  BY <1>3 DEF LegacyInv, Legacy!Claim, Legacy!Claimable
<1>4. CASE Legacy!Bootstrap \/ Legacy!Tick
  BY <1>4 DEF LegacyInv, Legacy!Bootstrap, Legacy!Tick
<1>5. CASE UNCHANGED legacyVars
  BY <1>5 DEF LegacyInv, legacyVars
<1>. QED
  BY <1>1, <1>2, <1>3, <1>4, <1>5 DEF Legacy!Next

-----------------------------------------------------------------------------
(* The collection of a source *)

XPoll == [at : {"idle", "claim"}, config : 0..MaxEdits, same : BOOLEAN]
XTask ==
  [at : {"none", "collect", "wait"}, config : 0..MaxEdits]
XSent == [Collection!Kind -> {"none", "sent", "found"}]

SourceTypes ==
  /\ config \in 0..MaxEdits
  /\ poll \in [Handler -> XPoll]
  /\ task \in [Task -> XTask]
  /\ sent \in [Task -> XSent]

\* A row that is as a handler read it is of the configuration it read.
AsRead ==
  \A h \in Handler :
    poll[h].at = "claim" /\ poll[h].same => poll[h].config = config

\* The task that has the source, if it was ever started, works with the
\* configuration of the source; an answer that was lost started none.
OfThisConfig ==
  \A t \in Task :
    srcLease = t =>
      \/ task[t].config = config
      \/ task[t].at = "none" /\ sent[t]["captures"] = "none"

CollectionInv == SourceTypes /\ AsRead /\ OfThisConfig /\ ~mixed

LEMMA SourceTypesNext ==
  ASSUME Collection!CollectionAssumption, SourceTypes,
         [Collection!Next]_sourceVars
  PROVE  SourceTypes'
<1>e. ASSUME NEW c \in 0..MaxEdits, NEW b \in BOOLEAN,
             NEW a \in {"idle", "claim"}
      PROVE  [at |-> a, config |-> c, same |-> b] \in XPoll
  BY DEF XPoll
<1>f. ASSUME NEW r \in XPoll
      PROVE  [r EXCEPT !.same = FALSE] \in XPoll
  BY DEF XPoll
<1>g. ASSUME NEW r \in XTask, NEW a \in {"none", "wait"}
      PROVE  [r EXCEPT !.at = a] \in XTask
  BY DEF XTask
<1>h. ASSUME NEW r \in XSent, NEW k \in Collection!Kind,
             NEW v \in {"none", "sent", "found"}
      PROVE  [r EXCEPT ![k] = v] \in XSent
  BY DEF XSent
<1>i. 0 \in 0..MaxEdits /\ \A c \in 0..MaxEdits : c < MaxEdits =>
        c + 1 \in 0..MaxEdits
  BY DEF Collection!CollectionAssumption
<1>j. \A h \in Handler : poll[h].config \in 0..MaxEdits
  BY DEF SourceTypes, XPoll
<1>k. Collection!NoPoll \in XPoll
  BY <1>e, <1>i DEF Collection!NoPoll
<1>l. \A c \in 0..MaxEdits : [at |-> "collect", config |-> c] \in XTask
  BY DEF XTask
<1>m. "captures" \in Collection!Kind /\ "report" \in Collection!Kind
  BY DEF Collection!Kind
<1>. HIDE DEF XPoll, XTask, XSent, Collection!Kind
<1>. USE DEF SourceTypes
<1>1. ASSUME NEW h \in Handler, Collection!Candidates(h)
      PROVE  SourceTypes'
  BY <1>1, <1>e DEF Collection!Candidates
<1>2. ASSUME NEW h \in Handler, Collection!ClaimNothing(h)
      PROVE  SourceTypes'
  BY <1>2, <1>k DEF Collection!ClaimNothing
<1>3. ASSUME NEW h \in Handler, NEW t \in Task, NEW lost \in BOOLEAN,
             Collection!Claim(h, t, lost)
      PROVE  SourceTypes'
  BY <1>3, <1>f, <1>j, <1>k, <1>l DEF Collection!Claim
<1>4. ASSUME NEW t \in Task,
             \/ Collection!Submit(t) \/ Collection!Report(t)
             \/ Collection!Drop(t)
      PROVE  SourceTypes'
  <2>1. task' \in [Task -> XTask]
    BY <1>4 DEF Collection!Submit, Collection!Report, Collection!Drop, XTask
  <2>2. sent' \in [Task -> XSent]
    BY <1>4, <1>m DEF Collection!Submit, Collection!Report,
                      Collection!Drop, Collection!Send, XSent
  <2>. QED
    BY <1>4, <2>1, <2>2 DEF Collection!Submit, Collection!Report,
                            Collection!Drop
<1>5. ASSUME NEW t \in Task, NEW k \in Collection!Kind,
             Collection!Lose(t, k) \/ Collection!Find(t, k)
      PROVE  SourceTypes'
  <2>1. sent' \in [Task -> XSent]
    BY <1>5 DEF Collection!Lose, Collection!Find, Collection!Handled, XSent
  <2>. QED
    BY <1>5, <2>1 DEF Collection!Lose, Collection!Find
<1>6. ASSUME NEW t \in Task, NEW k \in Collection!Kind,
             NEW s \in Collection!Status, Collection!Store(t, k, s)
      PROVE  SourceTypes'
  <2>1. sent' \in [Task -> XSent]
    BY <1>6 DEF Collection!Store, Collection!Handled, XSent
  <2>. QED
    BY <1>6, <1>f, <2>1 DEF Collection!Store, Collection!Updated
<1>7. CASE Collection!Edit
  BY <1>7, <1>f, <1>i DEF Collection!Edit, Collection!Updated
<1>8. CASE \/ Collection!Expire \/ Collection!ComeDue
           \/ UNCHANGED sourceVars
  BY <1>8 DEF Collection!Expire, Collection!ComeDue, sourceVars
<1>. QED
  BY <1>1, <1>2, <1>3, <1>4, <1>5, <1>6, <1>7, <1>8 DEF Collection!Next

\* A capture is stored only while its task has the source, and every edit of
\* the source takes it away (StillHis, saveSource); a handler gives the source
\* to a task only if the row is as it read it (AsRead).
LEMMA CollectionStays ==
  ASSUME Collection!CollectionAssumption, CollectionInv,
         [Collection!Next]_sourceVars
  PROVE  CollectionInv'
<1>t. SourceTypes'
  BY SourceTypesNext DEF CollectionInv
<1>. USE <1>t DEF CollectionInv, SourceTypes, XPoll, XTask, XSent,
                 Collection!Kind, Collection!CollectionAssumption
<1>1. ASSUME NEW h \in Handler,
             Collection!Candidates(h) \/ Collection!ClaimNothing(h)
      PROVE  CollectionInv'
  BY <1>1 DEF Collection!Candidates, Collection!ClaimNothing,
              Collection!NoPoll, AsRead, OfThisConfig
<1>2. ASSUME NEW h \in Handler, NEW t \in Task, NEW lost \in BOOLEAN,
             Collection!Claim(h, t, lost)
      PROVE  CollectionInv'
  <2>1. AsRead' /\ ~mixed'
    BY <1>2 DEF Collection!Claim, Collection!NoPoll, AsRead
  <2>2. poll[h].config = config
    BY <1>2 DEF Collection!Claim, Collection!AsRead, AsRead
  <2>3. OfThisConfig'
    <3>1. srcLease' = t /\ UNCHANGED <<config, sent>>
      BY <1>2 DEF Collection!Claim
    <3>2. CASE lost
      <4>1. task[t].at = "none" /\ sent[t]["captures"] = "none"
        BY <1>2 DEF Collection!Claim, Collection!Fresh
      <4>2. task' = task
        BY <1>2, <3>2 DEF Collection!Claim
      <4>. QED
        BY <3>1, <4>1, <4>2 DEF OfThisConfig
    <3>3. CASE ~lost
      <4>1. task'[t].config = config
        BY <1>2, <2>2, <3>3 DEF Collection!Claim
      <4>2. \A u \in Task : srcLease' = u => task'[u].config = config'
        BY <3>1, <4>1
      <4>. QED
        BY <4>2 DEF OfThisConfig
    <3>. QED
      BY <3>2, <3>3
  <2>. QED
    BY <2>1, <2>3
<1>3. ASSUME NEW t \in Task,
             \/ Collection!Submit(t) \/ Collection!Report(t)
             \/ Collection!Drop(t)
      PROVE  CollectionInv'
  <2>1. AsRead' /\ ~mixed'
    BY <1>3 DEF Collection!Submit, Collection!Report, Collection!Drop, AsRead
  <2>2. \A u \in Task : task'[u].config = task[u].config
    BY <1>3 DEF Collection!Submit, Collection!Report, Collection!Drop
  <2>3. \A u \in Task : task[u].at = "none" =>
          /\ task'[u].at = "none"
          /\ sent'[u]["captures"] = sent[u]["captures"]
    BY <1>3 DEF Collection!Submit, Collection!Report, Collection!Drop,
                Collection!Send
  <2>4. UNCHANGED <<config, srcLease>>
    BY <1>3 DEF Collection!Submit, Collection!Report, Collection!Drop
  <2>5. OfThisConfig'
    BY <2>2, <2>3, <2>4 DEF OfThisConfig
  <2>. QED
    BY <2>1, <2>5
<1>4. ASSUME NEW t \in Task, NEW k \in Collection!Kind,
             Collection!Lose(t, k) \/ Collection!Find(t, k)
      PROVE  CollectionInv'
  BY <1>4 DEF Collection!Lose, Collection!Find, Collection!Handled, AsRead,
              OfThisConfig
<1>5. ASSUME NEW t \in Task, NEW k \in Collection!Kind,
             NEW s \in Collection!Status, Collection!Store(t, k, s)
      PROVE  CollectionInv'
  <2>1. ~mixed'
    BY <1>5 DEF Collection!Store, Collection!StillHis, OfThisConfig
  <2>2. AsRead'
    BY <1>5 DEF Collection!Store, Collection!Updated, AsRead
  <2>3. OfThisConfig'
    BY <1>5 DEF Collection!Store, Collection!StillHis, Collection!Handled,
                Collection!NoLease, OfThisConfig
  <2>. QED
    BY <2>1, <2>2, <2>3
<1>6. CASE Collection!Edit
  BY <1>6 DEF Collection!Edit, Collection!Updated, Collection!NoLease,
              AsRead, OfThisConfig
<1>7. CASE \/ Collection!Expire \/ Collection!ComeDue
           \/ UNCHANGED sourceVars
  BY <1>7 DEF Collection!Expire, Collection!ComeDue, sourceVars, AsRead,
              OfThisConfig
<1>. QED
  BY <1>1, <1>2, <1>3, <1>4, <1>5, <1>6, <1>7 DEF Collection!Next

-----------------------------------------------------------------------------
(* The local intelligence worker: types *)

Status == Active \cup Final \cup {"none"}
XJob == [status : Status, docs : SUBSET Doc, cancel : BOOLEAN,
         stale : BOOLEAN]
XDoc == [status : {"none", "pending", "analyzing", "analyzed", "rejected"},
         job : News \cup {NoJob}]
Places == {"top", "recover", "recovered", "settle", "free", "assess",
           "invalid", "reject", "valid", "create", "claim", "activate",
           "discard", "queue", "reset", "pick", "start", "run", "save",
           "release"}
XWorker == [at : Places, todo : SUBSET (Job \cup {NoJob}),
            j : Job \cup {NoJob}, docs : SUBSET Doc,
            out : Final \cup {"none", "pending", "error", "crash"},
            stale : BOOLEAN]
XClient == [at : {"idle", "wait", "cancel", "cancelling", "gone"},
            j : Job \cup {NoJob}]

NewsTypes ==
  /\ job \in [Job -> XJob] /\ old \subseteq Job
  /\ doc \in [Doc -> XDoc]
  /\ worker \in XWorker
  /\ client \in XClient

LEMMA RowsTyped ==
  /\ NoRow \in XJob /\ NoDoc \in XDoc /\ Unclaimed \in XDoc
  /\ \A j \in News : [status |-> "analyzing", job |-> j] \in XDoc
  /\ Top \in XWorker
  /\ \A p \in Places : Go(p) \in XWorker /\ Go(p).at = p
<1>1. NoRow \in XJob
  BY DEF NoRow, XJob, Status
<1>2. /\ NoDoc \in XDoc /\ Unclaimed \in XDoc
      /\ \A j \in News : [status |-> "analyzing", job |-> j] \in XDoc
  BY DEF NoDoc, Unclaimed, XDoc
<1>3. Top \in XWorker
  BY DEF Top, XWorker, Places
<1>4. ASSUME NEW p \in Places
      PROVE  Go(p) \in XWorker /\ Go(p).at = p
  BY <1>3 DEF Go, XWorker
<1>. QED
  BY <1>1, <1>2, <1>3, <1>4

LEMMA JobUpdated ==
  ASSUME NEW r \in XJob
  PROVE  /\ \A s \in Status : /\ [r EXCEPT !.status = s] \in XJob
                              /\ [r EXCEPT !.status = s].status = s
                              /\ [r EXCEPT !.status = s].docs = r.docs
                              /\ [r EXCEPT !.status = s].cancel = r.cancel
                              /\ [r EXCEPT !.status = s].stale = r.stale
         /\ [r EXCEPT !.status = "cancelled", !.cancel = TRUE] \in XJob
         /\ \A b \in BOOLEAN : [r EXCEPT !.stale = b] \in XJob
         /\ Withdrawn(r) \in XJob /\ Requested(r) \in XJob
  BY DEF XJob, Status, Active, Final, Withdrawn, Requested

LEMMA SetStatusTyped ==
  ASSUME NewsTypes, NEW j \in Job, NEW s \in Status, NEW w \in XWorker,
         SetStatus(j, s, w)
  PROVE  NewsTypes'
<1>1. job' \in [Job -> XJob]
  BY DEF NewsTypes, SetStatus, XJob
<1>2. worker' \in XWorker
  BY RowsTyped DEF SetStatus, Places
<1>. QED
  BY <1>1, <1>2 DEF NewsTypes, SetStatus

\* Where the worker may be is a record of this type again.
LEMMA WorkerMoved ==
  ASSUME NEW w \in XWorker, NEW p \in Places
  PROVE  /\ [w EXCEPT !.at = p] \in XWorker
         /\ [w EXCEPT !.at = p].at = p
         /\ [w EXCEPT !.at = p].j = w.j
         /\ [w EXCEPT !.at = p].docs = w.docs
         /\ [w EXCEPT !.at = p].out = w.out
  BY DEF XWorker

\* The steps of the worker that leave the rows alone.
Reading ==
  \/ ListPreparing \/ ListAnalyzing \/ (\E j \in News : ReadJob(j))
  \/ (\E v \in {"valid", "invalid"} : Judge(v)) \/ SkipBatch \/ BeginBatch
  \/ SkipRun \/ TakeLease \/ Pick \/ (\E how \in Final : Run(how)) \/ Release
  \/ Trip \/ Crash

\* Those that change the job they are at, and those that change documents.
Setting == SetRecovered \/ FailJob \/ Activate \/ Discard
Marking ==
  \/ (\E j \in News : Recover(j)) \/ FreeDocs \/ RejectDocs \/ Store
  \/ ClaimDocs
Queueing == (\E j \in News : Create(j)) \/ ResetOld \/ Start \/ Save

Calling == (\E j \in Trade : Submit(j)) \/ Poll \/ GiveUp \/ Cancel \/ Leave
Documents == (\E d \in Doc : Ingest(d)) \/ RetryRejected
Removing ==
  \/ RequestStop \/ WithdrawJobs \/ (\E S \in SUBSET Doc : RemoveSource(S))
  \/ DeleteJobs \/ RemoverFails

LEMMA NextCases ==
  ASSUME Next
  PROVE  \/ Reading \/ Setting \/ Marking \/ Queueing
         \/ Calling \/ Documents \/ Removing \/ Time
  BY Zenon DEF Next, Work, Web, Reading, Setting, Marking, Queueing, Calling,
               Documents, Removing

LEMMA ReadingTyped ==
  ASSUME NewsTypes, Reading
  PROVE  NewsTypes'
<1>. USE DEF NewsTypes
<1>u. UNCHANGED <<job, old, doc, client>>
  BY DEF Reading, jobVars, ListPreparing, ListAnalyzing, ReadJob, Judge,
         SkipBatch, BeginBatch, SkipRun, TakeLease, Pick, Run, Release, Trip,
         Crash
<1>1. CASE ListPreparing
  <2>1. Has("preparing") \subseteq Job /\ Go("recover") \in XWorker
    BY RowsTyped DEF Has, Places
  <2>. QED
    BY <1>1, <1>u, <2>1 DEF ListPreparing, XWorker
<1>2. CASE ListAnalyzing
  <2>1. {doc[d].job : d \in {e \in Doc : doc[e].status = "analyzing"}}
          \subseteq Job \cup {NoJob}
    BY DEF XDoc, Job
  <2>2. Go("settle") \in XWorker
    BY RowsTyped DEF Places
  <2>. QED
    BY <1>2, <1>u, <2>1, <2>2 DEF ListAnalyzing, XWorker
<1>3. ASSUME NEW j \in News, ReadJob(j)
      PROVE  NewsTypes'
  <2>1. j \in Job
    BY DEF Job
  <2>. DEFINE p == CASE Failed(j) -> "free"
                     [] job[j].status = "completed" -> "assess"
                     [] OTHER -> "settle"
  <2>2. p \in Places
    BY DEF Places
  <2>. HIDE DEF p
  <2>3. worker' \in XWorker
    BY <1>3, <2>1, <2>2 DEF ReadJob, XWorker, p
  <2>. QED
    BY <1>u, <2>3
<1>4. ASSUME NEW v \in {"valid", "invalid"}, Judge(v)
      PROVE  NewsTypes'
  <2>1. v \in Places
    BY DEF Places
  <2>. QED
    BY <1>4, <1>u, <2>1, WorkerMoved DEF Judge
<1>5. CASE SkipBatch \/ SkipRun \/ TakeLease \/ Release
  <2>1. Go("queue") \in XWorker /\ Go("reset") \in XWorker
    BY RowsTyped DEF Places
  <2>. QED
    BY <1>5, <1>u, <2>1, RowsTyped DEF SkipBatch, SkipRun, TakeLease, Release
<1>6. CASE BeginBatch
  <2>1. Go("create") \in XWorker
    BY RowsTyped DEF Places
  <2>2. PICK docs \in SUBSET Pending \ {{}} :
          worker' = [Go("create") EXCEPT !.docs = docs]
    BY <1>6 DEF BeginBatch
  <2>3. docs \subseteq Doc
    BY DEF Pending
  <2>4. worker' \in XWorker
    BY <2>1, <2>2, <2>3 DEF XWorker
  <2>. QED
    BY <1>u, <2>4
<1>7. CASE Pick
  <2>1. Go("start") \in XWorker /\ Go("release") \in XWorker
    BY RowsTyped DEF Places
  <2>2. Best \subseteq Job
    BY DEF Best, Waiting, Has, Job
  <2>. QED
    BY <1>7, <1>u, <2>1, <2>2 DEF Pick, XWorker
<1>8. ASSUME NEW how \in Final, Run(how)
      PROVE  NewsTypes'
  <2>1. worker' \in XWorker
    BY <1>8 DEF Run, XWorker, Places, Final
  <2>. QED
    BY <1>u, <2>1
<1>9. CASE Trip
  <2>1. \A p \in Places : [Go(p) EXCEPT !.out = "error"] \in XWorker
    BY RowsTyped DEF XWorker
  <2>2. {"queue", "top", "release"} \subseteq Places
    BY DEF Places
  <2>. QED
    BY <1>9, <1>u, <2>1, <2>2 DEF Trip
<1>10. CASE Crash
  BY <1>10, <1>u, RowsTyped DEF Crash, XWorker
<1>. QED
  BY <1>1, <1>2, <1>3, <1>4, <1>5, <1>6, <1>7, <1>8, <1>9, <1>10 DEF Reading

\* What has the worker at one job, and where it stands there.
Posts ==
  /\ worker.at \in {"recovered", "free", "assess", "invalid", "reject",
                    "valid", "claim", "activate", "discard"}
       => worker.j \in News
  /\ worker.at \in {"start", "run", "save"} => worker.j \in Job
  /\ worker.at = "recovered" => worker.out \in {"pending", "cancelled"}
  /\ worker.at = "save" => worker.out \in Final
  /\ client.at # "idle" => client.j \in Trade

LEMMA SettingTyped ==
  ASSUME NewsTypes, Posts, Setting
  PROVE  NewsTypes'
<1>1. worker.j \in Job /\ Job \subseteq Job \cup {NoJob}
  BY DEF Setting, Posts, SetRecovered, FailJob, Activate, Discard, At, Job
<1>2. CASE SetRecovered
  <2>1. [Go("recover") EXCEPT !.todo = worker.todo] \in XWorker
    BY RowsTyped DEF NewsTypes, XWorker, Places
  <2>2. worker.out \in Status
    BY <1>2 DEF SetRecovered, Posts, At, Status, Active, Final
  <2>. QED
    BY <1>1, <1>2, <2>1, <2>2, SetStatusTyped DEF SetRecovered
<1>3. CASE FailJob
  <2>1. [worker EXCEPT !.at = "reject"] \in XWorker /\ "failed" \in Status
    BY WorkerMoved DEF NewsTypes, Places, Status, Final
  <2>. QED
    BY <1>1, <1>3, <2>1, SetStatusTyped DEF FailJob
<1>4. CASE Activate \/ Discard
  <2>1. Go("queue") \in XWorker /\ {"pending", "cancelled"} \subseteq Status
    BY RowsTyped DEF Places, Status, Active, Final
  <2>. QED
    BY <1>1, <1>4, <2>1, SetStatusTyped DEF Activate, Discard
<1>. QED
  BY <1>2, <1>3, <1>4 DEF Setting

LEMMA MarkTyped ==
  ASSUME NewsTypes, NEW j, NEW s \in {"analyzed", "rejected"}, Mark(j, s)
  PROVE  doc' \in [Doc -> XDoc]
  BY DEF Mark, NewsTypes, XDoc

LEMMA MarkingTyped ==
  ASSUME NewsTypes, Posts, Marking
  PROVE  NewsTypes'
<1>1. ASSUME NEW j \in News, Recover(j)
      PROVE  NewsTypes'
  <2>1. doc' \in [Doc -> XDoc]
    BY <1>1, RowsTyped DEF Recover, NewsTypes
  <2>2. worker' \in XWorker
    BY <1>1 DEF Recover, NewsTypes, XWorker, Places, Job, Final
  <2>. QED
    BY <1>1, <2>1, <2>2 DEF Recover, NewsTypes, jobVars
<1>2. CASE FreeDocs \/ RejectDocs \/ Store
  <2>1. doc' \in [Doc -> XDoc]
    BY <1>2, RowsTyped, MarkTyped DEF FreeDocs, RejectDocs, Store, NewsTypes
  <2>2. Settled \in XWorker
    BY RowsTyped DEF Settled, NewsTypes, XWorker, Places
  <2>. QED
    BY <1>2, <2>1, <2>2
       DEF FreeDocs, RejectDocs, Store, NewsTypes, jobVars
<1>3. CASE ClaimDocs
  <2>1. doc' \in [Doc -> XDoc]
    BY <1>3, RowsTyped DEF ClaimDocs, NewsTypes, Posts, At
  <2>2. worker' \in XWorker
    BY <1>3, WorkerMoved DEF ClaimDocs, NewsTypes, Places
  <2>. QED
    BY <1>3, <2>1, <2>2 DEF ClaimDocs, NewsTypes, jobVars
<1>. QED
  BY <1>1, <1>2, <1>3 DEF Marking

LEMMA QueueingTyped ==
  ASSUME NewsTypes, Posts, Queueing
  PROVE  NewsTypes'
<1>1. ASSUME NEW j \in News, Create(j)
      PROVE  NewsTypes'
  <2>1. job' \in [Job -> XJob]
    <3>1. [NoRow EXCEPT !.status = FirstStatus, !.docs = worker.docs,
                        !.stale = worker.stale] \in XJob
      BY DEF NoRow, FirstStatus, NewsTypes, XWorker, XJob, Status, Active
    <3>. QED
      BY <1>1, <3>1 DEF Create, NewsTypes
  <2>2. doc' \in [Doc -> XDoc]
    BY <1>1 DEF Create, NewsTypes, XDoc
  <2>3. worker' \in XWorker
    BY <1>1 DEF Create, NewsTypes, XWorker, Places, Job
  <2>. QED
    BY <1>1, <2>1, <2>2, <2>3 DEF Create, NewsTypes
<1>2. CASE ResetOld
  <2>1. job' \in [Job -> XJob] /\ old' = {}
    BY <1>2, JobUpdated DEF ResetOld, NewsTypes, Status, Final
  <2>2. worker' \in XWorker
    BY <1>2, RowsTyped DEF ResetOld, Places
  <2>. QED
    BY <1>2, <2>1, <2>2 DEF ResetOld, NewsTypes
<1>3. CASE Start
  <2>1. job' \in [Job -> XJob]
    BY <1>3 DEF Start, NewsTypes, XJob, Status, Active
  <2>2. worker' \in XWorker
    <3>1. [worker EXCEPT !.at = "run"] \in XWorker /\ Go("release") \in XWorker
      BY WorkerMoved, RowsTyped DEF NewsTypes, Places
    <3>. QED
      BY <1>3, <3>1 DEF Start
  <2>. QED
    BY <1>3, <2>1, <2>2 DEF Start, NewsTypes
<1>4. CASE Save
  <2>1. job' \in [Job -> XJob]
    BY <1>4 DEF Save, NewsTypes, Posts, At, XJob, Status
  <2>2. worker' \in XWorker
    BY <1>4, RowsTyped DEF Save, Places
  <2>. QED
    BY <1>4, <2>1, <2>2 DEF Save, NewsTypes
<1>. QED
  BY <1>1, <1>2, <1>3, <1>4 DEF Queueing

LEMMA CallingTyped ==
  ASSUME NewsTypes, Posts, Calling
  PROVE  NewsTypes'
<1>1. ASSUME NEW j \in Trade, Submit(j)
      PROVE  NewsTypes'
  <2>1. [NoRow EXCEPT !.status = "pending"] \in XJob
    BY RowsTyped, JobUpdated DEF Status, Active
  <2>2. client' \in XClient
    BY <1>1 DEF Submit, XClient, Job
  <2>. QED
    BY <1>1, <2>1, <2>2 DEF Submit, NewsTypes
<1>2. CASE Poll \/ GiveUp \/ Leave
  <2>1. client' \in XClient
    BY <1>2 DEF Poll, GiveUp, Leave, NewsTypes, XClient
  <2>. QED
    BY <1>2, <2>1 DEF Poll, GiveUp, Leave, NewsTypes, jobVars
<1>3. CASE Cancel
  <2>1. job' \in [Job -> XJob]
    BY <1>3, JobUpdated DEF Cancel, CancelUpdate, NewsTypes
  <2>2. client' \in XClient
    BY <1>3 DEF Cancel, NewsTypes, XClient
  <2>. QED
    BY <1>3, <2>1, <2>2 DEF Cancel, NewsTypes
<1>. QED
  BY <1>1, <1>2, <1>3 DEF Calling

LEMMA DocumentsTyped ==
  ASSUME NewsTypes, Documents
  PROVE  NewsTypes'
<1>1. doc' \in [Doc -> XDoc]
  BY RowsTyped DEF Documents, Ingest, RetryRejected, NewsTypes
<1>. QED
  BY <1>1 DEF Documents, Ingest, RetryRejected, NewsTypes, jobVars

LEMMA RemovingTyped ==
  ASSUME NewsTypes, Removing
  PROVE  NewsTypes'
<1>1. job' \in [Job -> XJob]
  <2>1. CASE RequestStop
    BY <2>1, JobUpdated DEF RequestStop, NewsTypes
  <2>2. CASE WithdrawJobs
    BY <2>2, JobUpdated DEF WithdrawJobs, NewsTypes
  <2>3. CASE \E S \in SUBSET Doc : RemoveSource(S)
    <3>1. ASSUME NEW j \in Job
          PROVE  [job[j] EXCEPT !.stale = job[j].docs # {}] \in XJob
      <4>. DEFINE b == job[j].docs # {}
      <4>1. b \in BOOLEAN
        OBVIOUS
      <4>. HIDE DEF b
      <4>2. [job[j] EXCEPT !.stale = b] \in XJob
        BY <4>1, JobUpdated DEF NewsTypes
      <4>. QED
        BY <4>2 DEF b
    <3>. QED
      BY <2>3, <3>1 DEF RemoveSource, NewsTypes
  <2>4. CASE DeleteJobs \/ RemoverFails
    BY <2>4, RowsTyped DEF DeleteJobs, RemoverFails, NewsTypes, jobVars
  <2>. QED
    BY <2>1, <2>2, <2>3, <2>4 DEF Removing
<1>2. doc' \in [Doc -> XDoc]
  BY RowsTyped
     DEF Removing, RequestStop, WithdrawJobs, RemoveSource, DeleteJobs,
         RemoverFails, NewsTypes
<1>3. worker' \in XWorker
  BY DEF Removing, RequestStop, WithdrawJobs, RemoveSource, DeleteJobs,
         RemoverFails, NewsTypes, XWorker, At
<1>. QED
  BY <1>1, <1>2, <1>3
     DEF Removing, RequestStop, WithdrawJobs, RemoveSource, DeleteJobs,
         RemoverFails, NewsTypes, jobVars

LEMMA TimeTyped ==
  ASSUME NewsTypes, Time \/ UNCHANGED newsVars
  PROVE  NewsTypes'
  BY DEF Time, Expire, Age, NewsTypes, newsVars

LEMMA NewsTypesNext ==
  ASSUME NewsTypes, Posts, [Next]_newsVars
  PROVE  NewsTypes'
  BY Zenon, NextCases, ReadingTyped, SettingTyped, MarkingTyped,
     QueueingTyped, CallingTyped, DocumentsTyped, RemovingTyped, TimeTyped

-----------------------------------------------------------------------------
(* The local intelligence worker: its invariant *)

\* What the worker withdraws or settles the documents of is over.
OverThere ==
  worker.at \in {"free", "assess", "invalid", "reject", "valid"} =>
    job[worker.j].status \in Final \cup {"none"}

\* The row of a new job has the documents that will be claimed for it.
AsCreated ==
  worker.at \in {"claim", "activate"} =>
    \/ job[worker.j].status = "none"
    \/ job[worker.j].docs = worker.docs

\* The documents of a job are claimed for it, or were removed since.
Holds(j) == job[j].stale \/ \A d \in job[j].docs : Claimed(d, j)

\* The worker is about to make its job pending.
Ready ==
  \/ worker.at = "activate"
  \/ worker.at = "recovered" /\ worker.out = "pending"

ClaimedFirst ==
  Ready /\ job[worker.j].status # "none" => Holds(worker.j)

\* RunsClaimed, with Holds.
Held ==
  \A j \in News :
    job[j].status \in {"pending", "running"} /\ ~job[j].cancel => Holds(j)

\* What cancel has reached.
CancelKept ==
  /\ client.at \in {"cancelling", "gone"} => job[client.j].status # "pending"
  /\ client.at = "gone" /\ job[client.j].status = "running"
       => job[client.j].cancel

NewsInv ==
  /\ NewsTypes /\ Posts
  /\ OverThere /\ AsCreated /\ ClaimedFirst /\ Held
  /\ CancelKept

\* Where a step leaves the worker, for those of its steps that read.
LEMMA ReadingMoves ==
  ASSUME NewsTypes, Posts, Reading
  PROVE  /\ UNCHANGED <<job, old, doc, client>>
         /\ Posts'
         /\ ~Ready' /\ worker'.at \notin {"claim", "activate", "reject"}
         /\ OverThere => OverThere'
<1>u. UNCHANGED <<job, old, doc, client>>
  BY DEF Reading, jobVars, ListPreparing, ListAnalyzing, ReadJob, Judge,
         SkipBatch, BeginBatch, SkipRun, TakeLease, Pick, Run, Release, Trip,
         Crash
<1>. DEFINE Quiet == {"top", "recover", "settle", "create", "queue", "reset",
                      "pick", "release"}
<1>q. ASSUME worker'.at \in Quiet
      PROVE  /\ Posts' /\ ~Ready' /\ OverThere'
             /\ worker'.at \notin {"claim", "activate", "reject"}
  BY <1>q, <1>u DEF Posts, Ready, OverThere
<1>1. CASE \/ ListPreparing \/ ListAnalyzing \/ SkipBatch \/ BeginBatch
           \/ SkipRun \/ TakeLease \/ Release \/ Crash
  <2>1. CASE ListPreparing \/ ListAnalyzing \/ BeginBatch
    BY <2>1, <1>q, <1>u DEF ListPreparing, ListAnalyzing, BeginBatch, Go, Top
  <2>2. CASE SkipBatch \/ SkipRun \/ TakeLease \/ Release \/ Crash
    BY <2>2, <1>q, <1>u
       DEF SkipBatch, SkipRun, TakeLease, Release, Crash, Go, Top
  <2>. QED
    BY <1>1, <2>1, <2>2
<1>2. ASSUME NEW j \in News, ReadJob(j)
      PROVE  /\ Posts' /\ ~Ready' /\ OverThere'
             /\ worker'.at \notin {"claim", "activate", "reject"}
  <2>1. /\ worker'.j = j
        /\ worker'.at \in {"free", "assess", "settle"}
        /\ worker'.at = "free" => Failed(j)
        /\ worker'.at = "assess" => job[j].status = "completed"
    <3>. DEFINE p == CASE Failed(j) -> "free"
                       [] job[j].status = "completed" -> "assess"
                       [] OTHER -> "settle"
    <3>1. /\ p \in {"free", "assess", "settle"}
          /\ p = "free" => Failed(j)
          /\ p = "assess" => job[j].status = "completed"
      BY DEF Failed
    <3>. HIDE DEF p
    <3>2. worker'.j = j /\ worker'.at = p
      BY <1>2 DEF ReadJob, NewsTypes, XWorker, p
    <3>. QED
      BY <3>1, <3>2
  <2>. QED
    BY <1>u, <2>1 DEF Posts, Ready, OverThere, Failed, Final
<1>3. ASSUME NEW v \in {"valid", "invalid"}, Judge(v)
      PROVE  /\ Posts' /\ ~Ready' /\ (OverThere => OverThere')
             /\ worker'.at \notin {"claim", "activate", "reject"}
  <2>1. worker'.at = v /\ worker'.j = worker.j /\ worker.at = "assess"
    BY <1>3 DEF Judge, At, NewsTypes, XWorker
  <2>. QED
    BY <1>u, <2>1 DEF Posts, Ready, OverThere
<1>4. CASE Pick
  <2>1. \/ worker'.at = "release"
        \/ worker'.at = "start" /\ worker'.j \in Best
    BY <1>4 DEF Pick, Go, Top
  <2>2. Best \subseteq Job
    BY DEF Best, Waiting, Has, Job
  <2>. QED
    BY <1>u, <2>1, <2>2 DEF Posts, Ready, OverThere
<1>5. ASSUME NEW how \in Final, Run(how)
      PROVE  /\ Posts' /\ ~Ready' /\ OverThere'
             /\ worker'.at \notin {"claim", "activate", "reject"}
  <2>1. /\ worker.at = "run" /\ worker'.at = "save" /\ worker'.j = worker.j
        /\ worker'.out = how
    BY <1>5 DEF Run, At, NewsTypes, XWorker
  <2>. QED
    BY <1>u, <2>1 DEF Posts, Ready, OverThere
<1>6. CASE Trip
  <2>1. worker'.at \in Quiet
    BY <1>6 DEF Trip, Go, Top
  <2>. QED
    BY <1>u, <1>q, <2>1
<1>. QED
  BY <1>u, <1>1, <1>2, <1>3, <1>4, <1>5, <1>6 DEF Reading

\* The web process and time leave the worker where it is, and move the row of
\* an analysis only towards its end.
LEMMA OthersMove ==
  ASSUME NewsTypes, Posts,
         Calling \/ Documents \/ Removing \/ Time \/ UNCHANGED newsVars
  PROVE  /\ worker'.at = worker.at /\ worker'.j = worker.j
         /\ worker'.docs = worker.docs /\ worker'.out = worker.out
         /\ \A j \in News : job'[j].status # "none" =>
              /\ job[j].status # "none" /\ job'[j].docs = job[j].docs
              /\ job[j].status \in Final => job'[j].status \in Final
              /\ job'[j].status \in {"pending", "running"} =>
                   job'[j].status = job[j].status
              /\ job[j].cancel => job'[j].cancel
<1>. DEFINE Steady(r, s) ==
       s.status # "none" =>
         /\ r.status # "none" /\ s.docs = r.docs
         /\ r.status \in Final => s.status \in Final
         /\ s.status \in {"pending", "running"} => s.status = r.status
         /\ r.cancel => s.cancel
<1>s. ASSUME NEW r \in XJob
      PROVE  /\ Steady(r, r) /\ Steady(r, Requested(r)) /\ Steady(r, NoRow)
             /\ \A b \in BOOLEAN : Steady(r, [r EXCEPT !.stale = b])
             /\ r.status \in {"preparing", "pending"} =>
                  Steady(r, [r EXCEPT !.status = "cancelled",
                                      !.cancel = TRUE])
  BY DEF XJob, Requested, NoRow, Final
<1>j. News \subseteq Job /\ \A j \in News : job[j] \in XJob
  BY DEF Job, NewsTypes
<1>. HIDE DEF Steady
<1>. SUFFICES /\ worker'.at = worker.at /\ worker'.j = worker.j
              /\ worker'.docs = worker.docs /\ worker'.out = worker.out
              /\ \A j \in News : Steady(job[j], job'[j])
  BY DEF Steady
<1>1. CASE Documents \/ Time \/ UNCHANGED newsVars
  BY <1>1, <1>s, <1>j
     DEF Documents, Ingest, RetryRejected, Time, Expire, Age, newsVars,
         jobVars
<1>2. CASE Poll \/ GiveUp \/ Leave
  BY <1>2, <1>s, <1>j DEF Poll, GiveUp, Leave, jobVars
<1>3. ASSUME NEW i \in Trade, Submit(i)
      PROVE  worker' = worker /\ \A j \in News : Steady(job[j], job'[j])
  <2>1. \A j \in News : job'[j] = job[j]
    BY <1>3, <1>j, NewsAssumption DEF Submit, NewsTypes
  <2>. QED
    BY <1>3, <2>1, <1>s, <1>j DEF Submit
<1>4. CASE Cancel
  <2>1. client.j \in Trade
    BY <1>4 DEF Cancel, Posts
  <2>2. \A j \in News : job'[j] = job[j]
    BY <1>4, <1>j, <2>1, NewsAssumption DEF Cancel, NewsTypes
  <2>. QED
    BY <1>4, <2>2, <1>s, <1>j DEF Cancel
<1>5. CASE RequestStop \/ WithdrawJobs
  BY <1>5, <1>s, <1>j DEF RequestStop, WithdrawJobs
<1>6. ASSUME NEW S \in SUBSET Doc, RemoveSource(S)
      PROVE  /\ worker'.at = worker.at /\ worker'.j = worker.j
             /\ worker'.docs = worker.docs /\ worker'.out = worker.out
             /\ \A j \in News : Steady(job[j], job'[j])
  <2>1. /\ worker'.at = worker.at /\ worker'.j = worker.j
        /\ worker'.docs = worker.docs /\ worker'.out = worker.out
    BY <1>6 DEF RemoveSource, NewsTypes, XWorker
  <2>2. ASSUME NEW j \in News
        PROVE  Steady(job[j], job'[j])
    <3>. DEFINE b == job[j].docs # {}
    <3>1. b \in BOOLEAN
      OBVIOUS
    <3>2. job'[j] = [job[j] EXCEPT !.stale = b]
      BY <1>6, <1>j DEF RemoveSource
    <3>. HIDE DEF b
    <3>. QED
      BY <3>1, <3>2, <1>s, <1>j
  <2>. QED
    BY <2>1, <2>2
<1>7. CASE DeleteJobs \/ RemoverFails
  BY <1>7, <1>s, <1>j DEF DeleteJobs, RemoverFails, jobVars
<1>. QED
  BY <1>1, <1>2, <1>3, <1>4, <1>5, <1>6, <1>7 DEF Calling, Removing

\* A document leaves a job only for the worker, which is at this job and
\* found it over, or with its source.
LEMMA HoldsOn ==
  ASSUME NewsTypes, Posts, [Next]_newsVars, NEW j \in News, Holds(j),
         worker.at \in {"free", "reject", "valid"} => worker.j # j,
         ~Create(j)
  PROVE  Holds(j)'
<1>j. j \in Job /\ job[j] \in XJob /\ job[j].docs \subseteq Doc
  BY DEF Job, NewsTypes, XJob
<1>n. NoRow.docs = {}
  BY DEF NoRow
<1>1. CASE \/ Reading \/ Calling \/ Time \/ UNCHANGED newsVars
           \/ RequestStop \/ WithdrawJobs \/ RemoverFails
           \/ ResetOld \/ Start \/ Save \/ Setting
  <2>1. doc' = doc
    BY <1>1, ReadingMoves
       DEF Calling, Submit, Poll, GiveUp, Cancel, Leave, Time, Expire, Age,
           newsVars, RequestStop, WithdrawJobs, RemoverFails, ResetOld,
           Start, Save, Setting, SetRecovered, FailJob, Activate, Discard,
           SetStatus
  <2>2. job'[j].docs = job[j].docs /\ job'[j].stale = job[j].stale
    <3>1. CASE \/ Reading \/ Poll \/ GiveUp \/ Leave \/ Time
               \/ UNCHANGED newsVars \/ RemoverFails
      BY <3>1, ReadingMoves
         DEF Poll, GiveUp, Leave, Time, Expire, Age, newsVars, jobVars,
             RemoverFails
    <3>2. CASE Setting \/ Start \/ Save
      BY <3>2, <1>j
         DEF Setting, SetRecovered, FailJob, Activate, Discard, SetStatus,
             Start, Save, NewsTypes, XJob
    <3>3. CASE ResetOld \/ RequestStop \/ WithdrawJobs
      BY <3>3, <1>j
         DEF ResetOld, RequestStop, WithdrawJobs, Requested, XJob
    <3>4. ASSUME NEW i \in Trade, Submit(i)
          PROVE  job'[j] = job[j]
      BY <3>4, <1>j, NewsAssumption DEF Submit, NewsTypes
    <3>5. CASE Cancel
      BY <3>5, <1>j, NewsAssumption DEF Cancel, Posts, NewsTypes
    <3>. QED
      BY <1>1, <3>1, <3>2, <3>3, <3>4, <3>5 DEF Calling
  <2>. QED
    BY <2>1, <2>2 DEF Holds, Claimed
<1>2. CASE Documents
  <2>1. job' = job /\ \A d \in Doc : Claimed(d, j) => doc'[d] = doc[d]
    BY <1>2 DEF Documents, Ingest, RetryRejected, jobVars, Claimed, NoDoc,
                NewsTypes
  <2>. QED
    BY <1>j, <2>1 DEF Holds, Claimed
<1>3. CASE FreeDocs \/ RejectDocs \/ Store \/ ClaimDocs
  <2>1. job' = job
    BY <1>3 DEF FreeDocs, RejectDocs, Store, ClaimDocs, jobVars
  <2>2. \A d \in Doc : Claimed(d, j) => doc'[d] = doc[d]
    BY <1>3 DEF FreeDocs, RejectDocs, Store, ClaimDocs, Mark, At, Claimed,
                NewsTypes
  <2>. QED
    BY <1>j, <2>1, <2>2 DEF Holds, Claimed
<1>4. ASSUME NEW i \in News, Recover(i)
      PROVE  Holds(j)'
  <2>1. job' = job
    BY <1>4 DEF Recover, jobVars
  <2>2. \A d \in Doc : Claimed(d, j) => doc'[d] = doc[d]
    BY <1>4 DEF Recover, Claimed, Unclaimed, NewsTypes
  <2>. QED
    BY <1>j, <2>1, <2>2 DEF Holds, Claimed
<1>5. ASSUME NEW i \in News, Create(i)
      PROVE  Holds(j)'
  <2>1. i # j /\ job'[j] = job[j]
    BY <1>5, <1>j DEF Create, NewsTypes
  <2>2. \A d \in Doc : Claimed(d, j) => doc'[d] = doc[d]
    BY <1>5, <2>1 DEF Create, Claimed, NewsTypes
  <2>. QED
    BY <1>j, <2>1, <2>2 DEF Holds, Claimed
<1>6. ASSUME NEW S \in SUBSET Doc, RemoveSource(S)
      PROVE  Holds(j)'
  <2>1. job'[j].docs = job[j].docs /\ job'[j].stale = (job[j].docs # {})
    BY <1>6, <1>j DEF RemoveSource, XJob
  <2>. QED
    BY <2>1 DEF Holds
<1>7. CASE DeleteJobs
  <2>1. UNCHANGED doc /\ (job'[j] = job[j] \/ job'[j] = NoRow)
    BY <1>7, <1>j DEF DeleteJobs
  <2>. QED
    BY <2>1, <1>n DEF Holds, Claimed
<1>. QED
  BY <1>1, <1>2, <1>3, <1>4, <1>5, <1>6, <1>7, NextCases
     DEF Marking, Queueing, Removing

\* A job becomes pending by the worker that has it in hand, and running by the
\* worker that finds it pending; a request to stop stays.
LEMMA StatusBecomes ==
  ASSUME NewsTypes, Posts, [Next]_newsVars, NEW j \in News,
         job'[j].status \in {"pending", "running"}
  PROVE  \/ /\ job[j].status \in {"pending", "running"}
            /\ job[j].cancel => job'[j].cancel
         \/ /\ Ready /\ worker.j = j /\ job[j].status # "none"
            /\ worker'.at \notin {"free", "reject", "valid"}
<1>j. j \in Job /\ job[j] \in XJob
  BY DEF Job, NewsTypes
<1>1. CASE Reading \/ Marking
  <2>1. job' = job
    BY <1>1, ReadingMoves
       DEF Marking, Recover, FreeDocs, RejectDocs, Store, ClaimDocs, jobVars
  <2>. QED
    BY <2>1
<1>2. CASE Calling \/ Documents \/ Removing \/ Time \/ UNCHANGED newsVars
  <2>1. job[j].status = job'[j].status /\ (job[j].cancel => job'[j].cancel)
    BY <1>2, OthersMove
  <2>. QED
    BY <2>1
<1>3. CASE SetRecovered \/ Activate
  <2>1. CASE worker.j = j /\ job[j].status # "none"
    <3>1. worker'.at \in {"recover", "queue"}
      <4>1. CASE SetRecovered
        BY <4>1, <2>1 DEF SetRecovered, SetStatus, Go, Top
      <4>2. CASE Activate
        BY <4>2, <2>1 DEF Activate, SetStatus, Go, Top
      <4>. QED
        BY <1>3, <4>1, <4>2
    <3>2. worker.at = "activate" \/ job'[j].status = worker.out
      <4>1. CASE SetRecovered
        <5>1. job' = [job EXCEPT ![j].status = worker.out]
          BY <4>1, <2>1 DEF SetRecovered, SetStatus
        <5>. QED
          BY <5>1, <1>j DEF NewsTypes, XJob
      <4>2. CASE Activate
        BY <4>2 DEF Activate, At
      <4>. QED
        BY <1>3, <4>1, <4>2
    <3>3. Ready
      <4>1. CASE SetRecovered
        BY <4>1, <3>2 DEF SetRecovered, At, Posts, Ready
      <4>2. CASE Activate
        BY <4>2 DEF Activate, At, Ready
      <4>. QED
        BY <1>3, <4>1, <4>2
    <3>. QED
      BY <2>1, <3>1, <3>3
  <2>2. CASE worker.j # j \/ job[j].status = "none"
    BY <1>3, <2>2, <1>j DEF SetRecovered, Activate, SetStatus, NewsTypes
  <2>. QED
    BY <2>1, <2>2
<1>4. CASE FailJob \/ Discard
  BY <1>4, <1>j DEF FailJob, Discard, SetStatus, NewsTypes, XJob
<1>5. ASSUME NEW i \in News, Create(i)
      PROVE  job'[j] = job[j]
  <2>1. CASE i = j
    BY <1>5, <2>1, <1>j DEF Create, NewsTypes, FirstStatus, NoRow
  <2>2. CASE i # j
    BY <1>5, <2>2, <1>j DEF Create, NewsTypes
  <2>. QED
    BY <2>1, <2>2
<1>6. CASE ResetOld
  BY <1>6, <1>j DEF ResetOld, XJob
<1>7. CASE Start
  BY <1>7, <1>j DEF Start, NewsTypes, XJob
<1>8. CASE Save
  BY <1>8, <1>j DEF Save, NewsTypes, XJob, Posts, At, Final
<1>. QED
  BY <1>1, <1>2, <1>3, <1>4, <1>5, <1>6, <1>7, <1>8, NextCases
     DEF Setting, Queueing

LEMMA OthersKeep ==
  ASSUME NewsTypes, Posts, OverThere, AsCreated,
         Calling \/ Documents \/ Removing \/ Time \/ UNCHANGED newsVars
  PROVE  Posts' /\ OverThere' /\ AsCreated'
<1>1. /\ worker'.at = worker.at /\ worker'.j = worker.j
      /\ worker'.docs = worker.docs /\ worker'.out = worker.out
  BY OthersMove
<1>2. client'.at # "idle" => client'.j \in Trade
  <2>1. CASE Documents \/ Removing \/ Time \/ UNCHANGED newsVars
    <3>1. client' = client
      BY <2>1 DEF Documents, Ingest, RetryRejected, Removing, RequestStop,
                  WithdrawJobs, RemoveSource, DeleteJobs, RemoverFails,
                  Time, Expire, Age, newsVars
    <3>. QED
      BY <3>1 DEF Posts
  <2>2. CASE (\E j \in Trade : Submit(j)) \/ Poll \/ Leave
    BY <2>2 DEF Submit, Poll, Leave
  <2>3. CASE GiveUp \/ Cancel
    BY <2>3 DEF GiveUp, Cancel, Posts, NewsTypes, XClient
  <2>. QED
    BY <2>1, <2>2, <2>3 DEF Calling
<1>3. Posts'
  BY <1>1, <1>2 DEF Posts
<1>4. OverThere'
  <2>1. SUFFICES ASSUME worker.at \in {"free", "assess", "invalid", "reject",
                                       "valid"},
                        job'[worker.j].status # "none"
                 PROVE  job'[worker.j].status \in Final
    BY <1>1 DEF OverThere
  <2>2. worker.j \in News
    BY <2>1 DEF Posts
  <2>. QED
    BY <2>1, <2>2, OthersMove DEF OverThere
<1>5. AsCreated'
  <2>1. SUFFICES ASSUME worker.at \in {"claim", "activate"},
                        job'[worker.j].status # "none"
                 PROVE  job'[worker.j].docs = worker.docs
    BY <1>1 DEF AsCreated
  <2>2. worker.j \in News
    BY <2>1 DEF Posts
  <2>. QED
    BY <2>1, <2>2, OthersMove DEF AsCreated
<1>. QED
  BY <1>3, <1>4, <1>5

LEMMA SettingKeeps ==
  ASSUME NewsTypes, Posts, OverThere, AsCreated, Setting
  PROVE  /\ Posts' /\ OverThere' /\ AsCreated'
         /\ ~Ready'
<1>1. CASE worker'.at \in {"recover", "queue"} /\ client' = client
  BY <1>1 DEF Posts, OverThere, AsCreated, Ready
<1>2. CASE ~FailJob
  <2>1. CASE SetRecovered
    BY <1>1, <2>1 DEF SetRecovered, SetStatus, Go, Top
  <2>2. CASE Activate \/ Discard
    BY <1>1, <2>2 DEF Activate, Discard, SetStatus, Go, Top
  <2>. QED
    BY <1>2, <2>1, <2>2 DEF Setting
<1>3. CASE FailJob
  <2>1. CASE job[worker.j].status = "none"
    BY <1>1, <1>3, <2>1 DEF FailJob, SetStatus, Go, Top
  <2>2. CASE job[worker.j].status # "none"
    <3>1. /\ worker'.at = "reject" /\ worker'.j = worker.j
          /\ client' = client /\ worker.j \in News
      BY <1>3, <2>2 DEF FailJob, SetStatus, NewsTypes, XWorker, Posts, At
    <3>2. job'[worker.j].status = "failed"
      <4>1. /\ worker.j \in Job
            /\ job' = [job EXCEPT ![worker.j].status = "failed"]
        BY <1>3, <2>2, <3>1 DEF FailJob, SetStatus, Job
      <4>. QED
        BY <4>1 DEF NewsTypes, XJob
    <3>. QED
      BY <3>1, <3>2 DEF Posts, OverThere, AsCreated, Ready, Final
  <2>. QED
    BY <2>1, <2>2
<1>. QED
  BY <1>2, <1>3

LEMMA MarkingKeeps ==
  ASSUME NewsTypes, Posts, OverThere, AsCreated, Marking
  PROVE  Posts' /\ OverThere' /\ AsCreated' /\ ClaimedFirst'
<1>u. job' = job /\ client' = client
  BY DEF Marking, Recover, FreeDocs, RejectDocs, Store, ClaimDocs, jobVars
<1>1. ASSUME NEW j \in News, Recover(j)
      PROVE  Posts' /\ OverThere' /\ AsCreated' /\ ClaimedFirst'
  <2>. DEFINE available ==
         {d \in job[j].docs : doc[d] = Unclaimed \/ Claimed(d, j)}
       ok == job[j].docs # {} /\ available = job[j].docs
  <2>1. /\ worker'.at = "recovered" /\ worker'.j = j
        /\ worker'.out = IF ok THEN "pending" ELSE "cancelled"
    BY <1>1 DEF Recover, NewsTypes, XWorker
  <2>2. ok => \A d \in job[j].docs : doc'[d] = [status |-> "analyzing",
                                                job |-> j]
    <3>1. job[j].docs \subseteq Doc
      BY DEF NewsTypes, XJob, Job
    <3>2. ok => \A d \in Doc : d \in job[j].docs =>
                  doc'[d] = [status |-> "analyzing", job |-> j]
      BY <1>1 DEF Recover
    <3>. QED
      BY <3>1, <3>2
  <2>3. ClaimedFirst'
    BY <1>u, <2>1, <2>2 DEF ClaimedFirst, Ready, Holds, Claimed
  <2>. QED
    BY <1>u, <2>1, <2>3 DEF Posts, OverThere, AsCreated
<1>2. CASE FreeDocs \/ RejectDocs \/ Store
  <2>1. worker'.at = "settle"
    BY <1>2 DEF FreeDocs, RejectDocs, Store, Settled, Go, Top
  <2>. QED
    BY <1>u, <2>1 DEF Posts, OverThere, AsCreated, ClaimedFirst, Ready
<1>3. CASE ClaimDocs
  <2>1. /\ worker.at = "claim" /\ worker'.at \in {"activate", "discard"}
        /\ worker'.j = worker.j /\ worker'.docs = worker.docs
    BY <1>3 DEF ClaimDocs, At, NewsTypes, XWorker
  <2>2. worker'.at = "activate" =>
          \A d \in worker.docs : doc'[d] = [status |-> "analyzing",
                                            job |-> worker.j]
    <3>1. worker.docs \subseteq Doc
      BY DEF NewsTypes, XWorker
    <3>. QED
      BY <1>3, <3>1 DEF ClaimDocs, NewsTypes, XWorker
  <2>3. Posts' /\ OverThere' /\ AsCreated'
    BY <1>u, <2>1 DEF Posts, OverThere, AsCreated
  <2>4. ClaimedFirst'
    BY <1>u, <2>1, <2>2 DEF ClaimedFirst, Ready, Holds, Claimed, AsCreated
  <2>. QED
    BY <2>3, <2>4
<1>. QED
  BY <1>1, <1>2, <1>3 DEF Marking

LEMMA QueueingKeeps ==
  ASSUME NewsTypes, Posts, OverThere, AsCreated, Queueing
  PROVE  /\ Posts' /\ OverThere' /\ AsCreated'
         /\ ~Ready'
<1>u. client' = client
  BY DEF Queueing, Create, ResetOld, Start, Save
<1>1. ASSUME NEW j \in News, Create(j)
      PROVE  /\ Posts' /\ OverThere' /\ AsCreated'
             /\ ~Ready'
  <2>1. /\ worker'.at = "claim" /\ worker'.j = j
        /\ worker'.docs = worker.docs
    BY <1>1 DEF Create, NewsTypes, XWorker
  <2>2. job'[j].docs = worker.docs
    BY <1>1 DEF Create, NewsTypes, Job, NoRow
  <2>. QED
    BY <1>u, <2>1, <2>2 DEF Posts, OverThere, AsCreated, Ready
<1>2. CASE ResetOld \/ Start \/ Save
  <2>1. \/ worker'.at \in {"pick", "release"}
        \/ worker'.at = "run" /\ worker'.j = worker.j /\ worker.at = "start"
    BY <1>2 DEF ResetOld, Start, Save, At, Go, Top, NewsTypes, XWorker
  <2>. QED
    BY <1>u, <2>1 DEF Posts, OverThere, AsCreated, Ready
<1>. QED
  BY <1>1, <1>2 DEF Queueing

\* The two updates of cancel leave no gap: what is no longer pending does not
\* become so again, and is asked to stop if it runs.
LEMMA CancelStays ==
  ASSUME NewsTypes, Posts, CancelKept, [Next]_newsVars
  PROVE  CancelKept'
<1>. DEFINE Dealt(r, place) ==
       /\ place \in {"cancelling", "gone"} => r.status # "pending"
       /\ place = "gone" /\ r.status = "running" => r.cancel
<1>c. CASE client.at = "idle" /\ client' = client
  BY <1>c DEF CancelKept
<1>j. client.at # "idle" => client.j \in Trade /\ client.j \in Job
                              /\ client.j \notin News /\ job[client.j] \in XJob
  BY NewsAssumption DEF Posts, NewsTypes, Job
<1>0. CASE client' = client /\ job'[client.j] = job[client.j]
  BY <1>0 DEF CancelKept
<1>1. CASE Reading \/ Marking \/ Documents \/ Time \/ UNCHANGED newsVars
  <2>1. job' = job /\ client' = client
    BY <1>1, ReadingMoves
       DEF Marking, Recover, FreeDocs, RejectDocs, Store, ClaimDocs,
           Documents, Ingest, RetryRejected, Time, Expire, Age, newsVars,
           jobVars
  <2>. QED
    BY <1>0, <2>1
<1>2. CASE Setting
  <2>1. client' = client
    BY <1>2 DEF Setting, SetRecovered, FailJob, Activate, Discard, SetStatus
  <2>2. worker.j \in News
    BY <1>2 DEF Setting, SetRecovered, FailJob, Activate, Discard, Posts, At
  <2>3. CASE client.at # "idle"
    <3>1. job'[client.j] = job[client.j]
      BY <1>2, <1>j, <2>2, <2>3
         DEF Setting, SetRecovered, FailJob, Activate, Discard, SetStatus,
             NewsTypes
    <3>. QED
      BY <1>0, <2>1, <3>1
  <2>. QED
    BY <1>c, <2>1, <2>3
<1>3. CASE Queueing
  <2>1. client' = client
    BY <1>3 DEF Queueing, Create, ResetOld, Start, Save
  <2>2. CASE client.at # "idle"
    <3>1. ASSUME NEW i \in News, Create(i)
          PROVE  job'[client.j] = job[client.j]
      BY <3>1, <1>j, <2>2 DEF Create, NewsTypes
    <3>2. CASE ResetOld
      BY <3>2, <1>j, <2>1, <2>2 DEF ResetOld, CancelKept, XJob
    <3>3. CASE Start
      BY <3>3, <1>j, <2>1, <2>2 DEF Start, CancelKept, NewsTypes, XJob
    <3>4. CASE Save
      BY <3>4, <1>j, <2>1, <2>2
         DEF Save, CancelKept, NewsTypes, XJob, Posts, At, Final
    <3>. QED
      BY <1>0, <1>3, <2>1, <3>1, <3>2, <3>3, <3>4 DEF Queueing
  <2>. QED
    BY <1>c, <2>1, <2>2
<1>4. CASE (\E j \in Trade : Submit(j)) \/ Poll \/ GiveUp \/ Leave
  <2>1. client'.at \in {"idle", "wait", "cancel"}
    BY <1>4 DEF Submit, Poll, GiveUp, Leave, NewsTypes, XClient
  <2>. QED
    BY <2>1 DEF CancelKept
<1>5. CASE Cancel
  <2>1. client.at \in {"cancel", "cancelling"} /\ client'.j = client.j
        /\ client'.at = IF client.at = "cancel" THEN "cancelling" ELSE "gone"
    BY <1>5 DEF Cancel, NewsTypes, XClient
  <2>2. job'[client.j] = CancelUpdate(job[client.j], client.at = "cancel")
    BY <1>5, <1>j, <2>1 DEF Cancel, NewsTypes
  <2>3. CASE client.at = "cancel"
    <3>1. job'[client.j] = Withdrawn(job[client.j])
      BY <2>2, <2>3 DEF CancelUpdate
    <3>. QED
      BY <1>j, <2>1, <2>3, <3>1 DEF CancelKept, Withdrawn, XJob
  <2>4. CASE client.at = "cancelling"
    <3>1. job'[client.j] = Requested(job[client.j])
      BY <2>2, <2>4 DEF CancelUpdate
    <3>. QED
      BY <1>j, <2>1, <2>4, <3>1 DEF CancelKept, Requested, XJob
  <2>. QED
    BY <2>1, <2>3, <2>4
<1>6. CASE Removing
  <2>1. client' = client
    BY <1>6 DEF Removing, RequestStop, WithdrawJobs, RemoveSource, DeleteJobs,
                RemoverFails
  <2>2. CASE client.at # "idle"
    <3>1. /\ job'[client.j].status = job[client.j].status
          /\ job'[client.j].cancel = job[client.j].cancel
      <4>1. CASE RequestStop \/ WithdrawJobs \/ DeleteJobs \/ RemoverFails
        <5>1. job'[client.j] = job[client.j]
          BY <4>1, <1>j, <2>2 DEF RequestStop, WithdrawJobs, DeleteJobs,
                                  RemoverFails, jobVars
        <5>. QED
          BY <5>1
      <4>2. CASE \E S \in SUBSET Doc : RemoveSource(S)
        BY <4>2, <1>j, <2>2 DEF RemoveSource, XJob
      <4>. QED
        BY <1>6, <4>1, <4>2 DEF Removing
    <3>. QED
      BY <2>1, <3>1 DEF CancelKept
  <2>. QED
    BY <1>c, <2>1, <2>2
<1>. QED
  BY <1>1, <1>2, <1>3, <1>4, <1>5, <1>6, NextCases DEF Calling

LEMMA NewsStays ==
  ASSUME NewsInv, [Next]_newsVars
  PROVE  NewsInv'
<1>1. NewsTypes'
  BY NewsTypesNext DEF NewsInv
<1>2. Posts' /\ OverThere' /\ AsCreated'
  <2>1. CASE Reading
    BY <2>1, ReadingMoves DEF NewsInv, AsCreated
  <2>2. CASE Setting
    BY <2>2, SettingKeeps DEF NewsInv
  <2>3. CASE Marking
    BY <2>3, MarkingKeeps DEF NewsInv
  <2>4. CASE Queueing
    BY <2>4, QueueingKeeps DEF NewsInv
  <2>. QED
    BY <2>1, <2>2, <2>3, <2>4, OthersKeep, NextCases DEF NewsInv
\* What is to be made pending has its documents, until it is.
<1>3. ClaimedFirst'
  <2>1. CASE Reading \/ Setting \/ Marking \/ Queueing
    <3>1. Marking \/ ~Ready'
      BY <2>1, ReadingMoves, SettingKeeps, QueueingKeeps DEF NewsInv
    <3>. QED
      BY <3>1, MarkingKeeps DEF NewsInv, ClaimedFirst
  <2>2. CASE Calling \/ Documents \/ Removing \/ Time \/ UNCHANGED newsVars
    <3>1. SUFFICES ASSUME Ready', job'[worker'.j].status # "none"
                   PROVE  Holds(worker.j)'
      BY DEF ClaimedFirst
    <3>2. worker'.at = worker.at /\ worker'.j = worker.j /\ Ready
      BY <2>2, <3>1, OthersMove DEF NewsInv, Ready
    <3>3. worker.j \in News
      BY <3>2 DEF NewsInv, Posts, Ready
    <3>4. job[worker.j].status # "none"
      BY <2>2, <3>1, <3>2, <3>3, OthersMove DEF NewsInv
    <3>5. Holds(worker.j)
      BY <3>2, <3>4 DEF NewsInv, ClaimedFirst
    <3>6. ~Create(worker.j)
      BY <3>2 DEF Ready, Create, At
    <3>7. worker.at \notin {"free", "reject", "valid"}
      BY <3>2 DEF Ready
    <3>8. PICK j \in News : j = worker.j
      BY <3>3
    <3>9. Holds(j)'
      BY <3>5, <3>6, <3>7, <3>8, HoldsOn DEF NewsInv
    <3>. QED
      BY <3>2, <3>8, <3>9 DEF Holds, Claimed
  <2>. QED
    BY <2>1, <2>2, NextCases
<1>4. Held'
  <2>1. SUFFICES ASSUME NEW j \in News,
                        job'[j].status \in {"pending", "running"},
                        ~job'[j].cancel
                 PROVE  Holds(j)'
    BY DEF Held
  <2>2. CASE job[j].status \in {"pending", "running"} /\ ~job[j].cancel
    <3>1. Holds(j)
      BY <2>2 DEF NewsInv, Held
    <3>2. worker.at \in {"free", "reject", "valid"} => worker.j # j
      BY <2>2 DEF NewsInv, OverThere, Final
    <3>3. ~Create(j)
      BY <2>2 DEF Create, AtHand, Active
    <3>. QED
      BY <3>1, <3>2, <3>3, HoldsOn DEF NewsInv
  <2>3. CASE Ready /\ worker.j = j /\ job[j].status # "none"
    <3>1. Holds(j)
      BY <2>3 DEF NewsInv, ClaimedFirst
    <3>2. /\ worker.at \notin {"free", "reject", "valid"}
          /\ ~Create(j)
      BY <2>3 DEF Ready, Create, At
    <3>. QED
      BY <3>1, <3>2, HoldsOn DEF NewsInv
  <2>. QED
    BY <2>1, <2>2, <2>3, StatusBecomes DEF NewsInv
<1>5. CancelKept'
  BY CancelStays DEF NewsInv
<1>. QED
  BY <1>1, <1>2, <1>3, <1>4, <1>5 DEF NewsInv

-----------------------------------------------------------------------------
(* The limiter of requests *)

XAt == {"idle", "queue", "sleep", "sent", "body", "backoff"}
XEntry == [value : [known : BOOLEAN, age : Nat], inFlight : BOOLEAN]

LimiterTypes ==
  /\ tail \in Limiter!Request \cup {NoRequest}
  /\ previous \in [Limiter!Request -> Limiter!Request \cup {NoRequest}]
  /\ at \in [Limiter!Request -> XAt]
  /\ wait \in [Limiter!Request -> Nat] /\ since \in 0..MinDelay
  /\ cache \in [Key -> XEntry]

\* The requests of the bucket that have not given their turn away.
Chain == {r \in Limiter!Request : at[r] \in {"queue", "sleep", "sent"}}

\* They have lined up in an order f: who waits for nobody is the first, who
\* waits for another comes next after him, and tail is the last.
LinesUp(f) ==
  /\ \A r, s \in Chain : f[r] = f[s] => r = s
  /\ \A r \in Chain : tail \in Chain /\ f[r] <= f[tail]
  /\ \A r, s \in Chain : previous[r] = NoRequest => f[r] <= f[s]
  /\ \A r \in Chain : previous[r] # NoRequest =>
       /\ previous[r] \in Chain /\ f[previous[r]] < f[r]
       /\ \A s \in Chain : f[s] <= f[previous[r]] \/ f[r] <= f[s]
InLine == \E f \in [Limiter!Request -> Nat] : LinesUp(f)

\* Who sleeps or is under way has the turn; who sleeps will have slept long
\* enough; and a key that nothing is in flight for is not in the chain.
HasTurn ==
  /\ \A r \in Limiter!Request : at[r] \in {"sleep", "sent"} =>
       previous[r] = NoRequest
  /\ \A r \in Limiter!Request : at[r] = "sleep" => wait[r] + since >= MinDelay
  /\ \A k \in Key : ~cache[k].inFlight => at[k] = "idle"

LimiterInv ==
  LimiterTypes /\ InLine /\ HasTurn /\ (tail # NoRequest => tail \in Chain)

LEMMA LimiterConstants ==
  /\ MinDelay \in Nat /\ Ttl \in Nat /\ Stale \in Nat
  /\ NoRequest \notin Limiter!Request /\ Key \cap Slot = {}
  /\ Limiter!Request = Key \cup Slot
BY ServicesAssumptions DEF Limiter!LimiterAssumption, Limiter!Request

\* Only one has the turn.
LEMMA OneTurn ==
  ASSUME LimiterInv, NEW r \in Chain, NEW s \in Chain,
         previous[r] = NoRequest, previous[s] = NoRequest
  PROVE  r = s
<1>1. PICK f \in [Limiter!Request -> Nat] : LinesUp(f)
  BY DEF LimiterInv, InLine
<1>2. f[r] <= f[s] /\ f[s] <= f[r] /\ f[r] \in Nat /\ f[s] \in Nat
  BY <1>1 DEF LinesUp, Chain
<1>. QED
  BY <1>1, <1>2 DEF LinesUp

\* A request that is not in the chain becomes its last.
LEMMA LinedUp ==
  ASSUME LimiterInv, NEW r \in Limiter!Request, r \notin Chain,
         Limiter!LineUp(r)
  PROVE  /\ InLine' /\ tail' = r /\ Chain' = Chain \cup {r}
         /\ previous' = [previous EXCEPT ![r] = tail]
         /\ tail' \in Chain' /\ at' = [at EXCEPT ![r] = "queue"]
<1>1. PICK f \in [Limiter!Request -> Nat] : LinesUp(f)
  BY DEF LimiterInv, InLine
<1>2. /\ tail' = r /\ Chain' = Chain \cup {r}
      /\ previous' = [previous EXCEPT ![r] = tail]
      /\ at' = [at EXCEPT ![r] = "queue"]
  BY DEF LimiterInv, LimiterTypes, Limiter!LineUp, Chain
<1>3. /\ \A s \in Chain' : s # r => s \in Chain /\ previous'[s] = previous[s]
      /\ previous'[r] = tail /\ r \in Chain'
  BY <1>2 DEF LimiterInv, LimiterTypes, Chain
<1>4. /\ \A s \in Chain : f[s] \in Nat
      /\ tail # NoRequest => tail \in Chain
      /\ tail = NoRequest => Chain = {}
      /\ \A s \in Chain : previous[s] # r /\ s # NoRequest
  BY <1>1, LimiterConstants DEF LimiterInv, LinesUp, Chain
<1>. DEFINE n == IF tail = NoRequest THEN 0 ELSE f[tail] + 1
            g == [f EXCEPT ![r] = n]
<1>5. n \in Nat /\ \A s \in Chain : f[s] < n
  BY <1>1, <1>4 DEF LinesUp
<1>6. /\ g \in [Limiter!Request -> Nat] /\ g[r] = n
      /\ \A s \in Chain : g[s] = f[s] /\ s # r
  BY <1>1, <1>5 DEF Chain
<1>. HIDE DEF n, g
<1>7. \A s, t \in Chain' : g[s] = g[t] => s = t
  BY <1>1, <1>2, <1>4, <1>5, <1>6 DEF LinesUp
<1>8. \A s \in Chain' : tail' \in Chain' /\ g[s] <= g[tail']
  BY <1>2, <1>3, <1>4, <1>5, <1>6
<1>9. \A s, t \in Chain' : previous'[s] = NoRequest => g[s] <= g[t]
  BY <1>1, <1>2, <1>3, <1>4, <1>5, <1>6 DEF LinesUp
<1>10. ASSUME NEW s \in Chain', previous'[s] # NoRequest
       PROVE  /\ previous'[s] \in Chain' /\ g[previous'[s]] < g[s]
              /\ \A t \in Chain' : g[t] <= g[previous'[s]] \/ g[s] <= g[t]
  <2>1. CASE s = r
    <3>1. tail \in Chain /\ previous'[s] = tail
      BY <1>3, <1>4, <1>10, <2>1
    <3>. QED
      BY <1>1, <1>2, <1>4, <1>5, <1>6, <2>1, <3>1 DEF LinesUp
  <2>2. CASE s # r
    <3>1. s \in Chain /\ previous'[s] = previous[s] /\ previous[s] \in Chain
      BY <1>1, <1>3, <1>10, <2>2 DEF LinesUp
    <3>2. /\ f[previous[s]] < f[s]
          /\ \A t \in Chain : f[t] <= f[previous[s]] \/ f[s] <= f[t]
      BY <1>1, <1>10, <3>1 DEF LinesUp
    <3>. QED
      BY <1>2, <1>4, <1>5, <1>6, <3>1, <3>2
  <2>. QED
    BY <2>1, <2>2
<1>. QED
  BY <1>2, <1>3, <1>6, <1>7, <1>8, <1>9, <1>10 DEF InLine, LinesUp

\* The first of the chain leaves it, and the next has the turn.
LEMMA Released ==
  ASSUME LimiterInv, NEW r \in Chain, previous[r] = NoRequest,
         Limiter!Release(r), NEW x \in {"idle", "body", "backoff"},
         at' = [at EXCEPT ![r] = x]
  PROVE  /\ InLine' /\ Chain' = Chain \ {r}
         /\ tail' \in Limiter!Request \cup {NoRequest}
         /\ tail' # NoRequest => tail' \in Chain'
         /\ previous' \in [Limiter!Request -> Limiter!Request \cup {NoRequest}]
         /\ \A s \in Limiter!Request :
              previous[s] = NoRequest => previous'[s] = NoRequest
<1>1. PICK f \in [Limiter!Request -> Nat] : LinesUp(f)
  BY DEF LimiterInv, InLine
<1>2. /\ Chain' = Chain \ {r}
      /\ tail' = IF tail = r THEN NoRequest ELSE tail
      /\ \A s \in Limiter!Request : previous'[s] =
           IF previous[s] = r THEN NoRequest ELSE previous[s]
      /\ previous' \in [Limiter!Request -> Limiter!Request \cup {NoRequest}]
  BY DEF LimiterInv, LimiterTypes, Limiter!Release, Limiter!Emptied, Chain
<1>3. /\ \A s \in Chain : f[s] \in Nat /\ s \in Limiter!Request
      /\ \A s \in Chain : f[r] <= f[s] /\ (s # r => f[r] < f[s])
  <2>1. \A s \in Chain : f[s] \in Nat /\ s \in Limiter!Request
    BY <1>1 DEF Chain
  <2>. QED
    BY <1>1, <2>1 DEF LinesUp
<1>4. tail = r => Chain' = {}
  BY <1>1, <1>2, <1>3 DEF LinesUp
<1>5. tail' # NoRequest => tail' \in Chain'
  BY <1>2 DEF LimiterInv
<1>6. \A s \in Chain' : tail' \in Chain' /\ f[s] <= f[tail']
  BY <1>1, <1>2, <1>4 DEF LinesUp
<1>7. ASSUME NEW s \in Chain', NEW t \in Chain', previous'[s] = NoRequest
      PROVE  f[s] <= f[t]
  <2>1. s \in Chain /\ t \in Chain /\ s # r /\ t # r
    BY <1>2
  <2>2. CASE previous[s] = NoRequest
    BY <1>1, <2>1, <2>2 DEF LinesUp
  <2>3. CASE previous[s] # NoRequest
    <3>1. previous[s] = r
      BY <1>2, <1>3, <1>7, <2>1, <2>3
    <3>2. f[t] <= f[r] \/ f[s] <= f[t]
      BY <1>1, <2>1, <2>3, <3>1 DEF LinesUp
    <3>. QED
      BY <1>3, <2>1, <3>2
  <2>. QED
    BY <2>2, <2>3
<1>8. ASSUME NEW s \in Chain', previous'[s] # NoRequest
      PROVE  /\ previous'[s] \in Chain' /\ f[previous'[s]] < f[s]
             /\ \A t \in Chain' : f[t] <= f[previous'[s]] \/ f[s] <= f[t]
  <2>1. s \in Chain /\ previous'[s] = previous[s] /\ previous[s] # r
    BY <1>2, <1>3, <1>8
  <2>. QED
    BY <1>1, <1>2, <1>8, <2>1 DEF LinesUp
<1>9. LinesUp(f)'
  BY <1>1, <1>2, <1>6, <1>7, <1>8 DEF LinesUp
<1>. QED
  BY <1>1, <1>2, <1>5, <1>9 DEF InLine, LimiterInv, LimiterTypes

\* What a step leaves of the chain when it moves nobody in or out.
LEMMA SameLine ==
  ASSUME LimiterInv, UNCHANGED <<tail, previous>>, Chain' = Chain
  PROVE  InLine' /\ (tail' # NoRequest => tail' \in Chain')
<1>1. PICK f \in [Limiter!Request -> Nat] : LinesUp(f)
  BY DEF LimiterInv, InLine
<1>2. LinesUp(f)'
  BY <1>1 DEF LinesUp
<1>. QED
  BY <1>1, <1>2 DEF InLine, LimiterInv

\* The request that has the turn goes: of the others none sleeps, so that
\* none loses time it has waited.
LEMMA Gone ==
  ASSUME LimiterInv, NEW r \in Limiter!Request, at[r] \in {"queue", "sleep"},
         previous[r] = NoRequest, Limiter!Go(r),
         UNCHANGED <<wait, tries, cache, asks>>
  PROVE  LimiterInv'
<1>1. r \in Chain
  BY DEF Chain
<1>2. since' = 0 /\ 0 \in 0..MinDelay
  BY LimiterConstants DEF Limiter!Go
<1>3. \A s \in Limiter!Request : at[s] \in {"sleep", "sent"} => s = r
  BY <1>1, OneTurn DEF Chain, LimiterInv, HasTurn
<1>4. CASE r \in Slot
  <2>1. at' = [at EXCEPT ![r] = "idle"] /\ Limiter!Release(r)
    BY <1>4 DEF Limiter!Go
  <2>2. /\ InLine' /\ (tail' # NoRequest => tail' \in Chain')
        /\ tail' \in Limiter!Request \cup {NoRequest}
        /\ previous' \in [Limiter!Request -> Limiter!Request \cup {NoRequest}]
    BY <1>1, <2>1, Released
  <2>3. LimiterTypes'
    BY <1>2, <2>1, <2>2 DEF LimiterInv, LimiterTypes, XAt
  <2>4. HasTurn'
    BY <1>3, <2>1 DEF LimiterInv, LimiterTypes, HasTurn
  <2>. QED
    BY <2>2, <2>3, <2>4 DEF LimiterInv
<1>5. CASE r \notin Slot
  <2>1. at' = [at EXCEPT ![r] = "sent"] /\ UNCHANGED <<tail, previous>>
    BY <1>5 DEF Limiter!Go, Limiter!chain
  <2>2. Chain' = Chain
    BY <1>1, <2>1 DEF Chain, LimiterInv, LimiterTypes
  <2>3. LimiterTypes'
    BY <1>2, <2>1 DEF LimiterInv, LimiterTypes, XAt
  <2>4. HasTurn'
    BY <1>3, <2>1 DEF LimiterInv, LimiterTypes, HasTurn
  <2>. QED
    BY <2>1, <2>2, <2>3, <2>4, SameLine DEF LimiterInv
<1>. QED
  BY <1>4, <1>5

\* An answer that begins, a failure or a delay ends the turn of a request that
\* was sent.
LEMMA Replied ==
  ASSUME LimiterInv, NEW k \in Key, at[k] = "sent", Limiter!Release(k),
         NEW x \in {"idle", "body", "backoff"}, at' = [at EXCEPT ![k] = x],
         UNCHANGED <<wait, since>>, cache' \in [Key -> XEntry],
         \A l \in Key : l # k => cache'[l] = cache[l],
         x # "idle" => UNCHANGED cache
  PROVE  LimiterInv'
<1>1. k \in Chain /\ previous[k] = NoRequest /\ k \in Limiter!Request
  BY LimiterConstants DEF Chain, LimiterInv, HasTurn
<1>2. /\ InLine' /\ (tail' # NoRequest => tail' \in Chain')
      /\ tail' \in Limiter!Request \cup {NoRequest}
      /\ previous' \in [Limiter!Request -> Limiter!Request \cup {NoRequest}]
      /\ \A s \in Limiter!Request :
           previous[s] = NoRequest => previous'[s] = NoRequest
  BY <1>1, Released
<1>3. LimiterTypes'
  BY <1>2 DEF LimiterInv, LimiterTypes, XAt
<1>4. HasTurn'
  <2>1. /\ \A s \in Limiter!Request : s # k => at'[s] = at[s]
        /\ at'[k] = x
    BY <1>1 DEF LimiterInv, LimiterTypes
  <2>2. \A l \in Key : ~cache'[l].inFlight => at'[l] = "idle"
    BY <2>1, LimiterConstants DEF LimiterInv, HasTurn
  <2>. QED
    BY <1>2, <2>1, <2>2 DEF LimiterInv, HasTurn
<1>. QED
  BY <1>2, <1>3, <1>4 DEF LimiterInv

\* A request whose answer has begun is in nobody's way when it ends.
LEMMA BodyRead ==
  ASSUME LimiterInv, NEW k \in Key, at[k] = "body",
         at' = [at EXCEPT ![k] = "idle"],
         UNCHANGED <<tail, previous, wait, since>>, cache' \in [Key -> XEntry],
         \A l \in Key : l # k => cache'[l] = cache[l]
  PROVE  LimiterInv'
<1>1. k \in Limiter!Request
  BY LimiterConstants
<1>2. /\ \A s \in Limiter!Request : s # k => at'[s] = at[s]
      /\ at'[k] = "idle"
  BY <1>1 DEF LimiterInv, LimiterTypes
<1>3. Chain' = Chain
  BY <1>2 DEF Chain
<1>4. LimiterTypes'
  BY <1>1 DEF LimiterInv, LimiterTypes, XAt
<1>5. HasTurn'
  BY <1>2, LimiterConstants DEF LimiterInv, HasTurn
<1>. QED
  BY <1>3, <1>4, <1>5, SameLine DEF LimiterInv

\* A request lines up that was not in the chain.
LEMMA Entered ==
  ASSUME LimiterInv, NEW r \in Limiter!Request, r \notin Chain,
         Limiter!LineUp(r), UNCHANGED <<wait, since>>,
         cache' \in [Key -> XEntry],
         \A k \in Key : k # r => cache'[k] = cache[k],
         r \in Key => cache'[r].inFlight
  PROVE  LimiterInv'
<1>1. /\ InLine' /\ tail' = r /\ tail' \in Chain'
      /\ previous' = [previous EXCEPT ![r] = tail]
      /\ at' = [at EXCEPT ![r] = "queue"]
  BY LinedUp
<1>2. LimiterTypes'
  BY <1>1 DEF LimiterInv, LimiterTypes, XAt
<1>3. HasTurn'
  <2>1. /\ \A s \in Limiter!Request : s # r =>
             at'[s] = at[s] /\ previous'[s] = previous[s]
        /\ at'[r] = "queue"
    BY <1>1 DEF LimiterInv, LimiterTypes
  <2>. QED
    BY <2>1, LimiterConstants DEF LimiterInv, HasTurn
<1>. QED
  BY <1>1, <1>2, <1>3 DEF LimiterInv

LEMMA LimiterStays ==
  ASSUME LimiterInv, [Limiter!Next]_limiterVars
  PROVE  LimiterInv'
<1>. USE LimiterConstants
<1>1. ASSUME NEW c \in Caller, NEW k \in Key, Limiter!Ask(c, k)
      PROVE  LimiterInv'
  <2>1. CASE UNCHANGED <<tail, previous, at, cache>>
    <3>1. UNCHANGED <<wait, since>>
      BY <1>1 DEF Limiter!Ask
    <3>2. Chain' = Chain
      BY <2>1 DEF Chain
    <3>. QED
      BY <2>1, <3>1, <3>2, SameLine DEF LimiterInv, LimiterTypes, HasTurn
  <2>2. CASE /\ ~cache[k].inFlight /\ Limiter!LineUp(k)
             /\ cache' = [cache EXCEPT ![k].inFlight = TRUE]
    <3>1. UNCHANGED <<wait, since>>
      BY <1>1 DEF Limiter!Ask
    <3>2. k \in Limiter!Request /\ k \notin Chain
      BY <2>2 DEF Chain, LimiterInv, HasTurn
    <3>3. /\ cache' \in [Key -> XEntry] /\ cache'[k].inFlight
          /\ \A l \in Key : l # k => cache'[l] = cache[l]
      BY <2>2 DEF LimiterInv, LimiterTypes, XEntry
    <3>. QED
      BY <2>2, <3>1, <3>2, <3>3, Entered
  <2>. QED
    BY <1>1, <2>1, <2>2 DEF Limiter!Ask, Limiter!chain
<1>2. ASSUME NEW s \in Slot, Limiter!AskSlot(s)
      PROVE  LimiterInv'
  <2>1. s \in Limiter!Request /\ s \notin Chain /\ s \notin Key
    BY <1>2 DEF Limiter!AskSlot, Chain
  <2>. QED
    BY <1>2, <2>1, Entered DEF Limiter!AskSlot, LimiterInv, LimiterTypes
<1>3. ASSUME NEW r \in Limiter!Request, Limiter!Turn(r)
      PROVE  LimiterInv'
  <2>1. CASE since >= MinDelay
    BY <1>3, <2>1, Gone DEF Limiter!Turn
  <2>2. CASE ~(since >= MinDelay)
    <3>1. /\ at[r] = "queue" /\ previous[r] = NoRequest
          /\ at' = [at EXCEPT ![r] = "sleep"]
          /\ wait' = [wait EXCEPT ![r] = MinDelay - since]
          /\ UNCHANGED <<tail, previous, since, cache>>
      BY <1>3, <2>2 DEF Limiter!Turn, Limiter!chain
    <3>2. Chain' = Chain
      BY <3>1 DEF Chain, LimiterInv, LimiterTypes
    <3>3. MinDelay - since \in Nat /\ MinDelay - since + since >= MinDelay
      BY <2>2 DEF LimiterInv, LimiterTypes
    <3>4. LimiterTypes'
      BY <3>1, <3>3 DEF LimiterInv, LimiterTypes, XAt
    <3>5. HasTurn'
      BY <3>1, <3>3 DEF LimiterInv, LimiterTypes, HasTurn
    <3>. QED
      BY <3>1, <3>2, <3>4, <3>5, SameLine DEF LimiterInv
  <2>. QED
    BY <2>1, <2>2
<1>4. ASSUME NEW r \in Limiter!Request, Limiter!Wake(r)
      PROVE  LimiterInv'
  BY <1>4, Gone DEF Limiter!Wake, LimiterInv, HasTurn
<1>5. ASSUME NEW k \in Key, Limiter!Reply(k)
      PROVE  LimiterInv'
  <2>1. CASE Limiter!Answer(k)
    <3>1. /\ at[k] = "body" /\ at' = [at EXCEPT ![k] = "idle"]
          /\ UNCHANGED <<tail, previous, wait, since>>
          /\ cache' = [cache EXCEPT ![k] =
               [value |-> [known |-> TRUE, age |-> 0], inFlight |-> FALSE]]
      BY <2>1 DEF Limiter!Answer, Limiter!chain
    <3>2. /\ cache' \in [Key -> XEntry]
          /\ \A l \in Key : l # k => cache'[l] = cache[l]
      BY <3>1 DEF LimiterInv, LimiterTypes, XEntry
    <3>. QED
      BY <3>1, <3>2, BodyRead
  <2>2. CASE Limiter!Fails(k)
    <3>1. /\ \/ at[k] = "sent" /\ Limiter!Release(k)
             \/ at[k] = "body" /\ UNCHANGED <<tail, previous>>
          /\ at' = [at EXCEPT ![k] = "idle"]
          /\ UNCHANGED <<wait, since>>
          /\ cache' = [cache EXCEPT ![k] = [cache[k] EXCEPT !.inFlight = FALSE]]
      BY <2>2, Zenon DEF Limiter!Fails, Limiter!Landed, Limiter!chain
    <3>2. /\ cache' \in [Key -> XEntry]
          /\ \A l \in Key : l # k => cache'[l] = cache[l]
      BY <3>1 DEF LimiterInv, LimiterTypes, XEntry
    <3>. QED
      BY <3>1, <3>2, Replied, BodyRead
  <2>3. CASE Limiter!BackOff(k)
    BY <2>3, Replied DEF Limiter!BackOff, LimiterInv, LimiterTypes
  <2>4. CASE Limiter!Headers(k)
    BY <2>4, Replied DEF Limiter!Headers, LimiterInv, LimiterTypes
  <2>. QED
    BY <1>5, <2>1, <2>2, <2>3, <2>4 DEF Limiter!Reply
<1>6. ASSUME NEW k \in Key, Limiter!Retry(k)
      PROVE  LimiterInv'
  <2>1. k \in Limiter!Request /\ k \notin Chain /\ cache[k].inFlight
    BY <1>6 DEF Limiter!Retry, Chain, LimiterInv, HasTurn
  <2>. QED
    BY <1>6, <2>1, Entered DEF Limiter!Retry, LimiterInv, LimiterTypes
<1>7. CASE Limiter!Tick
  <2>1. /\ UNCHANGED <<tail, previous, at>> /\ Chain' = Chain
    BY <1>7 DEF Limiter!Tick, Limiter!chain, Chain
  <2>2. /\ since' = (IF since < MinDelay THEN since + 1 ELSE since)
        /\ wait' = [r \in Limiter!Request |->
                      IF wait[r] > 0 THEN wait[r] - 1 ELSE 0]
    BY <1>7 DEF Limiter!Tick
  <2>3. since' \in 0..MinDelay /\ since' >= since
    BY <2>2 DEF LimiterInv, LimiterTypes
  <2>4. /\ wait' \in [Limiter!Request -> Nat]
        /\ \A r \in Limiter!Request :
             wait[r] + since >= MinDelay => wait'[r] + since' >= MinDelay
    BY <2>2 DEF LimiterInv, LimiterTypes
  <2>5. /\ cache' \in [Key -> XEntry]
        /\ \A k \in Key : cache'[k].inFlight = cache[k].inFlight
    <3>1. cache' = [k \in Key |->
            IF cache[k].value.age < Ttl + Stale
            THEN [cache[k] EXCEPT !.value.age = @ + 1] ELSE cache[k]]
      BY <1>7 DEF Limiter!Tick
    <3>2. ASSUME NEW k \in Key
          PROVE  cache'[k] \in XEntry /\ cache'[k].inFlight = cache[k].inFlight
      BY <3>1, <3>2 DEF LimiterInv, LimiterTypes, XEntry
    <3>. QED
      BY <3>1, <3>2
  <2>6. LimiterTypes'
    BY <2>1, <2>3, <2>4, <2>5 DEF LimiterInv, LimiterTypes
  <2>7. HasTurn'
    BY <2>1, <2>4, <2>5 DEF LimiterInv, HasTurn
  <2>. QED
    BY <2>1, <2>6, <2>7, SameLine DEF LimiterInv
<1>8. CASE UNCHANGED limiterVars
  <2>1. Chain' = Chain /\ UNCHANGED <<tail, previous>>
    BY <1>8 DEF limiterVars, Chain
  <2>. QED
    BY <1>8, <2>1, SameLine
       DEF limiterVars, LimiterInv, LimiterTypes, HasTurn
<1>. QED
  BY <1>1, <1>2, <1>3, <1>4, <1>5, <1>6, <1>7, <1>8, Zenon
     DEF Limiter!Next, Limiter!Proceed, Limiter!Serve

\* Who departs has the turn, and has slept if that was due.
LEMMA DepartsInTime ==
  ASSUME LimiterInv, [Limiter!Next]_limiterVars, NEW r \in Limiter!Request,
         Limiter!Departs(r)
  PROVE  since >= MinDelay /\ \A k \in Key : at[k] # "sent"
<1>. USE LimiterConstants
<1>1. at[r] \in {"queue", "sleep"} /\ at'[r] \in {"sent", "idle"}
  BY DEF Limiter!Departs
<1>2. \/ at[r] = "queue" /\ previous[r] = NoRequest /\ since >= MinDelay
      \/ at[r] = "sleep" /\ wait[r] = 0
  <2>1. ASSUME NEW c \in Caller, NEW k \in Key, Limiter!Ask(c, k)
        PROVE  FALSE
    BY <1>1, <2>1
       DEF Limiter!Ask, Limiter!LineUp, LimiterInv, LimiterTypes
  <2>2. ASSUME NEW s \in Slot, Limiter!AskSlot(s)
        PROVE  FALSE
    BY <1>1, <2>2
       DEF Limiter!AskSlot, Limiter!LineUp, LimiterInv, LimiterTypes
  <2>3. ASSUME NEW s \in Limiter!Request, Limiter!Turn(s)
        PROVE  /\ s = r
               /\ at[r] = "queue" /\ previous[r] = NoRequest
               /\ since >= MinDelay
    BY <1>1, <2>3
       DEF Limiter!Turn, Limiter!Go, LimiterInv, LimiterTypes
  <2>4. ASSUME NEW s \in Limiter!Request, Limiter!Wake(s)
        PROVE  at[r] = "sleep" /\ wait[r] = 0
    BY <1>1, <2>4
       DEF Limiter!Wake, Limiter!Go, LimiterInv, LimiterTypes
  <2>5. ASSUME NEW k \in Key, Limiter!Reply(k) \/ Limiter!Retry(k)
        PROVE  FALSE
    BY <1>1, <2>5
       DEF Limiter!Reply, Limiter!Headers, Limiter!Answer, Limiter!Fails,
           Limiter!BackOff, Limiter!Retry, Limiter!LineUp, LimiterInv,
           LimiterTypes
  <2>6. CASE Limiter!Tick \/ UNCHANGED limiterVars
    BY <1>1, <2>6 DEF Limiter!Tick, limiterVars
  <2>. QED
    BY <2>1, <2>2, <2>3, <2>4, <2>5, <2>6, Zenon
       DEF Limiter!Next, Limiter!Proceed, Limiter!Serve
<1>3. previous[r] = NoRequest /\ since >= MinDelay
  BY <1>2 DEF LimiterInv, LimiterTypes, HasTurn
<1>4. r \in Chain
  BY <1>1 DEF Chain
<1>5. ASSUME NEW k \in Key, at[k] = "sent"
      PROVE  FALSE
  <2>1. k \in Chain /\ previous[k] = NoRequest
    BY <1>5 DEF Chain, LimiterInv, HasTurn
  <2>. QED
    BY <1>1, <1>3, <1>4, <1>5, <2>1, OneTurn
<1>. QED
  BY <1>3, <1>5

-----------------------------------------------------------------------------
(* The services together *)

IInv == LegacyInv /\ CollectionInv /\ NewsInv /\ LimiterInv

LEMMA InitInv ==
  ASSUME InitServices
  PROVE  IInv
<1>1. LegacyInv
  BY DEF InitServices, Legacy!Init, LegacyInv
<1>2. CollectionInv
  <2>1. 0 \in 0..MaxEdits
    BY ServicesAssumptions DEF Collection!CollectionAssumption
  <2>2. SourceTypes
    BY <2>1 DEF InitServices, Collection!Init, SourceTypes, XPoll, XTask,
                XSent, Collection!NoPoll, Collection!NoWork, Collection!Kind
  <2>3. AsRead /\ OfThisConfig /\ ~mixed
    BY ServicesAssumptions
       DEF Collection!CollectionAssumption, InitServices, Collection!Init,
           AsRead, OfThisConfig, Collection!NoPoll, Collection!NoWork
  <2>. QED
    BY <2>2, <2>3 DEF CollectionInv
<1>3. NewsInv
  <2>1. /\ worker = Top /\ client = [at |-> "idle", j |-> NoJob]
        /\ job = [j \in Job |-> NoRow] /\ doc = [d \in Doc |-> NoDoc]
        /\ old = {}
    BY DEF InitServices, Init
  <2>2. NewsTypes
    BY <2>1, RowsTyped DEF NewsTypes, XClient
  <2>3. Posts /\ OverThere /\ AsCreated /\ ClaimedFirst /\ CancelKept
    BY <2>1 DEF Top, Posts, OverThere, AsCreated, ClaimedFirst, Ready,
                CancelKept
  <2>4. Held
    BY <2>1 DEF Held, NoRow, Job
  <2>. QED
    BY <2>2, <2>3, <2>4 DEF NewsInv
<1>4. LimiterInv
  <2>1. LimiterTypes /\ Chain = {} /\ HasTurn /\ tail = NoRequest
    BY LimiterConstants
       DEF InitServices, Limiter!Init, LimiterTypes, Chain, HasTurn, XAt,
           XEntry, Limiter!NoValue
  <2>2. LinesUp([r \in Limiter!Request |-> 0])
    BY <2>1 DEF LinesUp
  <2>3. [r \in Limiter!Request |-> 0] \in [Limiter!Request -> Nat]
    OBVIOUS
  <2>. QED
    BY <2>1, <2>2, <2>3 DEF LimiterInv, InLine
<1>. QED
  BY <1>1, <1>2, <1>3, <1>4 DEF IInv

\* A step of one part leaves the others as they are.
LEMMA StepInv ==
  ASSUME IInv, [NextServices]_allVars
  PROVE  IInv'
<1>1. [Legacy!Next]_legacyVars
  BY DEF NextServices, allVars, deskless, NewsStep, SourceStep, AnalysisStep,
         LegacyStep, LimiterStep, StreamStep
<1>2. [Collection!Next]_sourceVars
  BY DEF NextServices, allVars, deskless, NewsStep, SourceStep, AnalysisStep,
         LegacyStep, LimiterStep, StreamStep
<1>3. [Next]_newsVars
  BY DEF NextServices, allVars, deskless, NewsStep, SourceStep, AnalysisStep,
         LegacyStep, LimiterStep, StreamStep
<1>4. [Limiter!Next]_limiterVars
  BY DEF NextServices, allVars, market, NewsStep, SourceStep, AnalysisStep,
         LegacyStep, LimiterStep, StreamStep
<1>. QED
  BY <1>1, <1>2, <1>3, <1>4, LegacyStays, CollectionStays, NewsStays,
     LimiterStays, ServicesAssumptions DEF IInv

\* The parts keep their invariants, whichever of them acts.
THEOREM Inductive == SafetySpec => []IInv
<1>1. InitServices => IInv
  BY InitInv
<1>2. IInv /\ [NextServices]_allVars => IInv'
  BY StepInv
<1>. QED
  BY <1>1, <1>2, PTL DEF SafetySpec

\* What the runs check is checked under fairness, of which safety needs none.
LEMMA SafetyOfSpec == SpecServices => SafetySpec
  BY PTL DEF SpecServices, SafetySpec

\* No cycle of the legacy auto-trader is claimed while the desk has the
\* account, whatever the two switches do between the steps of a process that
\* found the auto-trader due (claimSettings, updateBook, configure).
THEOREM ClaimedAloneHolds == SpecServices => []ClaimedAlone
<1>1. IInv => ClaimedAlone
  BY DEF IInv, LegacyInv, ClaimedAlone, Legacy!ClaimedAlone
<1>. QED
  BY <1>1, Inductive, SafetyOfSpec, PTL

\* Evidence is stored under the configuration it was captured by, for any
\* number of handlers and tasks (POST /v1/captures, saveSource).
THEOREM CapturedAsConfiguredHolds == SpecServices => []CapturedAsConfigured
<1>1. IInv => CapturedAsConfigured
  BY DEF IInv, CollectionInv, CapturedAsConfigured,
         Collection!CapturedAsConfigured
<1>. QED
  BY <1>1, Inductive, SafetyOfSpec, PTL

\* The model is run only on documents that are claimed for the job, for any
\* number of documents and jobs, wherever the worker crashes between the two
\* stores (enqueueAnalysis, finalizeAnalyses, runOne).
THEOREM RunsClaimedHolds == SpecServices => []RunsClaimed
<1>1. IInv => RunsClaimed
  BY DEF IInv, NewsInv, Held, Holds, RunsClaimed
<1>. QED
  BY <1>1, Inductive, SafetyOfSpec, PTL

\* A trader that gave its job up leaves nothing behind that will start, or
\* that runs unasked to stop (cancel, runOne).
THEOREM CancelTakesHolds == SpecServices => []CancelTakes
<1>1. IInv => CancelTakes
  BY DEF IInv, NewsInv, CancelKept, CancelTakes
<1>. QED
  BY <1>1, Inductive, SafetyOfSpec, PTL

\* The requests of a bucket go out one at a time and with their distance, for
\* any number of callers, keys and slots that come, go, back off and lose
\* their connection (enqueue): the safety half of TakesTurns.
THEOREM KeepsDistanceHolds == SpecServices => Limiter!KeepsDistance
<1>1. ASSUME IInv, [NextServices]_allVars
      PROVE  [\A r \in Limiter!Request : Limiter!Departs(r) =>
                since >= MinDelay /\ \A k \in Key : at[k] # "sent"]_limiterVars
  <2>1. [Limiter!Next]_limiterVars
    BY <1>1 DEF NextServices, allVars, market, NewsStep, SourceStep,
                AnalysisStep, LegacyStep, LimiterStep, StreamStep
  <2>. QED
    BY <1>1, <2>1, DepartsInTime DEF IInv
<1>. QED
  BY <1>1, Inductive, SafetyOfSpec, PTL
     DEF SafetySpec, Limiter!KeepsDistance, Limiter!vars, limiterVars
=============================================================================
