------------------------------ MODULE MCServices ------------------------------
(***************************************************************************)
(* The services beside the desk, on small instances for TLC: the local     *)
(* intelligence worker (NewsIntelligence), the collection of sources       *)
(* (NewsCollection), the analysis jobs (AnalysisJobs), the legacy          *)
(* auto-trader (LegacyTrader), the limiter of requests (RequestLimiter)    *)
(* and the stream of order books (MarketStream).  They share no state      *)
(* their properties are about, except that the collection stores the       *)
(* documents that the worker analyses (Ingest): a behaviour here is one of *)
(* the part that is chosen at the start, while the others rest.            *)
(***************************************************************************)
EXTENDS NewsIntelligence

CONSTANTS Task, Handler, NoTask, MaxEdits,   \* NewsCollection
          Analysis, NoAnalysis,              \* AnalysisJobs
          Process,                           \* LegacyTrader
          Caller, Key, Slot, NoRequest,      \* RequestLimiter
          MinDelay, MaxRetries, Ttl, Stale,
          Manager, Coin, BatchSize,          \* MarketStream
          MaxAttempts, MaxPending

VARIABLES part,
          config, srcLease, current, due, stopped, poll, task, sent, mixed,
          row, pc, out, lock, queued, active, aborted, cancels,
          book, enabled, status, legacyDue, cycle, run, left, beside,
          tail, previous, at, wait, tries, since, cache, asks,
          socket, attempts, subscriptions, batch, tracked, cut, feed

sourceVars == <<config, srcLease, current, due, stopped, poll, task, sent,
                mixed>>
analysisVars == <<row, pc, out, lock, queued, active, aborted, cancels>>
legacyVars == <<book, enabled, status, legacyDue, cycle, run, left, beside>>
newsVars == <<job, old, lease, doc, worker, client, remover>>
limiterVars == <<tail, previous, at, wait, tries, since, cache, asks>>
streamVars == <<socket, attempts, subscriptions, batch, tracked, cut, feed>>
deskless == <<sourceVars, analysisVars, legacyVars>>
market == <<limiterVars, streamVars>>
allVars == <<part, newsVars, deskless, market>>

Collection == INSTANCE NewsCollection WITH lease <- srcLease
Analyses == INSTANCE AnalysisJobs WITH Job <- Analysis, NoJob <- NoAnalysis
Legacy == INSTANCE LegacyTrader WITH due <- legacyDue
Limiter == INSTANCE RequestLimiter
Stream == INSTANCE MarketStream

ASSUME ServicesAssumptions ==
  /\ Collection!CollectionAssumption /\ Analyses!JobAssumption
  /\ Limiter!LimiterAssumption /\ Stream!StreamAssumption

Parts == {"news", "sources", "analyses", "legacy", "limiter", "stream"}

InitServices ==
  /\ part \in Parts
  /\ Init /\ Collection!Init /\ Analyses!Init /\ Legacy!Init
  /\ Limiter!Init /\ Stream!Init

NewsStep ==
  /\ part = "news" /\ Next
  /\ UNCHANGED <<part, deskless, market>>
SourceStep ==
  /\ part = "sources" /\ Collection!Next
  /\ UNCHANGED <<part, newsVars, analysisVars, legacyVars, market>>
AnalysisStep ==
  /\ part = "analyses" /\ Analyses!Next
  /\ UNCHANGED <<part, newsVars, sourceVars, legacyVars, market>>
LegacyStep ==
  /\ part = "legacy" /\ Legacy!Next
  /\ UNCHANGED <<part, newsVars, sourceVars, analysisVars, market>>
LimiterStep ==
  /\ part = "limiter" /\ Limiter!Next
  /\ UNCHANGED <<part, newsVars, deskless, streamVars>>
StreamStep ==
  /\ part = "stream" /\ Stream!Next
  /\ UNCHANGED <<part, newsVars, deskless, limiterVars>>

NextServices ==
  \/ NewsStep \/ SourceStep \/ AnalysisStep \/ LegacyStep
  \/ LimiterStep \/ StreamStep

\* The fairness of the modules, each for its own part.  As only one part
\* moves, its conditions are those of either disjunct.
Goes ==
  \/ part = "news" /\ Work /\ UNCHANGED <<part, deskless, market>>
  \/ /\ part = "limiter" /\ Limiter!Tick
     /\ UNCHANGED <<part, newsVars, deskless, streamVars>>
Passes ==
  \/ /\ part = "news" /\ Time
     /\ UNCHANGED <<part, deskless, market>>
  \/ /\ part = "stream" /\ Stream!Timer
     /\ UNCHANGED <<part, newsVars, deskless, limiterVars>>

SpecServices ==
  /\ InitServices /\ [][NextServices]_allVars
  /\ WF_allVars(Goes)
  /\ WF_allVars(Passes)
  /\ SF_newsVars(part = "news" /\ BeginBatch)
  /\ SF_newsVars(part = "news" /\ TakeLease)
  /\ \A j \in Analysis : WF_analysisVars(part = "analyses" /\ Analyses!Step(j))
  /\ \A r \in Limiter!Request :
       WF_limiterVars(part = "limiter" /\ Limiter!Serve(r))

-----------------------------------------------------------------------------
(* Properties of the parts, as their modules state them *)

\* Evidence is stored under the configuration it was captured by
\* (POST /v1/captures, saveSource).
CapturedAsConfigured == Collection!CapturedAsConfigured

\* No legacy cycle is claimed while the desk has the account (claimSettings,
\* updateBook, configure).
ClaimedAlone == Legacy!ClaimedAlone

\* A waiting analysis job is started (startNextQueuedJob).
QueuedStarts == Analyses!QueuedStarts

\* Requests keep their distance, and who asks is answered (enqueue,
\* hyperliquidInfoPost, fetchWithRateLimit).
TakesTurns == Limiter!KeepsDistance /\ Limiter!Answered

\* What a manager tracks is delivered once the connection lasts
\* (resubscribe, updateSubscriptions).
StreamFollows == Stream!StreamFollows
=============================================================================
