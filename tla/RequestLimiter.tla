---------------------------- MODULE RequestLimiter ----------------------------
(***************************************************************************)
(* The limiter of requests to the exchange's public interface              *)
(* (src/lib/rate-limit/hyperliquid-limiter.ts), as                         *)
(* src/lib/hyperliquid-info.ts uses it: one bucket, whose requests wait    *)
(* for each other in a chain of promises, keep a distance in time, are     *)
(* repeated when the exchange is busy, and are shared by callers that ask  *)
(* the same.  Buckets have nothing in common, so one shows all.            *)
(*                                                                         *)
(* Times are times left or gone by, in the unit of Tick.  How long a       *)
(* request backs off is a choice; timers may fire late.                    *)
(***************************************************************************)
EXTENDS Naturals

CONSTANTS Caller,      \* each asks for one thing at a time
          Key,         \* cached requests of the bucket, by their body
          Slot,        \* callers of waitForHyperliquidSlot
          NoRequest,   \* no request: the bucket is not in the map
          MinDelay,    \* between the requests of the bucket
          MaxRetries,  \* after an answer 429
          Ttl, Stale   \* lifetime of a value, and after it as a last resort

Request == Key \cup Slot
LimiterAssumption ==
  /\ {MinDelay, MaxRetries, Ttl, Stale} \subseteq Nat
  /\ Ttl > 0 /\ NoRequest \notin Request /\ Key \cap Slot = {}

VARIABLES
  tail,      \* buckets: the request whose turn is the last of the chain
  previous,  \* the one whose turn a request waits for
  at,        \* how far a request is
  wait,      \* time it has to sleep
  tries,     \* attempts it has made, of its present flight
  since,     \* time since lastAt of the bucket, at most MinDelay
  cache,     \* cache: a value with its age, and whether one is in flight
  asks       \* what a caller waits for, or was told

vars == <<tail, previous, at, wait, tries, since, cache, asks>>
chain == <<tail, previous>>

NoValue == [known |-> FALSE, age |-> Ttl + Stale]
Idle == [at |-> "idle", age |-> 0]

Init ==
  /\ tail = NoRequest /\ previous = [r \in Request |-> NoRequest]
  /\ at = [r \in Request |-> "idle"]
  /\ wait = [r \in Request |-> 0] /\ tries = [r \in Request |-> 0]
  /\ since = MinDelay
  /\ cache = [k \in Key |-> [value |-> NoValue, inFlight |-> FALSE]]
  /\ asks = [c \in Caller |-> Idle]

Fresh(value) == value.known /\ value.age < Ttl
LastResort(value) == value.known /\ value.age < Ttl + Stale
WaitsFor(k) == [at |-> "wait", for |-> k]
Told(value) == [at |-> "told", age |-> value.age]
Free(c) == asks[c].at \in {"idle", "told", "failed"}

-----------------------------------------------------------------------------
(* enqueue *)

\* A request lines up behind the last one that has.
LineUp(r) ==
  /\ at' = [at EXCEPT ![r] = "queue"]
  /\ previous' = [previous EXCEPT ![r] = tail]
  /\ tail' = r

\* Variant: whoever is done removes the bucket.
Cleared(r) == NoRequest

Emptied(r) == IF tail = r THEN NoRequest ELSE tail

\* release: who has waited may begin, whatever came of the work.
Release(r) ==
  /\ previous' = [other \in Request |->
       IF previous[other] = r THEN NoRequest ELSE previous[other]]
  /\ tail' = Emptied(r)

\* Of a slot the turn is all there is to it.
Go(r) ==
  /\ since' = 0
  /\ IF r \in Slot
     THEN at' = [at EXCEPT ![r] = "idle"] /\ Release(r)
     ELSE at' = [at EXCEPT ![r] = "sent"] /\ UNCHANGED chain

\* It is the request's turn: at once, or after the delay.
Turn(r) ==
  /\ at[r] = "queue" /\ previous[r] = NoRequest
  /\ IF since >= MinDelay
     THEN Go(r) /\ UNCHANGED wait
     ELSE /\ at' = [at EXCEPT ![r] = "sleep"]
          /\ wait' = [wait EXCEPT ![r] = MinDelay - since]
          /\ UNCHANGED <<chain, since>>
  /\ UNCHANGED <<tries, cache, asks>>

Wake(r) ==
  /\ at[r] = "sleep" /\ wait[r] = 0
  /\ Go(r)
  /\ UNCHANGED <<wait, tries, cache, asks>>

-----------------------------------------------------------------------------
(* hyperliquidInfoPost, waitForHyperliquidSlot, fetchWithRateLimit *)

\* From the cache, with those who wait already, or by a request.
Ask(c, k) ==
  /\ Free(c)
  /\ IF Fresh(cache[k].value)
     THEN /\ asks' = [asks EXCEPT ![c] = Told(cache[k].value)]
          /\ UNCHANGED <<chain, at, cache>>
     ELSE /\ asks' = [asks EXCEPT ![c] = WaitsFor(k)]
          /\ IF cache[k].inFlight
             THEN UNCHANGED <<chain, at, cache>>
             ELSE /\ LineUp(k)
                  /\ cache' = [cache EXCEPT ![k].inFlight = TRUE]
  /\ UNCHANGED <<wait, tries, since>>

AskSlot(s) ==
  /\ at[s] = "idle"
  /\ LineUp(s)
  /\ UNCHANGED <<wait, tries, since, cache, asks>>

Tell(k, told) ==
  asks' = [c \in Caller |-> IF asks[c] = WaitsFor(k) THEN told ELSE asks[c]]

\* An answer other than 429 begins: the turn is over before it is read.
Headers(k) ==
  /\ at[k] = "sent" /\ at' = [at EXCEPT ![k] = "body"]
  /\ Release(k)
  /\ UNCHANGED <<wait, tries, since, cache, asks>>

\* The value takes the place of the entry that had the request in flight.
Answer(k) ==
  LET value == [known |-> TRUE, age |-> 0] IN
  /\ at[k] = "body" /\ at' = [at EXCEPT ![k] = "idle"]
  /\ cache' = [cache EXCEPT ![k] = [value |-> value, inFlight |-> FALSE]]
  /\ Tell(k, Told(value))
  /\ tries' = [tries EXCEPT ![k] = 0]
  /\ UNCHANGED <<chain, wait, since>>

Landed(entry) == [entry EXCEPT !.inFlight = FALSE]

\* No connection, or 429 once too often; or an error, or a body that cannot be
\* read: what was known is told, if the first who asked allows that.
Fails(k) ==
  /\ \/ at[k] = "sent" /\ Release(k)
     \/ at[k] = "body" /\ UNCHANGED chain
  /\ at' = [at EXCEPT ![k] = "idle"]
  /\ cache' = [cache EXCEPT ![k] = Landed(cache[k])]
  /\ \/ LastResort(cache[k].value) /\ Tell(k, Told(cache[k].value))
     \/ Tell(k, [at |-> "failed"])
  /\ tries' = [tries EXCEPT ![k] = 0]
  /\ UNCHANGED <<wait, since>>

\* 429: the request gives its turn away and lines up again later.
BackOff(k) ==
  /\ at[k] = "sent" /\ tries[k] < MaxRetries
  /\ at' = [at EXCEPT ![k] = "backoff"]
  /\ tries' = [tries EXCEPT ![k] = tries[k] + 1]
  /\ Release(k)
  /\ UNCHANGED <<wait, since, cache, asks>>

Retry(k) ==
  /\ at[k] = "backoff"
  /\ LineUp(k)
  /\ UNCHANGED <<wait, tries, since, cache, asks>>

Tick ==
  /\ since' = IF since < MinDelay THEN since + 1 ELSE since
  /\ wait' = [r \in Request |-> IF wait[r] > 0 THEN wait[r] - 1 ELSE 0]
  /\ cache' = [k \in Key |->
       IF cache[k].value.age < Ttl + Stale
       THEN [cache[k] EXCEPT !.value.age = @ + 1] ELSE cache[k]]
  /\ UNCHANGED <<chain, at, tries, asks>>

Reply(k) == Headers(k) \/ Answer(k) \/ Fails(k) \/ BackOff(k)
Serve(r) ==
  Turn(r) \/ Wake(r) \/ \E k \in Key : r = k /\ (Reply(k) \/ Retry(k))
Proceed == \E r \in Request : Serve(r)

Next ==
  \/ \E c \in Caller, k \in Key : Ask(c, k)
  \/ \E s \in Slot : AskSlot(s)
  \/ Proceed \/ Tick

Spec == Init /\ [][Next]_vars

\* Timers fire, and a connection that is silent is given up at some time.
FairSpec ==
  Spec /\ WF_vars(Tick) /\ \A r \in Request : WF_vars(Serve(r))

-----------------------------------------------------------------------------
(* Properties *)

TypeOK ==
  /\ tail \in Request \cup {NoRequest}
  /\ previous \in [Request -> Request \cup {NoRequest}]
  /\ at \in [Request -> {"idle", "queue", "sleep", "sent", "body",
                        "backoff"}]
  /\ wait \in [Request -> 0 .. MinDelay] /\ since \in 0 .. MinDelay
  /\ tries \in [Request -> 0 .. MaxRetries]
  /\ \A k \in Key : cache[k].inFlight = (at[k] # "idle")

\* Requests of a bucket go out one at a time and with their distance, whoever
\* comes or goes while others wait.
Departs(r) == at[r] \in {"queue", "sleep"} /\ at'[r] \in {"sent", "idle"}
KeepsDistance ==
  [][\A r \in Request : Departs(r) =>
       since >= MinDelay /\ \A k \in Key : at[k] # "sent"]_vars

\* Who waits is answered in the end, even if the requests before his, or the
\* one he has joined, fail, back off, or leave the bucket.
Answered ==
  \A c \in Caller : []<>(asks[c].at # "wait")

\* The limiter does both.
TakesTurns == KeepsDistance /\ Answered
=============================================================================
