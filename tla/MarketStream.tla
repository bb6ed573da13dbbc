----------------------------- MODULE MarketStream -----------------------------
(***************************************************************************)
(* The stream of order books (HyperliquidWS in src/lib/hyperliquid-ws.ts)  *)
(* under the managers that use it (src/services/OrderBookManager.ts): a    *)
(* socket that is opened again when it closes, subscriptions that are      *)
(* remembered and sent again in staggered batches, and screeners that say  *)
(* anew what they track.  The managers of a process share one socket       *)
(* (getSharedHyperliquidWS), and each subscribes and unsubscribes as if it *)
(* were alone.  Of the books that arrive only their source, the            *)
(* subscriptions that the exchange has, is modelled.                       *)
(***************************************************************************)
EXTENDS Naturals, FiniteSets

CONSTANTS Manager,      \* OrderBookManagers on the shared socket
          Coin,
          BatchSize,    \* subscriptions that a timer sends: 50 in the code
          MaxAttempts,  \* to open the socket again, in a row
          MaxPending    \* bound: timers of a batch

StreamAssumption ==
  {BatchSize, MaxAttempts, MaxPending} \subseteq Nat /\ BatchSize > 0

VARIABLES
  socket,         \* readyState of the socket; "lost" when it is given up
  attempts,       \* reconnectAttempts
  subscriptions,  \* what is sent again on a new connection
  batch,          \* timers of resubscribe, by what they will send
  tracked,        \* activeSymbols of the managers
  cut,            \* history: what others unsubscribed while one tracks it
  feed            \* subscriptions that the exchange has

vars == <<socket, attempts, subscriptions, batch, tracked, cut, feed>>

Group == SUBSET Coin \ {{}}
NoTimers == [b \in Group |-> 0]
Nothing == [m \in Manager |-> {}]

Init ==
  /\ socket = "connecting" /\ attempts = 0
  /\ subscriptions = {} /\ feed = {} /\ batch = NoTimers
  /\ tracked = Nothing /\ cut = Nothing

-----------------------------------------------------------------------------
(* updateSubscriptions, subscribeToL2Book, unsubscribeFromL2Book *)

\* Variant: a subscription is remembered when it is sent.
OnceSent(coins) ==
  IF socket = "open" THEN subscriptions \cup coins ELSE subscriptions

Remembered(coins) == subscriptions \cup coins

\* New coins first, then the ones that are no longer tracked, whoever else
\* tracks them.
Track(m, coins) ==
  LET new == coins \ tracked[m]
      old == tracked[m] \ coins IN
  /\ coins # tracked[m]
  /\ tracked' = [tracked EXCEPT ![m] = coins]
  /\ cut' = [n \in Manager |->
       IF n = m THEN cut[n] \ old
         ELSE (cut[n] \ new) \cup (old \cap tracked[n])]
  /\ subscriptions' = Remembered(new) \ old
  /\ feed' = IF socket = "open" THEN (feed \cup new) \ old ELSE feed
  /\ UNCHANGED <<socket, attempts, batch>>

-----------------------------------------------------------------------------
(* The socket *)

\* The subscriptions in batches, of which at most the last is not full.
Split(coins) == {split \in SUBSET SUBSET coins :
  /\ UNION split = coins /\ {} \notin split
  /\ \A b, d \in split : b # d => b \cap d = {}
  /\ \A b \in split : Cardinality(b) <= BatchSize
  /\ Cardinality({b \in split : Cardinality(b) < BatchSize}) <= 1}

\* open: what is remembered now will be sent by timers.
Open ==
  /\ socket = "connecting" /\ \A b \in Group : batch[b] < MaxPending
  /\ socket' = "open" /\ attempts' = 0
  /\ \E split \in Split(subscriptions) :
       batch' = [b \in Group |->
         IF b \in split THEN batch[b] + 1 ELSE batch[b]]
  /\ UNCHANGED <<subscriptions, tracked, cut, feed>>

\* close, of a connection or of an attempt: scheduleReconnect.
Close ==
  /\ socket \in {"connecting", "open"}
  /\ socket' = IF attempts < MaxAttempts THEN "closed" ELSE "lost"
  /\ feed' = {}
  /\ UNCHANGED <<attempts, subscriptions, batch, tracked, cut>>

\* A screener that is made connects, even if attempts have been given up.
Connect ==
  /\ socket = "lost" /\ socket' = "connecting"
  /\ UNCHANGED <<attempts, subscriptions, batch, tracked, cut, feed>>

\* The timer of scheduleReconnect, unless a screener that is made is faster:
\* the timer then only counts.
Reconnect ==
  /\ socket = "closed" /\ socket' = "connecting"
  /\ attempts' = attempts + 1
  /\ UNCHANGED <<subscriptions, batch, tracked, cut, feed>>

\* A timer of resubscribe: what its batch has is sent, or nothing of it on a
\* socket that is closed, or on one that is connecting, as the first send
\* throws.
Resubscribe(b) ==
  /\ batch[b] > 0 /\ batch' = [batch EXCEPT ![b] = @ - 1]
  /\ feed' = IF socket = "open" THEN feed \cup b ELSE feed
  /\ UNCHANGED <<socket, attempts, subscriptions, tracked, cut>>

\* Nothing catches what is thrown in a timer: the process may end of it, and
\* one that is started again knows nothing.
Throw(b) ==
  /\ batch[b] > 0 /\ socket = "connecting"
  /\ socket' = "connecting" /\ attempts' = 0
  /\ subscriptions' = {} /\ feed' = {} /\ batch' = NoTimers
  /\ tracked' = Nothing /\ cut' = Nothing

Timer == \E b \in Group : Resubscribe(b) \/ Throw(b)

Next ==
  \/ Open \/ Close \/ Connect \/ Reconnect \/ Timer
  \/ \E m \in Manager, coins \in SUBSET Coin : Track(m, coins)

Spec == Init /\ [][Next]_vars

\* Timers fire.
FairSpec == Spec /\ WF_vars(Timer)

-----------------------------------------------------------------------------
(* Properties *)

TypeOK ==
  /\ socket \in {"connecting", "open", "closed", "lost"}
  /\ attempts \in 0 .. MaxAttempts
  /\ subscriptions \subseteq Coin /\ feed \subseteq Coin
  /\ batch \in [Group -> 0 .. MaxPending]
  /\ tracked \in [Manager -> SUBSET Coin]
  /\ \A m \in Manager : cut[m] \subseteq tracked[m]

\* What a manager goes on tracking is delivered when the connection lasts,
\* however often it was lost before, and whatever was asked for meanwhile; but
\* not if another manager of the socket has stopped tracking it and nobody has
\* subscribed to it since (unsubscribeFromL2Book, which asks no other).
StreamFollows ==
  \A m \in Manager, c \in Coin :
    <>[](socket = "open" /\ c \in tracked[m] \ cut[m]) => <>[](c \in feed)

\* "Does not resubscribe an unsubscribed symbol after reconnect"
\* (src/__tests__/HyperliquidWs.test.ts): what the exchange is subscribed to
\* is wanted.  The code takes the list when the socket opens and sends it
\* later.
NotResubscribed == feed \subseteq subscriptions
=============================================================================
