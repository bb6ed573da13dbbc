------------------------- MODULE DeskIntentsProofs -------------------------
(***************************************************************************)
(* Theorems about DeskIntents, for any set of intent keys, any size, cap   *)
(* and window and any bounds.                                              *)
(***************************************************************************)
EXTENDS DeskIntents, SumTheorems, TLAPS

-----------------------------------------------------------------------------
(* The inductive invariant *)

\* The types, as far as the proofs need them.
States == Live \cup Final \cup {"none"}
Intent == [state : States, reserved : Int, filled : Int, createdAt : Nat]
Order == [status : Statuses, traded : Int, expiresAfter : Nat]
CallRecord == [task : Tasks, key : Key \cup {Operator}, at : Points,
               left : SUBSET Key, next : Nat \ {0}, upTo : Nat, account : Int]
FillRecord == [key : Key \cup {Operator}, lots : Int]

Types ==
  /\ now \in Nat
  /\ intent \in [Key -> Intent]
  /\ call \in CallRecord
  /\ call.upTo <= Len(fills)
  /\ lastSync \in Nat
  /\ order \in [Key -> Order]
  /\ fills \in Seq(FillRecord)
  /\ pos \in Int
  /\ posted \in [Key -> Nat]

\* The history of one order.
NoRowNoOrder(k) == intent[k].state = "none" => order[k].status = "none"
PostedOnce(k) ==
  /\ posted[k] <= 1
  /\ order[k].status = "none" => posted[k] = 0

\* A resting order is a quote that the desk has not written off.
OpenCovered(k) ==
  order[k].status = "open" =>
    /\ Quoting
    /\ intent[k].state \in Live \ {"settling"}
    /\ intent[k].reserved = Size

\* An order under way dies before anybody may release it.
FlightCovered(k) ==
  order[k].status = "flight" =>
    /\ order[k].expiresAfter <= intent[k].createdAt + Patience + Window
    /\ \/ now > order[k].expiresAfter
       \/ /\ intent[k].state \in {"submitting", "unknown"}
          /\ intent[k].reserved = Size

KeyInv(k) ==
  NoRowNoOrder(k) /\ PostedOnce(k) /\ OpenCovered(k) /\ FlightCovered(k)

\* A submission that has not reached its POST.
Submitting == call.task = "submit" /\ call.at # "ack"

SubmitInv ==
  Submitting =>
    /\ call.key \in Key
    /\ intent[call.key].state \in {"none", "submitting"}
    /\ order[call.key].status = "none"
    /\ intent[call.key].state = "submitting" =>
         /\ intent[call.key].reserved = Size
         /\ now <= intent[call.key].createdAt + Patience

AbandonInv ==
  call.task = "abandon" =>
    /\ call.key \in Key
    /\ intent[call.key].createdAt + AbandonAge <= now

\* Between the last question and the release the exchange cannot begin to
\* know the order.
ReleaseInv ==
  call.at = "release" => call.task = "abandon" /\ ~Recorded(call.key)

IInv ==
  Types /\ SubmitInv /\ AbandonInv /\ ReleaseInv /\ \A k \in Key : KeyInv(k)

-----------------------------------------------------------------------------
(* Types *)

\* What each variable starts as has its type.
LEMMA TypesInit == Init => Types
BY IntentAssumption
DEF Init, Types, Intent, Order, CallRecord, FillRecord, NoIntent, NoOrder,
    Idle, States, Statuses, Live, Final, Tasks, Points

\* A call begins as a call record.
LEMMA StartTypes ==
  ASSUME NEW task \in Tasks, NEW k \in Key \cup {Operator}
  PROVE  /\ Start(task, k) \in CallRecord
         /\ Idle \in CallRecord
         /\ Start(task, k).upTo = 0
         /\ Idle.upTo = 0
<1>1. /\ {} \in SUBSET Key
      /\ 1 \in Nat \ {0}
      /\ 0 \in Nat
      /\ 0 \in Int
  OBVIOUS
<1>2. Idle \in CallRecord /\ Idle.upTo = 0
  BY <1>1 DEF Idle, CallRecord, Tasks, Points
<1>3. [Idle EXCEPT !.task = task, !.key = k, !.at = "fetch"] \in CallRecord
  BY <1>2 DEF CallRecord, Points
<1>4. [Idle EXCEPT !.task = task, !.key = k, !.at = "fetch"].upTo = 0
  BY <1>2 DEF CallRecord
<1> QED  BY <1>2, <1>3, <1>4 DEF Start

\* Another point of the same call, with whatever it has read.
LEMMA StepTypes ==
  ASSUME Types, NEW p \in Points
  PROVE  /\ [call EXCEPT !.at = p] \in CallRecord
         /\ [call EXCEPT !.at = p].upTo = call.upTo
BY DEF Types, CallRecord

\* The same of the call after a step.
LEMMA AtTypes ==
  ASSUME Types, NEW p \in Points, call' = [call EXCEPT !.at = p]
  PROVE  /\ call' \in CallRecord
         /\ call'.upTo <= call.upTo
         /\ call'.upTo <= Len(fills)
<1>1. call' \in CallRecord /\ call'.upTo = call.upTo
  BY StepTypes
<1>2. call.upTo \in Nat /\ Len(fills) \in Nat /\ call.upTo <= Len(fills)
  BY DEF Types, CallRecord
<1> QED  BY <1>1, <1>2

\* A step that writes no row and moves nothing at the exchange.
LEMMA CallTypes ==
  ASSUME Types, lastSync' \in Nat,
         UNCHANGED <<now, intent, order, fills, pos, posted>>,
         call' \in CallRecord, call'.upTo <= Len(fills)
  PROVE  Types'
BY DEF Types

\* A step that writes rows of orders.
LEMMA RowTypes ==
  ASSUME Types, intent' \in [Key -> Intent],
         UNCHANGED <<now, lastSync, order, fills, pos, posted>>,
         call' \in CallRecord, call'.upTo <= call.upTo
  PROVE  Types'
<1>1. Len(fills) \in Nat /\ call.upTo \in Nat /\ call'.upTo \in Nat
  BY DEF Types, CallRecord
<1> QED  BY <1>1 DEF Types

\* A step that goes back to no call at all.
LEMMA IdleTypes ==
  ASSUME Types
  PROVE  /\ Idle \in CallRecord
         /\ Idle.upTo <= call.upTo
         /\ Idle.upTo <= Len(fills)
<1>1. Idle \in CallRecord /\ Idle.upTo = 0
  BY StartTypes DEF Tasks
<1> QED  BY <1>1 DEF Types, CallRecord

\* A row whose state, or state and reservation, is written.
LEMMA WriteTypes ==
  ASSUME Types, NEW k \in Key, NEW s \in States
  PROVE  /\ [intent EXCEPT ![k].state = s] \in [Key -> Intent]
         /\ [intent EXCEPT ![k].state = s, ![k].reserved = 0]
              \in [Key -> Intent]
<1>1. ASSUME NEW f \in [Key -> Intent]
      PROVE  /\ [f EXCEPT ![k].state = s] \in [Key -> Intent]
             /\ [f EXCEPT ![k].reserved = 0] \in [Key -> Intent]
  BY DEF Intent
<1>2. [intent EXCEPT ![k].state = s] \in [Key -> Intent]
  BY <1>1 DEF Types
<1>3. [intent EXCEPT ![k].state = s, ![k].reserved = 0]
        = [[intent EXCEPT ![k].state = s] EXCEPT ![k].reserved = 0]
  OBVIOUS
<1> DEFINE f == [intent EXCEPT ![k].state = s]
<1> HIDE DEF f
<1>4. [f EXCEPT ![k].reserved = 0] \in [Key -> Intent]
  BY <1>1, <1>2 DEF f
<1> QED  BY <1>2, <1>3, <1>4 DEF f

\* The call only: reads of the ledger's own rows and of the exchange.
LEMMA ReadTypes ==
  ASSUME Types
  PROVE  /\ \A from \in 1 .. lastSync + 1 : Fetch(from) => Types'
         /\ ReadAccount => Types'
         /\ \A k \in Key : Verify(k) => Types'
         /\ Compare => Types'
         /\ Adopt => Types'
<1>1. Len(fills) \in Nat /\ lastSync \in Nat
  BY DEF Types
<1>2. ASSUME NEW from \in 1 .. lastSync + 1, Fetch(from)  PROVE Types'
  <2>1. from \in Nat \ {0}
    BY <1>1
  <2>2. {k \in Key : intent[k].state \in Live} \in SUBSET Key
    OBVIOUS
  <2>3. call' \in CallRecord
    BY <1>1, <1>2, <2>1, <2>2 DEF Fetch, Types, CallRecord, Points
  <2>4. call'.upTo <= Len(fills)
    BY <1>1, <1>2 DEF Fetch, Types, CallRecord
  <2> QED  BY <1>1, <1>2, <2>3, <2>4, CallTypes DEF Fetch, db, exchange
<1>3. ASSUME ReadAccount  PROVE Types'
  <2>1. call' \in CallRecord /\ call'.upTo <= Len(fills)
    BY <1>3 DEF ReadAccount, Types, CallRecord, Points
  <2> QED  BY <1>1, <1>3, <2>1, CallTypes DEF ReadAccount, db, exchange
<1>4. ASSUME NEW k \in Key, Verify(k)  PROVE Types'
  <2>1. call' = Idle \/ call' = [call EXCEPT !.at = "release"]
    BY <1>4 DEF Verify
  <2>2. call' \in CallRecord /\ call'.upTo <= Len(fills)
    BY <2>1, IdleTypes, AtTypes DEF Points
  <2> QED  BY <1>1, <1>4, <2>2, CallTypes DEF Verify, db, exchange
<1>5. ASSUME Compare  PROVE Types'
  <2>1. call' = Idle \/ call' = [call EXCEPT !.at = "synced"]
    BY <1>5 DEF Compare
  <2>2. call' \in CallRecord /\ call'.upTo <= Len(fills)
    BY <2>1, IdleTypes, AtTypes DEF Points
  <2>3. call.upTo \in Nat
    BY DEF Types, CallRecord
  <2> QED  BY <1>5, <2>2, <2>3, CallTypes DEF Compare, exchange
<1>6. ASSUME Adopt  PROVE Types'
  BY <1>1, <1>6, IdleTypes, CallTypes DEF Adopt, exchange
<1> QED  BY <1>2, <1>3, <1>4, <1>5, <1>6

\* Calls begin and crash.
LEMMA CallsTypes ==
  ASSUME Types
  PROVE  /\ Reconcile \/ AskHandover \/ Crash => Types'
         /\ \A k \in Key : Submit(k) \/ Abandon(k) => Types'
<1>1. Len(fills) \in Nat /\ lastSync \in Nat
  BY DEF Types
<1>2. ASSUME NEW task \in Tasks, NEW k \in Key \cup {Operator},
             call' = Start(task, k) \/ call' = Idle
      PROVE  call' \in CallRecord /\ call'.upTo <= Len(fills)
  BY <1>1, <1>2, StartTypes
<1>3. ASSUME NEW task \in Tasks, NEW k \in Key \cup {Operator},
             call' = Start(task, k) \/ call' = Idle,
             UNCHANGED <<now, db, exchange, posted>>
      PROVE  Types'
  BY <1>1, <1>2, <1>3, CallTypes DEF db, exchange
<1>4. Reconcile => Types'
  BY <1>3 DEF Reconcile, Tasks
<1>5. AskHandover => Types'
  BY <1>3 DEF AskHandover, Tasks
<1>6. Crash => Types'
  <2>1. Dead \in CallRecord /\ Dead.upTo = 0
    BY IdleTypes DEF Dead, Idle, CallRecord, Points
  <2> QED  BY <1>1, <2>1, CallTypes DEF Crash, db, exchange
<1>7. ASSUME NEW k \in Key, Submit(k) \/ Abandon(k)  PROVE Types'
  BY <1>3, <1>7 DEF Submit, Abandon, Tasks
<1> QED  BY <1>4, <1>5, <1>6, <1>7

\* The row that a draft writes.
LEMMA DraftTypes ==
  ASSUME Types, NEW k \in Key, Draft(k)
  PROVE  Types'
<1> DEFINE row == [state |-> "submitting", reserved |-> Size, filled |-> 0,
                   createdAt |-> now]
<1>1. row \in Intent
  BY IntentAssumption DEF Types, Intent, States, Live
<1> HIDE DEF row
<1>2. CASE Acceptable(k)
  <2>1. intent' = [intent EXCEPT ![k] = row]
        /\ call' = [call EXCEPT !.at = "fetch"]
    BY <1>2 DEF Draft, row
  <2>2. intent' \in [Key -> Intent]
    BY <1>1, <2>1 DEF Types
  <2>3. call' \in CallRecord /\ call'.upTo <= call.upTo
    BY <2>1, AtTypes DEF Points
  <2> QED  BY <2>2, <2>3, RowTypes DEF Draft, exchange
<1>3. CASE ~Acceptable(k)
  <2>1. intent' = intent /\ call' = Idle
    BY <1>3 DEF Draft
  <2> QED  BY <2>1, IdleTypes, RowTypes DEF Draft, exchange, Types
<1> QED  BY <1>2, <1>3

\* The rows that the end of a submission or of an abandonment writes.
LEMMA AnswerTypes ==
  ASSUME Types, NEW k \in Key
  PROVE  /\ FailBeforeDispatch(k) => Types'
         /\ \A childError \in BOOLEAN : Acknowledge(k, childError) => Types'
         /\ LoseAnswer(k) => Types'
         /\ ReleaseReservation(k) => Types'
<1>1. ASSUME NEW s \in States, call' = Idle,
             \/ intent' = [intent EXCEPT ![k].state = s]
             \/ intent' = [intent EXCEPT ![k].state = s, ![k].reserved = 0],
             UNCHANGED <<now, lastSync, order, fills, pos, posted>>
      PROVE  Types'
  <2>1. CASE intent' = [intent EXCEPT ![k].state = s]
    BY <2>1, <1>1, WriteTypes, IdleTypes, RowTypes
  <2>2. CASE intent' = [intent EXCEPT ![k].state = s, ![k].reserved = 0]
    BY <2>2, <1>1, WriteTypes, IdleTypes, RowTypes
  <2> QED  BY <1>1, <2>1, <2>2
<1>2. FailBeforeDispatch(k) => Types'
  BY <1>1 DEF FailBeforeDispatch, Reject, exchange, States, Final
<1>3. ASSUME NEW childError \in BOOLEAN, Acknowledge(k, childError)
      PROVE  Types'
  <2>1. \E s \in States :
          \/ intent' = [intent EXCEPT ![k].state = s]
          \/ intent' = [intent EXCEPT ![k].state = s, ![k].reserved = 0]
    <3>1. CASE childError
      BY <1>3, <3>1 DEF Acknowledge, States, Live
    <3>2. CASE ~childError /\ order[k].status = "refused"
      BY <1>3, <3>2 DEF Acknowledge, States, Final
    <3>3. CASE ~childError /\ order[k].status # "refused"
      <4>1. intent' = [intent EXCEPT ![k].state =
                         IF Quoting THEN "working" ELSE "settling"]
        BY <1>3, <3>3 DEF Acknowledge
      <4> QED  BY <4>1 DEF States, Live
    <3> QED  BY <3>1, <3>2, <3>3
  <2> QED  BY <1>1, <1>3, <2>1 DEF Acknowledge, exchange
<1>4. LoseAnswer(k) => Types'
  BY <1>1 DEF LoseAnswer, Uncertain, exchange, States, Live
<1>5. ReleaseReservation(k) => Types'
  BY <1>1 DEF ReleaseReservation, exchange, States, Final
<1> QED  BY <1>2, <1>3, <1>4, <1>5

\* The POST: an order under way, or a rejection.
LEMMA DispatchTypes ==
  ASSUME Types, NEW k \in Key, Dispatch(k)
  PROVE  Types'
<1> DEFINE sent == [status |-> "flight", traded |-> 0,
                    expiresAfter |-> now + Window]
<1>1. sent \in Order
  BY IntentAssumption DEF Types, Order, Statuses
<1> HIDE DEF sent
<1>2. CASE Acceptable(k)
  <2>1. /\ order' = [order EXCEPT ![k] = sent]
        /\ posted' = [posted EXCEPT ![k] = @ + 1]
        /\ call' = [call EXCEPT !.at = "ack"]
        /\ UNCHANGED <<now, intent, lastSync, fills, pos>>
    BY <1>2 DEF Dispatch, sent
  <2>2. order' \in [Key -> Order]
    BY <1>1, <2>1 DEF Types
  <2>3. posted' \in [Key -> Nat]
    BY <2>1 DEF Types
  <2>4. call' \in CallRecord /\ call'.upTo = call.upTo
    BY <2>1, StepTypes DEF Points
  <2> QED  BY <2>1, <2>2, <2>3, <2>4 DEF Types
<1>3. CASE ~Acceptable(k)
  <2>1. intent' = [intent EXCEPT ![k].state = "rejected", ![k].reserved = 0]
        /\ call' = Idle
        /\ UNCHANGED <<now, lastSync, order, fills, pos, posted>>
    BY <1>3 DEF Dispatch, Reject
  <2>2. intent' \in [Key -> Intent]
    BY <2>1, WriteTypes DEF States, Final
  <2> QED  BY <2>1, <2>2, IdleTypes, RowTypes
<1> QED  BY <1>2, <1>3

\* The rows that a sync writes.
LEMMA SyncTypes ==
  ASSUME Types
  PROVE  /\ \A k \in Key : ReadStatus(k) => Types'
         /\ Import => Types'
         /\ Settle => Types'
<1>1. ASSUME NEW k \in Key, ReadStatus(k)  PROVE Types'
  <2>1. intent' \in [Key -> Intent]
    <3>1. CASE ~Recorded(k)
      BY <1>1, <3>1 DEF ReadStatus, Recorded, Types
    <3>2. CASE order[k].status = "open"
      <4>1. intent' = [intent EXCEPT ![k].state = "working"]
        BY <1>1, <3>2 DEF ReadStatus, Recorded
      <4> QED  BY <4>1, WriteTypes DEF States, Live
    <3>3. CASE order[k].status = "filled"
      <4>1. intent' = [intent EXCEPT ![k].state = "settling"]
        BY <1>1, <3>3 DEF ReadStatus, Recorded
      <4> QED  BY <4>1, WriteTypes DEF States, Live
    <3>4. CASE order[k].status = "canceled"
      <4>1. intent' = [intent EXCEPT ![k].state = "terminal",
                                     ![k].reserved = 0]
        BY <1>1, <3>4 DEF ReadStatus, Recorded
      <4> QED  BY <4>1, WriteTypes DEF States, Final
    <3> QED  BY <3>1, <3>2, <3>3, <3>4 DEF Recorded
  <2>2. call' \in CallRecord
    <3>1. call.left \ {k} \in SUBSET Key
      BY DEF Types, CallRecord
    <3> QED  BY <1>1, <3>1 DEF ReadStatus, Types, CallRecord
  <2>3. call'.upTo = call.upTo
    BY <1>1 DEF ReadStatus, Types, CallRecord
  <2>4. call'.upTo <= call.upTo
    BY <2>3 DEF Types, CallRecord
  <2> QED  BY <1>1, <2>1, <2>2, <2>4, RowTypes DEF ReadStatus, exchange
<1>2. ASSUME Import  PROVE Types'
  <2> DEFINE n == call.next
             k == fills[n].key
  <2>1. n \in 1 .. Len(fills) /\ n + 1 \in Nat \ {0}
    BY <1>2 DEF Import, Types, CallRecord
  <2>2. fills[n] \in FillRecord
    BY <2>1 DEF Types
  <2>3. call' \in CallRecord /\ call'.upTo <= call.upTo
    <3>1. call' = [call EXCEPT !.next = n + 1]
      BY <1>2 DEF Import
    <3>2. call' \in CallRecord
      BY <2>1, <3>1 DEF Types, CallRecord
    <3>3. call'.upTo = call.upTo /\ call.upTo \in Nat
      BY <3>1 DEF Types, CallRecord
    <3> QED  BY <3>2, <3>3
  <2>4. \/ intent' = intent
        \/ /\ k \in Key
           /\ intent' = [intent EXCEPT ![k].filled = @ + fills[n].lots]
    BY <1>2 DEF Import
  <2>5. intent' \in [Key -> Intent]
    <3>1. fills[n].lots \in Int
      BY <2>2 DEF FillRecord
    <3>2. CASE k \in Key /\ intent' =
                 [intent EXCEPT ![k].filled = @ + fills[n].lots]
      <4> DEFINE q == intent[k].filled + fills[n].lots
                 r == [intent[k] EXCEPT !.filled = q]
      <4>1. r \in Intent
        <5>1. intent[k] \in Intent /\ q \in Int
          BY <3>1, <3>2 DEF Types, Intent
        <5> HIDE DEF q
        <5> QED  BY <5>1 DEF Intent
      <4>2. intent' = [intent EXCEPT ![k] = r]
        BY <3>2
      <4> HIDE DEF r
      <4> QED  BY <3>2, <4>1, <4>2 DEF Types
    <3> QED  BY <2>4, <3>2 DEF Types
  <2> QED  BY <1>2, <2>3, <2>5, RowTypes DEF Import, exchange
<1>3. ASSUME Settle  PROVE Types'
  <2>1. \A k \in Key :
          [intent[k] EXCEPT !.state = "filled", !.reserved = 0] \in Intent
    <3>1. "filled" \in States /\ 0 \in Int
      BY DEF States, Final
    <3> QED  BY <3>1 DEF Types, Intent
  <2>2. intent' \in [Key -> Intent]
    BY <1>3, <2>1 DEF Settle, Types
  <2>3. call' \in CallRecord /\ call'.upTo <= call.upTo
    BY <1>3, AtTypes DEF Settle, Points
  <2> QED  BY <1>3, <2>2, <2>3, RowTypes DEF Settle, exchange
<1> QED  BY <1>1, <1>2, <1>3

\* What the exchange does to one order.
LEMMA TradeTypes ==
  ASSUME Types, NEW k \in Key, NEW lots \in Int, NEW status \in Statuses,
         Trade(k, lots, status)
  PROVE  /\ Types'
         /\ order' = [order EXCEPT ![k] = order'[k]]
         /\ order'[k].status = status
<1> DEFINE o == [status |-> status, traded |-> order[k].traded + lots,
                 expiresAfter |-> 0]
<1>1. o \in Order /\ o.status = status
  BY DEF Types, Order
<1>2. order' = [order EXCEPT ![k] = o]
  BY DEF Trade
<1> HIDE DEF o
<1>3. order' \in [Key -> Order] /\ order'[k] = o
  BY <1>1, <1>2 DEF Types
<1> DEFINE fill == [key |-> k, lots |-> lots]
<1>4. fill \in FillRecord
  BY DEF FillRecord
<1>5. fills' = fills \/ fills' = Append(fills, fill)
  BY DEF Trade
<1> HIDE DEF fill
<1>6. fills' \in Seq(FillRecord) /\ Len(fills) <= Len(fills')
  <2>1. fills \in Seq(FillRecord)
    BY DEF Types
  <2>2. Append(fills, fill) \in Seq(FillRecord)
        /\ Len(fills) <= Len(Append(fills, fill))
    BY <1>4, <2>1
  <2>3. Len(fills) \in Nat
    BY <2>1
  <2> QED  BY <1>5, <2>1, <2>2, <2>3
<1>7. pos' \in Int
  BY DEF Trade, Types
<1>8. call' = call /\ call.upTo <= Len(fills')
  BY <1>6 DEF Trade, Types, CallRecord
<1> QED  BY <1>1, <1>2, <1>3, <1>6, <1>7, <1>8 DEF Trade, Types, db

\* Each action of the exchange is a trade with a status.
LEMMA ExchangeTrades ==
  ASSUME Types, NEW k \in Key
  PROVE  /\ Arrive(k) => \E lots \in Int : \E s \in
                           {"open", "filled", "canceled"} :
              Trade(k, lots, s) /\ (s = "open" => Quoting)
         /\ Refuse(k) => Trade(k, 0, "refused")
         /\ \A n \in 1 .. Size : Fill(k, n) =>
              \E s \in {"open", "filled"} : Trade(k, n, s)
         /\ Cancel(k) => Trade(k, 0, "canceled")
<1>1. ASSUME Arrive(k)
      PROVE  \E lots \in Int : \E s \in {"open", "filled", "canceled"} :
               Trade(k, lots, s) /\ (s = "open" => Quoting)
  <2>1. CASE Quoting
    <3>1. Trade(k, 0, "open")
      BY <1>1, <2>1 DEF Arrive
    <3> QED  BY <2>1, <3>1
  <2>2. CASE ~Quoting
    <3>1. PICK lots \in 1 .. Size :
            Trade(k, lots, IF lots = Size THEN "filled" ELSE "canceled")
      BY <1>1, <2>2 DEF Arrive
    <3>2. lots \in Int
      BY IntentAssumption
    <3>3. CASE lots = Size
      BY <3>1, <3>2, <3>3
    <3>4. CASE lots # Size
      BY <3>1, <3>2, <3>4
    <3> QED  BY <3>3, <3>4
  <2> QED  BY <2>1, <2>2
<1>2. ASSUME NEW n \in 1 .. Size, Fill(k, n)
      PROVE  \E s \in {"open", "filled"} : Trade(k, n, s)
  <2>1. Trade(k, n, IF order[k].traded + n = Size THEN "filled" ELSE "open")
    BY <1>2 DEF Fill
  <2>2. CASE order[k].traded + n = Size
    BY <2>1, <2>2
  <2>3. CASE order[k].traded + n # Size
    BY <2>1, <2>3
  <2> QED  BY <2>2, <2>3
<1> QED  BY <1>1, <1>2 DEF Refuse, Cancel

\* The operator and the clock.
LEMMA OutsideTypes ==
  ASSUME Types
  PROVE  /\ \A lots \in {-1, 1} : ManualTrade(lots) => Types'
         /\ Tick => Types'
<1>1. ASSUME NEW lots \in {-1, 1}, ManualTrade(lots)  PROVE Types'
  <2> DEFINE fill == [key |-> Operator, lots |-> lots]
  <2>1. fill \in FillRecord
    BY DEF FillRecord
  <2>2. fills' = Append(fills, fill)
    BY <1>1 DEF ManualTrade
  <2> HIDE DEF fill
  <2>3. fills' \in Seq(FillRecord) /\ Len(fills) <= Len(fills')
    BY <2>1, <2>2 DEF Types
  <2>4. pos' \in Int
    BY <1>1 DEF ManualTrade, Types
  <2>5. call' = call /\ call.upTo <= Len(fills')
    BY <1>1, <2>3 DEF ManualTrade, Types, CallRecord
  <2> QED  BY <1>1, <2>3, <2>4, <2>5 DEF ManualTrade, Types, db
<1>2. Tick => Types'
  BY DEF Tick, Types, db, exchange
<1> QED  BY <1>1, <1>2

-----------------------------------------------------------------------------
(* What one order keeps *)

\* Rows and orders of which nothing that matters changes.
LEMMA KeyInvKept ==
  ASSUME NEW k \in Key, KeyInv(k), now' = now, order'[k] = order[k],
         posted'[k] = posted[k],
         intent'[k].state = intent[k].state,
         intent'[k].reserved = intent[k].reserved,
         intent'[k].createdAt = intent[k].createdAt
  PROVE  KeyInv(k)'
BY DEF KeyInv, NoRowNoOrder, PostedOnce, OpenCovered, FlightCovered

\* The row of an order that never was.
LEMMA UnsentKept ==
  ASSUME NEW k \in Key, KeyInv(k), order[k].status = "none",
         order'[k] = order[k], posted'[k] = posted[k]
  PROVE  KeyInv(k)'
BY DEF KeyInv, NoRowNoOrder, PostedOnce, OpenCovered, FlightCovered

\* The row of an order that is over.
LEMMA OverKept ==
  ASSUME NEW k \in Key, KeyInv(k),
         order[k].status \in {"filled", "canceled", "refused"},
         order'[k] = order[k], posted'[k] = posted[k],
         intent'[k].state # "none"
  PROVE  KeyInv(k)'
BY DEF KeyInv, NoRowNoOrder, PostedOnce, OpenCovered, FlightCovered

\* A sync changes the row of an order only by what the exchange says of it.
LEMMA SyncKeeps ==
  ASSUME Types, NEW j \in Key, KeyInv(j)
  PROVE  /\ \A k \in Key : ReadStatus(k) => KeyInv(j)'
         /\ Import => KeyInv(j)'
         /\ Settle => KeyInv(j)'
<1>1. ASSUME NEW k \in Key, ReadStatus(k)  PROVE KeyInv(j)'
  <2>1. UNCHANGED <<now, order, posted>>
    BY <1>1 DEF ReadStatus, exchange
  <2>2. CASE j # k \/ ~Recorded(k)
    <3>1. intent'[j] = intent[j]
      BY <1>1, <2>2 DEF ReadStatus, Recorded, Types
    <3> QED  BY <2>1, <3>1, KeyInvKept
  <2>3. CASE j = k /\ order[k].status = "open"
    <3>1. /\ intent'[k].state = "working"
          /\ intent'[k].reserved = intent[k].reserved
      BY <1>1, <2>3 DEF ReadStatus, Recorded, Types, Intent
    <3> QED  BY <2>1, <2>3, <3>1
             DEF KeyInv, NoRowNoOrder, PostedOnce, OpenCovered, FlightCovered,
                 Live
  <2>4. CASE j = k /\ order[k].status = "filled"
    <3>1. intent'[k].state = "settling"
      BY <1>1, <2>4 DEF ReadStatus, Recorded, Types, Intent
    <3> QED  BY <2>1, <2>4, <3>1, OverKept
  <2>5. CASE j = k /\ order[k].status = "canceled"
    <3>1. intent'[k].state = "terminal"
      <4>1. intent' = [intent EXCEPT ![k].state = "terminal",
                                     ![k].reserved = 0]
        BY <1>1, <2>5 DEF ReadStatus, Recorded
      <4> QED  BY <4>1 DEF Types, Intent
    <3> QED  BY <2>1, <2>5, <3>1, OverKept
  <2> QED  BY <2>2, <2>3, <2>4, <2>5 DEF Recorded
<1>2. ASSUME Import  PROVE KeyInv(j)'
  <2>1. UNCHANGED <<now, order, posted>>
    BY <1>2 DEF Import, exchange
  <2>2. \/ intent' = intent
        \/ \E k \in Key : \E q : intent' = [intent EXCEPT ![k].filled = q]
    <3> DEFINE k == fills[call.next].key
               lots == fills[call.next].lots
    <3>1. \/ intent' = intent
          \/ k \in Key /\ intent' =
               [intent EXCEPT ![k].filled = intent[k].filled + lots]
      BY <1>2 DEF Import
    <3> QED  BY <3>1
  <2>3. /\ intent'[j].state = intent[j].state
        /\ intent'[j].reserved = intent[j].reserved
        /\ intent'[j].createdAt = intent[j].createdAt
    BY <2>2 DEF Types, Intent
  <2> QED  BY <2>1, <2>3, KeyInvKept
<1>3. ASSUME Settle  PROVE KeyInv(j)'
  <2>1. UNCHANGED <<now, order, posted>>
    BY <1>3 DEF Settle, exchange
  <2>2. CASE intent'[j] = intent[j]
    BY <2>1, <2>2, KeyInvKept
  <2>3. CASE intent[j].state = "settling" /\ intent'[j].state = "filled"
    <3>1. order[j].status \notin {"none", "flight", "open"}
          \/ (order[j].status = "flight" /\ now > order[j].expiresAfter)
          \/ order[j].status = "none"
      BY <2>3 DEF KeyInv, OpenCovered, FlightCovered
    <3>2. intent'[j].createdAt = intent[j].createdAt
      BY <1>3 DEF Settle, Types, Intent
    <3> QED  BY <2>1, <2>3, <3>1, <3>2
             DEF KeyInv, NoRowNoOrder, PostedOnce, OpenCovered, FlightCovered
  <2>4. \/ intent'[j] = intent[j]
        \/ intent[j].state = "settling" /\ intent'[j].state = "filled"
    BY <1>3 DEF Settle, Types, Intent
  <2> QED  BY <2>2, <2>3, <2>4
<1> QED  BY <1>1, <1>2, <1>3

\* A submission changes the row of its own key: before the POST there is no
\* order, and after it only the answer writes the order off.
LEMMA SubmissionKeeps ==
  ASSUME Types, SubmitInv, NEW k \in Key, NEW j \in Key, KeyInv(j)
  PROVE  /\ Draft(k) => KeyInv(j)'
         /\ Dispatch(k) => KeyInv(j)'
         /\ FailBeforeDispatch(k) => KeyInv(j)'
         /\ \A childError \in BOOLEAN :
              Acknowledge(k, childError) => KeyInv(j)'
         /\ LoseAnswer(k) => KeyInv(j)'
<1>1. ASSUME Draft(k)  PROVE KeyInv(j)'
  <2>1. UNCHANGED <<now, order, posted>>
    BY <1>1 DEF Draft, exchange
  <2>2. order[k].status = "none"
    BY <1>1 DEF Draft, SubmitInv, Submitting
  <2>3. CASE j = k
    BY <2>1, <2>2, <2>3, UnsentKept
  <2>4. CASE j # k
    <3>1. intent'[j] = intent[j]
      BY <1>1, <2>4 DEF Draft, Types
    <3> QED  BY <2>1, <3>1, KeyInvKept
  <2> QED  BY <2>3, <2>4
<1>2. ASSUME Dispatch(k)  PROVE KeyInv(j)'
  <2>1. /\ order[k].status = "none"
        /\ intent[k].state = "submitting"
        /\ intent[k].reserved = Size
        /\ now <= intent[k].createdAt + Patience
    BY <1>2 DEF Dispatch, Drafted, SubmitInv, Submitting
  <2>2. CASE ~Acceptable(k)
    <3>1. UNCHANGED <<now, order, posted>>
          /\ intent' = [intent EXCEPT ![k].state = "rejected",
                                      ![k].reserved = 0]
      BY <1>2, <2>2 DEF Dispatch, Reject
    <3>2. CASE j = k
      BY <2>1, <3>1, <3>2, UnsentKept
    <3>3. CASE j # k
      <4>1. intent'[j] = intent[j]
        BY <3>1, <3>3 DEF Types
      <4> QED  BY <3>1, <4>1, KeyInvKept
    <3> QED  BY <3>2, <3>3
  <2>3. CASE Acceptable(k)
    <3>1. /\ order' = [order EXCEPT ![k] = [status |-> "flight", traded |-> 0,
                                            expiresAfter |-> now + Window]]
          /\ posted' = [posted EXCEPT ![k] = @ + 1]
          /\ now' = now /\ intent' = intent
      BY <1>2, <2>3 DEF Dispatch
    <3>2. CASE j = k
      <4>1. /\ order'[k].status = "flight"
            /\ order'[k].expiresAfter = now + Window
        BY <3>1 DEF Types
      <4>2. posted'[k] = 1
        BY <2>1, <3>1, <3>2 DEF Types, KeyInv, PostedOnce
      <4>3. intent[k].createdAt \in Nat /\ now \in Nat
        BY DEF Types, Intent
      <4>4. now + Window <= intent[k].createdAt + Patience + Window
        BY <2>1, <4>3, IntentAssumption
      <4> QED  BY <2>1, <3>1, <3>2, <4>1, <4>2, <4>4
               DEF KeyInv, NoRowNoOrder, PostedOnce, OpenCovered, FlightCovered
    <3>3. CASE j # k
      <4>1. order'[j] = order[j] /\ posted'[j] = posted[j]
        BY <3>1, <3>3 DEF Types
      <4> QED  BY <3>1, <4>1, KeyInvKept
    <3> QED  BY <3>2, <3>3
  <2> QED  BY <2>2, <2>3
<1>3. ASSUME FailBeforeDispatch(k)  PROVE KeyInv(j)'
  <2>1. UNCHANGED <<now, order, posted>>
        /\ intent' = [intent EXCEPT ![k].state = "rejected", ![k].reserved = 0]
    BY <1>3 DEF FailBeforeDispatch, Reject, exchange
  <2>2. order[k].status = "none"
    BY <1>3 DEF FailBeforeDispatch, Drafted, SubmitInv, Submitting
  <2>3. CASE j = k
    BY <2>1, <2>2, <2>3, UnsentKept
  <2>4. CASE j # k
    <3>1. intent'[j] = intent[j]
      BY <2>1, <2>4 DEF Types
    <3> QED  BY <2>1, <3>1, KeyInvKept
  <2> QED  BY <2>3, <2>4
<1>4. ASSUME NEW childError \in BOOLEAN, Acknowledge(k, childError)
      PROVE  KeyInv(j)'
  <2>1. UNCHANGED <<now, order, posted>> /\ order[k].status # "flight"
    BY <1>4 DEF Acknowledge, exchange
  <2>2. CASE j # k
    <3>1. intent'[j] = intent[j]
      BY <1>4, <2>2 DEF Acknowledge, Types
    <3> QED  BY <2>1, <3>1, KeyInvKept
  <2>3. CASE j = k /\ order[k].status = "open"
    <3>1. Quoting
      BY <2>3 DEF KeyInv, OpenCovered
    <3>2. intent' = [intent EXCEPT ![k].state = "working"]
      BY <1>4, <2>3, <3>1 DEF Acknowledge
    <3>3. /\ intent'[k].state = "working"
          /\ intent'[k].reserved = intent[k].reserved
      BY <3>2 DEF Types, Intent
    <3> QED  BY <2>1, <2>3, <3>1, <3>3
             DEF KeyInv, NoRowNoOrder, PostedOnce, OpenCovered, FlightCovered,
                 Live
  <2>4. CASE j = k /\ order[k].status = "none"
    BY <2>1, <2>4, UnsentKept
  <2>5. CASE j = k /\ order[k].status \in {"filled", "canceled", "refused"}
    <3>1. \/ intent' = [intent EXCEPT ![k].state = "blocked"]
          \/ intent' = [intent EXCEPT ![k].state = "rejected",
                                      ![k].reserved = 0]
          \/ intent' = [intent EXCEPT ![k].state =
                          IF Quoting THEN "working" ELSE "settling"]
      BY <1>4 DEF Acknowledge
    <3>2. intent'[k].state # "none"
      BY <3>1 DEF Types, Intent
    <3> QED  BY <2>1, <2>5, <3>2, OverKept
  <2>6. order[k].status \in Statuses
    BY DEF Types, Order
  <2> QED  BY <2>1, <2>2, <2>3, <2>4, <2>5, <2>6 DEF Statuses
<1>5. ASSUME LoseAnswer(k)  PROVE KeyInv(j)'
  <2>1. UNCHANGED <<now, order, posted>>
        /\ intent' = [intent EXCEPT ![k].state = "unknown"]
    BY <1>5 DEF LoseAnswer, Uncertain, exchange
  <2>2. CASE j # k
    <3>1. intent'[j] = intent[j]
      BY <2>1, <2>2 DEF Types
    <3> QED  BY <2>1, <3>1, KeyInvKept
  <2>3. CASE j = k
    <3>1. /\ intent'[k].state = "unknown"
          /\ intent'[k].reserved = intent[k].reserved
          /\ intent'[k].createdAt = intent[k].createdAt
      BY <2>1 DEF Types, Intent
    <3> QED  BY <2>1, <2>3, <3>1
             DEF KeyInv, NoRowNoOrder, PostedOnce, OpenCovered, FlightCovered,
                 Live
  <2> QED  BY <2>2, <2>3
<1> QED  BY <1>1, <1>2, <1>3, <1>4, <1>5

\* By the time an abandoned order is released it can no longer arrive.
LEMMA ReleaseKeeps ==
  ASSUME Types, AbandonInv, ReleaseInv, NEW k \in Key, NEW j \in Key,
         KeyInv(j), ReleaseReservation(k)
  PROVE  KeyInv(j)'
<1>1. UNCHANGED <<now, order, posted>>
      /\ intent' = [intent EXCEPT ![k].state = "abandoned", ![k].reserved = 0]
  BY DEF ReleaseReservation, exchange
<1>2. CASE j # k
  <2>1. intent'[j] = intent[j]
    BY <1>1, <1>2 DEF Types
  <2> QED  BY <1>1, <2>1, KeyInvKept
<1>3. CASE j = k
  <2>1. intent'[k].state = "abandoned"
        /\ intent'[k].createdAt = intent[k].createdAt
    BY <1>1 DEF Types, Intent
  <2>2. order[k].status # "open"
    BY DEF ReleaseReservation, ReleaseInv, Recorded
  <2>3. order[k].status = "flight" => now > order[k].expiresAfter
    <3>1. /\ intent[k].createdAt \in Nat
          /\ now \in Nat
          /\ order[k].expiresAfter \in Nat
          /\ {Patience, Window, AbandonAge} \subseteq Nat
      BY IntentAssumption DEF Types, Intent, Order
    <3>2. intent[k].createdAt + AbandonAge <= now
      BY DEF ReleaseReservation, AbandonInv
    <3>3. order[k].status = "flight" =>
            order[k].expiresAfter <= intent[k].createdAt + Patience + Window
      BY <1>3 DEF KeyInv, FlightCovered
    <3> QED  BY <3>1, <3>2, <3>3, PatienceAssumption
  <2> QED  BY <1>1, <1>3, <2>1, <2>2, <2>3
           DEF KeyInv, NoRowNoOrder, PostedOnce, OpenCovered, FlightCovered
<1> QED  BY <1>2, <1>3

\* The exchange rests an order only in time, and only a quote.
LEMMA ExchangeKeeps ==
  ASSUME Types, NEW k \in Key, NEW j \in Key, KeyInv(j)
  PROVE  /\ Arrive(k) => KeyInv(j)'
         /\ Refuse(k) => KeyInv(j)'
         /\ \A lots \in 1 .. Size : Fill(k, lots) => KeyInv(j)'
         /\ Cancel(k) => KeyInv(j)'
<1>1. ASSUME NEW lots \in Int, NEW s \in Statuses \ {"flight", "none"},
             Trade(k, lots, s), order[k].status # "none",
             s = "open" => /\ Quoting
                           /\ intent[k].state \in Live \ {"settling"}
                           /\ intent[k].reserved = Size
      PROVE  KeyInv(j)'
  <2>1. UNCHANGED <<now, intent, posted>>
    BY <1>1 DEF Trade, db
  <2>2. order' = [order EXCEPT ![k] = order'[k]] /\ order'[k].status = s
    BY <1>1, TradeTypes
  <2>3. CASE j # k
    <3>1. order'[j] = order[j]
      BY <2>2, <2>3 DEF Types
    <3> QED  BY <2>1, <3>1, KeyInvKept
  <2>4. CASE j = k
    BY <1>1, <2>1, <2>2, <2>4
    DEF KeyInv, NoRowNoOrder, PostedOnce, OpenCovered, FlightCovered
  <2> QED  BY <2>3, <2>4
<1>2. ASSUME Arrive(k)  PROVE KeyInv(j)'
  <2>1. PICK lots \in Int, s \in {"open", "filled", "canceled"} :
          Trade(k, lots, s) /\ (s = "open" => Quoting)
    BY <1>2, ExchangeTrades
  <2>2. CASE j # k
    <3>1. UNCHANGED <<now, intent, posted>> /\ order'[j] = order[j]
      BY <2>1, <2>2 DEF Trade, db, Types
    <3> QED  BY <3>1, KeyInvKept
  <2>3. CASE j = k
    <3>1. intent[k].state \in Live \ {"settling"} /\ intent[k].reserved = Size
      <4>1. order[k].status = "flight" /\ ~(now > order[k].expiresAfter)
        BY <1>2 DEF Arrive, Types, Order
      <4> QED  BY <2>3, <4>1 DEF KeyInv, FlightCovered, Live
    <3>2. order[k].status # "none" /\ s \in Statuses \ {"flight", "none"}
      BY <1>2 DEF Arrive, Statuses
    <3> QED  BY <1>1, <2>1, <3>1, <3>2
  <2> QED  BY <2>2, <2>3
<1>3. Refuse(k) => KeyInv(j)'
  BY <1>1, ExchangeTrades DEF Refuse, Statuses
<1>4. Cancel(k) => KeyInv(j)'
  BY <1>1, ExchangeTrades DEF Cancel, Statuses
<1>5. ASSUME NEW lots \in 1 .. Size, Fill(k, lots)  PROVE KeyInv(j)'
  <2>1. PICK s \in {"open", "filled"} : Trade(k, lots, s)
    BY <1>5, ExchangeTrades
  <2>2. lots \in Int
    BY IntentAssumption
  <2>3. CASE j # k
    <3>1. UNCHANGED <<now, intent, posted>> /\ order'[j] = order[j]
      BY <2>1, <2>3 DEF Trade, db, Types
    <3> QED  BY <3>1, KeyInvKept
  <2>4. CASE j = k
    <3>1. order[k].status = "open"
      BY <1>5 DEF Fill
    <3>2. /\ Quoting
          /\ intent[k].state \in Live \ {"settling"}
          /\ intent[k].reserved = Size
      BY <2>4, <3>1 DEF KeyInv, OpenCovered
    <3> QED  BY <1>1, <2>1, <2>2, <3>1, <3>2 DEF Statuses
  <2> QED  BY <2>3, <2>4
<1> QED  BY <1>2, <1>3, <1>4, <1>5

\* Time only makes an order under way too late.
LEMMA TickKeeps ==
  ASSUME Types, NEW j \in Key, KeyInv(j), Tick
  PROVE  KeyInv(j)'
<1>1. UNCHANGED <<intent, order, posted>> /\ now' = now + 1
  BY DEF Tick, db, exchange
<1>2. now \in Nat /\ order[j].expiresAfter \in Nat
  BY DEF Types, Order
<1> QED  BY <1>1, <1>2
         DEF KeyInv, NoRowNoOrder, PostedOnce, OpenCovered, FlightCovered

-----------------------------------------------------------------------------
(* What the call under way relies on *)

CallInv == SubmitInv /\ AbandonInv /\ ReleaseInv

\* No call relies on nothing.
LEMMA IdleInv == ASSUME call' = Idle  PROVE CallInv'
BY DEF CallInv, SubmitInv, AbandonInv, ReleaseInv, Submitting, Idle

\* A call goes on, and its own row stays as it was.
LEMMA AdvanceInv ==
  ASSUME CallInv, call.at # "ack", call'.at # "release",
         call'.task = call.task, call'.key = call.key,
         UNCHANGED <<now, order>>,
         call.task \in {"submit", "abandon"} =>
           /\ intent'[call.key].state = intent[call.key].state
              \/ call.task = "abandon"
           /\ intent'[call.key].reserved = intent[call.key].reserved
              \/ call.task = "abandon"
           /\ intent'[call.key].createdAt = intent[call.key].createdAt
  PROVE  CallInv'
<1>1. SubmitInv'
  BY DEF CallInv, SubmitInv, Submitting
<1>2. AbandonInv'
  BY DEF CallInv, AbandonInv
<1>3. ReleaseInv'
  BY DEF ReleaseInv
<1> QED  BY <1>1, <1>2, <1>3 DEF CallInv

\* Calls begin and crash.
LEMMA CallsInv ==
  ASSUME Types
  PROVE  /\ Reconcile \/ AskHandover \/ Crash => CallInv'
         /\ \A k \in Key : KeyInv(k) /\ Submit(k) => CallInv'
         /\ \A k \in Key : Abandon(k) => CallInv'
<1>1. Reconcile => CallInv'
  BY DEF Reconcile, Start, Idle, CallInv, SubmitInv, AbandonInv, ReleaseInv,
         Submitting
<1>2. AskHandover => CallInv'
  BY DEF AskHandover, Start, Idle, CallInv, SubmitInv, AbandonInv, ReleaseInv,
         Submitting
<1>3. Crash => CallInv'
  BY DEF Crash, Dead, Idle, CallInv, SubmitInv, AbandonInv, ReleaseInv,
         Submitting
<1>4. ASSUME NEW k \in Key, KeyInv(k), Submit(k)  PROVE CallInv'
  <2>1. call'.task = "submit" /\ call'.key = k /\ call'.at = "fetch"
    BY <1>4 DEF Submit, Start, Idle
  <2>2. intent[k].state = "none" /\ order[k].status = "none"
    BY <1>4 DEF Submit, Known, KeyInv, NoRowNoOrder
  <2> QED  BY <1>4, <2>1, <2>2
           DEF Submit, CallInv, SubmitInv, AbandonInv, ReleaseInv, Submitting,
               db, exchange
<1>5. ASSUME NEW k \in Key, Abandon(k)  PROVE CallInv'
  <2>1. call'.task = "abandon" /\ call'.key = k /\ call'.at = "fetch"
    BY <1>5 DEF Abandon, Start, Idle
  <2> QED  BY <1>5, <2>1
           DEF Abandon, OldEnough, CallInv, SubmitInv, AbandonInv, ReleaseInv,
               Submitting, db, exchange
<1> QED  BY <1>1, <1>2, <1>3, <1>4, <1>5

\* The sync of a call leaves the row of an order that was never sent alone.
LEMMA SyncInv ==
  ASSUME Types, CallInv
  PROVE  /\ \A from \in 1 .. lastSync + 1 : Fetch(from) => CallInv'
         /\ \A k \in Key : ReadStatus(k) => CallInv'
         /\ ReadAccount \/ Import \/ Settle \/ Compare => CallInv'
<1>1. ASSUME NEW from \in 1 .. lastSync + 1, Fetch(from)  PROVE CallInv'
  BY <1>1, AdvanceInv DEF Fetch, db, exchange, Types, CallRecord
<1>2. ASSUME ReadAccount  PROVE CallInv'
  BY <1>2, AdvanceInv DEF ReadAccount, db, exchange, Types, CallRecord
<1>3. ASSUME NEW k \in Key, ReadStatus(k)  PROVE CallInv'
  <2>1. /\ call.at = "status" /\ call'.at = "status"
        /\ call'.task = call.task /\ call'.key = call.key
        /\ UNCHANGED <<now, order>>
    BY <1>3 DEF ReadStatus, exchange, Types, CallRecord
  <2>2. ASSUME call.task = "submit"
        PROVE  intent'[call.key] = intent[call.key]
    <3>1. call.key \in Key /\ ~Recorded(call.key)
      BY <2>1, <2>2 DEF CallInv, SubmitInv, Submitting, Recorded
    <3> QED  BY <1>3, <3>1 DEF ReadStatus, Recorded, Types
  <2>3. ASSUME call.task = "abandon"
        PROVE  intent'[call.key].createdAt = intent[call.key].createdAt
    <3>1. call.key \in Key
      BY <2>3 DEF CallInv, AbandonInv
    <3>2. CASE ~Recorded(k)
      BY <1>3, <3>2 DEF ReadStatus, Recorded
    <3>3. CASE Recorded(k)
      <4>1. \/ \E s : intent' = [intent EXCEPT ![k].state = s]
            \/ intent' = [intent EXCEPT ![k].state = "terminal",
                                        ![k].reserved = 0]
        BY <1>3, <3>3 DEF ReadStatus, Recorded
      <4>2. CASE \E s : intent' = [intent EXCEPT ![k].state = s]
        BY <3>1, <4>2 DEF Types, Intent
      <4>3. CASE intent' = [intent EXCEPT ![k].state = "terminal",
                                          ![k].reserved = 0]
        BY <3>1, <4>3 DEF Types, Intent
      <4> QED  BY <4>1, <4>2, <4>3
    <3> QED  BY <3>2, <3>3
  <2> QED  BY <2>1, <2>2, <2>3, AdvanceInv
<1>4. ASSUME Import  PROVE CallInv'
  <2>1. /\ call.at = "import" /\ call'.at = "import"
        /\ call'.task = call.task /\ call'.key = call.key
        /\ UNCHANGED <<now, order>>
    BY <1>4 DEF Import, exchange, Types, CallRecord
  <2>2. \/ intent' = intent
        \/ \E k \in Key : \E q : intent' = [intent EXCEPT ![k].filled = q]
    <3> DEFINE k == fills[call.next].key
               lots == fills[call.next].lots
    <3>1. \/ intent' = intent
          \/ k \in Key /\ intent' =
               [intent EXCEPT ![k].filled = intent[k].filled + lots]
      BY <1>4 DEF Import
    <3> QED  BY <3>1
  <2>3. \A j \in Key : /\ intent'[j].state = intent[j].state
                       /\ intent'[j].reserved = intent[j].reserved
                       /\ intent'[j].createdAt = intent[j].createdAt
    BY <2>2 DEF Types, Intent
  <2>4. call.task \in {"submit", "abandon"} => call.key \in Key
    BY <2>1 DEF CallInv, SubmitInv, AbandonInv, Submitting
  <2> QED  BY <2>1, <2>3, <2>4, AdvanceInv
<1>5. ASSUME Settle  PROVE CallInv'
  <2>1. /\ call.at = "import" /\ call'.at = "compare"
        /\ call'.task = call.task /\ call'.key = call.key
        /\ UNCHANGED <<now, order>>
    BY <1>5 DEF Settle, exchange, Types, CallRecord
  <2>2. call.task = "submit" => intent'[call.key] = intent[call.key]
    BY <1>5, <2>1 DEF Settle, CallInv, SubmitInv, Submitting
  <2>3. call.task = "abandon" =>
          intent'[call.key].createdAt = intent[call.key].createdAt
    BY <1>5 DEF Settle, CallInv, AbandonInv, Types, Intent
  <2> QED  BY <2>1, <2>2, <2>3, AdvanceInv
<1>6. ASSUME Compare  PROVE CallInv'
  <2>1. CASE call' = Idle
    BY <2>1, IdleInv
  <2>2. CASE call' = [call EXCEPT !.at = "synced"]
    BY <1>6, <2>2, AdvanceInv DEF Compare, exchange, Types, CallRecord
  <2> QED  BY <1>6, <2>1, <2>2 DEF Compare
<1> QED  BY <1>1, <1>2, <1>3, <1>4, <1>5, <1>6

\* The steps of a submission, an abandonment and an adoption.
LEMMA WriteInv ==
  ASSUME Types, CallInv
  PROVE  /\ \A k \in Key :
              /\ Draft(k) \/ Dispatch(k) \/ FailBeforeDispatch(k) => CallInv'
              /\ \A childError \in BOOLEAN :
                   Acknowledge(k, childError) => CallInv'
              /\ LoseAnswer(k) \/ Verify(k) => CallInv'
              /\ ReleaseReservation(k) => CallInv'
         /\ Adopt => CallInv'
<1>1. ASSUME NEW k \in Key, Draft(k)  PROVE CallInv'
  <2>1. CASE ~Acceptable(k)
    BY <1>1, <2>1, IdleInv DEF Draft
  <2>2. CASE Acceptable(k)
    <3>1. /\ call'.task = "submit" /\ call'.key = k /\ call'.at = "fetch"
          /\ UNCHANGED <<now, order>>
      BY <1>1, <2>2 DEF Draft, exchange, Types, CallRecord
    <3>2. intent'[k].reserved = Size /\ intent'[k].createdAt = now
          /\ intent'[k].state = "submitting"
      BY <1>1, <2>2 DEF Draft, Types
    <3>3. order[k].status = "none"
      BY <1>1 DEF Draft, CallInv, SubmitInv, Submitting
    <3>4. now <= now + Patience
      BY IntentAssumption DEF Types
    <3> QED  BY <3>1, <3>2, <3>3, <3>4
             DEF CallInv, SubmitInv, AbandonInv, ReleaseInv, Submitting
  <2> QED  BY <2>1, <2>2
<1>2. ASSUME NEW k \in Key, Dispatch(k)  PROVE CallInv'
  <2>1. CASE ~Acceptable(k)
    BY <1>2, <2>1, IdleInv DEF Dispatch, Reject
  <2>2. CASE Acceptable(k)
    <3>1. call'.task = "submit" /\ call'.at = "ack"
      BY <1>2, <2>2 DEF Dispatch, Types, CallRecord
    <3> QED  BY <3>1 DEF CallInv, SubmitInv, AbandonInv, ReleaseInv, Submitting
  <2> QED  BY <2>1, <2>2
<1>3. ASSUME NEW k \in Key, Verify(k)  PROVE CallInv'
  <2>1. CASE call' = Idle
    BY <2>1, IdleInv
  <2>2. CASE call' # Idle
    <3>1. /\ call'.task = "abandon" /\ call'.key = k /\ call.key = k
          /\ call.task = "abandon" /\ ~Recorded(k)
          /\ UNCHANGED <<now, intent, order>>
      BY <1>3, <2>2 DEF Verify, db, exchange, Types, CallRecord
    <3> QED  BY <3>1
             DEF CallInv, SubmitInv, AbandonInv, ReleaseInv, Submitting,
                 Recorded
  <2> QED  BY <2>1, <2>2
<1>4. ASSUME NEW k \in Key,
             \/ FailBeforeDispatch(k) \/ LoseAnswer(k) \/ ReleaseReservation(k)
             \/ \E childError \in BOOLEAN : Acknowledge(k, childError)
      PROVE  CallInv'
  <2>1. call' = Idle
    BY <1>4 DEF FailBeforeDispatch, Reject, LoseAnswer, ReleaseReservation,
                Acknowledge
  <2> QED  BY <2>1, IdleInv
<1>5. Adopt => CallInv'
  BY IdleInv DEF Adopt
<1> QED  BY <1>1, <1>2, <1>3, <1>4, <1>5

\* Nothing outside the call touches what it relies on: the exchange acts on
\* orders that were sent, and a release is asked for after their time.
LEMMA OutsideInv ==
  ASSUME Types, CallInv, \A k \in Key : KeyInv(k)
  PROVE  /\ \A k \in Key :
              /\ Arrive(k) \/ Refuse(k) \/ Cancel(k) => CallInv'
              /\ \A lots \in 1 .. Size : Fill(k, lots) => CallInv'
         /\ \A lots \in {-1, 1} : ManualTrade(lots) => CallInv'
         /\ Tick => CallInv'
<1>1. ASSUME NEW k \in Key, NEW lots \in Int, NEW s \in Statuses,
             Trade(k, lots, s), order[k].status # "none",
             call.at = "release" /\ call.key = k => s = "refused"
      PROVE  CallInv'
  <2>1. UNCHANGED <<now, intent, call>>
    BY <1>1 DEF Trade, db
  <2>2. order' = [order EXCEPT ![k] = order'[k]] /\ order'[k].status = s
    BY <1>1, TradeTypes
  <2>3. \A j \in Key \ {k} : order'[j] = order[j]
    BY <2>2 DEF Types
  <2>4. SubmitInv'
    BY <1>1, <2>1, <2>3 DEF CallInv, SubmitInv, Submitting
  <2>5. AbandonInv'
    BY <2>1 DEF CallInv, AbandonInv
  <2>6. ReleaseInv'
    <3>1. CASE call.at # "release"
      BY <2>1, <3>1 DEF ReleaseInv
    <3>2. CASE call.at = "release" /\ call.key = k
      BY <1>1, <2>1, <2>2, <3>2 DEF CallInv, ReleaseInv, Recorded
    <3>3. CASE call.at = "release" /\ call.key # k
      BY <2>1, <2>3, <3>3 DEF CallInv, ReleaseInv, AbandonInv, Recorded
    <3> QED  BY <3>1, <3>2, <3>3
  <2> QED  BY <2>4, <2>5, <2>6 DEF CallInv
<1>2. ASSUME NEW k \in Key, Arrive(k)  PROVE CallInv'
  <2>1. PICK lots \in Int, s \in {"open", "filled", "canceled"} :
          Trade(k, lots, s)
    BY <1>2, ExchangeTrades
  <2>2. ~(call.at = "release" /\ call.key = k)
    <3> SUFFICES ASSUME call.at = "release", call.key = k  PROVE FALSE
      OBVIOUS
    <3>1. intent[k].createdAt + AbandonAge <= now
      BY DEF CallInv, ReleaseInv, AbandonInv
    <3>2. order[k].status = "flight" /\ now <= order[k].expiresAfter
      BY <1>2 DEF Arrive
    <3>3. order[k].expiresAfter <= intent[k].createdAt + Patience + Window
      BY <3>2 DEF KeyInv, FlightCovered
    <3>4. /\ intent[k].createdAt \in Nat
          /\ now \in Nat
          /\ order[k].expiresAfter \in Nat
          /\ {Patience, Window, AbandonAge} \subseteq Nat
      BY IntentAssumption DEF Types, Intent, Order
    <3> QED  BY <3>1, <3>2, <3>3, <3>4, PatienceAssumption
  <2>3. s \in Statuses /\ order[k].status # "none"
    BY <1>2 DEF Arrive, Statuses
  <2> QED  BY <1>1, <2>1, <2>2, <2>3
<1>3. ASSUME NEW k \in Key, Refuse(k)  PROVE CallInv'
  BY <1>1, <1>3, ExchangeTrades DEF Refuse, Statuses
<1>4. ASSUME NEW k \in Key, order[k].status = "open"
      PROVE  ~(call.at = "release" /\ call.key = k)
  BY <1>4 DEF CallInv, ReleaseInv, Recorded
<1>5. ASSUME NEW k \in Key, Cancel(k)  PROVE CallInv'
  <2>1. order[k].status = "open"
    BY <1>5 DEF Cancel
  <2> QED  BY <1>1, <1>4, <1>5, <2>1, ExchangeTrades DEF Statuses
<1>6. ASSUME NEW k \in Key, NEW lots \in 1 .. Size, Fill(k, lots)
      PROVE  CallInv'
  <2>1. order[k].status = "open"
    BY <1>6 DEF Fill
  <2>2. PICK s \in {"open", "filled"} : Trade(k, lots, s)
    BY <1>6, ExchangeTrades
  <2>3. lots \in Int
    BY IntentAssumption
  <2> QED  BY <1>1, <1>4, <2>1, <2>2, <2>3 DEF Statuses
<1>7. ASSUME NEW lots \in {-1, 1}, ManualTrade(lots)  PROVE CallInv'
  BY <1>7 DEF ManualTrade, db, CallInv, SubmitInv, AbandonInv, ReleaseInv,
              Submitting, Recorded
<1>8. ASSUME Tick  PROVE CallInv'
  <2>1. UNCHANGED <<intent, order, call>> /\ now' = now + 1 /\ now \in Nat
    BY <1>8 DEF Tick, db, exchange, Types
  <2>2. SubmitInv'
    <3> SUFFICES ASSUME Submitting', intent'[call'.key].state = "submitting"
        PROVE  now' <= intent[call.key].createdAt + Patience
      BY <2>1 DEF CallInv, SubmitInv, Submitting
    <3>1. Drafted /\ call.at # "ack" /\ call.key \in Key
      BY <2>1 DEF Submitting, Drafted, CallInv, SubmitInv
    <3>2. now < intent[call.key].createdAt + Patience
      BY <1>8, <3>1 DEF Tick
    <3>3. intent[call.key].createdAt \in Nat /\ Patience \in Nat
      BY <3>1, IntentAssumption DEF Types, Intent
    <3> QED  BY <2>1, <3>2, <3>3
  <2>3. AbandonInv'
    <3>1. call.key \in Key => intent[call.key].createdAt \in Nat
      BY DEF Types, Intent
    <3> QED  BY <2>1, <3>1, IntentAssumption DEF CallInv, AbandonInv
  <2>4. ReleaseInv'
    BY <2>1 DEF CallInv, ReleaseInv, Recorded
  <2> QED  BY <2>2, <2>3, <2>4 DEF CallInv
<1> QED  BY <1>2, <1>3, <1>5, <1>6, <1>7, <1>8

-----------------------------------------------------------------------------
(* The theorems *)

\* IInv holds at the start: there are no rows and no orders.
LEMMA IInvInit == Init => IInv
<1> SUFFICES ASSUME Init  PROVE IInv
  OBVIOUS
<1>1. Types
  BY TypesInit
<1>2. SubmitInv /\ AbandonInv /\ ReleaseInv
  BY DEF Init, Idle, SubmitInv, AbandonInv, ReleaseInv, Submitting
<1>3. ASSUME NEW k \in Key  PROVE KeyInv(k)
  BY <1>3 DEF Init, NoIntent, NoOrder, KeyInv, NoRowNoOrder, PostedOnce,
              OpenCovered, FlightCovered
<1> QED  BY <1>1, <1>2, <1>3 DEF IInv

\* Every step keeps the types.
LEMMA TypesNext == ASSUME Types, Next  PROVE Types'
<1>1. CASE Reconcile \/ AskHandover \/ Crash
  BY <1>1, CallsTypes
<1>2. CASE Tick
  BY <1>2, OutsideTypes
<1>3. CASE \E from \in 1 .. lastSync + 1 : Fetch(from)
  BY <1>3, ReadTypes
<1>4. CASE \E k \in Key : ReadStatus(k)
  BY <1>4, SyncTypes
<1>5. CASE ReadAccount \/ Import \/ Settle \/ Compare \/ Adopt
  BY <1>5, SyncTypes, ReadTypes
<1>6. ASSUME NEW k \in Key,
             \/ Draft(k) \/ Dispatch(k) \/ FailBeforeDispatch(k)
             \/ \E childError \in BOOLEAN : Acknowledge(k, childError)
             \/ LoseAnswer(k) \/ Verify(k) \/ ReleaseReservation(k)
      PROVE  Types'
  BY <1>6, DraftTypes, DispatchTypes, AnswerTypes, ReadTypes
<1>7. ASSUME NEW k \in Key, Submit(k) \/ Abandon(k)  PROVE Types'
  BY <1>7, CallsTypes
<1>8. ASSUME NEW k \in Key,
             \/ Arrive(k) \/ Refuse(k) \/ Cancel(k)
             \/ \E lots \in 1 .. Size : Fill(k, lots)
      PROVE  Types'
  <2>1. \E lots \in Int : \E s \in Statuses : Trade(k, lots, s)
    <3>1. 1 .. Size \subseteq Int
      BY IntentAssumption
    <3> QED  BY <1>8, <3>1, ExchangeTrades DEF Statuses
  <2> QED  BY <2>1, TradeTypes
<1>9. CASE \E lots \in {-1, 1} : ManualTrade(lots)
  BY <1>9, OutsideTypes
<1> QED  BY <1>1, <1>2, <1>3, <1>4, <1>5, <1>6, <1>7, <1>8, <1>9
         DEF Next, Progress

\* Every step keeps the history of every order.
LEMMA KeysNext ==
  ASSUME IInv, Next, NEW j \in Key
  PROVE  KeyInv(j)'
<1> USE DEF IInv
<1>0. Types /\ SubmitInv /\ AbandonInv /\ ReleaseInv /\ KeyInv(j)
  OBVIOUS
<1>1. ASSUME UNCHANGED <<now, intent, order, posted>>  PROVE KeyInv(j)'
  BY <1>0, <1>1, KeyInvKept
<1>2. CASE Reconcile \/ AskHandover \/ Crash \/ ReadAccount \/ Compare \/ Adopt
  BY <1>1, <1>2 DEF Reconcile, AskHandover, Crash, ReadAccount, Compare,
                    Adopt, db, exchange
<1>3. CASE \E from \in 1 .. lastSync + 1 : Fetch(from)
  BY <1>1, <1>3 DEF Fetch, db, exchange
<1>4. ASSUME NEW k \in Key, Submit(k) \/ Abandon(k) \/ Verify(k)
      PROVE  KeyInv(j)'
  BY <1>1, <1>4 DEF Submit, Abandon, Verify, db, exchange
<1>5. CASE \E lots \in {-1, 1} : ManualTrade(lots)
  BY <1>1, <1>5 DEF ManualTrade, db
<1>6. CASE Tick
  BY <1>0, <1>6, TickKeeps
<1>7. CASE Import \/ Settle \/ \E k \in Key : ReadStatus(k)
  BY <1>0, <1>7, SyncKeeps
<1>8. ASSUME NEW k \in Key,
             \/ Draft(k) \/ Dispatch(k) \/ FailBeforeDispatch(k)
             \/ \E childError \in BOOLEAN : Acknowledge(k, childError)
             \/ LoseAnswer(k)
      PROVE  KeyInv(j)'
  BY <1>0, <1>8, SubmissionKeeps
<1>9. ASSUME NEW k \in Key, ReleaseReservation(k)  PROVE KeyInv(j)'
  BY <1>0, <1>9, ReleaseKeeps
<1>10. ASSUME NEW k \in Key,
              \/ Arrive(k) \/ Refuse(k) \/ Cancel(k)
              \/ \E lots \in 1 .. Size : Fill(k, lots)
       PROVE  KeyInv(j)'
  BY <1>0, <1>10, ExchangeKeeps
<1> QED  BY <1>2, <1>3, <1>4, <1>5, <1>6, <1>7, <1>8, <1>9, <1>10
         DEF Next, Progress

\* Every step keeps what the call relies on.
LEMMA CallNext == ASSUME IInv, Next  PROVE CallInv'
<1>0. Types /\ CallInv /\ \A k \in Key : KeyInv(k)
  BY DEF IInv, CallInv
<1>1. CASE Reconcile \/ AskHandover \/ Crash
           \/ \E k \in Key : Submit(k) \/ Abandon(k)
  BY <1>0, <1>1, CallsInv
<1>2. CASE \/ \E from \in 1 .. lastSync + 1 : Fetch(from)
           \/ \E k \in Key : ReadStatus(k)
           \/ ReadAccount \/ Import \/ Settle \/ Compare
  BY <1>0, <1>2, SyncInv
<1>3. CASE \/ Adopt
           \/ \E k \in Key :
                \/ Draft(k) \/ Dispatch(k) \/ FailBeforeDispatch(k)
                \/ \E childError \in BOOLEAN : Acknowledge(k, childError)
                \/ LoseAnswer(k) \/ Verify(k) \/ ReleaseReservation(k)
  BY <1>0, <1>3, WriteInv
<1>4. CASE \/ Tick
           \/ \E lots \in {-1, 1} : ManualTrade(lots)
           \/ \E k \in Key :
                \/ Arrive(k) \/ Refuse(k) \/ Cancel(k)
                \/ \E lots \in 1 .. Size : Fill(k, lots)
  BY <1>0, <1>4, OutsideInv
<1> QED  BY <1>1, <1>2, <1>3, <1>4 DEF Next, Progress

\* A step in which nothing changes keeps everything.
LEMMA IInvStutter == ASSUME IInv, UNCHANGED vars  PROVE IInv'
<1> USE DEF vars, db, exchange
<1>1. Types'
  BY DEF IInv, Types
<1>2. SubmitInv' /\ AbandonInv' /\ ReleaseInv'
  BY DEF IInv, SubmitInv, Submitting, AbandonInv, ReleaseInv, Recorded
<1>3. ASSUME NEW k \in Key  PROVE KeyInv(k)'
  BY KeyInvKept DEF IInv
<1> QED  BY <1>1, <1>2, <1>3 DEF IInv

\* The rows, the orders and the call agree in every reachable state.
THEOREM IntentsInductive == Spec => []IInv
<1>1. ASSUME IInv, [Next]_vars  PROVE IInv'
  <2>1. CASE Next
    <3>1. Types'
      BY <1>1, <2>1, TypesNext DEF IInv
    <3>2. \A k \in Key : KeyInv(k)'
      BY <1>1, <2>1, KeysNext
    <3>3. CallInv'
      BY <1>1, <2>1, CallNext
    <3> QED  BY <3>1, <3>2, <3>3 DEF IInv, CallInv
  <2>2. CASE UNCHANGED vars
    BY <1>1, <2>2, IInvStutter
  <2> QED  BY <1>1, <2>1, <2>2
<1> QED  BY IInvInit, <1>1, PTL DEF Spec

\* However often a caller retries, whatever crashes and whichever answer is
\* lost, an intent key is POSTed at most once (DeskExecution.submit).
THEOREM SendsOnce == Spec => []SentOnce
<1>1. IInv => SentOnce
  BY DEF IInv, KeyInv, PostedOnce, SentOnce
<1> QED  BY <1>1, IntentsInductive, PTL

\* An order that the exchange may still trade keeps its full reservation, for
\* any cap, size and number of keys, as long as a call takes less than the
\* abandon age less the window from its draft to its POST.
THEOREM ReservationHolds == Spec => []ReservationCoversVenue
<1>1. ASSUME IInv, NEW k \in Key, MayTrade(k)
      PROVE  intent[k].state \in Live /\ intent[k].reserved = Size
  <2>1. CASE order[k].status = "open"
    BY <1>1, <2>1 DEF IInv, KeyInv, OpenCovered
  <2>2. CASE order[k].status = "flight" /\ now <= order[k].expiresAfter
    <3>1. ~(now > order[k].expiresAfter)
      BY <1>1, <2>2 DEF IInv, Types, Order
    <3> QED  BY <1>1, <2>2, <3>1 DEF IInv, KeyInv, FlightCovered, Live
  <2> QED  BY <1>1, <2>1, <2>2 DEF MayTrade
<1>2. IInv => ReservationCoversVenue
  BY <1>1 DEF ReservationCoversVenue
<1> QED  BY <1>2, IntentsInductive, PTL

-----------------------------------------------------------------------------
(* The ledger and the cap *)

\* The lots of the fills of f with an index in ns.
Total(f, ns) == SumOf([n \in DOMAIN f |-> f[n].lots], ns)

\* The fills of one order.
FillsOf(k) == {n \in DOMAIN fills : fills[n].key = k}
FlowsOf(k) == {n \in flows : fills[n].key = k}

\* What the exchange has traded of an order is what its fills say.
TradedInv(k) ==
  /\ order[k].traded \in 0 .. Size
  /\ order[k].status \in {"none", "flight", "refused"} =>
       order[k].traded = 0 /\ FillsOf(k) = {}
  /\ order[k].traded = Total(fills, FillsOf(k))

\* A row counts what the cash flows of its order add up to, and reserves the
\* whole order as long as it is live.
RowInv(k) ==
  /\ intent[k].filled = Total(fills, FlowsOf(k))
  /\ intent[k].state \in Live => intent[k].reserved = Size

\* A sync asks for rows that are live, and books fills of its own range.
RangeInv ==
  /\ flows \subseteq DOMAIN fills
  /\ \A n \in DOMAIN fills : fills[n].key \in Key => fills[n].lots \in Nat
  /\ \A k \in call.left : intent[k].state \in Live
  /\ call.at # "status" => call.left = {}
  /\ call.at \in {"status", "import"} => flows \subseteq 1 .. call.upTo

\* The account a call has read is the sum of what the orders had traded by
\* then, t: all that a settled order ever trades, and no less than the fills
\* that the call has fetched.
ReadBy(t) ==
  /\ call.account = SumOf(t, Key)
  /\ \A k \in Key :
       /\ intent[k].state \notin Live => order[k].traded <= t[k]
       /\ call.at = "import" =>
            Total(fills, {n \in 1 .. call.upTo : fills[n].key = k}) <= t[k]

AccountInv ==
  call.at \in {"import", "compare", "synced"} /\ ~OperatorTraded =>
    \E t \in [Key -> Nat] : ReadBy(t)

\* What the exchange may still trade of an order.
Rest(k) == IF MayTrade(k) THEN Size - order[k].traded ELSE 0

\* All orders together, traded or not, are under the cap.
CapInv ==
  ~OperatorTraded =>
    /\ pos = SumOf([k \in Key |-> order[k].traded], Key)
    /\ SumOf([k \in Key |-> order[k].traded + Rest(k)], Key) <= Cap

BookInv ==
  /\ RangeInv /\ AccountInv /\ CapInv
  /\ \A k \in Key : TradedInv(k) /\ RowInv(k)

\* The lots of a sequence of fills are integers, and its indices a finite set.
LEMMA FillFacts ==
  ASSUME NEW f \in Seq(FillRecord)
  PROVE  /\ DOMAIN f = 1 .. Len(f) /\ Len(f) \in Nat
         /\ \A ns \in SUBSET DOMAIN f : IsFiniteSet(ns)
         /\ \A n \in DOMAIN f : f[n] \in FillRecord /\ f[n].lots \in Int
<1>1. DOMAIN f = 1 .. Len(f) /\ Len(f) \in Nat
  OBVIOUS
<1>2. IsFiniteSet(DOMAIN f)
  BY <1>1, FS_Interval
<1>3. \A ns \in SUBSET DOMAIN f : IsFiniteSet(ns)
  BY <1>2, FS_Subset
<1>4. \A n \in DOMAIN f : f[n] \in FillRecord
  BY <1>1
<1>5. \A n \in DOMAIN f : f[n].lots \in Int
  BY <1>4 DEF FillRecord
<1> QED  BY <1>1, <1>3, <1>4, <1>5

\* A total is an integer, nothing adds up to nothing, and one more fill adds
\* its lots.
LEMMA TotalFacts ==
  ASSUME NEW f \in Seq(FillRecord), NEW ns \in SUBSET DOMAIN f
  PROVE  /\ Total(f, ns) \in Int
         /\ Total(f, {}) = 0
         /\ \A n \in DOMAIN f \ ns :
              Total(f, ns \cup {n}) = Total(f, ns) + f[n].lots
<1> DEFINE v == [n \in DOMAIN f |-> f[n].lots]
<1>1. IsFiniteSet(ns) /\ \A n \in DOMAIN f : v[n] \in Int
  BY FillFacts
<1>2. Total(f, ns) \in Int
  BY <1>1, SumType DEF Total
<1>3. Total(f, {}) = 0
  BY <1>1, SumStep DEF Total
<1>4. ASSUME NEW n \in DOMAIN f \ ns
      PROVE  Total(f, ns \cup {n}) = Total(f, ns) + f[n].lots
  <2> DEFINE ms == ns \cup {n}
  <2>1. ms \in SUBSET DOMAIN f /\ n \in ms /\ ms \ {n} = ns
    BY <1>4
  <2>2. IsFiniteSet(ms) /\ \A m \in ms : v[m] \in Int
    BY <1>1, <2>1, FillFacts
  <2> HIDE DEF ms, v
  <2>3. SumOf(v, ms) = v[n] + SumOf(v, ms \ {n})
    BY <2>1, <2>2, SumTerm
  <2>4. v[n] = f[n].lots
    BY <1>4 DEF v
  <2>5. SumOf(v, ms) = Total(f, ms) /\ SumOf(v, ns) = Total(f, ns)
    BY DEF Total, v
  <2>6. v[n] \in Int
    BY <2>1, <2>2
  <2>7. SumOf(v, ms) = SumOf(v, ns) + v[n]
    <3> DEFINE a == SumOf(v, ms)
               b == SumOf(v, ns)
               c == v[n]
    <3>1. a = c + b /\ b \in Int /\ c \in Int
      BY <1>2, <2>1, <2>3, <2>5, <2>6
    <3> HIDE DEF a, b, c
    <3>2. a = b + c
      BY <3>1
    <3> QED  BY <3>2 DEF a, b, c
  <2>8. Total(f, ms) = Total(f, ns) + f[n].lots
    BY <2>4, <2>5, <2>7, Zenon
  <2> QED  BY <2>8 DEF ms
<1> QED  BY <1>2, <1>3, <1>4

\* Fewer fills add up to less, unless there are sales among them.
LEMMA TotalPart ==
  ASSUME NEW f \in Seq(FillRecord), NEW ns \in SUBSET DOMAIN f,
         \A n \in ns : f[n].lots \in Nat, NEW ms \in SUBSET ns
  PROVE  Total(f, ms) \in Nat /\ Total(f, ms) <= Total(f, ns)
<1> DEFINE v == [n \in DOMAIN f |-> f[n].lots]
<1>1. IsFiniteSet(ns) /\ \A n \in ns : v[n] \in Nat
  BY FillFacts
<1> HIDE DEF v
<1>2. SumOf(v, ms) \in Nat /\ SumOf(v, ms) <= SumOf(v, ns)
  BY <1>1, SumPart
<1> QED  BY <1>2 DEF Total, v

\* A fill that comes after leaves the totals of those before alone.
LEMMA TotalAppend ==
  ASSUME NEW f \in Seq(FillRecord), NEW e \in FillRecord,
         NEW ns \in SUBSET DOMAIN f
  PROVE  /\ Append(f, e) \in Seq(FillRecord)
         /\ DOMAIN Append(f, e) = DOMAIN f \cup {Len(f) + 1}
         /\ Len(f) + 1 \notin DOMAIN f
         /\ \A n \in DOMAIN f : Append(f, e)[n] = f[n]
         /\ Append(f, e)[Len(f) + 1] = e
         /\ Total(Append(f, e), ns) = Total(f, ns)
<1> DEFINE g == Append(f, e)
<1>1. g \in Seq(FillRecord) /\ Len(f) \in Nat
      /\ DOMAIN f = 1 .. Len(f) /\ DOMAIN g = 1 .. Len(f) + 1
      /\ \A n \in DOMAIN f : g[n] = f[n]
      /\ g[Len(f) + 1] = e
  OBVIOUS
<1>2. DOMAIN g = DOMAIN f \cup {Len(f) + 1} /\ Len(f) + 1 \notin DOMAIN f
  BY <1>1
<1> HIDE DEF g
<1> DEFINE v == [n \in DOMAIN f |-> f[n].lots]
           w == [n \in DOMAIN g |-> g[n].lots]
<1>3. IsFiniteSet(ns) /\ \A n \in ns : v[n] = w[n]
  <2>1. IsFiniteSet(ns)
    BY FillFacts
  <2> QED  BY <1>1, <1>2, <2>1
<1> HIDE DEF v, w
<1>4. SumOf(v, ns) = SumOf(w, ns)
  BY <1>3, SumEqual
<1>5. Total(g, ns) = Total(f, ns)
  BY <1>4 DEF Total, v, w
<1> QED  BY <1>1, <1>2, <1>5 DEF g

\* The sum of the model is that of the lemmas.
LEMMA LotsTotal ==
  ASSUME fills \in Seq(FillRecord), NEW ns \in SUBSET DOMAIN fills
  PROVE  Lots(ns) = Total(fills, ns)
<1> DEFINE v == [n \in DOMAIN fills |-> fills[n].lots]
           IsRec(h) == h = [s \in SUBSET ns |->
                              IF s = {} THEN 0
                              ELSE fills[Pick(s)].lots + h[s \ {Pick(s)}]]
           g == CHOOSE h : IsRec(h)
<1>1. IsFiniteSet(ns)
  BY FillFacts
<1>2. ASSUME NEW h  PROVE IsFold(h, v, ns) <=> IsRec(h)
  <2>1. ASSUME NEW s \in SUBSET ns, s # {}
        PROVE  v[Pick(s)] = fills[Pick(s)].lots
    BY <2>1, Picked
  <2> HIDE DEF v
  <2>2. [s \in SUBSET ns |->
           IF s = {} THEN 0 ELSE v[Pick(s)] + h[s \ {Pick(s)}]]
        = [s \in SUBSET ns |->
             IF s = {} THEN 0 ELSE fills[Pick(s)].lots + h[s \ {Pick(s)}]]
    BY <2>1
  <2> QED  BY <2>2 DEF IsFold
<1>3. \E h : IsFold(h, v, ns)
  BY <1>1, FoldExists
<1>4. IsRec(g)
  <2> HIDE DEF v, IsRec
  <2> QED  BY <1>2, <1>3
<1>5. Lots(ns) = g[ns]
  BY Zenon DEF Lots, MapThenSumSet, MapThenFoldSet, Pick
<1> HIDE DEF IsRec, g, v
<1>6. IsFold(g, v, ns)
  BY <1>2, <1>4
<1>7. SumOf(v, ns) = g[ns]
  BY <1>1, <1>6, SumIsFold
<1> QED  BY <1>5, <1>7 DEF Total, v

-----------------------------------------------------------------------------
(* What a step leaves alone *)

\* Nothing happens to an order.
LEMMA TradedKept ==
  ASSUME NEW k \in Key, TradedInv(k), order'[k] = order[k], fills' = fills
  PROVE  TradedInv(k)'
BY DEF TradedInv, FillsOf

\* Nothing happens at the exchange, and the clock stands still.
LEMMA CapKept ==
  ASSUME CapInv, UNCHANGED <<now, order, fills, pos>>
  PROVE  CapInv'
BY DEF CapInv, OperatorTraded, Rest, MayTrade

\* Nothing happens to a row but its age.
LEMMA RowKept ==
  ASSUME NEW k \in Key, RowInv(k), intent'[k].filled = intent[k].filled,
         intent'[k].state = intent[k].state,
         intent'[k].reserved = intent[k].reserved,
         UNCHANGED <<fills, flows>>
  PROVE  RowInv(k)'
BY DEF RowInv, FlowsOf

\* The state of one row is written: it stays live, or gives up what it had
\* reserved.
LEMMA RowsKept ==
  ASSUME Types, \A k \in Key : RowInv(k), NEW k \in Key, NEW s,
         \/ /\ intent' = [intent EXCEPT ![k].state = s]
            /\ intent[k].state \in Live
         \/ /\ intent' = [intent EXCEPT ![k].state = s, ![k].reserved = 0]
            /\ s \notin Live,
         UNCHANGED <<fills, flows>>
  PROVE  \A j \in Key : RowInv(j)'
<1>1. ASSUME NEW j \in Key \ {k}  PROVE RowInv(j)'
  <2>1. intent'[j] = intent[j]
    BY DEF Types
  <2> QED  BY <2>1, RowKept
<1>2. RowInv(k)'
  <2>1. intent \in [Key -> Intent] /\ intent[k] \in Intent
    BY DEF Types
  <2>2. CASE /\ intent' = [intent EXCEPT ![k].state = s]
             /\ intent[k].state \in Live
    <3>1. /\ intent'[k].reserved = intent[k].reserved
          /\ intent'[k].filled = intent[k].filled
      BY <2>1, <2>2 DEF Intent
    <3> QED  BY <2>2, <3>1 DEF RowInv, FlowsOf
  <2>3. CASE /\ intent' = [intent EXCEPT ![k].state = s, ![k].reserved = 0]
             /\ s \notin Live
    <3> DEFINE r == [intent[k] EXCEPT !.state = s, !.reserved = 0]
    <3>1. r.state = s /\ r.filled = intent[k].filled
      BY <2>1 DEF Intent
    <3>2. intent' = [intent EXCEPT ![k] = r]
      BY <2>1, <2>3
    <3> HIDE DEF r
    <3>3. intent'[k] = r
      BY <2>1, <3>2
    <3> QED  BY <2>3, <3>1, <3>3 DEF RowInv, FlowsOf
  <2> QED  BY <2>2, <2>3
<1> QED  BY <1>1, <1>2

\* A call that is over, or only begins, has read nothing.
LEMMA BetweenKept ==
  ASSUME RangeInv, UNCHANGED <<fills, flows>>, call'.left = {},
         call'.at \notin {"status", "import", "compare", "synced"}
  PROVE  RangeInv' /\ AccountInv'
BY DEF RangeInv, AccountInv

\* A call goes on with the account it has read; rows that were live stay so.
LEMMA AccountKept ==
  ASSUME AccountInv, UNCHANGED <<fills, order>>,
         call'.account = call.account, call'.upTo = call.upTo,
         call.at \in {"import", "compare", "synced"},
         call'.at = "import" => call.at = "import",
         \A k \in Key : intent[k].state \in Live => intent'[k].state \in Live
  PROVE  AccountInv'
<1> SUFFICES ASSUME ~OperatorTraded'
    PROVE  \E t \in [Key -> Nat] : ReadBy(t)'
  BY DEF AccountInv
<1>1. ~OperatorTraded
  BY DEF OperatorTraded
<1>2. PICK t \in [Key -> Nat] : ReadBy(t)
  BY <1>1 DEF AccountInv
<1>3. ReadBy(t)'
  BY <1>2 DEF ReadBy
<1> QED  BY <1>3

\* A step of the desk that sends nothing.
LEMMA DeskKept ==
  ASSUME BookInv, UNCHANGED <<now, order, fills, pos>>,
         RangeInv', AccountInv', \A k \in Key : RowInv(k)'
  PROVE  BookInv'
<1>1. \A k \in Key : TradedInv(k)'
  BY TradedKept DEF BookInv
<1>2. CapInv'
  BY CapKept DEF BookInv
<1> QED  BY <1>1, <1>2 DEF BookInv

\* A call begins, crashes or ends without a row.
LEMMA BetweenBook ==
  ASSUME BookInv, UNCHANGED <<now, intent, flows, order, fills, pos>>,
         call'.left = {},
         call'.at \notin {"status", "import", "compare", "synced"}
  PROVE  BookInv'
<1>1. RangeInv' /\ AccountInv'
  BY BetweenKept DEF BookInv
<1>2. \A k \in Key : RowInv(k)'
  BY RowKept DEF BookInv
<1> QED  BY <1>1, <1>2, DeskKept

LEMMA CallsBook ==
  ASSUME BookInv
  PROVE  /\ Reconcile \/ AskHandover \/ Crash => BookInv'
         /\ \A k \in Key : Submit(k) \/ Abandon(k) => BookInv'
         /\ Adopt => BookInv'
<1>1. /\ Idle.left = {} /\ Idle.at = "start"
      /\ Dead.left = {} /\ Dead.at = "dead"
      /\ \A task, k : Start(task, k).left = {} /\ Start(task, k).at = "fetch"
  BY DEF Idle, Dead, Start
<1>2. Reconcile \/ AskHandover \/ Crash => BookInv'
  BY <1>1, BetweenBook DEF Reconcile, AskHandover, Crash, db, exchange
<1>3. ASSUME NEW k \in Key, Submit(k) \/ Abandon(k)  PROVE BookInv'
  BY <1>1, <1>3, BetweenBook DEF Submit, Abandon, db, exchange
<1>4. Adopt => BookInv'
  BY <1>1, BetweenBook DEF Adopt, exchange
<1> QED  BY <1>2, <1>3, <1>4

\* The question to the venue after the sync of an abandonment.
LEMMA VerifyBook ==
  ASSUME Types, BookInv, NEW k \in Key, Verify(k)
  PROVE  BookInv'
<1>1. CASE call' = Idle
  <2>1. call'.left = {} /\ call'.at = "start"
    BY <1>1 DEF Idle
  <2> QED  BY <2>1, BetweenBook DEF Verify, db, exchange
<1>2. CASE call' = [call EXCEPT !.at = "release"]
  <2>1. call'.left = call.left /\ call'.at = "release"
    BY <1>2 DEF Types, CallRecord
  <2>2. call.left = {}
    BY DEF Verify, BookInv, RangeInv
  <2> QED  BY <2>1, <2>2, BetweenBook DEF Verify, db, exchange
<1> QED  BY <1>1, <1>2 DEF Verify

\* The first questions of a sync.
LEMMA FetchBook ==
  ASSUME Types, BookInv, NEW from \in 1 .. lastSync + 1, Fetch(from)
  PROVE  BookInv'
<1>1. /\ call'.at = "status" /\ call'.upTo = Len(fills)
      /\ call'.left = {k \in Key : intent[k].state \in Live}
      /\ UNCHANGED <<now, intent, flows, order, fills, pos>>
  BY DEF Fetch, Types, CallRecord, db, exchange
<1>2. flows \subseteq 1 .. Len(fills)
  BY FillFacts DEF BookInv, RangeInv, Types
<1>3. RangeInv'
  BY <1>1, <1>2 DEF BookInv, RangeInv
<1>4. AccountInv'
  BY <1>1 DEF AccountInv
<1>5. \A k \in Key : RowInv(k)'
  BY <1>1, RowKept DEF BookInv
<1> QED  BY <1>1, <1>3, <1>4, <1>5, DeskKept

\* One order after the other: its row becomes what the exchange says.
LEMMA StatusBook ==
  ASSUME Types, BookInv, NEW k \in Key, ReadStatus(k)
  PROVE  BookInv'
<1>1. /\ call'.at = "status" /\ call'.upTo = call.upTo
      /\ call'.left = call.left \ {k}
      /\ UNCHANGED <<now, flows, order, fills, pos>>
  BY DEF ReadStatus, Types, CallRecord, exchange
<1>2. intent[k].state \in Live
  BY DEF ReadStatus, BookInv, RangeInv
<1>3. \/ intent' = intent
      \/ intent' = [intent EXCEPT ![k].state = "working"]
      \/ intent' = [intent EXCEPT ![k].state = "settling"]
      \/ intent' = [intent EXCEPT ![k].state = "terminal", ![k].reserved = 0]
  <2>1. CASE ~Recorded(k)
    BY <2>1 DEF ReadStatus, Recorded
  <2>2. CASE order[k].status = "open"
    BY <2>2 DEF ReadStatus, Recorded
  <2>3. CASE order[k].status = "filled"
    BY <2>3 DEF ReadStatus, Recorded
  <2>4. CASE order[k].status = "canceled"
    BY <2>4 DEF ReadStatus, Recorded
  <2> QED  BY <2>1, <2>2, <2>3, <2>4 DEF Recorded
<1>4. \A j \in Key : RowInv(j)'
  <2>1. CASE intent' = intent
    BY <1>1, <2>1, RowKept DEF BookInv
  <2>2. ASSUME NEW s \in Live, intent' = [intent EXCEPT ![k].state = s]
        PROVE  \A j \in Key : RowInv(j)'
    BY <1>1, <1>2, <2>2, RowsKept DEF BookInv
  <2>3. ASSUME NEW s, s \notin Live,
               intent' = [intent EXCEPT ![k].state = s, ![k].reserved = 0]
        PROVE  \A j \in Key : RowInv(j)'
    BY <1>1, <2>3, RowsKept DEF BookInv
  <2>4. "working" \in Live /\ "settling" \in Live /\ "terminal" \notin Live
    BY DEF Live
  <2> QED  BY <1>3, <2>1, <2>2, <2>3, <2>4
<1>5. RangeInv'
  <2>1. \A j \in Key \ {k} : intent'[j] = intent[j]
    BY <1>3 DEF Types
  <2>2. call.left \subseteq Key
    BY DEF Types, CallRecord
  <2>3. flows \subseteq 1 .. call.upTo
    BY DEF BookInv, RangeInv, ReadStatus
  <2> QED  BY <1>1, <2>1, <2>2, <2>3 DEF BookInv, RangeInv
<1>6. AccountInv'
  BY <1>1 DEF AccountInv
<1> QED  BY <1>1, <1>4, <1>5, <1>6, DeskKept

\* The account is read: t is what each order has traded.
LEMMA AccountBook ==
  ASSUME Types, BookInv, ReadAccount
  PROVE  BookInv'
<1>1. /\ call'.at = "import" /\ call'.upTo = call.upTo
      /\ call'.left = call.left /\ call'.account = pos
      /\ call.at = "status" /\ call.left = {}
      /\ UNCHANGED <<now, intent, flows, order, fills, pos>>
  BY DEF ReadAccount, Types, CallRecord, db, exchange
<1>2. RangeInv'
  BY <1>1 DEF BookInv, RangeInv
<1>3. AccountInv'
  <2> SUFFICES ASSUME ~OperatorTraded'
      PROVE  \E t \in [Key -> Nat] : ReadBy(t)'
    BY DEF AccountInv
  <2>1. PICK t \in [Key -> Nat] : t = [k \in Key |-> order[k].traded]
    <3>1. \A k \in Key : order[k].traded \in Nat
      BY IntentAssumption DEF BookInv, TradedInv
    <3> QED  BY <3>1
  <2>2. pos = SumOf(t, Key)
    <3>1. ~OperatorTraded
      BY <1>1 DEF OperatorTraded
    <3> QED  BY <2>1, <3>1 DEF BookInv, CapInv
  <2>3. ASSUME NEW k \in Key
        PROVE  Total(fills, {n \in 1 .. call.upTo : fills[n].key = k}) <= t[k]
    <3> DEFINE ns == {n \in 1 .. call.upTo : fills[n].key = k}
    <3>1. call.upTo \in Nat /\ call.upTo <= Len(fills)
      BY DEF Types, CallRecord
    <3>2. DOMAIN fills = 1 .. Len(fills) /\ Len(fills) \in Nat
      BY DEF Types
    <3>3. ns \in SUBSET FillsOf(k) /\ FillsOf(k) \in SUBSET DOMAIN fills
      BY <3>1, <3>2 DEF FillsOf
    <3>4. \A n \in FillsOf(k) : fills[n].lots \in Nat
      BY DEF FillsOf, BookInv, RangeInv
    <3> HIDE DEF ns
    <3>5. Total(fills, ns) <= Total(fills, FillsOf(k))
      BY <3>3, <3>4, TotalPart DEF Types
    <3>6. t[k] = Total(fills, FillsOf(k))
      BY <2>1 DEF BookInv, TradedInv
    <3> QED  BY <3>5, <3>6 DEF ns
  <2>4. \A k \in Key : order[k].traded <= t[k]
    <3>1. \A k \in Key : t[k] = order[k].traded /\ t[k] \in Nat
      BY <2>1
    <3> QED  BY <3>1
  <2>5. ReadBy(t)'
    BY <1>1, <2>2, <2>3, <2>4 DEF ReadBy
  <2> QED  BY <2>5
<1>4. \A k \in Key : RowInv(k)'
  BY <1>1, RowKept DEF BookInv
<1> QED  BY <1>1, <1>2, <1>3, <1>4, DeskKept

\* One fill: skipped, a collision, or booked on its order.
LEMMA ImportBook ==
  ASSUME Types, BookInv, Import
  PROVE  BookInv'
<1>0. PICK n, k : n = call.next /\ k = fills[n].key
  OBVIOUS
<1>1. /\ call.at = "import" /\ call'.at = "import"
      /\ call'.upTo = call.upTo /\ call'.left = call.left
      /\ call'.account = call.account
      /\ UNCHANGED <<now, order, fills, pos>>
  BY DEF Import, Types, CallRecord, exchange
<1>2. n \in 1 .. call.upTo /\ n \in DOMAIN fills
  <2>1. DOMAIN fills = 1 .. Len(fills) /\ Len(fills) \in Nat
    BY DEF Types
  <2> QED  BY <1>0, <2>1 DEF Import, Types, CallRecord
<1>3. \/ UNCHANGED <<intent, flows>>
      \/ /\ n \notin flows /\ k \in Key
         /\ flows' = flows \cup {n}
         /\ intent' = [intent EXCEPT ![k].filled = @ + fills[n].lots]
  BY <1>0 DEF Import, Unbooked
<1>4. CASE UNCHANGED <<intent, flows>>
  <2>1. RangeInv'
    BY <1>1, <1>4 DEF BookInv, RangeInv
  <2>2. AccountInv'
    BY <1>1, <1>4, AccountKept DEF BookInv
  <2>3. \A j \in Key : RowInv(j)'
    BY <1>1, <1>4, RowKept DEF BookInv
  <2> QED  BY <1>1, <2>1, <2>2, <2>3, DeskKept
<1>5. CASE /\ n \notin flows /\ k \in Key
           /\ flows' = flows \cup {n}
           /\ intent' = [intent EXCEPT ![k].filled = @ + fills[n].lots]
  <2>1. /\ intent'[k].state = intent[k].state
        /\ intent'[k].reserved = intent[k].reserved
        /\ intent'[k].filled = intent[k].filled + fills[n].lots
        /\ \A j \in Key \ {k} : intent'[j] = intent[j]
    <3> DEFINE q == intent[k].filled + fills[n].lots
               r == [intent[k] EXCEPT !.filled = q]
    <3>1. intent' = [intent EXCEPT ![k] = r]
      BY <1>5
    <3>2. /\ r.state = intent[k].state /\ r.reserved = intent[k].reserved
          /\ r.filled = q
      <4>1. intent[k] \in Intent
        BY <1>5 DEF Types
      <4> HIDE DEF q
      <4> QED  BY <4>1 DEF Intent
    <3> HIDE DEF r
    <3>3. intent'[k] = r /\ \A j \in Key \ {k} : intent'[j] = intent[j]
      BY <1>5, <3>1 DEF Types
    <3> QED  BY <3>2, <3>3
  <2>2. RangeInv'
    <3>1. flows' \subseteq DOMAIN fills /\ flows' \subseteq 1 .. call.upTo
      BY <1>1, <1>2, <1>5 DEF BookInv, RangeInv
    <3>2. call.left = {}
      BY <1>1 DEF BookInv, RangeInv
    <3> QED  BY <1>1, <3>1, <3>2 DEF BookInv, RangeInv
  <2>3. \A j \in Key : intent'[j].state = intent[j].state
    BY <2>1
  <2>4. AccountInv'
    BY <1>1, <2>3, AccountKept DEF BookInv
  <2>5. ASSUME NEW j \in Key \ {k}  PROVE RowInv(j)'
    <3>1. FlowsOf(j)' = FlowsOf(j)
      BY <1>0, <1>1, <1>5, <2>5 DEF FlowsOf
    <3> QED  BY <1>1, <2>1, <2>5, <3>1 DEF BookInv, RowInv
  <2>6. RowInv(k)'
    <3>1. FlowsOf(k)' = FlowsOf(k) \cup {n}
      BY <1>0, <1>1, <1>5 DEF FlowsOf
    <3>2. FlowsOf(k) \in SUBSET DOMAIN fills /\ n \in DOMAIN fills \ FlowsOf(k)
      BY <1>2, <1>5 DEF FlowsOf, BookInv, RangeInv
    <3>3. Total(fills, FlowsOf(k) \cup {n})
            = Total(fills, FlowsOf(k)) + fills[n].lots
      BY <3>2, TotalFacts DEF Types
    <3>4. intent[k].filled = Total(fills, FlowsOf(k))
      BY <1>5 DEF BookInv, RowInv
    <3>5. intent'[k].filled = Total(fills', FlowsOf(k)')
      BY <1>1, <2>1, <3>1, <3>3, <3>4
    <3>6. intent'[k].state \in Live => intent'[k].reserved = Size
      BY <1>5, <2>1 DEF BookInv, RowInv
    <3> QED  BY <3>5, <3>6 DEF RowInv
  <2>7. \A j \in Key : RowInv(j)'
    BY <2>5, <2>6
  <2> QED  BY <1>1, <2>2, <2>4, <2>7, DeskKept
<1> QED  BY <1>3, <1>4, <1>5

\* An order that has all its fills gives up its reservation: it had traded
\* them all before the account was read.
LEMMA SettleBook ==
  ASSUME Types, BookInv, Settle
  PROVE  BookInv'
<1>1. /\ call.at = "import" /\ call'.at = "compare"
      /\ call'.upTo = call.upTo /\ call'.left = call.left
      /\ call'.account = call.account
      /\ UNCHANGED <<now, flows, order, fills, pos>>
  <2>1. /\ call.at = "import" /\ call' = [call EXCEPT !.at = "compare"]
        /\ UNCHANGED <<now, flows, order, fills, pos>>
    BY DEF Settle, exchange
  <2> QED  BY <2>1 DEF Types, CallRecord
<1>2. ASSUME NEW j \in Key
      PROVE  \/ intent'[j] = intent[j]
             \/ /\ FilledUp(j)
                /\ intent'[j].state = "filled"
                /\ intent'[j].filled = intent[j].filled
  <2> DEFINE r == [intent[j] EXCEPT !.state = "filled", !.reserved = 0]
  <2>1. r.state = "filled" /\ r.filled = intent[j].filled
    BY DEF Types, Intent
  <2>2. intent'[j] = IF intent[j].state = "settling" /\ FilledUp(j)
                       THEN r ELSE intent[j]
    BY DEF Settle
  <2> HIDE DEF r
  <2> QED  BY <2>1, <2>2
<1>3. RangeInv'
  BY <1>1 DEF BookInv, RangeInv
<1>4. ASSUME NEW j \in Key  PROVE RowInv(j)'
  <2>1. CASE intent'[j] = intent[j]
    BY <1>1, <2>1, RowKept DEF BookInv
  <2>2. CASE intent'[j].state = "filled" /\ intent'[j].filled = intent[j].filled
    BY <1>1, <2>2 DEF BookInv, RowInv, FlowsOf, Live
  <2> QED  BY <1>2, <2>1, <2>2
<1>5. AccountInv'
  <2> SUFFICES ASSUME ~OperatorTraded'
      PROVE  \E t \in [Key -> Nat] : ReadBy(t)'
    BY DEF AccountInv
  <2>1. PICK t \in [Key -> Nat] : ReadBy(t)
    BY <1>1 DEF BookInv, AccountInv, OperatorTraded
  <2>2. ASSUME NEW j \in Key, intent'[j].state \notin Live
        PROVE  order[j].traded <= t[j]
    <3>1. CASE intent'[j] = intent[j]
      BY <2>1, <2>2, <3>1 DEF ReadBy
    <3>2. CASE FilledUp(j)
      <4> DEFINE ns == {n \in 1 .. call.upTo : fills[n].key = j}
      <4>1. DOMAIN fills = 1 .. Len(fills) /\ Len(fills) \in Nat
        BY DEF Types
      <4>2. ns \in SUBSET DOMAIN fills
        BY <4>1 DEF Types, CallRecord
      <4>3. FlowsOf(j) \in SUBSET ns
        BY <1>1 DEF FlowsOf, BookInv, RangeInv
      <4>4. \A n \in ns : fills[n].lots \in Nat
        BY <4>2 DEF BookInv, RangeInv
      <4>5. Total(fills, ns) <= t[j]
        BY <1>1, <2>1 DEF ReadBy
      <4> HIDE DEF ns
      <4>6. Total(fills, FlowsOf(j)) <= Total(fills, ns)
        BY <4>2, <4>3, <4>4, TotalPart DEF Types
      <4>7. Size <= Total(fills, FlowsOf(j))
        BY <3>2 DEF FilledUp, BookInv, RowInv
      <4>8. order[j].traded \in 0 .. Size
        BY DEF BookInv, TradedInv
      <4>9. Total(fills, FlowsOf(j)) \in Int /\ Total(fills, ns) \in Int
        <5>1. FlowsOf(j) \in SUBSET DOMAIN fills
          BY <4>2, <4>3
        <5> QED  BY <4>2, <5>1, TotalFacts DEF Types
      <4> QED  BY <4>5, <4>6, <4>7, <4>8, <4>9, IntentAssumption
    <3> QED  BY <1>2, <3>1, <3>2
  <2>3. ReadBy(t)'
    BY <1>1, <2>1, <2>2 DEF ReadBy
  <2> QED  BY <2>3
<1> QED  BY <1>1, <1>3, <1>4, <1>5, DeskKept

\* The sync ends.
LEMMA CompareBook ==
  ASSUME Types, BookInv, Compare
  PROVE  BookInv'
<1>1. UNCHANGED <<now, intent, flows, order, fills, pos>>
  BY DEF Compare, exchange
<1>2. CASE call' = Idle
  <2>1. call'.left = {} /\ call'.at = "start"
    BY <1>2 DEF Idle
  <2> QED  BY <1>1, <2>1, BetweenBook
<1>3. CASE call' = [call EXCEPT !.at = "synced"]
  <2>1. /\ call.at = "compare" /\ call'.at = "synced"
        /\ call'.upTo = call.upTo /\ call'.left = call.left
        /\ call'.account = call.account
    BY <1>3 DEF Compare, Types, CallRecord
  <2>2. RangeInv'
    BY <1>1, <2>1 DEF BookInv, RangeInv
  <2>3. AccountInv'
    BY <1>1, <2>1, AccountKept DEF BookInv
  <2>4. \A j \in Key : RowInv(j)'
    BY <1>1, RowKept DEF BookInv
  <2> QED  BY <1>1, <2>2, <2>3, <2>4, DeskKept
<1> QED  BY <1>2, <1>3 DEF Compare

\* A submission or an abandonment ends and writes its row.
LEMMA AnswerBook ==
  ASSUME Types, BookInv, NEW k \in Key
  PROVE  /\ FailBeforeDispatch(k) => BookInv'
         /\ \A childError \in BOOLEAN : Acknowledge(k, childError) => BookInv'
         /\ LoseAnswer(k) => BookInv'
         /\ ReleaseReservation(k) => BookInv'
<1>1. ASSUME NEW s, call' = Idle,
             \/ /\ intent' = [intent EXCEPT ![k].state = s]
                /\ intent[k].state \in Live
             \/ /\ intent' = [intent EXCEPT ![k].state = s, ![k].reserved = 0]
                /\ s \notin Live,
             UNCHANGED <<now, flows, order, fills, pos>>
      PROVE  BookInv'
  <2>1. \A j \in Key : RowInv(j)'
    BY <1>1, RowsKept DEF BookInv
  <2>2. call'.left = {} /\ call'.at = "start"
    BY <1>1 DEF Idle
  <2>3. RangeInv' /\ AccountInv'
    BY <1>1, <2>2, BetweenKept DEF BookInv
  <2> QED  BY <1>1, <2>1, <2>3, DeskKept
<1>2. /\ Drafted /\ call.key = k => intent[k].state \in Live
      /\ "rejected" \notin Live /\ "abandoned" \notin Live
  BY DEF Drafted, Live
<1>3. FailBeforeDispatch(k) => BookInv'
  BY <1>1, <1>2 DEF FailBeforeDispatch, Reject, exchange
<1>4. ASSUME NEW childError \in BOOLEAN, Acknowledge(k, childError)
      PROVE  BookInv'
  <2>1. /\ call' = Idle /\ intent[k].state \in Live
        /\ UNCHANGED <<now, flows, order, fills, pos>>
    BY <1>2, <1>4 DEF Acknowledge, exchange
  <2>2. CASE childError
    BY <1>1, <1>4, <2>1, <2>2 DEF Acknowledge
  <2>3. CASE ~childError /\ order[k].status = "refused"
    BY <1>1, <1>2, <1>4, <2>1, <2>3 DEF Acknowledge
  <2>4. CASE ~childError /\ order[k].status # "refused"
    <3>1. intent' = [intent EXCEPT ![k].state =
                       IF Quoting THEN "working" ELSE "settling"]
      BY <1>4, <2>4 DEF Acknowledge
    <3> QED  BY <1>1, <2>1, <3>1
  <2> QED  BY <2>2, <2>3, <2>4
<1>5. LoseAnswer(k) => BookInv'
  BY <1>1, <1>2 DEF LoseAnswer, Uncertain, exchange
<1>6. ReleaseReservation(k) => BookInv'
  BY <1>1, <1>2 DEF ReleaseReservation, exchange
<1> QED  BY <1>3, <1>4, <1>5, <1>6

\* The row of a submission: nothing of its order has been filled yet.
LEMMA DraftBook ==
  ASSUME Types, BookInv, SubmitInv, NEW k \in Key, Draft(k)
  PROVE  BookInv'
<1>1. UNCHANGED <<now, flows, order, fills, pos>>
  BY DEF Draft, exchange
<1>2. CASE ~Acceptable(k)
  <2>1. call' = Idle /\ intent' = intent
    BY <1>2 DEF Draft
  <2>2. call'.left = {} /\ call'.at = "start"
    BY <2>1 DEF Idle
  <2> QED  BY <1>1, <2>1, <2>2, BetweenBook
<1>3. CASE Acceptable(k)
  <2> DEFINE row == [state |-> "submitting", reserved |-> Size, filled |-> 0,
                     createdAt |-> now]
  <2>1. /\ intent' = [intent EXCEPT ![k] = row]
        /\ call' = [call EXCEPT !.at = "fetch"] /\ call.at = "synced"
    BY <1>3 DEF Draft
  <2>2. call'.left = {} /\ call'.at = "fetch"
    BY <2>1 DEF Types, CallRecord, BookInv, RangeInv
  <2>3. RangeInv' /\ AccountInv'
    BY <1>1, <2>2, BetweenKept DEF BookInv
  <2>4. row.reserved = Size /\ row.filled = 0
    OBVIOUS
  <2> HIDE DEF row
  <2>5. intent'[k] = row /\ \A j \in Key \ {k} : intent'[j] = intent[j]
    BY <2>1 DEF Types
  <2>6. RowInv(k)'
    <3>1. order[k].status = "none"
      BY DEF Draft, SubmitInv, Submitting
    <3>2. FlowsOf(k) = {}
      <4>1. FillsOf(k) = {}
        BY <3>1 DEF BookInv, TradedInv
      <4> QED  BY <4>1 DEF FlowsOf, FillsOf, BookInv, RangeInv
    <3>3. Total(fills, {}) = 0
      BY TotalFacts DEF Types
    <3>4. Total(fills', FlowsOf(k)') = 0
      BY <1>1, <3>2, <3>3 DEF FlowsOf
    <3> QED  BY <2>4, <2>5, <3>4 DEF RowInv
  <2>7. \A j \in Key : RowInv(j)'
    BY <1>1, <2>5, <2>6, RowKept DEF BookInv
  <2> QED  BY <1>1, <2>3, <2>7, DeskKept
<1> QED  BY <1>2, <1>3

\* Reservations are summed as the lemmas sum them.
LEMMA ReservedSum ==
  ASSUME NEW k \in Key
  PROVE  Reserved(k) = SumOf([j \in Key |-> intent[j].reserved], Unsettled(k))
<1> DEFINE S == Unsettled(k)
           v == [j \in Key |-> intent[j].reserved]
           IsRec(h) == h = [s \in SUBSET S |->
                              IF s = {} THEN 0
                              ELSE intent[Pick(s)].reserved + h[s \ {Pick(s)}]]
           g == CHOOSE h : IsRec(h)
<1>1. S \subseteq Key /\ IsFiniteSet(S)
  BY IntentAssumption, FS_Subset DEF Unsettled
<1>2. Reserved(k) = g[S]
  BY Zenon DEF Reserved, MapThenSumSet, MapThenFoldSet, Pick
<1> HIDE DEF S
<1>3. ASSUME NEW h  PROVE IsFold(h, v, S) <=> IsRec(h)
  <2>1. ASSUME NEW s \in SUBSET S, s # {}
        PROVE  v[Pick(s)] = intent[Pick(s)].reserved
    <3>1. Pick(s) \in Key
      BY <1>1, <2>1, Picked
    <3> QED  BY <3>1
  <2> HIDE DEF v
  <2>2. [s \in SUBSET S |->
           IF s = {} THEN 0 ELSE v[Pick(s)] + h[s \ {Pick(s)}]]
        = [s \in SUBSET S |->
             IF s = {} THEN 0 ELSE intent[Pick(s)].reserved + h[s \ {Pick(s)}]]
    BY <2>1
  <2> QED  BY <2>2 DEF IsFold
<1>4. \E h : IsFold(h, v, S)
  BY <1>1, FoldExists
<1>5. IsRec(g)
  <2> HIDE DEF v, IsRec
  <2> QED  BY <1>3, <1>4
<1> HIDE DEF IsRec, g, v
<1>6. IsFold(g, v, S)
  BY <1>3, <1>5
<1>7. SumOf(v, S) = g[S]
  BY <1>1, <1>6, SumIsFold
<1> QED  BY <1>2, <1>7 DEF v, S

\* What may still be traded is reserved.
LEMMA VenueReserved ==
  ASSUME IInv, NEW k \in Key, MayTrade(k)
  PROVE  intent[k].state \in Live /\ intent[k].reserved = Size
<1>1. CASE order[k].status = "open"
  BY <1>1 DEF IInv, KeyInv, OpenCovered
<1>2. CASE order[k].status = "flight" /\ now <= order[k].expiresAfter
  <2>1. ~(now > order[k].expiresAfter)
    BY <1>2 DEF IInv, Types, Order
  <2> QED  BY <1>2, <2>1 DEF IInv, KeyInv, FlightCovered, Live
<1> QED  BY <1>1, <1>2 DEF MayTrade

\* The POST: what was traded by the time the account was read, what is
\* reserved and the order itself cover all that may ever be traded.
LEMMA DispatchCap ==
  ASSUME IInv, BookInv, NEW k \in Key, Dispatch(k), Acceptable(k)
  PROVE  CapInv'
<1> DEFINE sent == [status |-> "flight", traded |-> 0,
                    expiresAfter |-> now + Window]
<1> SUFFICES ASSUME ~OperatorTraded'
    PROVE  /\ pos' = SumOf([j \in Key |-> order'[j].traded], Key)
           /\ SumOf([j \in Key |-> order'[j].traded + Rest(j)'], Key) <= Cap
  BY DEF CapInv
<1>1. /\ order' = [order EXCEPT ![k] = sent]
      /\ call.at = "synced" /\ call.task = "submit" /\ call.key = k
      /\ UNCHANGED <<now, intent, fills, pos>>
  BY DEF Dispatch
<1>2. /\ sent.traded = 0
      /\ order' \in [Key -> Order] /\ order \in [Key -> Order]
  <2>1. sent \in Order
    BY IntentAssumption DEF IInv, Types, Order, Statuses
  <2> HIDE DEF sent
  <2>2. order' \in [Key -> Order] /\ order \in [Key -> Order]
    BY <1>1, <2>1 DEF IInv, Types
  <2> QED  BY <2>2 DEF sent
<1> HIDE DEF sent
<1>3. order'[k] = sent /\ \A j \in Key \ {k} : order'[j] = order[j]
  BY <1>1, <1>2
<1>4. order[k].status = "none" /\ order[k].traded = 0
  BY <1>1 DEF IInv, SubmitInv, Submitting, BookInv, TradedInv
<1>5. \A j \in Key : order'[j].traded = order[j].traded
  BY <1>2, <1>3, <1>4
<1>6. ~OperatorTraded
  BY <1>1 DEF OperatorTraded
<1>7. pos' = SumOf([j \in Key |-> order'[j].traded], Key)
  <2>1. [j \in Key |-> order'[j].traded] = [j \in Key |-> order[j].traded]
    BY <1>5
  <2> QED  BY <1>1, <1>6, <2>1 DEF BookInv, CapInv
<1>8. PICK t \in [Key -> Nat] : ReadBy(t)
  BY <1>1, <1>6 DEF BookInv, AccountInv
<1> DEFINE v == [j \in Key |-> order'[j].traded + Rest(j)']
           res == [j \in Key |-> IF j = k THEN Size
                                 ELSE IF intent[j].state \in Live
                                        THEN intent[j].reserved ELSE 0]
           u == [j \in Key |-> t[j] + res[j]]
<1>9. /\ IsFiniteSet(Key) /\ Size \in Nat /\ Size > 0
      /\ \A j \in Key : intent[j].reserved \in Int
  BY IntentAssumption DEF IInv, Types, Intent
<1>10. ASSUME NEW j \in Key  PROVE res[j] \in Int /\ t[j] \in Nat
  BY <1>9
<1>11. ASSUME NEW j \in Key
       PROVE  /\ Rest(j)' \in Int /\ order'[j].traded \in 0 .. Size
              /\ order'[j].traded + Rest(j)' <= Size
  <2>1. order'[j].traded \in 0 .. Size
    BY <1>5 DEF BookInv, TradedInv
  <2> QED  BY <1>9, <2>1 DEF Rest
<1>12. ASSUME NEW j \in Key
       PROVE  v[j] \in Int /\ u[j] \in Int /\ v[j] <= u[j]
  <2>1. v[j] = order'[j].traded + Rest(j)' /\ u[j] = t[j] + res[j]
    OBVIOUS
  <2>2. v[j] \in Int /\ u[j] \in Int
    BY <1>9, <1>10, <1>11
  <2>3. CASE j = k
    <3>1. res[j] = Size
      BY <2>3
    <3> HIDE DEF v, u, res
    <3> QED  BY <1>9, <1>10, <1>11, <2>1, <2>2, <3>1
  <2>4. CASE j # k /\ MayTrade(j)
    <3>1. res[j] = Size
      BY <2>4, VenueReserved
    <3> HIDE DEF v, u, res
    <3> QED  BY <1>9, <1>10, <1>11, <2>1, <2>2, <3>1
  <2>5. CASE j # k /\ ~MayTrade(j) /\ intent[j].state \in Live
    <3>1. res[j] = Size
      BY <2>5 DEF BookInv, RowInv
    <3> HIDE DEF v, u, res
    <3> QED  BY <1>9, <1>10, <1>11, <2>1, <2>2, <3>1
  <2>6. CASE j # k /\ ~MayTrade(j) /\ intent[j].state \notin Live
    <3>1. Rest(j)' = 0
      BY <1>1, <1>3, <2>6 DEF Rest, MayTrade
    <3>2. order'[j].traded <= t[j]
      BY <1>5, <1>8, <2>6 DEF ReadBy
    <3>3. res[j] = 0
      BY <2>6
    <3> HIDE DEF v, u, res
    <3> QED  BY <1>9, <1>10, <1>11, <2>1, <2>2, <3>1, <3>2, <3>3
  <2> QED  BY <2>2, <2>3, <2>4, <2>5, <2>6
<1>13. \A j \in Key : u[j] = t[j] + res[j]
  OBVIOUS
<1>14. res[k] = Size /\ SumOf(res, Key \ {k}) = Reserved(k)
  <2> DEFINE T == Unsettled(k)
             w == [j \in Key |-> intent[j].reserved]
  <2>1. T \subseteq Key \ {k} /\ IsFiniteSet(T) /\ IsFiniteSet(Key \ {k})
    BY <1>9, FS_Subset DEF Unsettled
  <2>2. \A j \in Key \ {k} : j \notin T => res[j] = 0
    BY DEF Unsettled
  <2>3. \A j \in T : res[j] = w[j]
    BY DEF Unsettled
  <2>4. Reserved(k) = SumOf(w, T)
    BY ReservedSum
  <2>5. res[k] = Size
    OBVIOUS
  <2> HIDE DEF T, w, res
  <2>6. SumOf(res, Key \ {k}) = SumOf(res, T)
    BY <1>10, <2>1, <2>2, SumZeros
  <2>7. SumOf(res, T) = SumOf(w, T)
    BY <2>1, <2>3, SumEqual
  <2> QED  BY <2>4, <2>5, <2>6, <2>7
<1>15. Reserved(k) + call.account + Size <= Cap
  BY DEF Acceptable
<1>16. call.account = SumOf(t, Key)
  BY <1>8 DEF ReadBy
<1> HIDE DEF v, u, res
<1>17. SumOf(v, Key) <= SumOf(u, Key)
  BY <1>9, <1>12, SumMonotone
<1>18. SumOf(u, Key) = SumOf(t, Key) + SumOf(res, Key)
  BY <1>9, <1>10, <1>13, SumPlus
<1>19. SumOf(res, Key) = res[k] + SumOf(res, Key \ {k})
  BY <1>9, <1>10, SumTerm
<1>20. /\ SumOf(v, Key) \in Int /\ SumOf(t, Key) \in Int
       /\ SumOf(res, Key \ {k}) \in Int
  BY <1>9, <1>10, <1>12, SumType, FS_Subset
<1>21. SumOf(v, Key) <= Cap
  <2> DEFINE a == SumOf(v, Key)
             b == SumOf(u, Key)
             c == SumOf(t, Key)
             d == SumOf(res, Key)
             e == Reserved(k)
  <2>1. /\ a <= b /\ b = c + d /\ d = Size + e /\ e + c + Size <= Cap
        /\ a \in Int /\ c \in Int /\ e \in Int /\ Cap \in Int /\ Size \in Int
    BY <1>14, <1>15, <1>16, <1>17, <1>18, <1>19, <1>20, IntentAssumption
  <2> HIDE DEF a, b, c, d, e
  <2>2. a <= Cap
    BY <2>1
  <2> QED  BY <2>2 DEF a
<1> QED  BY <1>7, <1>21 DEF v

LEMMA DispatchBook ==
  ASSUME IInv, BookInv, NEW k \in Key, Dispatch(k)
  PROVE  BookInv'
<1>1. CASE ~Acceptable(k)
  <2>1. /\ intent' = [intent EXCEPT ![k].state = "rejected", ![k].reserved = 0]
        /\ call' = Idle
        /\ UNCHANGED <<now, flows, order, fills, pos>>
    BY <1>1 DEF Dispatch, Reject
  <2>2. call'.left = {} /\ call'.at = "start"
    BY <2>1 DEF Idle
  <2>3. "rejected" \notin Live
    BY DEF Live
  <2>4. \A j \in Key : RowInv(j)'
    BY <2>1, <2>3, RowsKept DEF BookInv, IInv
  <2>5. RangeInv' /\ AccountInv'
    BY <2>1, <2>2, BetweenKept DEF BookInv
  <2> QED  BY <2>1, <2>4, <2>5, DeskKept
<1>2. CASE Acceptable(k)
  <2> DEFINE sent == [status |-> "flight", traded |-> 0,
                      expiresAfter |-> now + Window]
  <2>1. /\ order' = [order EXCEPT ![k] = sent]
        /\ call' = [call EXCEPT !.at = "ack"]
        /\ call.at = "synced" /\ call.task = "submit" /\ call.key = k
        /\ UNCHANGED <<now, intent, flows, fills, pos>>
    BY <1>2 DEF Dispatch
  <2>2. call'.left = {} /\ call'.at = "ack"
    BY <2>1 DEF IInv, Types, CallRecord, BookInv, RangeInv
  <2>3. RangeInv' /\ AccountInv'
    BY <2>1, <2>2, BetweenKept DEF BookInv
  <2>4. \A j \in Key : RowInv(j)'
    BY <2>1, RowKept DEF BookInv
  <2>5. sent.traded = 0 /\ sent.status = "flight"
    OBVIOUS
  <2> HIDE DEF sent
  <2>6. order'[k] = sent /\ \A j \in Key \ {k} : order'[j] = order[j]
    BY <2>1 DEF IInv, Types
  <2>7. TradedInv(k)'
    <3>1. order[k].status = "none"
      BY <2>1 DEF IInv, SubmitInv, Submitting
    <3>2. FillsOf(k) = {} /\ order[k].traded = 0
      BY <3>1 DEF BookInv, TradedInv
    <3>3. FillsOf(k)' = {}
      BY <2>1, <3>2 DEF FillsOf
    <3>4. Total(fills, {}) = 0
      BY TotalFacts DEF IInv, Types
    <3>5. 0 \in 0 .. Size
      BY IntentAssumption
    <3> QED  BY <2>1, <2>5, <2>6, <3>3, <3>4, <3>5 DEF TradedInv
  <2>8. \A j \in Key : TradedInv(j)'
    BY <2>1, <2>6, <2>7, TradedKept DEF BookInv
  <2>9. CapInv'
    BY <1>2, DispatchCap
  <2> QED  BY <2>3, <2>4, <2>8, <2>9 DEF BookInv
<1> QED  BY <1>1, <1>2

\* What the exchange does to an order: lots only while it may trade, and no
\* more than the order asks for.
Ends == {"open", "filled", "canceled", "refused"}
TradesAs(k, lots, s) ==
  /\ Trade(k, lots, s)
  /\ MayTrade(k) \/ (lots = 0 /\ s # "open")
  /\ order[k].traded + lots <= Size
  /\ s = "refused" => lots = 0 /\ order[k].status = "flight"

LEMMA TradeShape ==
  ASSUME Types, NEW k \in Key, TradedInv(k)
  PROVE  /\ Arrive(k) \/ Refuse(k) \/ Cancel(k) =>
              \E lots \in Nat : \E s \in Ends : TradesAs(k, lots, s)
         /\ \A n \in 1 .. Size : Fill(k, n) =>
              \E lots \in Nat : \E s \in Ends : TradesAs(k, lots, s)
<1> DEFINE Shape == \E lots \in Nat : \E s \in Ends : TradesAs(k, lots, s)
<1>1. order[k].traded \in Nat /\ order[k].traded <= Size /\ Size \in Nat
  BY IntentAssumption DEF TradedInv
<1>2. ASSUME Arrive(k)  PROVE Shape
  <2>1. MayTrade(k) /\ order[k].traded = 0
    BY <1>2 DEF Arrive, MayTrade, TradedInv
  <2>2. CASE Quoting
    <3>1. Trade(k, 0, "open")
      BY <1>2, <2>2 DEF Arrive
    <3>2. order[k].traded + 0 <= Size
      BY <1>1
    <3>3. TradesAs(k, 0, "open")
      BY <2>1, <3>1, <3>2 DEF TradesAs
    <3> QED  BY <3>3 DEF Ends
  <2>3. CASE ~Quoting
    <3>1. PICK lots \in 1 .. Size :
            Trade(k, lots, IF lots = Size THEN "filled" ELSE "canceled")
      BY <1>2, <2>3 DEF Arrive
    <3>2. lots \in Nat /\ order[k].traded + lots <= Size
      BY <1>1, <2>1
    <3>3. CASE lots = Size
      <4>1. TradesAs(k, lots, "filled")
        BY <2>1, <3>1, <3>2, <3>3 DEF TradesAs
      <4> QED  BY <3>2, <4>1 DEF Ends
    <3>4. CASE lots # Size
      <4>1. TradesAs(k, lots, "canceled")
        BY <2>1, <3>1, <3>2, <3>4 DEF TradesAs
      <4> QED  BY <3>2, <4>1 DEF Ends
    <3> QED  BY <3>3, <3>4
  <2> QED  BY <2>2, <2>3
<1>3. ASSUME Refuse(k) \/ Cancel(k)  PROVE Shape
  <2>1. order[k].traded + 0 <= Size
    BY <1>1
  <2>2. TradesAs(k, 0, "refused") \/ TradesAs(k, 0, "canceled")
    BY <1>3, <2>1 DEF Refuse, Cancel, TradesAs
  <2> QED  BY <2>2 DEF Ends
<1>4. ASSUME NEW n \in 1 .. Size, Fill(k, n)  PROVE Shape
  <2>1. /\ order[k].status = "open" /\ n \in 1 .. Size - order[k].traded
        /\ Trade(k, n, IF order[k].traded + n = Size
                         THEN "filled" ELSE "open")
    BY <1>4 DEF Fill
  <2>2. n \in Nat /\ order[k].traded + n <= Size /\ MayTrade(k)
    BY <1>1, <2>1 DEF MayTrade
  <2>3. CASE order[k].traded + n = Size
    <3>1. TradesAs(k, n, "filled")
      BY <2>1, <2>2, <2>3 DEF TradesAs
    <3> QED  BY <2>2, <3>1 DEF Ends
  <2>4. CASE order[k].traded + n # Size
    <3>1. TradesAs(k, n, "open")
      BY <2>1, <2>2, <2>4 DEF TradesAs
    <3> QED  BY <2>2, <3>1 DEF Ends
  <2> QED  BY <2>3, <2>4
<1> QED  BY <1>2, <1>3, <1>4

\* A trade adds its lots to the order, its fills and the position alike, and
\* takes them from what may still be traded.
LEMMA TradeBook ==
  ASSUME IInv, BookInv, NEW k \in Key, NEW lots \in Nat, NEW s \in Ends,
         TradesAs(k, lots, s)
  PROVE  BookInv'
<1>0. /\ Trade(k, lots, s)
      /\ MayTrade(k) \/ (lots = 0 /\ s # "open")
      /\ order[k].traded + lots <= Size
      /\ s = "refused" => lots = 0 /\ order[k].status = "flight"
      /\ s \in {"open", "filled", "canceled", "refused"}
  BY DEF TradesAs, Ends
<1> USE <1>0
<1>1. UNCHANGED <<now, intent, flows, call>> /\ pos' = pos + lots
  BY DEF Trade, db
<1> DEFINE o == [status |-> s, traded |-> order[k].traded + lots,
                 expiresAfter |-> 0]
           e == [key |-> k, lots |-> lots]
           N == Len(fills) + 1
<1>2. /\ order' = [order EXCEPT ![k] = o]
      /\ fills' = IF lots = 0 THEN fills ELSE Append(fills, e)
  BY DEF Trade
<1>3. /\ o.status = s /\ o.traded = order[k].traded + lots
      /\ e \in FillRecord /\ e.key = k /\ e.lots = lots
  BY DEF FillRecord
<1> HIDE DEF o, e
<1>4. fills \in Seq(FillRecord) /\ order \in [Key -> Order]
  BY DEF IInv, Types
<1>5. order'[k] = o /\ \A j \in Key \ {k} : order'[j] = order[j]
  BY <1>2, <1>4
<1>6. \A j \in Key : order[j].traded \in 0 .. Size /\ order[j].traded \in Nat
  BY IntentAssumption DEF BookInv, TradedInv
<1>7. Len(fills) \in Nat /\ DOMAIN fills = 1 .. Len(fills)
  BY <1>4
\* What was there before stays, and there is at most one fill more.
<1>8. /\ DOMAIN fills \subseteq DOMAIN fills'
      /\ \A n \in DOMAIN fills : fills'[n] = fills[n]
      /\ \A ns \in SUBSET DOMAIN fills : Total(fills', ns) = Total(fills, ns)
      /\ fills' \in Seq(FillRecord)
      /\ \A n \in DOMAIN fills' :
           n \notin DOMAIN fills => n = N /\ lots # 0 /\ fills'[n] = e
  <2>1. CASE lots = 0
    BY <1>2, <1>4, <2>1
  <2>2. CASE lots # 0
    BY <1>2, <1>3, <1>4, <2>2, TotalAppend
  <2> QED  BY <2>1, <2>2
<1>9. OperatorTraded => OperatorTraded'
  BY <1>8 DEF OperatorTraded
<1>10. ASSUME NEW j \in Key
       PROVE  FlowsOf(j)' = FlowsOf(j) /\ FlowsOf(j) \in SUBSET DOMAIN fills
  BY <1>1, <1>8 DEF FlowsOf, BookInv, RangeInv
<1>11. ASSUME NEW j \in Key  PROVE RowInv(j)'
  <2>1. Total(fills', FlowsOf(j)') = Total(fills, FlowsOf(j))
    BY <1>8, <1>10
  <2> QED  BY <1>1, <2>1 DEF BookInv, RowInv
<1>12. RangeInv'
  <2>1. \A n \in DOMAIN fills' : fills'[n].key \in Key => fills'[n].lots \in Nat
    BY <1>3, <1>8 DEF BookInv, RangeInv
  <2> QED  BY <1>1, <1>8, <2>1 DEF BookInv, RangeInv
<1>13. ASSUME NEW j \in Key \ {k}  PROVE TradedInv(j)'
  <2>1. FillsOf(j)' = FillsOf(j) /\ FillsOf(j) \in SUBSET DOMAIN fills
    BY <1>3, <1>8 DEF FillsOf
  <2>2. Total(fills', FillsOf(j)') = Total(fills, FillsOf(j))
    BY <1>8, <2>1
  <2> QED  BY <1>5, <2>1, <2>2 DEF BookInv, TradedInv
<1>14. TradedInv(k)'
  <2>1. order'[k].traded \in 0 .. Size
    BY <1>3, <1>5, <1>6, IntentAssumption
  <2>2. FillsOf(k) \in SUBSET DOMAIN fills /\ N \notin FillsOf(k)
    BY <1>7 DEF FillsOf
  <2>3. CASE lots = 0
    <3>1. FillsOf(k)' = FillsOf(k) /\ fills' = fills
      BY <1>2, <2>3 DEF FillsOf
    <3>2. order'[k].traded = order[k].traded
      BY <1>3, <1>5, <1>6, <2>3
    <3>3. order'[k].status = s /\ (s = "refused" => order[k].status = "flight")
      BY <1>3, <1>5
    <3> QED  BY <2>1, <3>1, <3>2, <3>3 DEF BookInv, TradedInv
  <2>4. CASE lots # 0
    <3>1. FillsOf(k)' = FillsOf(k) \cup {N} /\ N \in DOMAIN fills' \ FillsOf(k)
          /\ fills'[N].lots = lots
      <4>1. /\ DOMAIN fills' = DOMAIN fills \cup {N} /\ fills'[N] = e
            /\ N \notin DOMAIN fills
        BY <1>2, <1>3, <1>4, <2>4, TotalAppend
      <4> QED  BY <1>3, <1>8, <4>1 DEF FillsOf
    <3>2. FillsOf(k) \in SUBSET DOMAIN fills'
      BY <1>8, <2>2
    <3>3. Total(fills', FillsOf(k) \cup {N}) = Total(fills', FillsOf(k)) + lots
      BY <1>8, <3>1, <3>2, TotalFacts
    <3>4. Total(fills', FillsOf(k)) = order[k].traded
      BY <1>8, <2>2 DEF BookInv, TradedInv
    <3>5. order'[k].traded = Total(fills', FillsOf(k)')
      BY <1>3, <1>5, <3>1, <3>3, <3>4
    <3>6. order'[k].status = s /\ s # "refused"
      BY <1>3, <1>5, <2>4
    <3> QED  BY <2>1, <3>5, <3>6 DEF TradedInv
  <2> QED  BY <2>3, <2>4
<1>15. AccountInv'
  <2> SUFFICES ASSUME ~OperatorTraded',
                      call.at \in {"import", "compare", "synced"}
      PROVE  \E t \in [Key -> Nat] : ReadBy(t)'
    BY <1>1 DEF AccountInv
  <2>1. PICK t \in [Key -> Nat] : ReadBy(t)
    BY <1>9 DEF BookInv, AccountInv
  <2>2. ASSUME NEW j \in Key, intent[j].state \notin Live
        PROVE  order'[j].traded <= t[j]
    <3>1. order[j].traded <= t[j]
      BY <2>1, <2>2 DEF ReadBy
    <3>2. j = k => lots = 0
      BY <2>2, VenueReserved
    <3>3. order'[j].traded = order[j].traded
      BY <1>3, <1>5, <1>6, <3>2
    <3> QED  BY <3>1, <3>3
  <2>3. ASSUME NEW j \in Key
        PROVE  LET ns == {n \in 1 .. call.upTo : fills[n].key = j}
                   ms == {n \in 1 .. call.upTo : fills'[n].key = j}
               IN  Total(fills', ms) = Total(fills, ns)
    <3> DEFINE ns == {n \in 1 .. call.upTo : fills[n].key = j}
               ms == {n \in 1 .. call.upTo : fills'[n].key = j}
    <3>1. 1 .. call.upTo \subseteq DOMAIN fills
      BY <1>7 DEF IInv, Types, CallRecord
    <3>2. ns = ms /\ ns \in SUBSET DOMAIN fills
      BY <1>8, <3>1
    <3> HIDE DEF ns, ms
    <3> QED  BY <1>8, <3>2 DEF ns, ms
  <2>4. ReadBy(t)'
    BY <1>1, <2>1, <2>2, <2>3 DEF ReadBy
  <2> QED  BY <2>4
<1>16. CapInv'
  <2> SUFFICES ASSUME ~OperatorTraded'
      PROVE  /\ pos' = SumOf([j \in Key |-> order'[j].traded], Key)
             /\ SumOf([j \in Key |-> order'[j].traded + Rest(j)'], Key) <= Cap
    BY DEF CapInv
  <2> DEFINE v == [j \in Key |-> order[j].traded]
             w == [j \in Key |-> order'[j].traded]
             x == [j \in Key |-> order[j].traded + Rest(j)]
             y == [j \in Key |-> order'[j].traded + Rest(j)']
  <2>1. pos = SumOf(v, Key) /\ SumOf(x, Key) <= Cap
    BY <1>9 DEF BookInv, CapInv
  <2>2. IsFiniteSet(Key) /\ Size \in Nat /\ Cap \in Nat
    BY IntentAssumption
  <2>3. \A j \in Key : order'[j].traded \in 0 .. Size
    BY <1>13, <1>14 DEF TradedInv
  <2>4. \A j \in Key : v[j] \in Int /\ w[j] \in Int
    BY <1>6, <2>2, <2>3
  <2>5. ASSUME NEW j \in Key
        PROVE  x[j] \in Int /\ y[j] \in Int /\ y[j] <= x[j]
    <3>1. Rest(j) \in Int /\ Rest(j)' \in Int
      BY <1>6, <2>2, <2>3 DEF Rest
    <3>2. x[j] \in Int /\ y[j] \in Int
      BY <1>6, <2>2, <2>3, <3>1
    <3>3. CASE j # k
      <4>1. order'[j] = order[j] /\ Rest(j)' = Rest(j)
        BY <1>1, <1>5, <3>3 DEF Rest, MayTrade
      <4> QED  BY <3>2, <4>1
    <3>4. CASE j = k
      <4>1. order'[k].traded = order[k].traded + lots /\ order'[k].status = s
        BY <1>3, <1>5
      <4>2. CASE MayTrade(k)
        <5>1. x[k] = Size
          BY <1>6, <2>2, <4>2 DEF Rest
        <5>2. order'[k].traded + Rest(k)' <= Size
          BY <1>6, <2>2, <2>3 DEF Rest
        <5> QED  BY <3>2, <3>4, <5>1, <5>2
      <4>3. CASE ~MayTrade(k)
        <5>1. lots = 0 /\ s # "open"
          BY <4>3
        <5>2. Rest(k) = 0 /\ Rest(k)' = 0
          BY <4>1, <4>3, <5>1 DEF Rest, MayTrade
        <5> QED  BY <1>6, <3>2, <3>4, <4>1, <5>1, <5>2
      <4> QED  BY <4>2, <4>3
    <3> QED  BY <3>2, <3>3, <3>4
  <2>6. \A j \in Key \ {k} : v[j] = w[j]
    BY <1>5
  <2>7. v[k] \in Int /\ w[k] = v[k] + lots
    BY <1>3, <1>5, <2>4
  <2> HIDE DEF v, w, x, y
  <2>8. SumOf(y, Key) <= SumOf(x, Key)
    BY <2>2, <2>5, SumMonotone
  <2>9. SumOf(w, Key) = SumOf(v, Key) + w[k] - v[k]
    BY <2>2, <2>4, <2>6, SumChange
  <2>10. /\ SumOf(v, Key) \in Int /\ SumOf(x, Key) \in Int
         /\ SumOf(y, Key) \in Int
    BY <2>2, <2>4, <2>5, SumType
  <2>11. pos' = SumOf(w, Key)
    BY <1>1, <2>1, <2>7, <2>9, <2>10
  <2>12. SumOf(y, Key) <= Cap
    BY <2>1, <2>2, <2>8, <2>10
  <2> QED  BY <2>11, <2>12 DEF w, y
<1>17. \A j \in Key : TradedInv(j)' /\ RowInv(j)'
  BY <1>11, <1>13, <1>14
<1> QED  BY <1>12, <1>15, <1>16, <1>17 DEF BookInv

\* The operator's own trade belongs to no order, and from then on the cap is
\* the operator's business.
LEMMA ManualBook ==
  ASSUME Types, BookInv, NEW lots \in {-1, 1}, ManualTrade(lots)
  PROVE  BookInv'
<1> DEFINE e == [key |-> Operator, lots |-> lots]
           N == Len(fills) + 1
<1>1. /\ fills' = Append(fills, e)
      /\ UNCHANGED <<now, intent, flows, call, order>>
  BY DEF ManualTrade, db
<1>2. e \in FillRecord /\ e.key = Operator /\ Operator \notin Key
  BY IntentAssumption DEF FillRecord
<1> HIDE DEF e
<1>3. /\ fills' \in Seq(FillRecord)
      /\ DOMAIN fills' = DOMAIN fills \cup {N} /\ N \notin DOMAIN fills
      /\ \A n \in DOMAIN fills : fills'[n] = fills[n]
      /\ fills'[N] = e
      /\ \A ns \in SUBSET DOMAIN fills : Total(fills', ns) = Total(fills, ns)
  BY <1>1, <1>2, TotalAppend DEF Types
<1>4. OperatorTraded'
  BY <1>2, <1>3 DEF OperatorTraded
<1>5. AccountInv' /\ CapInv'
  BY <1>4 DEF AccountInv, CapInv
<1>6. RangeInv'
  BY <1>1, <1>2, <1>3 DEF BookInv, RangeInv
<1>7. ASSUME NEW j \in Key  PROVE RowInv(j)'
  <2>1. FlowsOf(j)' = FlowsOf(j) /\ FlowsOf(j) \in SUBSET DOMAIN fills
    BY <1>1, <1>3 DEF FlowsOf, BookInv, RangeInv
  <2>2. Total(fills', FlowsOf(j)') = Total(fills, FlowsOf(j))
    BY <1>3, <2>1
  <2> QED  BY <1>1, <2>2 DEF BookInv, RowInv
<1>8. ASSUME NEW j \in Key  PROVE TradedInv(j)'
  <2>1. FillsOf(j)' = FillsOf(j) /\ FillsOf(j) \in SUBSET DOMAIN fills
    BY <1>2, <1>3 DEF FillsOf
  <2>2. Total(fills', FillsOf(j)') = Total(fills, FillsOf(j))
    BY <1>3, <2>1
  <2> QED  BY <1>1, <2>1, <2>2 DEF BookInv, TradedInv
<1> QED  BY <1>5, <1>6, <1>7, <1>8 DEF BookInv

\* Time only takes away what may still be traded.
LEMMA TickBook ==
  ASSUME Types, BookInv, Tick
  PROVE  BookInv'
<1>1. /\ now \in Nat /\ now' = now + 1
      /\ UNCHANGED <<intent, flows, call, order, fills, pos>>
  BY DEF Tick, Types, db, exchange
<1>2. RangeInv'
  BY <1>1 DEF BookInv, RangeInv
<1>3. AccountInv'
  <2> SUFFICES ASSUME ~OperatorTraded',
                      call.at \in {"import", "compare", "synced"}
      PROVE  \E t \in [Key -> Nat] : ReadBy(t)'
    BY <1>1 DEF AccountInv
  <2>1. PICK t \in [Key -> Nat] : ReadBy(t)
    BY <1>1 DEF BookInv, AccountInv, OperatorTraded
  <2>2. ReadBy(t)'
    BY <1>1, <2>1 DEF ReadBy
  <2> QED  BY <2>2
<1>4. \A k \in Key : TradedInv(k)' /\ RowInv(k)'
  BY <1>1, TradedKept, RowKept DEF BookInv
<1>5. CapInv'
  <2> SUFFICES ASSUME ~OperatorTraded'
      PROVE  /\ pos' = SumOf([j \in Key |-> order'[j].traded], Key)
             /\ SumOf([j \in Key |-> order'[j].traded + Rest(j)'], Key) <= Cap
    BY DEF CapInv
  <2> DEFINE x == [j \in Key |-> order[j].traded + Rest(j)]
             y == [j \in Key |-> order'[j].traded + Rest(j)']
  <2>1. pos' = SumOf([j \in Key |-> order'[j].traded], Key)
        /\ SumOf(x, Key) <= Cap
    BY <1>1 DEF BookInv, CapInv, OperatorTraded
  <2>2. IsFiniteSet(Key) /\ Size \in Nat /\ Cap \in Nat
    BY IntentAssumption
  <2>3. ASSUME NEW j \in Key
        PROVE  x[j] \in Int /\ y[j] \in Int /\ y[j] <= x[j]
    <3>1. order[j].traded \in 0 .. Size /\ order'[j] = order[j]
      BY <1>1 DEF BookInv, TradedInv
    <3>2. MayTrade(j)' => MayTrade(j)
      BY <1>1, <3>1 DEF MayTrade, Types, Order
    <3> QED  BY <2>2, <3>1, <3>2 DEF Rest
  <2> HIDE DEF x, y
  <2>4. SumOf(y, Key) <= SumOf(x, Key)
    BY <2>2, <2>3, SumMonotone
  <2>5. SumOf(x, Key) \in Int /\ SumOf(y, Key) \in Int
    BY <2>2, <2>3, SumType
  <2>6. SumOf(y, Key) <= Cap
    BY <2>1, <2>2, <2>4, <2>5
  <2> QED  BY <2>1, <2>6 DEF y
<1> QED  BY <1>2, <1>3, <1>4, <1>5 DEF BookInv

\* Nothing is traded, booked or reserved at first.
LEMMA BookInit == Init => BookInv
<1> SUFFICES ASSUME Init  PROVE BookInv
  OBVIOUS
<1>1. fills \in Seq(FillRecord) /\ DOMAIN fills = {}
  BY DEF Init
<1>2. Total(fills, {}) = 0
  BY <1>1, TotalFacts
<1>3. ASSUME NEW k \in Key  PROVE TradedInv(k) /\ RowInv(k)
  <2>1. FillsOf(k) = {} /\ FlowsOf(k) = {}
    BY <1>1 DEF Init, FillsOf, FlowsOf
  <2>2. order[k].traded = 0 /\ intent[k].filled = 0 /\ intent[k].state = "none"
    BY DEF Init, NoOrder, NoIntent
  <2>3. 0 \in 0 .. Size
    BY IntentAssumption
  <2> QED  BY <1>2, <2>1, <2>2, <2>3 DEF TradedInv, RowInv, Live
<1>4. RangeInv /\ AccountInv
  BY DEF Init, Idle, RangeInv, AccountInv
<1>5. CapInv
  <2> DEFINE v == [k \in Key |-> order[k].traded]
             w == [k \in Key |-> order[k].traded + Rest(k)]
  <2>1. \A k \in Key : v[k] = 0 /\ w[k] = 0
    BY DEF Init, NoOrder, Rest, MayTrade
  <2>2. IsFiniteSet(Key) /\ Cap \in Nat /\ {} \in SUBSET Key
    BY IntentAssumption
  <2> HIDE DEF v, w
  <2>3. SumOf(v, Key) = 0 /\ SumOf(w, Key) = 0
    <3>1. SumOf(v, {}) = 0 /\ SumOf(w, {}) = 0
      BY <2>2, SumStep
    <3>2. SumOf(v, Key) = SumOf(v, {}) /\ SumOf(w, Key) = SumOf(w, {})
      BY <2>1, <2>2, SumZeros
    <3> QED  BY <3>1, <3>2
  <2>4. pos = 0
    BY DEF Init
  <2> QED  BY <2>2, <2>3, <2>4 DEF CapInv, v, w
<1> QED  BY <1>3, <1>4, <1>5 DEF BookInv

\* Every step keeps the ledger and the cap.
LEMMA BookNext == ASSUME IInv, BookInv, Next  PROVE BookInv'
<1>0. Types /\ SubmitInv /\ \A k \in Key : TradedInv(k)
  BY DEF IInv, BookInv
<1>1. CASE \/ Reconcile \/ AskHandover \/ Crash \/ Adopt
           \/ \E k \in Key : Submit(k) \/ Abandon(k)
  BY <1>1, CallsBook
<1>2. CASE \/ \E from \in 1 .. lastSync + 1 : Fetch(from)
           \/ \E k \in Key : ReadStatus(k) \/ Verify(k)
  BY <1>0, <1>2, FetchBook, StatusBook, VerifyBook
<1>3. CASE ReadAccount \/ Import \/ Settle \/ Compare
  BY <1>0, <1>3, AccountBook, ImportBook, SettleBook, CompareBook
<1>4. ASSUME NEW k \in Key,
             \/ Draft(k) \/ Dispatch(k) \/ FailBeforeDispatch(k)
             \/ \E childError \in BOOLEAN : Acknowledge(k, childError)
             \/ LoseAnswer(k) \/ ReleaseReservation(k)
      PROVE  BookInv'
  BY <1>0, <1>4, DraftBook, DispatchBook, AnswerBook
<1>5. ASSUME NEW k \in Key,
             \/ Arrive(k) \/ Refuse(k) \/ Cancel(k)
             \/ \E lots \in 1 .. Size : Fill(k, lots)
      PROVE  BookInv'
  <2>1. \E lots \in Nat : \E s \in Ends : TradesAs(k, lots, s)
    BY <1>0, <1>5, TradeShape
  <2> QED  BY <2>1, TradeBook
<1>6. CASE Tick \/ \E lots \in {-1, 1} : ManualTrade(lots)
  BY <1>0, <1>6, TickBook, ManualBook
<1> QED  BY <1>1, <1>2, <1>3, <1>4, <1>5, <1>6 DEF Next, Progress

LEMMA BookStutter == ASSUME BookInv, UNCHANGED vars  PROVE BookInv'
<1>1. UNCHANGED <<now, intent, flows, call, order, fills, pos>>
  BY DEF vars, db, exchange
<1>2. RangeInv' /\ CapInv'
  BY <1>1, CapKept DEF BookInv, RangeInv
<1>3. AccountInv'
  BY <1>1 DEF BookInv, AccountInv, ReadBy, OperatorTraded
<1>4. \A k \in Key : TradedInv(k)' /\ RowInv(k)'
  BY <1>1, TradedKept, RowKept DEF BookInv
<1> QED  BY <1>2, <1>3, <1>4 DEF BookInv

\* In every reachable state the rows, the cash flows and the fills of the
\* exchange agree, and what may be traded is covered by what is reserved
\* and what was read.
THEOREM LedgerInductive == Spec => []BookInv
<1>1. ASSUME IInv, BookInv, [Next]_vars  PROVE BookInv'
  BY <1>1, BookNext, BookStutter
<1> QED  BY BookInit, <1>1, IntentsInductive, PTL DEF Spec

\* Fills that are read again, after a crash too, are booked once, and an
\* order's row counts exactly its cash flows and never more than the exchange
\* has traded (syncLedger).
THEOREM BooksOnce == Spec => []FillsBookedOnce
<1>1. ASSUME IInv, BookInv, NEW k \in Key
      PROVE  /\ intent[k].filled = Lots({n \in flows : fills[n].key = k})
             /\ intent[k].filled <= order[k].traded
  <2>1. FlowsOf(k) \in SUBSET FillsOf(k) /\ FillsOf(k) \in SUBSET DOMAIN fills
    BY <1>1 DEF FlowsOf, FillsOf, BookInv, RangeInv
  <2>2. Lots(FlowsOf(k)) = Total(fills, FlowsOf(k))
    BY <1>1, <2>1, LotsTotal DEF IInv, Types
  <2>3. \A n \in FillsOf(k) : fills[n].lots \in Nat
    BY <1>1 DEF FillsOf, BookInv, RangeInv
  <2>4. Total(fills, FlowsOf(k)) <= Total(fills, FillsOf(k))
    BY <1>1, <2>1, <2>3, TotalPart DEF IInv, Types
  <2> QED  BY <1>1, <2>2, <2>4 DEF BookInv, RowInv, TradedInv, FlowsOf
<1>2. IInv /\ BookInv => FillsBookedOnce
  BY <1>1 DEF FillsBookedOnce
<1> QED  BY <1>2, IntentsInductive, LedgerInductive, PTL

\* What an order may still trade, summed as the lemmas sum it.
LEMMA RestSum ==
  LET rest(k) == IF MayTrade(k) THEN Size - order[k].traded ELSE 0
  IN  MapThenSumSet(rest, Key) = SumOf([k \in Key |-> Rest(k)], Key)
<1> DEFINE rest(k) == IF MayTrade(k) THEN Size - order[k].traded ELSE 0
           v == [k \in Key |-> Rest(k)]
           IsRec(h) == h = [s \in SUBSET Key |->
                              IF s = {} THEN 0
                              ELSE rest(Pick(s)) + h[s \ {Pick(s)}]]
           g == CHOOSE h : IsRec(h)
<1>1. IsFiniteSet(Key)
  BY IntentAssumption
<1>2. MapThenSumSet(rest, Key) = g[Key]
  BY Zenon DEF MapThenSumSet, MapThenFoldSet, Pick
<1>3. ASSUME NEW h  PROVE IsFold(h, v, Key) <=> IsRec(h)
  <2>1. ASSUME NEW s \in SUBSET Key, s # {}
        PROVE  v[Pick(s)] = rest(Pick(s))
    <3>1. Pick(s) \in Key
      BY <2>1, Picked
    <3> QED  BY <3>1 DEF Rest
  <2> HIDE DEF v, rest
  <2>2. [s \in SUBSET Key |->
           IF s = {} THEN 0 ELSE v[Pick(s)] + h[s \ {Pick(s)}]]
        = [s \in SUBSET Key |->
             IF s = {} THEN 0 ELSE rest(Pick(s)) + h[s \ {Pick(s)}]]
    BY <2>1
  <2> QED  BY <2>2 DEF IsFold
<1>4. \E h : IsFold(h, v, Key)
  BY <1>1, FoldExists
<1>5. IsRec(g)
  <2> HIDE DEF v, IsRec
  <2> QED  BY <1>3, <1>4
<1>6. IsFold(g, v, Key)
  <2> HIDE DEF g, v, IsRec
  <2> QED  BY <1>3, <1>5
<1>7. SumOf(v, Key) = g[Key]
  <2> HIDE DEF g, v
  <2> QED  BY <1>1, <1>6, SumIsFold
<1> QED  BY <1>2, <1>7

\* Whatever fails, is retried, answered late or released: the position and
\* all that the exchange may still add to it stay under the cap of the
\* mandate, as long as the operator keeps off the account (prepare,
\* assessDeskOrder and syncLedger together).
THEOREM StaysUnderCap == Spec => []CapHolds
<1>1. ASSUME BookInv, ~OperatorTraded
      PROVE  LET rest(k) == IF MayTrade(k) THEN Size - order[k].traded ELSE 0
             IN  pos + MapThenSumSet(rest, Key) <= Cap
  <2> DEFINE v == [k \in Key |-> order[k].traded]
             w == [k \in Key |-> Rest(k)]
             u == [k \in Key |-> order[k].traded + Rest(k)]
             rest(k) == IF MayTrade(k) THEN Size - order[k].traded ELSE 0
  <2>1. pos = SumOf(v, Key) /\ SumOf(u, Key) <= Cap
    BY <1>1 DEF BookInv, CapInv
  <2>2. \A k \in Key : order[k].traded \in Int /\ Rest(k) \in Int
    BY <1>1, IntentAssumption DEF BookInv, TradedInv, Rest
  <2>3. \A k \in Key : v[k] \in Int /\ w[k] \in Int /\ u[k] = v[k] + w[k]
    BY <2>2
  <2>4. MapThenSumSet(rest, Key) = SumOf(w, Key)
    BY RestSum
  <2> HIDE DEF u, v, w, rest
  <2>5. SumOf(u, Key) = SumOf(v, Key) + SumOf(w, Key)
    BY <2>3, IntentAssumption, SumPlus
  <2>6. pos + MapThenSumSet(rest, Key) <= Cap
    BY <2>1, <2>4, <2>5
  <2> QED  BY <2>6 DEF rest
<1>2. BookInv => CapHolds
  BY <1>1 DEF CapHolds
<1> QED  BY <1>2, LedgerInductive, PTL
=============================================================================
