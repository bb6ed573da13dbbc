---------------------------- MODULE DeskBookProofs ----------------------------
(***************************************************************************)
(* What is proved of a directional book beside its orders (MCDeskBook): of *)
(* turns of the model, roundtables, research, passes and news, for any     *)
(* number of events, roles' calls, passes and messages.                    *)
(*                                                                         *)
(* A behaviour is one of the part that is chosen at its start, so that the *)
(* invariant has for each part what holds while it acts.                   *)
(***************************************************************************)
EXTENDS MCDeskBook, SequenceTheorems, TLAPS

-----------------------------------------------------------------------------
(* A turn of the model *)

XMessage == [kind : {"started", "response", "usage", "final", "tool",
                     "completed"}, total : Nat]
XUsage == [status : {"none", "running", "completed", "failed", "cancelled"},
           total : Nat]
Ended == {"completed", "failed", "cancelled"}

TurnTypes ==
  /\ spent \in Nat /\ reported \in Nat
  /\ usageRow \in XUsage
  /\ writes \in Seq(Nat) /\ pipe \in Seq(XMessage)

\* The model is asked after there is a row, and spends nothing before.
Registered ==
  spent > 0 \/ model # "idle" \/ pipe # <<>> \/ tool = TRUE =>
    usageRow.status # "none"

\* The chain has totals that grow, up to the last one that arrived; what is on
\* its way is not less.
Chain ==
  /\ usageRow.total <= reported /\ reported <= spent
  /\ \A i \in 1 .. Len(writes) :
       /\ usageRow.total <= writes[i] /\ writes[i] <= reported
       /\ \A j \in i .. Len(writes) : writes[i] <= writes[j]
  /\ \A i \in 1 .. Len(pipe) :
       pipe[i].kind = "usage" =>
         /\ reported <= pipe[i].total /\ pipe[i].total <= spent
         /\ \A j \in i .. Len(pipe) :
              pipe[j].kind = "usage" => pipe[i].total <= pipe[j].total

\* Unless an update failed, the last total is in the chain or in the row.
Arrives ==
  /\ writes # <<>> => /\ usageRow.status = "running" /\ at # "over"
                      /\ ~broken => writes[Len(writes)] = reported
  /\ writes = <<>> /\ at # "over" /\ ~broken => usageRow.total = reported

\* Once the row has ended nothing is read or written any more.
Concluded ==
  /\ usageRow.status \in Ended => at = "over" /\ usageRow.total = reported
  /\ at = "over" => closed
  /\ result = "returned" => usageRow.status = "completed" /\ at = "over"

TurnInv == TurnTypes /\ Registered /\ Chain /\ Arrives /\ Concluded

\* A sequence of which the first is taken, or to which one is added.
LEMMA Taken ==
  ASSUME NEW S, NEW s \in Seq(S), s # <<>>
  PROVE  /\ Len(s) \in Nat /\ Len(s) > 0 /\ Head(s) = s[1] /\ Head(s) \in S
         /\ Tail(s) \in Seq(S) /\ Len(Tail(s)) = Len(s) - 1
         /\ \A i \in 1 .. Len(Tail(s)) : Tail(s)[i] = s[i + 1]
         /\ Tail(s) = <<>> <=> Len(s) = 1
<1>1. Len(s) \in Nat /\ Len(s) > 0
  BY EmptySeq
<1>2. /\ Head(s) \in S /\ Tail(s) \in Seq(S) /\ Len(Tail(s)) = Len(s) - 1
      /\ \A i \in 1 .. Len(Tail(s)) : Tail(s)[i] = s[i + 1]
  BY HeadTailProperties
<1>3. Head(s) = s[1]
  BY <1>1
<1>4. Tail(s) = <<>> <=> Len(s) = 1
  <2>. DEFINE t == Tail(s)
  <2>1. t \in Seq(S) /\ Len(t) = Len(s) - 1
    BY <1>2
  <2>. HIDE DEF t
  <2>2. t = <<>> <=> Len(t) = 0
    BY <2>1, EmptySeq
  <2>. QED
    BY <1>1, <2>1, <2>2 DEF t
<1>. QED
  BY <1>1, <1>2, <1>3, <1>4

LEMMA Added ==
  ASSUME NEW S, NEW s \in Seq(S), NEW e \in S
  PROVE  /\ Append(s, e) \in Seq(S) /\ Len(Append(s, e)) = Len(s) + 1
         /\ Len(s) \in Nat /\ Append(s, e) # <<>>
         /\ Append(s, e)[Len(s) + 1] = e
         /\ \A i \in 1 .. Len(s) : Append(s, e)[i] = s[i]
  BY AppendProperties, LenProperties

LEMMA Totals ==
  ASSUME NEW s \in Seq(XMessage), NEW i \in 1 .. Len(s)
  PROVE  s[i] \in XMessage /\ s[i].total \in Nat
<1>1. s[i] \in XMessage
  BY ElementOfSeq
<1>. QED
  BY <1>1 DEF XMessage

LEMMA TurnInit ==
  ASSUME Turn!Init
  PROVE  TurnInv
<1>1. /\ spent = 0 /\ reported = 0 /\ writes = <<>> /\ pipe = <<>>
      /\ usageRow = [status |-> "none", total |-> 0]
      /\ at = "opening" /\ model = "idle" /\ result = "none" /\ tool = FALSE
  BY DEF Turn!Init
<1>2. TurnTypes
  BY <1>1, EmptySeq DEF TurnTypes, XUsage
<1>3. Chain
  <2>1. Len(<<>>) = 0
    OBVIOUS
  <2>2. Len(writes) = 0 /\ Len(pipe) = 0
    BY <1>1, <2>1
  <2>3. usageRow.total = 0
    BY <1>1
  <2>. QED
    BY <1>1, <2>2, <2>3 DEF Chain
<1>. QED
  BY <1>1, <1>2, <1>3 DEF TurnInv, Registered, Arrives, Concluded, Ended

\* What comes in is at the end of the pipe, and is not less than what is in it.
LEMMA PipeGrows ==
  ASSUME TurnTypes, Chain, NEW m \in XMessage,
         pipe' = Append(pipe, m), spent' \in Nat, spent <= spent',
         m.kind = "usage" => m.total = spent',
         UNCHANGED <<usageRow, writes, reported>>
  PROVE  TurnTypes' /\ Chain' /\ pipe' # <<>>
<1>1. /\ pipe' \in Seq(XMessage) /\ Len(pipe') = Len(pipe) + 1
      /\ Len(pipe) \in Nat /\ pipe'[Len(pipe) + 1] = m /\ pipe' # <<>>
      /\ \A i \in 1 .. Len(pipe) : pipe'[i] = pipe[i]
  BY Added DEF TurnTypes
<1>2. TurnTypes'
  BY <1>1 DEF TurnTypes
<1>3. \A i \in 1 .. Len(pipe) : pipe[i].total \in Nat
  BY Totals DEF TurnTypes
<1>4. ASSUME NEW i \in 1 .. Len(pipe'), pipe'[i].kind = "usage"
      PROVE  /\ reported' <= pipe'[i].total /\ pipe'[i].total <= spent'
             /\ \A j \in i .. Len(pipe') :
                  pipe'[j].kind = "usage" => pipe'[i].total <= pipe'[j].total
  <2>1. CASE i = Len(pipe) + 1
    BY <1>1, <1>4, <2>1 DEF Chain, TurnTypes, XMessage
  <2>2. CASE i \in 1 .. Len(pipe)
    <3>1. reported <= pipe[i].total /\ pipe[i].total <= spent
      BY <1>1, <1>4, <2>2 DEF Chain
    <3>2. ASSUME NEW j \in i .. Len(pipe'), pipe'[j].kind = "usage"
          PROVE  pipe'[i].total <= pipe'[j].total
      <4>1. CASE j = Len(pipe) + 1
        BY <1>1, <1>3, <2>2, <3>1, <3>2, <4>1 DEF TurnTypes
      <4>2. CASE j \in i .. Len(pipe)
        BY <1>1, <1>4, <2>2, <3>2, <4>2 DEF Chain
      <4>. QED
        BY <1>1, <2>2, <4>1, <4>2
    <3>. QED
      BY <1>1, <1>3, <2>2, <3>1, <3>2 DEF TurnTypes
  <2>. QED
    BY <1>1, <1>4, <2>1, <2>2
<1>5. Chain'
  BY <1>4 DEF Chain, TurnTypes, XUsage
<1>. QED
  BY <1>1, <1>2, <1>5

LEMMA ModelStays ==
  ASSUME TurnInv, Turn!Model
  PROVE  TurnInv'
<1>. USE DEF TurnInv
<1>h. UNCHANGED <<at, closed, tool, result, usageRow, writes, broken, reported>>
  BY DEF Turn!Model, Turn!ModelBegins, Turn!ModelSpends, Turn!ModelSays,
         Turn!host, Turn!meter
<1>r. Arrives' /\ Concluded'
  BY <1>h DEF Arrives, Concluded
<1>m. ASSUME NEW k \in {"started", "response", "final", "tool", "completed"}
      PROVE  Turn!Message(k) \in XMessage /\ Turn!Message(k).kind = k
  BY DEF Turn!Message, XMessage, TurnTypes
<1>1. CASE Turn!ModelBegins
  <2>1. PICK m \in XMessage, n \in XMessage :
          /\ m.kind # "usage" /\ n.kind # "usage"
          /\ pipe' = pipe \o <<m, n>>
    BY <1>1, <1>m DEF Turn!ModelBegins
  <2>2. /\ pipe' \in Seq(XMessage) /\ Len(pipe') = Len(pipe) + 2
        /\ Len(pipe) \in Nat /\ pipe'[Len(pipe) + 1] = m
        /\ pipe'[Len(pipe) + 2] = n
        /\ \A i \in 1 .. Len(pipe) : pipe'[i] = pipe[i]
    <3>1. <<m, n>> \in Seq(XMessage) /\ Len(<<m, n>>) = 2
      OBVIOUS
    <3>2. pipe \in Seq(XMessage) /\ Len(pipe) \in Nat
      BY LenProperties DEF TurnTypes
    <3>. QED
      BY <2>1, <3>1, <3>2, ConcatProperties
  <2>3. spent' = spent
    BY <1>1 DEF Turn!ModelBegins
  <2>4. Chain'
    <3>1. \A i \in 1 .. Len(pipe') :
            pipe'[i].kind = "usage" => i \in 1 .. Len(pipe)
      BY <2>1, <2>2
    <3>. QED
      BY <1>h, <2>2, <2>3, <3>1 DEF Chain
  <2>5. Registered'
    BY <1>1, <1>h DEF Turn!ModelBegins, Registered
  <2>. QED
    BY <1>h, <1>r, <2>2, <2>3, <2>4, <2>5 DEF TurnTypes
<1>2. CASE Turn!ModelSpends
  <2>1. /\ spent' = spent + 1 /\ model' = model /\ model # "idle"
        /\ pipe' = pipe \/ pipe' = Append(pipe, Turn!Usage)
    BY <1>2 DEF Turn!ModelSpends, Turn!Emit
  <2>2. Registered'
    BY <1>h, <2>1 DEF Registered
  <2>3. CASE pipe' = pipe
    <3>1. \A i \in 1 .. Len(pipe) : pipe[i].total \in Nat
      BY Totals DEF TurnTypes
    <3>. QED
      BY <1>h, <1>r, <2>1, <2>2, <2>3, <3>1 DEF TurnTypes, Chain
  <2>4. CASE pipe' = Append(pipe, Turn!Usage)
    <3>1. Turn!Usage \in XMessage /\ Turn!Usage.total = spent'
      BY <2>1 DEF Turn!Usage, XMessage, TurnTypes
    <3>2. spent' \in Nat /\ spent <= spent'
      BY <2>1 DEF TurnTypes
    <3>. QED
      BY <1>h, <1>r, <2>2, <2>4, <3>1, <3>2, PipeGrows
  <2>. QED
    BY <2>1, <2>3, <2>4
<1>3. CASE Turn!ModelSays
  <2>1. PICK k \in {"final", "tool", "completed"} :
          pipe' = Append(pipe, Turn!Message(k))
    BY <1>3 DEF Turn!ModelSays, Turn!Emit
  <2>2. spent' = spent /\ spent \in Nat /\ spent <= spent
    BY <1>3 DEF Turn!ModelSays, TurnTypes
  <2>3. TurnTypes' /\ Chain'
    BY <1>h, <1>m, <2>1, <2>2, PipeGrows
  <2>4. Registered'
    BY <1>3, <1>h, <2>2 DEF Registered, Turn!ModelSays
  <2>. QED
    BY <1>r, <2>3, <2>4
<1>. QED
  BY <1>1, <1>2, <1>3 DEF Turn!Model

\* Steps that leave the row, the chain and the model's messages alone.
LEMMA HostStays ==
  ASSUME TurnInv,
         Turn!Fail \/ Turn!ToolEnds \/ Turn!OpenThread \/ Turn!Conclude
           \/ Turn!FinishFails
  PROVE  TurnInv'
<1>. USE DEF TurnInv
<1>1. UNCHANGED <<usageRow, writes, broken, reported, spent, pipe>>
  BY DEF Turn!Fail, Turn!ToolEnds, Turn!OpenThread, Turn!Conclude,
         Turn!FinishFails, Turn!meter, Turn!server
<1>2. TurnTypes' /\ Chain'
  BY <1>1 DEF TurnTypes, Chain
<1>3. Registered'
  <2>1. CASE Turn!ToolEnds
    <3>1. tool = TRUE \/ model' = model
      BY <2>1 DEF Turn!ToolEnds
    <3>2. tool' = FALSE
      BY <2>1 DEF Turn!ToolEnds
    <3>. QED
      BY <1>1, <3>1, <3>2 DEF Registered
  <2>2. CASE UNCHANGED <<model, tool>>
    BY <1>1, <2>2 DEF Registered
  <2>. QED
    BY <2>1, <2>2 DEF Turn!Fail, Turn!OpenThread, Turn!Conclude,
       Turn!FinishFails, Turn!server
<1>4. Arrives' /\ Concluded'
  <2>1. CASE Turn!Fail
    BY <1>1, <2>1 DEF Arrives, Concluded, Turn!Fail, Turn!Broken
  <2>2. CASE Turn!ToolEnds
    BY <1>1, <2>2 DEF Arrives, Concluded, Turn!ToolEnds
  <2>3. CASE Turn!OpenThread
    BY <1>1, <2>3 DEF Arrives, Concluded, Turn!OpenThread
  <2>4. CASE Turn!Conclude
    BY <1>1, <2>4 DEF Arrives, Concluded, Turn!Conclude
  <2>5. CASE Turn!FinishFails
    BY <1>1, <2>5 DEF Arrives, Concluded, Ended, Turn!FinishFails,
       Turn!Return, Turn!Written
  <2>. QED
    BY <2>1, <2>2, <2>3, <2>4, <2>5
<1>. QED
  BY <1>2, <1>3, <1>4

\* The row begins, ends, or loses its chain.
LEMMA RowStays ==
  ASSUME TurnInv,
         Turn!BeginMeter \/ Turn!Finish \/ Turn!WriteFails \/ Turn!Crash
  PROVE  TurnInv'
<1>. USE DEF TurnInv
<1>1. UNCHANGED <<spent, pipe, reported>>
  BY DEF Turn!BeginMeter, Turn!Finish, Turn!WriteFails, Turn!Crash,
         Turn!server
<1>t. tool' = tool
  BY DEF Turn!BeginMeter, Turn!Finish, Turn!WriteFails, Turn!Crash
<1>2. CASE Turn!BeginMeter
  <2>1. /\ at = "metering" /\ at' # "over" /\ UNCHANGED <<closed, result>>
        /\ UNCHANGED <<writes, broken>>
    BY <1>2 DEF Turn!BeginMeter
  <2>2. /\ usageRow.status \notin Ended /\ result # "returned"
        /\ usageRow' \in {usageRow, [usageRow EXCEPT !.status = "running"]}
    BY <1>2, <2>1 DEF Turn!BeginMeter, Concluded
  <2>3. /\ usageRow' \in XUsage /\ usageRow'.total = usageRow.total
        /\ usageRow'.status \in {usageRow.status, "running"}
    BY <2>2 DEF TurnTypes, XUsage
  <2>4. TurnTypes' /\ Chain'
    BY <1>1, <2>1, <2>3 DEF TurnTypes, Chain
  <2>5. usageRow'.status = "running" \/ UNCHANGED <<usageRow, model>>
    BY <1>2, <2>2 DEF Turn!BeginMeter, TurnTypes, XUsage
  <2>6. Registered'
    BY <1>1, <1>t, <2>5 DEF Registered
  <2>7. Arrives' /\ Concluded'
    BY <1>1, <2>1, <2>2, <2>3 DEF Arrives, Concluded, Ended
  <2>. QED
    BY <2>4, <2>6, <2>7
<1>3. CASE Turn!Finish
  <2>1. /\ at # "over" /\ writes = <<>> /\ ~broken /\ usageRow.status # "none"
        /\ UNCHANGED <<writes, broken, model>>
        /\ at' = "over" /\ closed' = TRUE
    BY <1>3 DEF Turn!Finish, Turn!Written, Turn!Return, Turn!server
  <2>2. /\ usageRow' = [usageRow EXCEPT !.status = Turn!Status]
        /\ Turn!Status \in Ended
        /\ result' = "returned" => Turn!Status = "completed"
    BY <1>3 DEF Turn!Finish, Turn!Return, Turn!Status, Ended
  <2>3. /\ usageRow' \in XUsage /\ usageRow'.total = usageRow.total
        /\ usageRow'.status = Turn!Status
    BY <2>2 DEF TurnTypes, XUsage, Ended
  <2>4. TurnTypes' /\ Chain'
    BY <1>1, <2>1, <2>3 DEF TurnTypes, Chain
  <2>5. Registered' /\ Arrives'
    BY <1>1, <1>t, <2>1, <2>2, <2>3 DEF Registered, Arrives, Ended
  <2>6. Concluded'
    BY <1>1, <2>1, <2>2, <2>3 DEF Concluded, Arrives
  <2>. QED
    BY <2>4, <2>5, <2>6
<1>4. CASE Turn!WriteFails \/ Turn!Crash
  <2>1. /\ writes' = <<>> /\ UNCHANGED <<usageRow, model>>
        /\ closed' = TRUE
        /\ broken' \/ at' = "over"
        /\ at' # at => at' = "over" /\ at # "over"
    BY <1>4 DEF Turn!WriteFails, Turn!Crash, Turn!Broken, Turn!Return,
                Turn!server
  <2>2. Len(<<>>) = 0 /\ <<>> \in Seq(Nat)
    OBVIOUS
  <2>3. TurnTypes' /\ Chain'
    BY <1>1, <2>1, <2>2 DEF TurnTypes, Chain
  <2>4. Registered' /\ Arrives'
    BY <1>1, <1>t, <2>1 DEF Registered, Arrives
  <2>5. Concluded'
    <3>1. CASE Turn!WriteFails
      BY <1>1, <2>1, <3>1 DEF Concluded, Turn!WriteFails
    <3>2. CASE Turn!Crash
      <4>1. at' = "over" /\ result' = "died" /\ at # "over"
        BY <3>2 DEF Turn!Crash, Turn!Return
      <4>. QED
        BY <1>1, <2>1, <4>1 DEF Concluded, Ended
    <3>. QED
      BY <1>4, <3>1, <3>2
  <2>. QED
    BY <2>3, <2>4, <2>5
<1>. QED
  BY <1>2, <1>3, <1>4

\* The first total of the chain is written; it is not behind.
LEMMA WriteStays ==
  ASSUME TurnInv, Turn!Write
  PROVE  TurnInv'
<1>. USE DEF TurnInv
<1>1. /\ writes # <<>> /\ writes' = Tail(writes)
      /\ UNCHANGED <<at, closed, tool, result, broken, reported, model,
                     spent, pipe>>
  BY DEF Turn!Write, Turn!host, Turn!server
<1>2. /\ Len(writes) \in Nat /\ Len(writes) > 0 /\ Head(writes) = writes[1]
      /\ Head(writes) \in Nat /\ writes' \in Seq(Nat)
      /\ Len(writes') = Len(writes) - 1
      /\ \A i \in 1 .. Len(writes') : writes'[i] = writes[i + 1]
      /\ writes' = <<>> <=> Len(writes) = 1
  BY <1>1, Taken DEF TurnTypes
<1>3. usageRow.total <= Head(writes) /\ usageRow.status = "running"
  BY <1>1, <1>2 DEF Chain, Arrives
<1>4. usageRow' = [usageRow EXCEPT !.total = Head(writes)]
  BY <1>3 DEF Turn!Write
<1>5. /\ usageRow' \in XUsage /\ usageRow'.status = "running"
      /\ usageRow'.total = writes[1]
  BY <1>2, <1>3, <1>4 DEF TurnTypes, XUsage
<1>6. TurnTypes'
  BY <1>1, <1>2, <1>5 DEF TurnTypes
<1>7. Registered' /\ Concluded'
  BY <1>1, <1>3, <1>5 DEF Registered, Concluded, Ended
<1>8. Chain'
  <2>1. usageRow'.total <= reported' /\ reported' <= spent'
    BY <1>1, <1>2, <1>5 DEF Chain
  <2>2. ASSUME NEW i \in 1 .. Len(writes')
        PROVE  /\ usageRow'.total <= writes'[i] /\ writes'[i] <= reported'
               /\ \A j \in i .. Len(writes') : writes'[i] <= writes'[j]
    <3>1. /\ i + 1 \in 1 .. Len(writes) /\ 1 \in 1 .. Len(writes)
          /\ i + 1 \in 1 .. Len(writes)
          /\ writes'[i] = writes[i + 1]
      BY <1>2
    <3>2. usageRow'.total <= writes'[i] /\ writes'[i] <= reported'
      BY <1>1, <1>2, <1>5, <3>1 DEF Chain
    <3>3. ASSUME NEW j \in i .. Len(writes')
          PROVE  writes'[i] <= writes'[j]
      <4>1. j + 1 \in i + 1 .. Len(writes) /\ writes'[j] = writes[j + 1]
        BY <1>2
      <4>. QED
        BY <3>1, <4>1 DEF Chain
    <3>. QED
      BY <3>2, <3>3
  <2>. QED
    BY <1>1, <2>1, <2>2 DEF Chain
<1>9. Arrives'
  <2>1. CASE writes' = <<>>
    BY <1>1, <1>2, <1>5, <2>1 DEF Arrives
  <2>2. CASE writes' # <<>>
    BY <1>1, <1>2, <1>3, <1>5, <2>2 DEF Arrives
  <2>. QED
    BY <2>1, <2>2
<1>. QED
  BY <1>6, <1>7, <1>8, <1>9

\* A message is read: a total goes to the chain, from anything else nothing.
LEMMA ReceiveStays ==
  ASSUME TurnInv, Turn!Receive
  PROVE  TurnInv'
<1>. USE DEF TurnInv
<1>. DEFINE m == Head(pipe)
<1>1. /\ pipe # <<>> /\ ~closed /\ pipe' = Tail(pipe)
      /\ UNCHANGED <<result, usageRow, broken, model, spent>>
      /\ at' \in {"awaiting", at}
  BY DEF Turn!Receive
<1>2. /\ Len(pipe) \in Nat /\ Len(pipe) > 0 /\ m = pipe[1]
      /\ m \in XMessage /\ pipe' \in Seq(XMessage)
      /\ Len(pipe') = Len(pipe) - 1
      /\ \A i \in 1 .. Len(pipe') : pipe'[i] = pipe[i + 1]
  BY <1>1, Taken DEF TurnTypes
<1>3. \/ /\ m.kind = "usage" /\ ~broken
         /\ writes' = Append(writes, m.total) /\ reported' = m.total
      \/ UNCHANGED <<writes, reported>>
  BY DEF Turn!Receive, Turn!Snapshot, Turn!Broken
<1>4. closed' = closed \/ closed' = TRUE
  BY DEF Turn!Receive, Turn!Snapshot, Turn!Broken
<1>. HIDE DEF m
<1>5. /\ usageRow.status = "running" /\ at # "over"
      /\ at' # "over" /\ result # "returned"
  BY <1>1 DEF Registered, Concluded, TurnTypes, XUsage, Ended
<1>6. Registered' /\ Concluded'
  BY <1>1, <1>4, <1>5 DEF Registered, Concluded, Ended
<1>7. \A i \in 1 .. Len(pipe') :
        pipe'[i].kind = "usage" =>
          /\ reported <= pipe'[i].total /\ pipe'[i].total <= spent
          /\ m.kind = "usage" => m.total <= pipe'[i].total
          /\ \A j \in i .. Len(pipe') :
               pipe'[j].kind = "usage" => pipe'[i].total <= pipe'[j].total
  <2>1. SUFFICES ASSUME NEW i \in 1 .. Len(pipe'), pipe'[i].kind = "usage"
        PROVE  /\ reported <= pipe'[i].total /\ pipe'[i].total <= spent
               /\ m.kind = "usage" => m.total <= pipe'[i].total
               /\ \A j \in i .. Len(pipe') :
                    pipe'[j].kind = "usage" =>
                      pipe'[i].total <= pipe'[j].total
    OBVIOUS
  <2>2. i + 1 \in 1 .. Len(pipe) /\ pipe'[i] = pipe[i + 1] /\ i \in Int
    BY <1>2
  <2>3. reported <= pipe'[i].total /\ pipe'[i].total <= spent
    BY <2>1, <2>2 DEF Chain
  <2>4. m.kind = "usage" => m.total <= pipe'[i].total
    <3>1. 1 \in 1 .. Len(pipe) /\ i + 1 \in 1 .. Len(pipe)
      BY <1>2, <2>2
    <3>. QED
      BY <1>2, <2>1, <2>2, <3>1 DEF Chain
  <2>5. ASSUME NEW j \in i .. Len(pipe'), pipe'[j].kind = "usage"
        PROVE  pipe'[i].total <= pipe'[j].total
    <3>1. j \in 1 .. Len(pipe') /\ i <= j
      BY <1>2
    <3>2. pipe'[j] = pipe[j + 1]
      BY <1>2, <3>1
    <3>3. j + 1 \in i + 1 .. Len(pipe)
      BY <1>2, <2>2, <3>1
    <3>. QED
      BY <2>1, <2>2, <2>5, <3>2, <3>3 DEF Chain
  <2>. QED
    BY <2>3, <2>4, <2>5
<1>8. CASE UNCHANGED <<writes, reported>>
  <2>1. TurnTypes'
    BY <1>1, <1>2, <1>8 DEF TurnTypes
  <2>2. Chain'
    <3>1. UNCHANGED <<usageRow, writes, reported, spent>>
      BY <1>1, <1>8
    <3>. QED
      BY <1>7, <3>1 DEF Chain
  <2>3. Arrives'
    BY <1>1, <1>5, <1>8 DEF Arrives
  <2>. QED
    BY <1>6, <2>1, <2>2, <2>3
<1>9. CASE /\ m.kind = "usage" /\ ~broken
           /\ writes' = Append(writes, m.total) /\ reported' = m.total
  <2>1. m.total \in Nat /\ reported <= m.total /\ m.total <= spent
    BY <1>2, <1>9 DEF XMessage, Chain
  <2>2. /\ writes' \in Seq(Nat) /\ Len(writes') = Len(writes) + 1
        /\ Len(writes) \in Nat /\ writes' # <<>>
        /\ writes'[Len(writes) + 1] = m.total
        /\ \A i \in 1 .. Len(writes) : writes'[i] = writes[i]
    BY <1>9, <2>1, Added DEF TurnTypes
  <2>3. TurnTypes'
    BY <1>1, <1>2, <1>9, <2>1, <2>2 DEF TurnTypes
  <2>4. Arrives'
    BY <1>1, <1>5, <1>9, <2>2 DEF Arrives
  <2>5. \A i \in 1 .. Len(writes) :
          /\ writes[i] \in Nat /\ writes[i] <= m.total
          /\ usageRow.total <= writes[i]
          /\ \A j \in i .. Len(writes) : writes[i] <= writes[j]
    <3>1. \A i \in 1 .. Len(writes) : writes[i] \in Nat
      BY ElementOfSeq DEF TurnTypes
    <3>. QED
      BY <2>1, <3>1 DEF Chain, TurnTypes
  <2>6. /\ usageRow'.total = usageRow.total /\ usageRow.total \in Nat
        /\ usageRow.total <= m.total
    BY <1>1, <2>1 DEF Chain, TurnTypes, XUsage
  <2>7. ASSUME NEW i \in 1 .. Len(writes')
        PROVE  /\ usageRow'.total <= writes'[i] /\ writes'[i] <= reported'
               /\ \A j \in i .. Len(writes') : writes'[i] <= writes'[j]
    <3>1. CASE i = Len(writes) + 1
      BY <1>9, <2>1, <2>2, <2>6, <3>1
    <3>2. CASE i \in 1 .. Len(writes)
      <4>1. usageRow'.total <= writes'[i] /\ writes'[i] <= reported'
        BY <1>9, <2>2, <2>5, <2>6, <3>2
      <4>2. ASSUME NEW j \in i .. Len(writes')
            PROVE  writes'[i] <= writes'[j]
        <5>1. CASE j = Len(writes) + 1
          BY <2>2, <2>5, <3>2, <5>1
        <5>2. CASE j \in i .. Len(writes)
          BY <2>2, <2>5, <3>2, <5>2
        <5>. QED
          BY <2>2, <3>2, <5>1, <5>2
      <4>. QED
        BY <4>1, <4>2
    <3>. QED
      BY <2>2, <3>1, <3>2
  <2>8. Chain'
    <3>1. UNCHANGED spent /\ reported' = m.total
      BY <1>1, <1>9
    <3>. QED
      BY <1>7, <1>9, <2>1, <2>6, <2>7, <3>1 DEF Chain
  <2>. QED
    BY <1>6, <2>3, <2>4, <2>8
<1>. QED
  BY <1>3, <1>8, <1>9

\* Every step of the turn, and of a turn that rests.
LEMMA TurnStays ==
  ASSUME TurnInv, Turn!Next \/ UNCHANGED turnVars
  PROVE  TurnInv'
<1>1. CASE UNCHANGED turnVars
  BY <1>1 DEF TurnInv, TurnTypes, Registered, Chain, Arrives, Concluded,
     turnVars
<1>. QED
  BY <1>1, ModelStays, HostStays, RowStays, WriteStays, ReceiveStays
     DEF Turn!Next

LEMMA TurnCounted ==
  ASSUME TurnInv
  PROVE  Turn!Counted
  BY DEF Turn!Counted, TurnInv, Registered, Concluded, Ended

-----------------------------------------------------------------------------
(* A roundtable *)

XAt == {"none", "recover", "table", "over"}
XNotes == [Table!Role -> Nat]
XRun == [at : XAt, wave : 0 .. 3, notes : XNotes, prior : XNotes,
         aborted : BOOLEAN]
XTasks == [Table!Role -> {"none", "asked", "answered", "saved", "failed"}]
XNote == [by : Nat, saw : XNotes]

TableTypes ==
  /\ holder \in Nat /\ leased \in BOOLEAN /\ done \in BOOLEAN
  /\ note \in [Table!Role -> XNote]
  /\ run \in [Table!Run -> XRun]
  /\ tasks \in [Table!Run -> XTasks]

\* Of a run at the table: the notes it has are those on record, and for the
\* wave it was given all of the waves before; who has the shift lacks none but
\* one whose write was reported as failed.
AtTable(r) ==
  \A role \in Table!Role :
    /\ run[r].notes[role] # 0 => note[role].by = run[r].notes[role]
    /\ holder = r /\ run[r].notes[role] = 0 /\ note[role].by # 0 =>
         tasks[r][role] = "failed"
    /\ Table!Wave(role) < run[r].wave =>
         run[r].notes[role] # 0 /\ run[r].prior[role] = run[r].notes[role]
    /\ Table!Wave(role) = run[r].wave /\ tasks[r][role] \in {"none", "saved"}
         => run[r].notes[role] # 0
    /\ tasks[r][role] \in {"asked", "answered"} =>
         run[r].notes[role] = 0 /\ Table!Wave(role) = run[r].wave

RunSound(r) ==
  /\ r > holder => run[r].at = "none"
  /\ run[r].at \in {"none", "recover"} => run[r].wave = 0
  /\ run[r].at # "table" => tasks[r] = Table!NoTurns
  /\ run[r].at = "table" => AtTable(r)

TableInv ==
  /\ TableTypes
  /\ \A r \in Table!Run : RunSound(r)
  /\ Table!NotesAgree

LEMMA Waves ==
  /\ \A role \in Table!Role : Table!Wave(role) \in 1 .. 3
  /\ Table!NoNotes \in XNotes
  /\ Table!NoTurns \in XTasks
  /\ \A role \in Table!Role : Table!NoTurns[role] = "none"
  BY DEF Table!Role, Table!Wave, Table!NoNotes, Table!NoTurns, XNotes, XTasks

LEMMA TableInit ==
  ASSUME Table!Init
  PROVE  TableInv
<1>1. /\ holder = 0 /\ leased = FALSE /\ done = FALSE
      /\ note = [role \in Table!Role |-> Table!NoNote]
      /\ run = [r \in Table!Run |-> Table!NoRun]
      /\ tasks = [r \in Table!Run |-> Table!NoTurns]
  BY DEF Table!Init
<1>2. /\ Table!NoNote \in XNote /\ Table!NoNote.by = 0
      /\ Table!NoRun \in XRun /\ Table!NoRun.at = "none"
      /\ Table!NoRun.wave = 0
  BY Waves DEF Table!NoNote, Table!NoRun, XNote, XRun, XAt
<1>3. TableTypes
  BY <1>1, <1>2, Waves DEF TableTypes
<1>4. \A r \in Table!Run : RunSound(r)
  BY <1>1, <1>2 DEF RunSound
<1>5. Table!NotesAgree
  BY <1>1, <1>2 DEF Table!NotesAgree
<1>. QED
  BY <1>3, <1>4, <1>5 DEF TableInv

\* A run of which nothing changes is disturbed neither by a note that another
\* writes for a role that has none, nor by one that takes the shift over.
LEMMA OtherRuns ==
  ASSUME TableInv, NEW q \in Table!Run,
         run'[q] = run[q], tasks'[q] = tasks[q],
         \/ UNCHANGED holder
         \/ /\ holder' # q
            /\ q > holder' => q > holder,
         \A role \in Table!Role :
           \/ note'[role] = note[role]
           \/ note[role].by = 0 /\ holder' # q
  PROVE  RunSound(q)'
<1>1. RunSound(q)
  BY DEF TableInv
<1>2. /\ holder \in Nat /\ q \in Nat
  BY DEF TableInv, TableTypes, Table!Run
<1>3. q > holder' => run[q].at = "none"
  BY <1>1, <1>2 DEF RunSound
<1>4. ASSUME AtTable(q)
      PROVE  AtTable(q)'
  BY <1>4 DEF AtTable
<1>. QED
  BY <1>1, <1>3, <1>4 DEF RunSound

LEMMA TableLease ==
  ASSUME TableInv, NEW r \in Table!Run,
         \/ Table!Claim(r) \/ Table!Lapse \/ Table!Stop(r)
         \/ Table!Recover(r)
  PROVE  TableInv'
<1>. USE DEF TableInv
<1>1. UNCHANGED <<done, note, tasks>>
  BY DEF Table!Claim, Table!Lapse, Table!Stop, Table!Recover
<1>2. Table!NotesAgree'
  BY <1>1 DEF Table!NotesAgree
<1>t. /\ run \in [Table!Run -> XRun] /\ run[r] \in XRun
      /\ r \in Nat /\ holder \in Nat
  BY DEF TableTypes, Table!Run
<1>3. CASE Table!Lapse
  <2>1. UNCHANGED <<holder, run>> /\ leased' \in BOOLEAN
    BY <1>3 DEF Table!Lapse
  <2>2. TableTypes'
    BY <1>1, <2>1 DEF TableTypes
  <2>3. ASSUME NEW q \in Table!Run
        PROVE  RunSound(q)'
    BY <1>1, <2>1, OtherRuns
  <2>. QED
    BY <1>2, <2>2, <2>3
<1>4. CASE Table!Claim(r)
  <2>1. /\ holder' = r /\ leased' = TRUE /\ r = holder + 1
        /\ run' = [run EXCEPT ![r].at = "recover"]
    BY <1>4 DEF Table!Claim
  <2>2. /\ run' \in [Table!Run -> XRun] /\ run'[r].at = "recover"
        /\ run'[r].wave = run[r].wave
        /\ \A q \in Table!Run \ {r} : run'[q] = run[q]
    BY <1>t, <2>1 DEF XRun, XAt
  <2>3. TableTypes'
    BY <1>1, <1>t, <2>1, <2>2 DEF TableTypes
  <2>4. run[r].at = "none" /\ RunSound(r)
    BY <1>t, <2>1 DEF RunSound
  <2>5. RunSound(r)'
    BY <1>1, <1>t, <2>1, <2>2, <2>4 DEF RunSound
  <2>6. ASSUME NEW q \in Table!Run, q # r
        PROVE  RunSound(q)'
    <3>1. holder' # q /\ (q > holder' => q > holder)
      BY <1>t, <2>1, <2>6 DEF Table!Run
    <3>. QED
      BY <1>1, <2>2, <2>6, <3>1, OtherRuns
  <2>. QED
    BY <1>2, <2>3, <2>5, <2>6
<1>5. CASE Table!Stop(r) \/ Table!Recover(r)
  <2>1. UNCHANGED <<holder, leased>>
    BY <1>5 DEF Table!Stop, Table!Recover
  <2>2. /\ run' \in [Table!Run -> XRun]
        /\ \A q \in Table!Run \ {r} : run'[q] = run[q]
    <3>1. CASE Table!Stop(r)
      BY <1>t, <3>1 DEF Table!Stop, XRun
    <3>2. CASE Table!Recover(r)
      <4>1. Table!Committed \in XNotes
        BY DEF Table!Committed, TableTypes, XNote, XNotes
      <4>. QED
        BY <1>t, <3>2, <4>1 DEF Table!Recover, XRun, XAt
    <3>. QED
      BY <1>5, <3>1, <3>2
  <2>3. TableTypes'
    BY <1>1, <2>1, <2>2 DEF TableTypes
  <2>4. ASSUME NEW q \in Table!Run, q # r
        PROVE  RunSound(q)'
    BY <1>1, <2>1, <2>2, <2>4, OtherRuns
  <2>5. RunSound(r)'
    <3>0. RunSound(r)
      OBVIOUS
    <3>1. CASE Table!Stop(r)
      <4>1. /\ run'[r].at = "table" /\ run[r].at = "table"
            /\ run'[r].wave = run[r].wave /\ run'[r].notes = run[r].notes
            /\ run'[r].prior = run[r].prior
        BY <1>t, <3>1 DEF Table!Stop, XRun
      <4>. QED
        BY <1>1, <2>1, <3>0, <4>1 DEF RunSound, AtTable
    <3>2. CASE Table!Recover(r)
      <4>1. /\ run'[r].at = "table" /\ run[r].at = "recover"
            /\ run'[r].wave = run[r].wave /\ run'[r].notes = Table!Committed
        BY <1>t, <3>2 DEF Table!Recover, XRun
      <4>2. run[r].wave = 0 /\ tasks[r] = Table!NoTurns
        BY <3>0, <4>1 DEF RunSound
      <4>3. ASSUME NEW role \in Table!Role
            PROVE  /\ tasks'[r][role] = "none"
                   /\ run'[r].notes[role] = note'[role].by
                   /\ Table!Wave(role) \in 1 .. 3
        BY <1>1, <4>1, <4>2, Waves DEF Table!Committed
      <4>4. AtTable(r)'
        BY <4>1, <4>2, <4>3 DEF AtTable
      <4>. QED
        BY <2>1, <3>0, <4>1, <4>4 DEF RunSound
    <3>. QED
      BY <1>5, <3>1, <3>2
  <2>. QED
    BY <1>2, <2>3, <2>4, <2>5
<1>. QED
  BY <1>3, <1>4, <1>5

\* The next wave: all of the waves before have their notes.
LEMMA TableWave ==
  ASSUME TableInv, NEW r \in Table!Run, Table!BeginWave(r)
  PROVE  TableInv'
<1>. USE DEF TableInv
<1>. DEFINE w == run[r].wave + 1
            ts == [role \in Table!Role |->
                     IF Table!Wave(role) # w \/ run[r].notes[role] # 0
                     THEN "none"
                     ELSE IF run[r].aborted THEN "failed" ELSE "asked"]
<1>1. /\ run[r].at = "table" /\ Table!Settled(r) /\ w <= 3
      /\ run' = [run EXCEPT ![r].wave = w, ![r].prior = run[r].notes]
      /\ tasks' = [tasks EXCEPT ![r] = ts]
      /\ UNCHANGED <<holder, leased, done, note>>
  BY DEF Table!BeginWave
<1>2. /\ run \in [Table!Run -> XRun] /\ run[r] \in XRun
      /\ w \in 1 .. 3 /\ w = run[r].wave + 1 /\ run[r].wave \in 0 .. 3
  BY <1>1 DEF TableTypes, XRun
<1>3. /\ ts \in XTasks
      /\ \A role \in Table!Role :
           /\ ts[role] # "failed" /\ ts[role] # "asked" =>
                ts[role] = "none"
           /\ ts[role] = "none" =>
                Table!Wave(role) # w \/ run[r].notes[role] # 0
           /\ ts[role] = "asked" =>
                Table!Wave(role) = w /\ run[r].notes[role] = 0
  BY DEF XTasks
<1>. HIDE DEF w, ts
<1>4. /\ run' \in [Table!Run -> XRun]
      /\ run'[r].at = "table" /\ run'[r].wave = w
      /\ run'[r].notes = run[r].notes /\ run'[r].prior = run[r].notes
      /\ \A q \in Table!Run \ {r} : run'[q] = run[q]
  <2>1. \A q \in Table!Run \ {r} : run'[q] = run[q]
    BY <1>1, <1>2
  <2>2. run'[r] = [run[r] EXCEPT !.wave = w, !.prior = run[r].notes]
    BY <1>1, <1>2
  <2>3. /\ run'[r] \in XRun /\ run'[r].wave = w
        /\ run'[r].at = "table"
        /\ run'[r].notes = run[r].notes /\ run'[r].prior = run[r].notes
    <3>1. run[r].at = "table" /\ run[r] \in XRun /\ w \in 0 .. 3
      BY <1>1, <1>2
    <3>. QED
      BY <2>2, <3>1 DEF XRun
  <2>4. run' \in [Table!Run -> XRun]
    BY <1>1, <1>2, <2>1, <2>3
  <2>. QED
    BY <2>1, <2>3, <2>4
<1>5. /\ tasks' \in [Table!Run -> XTasks] /\ tasks'[r] = ts
      /\ \A q \in Table!Run \ {r} : tasks'[q] = tasks[q]
  BY <1>1, <1>3 DEF TableTypes
<1>6. TableTypes' /\ Table!NotesAgree'
  BY <1>1, <1>4, <1>5 DEF TableTypes, Table!NotesAgree
<1>7. ASSUME NEW q \in Table!Run, q # r
      PROVE  RunSound(q)'
  BY <1>1, <1>4, <1>5, <1>7, OtherRuns
<1>8. RunSound(r)'
  <2>1. RunSound(r) /\ AtTable(r)
    BY <1>1 DEF RunSound
  <2>2. ASSUME NEW role \in Table!Role
        PROVE  /\ run[r].notes[role] # 0 => note[role].by = run[r].notes[role]
               /\ holder = r /\ run[r].notes[role] = 0 =>
                    note[role].by = 0
               /\ Table!Wave(role) < w => run[r].notes[role] # 0
    <3>1. tasks[r][role] \in {"none", "saved"} /\ Table!Wave(role) \in 1 .. 3
      BY <1>1, Waves DEF Table!Settled
    <3>. QED
      BY <1>2, <2>1, <3>1 DEF AtTable
  <2>3. AtTable(r)'
    <3>1. ASSUME NEW role \in Table!Role
          PROVE  /\ run'[r].notes[role] # 0 =>
                      note'[role].by = run'[r].notes[role]
                 /\ holder' = r /\ run'[r].notes[role] = 0 =>
                      note'[role].by = 0
                 /\ Table!Wave(role) < run'[r].wave =>
                      /\ run'[r].notes[role] # 0
                      /\ run'[r].prior[role] = run'[r].notes[role]
      BY <1>1, <1>4, <2>2
    <3>2. ASSUME NEW role \in Table!Role
          PROVE  /\ /\ Table!Wave(role) = run'[r].wave
                    /\ tasks'[r][role] \in {"none", "saved"}
                    => run'[r].notes[role] # 0
                 /\ tasks'[r][role] \in {"asked", "answered"} =>
                      /\ run'[r].notes[role] = 0
                      /\ Table!Wave(role) = run'[r].wave
      BY <1>3, <1>4, <1>5
    <3>. QED
      BY <3>1, <3>2 DEF AtTable
  <2>. QED
    BY <1>1, <1>4, <2>1, <2>3 DEF RunSound
<1>. QED
  BY <1>6, <1>7, <1>8

\* A role's task moves on, or fails and aborts the others; no note is written.
LEMMA TableTasks ==
  ASSUME TableInv, NEW r \in Table!Run, NEW role \in Table!Role,
         \/ Table!Answer(r, role) \/ Table!FailTurn(r, role)
         \/ Table!SaveFails(r, role)
  PROVE  TableInv'
<1>. USE DEF TableInv
<1>. DEFINE task == tasks'[r][role]
<1>1. /\ tasks[r][role] \in {"asked", "answered"}
      /\ UNCHANGED <<holder, leased, done, note>>
  BY DEF Table!Answer, Table!FailTurn, Table!SaveFails, Table!Failed
<1>2. PICK to \in {"answered", "failed"} :
        /\ tasks' = [tasks EXCEPT ![r][role] = to]
        /\ run' = run \/ run' = [run EXCEPT ![r].aborted = TRUE]
  BY DEF Table!Answer, Table!FailTurn, Table!SaveFails, Table!Failed
<1>3. /\ run' \in [Table!Run -> XRun]
      /\ run'[r].at = run[r].at /\ run'[r].wave = run[r].wave
      /\ run'[r].notes = run[r].notes /\ run'[r].prior = run[r].prior
      /\ \A q \in Table!Run \ {r} : run'[q] = run[q]
  BY <1>2 DEF TableTypes, XRun
<1>4. /\ tasks' \in [Table!Run -> XTasks] /\ tasks'[r][role] = to
      /\ \A other \in Table!Role \ {role} :
           tasks'[r][other] = tasks[r][other]
      /\ \A q \in Table!Run \ {r} : tasks'[q] = tasks[q]
  BY <1>2 DEF TableTypes, XTasks
<1>5. TableTypes' /\ Table!NotesAgree'
  BY <1>1, <1>3, <1>4 DEF TableTypes, Table!NotesAgree
<1>6. ASSUME NEW q \in Table!Run, q # r
      PROVE  RunSound(q)'
  BY <1>1, <1>3, <1>4, <1>6, OtherRuns
<1>7. RunSound(r)'
  <2>1. /\ RunSound(r) /\ run[r].at = "table" /\ AtTable(r)
    BY <1>1, Waves DEF RunSound
  <2>2. ASSUME NEW other \in Table!Role
        PROVE  \/ tasks'[r][other] = tasks[r][other]
               \/ /\ tasks'[r][other] \in {"answered", "failed"}
                  /\ tasks[r][other] \in {"asked", "answered"}
    BY <1>1, <1>4
  <2>3. AtTable(r)'
    BY <1>1, <1>3, <2>1, <2>2 DEF AtTable
  <2>. QED
    BY <1>1, <1>3, <2>1, <2>3 DEF RunSound
<1>. QED
  BY <1>5, <1>6, <1>7

\* A note is written once, by the run that has the shift, from the notes of
\* the waves before it that are on record.
LEMMA TableSave ==
  ASSUME TableInv, NEW r \in Table!Run, NEW role \in Table!Role,
         Table!Save(r, role)
  PROVE  TableInv'
<1>. USE DEF TableInv
<1>1. /\ tasks[r][role] = "answered" /\ holder = r
      /\ UNCHANGED <<holder, leased, done>>
  BY DEF Table!Save, Table!Fenced
<1>2. /\ RunSound(r) /\ run[r].at = "table" /\ AtTable(r)
  BY <1>1, Waves DEF RunSound
<1>3. /\ run[r].notes[role] = 0 /\ note[role].by = 0
      /\ Table!Wave(role) = run[r].wave
  BY <1>1, <1>2 DEF AtTable
<1>4. note' = [note EXCEPT ![role] = [by |-> r, saw |-> run[r].prior]]
  BY <1>3 DEF Table!Save
<1>5. PICK to \in {"saved", "failed"} :
        /\ tasks' = [tasks EXCEPT ![r][role] = to]
        /\ run' = IF to = "saved" THEN [run EXCEPT ![r].notes[role] = r]
                  ELSE [run EXCEPT ![r].aborted = TRUE]
  BY DEF Table!Save, Table!Failed
<1>6. /\ run[r] \in XRun /\ run \in [Table!Run -> XRun]
      /\ r \in Nat /\ r # 0
  BY DEF TableTypes, Table!Run
<1>7. /\ run'[r] \in XRun
      /\ run'[r].at = "table" /\ run'[r].wave = run[r].wave
      /\ run'[r].prior = run[r].prior
      /\ run'[r].notes[role] = IF to = "saved" THEN r ELSE 0
      /\ \A other \in Table!Role \ {role} :
           run'[r].notes[other] = run[r].notes[other]
  <2>1. CASE to = "saved"
    <3>. DEFINE n == [run[r].notes EXCEPT ![role] = r]
    <3>1. run'[r] = [run[r] EXCEPT !.notes = n]
      BY <1>5, <1>6, <2>1
    <3>2. run[r].notes \in XNotes
      BY <1>6 DEF XRun
    <3>3. /\ n \in XNotes /\ n[role] = r
          /\ \A other \in Table!Role \ {role} :
               n[other] = run[r].notes[other]
      BY <1>6, <3>2 DEF XNotes
    <3>. HIDE DEF n
    <3>4. /\ run'[r] \in XRun
          /\ run'[r].at = "table" /\ run'[r].wave = run[r].wave
          /\ run'[r].prior = run[r].prior /\ run'[r].notes = n
      BY <1>2, <1>6, <3>1, <3>3 DEF XRun
    <3>. QED
      BY <2>1, <3>3, <3>4
  <2>2. CASE to = "failed"
    <3>1. run'[r] = [run[r] EXCEPT !.aborted = TRUE]
      BY <1>5, <1>6, <2>2
    <3>. QED
      BY <1>2, <1>3, <1>6, <2>2, <3>1 DEF XRun
  <2>. QED
    BY <2>1, <2>2
<1>8. \A q \in Table!Run \ {r} : run'[q] = run[q]
  BY <1>5, <1>6
<1>9. run' \in [Table!Run -> XRun]
  BY <1>5, <1>6, <1>7, <1>8
<1>10. /\ tasks' \in [Table!Run -> XTasks] /\ tasks'[r][role] = to
       /\ \A other \in Table!Role \ {role} :
            tasks'[r][other] = tasks[r][other]
       /\ \A q \in Table!Run \ {r} : tasks'[q] = tasks[q]
  BY <1>5 DEF TableTypes, XTasks
<1>11. /\ note' \in [Table!Role -> XNote]
       /\ note'[role].by = r /\ note'[role].saw = run[r].prior
       /\ \A other \in Table!Role \ {role} : note'[other] = note[other]
  <2>1. [by |-> r, saw |-> run[r].prior] \in XNote
    BY <1>6 DEF XRun, XNote
  <2>. QED
    BY <1>4, <2>1 DEF TableTypes
<1>12. TableTypes'
  BY <1>1, <1>9, <1>10, <1>11 DEF TableTypes
<1>13. ASSUME NEW q \in Table!Run, q # r
       PROVE  RunSound(q)'
  <2>1. \A other \in Table!Role :
          \/ note'[other] = note[other]
          \/ note[other].by = 0 /\ holder' # q
    BY <1>1, <1>3, <1>11, <1>13
  <2>. QED
    BY <1>1, <1>8, <1>10, <1>13, <2>1, OtherRuns
<1>14. RunSound(r)'
  <2>1. ASSUME NEW other \in Table!Role, other # role
        PROVE  /\ tasks'[r][other] = tasks[r][other]
               /\ note'[other] = note[other]
               /\ run'[r].notes[other] = run[r].notes[other]
    BY <1>7, <1>10, <1>11, <2>1
  <2>2. AtTable(r)'
    <3>1. SUFFICES ASSUME NEW other \in Table!Role
          PROVE  /\ run'[r].notes[other] # 0 =>
                      note'[other].by = run'[r].notes[other]
                 /\ /\ holder' = r /\ run'[r].notes[other] = 0
                    /\ note'[other].by # 0
                    => tasks'[r][other] = "failed"
                 /\ Table!Wave(other) < run'[r].wave =>
                      /\ run'[r].notes[other] # 0
                      /\ run'[r].prior[other] = run'[r].notes[other]
                 /\ /\ Table!Wave(other) = run'[r].wave
                    /\ tasks'[r][other] \in {"none", "saved"}
                    => run'[r].notes[other] # 0
                 /\ tasks'[r][other] \in {"asked", "answered"} =>
                      /\ run'[r].notes[other] = 0
                      /\ Table!Wave(other) = run'[r].wave
      BY DEF AtTable
    <3>2. CASE other = role
      <4>1. ~(Table!Wave(role) < run[r].wave)
        BY <1>3, Waves
      <4>. QED
        BY <1>5, <1>6, <1>7, <1>10, <1>11, <3>2, <4>1
    <3>3. CASE other # role
      BY <1>1, <1>2, <1>7, <2>1, <3>3 DEF AtTable
    <3>. QED
      BY <3>2, <3>3
  <2>. QED
    BY <1>1, <1>6, <1>7, <2>2 DEF RunSound
<1>15. Table!NotesAgree'
  <2>1. ASSUME NEW one \in Table!Role, NEW other \in Table!Role,
               note'[one].by # 0, Table!Wave(other) < Table!Wave(one)
        PROVE  /\ note'[other].by # 0
               /\ note'[one].saw[other] = note'[other].by
    <3>1. CASE one = role
      <4>1. other # role /\ Table!Wave(other) < run[r].wave
        BY <1>3, <2>1, <3>1, Waves
      <4>2. /\ run[r].notes[other] # 0
            /\ run[r].prior[other] = run[r].notes[other]
            /\ note[other].by = run[r].notes[other]
        BY <1>2, <4>1 DEF AtTable
      <4>. QED
        BY <1>11, <3>1, <4>1, <4>2
    <3>2. CASE one # role
      <4>1. note[one].by # 0 /\ note'[one] = note[one]
        BY <1>11, <2>1, <3>2
      <4>2. note[other].by # 0 /\ note[one].saw[other] = note[other].by
        BY <2>1, <4>1 DEF Table!NotesAgree
      <4>3. other # role
        BY <1>3, <4>2
      <4>. QED
        BY <1>11, <4>1, <4>2, <4>3
    <3>. QED
      BY <3>1, <3>2
  <2>2. done' => \A one \in Table!Role : note'[one].by # 0
    BY <1>1, <1>6, <1>11 DEF Table!NotesAgree
  <2>. QED
    BY <2>1, <2>2 DEF Table!NotesAgree
<1>. QED
  BY <1>12, <1>13, <1>14, <1>15

\* A run that is over, and nothing is read of any more.
LEMMA TableOver ==
  ASSUME TableInv, NEW r \in Table!Run,
         Table!Complete(r) \/ Table!Fail(r) \/ Table!Crash(r)
  PROVE  TableInv'
<1>. USE DEF TableInv
<1>1. /\ run' = [run EXCEPT ![r] = [Table!NoRun EXCEPT !.at = "over"]]
      /\ tasks' = [tasks EXCEPT ![r] = Table!NoTurns]
      /\ UNCHANGED <<holder, note>>
      /\ leased' \in BOOLEAN /\ done' \in BOOLEAN
      /\ run[r].at \in {"recover", "table"}
  <2>1. CASE Table!Complete(r)
    BY <2>1 DEF Table!Complete, Table!Over, TableTypes
  <2>2. CASE Table!Fail(r)
    <3>1. leased' \in BOOLEAN
      <4>1. (holder = r /\ ~done) \in BOOLEAN /\ leased \in BOOLEAN
        BY DEF TableTypes
      <4>. QED
        BY <2>2, <4>1 DEF Table!Fail
    <3>. QED
      BY <2>2, <3>1 DEF Table!Fail, Table!Over, TableTypes
  <2>3. CASE Table!Crash(r)
    BY <2>3 DEF Table!Crash, Table!Over, TableTypes
  <2>. QED
    BY <2>1, <2>2, <2>3
<1>2. /\ [Table!NoRun EXCEPT !.at = "over"] \in XRun
      /\ [Table!NoRun EXCEPT !.at = "over"].at = "over"
  <2>1. Table!NoRun \in XRun
    BY Waves DEF Table!NoRun, XRun, XAt
  <2>. QED
    BY <2>1 DEF XRun, XAt
<1>3. /\ run' \in [Table!Run -> XRun] /\ run'[r].at = "over"
      /\ tasks' \in [Table!Run -> XTasks] /\ tasks'[r] = Table!NoTurns
      /\ \A q \in Table!Run \ {r} : run'[q] = run[q] /\ tasks'[q] = tasks[q]
  BY <1>1, <1>2, Waves DEF TableTypes
<1>4. TableTypes'
  BY <1>1, <1>3 DEF TableTypes
<1>5. ASSUME NEW q \in Table!Run, q # r
      PROVE  RunSound(q)'
  BY <1>1, <1>3, <1>5, OtherRuns
<1>6. RunSound(r)'
  BY <1>1, <1>3 DEF RunSound
<1>7. done' => \A role \in Table!Role : note[role].by # 0
  <2>1. CASE done' = done
    BY <2>1 DEF Table!NotesAgree
  <2>2. CASE Table!Complete(r)
    <3>1. /\ run[r].at = "table" /\ run[r].wave = 3 /\ Table!Settled(r)
      BY <2>2 DEF Table!Complete
    <3>2. AtTable(r)
      BY <3>1 DEF RunSound
    <3>3. ASSUME NEW role \in Table!Role
          PROVE  note[role].by # 0
      <4>1. /\ tasks[r][role] \in {"none", "saved"}
            /\ Table!Wave(role) < 3 \/ Table!Wave(role) = 3
        BY <3>1, Waves DEF Table!Settled
      <4>2. run[r].notes[role] # 0
        BY <3>1, <3>2, <4>1 DEF AtTable
      <4>. QED
        BY <3>2, <4>2 DEF AtTable
    <3>. QED
      BY <3>3
  <2>. QED
    BY <2>1, <2>2 DEF Table!Fail, Table!Crash
<1>8. Table!NotesAgree'
  BY <1>1, <1>7 DEF Table!NotesAgree
<1>. QED
  BY <1>4, <1>5, <1>6, <1>8

LEMMA TableStays ==
  ASSUME TableInv, Table!Next \/ UNCHANGED tableVars
  PROVE  TableInv'
<1>1. CASE UNCHANGED tableVars
  <2>1. UNCHANGED <<holder, leased, done, note, run, tasks>>
    BY <1>1 DEF tableVars
  <2>2. TableTypes' /\ Table!NotesAgree'
    BY <2>1 DEF TableInv, TableTypes, Table!NotesAgree
  <2>3. \A r \in Table!Run : RunSound(r)'
    BY <2>1 DEF TableInv, RunSound, AtTable
  <2>. QED
    BY <2>2, <2>3 DEF TableInv
<1>2. CASE Table!Lapse
  <2>1. Table!Run # {}
    BY BookAssumptions DEF Table!RunAssumption, Table!Run
  <2>. QED
    BY <1>2, <2>1, TableLease
<1>3. CASE Table!Next /\ ~Table!Lapse
  BY <1>3, TableLease, TableWave, TableTasks, TableSave, TableOver
     DEF Table!Next
<1>. QED
  BY <1>1, <1>2, <1>3

-----------------------------------------------------------------------------
(* Research *)

XResult == [rev : Nat, began : Nat, ended : Nat, fresh : BOOLEAN]
XFlight == [at : {"none", "get", "ask", "recheck", "put"}, result : XResult,
            reused : BOOLEAN, sources : BOOLEAN]
XCall == [at : {"idle", "receipt", "revision", "enter", "wait", "brief",
                "told"},
          op : Research!Op, since : Nat, required : Nat, rev : Nat,
          got : XResult]

ResearchTypes ==
  /\ revision \in Research!Rev
  /\ row \in [Research!Op -> XResult]
  /\ receiptRow \in XResult /\ receipts \in XResult /\ board \in XResult
  /\ inFlight \in [Research!Flight -> XFlight]
  /\ request \in [Asker -> XCall]

\* No correction arrived while it was retrieved.
Settled(x) == x.began = x.rev /\ x.ended = x.rev

Cached ==
  /\ \A op \in Research!Op : Settled(row[op])
  /\ Settled(receiptRow) /\ Settled(receipts) /\ Settled(board)

\* A retrieval begins at its revision or later; one that is put is settled.
FlightSound(f) ==
  LET x == inFlight[f].result IN
  /\ inFlight[f].at # "none" => f[2] <= revision
  /\ inFlight[f].at \in {"ask", "recheck"} =>
       x.rev = f[2] /\ f[2] <= x.began /\ x.began <= revision
  /\ inFlight[f].at = "recheck" => x.began <= x.ended /\ x.ended <= revision
  /\ inFlight[f].at = "put" => x.rev = f[2] /\ Settled(x)

\* A role asks for a revision that was on record after it began to ask.
CallSound(r) ==
  /\ request[r].since <= revision
  /\ request[r].at \in {"enter", "wait"} =>
       /\ request[r].since <= request[r].rev /\ request[r].rev <= revision
       /\ request[r].rev > 0
  /\ request[r].at = "told" =>
       /\ request[r].since <= request[r].got.began
       /\ request[r].got.ended = request[r].got.began

ResearchInv ==
  /\ ResearchTypes /\ Cached
  /\ \A f \in Research!Flight : FlightSound(f)
  /\ \A r \in Asker : CallSound(r)

LEMMA Blank ==
  /\ Research!Nothing \in XResult /\ Settled(Research!Nothing)
  /\ Research!NoFlight \in XFlight /\ Research!NoFlight.at = "none"
  /\ Research!NoCall \in XCall /\ Research!NoCall.at = "idle"
  /\ Research!NoCall.since = 0
<1>1. Research!Nothing \in XResult /\ Settled(Research!Nothing)
  BY DEF Research!Nothing, XResult, Settled
<1>2. Research!NoFlight \in XFlight /\ Research!NoFlight.at = "none"
  BY <1>1 DEF Research!NoFlight, XFlight
<1>3. /\ Research!NoCall \in XCall /\ Research!NoCall.at = "idle"
      /\ Research!NoCall.since = 0
  BY <1>1 DEF Research!NoCall, XCall, Research!Op
<1>. QED
  BY <1>1, <1>2, <1>3

LEMMA Keys ==
  /\ \A f \in Research!Flight :
       f[1] \in Research!Op /\ f[2] \in Research!Rev /\ f[2] \in Nat
  /\ \A n \in Research!Rev : n \in Nat /\ n > 0
  /\ \A op \in Research!Op, n \in Research!Rev :
       <<op, n>> \in Research!Flight
  BY BookAssumptions DEF Research!Flight, Research!Rev,
     Research!ResearchAssumption

LEMMA ResearchInit ==
  ASSUME Research!Init
  PROVE  ResearchInv
<1>1. /\ revision = 1 /\ 1 \in Research!Rev
      /\ row = [op \in Research!Op |-> Research!Nothing]
      /\ receiptRow = Research!Nothing /\ receipts = Research!Nothing
      /\ board = Research!Nothing
      /\ inFlight = [f \in Research!Flight |-> Research!NoFlight]
      /\ request = [r \in Asker |-> Research!NoCall]
  BY BookAssumptions DEF Research!Init, Research!Rev,
     Research!ResearchAssumption
<1>2. ResearchTypes
  BY <1>1, Blank DEF ResearchTypes
<1>3. Cached
  BY <1>1, Blank DEF Cached
<1>4. \A f \in Research!Flight : FlightSound(f)
  BY <1>1, Blank DEF FlightSound
<1>5. \A r \in Asker : CallSound(r)
  BY <1>1, Blank DEF CallSound
<1>. QED
  BY <1>2, <1>3, <1>4, <1>5 DEF ResearchInv

\* What does not change stays sound while the revision does not go back.
LEMMA StaysSound ==
  ASSUME ResearchInv, revision' \in Nat, revision <= revision'
  PROVE  /\ \A f \in Research!Flight :
              inFlight'[f] = inFlight[f] => FlightSound(f)'
         /\ \A r \in Asker : request'[r] = request[r] => CallSound(r)'
<1>1. revision \in Nat
  BY Keys DEF ResearchInv, ResearchTypes
<1>2. ASSUME NEW f \in Research!Flight, inFlight'[f] = inFlight[f]
      PROVE  FlightSound(f)'
  <2>1. FlightSound(f) /\ inFlight[f] \in XFlight /\ f[2] \in Nat
    BY Keys DEF ResearchInv, ResearchTypes
  <2>2. /\ inFlight[f].result.began \in Nat
        /\ inFlight[f].result.ended \in Nat
    BY <2>1 DEF XFlight, XResult
  <2>. QED
    BY <1>1, <1>2, <2>1, <2>2 DEF FlightSound, Settled
<1>3. ASSUME NEW r \in Asker, request'[r] = request[r]
      PROVE  CallSound(r)'
  <2>1. CallSound(r) /\ request[r] \in XCall
    BY DEF ResearchInv, ResearchTypes
  <2>2. request[r].since \in Nat /\ request[r].rev \in Nat
    BY <2>1 DEF XCall
  <2>. QED
    BY <1>1, <1>3, <2>1, <2>2 DEF CallSound
<1>. QED
  BY <1>2, <1>3

\* A retrieval ends: who waits for it is told what it found, or nothing.
LEMMA FlightEnds ==
  ASSUME ResearchInv, NEW f \in Research!Flight, NEW told \in BOOLEAN,
         Research!End(f, told), revision' = revision,
         told => inFlight[f].result.rev = f[2] /\ Settled(inFlight[f].result)
  PROVE  /\ inFlight' \in [Research!Flight -> XFlight]
         /\ request' \in [Asker -> XCall]
         /\ \A g \in Research!Flight : FlightSound(g)'
         /\ \A r \in Asker : CallSound(r)'
<1>. USE DEF ResearchInv
<1>0. revision \in Nat /\ revision' \in Nat /\ revision <= revision'
  BY Keys DEF ResearchTypes
<1>1. /\ inFlight' = [inFlight EXCEPT ![f] = Research!NoFlight]
      /\ request' = [r \in Asker |->
           IF ~Research!Waits(r, f) THEN request[r]
           ELSE IF told THEN Research!Told(r, inFlight[f].result)
           ELSE Research!NoCall]
  BY DEF Research!End
<1>2. inFlight' \in [Research!Flight -> XFlight]
  BY <1>1, Blank DEF ResearchTypes
<1>3. ASSUME NEW g \in Research!Flight
      PROVE  FlightSound(g)'
  <2>1. CASE g = f
    <3>1. inFlight'[g].at = "none"
      BY <1>1, <2>1, Blank DEF ResearchTypes
    <3>. QED
      BY <3>1 DEF FlightSound
  <2>2. CASE g # f
    <3>1. inFlight'[g] = inFlight[g]
      BY <1>1, <2>2 DEF ResearchTypes
    <3>. QED
      BY <1>0, <3>1, StaysSound
  <2>. QED
    BY <2>1, <2>2
<1>4. ASSUME NEW r \in Asker
      PROVE  request'[r] \in XCall /\ CallSound(r)'
  <2>1. CASE request'[r] = request[r]
    BY <1>0, <2>1, StaysSound DEF ResearchTypes
  <2>2. CASE request'[r] = Research!NoCall
    BY <1>0, <2>2, Blank DEF CallSound
  <2>3. CASE /\ told /\ Research!Waits(r, f)
             /\ request'[r] = Research!Told(r, inFlight[f].result)
    <3>. DEFINE x == inFlight[f].result
    <3>1. /\ request[r].at = "wait" /\ request[r].rev = f[2]
          /\ request[r] \in XCall
      BY <2>3 DEF Research!Waits, ResearchTypes
    <3>2. /\ request[r].since \in Nat /\ request[r].since <= f[2]
          /\ request[r].since <= revision
      BY <3>1 DEF XCall, CallSound
    <3>3. x \in XResult /\ x.began = f[2] /\ x.ended = f[2]
      BY <2>3 DEF ResearchTypes, XFlight, Settled
    <3>. HIDE DEF x
    <3>4. request'[r] =
            [Research!NoCall EXCEPT !.at = "told",
               !.since = request[r].since, !.got = x]
      BY <2>3 DEF Research!Told, x
    <3>5. /\ request'[r] \in XCall /\ request'[r].at = "told"
          /\ request'[r].since = request[r].since /\ request'[r].got = x
      BY <3>2, <3>3, <3>4, Blank DEF XCall
    <3>. QED
      BY <1>0, <3>2, <3>3, <3>5 DEF CallSound
  <2>. QED
    BY <1>1, <2>1, <2>2, <2>3
<1>5. request' \in [Asker -> XCall]
  <2>1. request' = [r \in Asker |-> request'[r]]
    BY <1>1
  <2>. QED
    BY <1>4, <2>1
<1>. QED
  BY <1>2, <1>3, <1>4, <1>5

\* A step of one role's call, which leaves the rest alone.
LEMMA OneCall ==
  ASSUME ResearchInv, NEW r \in Asker, NEW c \in XCall,
         request' = [request EXCEPT ![r] = c],
         revision' = revision,
         c.since <= revision,
         c.at \in {"enter", "wait"} =>
           c.since <= c.rev /\ c.rev <= revision /\ c.rev > 0,
         c.at = "told" => c.since <= c.got.began /\ c.got.ended = c.got.began
  PROVE  /\ request' \in [Asker -> XCall]
         /\ \A q \in Asker : CallSound(q)'
<1>1. /\ request' \in [Asker -> XCall] /\ request'[r] = c
      /\ \A q \in Asker \ {r} : request'[q] = request[q]
  BY DEF ResearchInv, ResearchTypes
<1>2. revision \in Nat /\ revision' \in Nat /\ revision <= revision'
  BY Keys DEF ResearchInv, ResearchTypes
<1>3. CallSound(r)'
  BY <1>1 DEF CallSound
<1>. QED
  BY <1>1, <1>2, <1>3, StaysSound

LEMMA ResearchCalls ==
  ASSUME ResearchInv, NEW r \in Asker,
         \/ Research!Ask(r, "search", "revision")
         \/ Research!Ask(r, "read", "receipt")
         \/ Research!Ask(r, "search", "brief")
         \/ Research!FindReceipt(r) \/ Research!ReadRevision(r)
         \/ Research!Enter(r) \/ Research!Recall(r)
  PROVE  ResearchInv'
<1>. USE DEF ResearchInv
<1>1. /\ revision' = revision
      /\ UNCHANGED <<row, receiptRow, receipts>>
      /\ board' \in {board, Research!Nothing}
  BY DEF Research!Ask, Research!FindReceipt, Research!ReadRevision,
         Research!Enter, Research!Recall, Research!cache
<1>2. /\ revision \in Nat /\ revision > 0 /\ revision <= revision
      /\ revision' \in Nat /\ revision <= revision' /\ 0 <= revision
  BY <1>1, Keys DEF ResearchTypes
<1>3. Cached' /\ board' \in XResult
  BY <1>1, Blank DEF Cached, ResearchTypes
<1>4. request[r] \in XCall /\ CallSound(r)
  BY DEF ResearchTypes
<1>5. /\ request' \in [Asker -> XCall]
      /\ \A q \in Asker : CallSound(q)'
  <2>n. CASE Research!Refused(r)
    <3>1. request' = [request EXCEPT ![r] = Research!NoCall]
      BY <2>n DEF Research!Refused
    <3>. QED
      BY <1>1, <1>2, <3>1, Blank, OneCall
  <2>1. ASSUME NEW op \in Research!Op, NEW where \in {"revision", "receipt",
                                                     "brief"},
               Research!Ask(r, op, where)
        PROVE  /\ request' \in [Asker -> XCall]
               /\ \A q \in Asker : CallSound(q)'
    <3>. DEFINE c == [Research!NoCall EXCEPT !.at = where, !.op = op,
                        !.since = revision]
    <3>1. request' = [request EXCEPT ![r] = c]
      BY <2>1 DEF Research!Ask
    <3>2. /\ c \in XCall /\ c.since = revision
          /\ c.at \notin {"enter", "wait", "told"}
      BY <1>2, Blank DEF XCall
    <3>. HIDE DEF c
    <3>. QED
      BY <1>1, <1>2, <3>1, <3>2, OneCall
  <2>2. CASE Research!FindReceipt(r) /\ ~Research!Refused(r)
    <3>1. PICK entry \in {receipts, receiptRow} :
            request' = [request EXCEPT ![r].at = "revision",
                                       ![r].required = entry.rev]
      BY <2>2 DEF Research!FindReceipt
    <3>. DEFINE c == [request[r] EXCEPT !.at = "revision",
                        !.required = entry.rev]
    <3>2. request' = [request EXCEPT ![r] = c]
      BY <3>1 DEF ResearchTypes
    <3>3. entry.rev \in Nat
      BY DEF ResearchTypes, XResult
    <3>4. /\ c \in XCall /\ c.since = request[r].since
          /\ c.at \notin {"enter", "wait", "told"}
      BY <1>4, <3>3 DEF XCall
    <3>5. c.since <= revision
      BY <1>4, <3>4 DEF CallSound
    <3>. HIDE DEF c
    <3>. QED
      BY <1>1, <3>2, <3>4, <3>5, OneCall
  <2>3. CASE Research!ReadRevision(r) /\ ~Research!Refused(r)
    <3>. DEFINE c == [request[r] EXCEPT !.at = "enter", !.rev = revision]
    <3>1. request' = [request EXCEPT ![r] = c]
      BY <2>3 DEF Research!ReadRevision, ResearchTypes
    <3>2. /\ c \in XCall /\ c.since = request[r].since
          /\ c.at = "enter" /\ c.rev = revision
      BY <1>2, <1>4 DEF XCall
    <3>3. c.since <= revision
      BY <1>4, <3>2 DEF CallSound
    <3>. HIDE DEF c
    <3>. QED
      BY <1>1, <1>2, <3>1, <3>2, <3>3, OneCall
  <2>4. CASE Research!Enter(r)
    <3>. DEFINE c == [request[r] EXCEPT !.at = "wait",
                        !.rev = Research!FlightKey(r)[2]]
    <3>1. request' = [request EXCEPT ![r] = c]
      BY <2>4 DEF Research!Enter, ResearchTypes
    <3>2. Research!FlightKey(r)[2] = request[r].rev
      BY DEF Research!FlightKey
    <3>3. /\ c \in XCall /\ c.since = request[r].since
          /\ c.at = "wait" /\ c.rev = request[r].rev
      BY <1>4, <3>2 DEF XCall
    <3>4. /\ c.since <= c.rev /\ c.rev <= revision /\ c.rev > 0
          /\ c.since <= revision
      BY <1>4, <2>4, <3>3 DEF CallSound, Research!Enter
    <3>. HIDE DEF c
    <3>. QED
      BY <1>1, <3>1, <3>3, <3>4, OneCall
  <2>5. CASE Research!Recall(r) /\ ~Research!Refused(r)
    <3>. DEFINE c == Research!Told(r, board)
    <3>1. /\ request' = [request EXCEPT ![r] = c]
          /\ board.rev = revision
      BY <2>5 DEF Research!Recall
    <3>2. board \in XResult /\ request[r].since \in Nat
      BY <1>4 DEF ResearchTypes, XCall
    <3>3. c = [Research!NoCall EXCEPT !.at = "told",
                 !.since = request[r].since, !.got = board]
      BY DEF Research!Told
    <3>. HIDE DEF c
    <3>4. /\ c \in XCall /\ c.since = request[r].since
          /\ c.at = "told" /\ c.got = board
      BY <3>2, <3>3, Blank DEF XCall
    <3>5. /\ c.since <= revision /\ c.got.began = revision
          /\ c.got.ended = revision
      BY <1>4, <3>1, <3>4 DEF CallSound, Cached, Settled
    <3>. QED
      BY <1>1, <3>1, <3>4, <3>5, OneCall
  <2>6. "search" \in Research!Op /\ "read" \in Research!Op
    BY DEF Research!Op
  <2>. QED
    BY <2>n, <2>1, <2>2, <2>3, <2>4, <2>5, <2>6
<1>6. /\ inFlight' \in [Research!Flight -> XFlight]
      /\ \A f \in Research!Flight : FlightSound(f)'
  <2>1. CASE inFlight' = inFlight
    BY <1>2, <2>1, StaysSound DEF ResearchTypes
  <2>2. CASE Research!Enter(r) /\ inFlight' # inFlight
    <3>1. /\ request[r].at = "enter"
          /\ inFlight' =
               [inFlight EXCEPT ![Research!FlightKey(r)].at = "get"]
      BY <2>2 DEF Research!Enter
    <3>2. request[r].rev <= revision /\ request[r].rev > 0
      BY <1>4, <3>1 DEF CallSound
    <3>3. request[r].rev \in Research!Rev /\ request[r].op \in Research!Op
      <4>1. request[r].rev \in Nat /\ request[r].op \in Research!Op
        BY <1>4 DEF XCall
      <4>2. MaxRev \in Nat
        BY BookAssumptions DEF Research!ResearchAssumption
      <4>. QED
        BY <1>2, <3>2, <4>1, <4>2 DEF ResearchTypes, Research!Rev
    <3>4. PICK f \in Research!Flight :
            f = Research!FlightKey(r) /\ f[2] <= revision
      BY <3>2, <3>3, Keys DEF Research!FlightKey
    <3>5. /\ inFlight' \in [Research!Flight -> XFlight]
          /\ inFlight'[f].at = "get"
          /\ \A g \in Research!Flight \ {f} : inFlight'[g] = inFlight[g]
      BY <3>1, <3>4 DEF ResearchTypes, XFlight
    <3>6. FlightSound(f)'
      BY <1>1, <3>4, <3>5 DEF FlightSound
    <3>. QED
      BY <1>2, <3>4, <3>5, <3>6, StaysSound
  <2>. QED
    BY <2>1, <2>2 DEF Research!Ask, Research!FindReceipt,
       Research!ReadRevision, Research!Recall
<1>7. ResearchTypes'
  BY <1>1, <1>3, <1>5, <1>6 DEF ResearchTypes
<1>. QED
  BY <1>3, <1>5, <1>6, <1>7

\* A step of one retrieval that goes on, which leaves the rest alone.
LEMMA OneFlight ==
  ASSUME ResearchInv, NEW f \in Research!Flight, NEW x \in XFlight,
         inFlight' = [inFlight EXCEPT ![f] = x],
         revision' = revision, f[2] <= revision,
         x.at \in {"ask", "recheck"} =>
           /\ x.result.rev = f[2] /\ f[2] <= x.result.began
           /\ x.result.began <= revision,
         x.at = "recheck" =>
           x.result.began <= x.result.ended /\ x.result.ended <= revision,
         x.at = "put" => x.result.rev = f[2] /\ Settled(x.result)
  PROVE  /\ inFlight' \in [Research!Flight -> XFlight]
         /\ \A g \in Research!Flight : FlightSound(g)'
<1>1. /\ inFlight' \in [Research!Flight -> XFlight] /\ inFlight'[f] = x
      /\ \A g \in Research!Flight \ {f} : inFlight'[g] = inFlight[g]
  BY DEF ResearchInv, ResearchTypes
<1>2. revision \in Nat /\ revision' \in Nat /\ revision <= revision'
  BY Keys DEF ResearchInv, ResearchTypes
<1>3. FlightSound(f)'
  BY <1>1 DEF FlightSound, Settled
<1>. QED
  BY <1>1, <1>2, <1>3, StaysSound

LEMMA ResearchGoesOn ==
  ASSUME ResearchInv, NEW f \in Research!Flight,
         Research!Get(f) \/ Research!Answer(f)
  PROVE  ResearchInv'
<1>. USE DEF ResearchInv
<1>1. /\ revision' = revision
      /\ UNCHANGED <<row, receiptRow, receipts, board, request>>
      /\ inFlight[f].at # "none"
  BY DEF Research!Get, Research!Answer, Research!cache
<1>2. /\ revision \in Nat /\ revision <= revision
      /\ revision' \in Nat /\ revision <= revision'
  BY <1>1, Keys DEF ResearchTypes
<1>3. Cached'
  BY <1>1 DEF Cached
<1>4. \A q \in Asker : CallSound(q)'
  BY <1>1, <1>2, StaysSound
<1>5. /\ inFlight[f] \in XFlight /\ f[2] \in Nat /\ f[1] \in Research!Op
      /\ f[2] <= revision
  BY <1>1, Keys DEF ResearchTypes, FlightSound
<1>6. /\ inFlight' \in [Research!Flight -> XFlight]
      /\ \A g \in Research!Flight : FlightSound(g)'
  <2>1. CASE /\ Research!Get(f)
             /\ row[f[1]].fresh /\ row[f[1]].rev = f[2]
    <3>. DEFINE x == [at |-> "recheck", result |-> row[f[1]],
                      reused |-> TRUE, sources |-> TRUE]
    <3>1. inFlight' = [inFlight EXCEPT ![f] = x]
      BY <2>1 DEF Research!Get
    <3>2. row[f[1]] \in XResult /\ Settled(row[f[1]])
      BY <1>5 DEF ResearchTypes, Cached
    <3>3. x \in XFlight /\ x.at = "recheck" /\ x.result = row[f[1]]
      BY <3>2 DEF XFlight
    <3>4. /\ x.result.rev = f[2] /\ x.result.began = f[2]
          /\ x.result.ended = f[2]
      BY <2>1, <3>2, <3>3 DEF Settled
    <3>. HIDE DEF x
    <3>5. /\ x.result.rev = f[2] /\ f[2] <= x.result.began
          /\ x.result.began <= revision
          /\ x.result.began <= x.result.ended
          /\ x.result.ended <= revision
      BY <1>5, <3>4
    <3>. QED
      BY <1>1, <1>5, <3>1, <3>3, <3>5, OneFlight
  <2>2. CASE /\ Research!Get(f)
             /\ ~(row[f[1]].fresh /\ row[f[1]].rev = f[2])
    <3>. DEFINE y == [Research!Nothing EXCEPT !.rev = f[2],
                        !.began = revision]
                x == [Research!NoFlight EXCEPT !.at = "ask", !.result = y]
    <3>1. inFlight' = [inFlight EXCEPT ![f] = x]
      BY <2>2 DEF Research!Get
    <3>2. y \in XResult /\ y.rev = f[2] /\ y.began = revision
      BY <1>2, <1>5, Blank DEF XResult
    <3>. HIDE DEF y
    <3>3. x \in XFlight /\ x.at = "ask" /\ x.result = y
      BY <3>2, Blank DEF XFlight
    <3>. HIDE DEF x
    <3>. QED
      BY <1>1, <1>2, <1>5, <3>1, <3>2, <3>3, OneFlight
  <2>3. CASE Research!Answer(f)
    <3>1. PICK seen \in BOOLEAN :
            inFlight' = [inFlight EXCEPT
              ![f].at = "recheck", ![f].sources = seen,
              ![f].result.ended = revision, ![f].result.fresh = TRUE]
      BY <2>3 DEF Research!Answer
    <3>. DEFINE y == [inFlight[f].result EXCEPT !.ended = revision,
                        !.fresh = TRUE]
                x == [inFlight[f] EXCEPT !.at = "recheck", !.sources = seen,
                        !.result = y]
    <3>2. inFlight' = [inFlight EXCEPT ![f] = x]
      BY <1>5, <3>1 DEF ResearchTypes, XFlight
    <3>3. inFlight[f].result \in XResult
      BY <1>5 DEF XFlight
    <3>4. /\ y \in XResult /\ y.ended = revision
          /\ y.rev = inFlight[f].result.rev
          /\ y.began = inFlight[f].result.began
      BY <1>2, <3>3 DEF XResult
    <3>. HIDE DEF y
    <3>5. x \in XFlight /\ x.at = "recheck" /\ x.result = y
      BY <1>5, <3>4 DEF XFlight
    <3>. HIDE DEF x
    <3>6. /\ inFlight[f].result.rev = f[2]
          /\ f[2] <= inFlight[f].result.began
          /\ inFlight[f].result.began <= revision
      BY <2>3 DEF Research!Answer, FlightSound
    <3>. QED
      BY <1>1, <1>2, <1>5, <3>2, <3>4, <3>5, <3>6, OneFlight
  <2>. QED
    BY <2>1, <2>2, <2>3
<1>7. ResearchTypes'
  BY <1>1, <1>6 DEF ResearchTypes
<1>. QED
  BY <1>3, <1>4, <1>6, <1>7

\* What is published, and told, is of the revision on record then.
LEMMA ResearchResults ==
  ASSUME ResearchInv, NEW f \in Research!Flight,
         Research!Recheck(f) \/ Research!Put(f) \/ Research!FlightFails(f)
  PROVE  ResearchInv'
<1>. USE DEF ResearchInv
<1>. DEFINE x == inFlight[f].result
<1>1. revision' = revision /\ inFlight[f].at # "none"
  BY DEF Research!Recheck, Research!Put, Research!FlightFails
<1>2. /\ revision \in Nat /\ revision' \in Nat /\ revision <= revision'
  BY <1>1, Keys DEF ResearchTypes
<1>3. /\ inFlight[f] \in XFlight /\ f[2] \in Nat /\ f[1] \in Research!Op
      /\ f[2] <= revision /\ x \in XResult /\ FlightSound(f)
  <2>1. inFlight[f] \in XFlight
    BY DEF ResearchTypes
  <2>. QED
    BY <1>1, <2>1, Keys DEF FlightSound, XFlight
<1>4. \/ /\ Research!Recheck(f) /\ Research!StillCurrent(f)
      \/ Research!Put(f)
      => x.rev = f[2] /\ Settled(x)
  <2>1. CASE Research!Recheck(f) /\ Research!StillCurrent(f)
    <3>1. /\ x.rev = f[2] /\ f[2] <= x.began /\ x.began <= x.ended
          /\ x.ended <= revision /\ revision = f[2]
      BY <1>3, <2>1 DEF FlightSound, Research!Recheck,
         Research!StillCurrent
    <3>2. x.began \in Nat /\ x.ended \in Nat
      BY <1>3 DEF XResult
    <3>. QED
      BY <1>3, <3>1, <3>2 DEF Settled
  <2>2. CASE Research!Put(f)
    BY <1>3, <2>2 DEF FlightSound, Research!Put
  <2>. QED
    BY <2>1, <2>2
<1>5. /\ Cached' /\ row' \in [Research!Op -> XResult]
      /\ receiptRow' \in XResult /\ receipts' \in XResult
      /\ board' \in XResult
  <2>1. CASE Research!Recheck(f) /\ Research!StillCurrent(f)
    <3>1. /\ UNCHANGED <<row, receiptRow>>
          /\ receipts' \in {x, receipts} /\ board' \in {x, board}
      BY <2>1 DEF Research!Recheck, Research!cache, Research!Publish
    <3>. QED
      BY <1>3, <1>4, <2>1, <3>1 DEF Cached, ResearchTypes
  <2>2. CASE Research!Recheck(f) /\ ~Research!StillCurrent(f)
    BY <2>2 DEF Research!Recheck, Research!cache, Cached, ResearchTypes
  <2>3. CASE Research!Put(f)
    <3>1. /\ row' = [row EXCEPT ![f[1]] = x] \/ row' = row
          /\ receiptRow' \in {x, receiptRow} /\ receipts' = receipts
          /\ board' \in {x, board}
      BY <2>3 DEF Research!Put, Research!cache, Research!Publish
    <3>2. Settled(x)
      BY <1>4, <2>3
    <3>3. \A op \in Research!Op : row'[op] \in {x, row[op]}
      BY <1>3, <3>1 DEF ResearchTypes
    <3>4. row' \in [Research!Op -> XResult]
      BY <1>3, <3>1 DEF ResearchTypes
    <3>5. \A op \in Research!Op : Settled(row'[op])
      BY <3>2, <3>3 DEF Cached
    <3>. HIDE DEF x
    <3>. QED
      BY <1>3, <3>1, <3>2, <3>4, <3>5 DEF Cached, ResearchTypes
  <2>4. CASE Research!FlightFails(f)
    BY <2>4 DEF Research!FlightFails, Research!cache, Cached, ResearchTypes
  <2>. QED
    BY <2>1, <2>2, <2>3, <2>4
<1>6. /\ inFlight' \in [Research!Flight -> XFlight]
      /\ request' \in [Asker -> XCall]
      /\ \A g \in Research!Flight : FlightSound(g)'
      /\ \A q \in Asker : CallSound(q)'
  <2>1. CASE Research!End(f, FALSE)
    BY <1>1, <2>1, FlightEnds
  <2>2. CASE /\ \/ /\ Research!Recheck(f) /\ Research!StillCurrent(f)
                \/ Research!Put(f)
             /\ Research!End(f, TRUE)
    BY <1>1, <1>4, <2>2, FlightEnds
  <2>3. CASE /\ Research!Recheck(f) /\ Research!StillCurrent(f)
             /\ inFlight' = [inFlight EXCEPT ![f].at = "put"]
             /\ request' = request
    <3>. DEFINE y == [inFlight[f] EXCEPT !.at = "put"]
    <3>1. inFlight' = [inFlight EXCEPT ![f] = y]
      BY <2>3 DEF ResearchTypes
    <3>2. y \in XFlight /\ y.at = "put" /\ y.result = x
      BY <1>3 DEF XFlight
    <3>. HIDE DEF y
    <3>3. /\ inFlight' \in [Research!Flight -> XFlight]
          /\ \A g \in Research!Flight : FlightSound(g)'
      BY <1>1, <1>3, <1>4, <2>3, <3>1, <3>2, OneFlight
    <3>. QED
      BY <1>2, <2>3, <3>3, StaysSound DEF ResearchTypes
  <2>. QED
    BY <2>1, <2>2, <2>3 DEF Research!Recheck, Research!Put,
       Research!FlightFails
<1>7. ResearchTypes'
  BY <1>1, <1>5, <1>6 DEF ResearchTypes
<1>. QED
  BY <1>5, <1>6, <1>7

\* News, the end of lifetimes, and the next shift.
LEMMA ResearchTime ==
  ASSUME ResearchInv,
         Research!News \/ Research!Lapse \/ Research!NextShift
  PROVE  ResearchInv'
<1>. USE DEF ResearchInv
<1>1. /\ revision' \in Research!Rev /\ revision \in Nat /\ revision' \in Nat
      /\ revision <= revision'
  <2>1. revision \in Nat /\ revision > 0
    BY Keys DEF ResearchTypes
  <2>2. CASE Research!News
    <3>1. MaxRev \in Nat
      BY BookAssumptions DEF Research!ResearchAssumption
    <3>. QED
      BY <2>1, <2>2, <3>1 DEF Research!News, Research!Rev
  <2>3. CASE revision' = revision
    BY <2>1, <2>3 DEF ResearchTypes
  <2>. QED
    BY <2>2, <2>3 DEF Research!Lapse, Research!NextShift
<1>2. /\ Cached' /\ row' \in [Research!Op -> XResult]
      /\ receiptRow' \in XResult /\ receipts' \in XResult
      /\ board' \in XResult
  <2>1. CASE Research!News
    BY <2>1 DEF Research!News, Research!cache, Cached, ResearchTypes
  <2>2. CASE Research!NextShift
    BY <2>2, Blank DEF Research!NextShift, Research!cache, Cached,
       ResearchTypes
  <2>3. CASE Research!Lapse
    <3>1. /\ [receipts EXCEPT !.fresh = FALSE] \in XResult
          /\ Settled([receipts EXCEPT !.fresh = FALSE])
      <4>1. receipts \in XResult /\ Settled(receipts)
        BY DEF Cached, ResearchTypes
      <4>. QED
        BY <4>1 DEF XResult, Settled
    <3>. DEFINE stale == [receipts EXCEPT !.fresh = FALSE]
    <3>. HIDE DEF stale
    <3>2. /\ receiptRow' \in {receiptRow, Research!Nothing}
          /\ receipts' \in {receipts, Research!Nothing, stale}
          /\ board' \in {board, Research!Nothing}
      BY <2>3 DEF Research!Lapse, Research!cache, stale
    <3>3. \/ row' = row
          \/ \E op \in Research!Op :
               row' = [row EXCEPT ![op] = Research!Nothing]
      BY <2>3 DEF Research!Lapse, Research!cache
    <3>4. /\ row' \in [Research!Op -> XResult]
          /\ \A op \in Research!Op : row'[op] \in {row[op], Research!Nothing}
      BY <3>3, Blank DEF ResearchTypes
    <3>. QED
      BY <3>1, <3>2, <3>4, Blank DEF Cached, ResearchTypes, stale
  <2>. QED
    BY <2>1, <2>2, <2>3
<1>3. /\ inFlight' \in [Research!Flight -> XFlight]
      /\ request' \in [Asker -> XCall]
      /\ \A f \in Research!Flight : FlightSound(f)'
      /\ \A q \in Asker : CallSound(q)'
  <2>1. CASE UNCHANGED <<inFlight, request>>
    BY <1>1, <2>1, StaysSound DEF ResearchTypes
  <2>2. CASE Research!NextShift
    <3>1. /\ inFlight' = [f \in Research!Flight |-> Research!NoFlight]
          /\ request' = [r \in Asker |-> Research!NoCall]
      BY <2>2 DEF Research!NextShift
    <3>2. \A f \in Research!Flight : FlightSound(f)'
      BY <3>1, Blank DEF FlightSound
    <3>3. \A q \in Asker : CallSound(q)'
      BY <1>1, <3>1, Blank DEF CallSound
    <3>. QED
      BY <3>1, <3>2, <3>3, Blank
  <2>. QED
    BY <2>1, <2>2 DEF Research!News, Research!Lapse
<1>4. ResearchTypes'
  BY <1>1, <1>2, <1>3 DEF ResearchTypes
<1>. QED
  BY <1>2, <1>3, <1>4

LEMMA ResearchStays ==
  ASSUME ResearchInv, Research!Next \/ UNCHANGED researchVars
  PROVE  ResearchInv'
<1>1. CASE UNCHANGED researchVars
  <2>1. UNCHANGED <<revision, row, receiptRow, receipts, board, inFlight,
                    request>>
    BY <1>1 DEF researchVars
  <2>2. revision' \in Nat /\ revision <= revision'
    BY <2>1, Keys DEF ResearchInv, ResearchTypes
  <2>3. ResearchTypes' /\ Cached'
    BY <2>1 DEF ResearchInv, ResearchTypes, Cached
  <2>. QED
    BY <2>1, <2>2, <2>3, StaysSound DEF ResearchInv
<1>2. CASE Research!News \/ Research!Lapse \/ Research!NextShift
  BY <1>2, ResearchTime
<1>3. ASSUME NEW r \in Asker,
             \/ Research!Ask(r, "search", "revision")
             \/ Research!Ask(r, "read", "receipt")
             \/ Research!Ask(r, "search", "brief")
             \/ Research!FindReceipt(r) \/ Research!ReadRevision(r)
             \/ Research!Enter(r) \/ Research!Recall(r)
      PROVE  ResearchInv'
  BY <1>3, ResearchCalls
<1>4. ASSUME NEW f \in Research!Flight,
             \/ Research!Get(f) \/ Research!Answer(f)
             \/ Research!Recheck(f) \/ Research!Put(f)
             \/ Research!FlightFails(f)
      PROVE  ResearchInv'
  BY <1>4, ResearchGoesOn, ResearchResults
<1>. QED
  BY <1>1, <1>2, <1>3, <1>4 DEF Research!Next

LEMMA ResearchTold ==
  ASSUME ResearchInv
  PROVE  Research!ToldCurrent
<1>1. SUFFICES ASSUME NEW r \in Asker, request[r].at = "told"
      PROVE  /\ request[r].got.began >= request[r].since
             /\ request[r].got.ended = request[r].got.began
  BY DEF Research!ToldCurrent
<1>2. request[r].since <= request[r].got.began
  BY <1>1 DEF ResearchInv, CallSound
<1>. QED
  BY <1>1, <1>2 DEF ResearchInv, CallSound

-----------------------------------------------------------------------------
(* Passes *)

XPass == [state : {"none", "open", "elapsed"}, version : Nat,
          wants : Passes!Wants, over : BOOLEAN, outcome : Passes!Outcome]
XSampler == [at : {"idle", "list", "observe", "commit"}, version : Nat,
             moved : BOOLEAN, id : 0 .. MaxPass, outcome : Passes!Outcome,
             saw : {"nothing", "shallow", "depth"}]

PassTypes ==
  /\ version \in Nat
  /\ pass \in [Passes!Pass -> XPass]
  /\ sampler \in XSampler

\* No pass is of a mandate to come, and none was reopened before it was.
Decided ==
  \A i \in Passes!Pass :
    /\ pass[i].state = "none" => pass[i].outcome.reopened = "no"
    /\ pass[i].state # "none" => pass[i].version <= version

\* The sample's pass is of its own mandate, or of a later one; what it saw of
\* a pass it saw of one that was not reopened when it was read.
Sampled ==
  /\ sampler.at # "idle" => sampler.version <= version
  /\ sampler.at \in {"observe", "commit"} /\ sampler.id # 0 =>
       /\ pass[sampler.id].state # "none"
       /\ sampler.version <= pass[sampler.id].version
  /\ sampler.at = "commit" /\ sampler.saw # "nothing" =>
       sampler.id # 0 /\ sampler.outcome.reopened = "no"

PassInv == PassTypes /\ Decided /\ Sampled

LEMMA PassBlank ==
  /\ Passes!NoPass \in XPass /\ Passes!NoPass.state = "none"
  /\ Passes!NoPass.outcome.reopened = "no"
  /\ Passes!Idle \in XSampler /\ Passes!Idle.at = "idle"
  /\ Passes!Unopened \in Passes!Outcome
<1>1. /\ Passes!Unopened \in Passes!Outcome
      /\ Passes!Unopened.reopened = "no"
  BY DEF Passes!Unopened, Passes!Outcome
<1>2. /\ Passes!NoPass \in XPass /\ Passes!NoPass.state = "none"
      /\ Passes!NoPass.outcome = Passes!Unopened
  BY <1>1 DEF Passes!NoPass, XPass, Passes!Wants
<1>3. Passes!Idle \in XSampler /\ Passes!Idle.at = "idle"
  BY <1>1, BookAssumptions DEF Passes!Idle, XSampler,
     Passes!PassesAssumption
<1>. QED
  BY <1>1, <1>2, <1>3

LEMMA PassIds ==
  ASSUME PassInv
  PROVE  /\ sampler.id \in Nat
         /\ sampler.id # 0 => sampler.id \in Passes!Pass
<1>1. sampler.id \in 0 .. MaxPass
  BY DEF PassInv, PassTypes, XSampler
<1>2. MaxPass \in Nat
  BY BookAssumptions DEF Passes!PassesAssumption
<1>. QED
  BY <1>1, <1>2 DEF Passes!Pass

LEMMA PassInit ==
  ASSUME Passes!Init
  PROVE  PassInv
<1>1. /\ version = 1 /\ sampler = Passes!Idle
      /\ pass = [i \in Passes!Pass |-> Passes!NoPass]
  BY DEF Passes!Init
<1>. QED
  BY <1>1, PassBlank DEF PassInv, PassTypes, Decided, Sampled

\* One pass changes, in what the invariant allows.
LEMMA OnePass ==
  ASSUME PassInv, NEW i \in Passes!Pass, NEW x \in XPass,
         pass' = [pass EXCEPT ![i] = x],
         UNCHANGED version,
         x.state # "none" /\ x.version <= version,
         pass[i].state # "none" => x.version = pass[i].version,
         sampler' = sampler \/ sampler' = Passes!Idle
  PROVE  PassInv'
<1>1. /\ pass' \in [Passes!Pass -> XPass] /\ pass'[i] = x
      /\ \A j \in Passes!Pass \ {i} : pass'[j] = pass[j]
  BY DEF PassInv, PassTypes
<1>2. PassTypes'
  BY <1>1, PassBlank DEF PassInv, PassTypes
<1>3. Decided'
  BY <1>1 DEF PassInv, Decided
<1>4. Sampled'
  <2>1. CASE sampler' = Passes!Idle
    BY <2>1, PassBlank DEF Sampled
  <2>2. CASE sampler' = sampler
    <3>1. sampler.id # 0 => sampler.id \in Passes!Pass
      BY PassIds
    <3>. QED
      BY <1>1, <2>2, <3>1 DEF PassInv, Sampled
  <2>. QED
    BY <2>1, <2>2
<1>. QED
  BY <1>2, <1>3, <1>4 DEF PassInv

\* Of a pass that stands, and of no other, the move is kept from the desk.
LEMMA CommitHandles ==
  ASSUME PassInv, NEW fresh \in BOOLEAN, Passes!Commit(fresh),
         Passes!Handled /\ fresh
  PROVE  /\ sampler.id \in Passes!Pass
         /\ Passes!Stands(sampler.id)
         /\ pass' = [pass EXCEPT ![sampler.id].outcome =
                                    Passes!Observed(sampler.id)]
<1>. USE DEF PassInv
<1>1. /\ sampler.at = "commit" /\ version = sampler.version
      /\ sampler.saw # "nothing"
      /\ ~pass[sampler.id].over /\ ~Passes!Superseded(sampler.id)
      /\ pass[sampler.id].state = "open"
      /\ pass[sampler.id].outcome = sampler.outcome
      /\ pass' = [pass EXCEPT ![sampler.id].outcome =
                                 Passes!Observed(sampler.id)]
  BY DEF Passes!Commit, Passes!Handled, Passes!AsRead
<1>2. sampler.id \in Passes!Pass /\ sampler.outcome.reopened = "no"
  BY <1>1, PassIds DEF Sampled
<1>3. /\ pass[sampler.id].version <= version
      /\ version <= pass[sampler.id].version
      /\ pass[sampler.id].version \in Nat
  BY <1>1, <1>2 DEF Sampled, Decided, PassTypes, XPass
<1>4. pass[sampler.id].version = version
  BY <1>3 DEF PassTypes
<1>. QED
  BY <1>1, <1>2, <1>4 DEF Passes!Stands, Passes!Listed

LEMMA PassStays ==
  ASSUME PassInv,
         Passes!Next \/ UNCHANGED <<passVars, bookVars>>
  PROVE  PassInv'
<1>. USE DEF PassInv
<1>1. CASE UNCHANGED <<version, pass, sampler>>
  BY <1>1 DEF PassTypes, Decided, Sampled
<1>2. ASSUME NEW i \in Passes!Pass, NEW wants \in Passes!Wants,
             NEW v \in 1 .. MaxVersion, Passes!Decide(i, wants, v)
      PROVE  PassInv'
  <2>. DEFINE x == [Passes!NoPass EXCEPT !.state = "open",
                      !.version = v, !.wants = wants]
  <2>1. /\ pass' = [pass EXCEPT ![i] = x] /\ v <= version
        /\ pass[i].state = "none" /\ UNCHANGED <<version, sampler>>
    BY <1>2 DEF Passes!Decide
  <2>2. x \in XPass /\ x.state = "open" /\ x.version = v
    <3>1. v \in Nat
      OBVIOUS
    <3>. QED
      BY <3>1, PassBlank DEF XPass
  <2>. HIDE DEF x
  <2>. QED
    BY <2>1, <2>2, OnePass
<1>3. ASSUME NEW i \in Passes!Pass,
             Passes!Lapse(i) \/ Passes!Release(i) \/ Passes!Close(i)
      PROVE  PassInv'
  <2>1. pass[i].state # "none" => pass[i].version <= version
    BY DEF Decided
  <2>2. UNCHANGED <<version, sampler>>
    BY <1>3 DEF Passes!Lapse, Passes!Release, Passes!Close
  <2>3. \/ pass' = pass
        \/ \E x \in XPass :
             /\ pass' = [pass EXCEPT ![i] = x]
             /\ x.state # "none" /\ x.version = pass[i].version
             /\ pass[i].state # "none"
    <3>0. pass[i] \in XPass /\ pass[i].outcome \in Passes!Outcome
      BY DEF PassTypes, XPass
    <3>1. CASE Passes!Lapse(i)
      <4>. DEFINE x == [pass[i] EXCEPT !.over = TRUE]
      <4>1. pass' = [pass EXCEPT ![i] = x] /\ pass[i].state = "open"
        BY <3>1 DEF Passes!Lapse, PassTypes
      <4>2. /\ x \in XPass /\ x.state = pass[i].state
            /\ x.version = pass[i].version
        BY <3>0 DEF XPass
      <4>. QED
        BY <4>1, <4>2
    <3>2. CASE Passes!Release(i)
      <4>. DEFINE o == [pass[i].outcome EXCEPT !.reopened = "news"]
                  x == [pass[i] EXCEPT !.outcome = o]
      <4>1. pass' = [pass EXCEPT ![i] = x] /\ pass[i].state = "open"
        BY <3>2 DEF Passes!Release, Passes!Listed, PassTypes
      <4>2. o \in Passes!Outcome
        BY <3>0 DEF Passes!Outcome
      <4>. HIDE DEF o
      <4>3. /\ x \in XPass /\ x.state = pass[i].state
            /\ x.version = pass[i].version
        BY <3>0, <4>2 DEF XPass
      <4>. QED
        BY <4>1, <4>3
    <3>3. CASE Passes!Close(i) /\ pass' # pass
      <4>. DEFINE x == [pass[i] EXCEPT !.state = "elapsed",
                          !.outcome = watcher[i]]
      <4>1. /\ pass' = [pass EXCEPT ![i] = x] /\ pass[i].state = "open"
            /\ watcher[i] = pass[i].outcome
        BY <3>3 DEF Passes!Close, Passes!AsRead, PassTypes
      <4>2. /\ x \in XPass /\ x.state = "elapsed"
            /\ x.version = pass[i].version
        BY <3>0, <4>1 DEF XPass
      <4>. QED
        BY <4>1, <4>2
    <3>. QED
      BY <1>3, <3>1, <3>2, <3>3
  <2>4. CASE pass' = pass
    BY <1>1, <2>2, <2>4
  <2>5. ASSUME NEW x \in XPass,
               pass' = [pass EXCEPT ![i] = x],
               x.state # "none", x.version = pass[i].version,
               pass[i].state # "none"
        PROVE  PassInv'
    BY <2>1, <2>2, <2>5, OnePass
  <2>. QED
    BY <2>3, <2>4, <2>5
<1>4. ASSUME NEW on \in BOOLEAN, Passes!UpdateBook(on)
      PROVE  PassInv'
  <2>1. version' = version + 1 /\ UNCHANGED <<pass, sampler>>
    BY <1>4 DEF Passes!UpdateBook
  <2>2. version \in Nat /\ sampler.version \in Nat
    BY DEF PassTypes, XSampler
  <2>3. \A i \in Passes!Pass : pass[i].version \in Nat
    BY DEF PassTypes, XPass
  <2>4. PassTypes' /\ Decided'
    BY <2>1, <2>2, <2>3 DEF PassTypes, Decided
  <2>5. Sampled'
    BY <2>1, <2>2 DEF Sampled
  <2>. QED
    BY <2>4, <2>5
<1>5. ASSUME NEW moved \in BOOLEAN, Passes!Sample(moved)
      PROVE  PassInv'
  <2>1. /\ sampler' = [Passes!Idle EXCEPT !.at = "list",
                         !.version = version, !.moved = moved]
        /\ UNCHANGED <<version, pass>>
    BY <1>5 DEF Passes!Sample
  <2>2. /\ sampler' \in XSampler /\ sampler'.at = "list"
        /\ sampler'.version = version
    BY <2>1, PassBlank DEF XSampler, PassTypes
  <2>. QED
    BY <2>1, <2>2 DEF PassTypes, Decided, Sampled
<1>6. ASSUME NEW fresh \in BOOLEAN, Passes!Commit(fresh)
      PROVE  PassInv'
  <2>1. sampler' = Passes!Idle /\ UNCHANGED version
    BY <1>6 DEF Passes!Commit
  <2>2. CASE ~(Passes!Handled /\ fresh)
    <3>1. pass' = pass
      BY <1>6, <2>2 DEF Passes!Commit
    <3>. QED
      BY <2>1, <3>1, PassBlank DEF PassTypes, Decided, Sampled
  <2>3. CASE Passes!Handled /\ fresh
    <3>1. PICK i \in Passes!Pass : i = sampler.id
      BY <1>6, <2>3, CommitHandles
    <3>. DEFINE o == Passes!Observed(i)
                x == [pass[i] EXCEPT !.outcome = o]
    <3>2. /\ pass[i] \in XPass /\ pass[i].outcome \in Passes!Outcome
          /\ sampler.outcome \in Passes!Outcome
      BY DEF PassTypes, XPass, XSampler
    <3>3. o \in Passes!Outcome
      BY <3>2 DEF Passes!Observed, Passes!Outcome
    <3>4. pass' = [pass EXCEPT ![i].outcome = o]
      BY <1>6, <2>3, <3>1, CommitHandles
    <3>. HIDE DEF o
    <3>5. pass' = [pass EXCEPT ![i] = x]
      BY <3>4 DEF PassTypes
    <3>6. /\ x \in XPass /\ x.state = pass[i].state
          /\ x.version = pass[i].version
      BY <3>2, <3>3 DEF XPass
    <3>7. pass[i].state # "none" /\ pass[i].version <= version
      BY <1>6, <2>3, <3>1, CommitHandles DEF Passes!Stands, Passes!Listed,
         Decided
    <3>. HIDE DEF x
    <3>. QED
      BY <2>1, <3>5, <3>6, <3>7, OnePass
  <2>. QED
    BY <2>2, <2>3
<1>7. CASE Passes!List
  <2>1. PICK i \in 0 .. MaxPass :
          /\ i > 0 => Passes!Listed(i)
          /\ sampler' = [sampler EXCEPT !.at = "observe", !.id = i,
                           !.outcome = IF i = 0 THEN Passes!Unopened
                                                ELSE pass[i].outcome]
    BY <1>7 DEF Passes!List
  <2>2. sampler.at = "list" /\ UNCHANGED <<version, pass>>
    BY <1>7 DEF Passes!List
  <2>. DEFINE o == IF i = 0 THEN Passes!Unopened ELSE pass[i].outcome
  <2>3. i # 0 => i \in Passes!Pass /\ Passes!Listed(i)
    BY <2>1 DEF Passes!Pass
  <2>4. o \in Passes!Outcome
    BY <2>3, PassBlank DEF PassTypes, XPass
  <2>5. sampler' = [sampler EXCEPT !.at = "observe", !.id = i,
                      !.outcome = o]
    BY <2>1
  <2>. HIDE DEF o
  <2>6. /\ sampler' \in XSampler /\ sampler'.at = "observe"
        /\ sampler'.id = i /\ sampler'.version = sampler.version
    BY <2>4, <2>5 DEF PassTypes, XSampler
  <2>7. Sampled'
    BY <2>2, <2>3, <2>6 DEF Sampled, Passes!Listed
  <2>. QED
    BY <2>2, <2>6, <2>7 DEF PassTypes, Decided
<1>8. ASSUME NEW saw \in {"nothing", "shallow", "depth"},
             Passes!Observe(saw)
      PROVE  PassInv'
  <2>1. /\ sampler.at = "observe" /\ UNCHANGED <<version, pass>>
        /\ saw # "nothing" => sampler.id # 0
        /\ saw # "nothing" => sampler.outcome.reopened = "no"
        /\ sampler' = [sampler EXCEPT !.at = "commit", !.saw = saw]
    <3>1. saw # "nothing" =>
            sampler.id > 0 /\ sampler.outcome.reopened = "no"
      BY <1>8, Zenon DEF Passes!Observe
    <3>2. /\ sampler.at = "observe" /\ UNCHANGED <<version, pass>>
          /\ sampler' = [sampler EXCEPT !.at = "commit", !.saw = saw]
      BY <1>8 DEF Passes!Observe
    <3>3. saw # "nothing" => sampler.id # 0
      BY <3>1, PassIds
    <3>. QED
      BY <3>1, <3>2, <3>3
  <2>2. /\ sampler' \in XSampler /\ sampler'.at = "commit"
        /\ sampler'.id = sampler.id /\ sampler'.saw = saw
        /\ sampler'.version = sampler.version
        /\ sampler'.outcome = sampler.outcome
    BY <2>1 DEF PassTypes, XSampler
  <2>3. Sampled'
    BY <2>1, <2>2 DEF Sampled
  <2>. QED
    BY <2>1, <2>2, <2>3 DEF PassTypes, Decided
<1>9. CASE Passes!GiveUp
  BY <1>9, PassBlank DEF Passes!GiveUp, PassTypes, Decided, Sampled
<1>10. CASE Passes!ReadWatches
  BY <1>1, <1>10 DEF Passes!ReadWatches
<1>11. CASE UNCHANGED <<passVars, bookVars>>
  BY <1>1, <1>11 DEF passVars, bookVars
<1>. QED
  BY <1>2, <1>3, <1>4, <1>5, <1>6, <1>7, <1>8, <1>9, <1>10, <1>11
     DEF Passes!Next

\* What a step may not do, from the invariant.
LEMMA PassGivesWay ==
  ASSUME PassInv, Passes!Next
  PROVE  /\ move # "deferred" /\ move' = "deferred" =>
              \E i \in Passes!Pass : Passes!Stands(i)
         /\ \A i \in Passes!Pass :
              LET o == pass[i].outcome IN
              o.reopened # "no" => pass'[i].outcome.reopened = o.reopened
<1>. USE DEF PassInv
<1>. DEFINE Kept ==
       \A i \in Passes!Pass :
         pass[i].outcome.reopened # "no" =>
           pass'[i].outcome.reopened = pass[i].outcome.reopened
<1>1. CASE UNCHANGED <<pass, move>>
  BY <1>1
<1>2. ASSUME NEW fresh \in BOOLEAN, Passes!Commit(fresh)
      PROVE  /\ move' = "deferred" =>
                  \E i \in Passes!Pass : Passes!Stands(i)
             /\ Kept
  <2>1. CASE ~(Passes!Handled /\ fresh)
    BY <1>2, <2>1 DEF Passes!Commit
  <2>2. CASE Passes!Handled /\ fresh
    <3>1. PICK i \in Passes!Pass :
            /\ i = sampler.id /\ Passes!Stands(i)
            /\ pass' = [pass EXCEPT ![i].outcome = Passes!Observed(i)]
      BY <1>2, <2>2, CommitHandles
    <3>2. \A j \in Passes!Pass \ {i} : pass'[j] = pass[j]
      BY <3>1 DEF PassTypes
    <3>. QED
      BY <3>1, <3>2 DEF Passes!Stands
  <2>. QED
    BY <2>1, <2>2
<1>3. ASSUME NEW i \in Passes!Pass, NEW x,
             pass' = [pass EXCEPT ![i] = x],
             \/ pass[i].outcome.reopened = "no"
             \/ x.outcome = pass[i].outcome
      PROVE  Kept
  BY <1>3 DEF PassTypes
<1>4. ASSUME NEW i \in Passes!Pass, NEW wants \in Passes!Wants,
             NEW v \in 1 .. MaxVersion, Passes!Decide(i, wants, v)
      PROVE  Kept /\ move' = move
  <2>1. pass[i].outcome.reopened = "no"
    BY <1>4 DEF Passes!Decide, Decided
  <2>. QED
    BY <1>3, <1>4, <2>1 DEF Passes!Decide
<1>5. ASSUME NEW i \in Passes!Pass,
             Passes!Lapse(i) \/ Passes!Release(i) \/ Passes!Close(i)
      PROVE  Kept /\ move' = move
  <2>0. pass[i] \in XPass
    BY DEF PassTypes
  <2>1. CASE Passes!Lapse(i)
    <3>. DEFINE x == [pass[i] EXCEPT !.over = TRUE]
    <3>1. pass' = [pass EXCEPT ![i] = x] /\ move' = move
      BY <2>1 DEF Passes!Lapse, PassTypes
    <3>2. x.outcome = pass[i].outcome
      BY <2>0 DEF XPass
    <3>. QED
      BY <1>3, <3>1, <3>2
  <2>2. CASE Passes!Release(i)
    <3>1. /\ pass[i].outcome.reopened = "no" /\ move' = move
          /\ pass' = [pass EXCEPT ![i].outcome.reopened = "news"]
      BY <2>2 DEF Passes!Release
    <3>2. \A j \in Passes!Pass \ {i} : pass'[j] = pass[j]
      BY <3>1 DEF PassTypes
    <3>. QED
      BY <3>1, <3>2
  <2>3. CASE Passes!Close(i)
    <3>. DEFINE x == [pass[i] EXCEPT !.state = "elapsed",
                        !.outcome = watcher[i]]
    <3>1. \/ pass' = pass
          \/ pass' = [pass EXCEPT ![i] = x] /\ pass[i].outcome = watcher[i]
      BY <2>3 DEF Passes!Close, Passes!AsRead, PassTypes
    <3>2. x.outcome = watcher[i]
      BY <2>0 DEF XPass
    <3>. QED
      BY <1>3, <2>3, <3>1, <3>2 DEF Passes!Close
  <2>. QED
    BY <1>5, <2>1, <2>2, <2>3
<1>6. ASSUME NEW moved \in BOOLEAN, Passes!Sample(moved)
      PROVE  Kept /\ move' # "deferred"
  BY <1>6 DEF Passes!Sample
<1>7. Kept
  BY <1>1, <1>2, <1>4, <1>5, <1>6 DEF Passes!Next, Passes!UpdateBook,
     Passes!List, Passes!GiveUp, Passes!ReadWatches, Passes!Observe
<1>8. move # "deferred" /\ move' = "deferred" =>
        \E i \in Passes!Pass : Passes!Stands(i)
  BY <1>2, <1>4, <1>5, <1>6 DEF Passes!Next, Passes!UpdateBook,
     Passes!List, Passes!GiveUp, Passes!ReadWatches, Passes!Observe
<1>. QED
  BY <1>7, <1>8

-----------------------------------------------------------------------------
(* News *)

XEntry == [event : Event, kind : News!Kind]
XWake == [state : {"none", "queued", "claimed", "over"}, version : Nat]
XProgress == [base : Int, cursor : Nat]
XReader ==
  [at : {"idle", "read", "latest", "route", "commit"}, version : Nat,
   cursor : Nat, scoped : BOOLEAN, listed : BOOLEAN, partial : BOOLEAN,
   matched : SUBSET Event, pending : SUBSET News!Rev, progress : XProgress,
   rows : SUBSET Nat, to : Nat]

NewsTypes ==
  /\ log \in Seq(XEntry) /\ Len(log) <= MaxRev
  /\ held \in SUBSET Event
  /\ cursor \in Nat /\ cursor <= Len(log)
  /\ version \in Nat /\ progress \in XProgress
  /\ wake \in [News!Rev -> XWake]
  /\ reader \in XReader

\* A wake is of a revision of the log.
Logged ==
  \A r \in News!Rev : wake[r].state # "none" => r <= Len(log)

Busy == {"latest", "route", "commit"}

\* What the reader has read.
HasListed == \/ reader.at \in {"latest", "route"}
             \/ reader.at = "read" /\ reader.listed
HasScope == \/ reader.at \in {"latest", "route"}
            \/ reader.at = "read" /\ reader.scoped

\* What waits was listed by the reader: wakes are queued by it alone.
Listed ==
  /\ reader.at = "idle" => reader.listed = FALSE /\ reader.scoped = FALSE
  /\ HasListed =>
       {r \in News!Rev : wake[r].state = "queued"} \subseteq reader.pending
  /\ HasScope => reader.partial \/ reader.matched = held

Between(r) == reader.cursor < r /\ r <= reader.to

\* The page is of revisions after the cursor; it has all of them, then all
\* that are the newest, then all that the book is owed, unless the reader is
\* in the dark.
Paged ==
  /\ reader.at \in Busy =>
       /\ reader.to <= Len(log)
       /\ \A r \in reader.rows : Between(r)
  /\ reader.at = "latest" =>
       reader.partial \/ \A r \in DOMAIN log : Between(r) => r \in reader.rows
  /\ reader.at = "route" =>
       reader.partial
         \/ \A r \in DOMAIN log :
              Between(r) /\ News!Newest(r) => r \in reader.rows
  /\ reader.at = "commit" =>
       reader.partial
         \/ \A r \in DOMAIN log :
              Between(r) /\ News!Newest(r) /\ News!Owed(r) => r \in reader.rows

\* Of what is routed nothing newer was there when it was looked up, be it on
\* the page or queued before; what it supersedes is listed.
Latest ==
  /\ reader.at \in {"route", "commit"} =>
       \A r \in reader.rows, s \in DOMAIN log :
         News!Same(s, r) /\ r < s =>
           reader.to < s /\ wake[s].state = "none"
  /\ reader.at = "commit" =>
       \A r \in reader.rows, s \in DOMAIN log :
         News!Same(s, r) /\ s # r /\ wake[s].state = "queued" =>
           s \in reader.pending

NewsInv ==
  NewsTypes /\ Logged /\ Listed /\ Paged /\ Latest /\ News!ReviewsCurrent

LEMMA NewsConstants ==
  /\ MaxRev \in Nat /\ Page \in Nat /\ MaxVersion \in Nat
  /\ \A r : r \in News!Rev <=> r \in Nat /\ 0 < r /\ r <= MaxRev
  /\ News!NoWake \in XWake /\ News!NoWake.state = "none"
  /\ News!NoProgress \in XProgress
  /\ News!Idle \in XReader /\ News!Idle.at = "idle"
  /\ News!Idle.listed = FALSE /\ News!Idle.scoped = FALSE
<1>1. MaxRev \in Nat /\ Page \in Nat /\ MaxVersion \in Nat
  BY BookAssumptions DEF News!NewsAssumption
<1>2. \A r : r \in News!Rev <=> r \in Nat /\ 0 < r /\ r <= MaxRev
  BY <1>1 DEF News!Rev
<1>3. News!NoWake \in XWake /\ News!NoWake.state = "none"
  BY DEF News!NoWake, XWake
<1>4. News!NoProgress \in XProgress
  BY DEF News!NoProgress, XProgress
<1>5. /\ News!Idle \in XReader /\ News!Idle.at = "idle"
      /\ News!Idle.listed = FALSE /\ News!Idle.scoped = FALSE
  BY <1>4 DEF News!Idle, XReader
<1>. QED
  BY <1>1, <1>2, <1>3, <1>4, <1>5

LEMMA NewsTyped ==
  ASSUME NewsInv
  PROVE  /\ DOMAIN log = 1 .. Len(log) /\ Len(log) \in Nat
         /\ Len(log) <= MaxRev /\ cursor \in Nat /\ cursor <= Len(log)
         /\ \A r \in DOMAIN log :
              r \in Nat /\ r \in News!Rev /\ log[r] \in XEntry
         /\ reader.cursor \in Nat /\ reader.to \in Nat
         /\ reader.rows \subseteq Nat
         /\ reader.at \in Busy => reader.rows \subseteq DOMAIN log
<1>1. /\ log \in Seq(XEntry) /\ Len(log) <= MaxRev
      /\ cursor \in Nat /\ cursor <= Len(log) /\ reader \in XReader
  BY DEF NewsInv, NewsTypes
<1>2. DOMAIN log = 1 .. Len(log) /\ Len(log) \in Nat
  BY <1>1, LenProperties
<1>3. \A r \in DOMAIN log : log[r] \in XEntry
  BY <1>1, <1>2, ElementOfSeq
<1>4. \A r \in DOMAIN log : r \in Nat /\ r \in News!Rev
  BY <1>1, <1>2, NewsConstants
<1>5. /\ reader.cursor \in Nat /\ reader.to \in Nat
      /\ reader.rows \in SUBSET Nat
  BY <1>1 DEF XReader
<1>6. ASSUME reader.at \in Busy, NEW r \in reader.rows
      PROVE  r \in 1 .. Len(log)
  <2>1. reader.cursor < r /\ r <= reader.to /\ reader.to <= Len(log)
    BY <1>6 DEF NewsInv, Paged, Between
  <2>. QED
    BY <1>2, <1>5, <2>1
<1>. QED
  BY <1>1, <1>2, <1>3, <1>4, <1>5, <1>6

LEMMA NewsInit ==
  ASSUME News!Init
  PROVE  NewsInv
<1>1. /\ log = <<>> /\ held \in SUBSET Event /\ version = 1 /\ cursor = 0
      /\ progress = News!NoProgress
      /\ wake = [r \in News!Rev |-> News!NoWake]
      /\ reader = News!Idle
  BY DEF News!Init
<1>2. Len(<<>>) = 0 /\ <<>> \in Seq(XEntry) /\ DOMAIN <<>> = {}
  OBVIOUS
<1>3. NewsTypes
  BY <1>1, <1>2, NewsConstants DEF NewsTypes
<1>4. Logged /\ Listed
  BY <1>1, NewsConstants DEF Logged, Listed, HasListed, HasScope
<1>5. Paged /\ Latest
  BY <1>1, NewsConstants DEF Paged, Latest, Busy
<1>6. News!ReviewsCurrent
  BY <1>1, <1>2 DEF News!ReviewsCurrent
<1>. QED
  BY <1>3, <1>4, <1>5, <1>6 DEF NewsInv

\* What is last on a page.
LEMMA LastOfPage ==
  ASSUME NEW n \in Nat, NEW lo \in Nat, NEW k \in Nat,
         NEW S, S = {r \in 1 .. n : lo < r /\ r <= lo + k}, S # {}
  PROVE  News!Max(S) \in S /\ \A r \in S : r <= News!Max(S)
<1>. DEFINE m == IF n < lo + k THEN n ELSE lo + k
<1>1. m \in S /\ \A r \in S : m >= r
  OBVIOUS
<1>2. \E x \in S : \A y \in S : x >= y
  BY <1>1
<1>3. News!Max(S) \in S /\ \A r \in S : News!Max(S) >= r
  BY <1>2 DEF News!Max
<1>4. \A r \in S : r \in Nat
  OBVIOUS
<1>. QED
  BY <1>3, <1>4

LEMMA LaterOfTwo ==
  ASSUME NEW a \in Nat, NEW b \in Nat
  PROVE  News!Max({a, b}) \in Nat /\ b <= News!Max({a, b})
<1>1. \E x \in {a, b} : \A y \in {a, b} : x >= y
  OBVIOUS
<1>2. /\ News!Max({a, b}) \in {a, b}
      /\ \A y \in {a, b} : News!Max({a, b}) >= y
  BY <1>1 DEF News!Max
<1>. QED
  BY <1>2

\* What only reads leaves the log, the wakes and what is owed alone.
LEMMA NewsReads ==
  ASSUME NewsInv, News!OnlyReads
  PROVE  /\ Logged' /\ News!ReviewsCurrent'
         /\ UNCHANGED <<log, held, cursor, wake>>
         /\ reader' \in XReader => NewsTypes'
         /\ \A r, s : News!Same(r, s)' <=> News!Same(r, s)
         /\ \A r : News!Newest(r)' <=> News!Newest(r)
         /\ \A r : News!Owed(r)' <=> News!Owed(r)
<1>1. UNCHANGED <<log, held, version, cursor, progress, wake>>
  BY DEF News!OnlyReads
<1>2. /\ \A r, s : News!Same(r, s)' <=> News!Same(r, s)
      /\ \A r : News!Newest(r)' <=> News!Newest(r)
      /\ \A r : News!Owed(r)' <=> News!Owed(r)
  BY <1>1 DEF News!Same, News!Newest, News!Owed
<1>3. Logged'
  BY <1>1 DEF NewsInv, Logged
<1>4. News!ReviewsCurrent'
  BY <1>1, <1>2 DEF NewsInv, News!ReviewsCurrent, News!Waiting
<1>5. reader' \in XReader => NewsTypes'
  BY <1>1 DEF NewsInv, NewsTypes
<1>. QED
  BY <1>1, <1>2, <1>3, <1>4, <1>5

\* The reader begins, gives up, or reads scope and wakes, in any order.
LEMMA NewsBegins ==
  ASSUME NewsInv,
         \/ News!Start \/ News!GiveUp \/ News!Fail \/ News!ReadWakes
         \/ \E partial \in BOOLEAN, matched \in SUBSET Event :
              News!ReadScope(partial, matched)
  PROVE  NewsInv'
<1>1. News!OnlyReads
  BY DEF News!Start, News!GiveUp, News!Fail, News!ReadWakes, News!ReadScope
<1>2. reader \in XReader /\ version \in Nat /\ cursor \in Nat
  BY DEF NewsInv, NewsTypes
<1>3. CASE reader' = News!Idle
  <2>1. Listed' /\ Paged' /\ Latest'
    BY <1>3, NewsConstants DEF Listed, HasListed, HasScope, Paged, Latest,
       Busy
  <2>. QED
    BY <1>1, <1>3, <2>1, NewsConstants, NewsReads DEF NewsInv
<1>4. CASE News!Start
  <2>1. /\ reader.at = "idle"
        /\ reader' = [reader EXCEPT !.at = "read", !.version = version,
                                    !.cursor = cursor]
    BY <1>4 DEF News!Start, News!At
  <2>2. /\ reader' \in XReader /\ reader'.at = "read"
        /\ reader'.listed = reader.listed /\ reader'.scoped = reader.scoped
    BY <1>2, <2>1 DEF XReader
  <2>3. reader.listed = FALSE /\ reader.scoped = FALSE
    BY <2>1 DEF NewsInv, Listed
  <2>4. Listed' /\ Paged' /\ Latest'
    BY <2>2, <2>3 DEF Listed, HasListed, HasScope, Paged, Latest, Busy
  <2>. QED
    BY <1>1, <2>2, <2>4, NewsReads DEF NewsInv
<1>5. CASE News!ReadWakes
  <2>. DEFINE P == {r \in News!Rev : News!Waiting(r)}
  <2>1. /\ reader.at = "read"
        /\ reader' = [reader EXCEPT !.listed = TRUE, !.progress = progress,
                                    !.pending = P]
    BY <1>5 DEF News!ReadWakes, News!At
  <2>2. progress \in XProgress /\ P \in SUBSET News!Rev
    BY DEF NewsInv, NewsTypes
  <2>3. \A r \in News!Rev : wake[r].state = "queued" => r \in P
    BY DEF News!Waiting
  <2>. HIDE DEF P
  <2>4. /\ reader' \in XReader /\ reader'.at = "read"
        /\ reader'.pending = P /\ reader'.scoped = reader.scoped
        /\ reader'.partial = reader.partial
        /\ reader'.matched = reader.matched
    BY <1>2, <2>1, <2>2 DEF XReader
  <2>5. UNCHANGED <<wake, held>>
    BY <1>1, NewsReads
  <2>6. Listed'
    <3>1. reader.scoped => reader.partial \/ reader.matched = held
      BY <2>1 DEF NewsInv, Listed, HasScope
    <3>. QED
      BY <2>3, <2>4, <2>5, <3>1 DEF Listed, HasScope
  <2>7. Paged' /\ Latest'
    BY <2>4 DEF Paged, Latest, Busy
  <2>. QED
    BY <1>1, <2>4, <2>6, <2>7, NewsReads DEF NewsInv
<1>6. ASSUME NEW partial \in BOOLEAN, NEW matched \in SUBSET Event,
             News!ReadScope(partial, matched)
      PROVE  NewsInv'
  <2>1. /\ reader.at = "read"
        /\ partial \/ matched = held
        /\ reader' = [reader EXCEPT !.scoped = TRUE, !.partial = partial,
                                    !.matched = matched]
    BY <1>6 DEF News!ReadScope, News!At
  <2>2. /\ reader' \in XReader /\ reader'.at = "read"
        /\ reader'.pending = reader.pending
        /\ reader'.listed = reader.listed
        /\ reader'.partial = partial /\ reader'.matched = matched
    BY <1>2, <2>1 DEF XReader
  <2>3. UNCHANGED <<wake, held>>
    BY <1>1, NewsReads
  <2>4. Listed'
    <3>1. reader.listed =>
            {r \in News!Rev : wake[r].state = "queued"} \subseteq
              reader.pending
      BY <2>1 DEF NewsInv, Listed, HasListed
    <3>. QED
      BY <2>1, <2>2, <2>3, <3>1 DEF Listed, HasListed
  <2>5. Paged' /\ Latest'
    BY <2>2 DEF Paged, Latest, Busy
  <2>. QED
    BY <1>1, <2>2, <2>4, <2>5, NewsReads DEF NewsInv
<1>. QED
  BY <1>3, <1>4, <1>5, <1>6 DEF News!GiveUp, News!Fail

\* A page: what follows the cursor, or, in the dark, the checkpoint.
LEMMA NewsPage ==
  ASSUME NewsInv, News!ReadRows
  PROVE  NewsInv'
<1>1. News!OnlyReads /\ reader.at = "read" /\ reader.scoped
      /\ reader.listed
  BY DEF News!ReadRows, News!At
<1>2. /\ reader \in XReader /\ reader.cursor \in Nat
      /\ reader.progress.cursor \in Nat
  BY DEF NewsInv, NewsTypes, XReader, XProgress
<1>. DEFINE lo == News!From
            S == News!Rows(lo)
<1>3. CASE S = {}
  <2>1. reader' = News!Idle
    BY <1>3 DEF News!ReadRows
  <2>2. Listed' /\ Paged' /\ Latest'
    BY <2>1, NewsConstants DEF Listed, HasListed, HasScope, Paged, Latest,
       Busy
  <2>. QED
    BY <1>1, <2>1, <2>2, NewsConstants, NewsReads DEF NewsInv
<1>4. CASE S # {}
  <2>1. reader' = [reader EXCEPT !.at = "latest", !.rows = S,
                                 !.to = News!Max(S)]
    BY <1>4 DEF News!ReadRows
  <2>2. /\ lo \in Nat /\ reader.cursor <= lo
        /\ reader.partial \/ lo = reader.cursor
    BY <1>2, LaterOfTwo DEF News!From
  <2>3. S = {r \in 1 .. Len(log) : lo < r /\ r <= lo + Page}
    BY NewsTyped DEF News!Rows
  <2>. HIDE DEF lo, S
  <2>4. News!Max(S) \in S /\ \A r \in S : r <= News!Max(S)
    <3>1. Len(log) \in Nat /\ Page \in Nat
      BY NewsConstants, NewsTyped
    <3>. QED
      BY <1>4, <2>2, <2>3, <3>1, LastOfPage
  <2>. DEFINE m == News!Max(S)
  <2>5. /\ m \in S /\ \A r \in S : r <= m
    BY <2>4
  <2>. HIDE DEF m
  <2>6. /\ S \in SUBSET Nat /\ m \in Nat /\ lo < m /\ m <= Len(log)
        /\ m <= lo + Page
    BY <2>3, <2>5
  <2>7. reader' = [reader EXCEPT !.at = "latest", !.rows = S, !.to = m]
    BY <2>1 DEF m
  <2>8. /\ reader' \in XReader /\ reader'.at = "latest"
        /\ reader'.rows = S /\ reader'.to = m
        /\ reader'.cursor = reader.cursor
        /\ reader'.partial = reader.partial
        /\ reader'.matched = reader.matched
        /\ reader'.pending = reader.pending
    BY <1>2, <2>6, <2>7 DEF XReader
  <2>9. UNCHANGED <<log, held, wake>>
    BY <1>1, NewsReads
  <2>10. Listed'
    <3>1. /\ {r \in News!Rev : wake[r].state = "queued"} \subseteq
               reader.pending
          /\ reader.partial \/ reader.matched = held
      BY <1>1 DEF NewsInv, Listed, HasListed, HasScope
    <3>. QED
      BY <2>8, <2>9, <3>1 DEF Listed
  <2>11. Paged'
    <3>1. \A r \in S : reader.cursor < r /\ r <= m
      BY <1>2, <2>2, <2>3, <2>5
    <3>2. ASSUME ~reader.partial, NEW r \in DOMAIN log,
                 reader.cursor < r, r <= m
          PROVE  r \in S
      <4>1. r \in 1 .. Len(log) /\ lo = reader.cursor
        BY <2>2, <3>2, NewsTyped
      <4>2. Page \in Nat
        BY NewsConstants
      <4>. QED
        BY <2>2, <2>3, <2>6, <3>2, <4>1, <4>2
    <3>. QED
      BY <2>6, <2>8, <2>9, <3>1, <3>2 DEF Paged, Between
  <2>12. Latest'
    BY <2>8 DEF Latest
  <2>. QED
    BY <1>1, <2>8, <2>10, <2>11, <2>12, NewsReads DEF NewsInv
<1>. QED
  BY <1>3, <1>4

\* Of the page the newest are kept, and nothing newer is queued.
LEMMA NewsNewest ==
  ASSUME NewsInv, News!ReadLatest
  PROVE  NewsInv'
<1>. DEFINE S == {r \in reader.rows : News!Newest(r)}
<1>1. /\ News!OnlyReads /\ reader.at = "latest"
      /\ reader' = [reader EXCEPT !.at = "route", !.rows = S]
  BY DEF News!ReadLatest, News!At
<1>2. reader \in XReader /\ S \in SUBSET Nat
  BY NewsTyped DEF NewsInv, NewsTypes
<1>3. \A r \in S : r \in reader.rows /\ News!Newest(r)
  OBVIOUS
<1>4. \A r \in reader.rows : News!Newest(r) => r \in S
  OBVIOUS
<1>. HIDE DEF S
<1>5. /\ reader' \in XReader /\ reader'.at = "route" /\ reader'.rows = S
      /\ reader'.to = reader.to /\ reader'.cursor = reader.cursor
      /\ reader'.partial = reader.partial
      /\ reader'.matched = reader.matched
      /\ reader'.pending = reader.pending
  BY <1>1, <1>2 DEF XReader
<1>6. /\ UNCHANGED <<log, held, wake>>
      /\ \A r, s : News!Same(r, s)' <=> News!Same(r, s)
      /\ \A r : News!Newest(r)' <=> News!Newest(r)
  BY <1>1, NewsReads
<1>7. Listed'
  BY <1>1, <1>5, <1>6 DEF NewsInv, Listed, HasListed, HasScope
<1>8. /\ reader.to <= Len(log)
      /\ \A r \in reader.rows : Between(r)
      /\ reader.partial
           \/ \A r \in DOMAIN log : Between(r) => r \in reader.rows
  BY <1>1 DEF NewsInv, Paged, Busy
<1>9. Paged'
  BY <1>3, <1>4, <1>5, <1>6, <1>8 DEF Paged, Between
<1>10. Latest'
  <2>1. ASSUME NEW r \in S, NEW s \in DOMAIN log, News!Same(s, r), r < s
        PROVE  FALSE
    <3>1. s <= r
      BY <1>3, <2>1 DEF News!Newest
    <3>2. r \in Nat /\ s \in Nat
      BY <1>2, <2>1, NewsTyped
    <3>. QED
      BY <2>1, <3>1, <3>2
  <2>. QED
    BY <1>5, <1>6, <2>1 DEF Latest
<1>. QED
  BY <1>1, <1>5, <1>7, <1>9, <1>10, NewsReads DEF NewsInv

\* What the book is owed concerns it: what a correction corrects is queued,
\* and then it was listed, or a shift has taken it up.
LEMMA NewsRoute ==
  ASSUME NewsInv, News!Route
  PROVE  NewsInv'
<1>. DEFINE S == {r \in reader.rows : News!Concerns(r)}
            P == {r \in reader.pending :
                    \E s \in S : s # r /\ News!Same(s, r)}
<1>1. /\ News!OnlyReads /\ reader.at = "route"
      /\ reader' = [reader EXCEPT !.at = "commit", !.rows = S,
                      !.matched = {}, !.pending = P]
  BY DEF News!Route, News!At
<1>2. /\ reader \in XReader /\ S \in SUBSET Nat
      /\ P \in SUBSET News!Rev /\ {} \in SUBSET Event
  BY NewsTyped DEF NewsInv, NewsTypes, XReader
<1>3. \A r : r \in S <=> r \in reader.rows /\ News!Concerns(r)
  OBVIOUS
<1>4. \A r \in reader.pending, s \in S :
        s # r /\ News!Same(s, r) => r \in P
  OBVIOUS
<1>. HIDE DEF S, P
<1>5. /\ reader' \in XReader /\ reader'.at = "commit" /\ reader'.rows = S
      /\ reader'.to = reader.to /\ reader'.cursor = reader.cursor
      /\ reader'.partial = reader.partial
      /\ reader'.pending = P
  BY <1>1, <1>2 DEF XReader
<1>6. /\ UNCHANGED <<log, held, wake>>
      /\ \A r, s : News!Same(r, s)' <=> News!Same(r, s)
      /\ \A r : News!Newest(r)' <=> News!Newest(r)
      /\ \A r : News!Owed(r)' <=> News!Owed(r)
  BY <1>1, NewsReads
<1>7. Listed'
  BY <1>5 DEF Listed, HasListed, HasScope
<1>8. /\ reader.to <= Len(log)
      /\ \A r \in reader.rows : Between(r)
      /\ reader.partial
           \/ \A r \in DOMAIN log :
                Between(r) /\ News!Newest(r) => r \in reader.rows
  BY <1>1 DEF NewsInv, Paged, Busy
<1>9. /\ {r \in News!Rev : wake[r].state = "queued"} \subseteq
           reader.pending
      /\ reader.partial \/ reader.matched = held
  BY <1>1 DEF NewsInv, Listed, HasListed, HasScope
<1>10. ASSUME ~reader.partial, NEW r \in DOMAIN log, News!Owed(r)
       PROVE  News!Concerns(r)
  <2>1. CASE /\ log[r].kind \in {"risk", "correction"}
             /\ log[r].event \in held
    BY <1>9, <1>10, <2>1 DEF News!Concerns
  <2>2. CASE /\ log[r].kind = "correction"
             /\ \E s \in 1 .. r - 1 :
                  /\ News!Same(s, r)
                  /\ wake[s].state \in {"queued", "claimed"}
    <3>1. PICK s \in 1 .. r - 1 :
            /\ News!Same(s, r) /\ wake[s].state \in {"queued", "claimed"}
      BY <2>2
    <3>2. s \in DOMAIN log /\ s \in News!Rev
      <4>1. r \in 1 .. Len(log) /\ Len(log) \in Nat
        BY NewsTyped
      <4>2. s \in 1 .. Len(log)
        BY <3>1, <4>1
      <4>. QED
        BY <4>2, NewsTyped
    <3>3. log[r].event = log[s].event
      BY <3>1 DEF News!Same
    <3>4. CASE wake[s].state = "queued"
      <4>1. s \in reader.pending
        BY <1>9, <3>2, <3>4
      <4>2. log[r].event \in News!Pending
        BY <3>3, <4>1 DEF News!Pending
      <4>. QED
        BY <2>2, <4>2 DEF News!Concerns, News!Followed
    <3>5. CASE wake[s].state = "claimed"
      <4>1. log[r].event \in News!Prior
        BY <3>2, <3>3, <3>5 DEF News!Prior
      <4>. QED
        BY <2>2, <4>1 DEF News!Concerns, News!Followed
    <3>. QED
      BY <3>1, <3>4, <3>5
  <2>. QED
    BY <1>10, <2>1, <2>2 DEF News!Owed
<1>11. Paged'
  <2>1. \A r \in S : Between(r)
    BY <1>3, <1>8
  <2>2. ~reader.partial =>
          \A r \in DOMAIN log :
            Between(r) /\ News!Newest(r) /\ News!Owed(r) => r \in S
    BY <1>3, <1>8, <1>10
  <2>. QED
    BY <1>5, <1>6, <1>8, <2>1, <2>2 DEF Paged, Between
<1>12. Latest'
  <2>1. ASSUME NEW r \in S, NEW s \in DOMAIN log, News!Same(s, r)
        PROVE  /\ r < s => reader.to < s /\ wake[s].state = "none"
               /\ s # r /\ wake[s].state = "queued" => s \in P
    <3>1. r < s => reader.to < s /\ wake[s].state = "none"
      BY <1>1, <1>3, <2>1 DEF NewsInv, Latest
    <3>2. ASSUME s # r, wake[s].state = "queued"
          PROVE  s \in P
      <4>1. s \in News!Rev
        BY <2>1, NewsTyped
      <4>2. s \in reader.pending /\ News!Same(r, s)
        BY <1>9, <2>1, <3>2, <4>1 DEF News!Same
      <4>. QED
        BY <1>4, <3>2, <4>2
    <3>. QED
      BY <3>1, <3>2
  <2>. QED
    BY <1>5, <1>6, <2>1 DEF Latest
<1>. QED
  BY <1>1, <1>5, <1>7, <1>11, <1>12, NewsReads DEF NewsInv

\* A wake is claimed or expires; the book changes.
LEMMA NewsWakes ==
  ASSUME NewsInv,
         \/ \E on \in BOOLEAN : News!UpdateBook(on)
         \/ \E r \in News!Rev : News!Claim(r) \/ News!Expire(r)
  PROVE  NewsInv'
<1>1. UNCHANGED <<log, held, cursor, progress, reader>>
  BY DEF News!UpdateBook, News!Claim, News!Expire
<1>2. /\ version' \in Nat
      /\ wake' \in [News!Rev -> XWake]
      /\ \A r \in News!Rev :
           \/ wake'[r] = wake[r]
           \/ /\ wake[r].state = "queued"
              /\ wake'[r].state \in {"claimed", "over"}
  <2>1. version \in Nat /\ wake \in [News!Rev -> XWake]
    BY DEF NewsInv, NewsTypes
  <2>2. CASE \E on \in BOOLEAN : News!UpdateBook(on)
    BY <2>1, <2>2 DEF News!UpdateBook
  <2>3. ASSUME NEW r \in News!Rev, News!Claim(r) \/ News!Expire(r)
        PROVE  /\ version' = version
               /\ wake' \in [News!Rev -> XWake]
               /\ \A q \in News!Rev :
                    \/ wake'[q] = wake[q]
                    \/ /\ wake[q].state = "queued"
                       /\ wake'[q].state \in {"claimed", "over"}
    <3>1. PICK to \in {"claimed", "over"} :
            wake' = [wake EXCEPT ![r].state = to]
      BY <2>3 DEF News!Claim, News!Expire
    <3>2. wake[r].state = "queued" /\ version' = version
      BY <2>3 DEF News!Claim, News!Expire, News!Waiting
    <3>3. wake[r] \in XWake
      BY <2>1
    <3>4. /\ [wake[r] EXCEPT !.state = to] \in XWake
          /\ [wake[r] EXCEPT !.state = to].state = to
      BY <3>3 DEF XWake
    <3>5. wake' = [wake EXCEPT ![r] = [wake[r] EXCEPT !.state = to]]
      BY <2>1, <3>1
    <3>. DEFINE x == [wake[r] EXCEPT !.state = to]
    <3>. HIDE DEF x
    <3>6. wake' = [wake EXCEPT ![r] = x] /\ x \in XWake /\ x.state = to
      BY <3>4, <3>5 DEF x
    <3>. QED
      BY <2>1, <3>2, <3>6
  <2>. QED
    BY <2>1, <2>2, <2>3
<1>3. NewsTypes'
  BY <1>1, <1>2 DEF NewsInv, NewsTypes
<1>4. /\ \A r, s : News!Same(r, s)' <=> News!Same(r, s)
      /\ \A r : News!Newest(r)' <=> News!Newest(r)
  BY <1>1 DEF News!Same, News!Newest
<1>5. ASSUME NEW r \in DOMAIN log, News!Owed(r)'
      PROVE  News!Owed(r)
  <2>1. ASSUME NEW s \in 1 .. r - 1, wake'[s].state \in {"queued", "claimed"}
        PROVE  wake[s].state \in {"queued", "claimed"}
    <3>1. r \in 1 .. Len(log) /\ Len(log) \in Nat
      BY NewsTyped
    <3>2. s \in 1 .. Len(log)
      BY <2>1, <3>1
    <3>3. s \in News!Rev
      BY <3>2, NewsTyped
    <3>. QED
      BY <1>2, <2>1, <3>3
  <2>. QED
    BY <1>1, <1>4, <1>5, <2>1 DEF News!Owed
<1>6. Logged'
  BY <1>1, <1>2 DEF NewsInv, Logged
<1>7. Listed'
  <2>1. {r \in News!Rev : wake'[r].state = "queued"} \subseteq
          {r \in News!Rev : wake[r].state = "queued"}
    BY <1>2
  <2>. QED
    BY <1>1, <2>1 DEF NewsInv, Listed, HasListed, HasScope
<1>8. Paged'
  BY <1>1, <1>4, <1>5 DEF NewsInv, Paged, Between
<1>9. Latest'
  <2>1. \A s \in DOMAIN log :
          /\ wake[s].state = "none" => wake'[s].state = "none"
          /\ wake'[s].state = "queued" => wake[s].state = "queued"
    BY <1>2, NewsTyped
  <2>. QED
    BY <1>1, <1>4, <2>1 DEF NewsInv, Latest
<1>10. News!ReviewsCurrent'
  <2>1. ASSUME NEW r \in DOMAIN log
        PROVE  /\ /\ r <= cursor /\ News!Newest(r)
                  /\ News!Owed(r)'
                  => wake'[r].state # "none"
               /\ wake'[r].state # "none" => wake[r].state # "none"
               /\ \A s \in 1 .. r - 1 :
                    wake'[s].state = "queued" => wake[s].state = "queued"
    <3>1. wake[r].state # "none" <=> wake'[r].state # "none"
      BY <1>2, NewsTyped
    <3>2. ASSUME NEW s \in 1 .. r - 1, wake'[s].state = "queued"
          PROVE  wake[s].state = "queued"
      <4>1. r \in 1 .. Len(log) /\ Len(log) \in Nat
        BY NewsTyped
      <4>2. s \in 1 .. Len(log)
        BY <4>1
      <4>3. s \in News!Rev
        BY <4>2, NewsTyped
      <4>. QED
        BY <1>2, <3>2, <4>3
    <3>. QED
      BY <1>5, <3>1, <3>2 DEF NewsInv, News!ReviewsCurrent
  <2>. QED
    BY <1>1, <1>4, <2>1 DEF NewsInv, News!ReviewsCurrent, News!Waiting
<1>. QED
  BY <1>3, <1>6, <1>7, <1>8, <1>9, <1>10 DEF NewsInv

\* A revision is published: it is after all that was read, and has no wake.
LEMMA NewsPublish ==
  ASSUME NewsInv, NEW e \in Event, NEW k \in News!Kind,
         News!Publish(e, k)
  PROVE  NewsInv'
<1>. DEFINE x == [event |-> e, kind |-> k]
            n == Len(log) + 1
<1>1. /\ Len(log) < MaxRev /\ log' = Append(log, x)
      /\ UNCHANGED <<held, version, cursor, progress, wake, reader>>
  BY DEF News!Publish
<1>2. x \in XEntry /\ log \in Seq(XEntry)
  BY DEF XEntry, NewsInv, NewsTypes
<1>. HIDE DEF x
<1>3. /\ log' \in Seq(XEntry) /\ Len(log') = n
      /\ \A r \in 1 .. Len(log) : log'[r] = log[r]
  BY <1>1, <1>2, Added
<1>4. /\ Len(log) \in Nat /\ DOMAIN log = 1 .. Len(log)
      /\ DOMAIN log' = 1 .. n
  BY <1>2, <1>3, LenProperties
<1>5. n \in News!Rev /\ wake[n].state = "none"
  <2>1. n \in Nat /\ 0 < n /\ n <= MaxRev /\ ~(n <= Len(log))
    BY <1>1, <1>4, NewsConstants
  <2>2. n \in News!Rev
    BY <2>1, NewsConstants
  <2>. HIDE DEF n
  <2>. QED
    BY <2>1, <2>2 DEF NewsInv, Logged
<1>6. /\ n \notin DOMAIN log /\ DOMAIN log' = DOMAIN log \cup {n}
      /\ \A r \in DOMAIN log : r < n /\ 1 .. r - 1 \subseteq DOMAIN log
      /\ cursor < n /\ cursor <= Len(log')
      /\ Len(log) <= Len(log') /\ Len(log') <= MaxRev
      /\ Len(log) < n
  BY <1>1, <1>3, <1>4, NewsTyped, NewsConstants
<1>7. \A r \in DOMAIN log : log'[r] = log[r]
  BY <1>3, <1>4
<1>8. NewsTypes'
  BY <1>1, <1>3, <1>6 DEF NewsInv, NewsTypes
<1>. HIDE DEF n
<1>9. /\ \A r, s \in DOMAIN log : News!Same(r, s)' <=> News!Same(r, s)
      /\ \A r \in DOMAIN log : News!Newest(r)' => News!Newest(r)
  BY <1>6, <1>7 DEF News!Same, News!Newest
<1>10. \A r \in DOMAIN log : News!Owed(r)' <=> News!Owed(r)
  <2>1. SUFFICES ASSUME NEW r \in DOMAIN log
                 PROVE  News!Owed(r)' <=> News!Owed(r)
    OBVIOUS
  <2>2. \A s \in 1 .. r - 1 : News!Same(s, r)' <=> News!Same(s, r)
    BY <1>6, <1>9
  <2>. QED
    BY <1>1, <1>7, <2>2 DEF News!Owed
<1>11. Logged'
  <2>1. ASSUME NEW r \in News!Rev, wake[r].state # "none"
        PROVE  r <= Len(log')
    <3>1. r <= Len(log) /\ r \in Nat
      BY <2>1, NewsConstants DEF NewsInv, Logged
    <3>. QED
      BY <1>3, <1>4, <3>1 DEF n
  <2>. QED
    BY <1>1, <2>1 DEF Logged
<1>12. Listed'
  BY <1>1 DEF NewsInv, Listed, HasListed, HasScope
<1>13. \A r \in DOMAIN log' : reader.at \in Busy /\ Between(r) =>
         r \in DOMAIN log
  <2>1. ASSUME reader.at \in Busy, Between(n)
        PROVE  FALSE
    <3>1. n <= reader.to /\ reader.to <= Len(log)
      BY <2>1 DEF NewsInv, Paged, Between
    <3>2. reader.to \in Nat
      BY NewsTyped
    <3>. QED
      BY <1>4, <3>1, <3>2 DEF n
  <2>. QED
    BY <1>6, <2>1
<1>14. Paged'
  <2>1. reader.at \in Busy => reader.to <= Len(log')
    <3>1. reader.at \in Busy => reader.to <= Len(log)
      BY DEF NewsInv, Paged
    <3>. QED
      BY <1>3, <1>4, <3>1, NewsTyped DEF n
  <2>2. ASSUME NEW r \in DOMAIN log', reader.at \in Busy, Between(r)
        PROVE  /\ r \in DOMAIN log
               /\ News!Newest(r)' => News!Newest(r)
               /\ News!Owed(r)' => News!Owed(r)
    BY <1>9, <1>10, <1>13, <2>2
  <2>. QED
    BY <1>1, <2>1, <2>2 DEF NewsInv, Paged, Between, Busy
<1>15. Latest'
  <2>1. reader.at \in {"route", "commit"} =>
          reader.rows \subseteq DOMAIN log /\ reader.to < n
    <3>1. reader.at \in Busy => reader.to <= Len(log)
      BY DEF NewsInv, Paged
    <3>. QED
      BY <1>4, <3>1, NewsTyped DEF n, Busy
  <2>2. ASSUME reader.at \in {"route", "commit"},
               NEW r \in reader.rows, NEW s \in DOMAIN log',
               News!Same(s, r)'
        PROVE  s # n => News!Same(s, r) /\ s \in DOMAIN log
    BY <1>6, <1>9, <2>1, <2>2
  <2>. QED
    BY <1>1, <1>5, <2>1, <2>2 DEF NewsInv, Latest
<1>16. News!ReviewsCurrent'
  <2>1. ASSUME NEW r \in DOMAIN log
        PROVE  /\ /\ r <= cursor' /\ News!Newest(r)' /\ News!Owed(r)'
                  => wake'[r].state # "none"
               /\ wake'[r].state # "none" =>
                    \A s \in 1 .. r - 1 :
                      News!Same(s, r)' => ~News!Waiting(s)'
    <3>1. \A s \in 1 .. r - 1 : News!Same(s, r)' <=> News!Same(s, r)
      BY <1>6, <1>9
    <3>. QED
      BY <1>1, <1>9, <1>10, <3>1 DEF NewsInv, News!ReviewsCurrent,
         News!Waiting
  <2>2. ~(n <= cursor') /\ wake'[n].state = "none"
    <3>1. cursor \in Nat /\ n \in Nat
      BY <1>4, NewsTyped DEF n
    <3>. QED
      BY <1>1, <1>5, <1>6, <3>1
  <2>. QED
    BY <1>6, <2>1, <2>2 DEF News!ReviewsCurrent
<1>. QED
  BY <1>8, <1>11, <1>12, <1>14, <1>15, <1>16 DEF NewsInv

\* Cursor and wakes are committed together.
LEMMA NewsCommit ==
  ASSUME NewsInv, News!Commit
  PROVE  NewsInv'
<1>1. /\ reader.at = "commit" /\ cursor = reader.cursor
      /\ cursor' = (IF reader.partial THEN cursor ELSE reader.to)
      /\ wake' = [r \in News!Rev |-> News!Delivered(r)]
      /\ reader' = News!Idle
      /\ UNCHANGED <<log, held, version>>
  BY DEF News!Commit, News!At, News!Unmoved, News!NextCursor
<1>2. /\ reader \in XReader /\ wake \in [News!Rev -> XWake]
      /\ reader.version \in Nat
  BY DEF NewsInv, NewsTypes, XReader
<1>3. ASSUME NEW r \in News!Rev
      PROVE  /\ wake'[r] \in XWake
             /\ wake'[r].state # "none" <=>
                  wake[r].state # "none" \/ r \in reader.rows
             /\ wake'[r].state = "queued" =>
                  \/ wake[r].state = "queued" /\ r \notin reader.pending
                  \/ wake[r].state = "none" /\ r \in reader.rows
             /\ wake'[r].state = "claimed" => wake[r].state = "claimed"
  <2>1. wake'[r] = News!Delivered(r) /\ wake[r] \in XWake
    BY <1>1, <1>2, <1>3
  <2>2. CASE r \in reader.pending /\ News!Waiting(r)
    <3>1. wake'[r] = [wake[r] EXCEPT !.state = "over"]
      BY <2>1, <2>2 DEF News!Delivered
    <3>2. wake'[r] \in XWake /\ wake'[r].state = "over"
      BY <2>1, <3>1 DEF XWake
    <3>. QED
      BY <2>2, <3>2 DEF News!Waiting
  <2>3. CASE /\ ~(r \in reader.pending /\ News!Waiting(r))
             /\ r \in reader.rows /\ wake[r].state = "none"
    <3>1. wake'[r] = [state |-> "queued", version |-> reader.version]
      BY <2>1, <2>3 DEF News!Delivered
    <3>2. wake'[r] \in XWake /\ wake'[r].state = "queued"
      BY <1>2, <3>1 DEF XWake
    <3>. QED
      BY <2>3, <3>2
  <2>4. CASE /\ ~(r \in reader.pending /\ News!Waiting(r))
             /\ ~(r \in reader.rows /\ wake[r].state = "none")
    <3>1. wake'[r] = wake[r]
      BY <2>1, <2>4 DEF News!Delivered
    <3>. QED
      BY <2>1, <2>4, <3>1 DEF News!Waiting
  <2>. QED
    BY <2>2, <2>3, <2>4
<1>4. /\ reader.to <= Len(log)
      /\ \A r \in reader.rows : Between(r) /\ r \in DOMAIN log
      /\ reader.partial
           \/ \A r \in DOMAIN log :
                Between(r) /\ News!Newest(r) /\ News!Owed(r) =>
                  r \in reader.rows
  BY <1>1, NewsTyped DEF NewsInv, Paged, Busy
<1>5. \A r \in reader.rows, s \in DOMAIN log :
        /\ News!Same(s, r) /\ r < s =>
             reader.to < s /\ wake[s].state = "none"
        /\ News!Same(s, r) /\ s # r /\ wake[s].state = "queued" =>
             s \in reader.pending
  BY <1>1 DEF NewsInv, Latest
<1>6. /\ \A r, s : News!Same(r, s)' <=> News!Same(r, s)
      /\ \A r : News!Newest(r)' <=> News!Newest(r)
      /\ \A r, s : News!Same(r, s) <=> News!Same(s, r)
  BY <1>1 DEF News!Same, News!Newest
<1>7. /\ cursor' \in Nat /\ cursor' <= Len(log)
      /\ cursor' # cursor => cursor' = reader.to /\ ~reader.partial
  BY <1>1, <1>4, NewsTyped
<1>8. NewsTypes'
  <2>1. progress' \in XProgress
    <3>1. /\ progress \in XProgress /\ reader.cursor \in Nat
          /\ reader.to \in Nat
      BY <1>2 DEF NewsInv, NewsTypes, XReader
    <3>2. [base |-> reader.cursor, cursor |-> reader.to] \in XProgress
      BY <3>1 DEF XProgress
    <3>. QED
      BY <3>1, <3>2, NewsConstants DEF News!Commit
  <2>2. wake' \in [News!Rev -> XWake]
    BY <1>1, <1>3
  <2>. QED
    BY <1>1, <1>7, <2>1, <2>2, NewsConstants DEF NewsInv, NewsTypes
<1>9. Logged'
  <2>1. ASSUME NEW r \in News!Rev, wake'[r].state # "none"
        PROVE  r <= Len(log)
    <3>1. CASE wake[r].state # "none"
      BY <3>1 DEF NewsInv, Logged
    <3>2. CASE r \in reader.rows
      BY <1>4, <3>2, NewsTyped
    <3>. QED
      BY <1>3, <2>1, <3>1, <3>2
  <2>. QED
    BY <1>1, <2>1 DEF Logged
<1>10. Listed' /\ Paged' /\ Latest'
  BY <1>1, NewsConstants DEF Listed, HasListed, HasScope, Paged, Latest,
     Busy
<1>11. ASSUME NEW r \in DOMAIN log
       PROVE  \A s \in 1 .. r - 1 :
                s \in DOMAIN log /\ s \in News!Rev /\ s < r
  <2>1. r \in 1 .. Len(log) /\ Len(log) \in Nat
    BY NewsTyped
  <2>2. \A s \in 1 .. r - 1 : s \in 1 .. Len(log) /\ s < r
    BY <2>1
  <2>. QED
    BY <2>2, NewsTyped
<1>12. ASSUME NEW r \in DOMAIN log,
              r <= cursor', News!Newest(r), News!Owed(r)'
       PROVE  wake'[r].state # "none"
  <2>1. r \in News!Rev /\ r \in Nat /\ cursor \in Nat /\ reader.to \in Nat
    BY NewsTyped
  <2>2. ASSUME NEW s \in 1 .. r - 1, News!Same(s, r)
        PROVE  s \notin reader.rows
    <3>1. SUFFICES ASSUME s \in reader.rows
                   PROVE  FALSE
      OBVIOUS
    <3>2. reader.to < r
      BY <1>5, <1>6, <1>11, <2>2, <3>1
    <3>3. reader.cursor < s /\ s < r
      BY <1>4, <1>11, <3>1 DEF Between
    <3>4. reader.cursor \in Nat
      BY NewsTyped
    <3>. QED
      BY <1>1, <1>7, <1>12, <2>1, <3>2, <3>3, <3>4
  <2>3. News!Owed(r)
    <3>1. ASSUME NEW s \in 1 .. r - 1, News!Same(s, r),
                 wake'[s].state \in {"queued", "claimed"}
          PROVE  wake[s].state \in {"queued", "claimed"}
      BY <1>3, <1>11, <2>2, <3>1
    <3>. QED
      BY <1>1, <1>6, <1>12, <3>1 DEF News!Owed
  <2>4. CASE r <= cursor
    <3>1. wake[r].state # "none"
      BY <1>12, <2>3, <2>4 DEF NewsInv, News!ReviewsCurrent
    <3>. QED
      BY <1>3, <2>1, <3>1
  <2>5. CASE ~(r <= cursor)
    <3>1. Between(r) /\ ~reader.partial
      BY <1>1, <1>7, <1>12, <2>1, <2>5 DEF Between
    <3>2. r \in reader.rows
      BY <1>4, <1>12, <2>3, <3>1
    <3>. QED
      BY <1>3, <2>1, <3>2
  <2>. QED
    BY <2>4, <2>5
<1>13. ASSUME NEW r \in DOMAIN log, wake'[r].state # "none",
              NEW s \in 1 .. r - 1, News!Same(s, r)
       PROVE  wake'[s].state # "queued"
  <2>1. SUFFICES ASSUME wake'[s].state = "queued"
                 PROVE  FALSE
    OBVIOUS
  <2>2. /\ r \in News!Rev /\ r \in Nat /\ s \in News!Rev
        /\ s \in DOMAIN log /\ s \in Nat /\ s < r
        /\ reader.to \in Nat
    BY <1>11, NewsTyped
  <2>3. CASE s \in reader.rows
    <3>1. reader.to < r /\ wake[r].state = "none"
      BY <1>5, <1>6, <1>13, <2>2, <2>3
    <3>2. r \in reader.rows
      BY <1>3, <1>13, <2>2, <3>1
    <3>3. r <= reader.to
      BY <1>4, <3>2 DEF Between
    <3>. QED
      BY <2>2, <3>1, <3>3
  <2>4. CASE s \notin reader.rows
    <3>1. wake[s].state = "queued" /\ s \notin reader.pending
      BY <1>3, <2>1, <2>2, <2>4
    <3>2. CASE wake[r].state # "none"
      BY <1>13, <3>1, <3>2 DEF NewsInv, News!ReviewsCurrent, News!Waiting
    <3>3. CASE r \in reader.rows
      BY <1>5, <1>13, <2>2, <3>1, <3>3
    <3>. QED
      BY <1>3, <1>13, <2>2, <3>2, <3>3
  <2>. QED
    BY <2>3, <2>4
<1>14. News!ReviewsCurrent'
  BY <1>1, <1>6, <1>12, <1>13 DEF News!ReviewsCurrent, News!Waiting
<1>. QED
  BY <1>8, <1>9, <1>10, <1>14 DEF NewsInv

LEMMA NewsStays ==
  ASSUME NewsInv, News!Next \/ UNCHANGED <<newsVars, bookVars>>
  PROVE  NewsInv'
<1>1. CASE UNCHANGED <<newsVars, bookVars>>
  <2>1. UNCHANGED <<log, held, version, enabled, cursor, progress, wake,
                    reader>>
    BY <1>1 DEF newsVars, bookVars
  <2>2. News!OnlyReads
    BY <2>1 DEF News!OnlyReads
  <2>3. reader' \in XReader
    BY <2>1 DEF NewsInv, NewsTypes
  <2>4. Listed' /\ Paged' /\ Latest'
    BY <2>1, <2>2, NewsReads DEF NewsInv, Listed, HasListed, HasScope,
       Paged, Latest, Between
  <2>. QED
    BY <2>2, <2>3, <2>4, NewsReads DEF NewsInv
<1>. QED
  BY <1>1, NewsBegins, NewsPage, NewsNewest, NewsRoute, NewsWakes,
     NewsPublish, NewsCommit DEF News!Next

-----------------------------------------------------------------------------
(* The book *)

allBookVars == <<part, orderVars, tellVars, shiftVars>>

BookInv ==
  /\ part = "news" => NewsInv
  /\ part = "passes" => PassInv
  /\ part = "roundtable" => TableInv
  /\ part = "research" => ResearchInv
  /\ part = "turn" => TurnInv

LEMMA BookInit ==
  ASSUME InitBook
  PROVE  BookInv
<1>1. /\ News!Init /\ Passes!Init
      /\ part = "roundtable" => Table!Init
      /\ part = "research" => Research!Init
      /\ part = "turn" => Turn!Init
  BY DEF InitBook
<1>. QED
  BY <1>1, NewsInit, PassInit, TableInit, ResearchInit, TurnInit
     DEF BookInv

\* A step is one of the part that was chosen, or leaves it alone.
LEMMA OnePart ==
  ASSUME [NextBook]_allBookVars
  PROVE  /\ part' = part
         /\ part = "news" => News!Next \/ UNCHANGED <<newsVars, bookVars>>
         /\ part = "passes" => Passes!Next \/ UNCHANGED <<passVars, bookVars>>
         /\ part = "roundtable" => Table!Next \/ UNCHANGED tableVars
         /\ part = "research" => Research!Next \/ UNCHANGED researchVars
         /\ part = "turn" => Turn!Next \/ UNCHANGED turnVars
         /\ part # "passes" => UNCHANGED passVars
<1>1. CASE UNCHANGED allBookVars
  BY <1>1 DEF allBookVars, tellVars, shiftVars
<1>2. CASE NewsStep
  BY <1>2 DEF NewsStep
<1>3. CASE PassStep
  BY <1>3 DEF PassStep
<1>4. CASE TableStep
  BY <1>4 DEF TableStep, tellVars
<1>5. CASE ResearchStep
  BY <1>5 DEF ResearchStep, tellVars
<1>6. CASE TurnStep
  BY <1>6 DEF TurnStep, tellVars
<1>7. CASE OrderStep
  BY <1>7 DEF OrderStep, tellVars, shiftVars
<1>. QED
  BY <1>1, <1>2, <1>3, <1>4, <1>5, <1>6, <1>7 DEF NextBook

LEMMA BookStays ==
  ASSUME BookInv, [NextBook]_allBookVars
  PROVE  BookInv'
<1>1. part' = part
  BY OnePart
<1>2. CASE part = "news"
  BY <1>1, <1>2, OnePart, NewsStays DEF BookInv
<1>3. CASE part = "passes"
  BY <1>1, <1>3, OnePart, PassStays DEF BookInv
<1>4. CASE part = "roundtable"
  BY <1>1, <1>4, OnePart, TableStays DEF BookInv
<1>5. CASE part = "research"
  BY <1>1, <1>5, OnePart, ResearchStays DEF BookInv
<1>6. CASE part = "turn"
  BY <1>1, <1>6, OnePart, TurnStays DEF BookInv
<1>7. CASE part \notin {"news", "passes", "roundtable", "research", "turn"}
  BY <1>1, <1>7 DEF BookInv
<1>. QED
  BY <1>2, <1>3, <1>4, <1>5, <1>6, <1>7

\* Whichever part of a book acts, its invariant holds from its start on.
THEOREM Inductive == SpecBook => []BookInv
<1>1. InitBook => BookInv
  BY BookInit
<1>2. BookInv /\ [NextBook]_allBookVars => BookInv'
  BY BookStays
<1>. QED
  BY <1>1, <1>2, PTL DEF SpecBook, allBookVars

\* A desk is told of the newest revision of what concerns it, whatever
\* outages, restarts and changes of the book come in between, and of nothing
\* that is revised (ingestNews), for any number of events, revisions, and
\* revisions on a page.
THEOREM ReviewsCurrentHolds == SpecBook => []ReviewsCurrent
<1>1. BookInv => ReviewsCurrent
  BY DEF BookInv, NewsInv, ReviewsCurrent
<1>. QED
  BY <1>1, Inductive, PTL

\* A role's note is based on the notes that are on record, for any number of
\* runs of the shift (runRoundtable, save).
THEOREM NotesAgreeHolds == SpecBook => []NotesAgree
<1>1. BookInv => NotesAgree
  BY DEF BookInv, TableInv, NotesAgree
<1>. QED
  BY <1>1, Inductive, PTL

\* No role is told what a correction has superseded (memo, ShiftReads), for
\* any number of roles and revisions.
THEOREM ToldCurrentHolds == SpecBook => []ToldCurrent
<1>1. BookInv => ToldCurrent
  BY ResearchTold DEF BookInv, ToldCurrent
<1>. QED
  BY <1>1, Inductive, PTL

\* No tokens are spent without a row, and none that arrived in time are lost
\* (callAppServer, beginTokenMeter), for any number of reports on their way.
THEOREM CountedHolds == SpecBook => []Counted
<1>1. BookInv => Counted
  BY TurnCounted DEF BookInv, Counted
<1>. QED
  BY <1>1, Inductive, PTL

\* A pass keeps moves from the desk only while it stands, and one that was
\* reopened stays so (sampleMarket, releaseNewsPasses, processWatches), for
\* any number of passes and versions of the book.
THEOREM PassesGiveWayHolds == SpecBook => PassesGiveWay
<1>. DEFINE A ==
       /\ move # "deferred" /\ move' = "deferred" =>
            \E i \in Passes!Pass : Passes!Stands(i)
       /\ \A i \in Passes!Pass :
            LET o == pass[i].outcome IN
            o.reopened # "no" => pass'[i].outcome.reopened = o.reopened
<1>1. ASSUME BookInv, [NextBook]_allBookVars
      PROVE  [A]_Passes!vars
  <2>1. CASE part # "passes" \/ UNCHANGED <<passVars, bookVars>>
    <3>1. UNCHANGED <<pass, move>>
      BY <1>1, <2>1, OnePart DEF passVars
    <3>. QED
      BY <3>1
  <2>2. CASE part = "passes" /\ Passes!Next
    BY <1>1, <2>2, PassGivesWay DEF BookInv
  <2>. QED
    BY <1>1, <2>1, <2>2, OnePart
<1>2. BookInv /\ [NextBook]_allBookVars => [A]_Passes!vars
  BY <1>1
<1>. HIDE DEF A
<1>3. SpecBook => [][A]_Passes!vars
  BY <1>2, Inductive, PTL DEF SpecBook, allBookVars
<1>. QED
  BY <1>3 DEF PassesGiveWay, Passes!PassesGiveWay, A
=============================================================================
