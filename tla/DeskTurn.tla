------------------------------ MODULE DeskTurn ------------------------------
(***************************************************************************)
(* One turn of a role at the model and the meter of its tokens             *)
(* (callAppServer and AppServerRpc in src/lib/desk/runtime.ts,             *)
(* beginTokenMeter in src/lib/desk/token-usage.ts).  The model runs in a   *)
(* child process of its own, whose messages arrive in order; the usage it  *)
(* reports is written to the database by a chain of updates, while the     *)
(* turn goes on, fails, times out or is cancelled.  Which messages and     *)
(* contents are valid is a choice: one that is not fails the connection.   *)
(***************************************************************************)
EXTENDS Naturals, Sequences

CONSTANTS MaxTotal,  \* bound: tokens that the model spends
          MaxPipe    \* bound: messages on their way

TurnAssumption == {MaxTotal, MaxPipe} \subseteq Nat \ {0}

VARIABLES
  at,         \* how far callAppServer is
  closed,     \* AppServerRpc.closed
  cancelled,  \* turn.signal.aborted
  started,    \* the turn's id is known
  final,      \* the model's answer was seen
  completed,  \* the promise that the turn waits for
  tool,       \* a tool is at work for the model
  usageRow,   \* DeskTokenUsage row of the thread
  writes,     \* updates with totals, in the chain; the first is under way
  broken,     \* one of them has failed, and so will the ones after it
  model,      \* the model: what it waits for or has come to
  spent,      \* tokens it has spent
  pipe,       \* its messages on their way
  result,     \* of callAppServer
  reported    \* history: the last total that arrived in time, 0 for none

host == <<at, closed, cancelled, started, final, completed, tool, result>>
meter == <<usageRow, writes, broken, reported>>
server == <<model, spent, pipe>>
vars == <<host, meter, server>>

Init ==
  /\ at = "opening" /\ closed = FALSE /\ cancelled = FALSE
  /\ started = FALSE /\ final = FALSE /\ completed = "pending"
  /\ tool = FALSE /\ result = "none"
  /\ usageRow = [status |-> "none", total |-> 0]
  /\ writes = <<>> /\ broken = FALSE /\ reported = 0
  /\ model = "idle" /\ spent = 0 /\ pipe = <<>>

-----------------------------------------------------------------------------
(* The model, in its process *)

Message(kind) == [kind |-> kind, total |-> spent]
Usage == [kind |-> "usage", total |-> spent + 1]

Emit(message) == Len(pipe) < MaxPipe /\ pipe' = Append(pipe, message)

\* It begins, says so, and answers the request.
ModelBegins ==
  /\ model = "asked" /\ model' = "works" /\ Len(pipe) + 2 <= MaxPipe
  /\ pipe' \in {pipe \o <<Message("started"), Message("response")>>,
                pipe \o <<Message("response"), Message("started")>>}
  /\ UNCHANGED <<host, meter, spent>>

\* It spends tokens, with or without a report of the total.
ModelSpends ==
  /\ model = "works" /\ spent < MaxTotal /\ spent' = spent + 1
  /\ \/ Emit(Usage)
     \/ UNCHANGED pipe
  /\ UNCHANGED <<host, meter, model>>

ModelSays ==
  /\ model = "works"
  /\ \/ Emit(Message("final")) /\ UNCHANGED model
     \/ Emit(Message("tool")) /\ model' = "waits"
     \/ Emit(Message("completed")) /\ model' = "done"
  /\ UNCHANGED <<host, meter, spent>>

-----------------------------------------------------------------------------
(* The connection *)

\* fail: what is pending is rejected, the process is killed.
Broken == closed' = TRUE /\ completed' = IF completed = "pending"
                                         THEN "rejected" ELSE completed

\* The timer, the caller, a process that ends, or a frame that is invalid.
Fail ==
  /\ ~closed /\ at # "over"
  /\ Broken /\ cancelled' \in {cancelled, TRUE}
  /\ UNCHANGED <<at, started, final, tool, result, meter, server>>

\* snapshot: the chain is prolonged at once.  After a failure in it, a report
\* fails the connection.
Snapshot(total) ==
  IF broken
  THEN /\ Broken
       /\ UNCHANGED <<writes, reported>>
  ELSE /\ writes' = Append(writes, total) /\ reported' = total
       /\ UNCHANGED <<closed, completed>>

\* receive and dispatch.  After a failure nothing is read.
Receive ==
  LET message == Head(pipe).kind IN
  /\ pipe # <<>> /\ ~closed /\ pipe' = Tail(pipe)
  /\ started' = (started \/ message \in {"started", "response"})
  /\ at' = IF message = "response" THEN "awaiting" ELSE at
  /\ CASE message = "usage" ->
            Snapshot(Head(pipe).total) /\ UNCHANGED <<final, tool>>
       [] message = "final" /\ started ->
            /\ final' = TRUE
            /\ UNCHANGED <<closed, completed, tool, writes, reported>>
       [] message = "tool" /\ started ->
            /\ tool' = TRUE
            /\ UNCHANGED <<closed, completed, final, writes, reported>>
       [] message = "completed" /\ started /\ final ->
            /\ completed' = "resolved"
            /\ UNCHANGED <<closed, final, tool, writes, reported>>
       [] message \in {"started", "response"} ->
            UNCHANGED <<closed, completed, final, tool, writes, reported>>
       [] OTHER ->
            Broken /\ UNCHANGED <<final, tool, writes, reported>>
  /\ UNCHANGED <<cancelled, result, usageRow, broken, model, spent>>

\* A tool's result is for a model that still listens.
ToolEnds ==
  /\ tool /\ tool' = FALSE
  /\ model' = IF closed THEN model ELSE "works"
  /\ UNCHANGED <<at, closed, cancelled, started, final, completed, result,
                 meter, spent, pipe>>

-----------------------------------------------------------------------------
(* The meter *)

\* An update of the chain; a total that is behind is not written.
Write ==
  /\ writes # <<>> /\ writes' = Tail(writes)
  /\ usageRow' = IF /\ usageRow.status = "running"
                    /\ usageRow.total <= Head(writes)
                 THEN [usageRow EXCEPT !.total = Head(writes)] ELSE usageRow
  /\ UNCHANGED <<host, broken, reported, server>>

\* The report's handler fails with it.
WriteFails ==
  /\ writes # <<>> /\ writes' = <<>> /\ broken' = TRUE
  /\ Broken
  /\ UNCHANGED <<at, cancelled, started, final, tool, result, usageRow,
                 reported, server>>

-----------------------------------------------------------------------------
(* callAppServer *)

\* Handshake, configuration and thread; all may fail.
OpenThread ==
  /\ at = "opening"
  /\ at' = IF closed THEN "finishing" ELSE "metering"
  /\ UNCHANGED <<closed, cancelled, started, final, completed, tool, result,
                 meter, server>>

\* The attempt is registered before it begins, and is not begun if that, or
\* meanwhile the connection, has failed.
BeginMeter ==
  /\ at = "metering"
  /\ \/ /\ usageRow' = [usageRow EXCEPT !.status = "running"]
        /\ IF closed THEN at' = "finishing" /\ UNCHANGED model
           ELSE at' = "starting" /\ model' = "asked"
     \/ at' = "finishing" /\ UNCHANGED <<usageRow, model>>
  /\ UNCHANGED <<closed, cancelled, started, final, completed, tool, result,
                 writes, broken, reported, spent, pipe>>

\* What was awaited has come, or will not; the process is killed.
Conclude ==
  /\ \/ at = "starting" /\ closed
     \/ at = "awaiting" /\ completed # "pending"
  /\ at' = "finishing" /\ closed' = TRUE
  /\ completed' = IF at = "starting" THEN "rejected" ELSE completed
  /\ UNCHANGED <<cancelled, started, final, tool, result, meter, server>>

Return(r) == at' = "over" /\ result' = r /\ closed' = TRUE

\* Variant: the status does not wait for the totals.
NotAwaited == TRUE

Written == writes = <<>>

Status == IF completed = "resolved" THEN "completed"
          ELSE IF cancelled THEN "cancelled" ELSE "failed"

\* finish: waits for the chain, and fails with it.
Finish ==
  /\ at = "finishing" /\ usageRow.status # "none" /\ Written /\ ~broken
  /\ usageRow' = [usageRow EXCEPT !.status = Status]
  /\ Return(IF Status = "completed" THEN "returned" ELSE "failed")
  /\ UNCHANGED <<cancelled, started, final, completed, tool, writes, broken,
                 reported, server>>

\* There is no meter, or its last update fails too.
FinishFails ==
  /\ at = "finishing" /\ Written
  /\ Return("failed")
  /\ UNCHANGED <<cancelled, started, final, completed, tool, meter, server>>

\* The worker's process dies, and the model with it.
Crash ==
  /\ at # "over" /\ Return("died")
  /\ writes' = <<>>
  /\ UNCHANGED <<cancelled, started, final, completed, tool, usageRow,
                 broken, reported, server>>

Model == ~closed /\ (ModelBegins \/ ModelSpends \/ ModelSays)

Next == Model \/ Fail \/ Receive \/ ToolEnds \/ Write \/ WriteFails
        \/ OpenThread \/ BeginMeter \/ Conclude \/ Finish \/ FinishFails
        \/ Crash

Spec == Init /\ [][Next]_vars

-----------------------------------------------------------------------------
(* Properties *)

TypeOK ==
  /\ at \in {"opening", "metering", "starting", "awaiting", "finishing",
             "over"}
  /\ result \in {"none", "returned", "failed", "died"}
  /\ completed \in {"pending", "resolved", "rejected"}
  /\ usageRow.status \in {"none", "running", "completed", "failed",
                          "cancelled"}
  /\ {spent, reported, usageRow.total} \subseteq 0 .. MaxTotal
  /\ (at = "over") = (result # "none")

\* "Register each actual inference attempt before turn/start": no tokens are
\* spent without a row; a row that claims to have ended has the last total
\* that arrived before the turn did; what leaves it unresolved, a crash or a
\* failure of the meter, never lets the turn return its answer.
Counted ==
  /\ spent > 0 => usageRow.status # "none"
  /\ usageRow.status \in {"completed", "failed", "cancelled"} =>
       usageRow.total = reported
  /\ result = "returned" => usageRow.status = "completed"
=============================================================================
