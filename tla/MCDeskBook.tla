----------------------------- MODULE MCDeskBook -----------------------------
(***************************************************************************)
(* A directional book on small instances for TLC: what it takes in of the  *)
(* news (DeskNews), its passes (DeskPasses), how a shift of it deliberates *)
(* (DeskRoundtable), with research (DeskResearch) and turns of the model   *)
(* (DeskTurn), and its orders with their ledger (DeskIntents).  A shift    *)
(* lies between what a book is told and what it orders, DeskNews and       *)
(* DeskPasses meet in one transaction only, which DeskPasses has as an     *)
(* action (Release), and a roundtable is shown notes, not how they came    *)
(* about: a behaviour here is one of the part that is chosen at the start, *)
(* while the others rest.                                                  *)
(***************************************************************************)
EXTENDS DeskIntents, TLC

CONSTANTS Event, MaxRev, Page,   \* DeskNews; DeskResearch has MaxRev too
          MaxPass,               \* DeskPasses
          MaxVersion,            \* DeskNews and DeskPasses
          MaxRun,                \* DeskRoundtable
          Asker,                 \* DeskResearch
          MaxTotal, MaxPipe      \* DeskTurn

VARIABLES part,
          log, held, version, enabled, cursor, progress, wake, reader,
          pass, sampler, watcher, move,
          holder, leased, done, note, run, tasks,
          revision, row, receiptRow, receipts, board, inFlight, request,
          at, closed, cancelled, started, final, completed, tool, usageRow,
          writes, broken, model, spent, pipe, result, reported

orderVars == vars
newsVars == <<log, held, cursor, progress, wake, reader>>
passVars == <<pass, sampler, watcher, move>>
bookVars == <<version, enabled>>
tableVars == <<holder, leased, done, note, run, tasks>>
researchVars ==
  <<revision, row, receiptRow, receipts, board, inFlight, request>>
turnVars ==
  <<at, closed, cancelled, started, final, completed, tool, usageRow, writes,
    broken, model, spent, pipe, result, reported>>

News == INSTANCE DeskNews
Passes == INSTANCE DeskPasses
Table == INSTANCE DeskRoundtable WITH held <- leased, turn <- tasks
Research == INSTANCE DeskResearch WITH call <- request
Turn == INSTANCE DeskTurn

ASSUME BookAssumptions ==
  /\ News!NewsAssumption /\ Passes!PassesAssumption
  /\ Table!RunAssumption /\ Research!ResearchAssumption
  /\ Turn!TurnAssumption

Parts == {"news", "passes", "roundtable", "research", "turn", "orders"}

\* A part of a shift that rests has no state (TLC looks at it all the time).
TableRests ==
  /\ holder = 0 /\ leased = 0 /\ done = 0 /\ note = 0 /\ run = 0
  /\ tasks = 0
ResearchRests ==
  /\ revision = 0 /\ row = 0 /\ receiptRow = 0 /\ receipts = 0
  /\ board = 0 /\ inFlight = 0 /\ request = 0
TurnRests ==
  /\ at = 0 /\ closed = 0 /\ cancelled = 0 /\ started = 0 /\ final = 0
  /\ completed = 0 /\ tool = 0 /\ usageRow = 0 /\ writes = 0 /\ broken = 0
  /\ model = 0 /\ spent = 0 /\ pipe = 0 /\ result = 0 /\ reported = 0

InitBook ==
  /\ part \in Parts /\ Init /\ News!Init /\ Passes!Init
  /\ part # "news" => held = {}
  /\ IF part = "roundtable" THEN Table!Init ELSE TableRests
  /\ IF part = "research" THEN Research!Init ELSE ResearchRests
  /\ IF part = "turn" THEN Turn!Init ELSE TurnRests

tellVars == <<newsVars, passVars, bookVars>>
shiftVars == <<tableVars, researchVars, turnVars>>

NewsStep ==
  /\ part = "news" /\ News!Next
  /\ UNCHANGED <<part, orderVars, passVars, shiftVars>>
PassStep ==
  /\ part = "passes" /\ Passes!Next
  /\ UNCHANGED <<part, orderVars, newsVars, shiftVars>>
TableStep ==
  /\ part = "roundtable" /\ Table!Next
  /\ UNCHANGED <<part, orderVars, tellVars, researchVars, turnVars>>
ResearchStep ==
  /\ part = "research" /\ Research!Next
  /\ UNCHANGED <<part, orderVars, tellVars, tableVars, turnVars>>
TurnStep ==
  /\ part = "turn" /\ Turn!Next
  /\ UNCHANGED <<part, orderVars, tellVars, tableVars, researchVars>>
OrderStep ==
  part = "orders" /\ Next /\ UNCHANGED <<part, tellVars, shiftVars>>

NextBook ==
  NewsStep \/ PassStep \/ TableStep \/ ResearchStep \/ TurnStep \/ OrderStep
SpecBook == InitBook /\ [][NextBook]_<<part, orderVars, tellVars, shiftVars>>

\* Intent keys are interchangeable.
KeySymmetry == Permutations(Key)

-----------------------------------------------------------------------------
(* Properties of the parts, as their modules state them *)

\* A desk is told of the newest revision of what concerns it, and of nothing
\* that is revised (ingestNews).
ReviewsCurrent == part = "news" => News!ReviewsCurrent

\* A pass keeps moves from the desk only while it stands (sampleMarket,
\* releaseNewsPasses, processWatches).
PassesGiveWay == Passes!PassesGiveWay

\* A role's note is based on the notes that are on record (runRoundtable,
\* save).
NotesAgree == part = "roundtable" => Table!NotesAgree

\* No role is told what a correction has superseded (memo, ShiftReads).
ToldCurrent == part = "research" => Research!ToldCurrent

\* No tokens are spent without a row, and none that arrived in time are lost
\* (callAppServer, beginTokenMeter).
Counted == part = "turn" => Turn!Counted
=============================================================================
