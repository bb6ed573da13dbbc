---------------------------- MODULE LegacyTrader ----------------------------
(***************************************************************************)
(* The legacy auto-trader of a wallet (src/services/AutoTraderService.ts)  *)
(* and the switch of the desk book on the same account (updateBook in      *)
(* src/lib/desk/books.ts).  A transaction checks the one for what the      *)
(* other has in the database, and a trigger the other for the one; but a   *)
(* cycle of the auto-trader is claimed, begins and trades in steps, and a  *)
(* process that dies leaves rows that say that it runs.                    *)
(***************************************************************************)

CONSTANT Process    \* workers, started by src/scripts/start_auto_trader.ts

VARIABLES
  book,      \* DeskBook.enabled
  enabled,   \* AutoTraderSettings.enabled
  status,    \* since when its lastStatus is "running"
  due,       \* its nextRunAt is over
  cycle,     \* what each process does
  run,       \* AutoTraderRun rows that say RUNNING: of a cycle under way,
  left,      \* and of those that threw, or died
  beside     \* history: processes whose cycle was claimed beside the desk

vars == <<book, enabled, status, due, cycle, run, left, beside>>

\* "old" is older than 300 s, and than two periods of the auto-trader.
Age == {"new", "old"}

Init ==
  /\ book = FALSE /\ enabled = FALSE /\ status = "no" /\ due = TRUE
  /\ cycle = [p \in Process |-> "idle"]
  /\ run = [p \in Process |-> "no"] /\ left = {}
  /\ beside = {}

-----------------------------------------------------------------------------
(* updateBook; configure, with the triggers legacy_excludes_desk_... *)

Stopped == ~enabled /\ left = {} /\ \A p \in Process : run[p] = "no"

UpdateBook(on) ==
  /\ on => Stopped
  /\ book' = on
  /\ UNCHANGED <<enabled, status, due, cycle, run, left, beside>>

\* nextRunAt is now, or none, which counts as over; updatedAt is now.
Configure(on) ==
  /\ on => ~book
  /\ enabled' = on /\ due' = TRUE
  /\ status' = IF status = "old" THEN "new" ELSE status
  /\ UNCHANGED <<book, cycle, run, left, beside>>

-----------------------------------------------------------------------------
(* runDueOnce, runSettings, claimSettings *)

At(p, at) == cycle[p] = at
Goto(p, at) == cycle' = [cycle EXCEPT ![p] = at]

ListDue(p) ==
  /\ At(p, "idle") /\ enabled /\ due
  /\ Goto(p, "due")
  /\ UNCHANGED <<book, enabled, status, due, run, left, beside>>

\* finalizeStaleRuns: whether they are over or not.
NoneOld ==
  /\ run' = [p \in Process |-> IF run[p] = "old" THEN "no" ELSE run[p]]
  /\ left' = left \ {"old"}

FinalizeStaleRuns(p) ==
  /\ At(p, "due") /\ Goto(p, "claim")
  /\ NoneOld
  /\ UNCHANGED <<book, enabled, status, due, beside>>

\* Variant: the settings were enabled when they were listed.
Listed == due /\ status # "new"

Claimable == enabled /\ due /\ status # "new"

Claim(p) ==
  /\ At(p, "claim")
  /\ IF Claimable
       THEN /\ status' = "new" /\ Goto(p, "claimed")
            /\ beside' = IF book THEN beside \cup {p} ELSE beside \ {p}
       ELSE Goto(p, "idle") /\ UNCHANGED <<status, beside>>
  /\ UNCHANGED <<book, enabled, due, run, left>>

\* runTraderCycle: from its row on, it may trade.
StartRun(p) ==
  /\ At(p, "claimed") /\ Goto(p, "trading")
  /\ run' = [run EXCEPT ![p] = "new"]
  /\ UNCHANGED <<book, enabled, status, due, left, beside>>

FinishRun(p) ==
  /\ At(p, "trading") /\ Goto(p, "report")
  /\ run' = [run EXCEPT ![p] = "no"]
  /\ UNCHANGED <<book, enabled, status, due, left, beside>>

\* Nobody finishes the row of a cycle that throws.
Leave(p) ==
  /\ run' = [run EXCEPT ![p] = "no"]
  /\ left' = left \cup ({run[p]} \cap Age)

Throw(p) ==
  /\ cycle[p] \in {"claimed", "trading"} /\ Goto(p, "report")
  /\ Leave(p)
  /\ UNCHANGED <<book, enabled, status, due, beside>>

Report(p) ==
  /\ At(p, "report") /\ Goto(p, "idle")
  /\ status' = "no" /\ due' = FALSE
  /\ UNCHANGED <<book, enabled, run, left, beside>>

Crash(p) ==
  /\ ~At(p, "idle") /\ Goto(p, "idle")
  /\ Leave(p)
  /\ UNCHANGED <<book, enabled, status, due, beside>>

\* bootstrapEnabled, of a process that starts, here or of the web application:
\* it takes rows for old that have been there for 15 minutes.
Bootstrap ==
  /\ NoneOld
  /\ UNCHANGED <<book, enabled, status, due, cycle, beside>>

-----------------------------------------------------------------------------
(* Time *)

GrowOld ==
  \/ status = "new" /\ status' = "old" /\ UNCHANGED <<run, left, due>>
  \/ \E p \in Process : /\ run[p] = "new" /\ run' = [run EXCEPT ![p] = "old"]
                        /\ UNCHANGED <<status, left, due>>
  \/ "new" \in left /\ left' = {"old"} /\ UNCHANGED <<status, run, due>>
  \/ ~due /\ due' = TRUE /\ UNCHANGED <<status, run, left>>

Tick == GrowOld /\ UNCHANGED <<book, enabled, cycle, beside>>

Next ==
  \/ \E on \in BOOLEAN : UpdateBook(on) \/ Configure(on)
  \/ \E p \in Process :
       \/ ListDue(p) \/ FinalizeStaleRuns(p) \/ Claim(p)
       \/ StartRun(p) \/ FinishRun(p) \/ Throw(p) \/ Report(p) \/ Crash(p)
  \/ Bootstrap \/ Tick

Spec == Init /\ [][Next]_vars

-----------------------------------------------------------------------------
(* Properties *)

TypeOK ==
  /\ book \in BOOLEAN /\ enabled \in BOOLEAN /\ due \in BOOLEAN
  /\ status \in Age \cup {"no"}
  /\ cycle \in [Process -> {"idle", "due", "claim", "claimed", "trading",
                            "report"}]
  /\ run \in [Process -> Age \cup {"no"}] /\ left \subseteq Age
  /\ \A p \in Process : run[p] # "no" => cycle[p] = "trading"

\* No cycle of the auto-trader is claimed while the desk has the account,
\* although the auto-trader may be switched off and the desk on between the
\* steps of a process that found it due.  (One that was claimed before may
\* still begin to trade.)
ClaimedAlone == beside = {}
=============================================================================
