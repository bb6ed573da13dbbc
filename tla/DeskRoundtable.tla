--------------------------- MODULE DeskRoundtable ---------------------------
(***************************************************************************)
(* The deliberation of one shift (runRoundtable in                         *)
(* src/lib/desk/roundtable.ts, with save and recoverContext of             *)
(* src/lib/desk/shifts.ts): five roles write a note each, in three waves;  *)
(* a wave is shown the notes of the waves before it.  A run of the shift   *)
(* may crash, be interrupted, or lose its lease while its roles are at     *)
(* work, and go on beside the run that takes over and begins with the      *)
(* notes that it finds.  (DeskShifts has the claim of a shift in full;     *)
(* routine shifts, whose roles see no notes, and consultations, which      *)
(* leave no note, are left out.  A shift is taken up again before the book *)
(* has 90 notes of other shifts: recoverContext looks no further back.)    *)
(***************************************************************************)
EXTENDS Naturals

CONSTANT MaxRun   \* bound: runs of the shift, in the order of their claims

RunAssumption == MaxRun \in Nat \ {0}

VARIABLES
  holder,  \* run whose token the DeskShift row has, 0 before the first
  held,    \* the row is running under its mandate, its lease lies ahead
  done,    \* the shift is completed
  note,    \* DeskRecord rows of kind note: by which run, from which notes
  run,     \* runs: where they are, the notes they have, and had for the wave
  turn     \* the tasks of a run's wave, by role

vars == <<holder, held, done, note, run, turn>>

Run == 1 .. MaxRun
Role == {"catalyst", "derivatives", "execution", "risk", "lead"}
Wave(role) == CASE role \in {"catalyst", "derivatives"} -> 1
                [] role \in {"execution", "risk"} -> 2
                [] role = "lead" -> 3

\* A note is known by the run that wrote it, 0 if there is none.
NoNotes == [role \in Role |-> 0]
NoNote == [by |-> 0, saw |-> NoNotes]
NoRun == [at |-> "none", wave |-> 0, notes |-> NoNotes, prior |-> NoNotes,
          aborted |-> FALSE]
NoTurns == [role \in Role |-> "none"]

Init ==
  /\ holder = 0 /\ held = FALSE /\ done = FALSE
  /\ note = [role \in Role |-> NoNote]
  /\ run = [r \in Run |-> NoRun]
  /\ turn = [r \in Run |-> NoTurns]

Committed == [role \in Role |-> note[role].by]

-----------------------------------------------------------------------------
(* The lease of the shift *)

\* A shift is claimed, taken over or resumed when nobody has it any more.
Claim(r) ==
  /\ ~held /\ ~done /\ r = holder + 1
  /\ holder' = r /\ held' = TRUE
  /\ run' = [run EXCEPT ![r].at = "recover"]
  /\ UNCHANGED <<done, note, turn>>

\* The lease is over, the shift is paused, or the mandate replaced.
Lapse ==
  /\ held /\ held' = FALSE
  /\ UNCHANGED <<holder, done, note, run, turn>>

\* The run hears of it; or its worker is stopped.
Stop(r) ==
  /\ run[r].at = "table" /\ ~run[r].aborted
  /\ run' = [run EXCEPT ![r].aborted = TRUE]
  /\ UNCHANGED <<holder, held, done, note, turn>>

-----------------------------------------------------------------------------
(* recoverContext and runRoundtable *)

Recover(r) ==
  /\ run[r].at = "recover"
  /\ run' = [run EXCEPT ![r].at = "table", ![r].notes = Committed]
  /\ UNCHANGED <<holder, held, done, note, turn>>

Settled(r) == \A role \in Role : turn[r][role] \in {"none", "saved"}

\* The next wave gets a snapshot of the notes; who has one is not asked.
BeginWave(r) ==
  LET wave == run[r].wave + 1 IN
  /\ run[r].at = "table" /\ Settled(r) /\ wave <= 3
  /\ run' = [run EXCEPT ![r].wave = wave, ![r].prior = run[r].notes]
  /\ turn' = [turn EXCEPT ![r] =
       [role \in Role |->
          IF Wave(role) # wave \/ run[r].notes[role] # 0 THEN "none"
          ELSE IF run[r].aborted THEN "failed"
          ELSE "asked"]]
  /\ UNCHANGED <<holder, held, done, note>>

\* The role's turn ends with a valid note, and the run is not aborted.
Answer(r, role) ==
  /\ turn[r][role] = "asked" /\ ~run[r].aborted
  /\ turn' = [turn EXCEPT ![r][role] = "answered"]
  /\ UNCHANGED <<holder, held, done, note, run>>

\* A task that fails aborts the others.
Failed(r, role) ==
  /\ turn' = [turn EXCEPT ![r][role] = "failed"]
  /\ run' = [run EXCEPT ![r].aborted = TRUE]

\* The turn fails, or is cut off; or what it returns is no note.
FailTurn(r, role) ==
  /\ turn[r][role] = "asked"
  /\ Failed(r, role)
  /\ UNCHANGED <<holder, held, done, note>>

\* Variant: what an earlier run of the shift concludes is welcome.
Anyone(r) == ~done

Fenced(r) == holder = r /\ held

\* save: a record that exists is not changed.
Save(r, role) ==
  /\ turn[r][role] = "answered" /\ Fenced(r)
  /\ note' = IF note[role].by # 0 THEN note
               ELSE [note EXCEPT ![role] = [by |-> r, saw |-> run[r].prior]]
  /\ \/ /\ turn' = [turn EXCEPT ![r][role] = "saved"]
        /\ run' = [run EXCEPT ![r].notes[role] = r]
     \/ Failed(r, role)     \* committed, but the answer is an error
  /\ UNCHANGED <<holder, held, done>>

\* "Shift revoked", or the transaction fails.
SaveFails(r, role) ==
  /\ turn[r][role] = "answered"
  /\ Failed(r, role)
  /\ UNCHANGED <<holder, held, done, note>>

-----------------------------------------------------------------------------
(* The end of a run *)

\* Of a run that is over nothing is read.
Over(r) ==
  /\ run' = [run EXCEPT ![r] = [NoRun EXCEPT !.at = "over"]]
  /\ turn' = [turn EXCEPT ![r] = NoTurns]

\* The update asks for the token and the status, not for the lease: a run that
\* nobody has replaced may complete late.
Complete(r) ==
  /\ run[r].at = "table" /\ run[r].wave = 3 /\ Settled(r) /\ ~run[r].aborted
  /\ \/ done' = TRUE /\ held' = FALSE /\ holder = r
     \/ UNCHANGED <<done, held>> /\ ~Fenced(r)
  /\ Over(r)
  /\ UNCHANGED <<holder, note>>

\* All tasks have come to an end.  Who still has the shift keeps it for 15 s,
\* unless the attempts are used up.
Fail(r) ==
  /\ run[r].at = "table"
  /\ \A role \in Role : turn[r][role] \notin {"asked", "answered"}
  /\ run[r].aborted
  /\ held' \in (IF Fenced(r) THEN BOOLEAN
                ELSE {held, holder = r /\ ~done})
  /\ Over(r)
  /\ UNCHANGED <<holder, done, note>>

Crash(r) ==
  /\ run[r].at \in {"recover", "table"}
  /\ Over(r)
  /\ UNCHANGED <<holder, held, done, note>>

Next ==
  \/ Lapse
  \/ \E r \in Run :
       \/ Claim(r) \/ Stop(r) \/ Recover(r) \/ BeginWave(r)
       \/ Complete(r) \/ Fail(r) \/ Crash(r)
       \/ \E role \in Role : \/ Answer(r, role) \/ FailTurn(r, role)
                             \/ Save(r, role) \/ SaveFails(r, role)

Spec == Init /\ [][Next]_vars

-----------------------------------------------------------------------------
(* Properties *)

TypeOK ==
  /\ holder \in Run \cup {0} /\ held \in BOOLEAN /\ done \in BOOLEAN
  /\ note \in [Role -> [by : Run \cup {0}, saw : [Role -> Run \cup {0}]]]
  /\ \A r \in Run :
       /\ run[r].at \in {"none", "recover", "table", "over"}
       /\ turn[r] \in [Role -> {"none", "asked", "answered", "saved",
                                "failed"}]
       /\ r > holder => run[r] = NoRun

\* "The lead sees every committed view and all dissent": what a role wrote is
\* based on the notes that the earlier waves have on record, not on notes of a
\* run that lost the shift, whoever crashed, stalled or was taken over; and a
\* completed shift has the notes of all.
NotesAgree ==
  /\ \A role, other \in Role :
       note[role].by # 0 /\ Wave(other) < Wave(role) =>
         note[other].by # 0 /\ note[role].saw[other] = note[other].by
  /\ done => \A role \in Role : note[role].by # 0
=============================================================================
