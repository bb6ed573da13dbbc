-------------------------- MODULE DeskShiftsProofs --------------------------
(***************************************************************************)
(* Theorems about DeskShifts, for any number of workers, events, attempts  *)
(* and versions of the book.                                               *)
(***************************************************************************)
EXTENDS DeskShifts, FiniteSetTheorems, WellFoundedInduction, TLAPS

-----------------------------------------------------------------------------
(* The inductive invariant *)

\* The types of TypeOK, by name.
BookRow == [version : 1 .. MaxVersion, enabled : BOOLEAN]
WakeRow == [version : 0 .. MaxVersion, shift : {0} \cup Shifts]
ShiftRow == [status : Statuses, version : 0 .. MaxVersion, mode : Modes,
             risk : BOOLEAN, token : Worker \cup {NoWorker},
             leased : BOOLEAN, attempts : 0 .. MaxAttempts]
Places == Off \cup {"polled", "claimed", "working", "authorized", "recorded",
                    "cleared"}
RunRow == [version : 0 .. MaxVersion, enabled : BOOLEAN, ready : BOOLEAN,
           shift : {0} \cup Shifts, trades : BOOLEAN, posted : BOOLEAN]

\* Rows of shifts are written one after the other.
InOrder ==
  \E n \in 0 .. Cardinality(Wake) :
    \A s \in Shifts : shift[s].status # "none" <=> s <= n

\* Each was created for a wake, so that there is room for the next.
HasItsWake ==
  \A s \in Shifts :
    shift[s].status # "none" => \E w \in Wake : wake[w].shift = s

\* Nothing refers to a row that was not written.
UnwrittenUnused ==
  \A s \in Shifts : shift[s].status = "none" =>
    /\ s \notin dispatched /\ posts[s] = 0 /\ ~shift[s].leased
    /\ \A w \in Wake : wake[w].shift # s
    /\ \A p \in Worker : run[p].shift # s

\* What a run knows of itself.
RunInv(p) ==
  /\ OnShift(p) => run[p].shift \in Shifts
  /\ ~OnShift(p) => run[p].shift = 0
  /\ run[p].trades =>
       pc[p] \in {"working", "authorized", "recorded", "cleared"}
  /\ pc[p] \in {"authorized", "recorded", "cleared"} => run[p].trades
  /\ pc[p] \in {"recorded", "cleared"} => run[p].shift \in dispatched
  /\ run[p].posted => run[p].trades /\ posts[run[p].shift] = 1
  /\ pc[p] = "cleared" /\ ~run[p].posted => posts[run[p].shift] = 0

Sends(p, s) == pc[p] = "cleared" /\ run[p].shift = s

\* A run that has sent, or is about to, has taken the authority from every
\* other one: who still has the tools that trade has lost the token.
OneSends(s) ==
  /\ posts[s] <= 1
  /\ posts[s] > 0 => s \in dispatched
  /\ \A p, q \in Worker : Sends(p, s) /\ Sends(q, s) => p = q
  /\ \A p \in Worker :
       run[p].trades /\ run[p].shift = s /\ shift[s].token = p =>
         /\ posts[s] > 0 => run[p].posted
         /\ \A q \in Worker : Sends(q, s) => q = p

IInv ==
  /\ TypeOK /\ InOrder /\ HasItsWake /\ UnwrittenUnused
  /\ \A p \in Worker : RunInv(p)
  /\ \A s \in Shifts : OneSends(s)
  /\ OneRunning /\ AgendaOfOneMode
-----------------------------------------------------------------------------
(* Lemmas *)

\* A set of numbers that is not empty has a least one.
LEMMA Least ==
  ASSUME NEW S \in SUBSET Nat, S # {}
  PROVE  \E s \in S : \A t \in S : s <= t
<1> DEFINE R == OpToRel(<, Nat)
<1>1. IsWellFoundedOn(R, Nat)
  BY NatLessThanWellFounded
<1>2. \A x, y \in Nat : <<y, x>> \in R <=> y < x
  BY DEF OpToRel
<1> HIDE DEF R
<1>3. PICK s \in S : \A t \in S : ~ (<<t, s>> \in R)
  BY <1>1, WFMin
<1>4. ASSUME NEW t \in S
      PROVE  s <= t
  <2>1. <<t, s>> \notin R
    BY <1>3
  <2>2. t \in Nat /\ s \in Nat
    OBVIOUS
  <2>3. ~ (t < s)
    BY <1>2, <2>1, <2>2, Zenon
  <2>4. QED
    BY <2>2, <2>3
<1>5. QED
  BY <1>4

\* Wakes are finitely many, so shifts are numbered.
LEMMA WakesFinite == IsFiniteSet(Wake) /\ Cardinality(Wake) \in Nat
<1>1. IsFiniteSet(Given)
  BY ShiftAssumption DEF Given
<1>2. IsFiniteSet(Urgent)
  BY <1>1, FS_Subset DEF Given
<1> DEFINE copies == [w \in Urgent |-> Outage(w)]
           C == {Outage(w) : w \in Urgent}
<1>3. copies \in Surjection(Urgent, C)
  BY DEF Surjection
<1>4. IsFiniteSet(C)
  BY <1>2, <1>3, FS_Surjection
<1>5. IsFiniteSet(Wake)
  BY <1>1, <1>4, FS_Union DEF Wake
<1>6. QED
  BY <1>5, FS_CardinalityType

LEMMA ShiftsAreNumbers == Shifts \subseteq Nat /\ 0 \notin Shifts
  BY WakesFinite DEF Shifts

\* The shift that would be resumed is one of those that may be.
LEMMA OldestIsOne ==
  ASSUME NEW S \in SUBSET Shifts, S # {}
  PROVE  Oldest(S) \in S
<1>1. S \in SUBSET Nat
  BY ShiftsAreNumbers
<1>2. \E s \in S : \A t \in S : s <= t
  BY <1>1, Least
<1>3. QED
  BY <1>2, Zenon DEF Oldest

\* If the first n shifts are written, each for a wake, and some wake is queued,
\* there is a row for one more.
LEMMA RoomForOneMore ==
  ASSUME NEW n \in Nat, NEW f \in [Wake -> {0} \cup Shifts],
         n <= Cardinality(Wake),
         \A s \in 1 .. n : \E w \in Wake : f[w] = s,
         \E w \in Wake : f[w] = 0
  PROVE  n + 1 \in Shifts
<1> DEFINE taken == {w \in Wake : f[w] \in 0 .. n}
           g == [w \in taken |-> f[w]]
<1>1. IsFiniteSet(taken) /\ Cardinality(taken) <= Cardinality(Wake)
  BY WakesFinite, FS_Subset
<1>2. g \in Surjection(taken, 0 .. n)
  <2>1. g \in [taken -> 0 .. n]
    OBVIOUS
  <2>2. \A k \in 0 .. n : \E w \in taken : g[w] = k
    <3> SUFFICES ASSUME NEW k \in 0 .. n
                 PROVE  \E w \in Wake : f[w] = k
      OBVIOUS
    <3>1. k = 0 \/ k \in 1 .. n
      OBVIOUS
    <3>2. QED
      BY <3>1
  <2>3. QED
    BY <2>1, <2>2 DEF Surjection
<1>3. Cardinality(0 .. n) <= Cardinality(taken)
  BY <1>1, <1>2, FS_Surjection
<1>4. Cardinality(0 .. n) = n + 1
  BY FS_Interval
<1>5. Cardinality(taken) \in Nat
  BY <1>1, FS_CardinalityType
<1>6. QED
  BY <1>1, <1>3, <1>4, <1>5, WakesFinite DEF Shifts

-----------------------------------------------------------------------------
(* What claimShift may do *)

\* A row of a shift that the transaction does not hand to the worker.
Rests(row, next) ==
  /\ next \in ShiftRow
  /\ next.mode = row.mode /\ next.version = row.version
  /\ next.token \in {row.token, NoWorker}
  /\ next.leased => row.leased
  /\ \/ next.status = row.status
     \/ /\ row.status \in {"running", "paused"}
        /\ next.status \in {"superseded", "paused", "expired"}

\* The row of the shift that the worker runs now: taken over or resumed, or
\* written for the wakes of its mode.
IsRun(p, row, next) ==
  /\ next \in ShiftRow
  /\ next.status = "running" /\ next.token = p
  /\ next.mode = "live" => run[p].ready
  /\ row.status \in {"running", "paused", "none"}
  /\ row.status # "none" =>
       next.mode = row.mode /\ next.version = row.version

IsNext(s) ==
  /\ shift[s].status = "none"
  /\ \A t \in Shifts : t < s <=> shift[t].status # "none"

\* A wake stays where it is, is queued, or joins the new shift s.
Stays(w) ==
  /\ wake'[w].shift = wake[w].shift
  /\ wake[w].shift # 0 => wake'[w] = wake[w]
Joins(w, s) ==
  /\ s # 0 /\ wake[w].shift = 0 /\ shift[s].status = "none"
  /\ wake'[w].shift = s
  /\ wake'[w].version = shift'[s].version
  /\ Mode(w) = shift'[s].mode

Outcome(p, s) ==
  /\ pc' = [pc EXCEPT ![p] = IF s = 0 THEN "idle" ELSE "claimed"]
  /\ run' = [run EXCEPT ![p] =
       IF s = 0 THEN Unread ELSE [Unread EXCEPT !.shift = s]]
  /\ UNCHANGED <<book, dispatched, posts>>
  /\ shift' \in [Shifts -> ShiftRow]
  /\ wake' \in [Wake -> WakeRow]
  /\ \A t \in Shifts \ {s} : Rests(shift[t], shift'[t])
  /\ \A w \in Wake : Stays(w) \/ Joins(w, s)
  /\ s # 0 =>
       /\ IsRun(p, shift[s], shift'[s])
       /\ \A t \in Shifts \ {s} : shift'[t].status # "running"
       /\ shift[s].status = "none" =>
            IsNext(s) /\ \E w \in Wake : wake'[w].shift = s

\* Types of what the transaction computes.
LEMMA TypesByName ==
  TypeOK <=>
    /\ book \in BookRow /\ wake \in [Wake -> WakeRow]
    /\ shift \in [Shifts -> ShiftRow] /\ dispatched \subseteq Shifts
    /\ pc \in [Worker -> Places] /\ run \in [Worker -> RunRow]
    /\ posts \in [Shifts -> Nat]
  BY DEF TypeOK, BookRow, WakeRow, ShiftRow, Places, RunRow

LEMMA RowsRest ==
  ASSUME TypeOK
  PROVE  \A t \in Shifts : Rests(shift[t], shift[t])
  BY TypesByName DEF Rests

\* The next row: there is one if a wake is queued.
LEMMA NextRow ==
  ASSUME TypeOK, InOrder, HasItsWake,
         NEW table \in [Shifts -> ShiftRow],
         \A t \in Shifts : Rests(shift[t], table[t]),
         \E w \in Wake : wake[w].shift = 0,
         NEW s, s = Cardinality({t \in Shifts : table[t].status # "none"}) + 1
  PROVE  s \in Shifts /\ IsNext(s)
<1> DEFINE written == {t \in Shifts : table[t].status # "none"}
           f == [w \in Wake |-> wake[w].shift]
<1>1. PICK n \in 0 .. Cardinality(Wake) :
        \A t \in Shifts : shift[t].status # "none" <=> t <= n
  BY DEF InOrder
<1>2. n \in Nat /\ n <= Cardinality(Wake)
  BY WakesFinite
<1>3. \A t \in Shifts : table[t].status # "none" <=> shift[t].status # "none"
  BY DEF Rests
<1>4. written = 1 .. n
  BY <1>1, <1>2, <1>3, WakesFinite DEF Shifts
<1>a. Cardinality(1 .. n) = n
  BY <1>2, FS_Interval
<1> HIDE DEF written
<1>5. Cardinality(written) = n
  BY <1>4, <1>a
<1>6. s = n + 1
  BY <1>5 DEF written
<1>7. f \in [Wake -> {0} \cup Shifts]
  BY TypesByName DEF WakeRow
<1>8. \A t \in 1 .. n : \E w \in Wake : f[w] = t
  <2>1. \A t \in 1 .. n : t \in Shifts /\ shift[t].status # "none"
    BY <1>1, <1>2, WakesFinite DEF Shifts
  <2>2. QED
    BY <2>1 DEF HasItsWake
<1>9. s \in Shifts
  BY <1>2, <1>6, <1>7, <1>8, RoomForOneMore
<1>10. IsNext(s)
  <2>1. \A t \in Shifts : t <= n <=> t < s
    BY <1>2, <1>6, ShiftsAreNumbers
  <2>2. ~ (s <= n)
    BY <1>2, <1>6
  <2>3. QED
    BY <1>1, <1>9, <2>1, <2>2 DEF IsNext
<1>11. QED
  BY <1>9, <1>10

\* queueWake changes nothing of a wake that is there.
LEMMA Enqueued ==
  ASSUME TypeOK, NEW ws
  PROVE  LET wakes == Enqueue(wake, ws, book.version)
         IN  /\ wakes \in [Wake -> WakeRow]
             /\ \A w \in Wake :
                  /\ wakes[w].shift = wake[w].shift
                  /\ wakes[w] # wake[w] =>
                       wake[w] = NotQueued /\ wakes[w].version = book.version
<1> DEFINE wakes == Enqueue(wake, ws, book.version)
<1>1. book.version \in 0 .. MaxVersion
  BY TypesByName, ShiftAssumption DEF BookRow
<1>2. \A w \in Wake : wake[w] \in WakeRow
  BY TypesByName
<1>3. \A w \in Wake :
        wakes[w] = IF w \in ws /\ wake[w] = NotQueued
                     THEN [version |-> book.version, shift |-> 0] ELSE wake[w]
  BY DEF Enqueue
<1>4. [version |-> book.version, shift |-> 0] \in WakeRow
  BY <1>1 DEF WakeRow
<1>5. wakes \in [Wake -> WakeRow]
  BY <1>2, <1>4 DEF Enqueue
<1>6. QED
  BY <1>3, <1>5 DEF NotQueued

\* The last part of the transaction, when no shift is left running.
LEMMA ChoiceOutcome ==
  ASSUME NEW p \in Worker, NEW table \in [Shifts -> ShiftRow],
         TypeOK, InOrder, HasItsWake,
         \A t \in Shifts : Rests(shift[t], table[t]), Current(table) = {},
         NEW ws, NEW old \in BOOLEAN,
         Choose(p, table, Enqueue(wake, ws, book.version), old)
  PROVE  \E s \in {0} \cup Shifts : Outcome(p, s)
<1> DEFINE wakes == Enqueue(wake, ws, book.version)
           eligible == Eligible(p, wakes)
           paused == IF Resumes(eligible) THEN PausedFor(p, table) ELSE {}
           o == Oldest(paused)
           dropped == IF paused = {} THEN table
             ELSE With(table, o, [table[o] EXCEPT !.status = "expired"])
<1>1. /\ wakes \in [Wake -> WakeRow]
      /\ \A w \in Wake : /\ wakes[w].shift = wake[w].shift
                         /\ wake[w].shift # 0 => wakes[w] = wake[w]
  BY Enqueued DEF NotQueued
<1>2. paused # {} => o \in paused
  BY OldestIsOne DEF PausedFor
<1>3. \A t \in Shifts : table[t] \in ShiftRow /\ table[t].status # "running"
  BY DEF Current
<1>4. run[p] \in RunRow
  BY TypesByName
<1>5. \/ /\ paused # {} /\ ~old
         /\ Ends(p, With(table, o, Taken(table[o], p)), wakes, o)
      \/ eligible = {} /\ Ends(p, dropped, wakes, 0)
      \/ \E first \in Foremost(eligible) : Create(p, dropped, wakes, first)
  BY DEF Choose
<1> HIDE DEF wakes, paused, o
<1>6. /\ dropped \in [Shifts -> ShiftRow]
      /\ \A t \in Shifts : /\ Rests(shift[t], dropped[t])
                           /\ dropped[t].status # "running"
  <2>1. CASE paused = {}
    BY <1>3, <2>1
  <2>2. CASE paused # {}
    <3>1. o \in Shifts /\ table[o].status = "paused"
      BY <1>2, <2>2 DEF paused, PausedFor
    <3>2. [table[o] EXCEPT !.status = "expired"] \in ShiftRow
      BY <1>3, <3>1 DEF ShiftRow, Statuses, Ended
    <3>3. \A t \in Shifts :
            dropped[t] = IF t = o THEN [table[o] EXCEPT !.status = "expired"]
                           ELSE table[t]
      BY <2>2 DEF With
    <3>4. dropped \in [Shifts -> ShiftRow]
      BY <1>3, <2>2, <3>2 DEF With
    <3>5. Rests(shift[o], dropped[o]) /\ dropped[o].status # "running"
      BY <3>1, <3>2, <3>3 DEF Rests, ShiftRow
    <3>6. QED
      BY <1>3, <3>3, <3>4, <3>5
  <2>3. QED
    BY <2>1, <2>2
<1>7. CASE paused # {} /\ Ends(p, With(table, o, Taken(table[o], p)), wakes, o)
  <2>1. /\ o \in Shifts /\ table[o].status = "paused"
        /\ Takes(p, table[o].mode)
    BY <1>2, <1>7 DEF paused, PausedFor
  <2>2. Taken(table[o], p) \in ShiftRow
    BY <1>3, <2>1 DEF Taken, ShiftRow, Statuses, Ended
  <2>3. shift' = [t \in Shifts |-> IF t = o THEN Taken(table[o], p)
                                     ELSE table[t]]
    BY <1>7 DEF Ends, With
  <2>4. shift' \in [Shifts -> ShiftRow]
    BY <1>3, <2>2, <2>3
  <2>5. IsRun(p, shift[o], shift'[o])
    <3>1. table[o].mode = "live" => run[p].ready
      BY <1>4, <2>1 DEF Takes, LiveReady
    <3>2. shift[o].status \in {"running", "paused"}
      BY <2>1 DEF Rests
    <3>3. Taken(table[o], p).status = "running" /\ Taken(table[o], p).token = p
      BY <1>3, <2>1 DEF Taken, ShiftRow
    <3>4. /\ Taken(table[o], p).mode = table[o].mode
          /\ Taken(table[o], p).version = table[o].version
      BY <1>3, <2>1 DEF Taken, ShiftRow
    <3>5. shift[o].mode = table[o].mode /\ shift[o].version = table[o].version
      BY <2>1 DEF Rests
    <3>6. QED
      BY <2>1, <2>2, <2>3, <3>1, <3>2, <3>3, <3>4, <3>5 DEF IsRun
  <2>6. wake' = wakes
    BY <1>7 DEF Ends
  <2>7. \A t \in Shifts \ {o} : /\ Rests(shift[t], shift'[t])
                               /\ shift'[t].status # "running"
    BY <1>3, <2>3
  <2>8. shift[o].status # "none"
    BY <2>5, <2>1 DEF Rests
  <2>9. \A w \in Wake : Stays(w)
    BY <1>1, <2>6 DEF Stays
  <2>10. Outcome(p, o)
    BY <1>1, <1>7, <2>4, <2>5, <2>6, <2>7, <2>8, <2>9 DEF Outcome, Ends
  <2>11. QED
    BY <2>1, <2>10
<1>8. CASE Ends(p, dropped, wakes, 0)
  <2>1. shift' = dropped /\ wake' = wakes
    BY <1>8 DEF Ends
  <2>2. \A w \in Wake : Stays(w)
    BY <1>1, <2>1 DEF Stays
  <2>3. Outcome(p, 0)
    BY <1>1, <1>6, <1>8, <2>1, <2>2 DEF Outcome, Ends
  <2>4. QED
    BY <2>3
<1>9. CASE \E first \in Foremost(eligible) : Create(p, dropped, wakes, first)
  <2>1. PICK first \in Foremost(eligible) : Create(p, dropped, wakes, first)
    BY <1>9
  <2> DEFINE s == Cardinality({t \in Shifts : dropped[t].status # "none"}) + 1
             mode == Mode(first)
             agenda == {w \in Wake : /\ wakes[w].version = run[p].version
                                     /\ wakes[w].shift = 0
                                     /\ Mode(w) = mode}
             row == [status |-> "running", version |-> run[p].version,
                     mode |-> mode,
                     risk |-> \E w \in agenda : Priority(w) = 10,
                     token |-> p, leased |-> TRUE, attempts |-> 1]
             taken == [w \in Wake |-> IF w \in agenda
                         THEN [wakes[w] EXCEPT !.shift = s] ELSE wakes[w]]
  <2>2. Ends(p, With(dropped, s, row), taken, s)
    BY <2>1 DEF Create
  <2>3. /\ first \in Wake /\ wakes[first].version = run[p].version
        /\ wakes[first].shift = 0 /\ Takes(p, mode)
    BY DEF Foremost, Eligible
  <2> HIDE DEF dropped
  <2>4. s \in Shifts /\ IsNext(s)
    BY <1>1, <1>6, <2>3, NextRow
  <2> HIDE DEF s
  <2>5. row \in ShiftRow
    <3>1. mode \in Modes
      BY DEF Mode, Modes
    <3>2. 1 \in 0 .. MaxAttempts
      BY ShiftAssumption
    <3>3. run[p].version \in 0 .. MaxVersion
      BY <1>4 DEF RunRow
    <3> HIDE DEF mode
    <3>4. QED
      BY <3>1, <3>2, <3>3 DEF ShiftRow, Statuses
  <2>6. shift' = [t \in Shifts |-> IF t = s THEN row ELSE dropped[t]]
    BY <2>2 DEF Ends, With
  <2>7. wake' = taken
    BY <2>2 DEF Ends
  <2>8. mode = "live" => run[p].ready
    BY <1>4, <2>3 DEF Takes, LiveReady
  <2> HIDE DEF mode
  <2>9. /\ row.status = "running" /\ row.token = p /\ row.mode = mode
        /\ row.version = run[p].version
    OBVIOUS
  <2> HIDE DEF row, agenda
  <2>10. shift[s].status = "none"
    BY <2>4 DEF IsNext
  <2>11. IsRun(p, shift[s], shift'[s])
    BY <2>4, <2>5, <2>6, <2>8, <2>9, <2>10 DEF IsRun
  <2>12. shift' \in [Shifts -> ShiftRow]
    BY <1>6, <2>5, <2>6
  <2>13. \A t \in Shifts \ {s} : /\ Rests(shift[t], shift'[t])
                                /\ shift'[t].status # "running"
    BY <1>6, <2>6
  <2>14. wake' \in [Wake -> WakeRow]
    BY <1>1, <2>4, <2>7 DEF WakeRow
  <2>15. \A w \in Wake : Stays(w) \/ Joins(w, s)
    <3> SUFFICES ASSUME NEW w \in Wake
                 PROVE  Stays(w) \/ Joins(w, s)
      OBVIOUS
    <3>1. CASE w \in agenda
      <4>1. /\ wakes[w].version = run[p].version /\ wakes[w].shift = 0
            /\ Mode(w) = mode
        BY <3>1 DEF agenda
      <4>2. wake'[w] = [wakes[w] EXCEPT !.shift = s]
        BY <2>7, <3>1
      <4>3. wake'[w].shift = s /\ wake'[w].version = wakes[w].version
        BY <1>1, <4>2 DEF WakeRow
      <4>4. s # 0
        BY <2>4, ShiftsAreNumbers
      <4>5. shift'[s].version = run[p].version /\ shift'[s].mode = mode
        BY <2>4, <2>6, <2>9
      <4>6. QED
        BY <1>1, <2>10, <4>1, <4>3, <4>4, <4>5 DEF Joins
    <3>2. CASE w \notin agenda
      BY <1>1, <2>7, <3>2 DEF Stays
    <3>3. QED
      BY <3>1, <3>2
  <2>16. \E w \in Wake : wake'[w].shift = s
    <3>1. first \in agenda
      BY <2>3 DEF agenda, mode
    <3>2. wake'[first] = [wakes[first] EXCEPT !.shift = s]
      BY <2>3, <2>7, <3>1
    <3>3. wake'[first].shift = s
      BY <1>1, <2>3, <3>2 DEF WakeRow
    <3>4. QED
      BY <2>3, <3>3
  <2>17. Outcome(p, s)
    BY <2>2, <2>4, <2>11, <2>12, <2>13, <2>14, <2>15, <2>16 DEF Outcome, Ends
  <2>18. QED
    BY <2>4, <2>17
<1>10. QED
  BY <1>5, <1>7, <1>8, <1>9

\* The transaction leaves one shift to the worker, or none.
LEMMA ClaimOutcome ==
  ASSUME NEW p \in Worker, NEW a \in BOOLEAN, NEW b \in BOOLEAN,
         TypeOK, InOrder, HasItsWake, OneRunning, Claim(p, a, b)
  PROVE  \E s \in {0} \cup Shifts : Outcome(p, s)
<1> DEFINE table == Superseded(run[p].version)
           Rest(rows) == \E due \in DueReviews(p) :
             Choose(p, rows, Enqueue(wake, due, book.version), b)
<1>1. /\ table \in [Shifts -> ShiftRow]
      /\ \A t \in Shifts : /\ Rests(shift[t], table[t])
                           /\ table[t].status = "running" =>
                                shift[t].status = "running"
  <2> DEFINE gone(t) == [shift[t] EXCEPT !.status = "superseded",
                                          !.leased = FALSE]
             stale(t) == /\ shift[t].status = "running"
                         /\ shift[t].version # run[p].version
  <2>1. \A t \in Shifts : shift[t] \in ShiftRow
    BY TypesByName
  <2>2. table = [t \in Shifts |-> IF stale(t) THEN gone(t) ELSE shift[t]]
    BY DEF Superseded
  <2>3. ASSUME NEW t \in Shifts
        PROVE  /\ gone(t) \in ShiftRow
               /\ gone(t).status = "superseded" /\ ~gone(t).leased
               /\ gone(t).mode = shift[t].mode
               /\ gone(t).version = shift[t].version
               /\ gone(t).token = shift[t].token
    BY <2>1 DEF ShiftRow, Statuses, Ended
  <2> HIDE DEF table, gone
  <2>4. table \in [Shifts -> ShiftRow]
    BY <2>1, <2>2, <2>3
  <2>5. ASSUME NEW t \in Shifts
        PROVE  /\ Rests(shift[t], table[t])
               /\ table[t].status = "running" => shift[t].status = "running"
    <3>1. CASE stale(t)
      BY <2>2, <2>3, <3>1 DEF Rests
    <3>2. CASE ~stale(t)
      <4>1. table[t] = shift[t]
        BY <2>2, <3>2
      <4>2. QED
        BY <2>1, <4>1 DEF Rests
    <3>3. QED
      BY <3>1, <3>2
  <2>6. QED
    BY <2>4, <2>5
<1>2. \A s, t \in Current(table) : s = t
  BY <1>1 DEF Current, OneRunning
<1>3. ASSUME NEW rows \in [Shifts -> ShiftRow], Rest(rows),
             \A t \in Shifts : Rests(shift[t], rows[t]), Current(rows) = {}
      PROVE  \E s \in {0} \cup Shifts : Outcome(p, s)
  BY <1>3, ChoiceOutcome
<1>4. \/ \E s \in Current(table) :
           /\ table[s].leased
           /\ Ends(p, table, wake, 0)
      \/ \E s \in Current(table) :
           LET row == AfterCurrent(table[s], p, a)
               next == With(table, s, row)
           IN
           /\ ~table[s].leased
           /\ IF Current(next) # {} THEN Ends(p, next, wake, s) ELSE Rest(next)
      \/ Current(table) = {} /\ Rest(table)
  BY DEF Claim
<1> HIDE DEF table, Rest
<1>5. wake \in [Wake -> WakeRow] /\ \A w \in Wake : wake[w] \in WakeRow
  BY TypesByName
<1>6. CASE Ends(p, table, wake, 0)
  <2>1. \A w \in Wake : Stays(w)
    BY <1>6 DEF Ends, Stays
  <2>2. Outcome(p, 0)
    BY <1>1, <1>5, <1>6, <2>1 DEF Outcome, Ends
  <2>3. QED
    BY <2>2
<1>7. ASSUME NEW s \in Current(table), ~table[s].leased,
             NEW row, row = AfterCurrent(table[s], p, a),
             NEW next, next = With(table, s, row),
             IF Current(next) # {} THEN Ends(p, next, wake, s) ELSE Rest(next)
      PROVE  \E r \in {0} \cup Shifts : Outcome(p, r)
  <2>1. /\ s \in Shifts /\ table[s].status = "running"
        /\ table[s] \in ShiftRow /\ Rests(shift[s], table[s])
        /\ shift[s].status = "running"
    BY <1>1 DEF Current
  <2>2. next = [t \in Shifts |-> IF t = s THEN row ELSE table[t]]
    BY <1>7 DEF With
  <2>3. \A t \in Shifts \ {s} : table[t].status # "running"
    BY <1>2, <2>1 DEF Current
  <2>4. ASSUME Rests(shift[s], row), row.status # "running"
        PROVE  \E r \in {0} \cup Shifts : Outcome(p, r)
    <3>1. next \in [Shifts -> ShiftRow]
      BY <1>1, <2>2, <2>4 DEF Rests
    <3>2. \A t \in Shifts : Rests(shift[t], next[t])
      BY <1>1, <2>2, <2>4
    <3>3. Current(next) = {}
      BY <2>2, <2>3, <2>4 DEF Current
    <3>4. QED
      BY <1>3, <1>7, <3>1, <3>2, <3>3
  <2>5. CASE HandsOff(p, table[s])
    <3>1. row = [table[s] EXCEPT !.status = "paused", !.token = NoWorker]
      BY <1>7, <2>5 DEF AfterCurrent
    <3>2. Rests(shift[s], row) /\ row.status # "running"
      BY <2>1, <3>1 DEF Rests, ShiftRow, Statuses, Ended
    <3>3. QED
      BY <2>4, <3>2
  <2>6. CASE ~HandsOff(p, table[s]) /\ WornOut(table[s], a)
    <3>1. row = [table[s] EXCEPT !.status = "expired", !.token = NoWorker]
      BY <1>7, <2>6 DEF AfterCurrent
    <3>2. Rests(shift[s], row) /\ row.status # "running"
      BY <2>1, <3>1 DEF Rests, ShiftRow, Statuses, Ended
    <3>3. QED
      BY <2>4, <3>2
  <2>7. CASE ~HandsOff(p, table[s]) /\ ~WornOut(table[s], a)
    <3>1. row = [Taken(table[s], p) EXCEPT
                   !.attempts = Attempted(table[s].attempts)]
      BY <1>7, <2>7 DEF AfterCurrent
    <3>2. Attempted(table[s].attempts) \in 0 .. MaxAttempts
      BY <2>1, <2>7, ShiftAssumption DEF WornOut, Attempted, ShiftRow
    <3>3. Taken(table[s], p) \in ShiftRow
      BY <2>1 DEF Taken, ShiftRow, Statuses, Ended
    <3>4. /\ Taken(table[s], p).status = "running"
          /\ Taken(table[s], p).token = p
          /\ Taken(table[s], p).mode = table[s].mode
          /\ Taken(table[s], p).version = table[s].version
      BY <2>1 DEF Taken, ShiftRow
    <3>5. /\ row \in ShiftRow /\ row.status = "running" /\ row.token = p
          /\ row.mode = table[s].mode /\ row.version = table[s].version
      BY <3>1, <3>2, <3>3, <3>4 DEF ShiftRow
    <3>6. table[s].mode = "live" => run[p].ready
      <4>1. run[p] \in RunRow
        BY TypesByName
      <4>2. QED
        BY <1>7, <2>1, <2>7, <4>1 DEF HandsOff, LiveReady, RunRow, ShiftRow
    <3>7. IsRun(p, shift[s], row)
      BY <2>1, <3>5, <3>6 DEF IsRun, Rests
    <3>8. Current(next) # {}
      BY <2>1, <2>2, <3>5 DEF Current
    <3>9. Ends(p, next, wake, s)
      BY <1>7, <3>8
    <3>10. shift' = next /\ wake' = wake
      BY <3>9 DEF Ends
    <3>11. shift' \in [Shifts -> ShiftRow] /\ shift'[s] = row
      BY <1>1, <2>1, <2>2, <3>5, <3>10
    <3>12. \A t \in Shifts \ {s} : /\ Rests(shift[t], shift'[t])
                                  /\ shift'[t].status # "running"
      BY <1>1, <2>2, <2>3, <3>10
    <3>13. \A w \in Wake : Stays(w)
      BY <3>10 DEF Stays
    <3>14. Outcome(p, s)
      BY <1>5, <2>1, <3>7, <3>9, <3>10, <3>11, <3>12, <3>13
      DEF Outcome, Ends
    <3>15. QED
      BY <2>1, <3>14
  <2>8. QED
    BY <2>5, <2>6, <2>7
<1>8. CASE Current(table) = {} /\ Rest(table)
  BY <1>1, <1>3, <1>8
<1>9. QED
  BY <1>4, <1>6, <1>7, <1>8

-----------------------------------------------------------------------------
(* What keeps the parts of the invariant *)

LEMMA TypesNext ==
  ASSUME book' \in BookRow, wake' \in [Wake -> WakeRow],
         shift' \in [Shifts -> ShiftRow], dispatched' \subseteq Shifts,
         pc' \in [Worker -> Places], run' \in [Worker -> RunRow],
         posts' \in [Shifts -> Nat]
  PROVE  TypeOK'
  BY DEF TypeOK, BookRow, WakeRow, ShiftRow, Places, RunRow

LEMMA UnreadTyped == Unread \in RunRow /\ Unread.shift = 0 /\ ~Unread.trades
                     /\ ~Unread.posted
<1>1. 0 \in 0 .. MaxVersion
  BY ShiftAssumption
<1>2. QED
  BY <1>1 DEF Unread, RunRow

\* A step that writes no new row of a shift and starts none.
Kept(s) ==
  /\ shift'[s].status = "none" <=> shift[s].status = "none"
  /\ shift'[s].status = "running" => shift[s].status = "running"
  /\ shift'[s].mode = shift[s].mode /\ shift'[s].version = shift[s].version
  /\ shift'[s].leased => shift[s].status # "none"

\* A wake may join a shift of its mode and version.
Taking(w) ==
  LET s == wake'[w].shift IN
  /\ s \in Shifts /\ shift[s].status # "none" /\ wake[w].shift = 0
  /\ shift[s].mode = Mode(w) /\ shift[s].version = wake'[w].version

LEMMA TablesKept ==
  ASSUME IInv, \A s \in Shifts : Kept(s),
         \A w \in Wake : Stays(w) \/ Taking(w),
         \A s \in Shifts : s \in dispatched' \/ posts'[s] # 0 =>
                             shift[s].status # "none",
         \A p \in Worker : run'[p].shift \in Shifts =>
                             shift[run'[p].shift].status # "none"
  PROVE  /\ InOrder' /\ HasItsWake' /\ UnwrittenUnused'
         /\ OneRunning' /\ AgendaOfOneMode'
<1>1. InOrder'
  BY DEF IInv, InOrder, Kept
<1>2. HasItsWake'
  <2> SUFFICES ASSUME NEW s \in Shifts, shift'[s].status # "none"
               PROVE  \E w \in Wake : wake'[w].shift = s
    BY DEF HasItsWake
  <2>1. PICK w \in Wake : wake[w].shift = s
    BY DEF Kept, IInv, HasItsWake
  <2>2. Stays(w)
    BY <2>1, ShiftsAreNumbers DEF Taking
  <2>3. QED
    BY <2>1, <2>2 DEF Stays
<1>3. UnwrittenUnused'
  <2> SUFFICES ASSUME NEW s \in Shifts, shift'[s].status = "none"
               PROVE  /\ s \notin dispatched' /\ posts'[s] = 0
                      /\ ~shift'[s].leased
                      /\ \A w \in Wake : wake'[w].shift # s
                      /\ \A p \in Worker : run'[p].shift # s
    BY DEF UnwrittenUnused
  <2>1. shift[s].status = "none"
    BY DEF Kept
  <2>2. \A w \in Wake : wake[w].shift # s
    BY <2>1 DEF IInv, UnwrittenUnused
  <2>3. \A w \in Wake : wake'[w].shift # s
    BY <2>1, <2>2 DEF Stays, Taking
  <2>4. QED
    BY <2>1, <2>3 DEF Kept
<1>4. OneRunning'
  BY DEF IInv, OneRunning, Kept
<1>5. AgendaOfOneMode'
  <2> SUFFICES ASSUME NEW w \in Wake, wake'[w].shift # 0
               PROVE  /\ shift'[wake'[w].shift].mode = Mode(w)
                      /\ shift'[wake'[w].shift].version = wake'[w].version
    BY DEF AgendaOfOneMode
  <2>1. wake[w] \in WakeRow
    BY TypesByName DEF IInv
  <2>2. CASE Stays(w)
    BY <2>1, <2>2 DEF Stays, IInv, AgendaOfOneMode, Kept, WakeRow
  <2>3. CASE Taking(w)
    BY <2>3 DEF Taking, Kept
  <2>4. QED
    BY <2>2, <2>3
<1>6. QED
  BY <1>1, <1>2, <1>3, <1>4, <1>5

\* A step that gives nobody the right to send.
Unsent(p, s) ==
  /\ Sends(p, s)' => Sends(p, s)
  /\ run'[p].trades /\ run'[p].shift = s /\ shift'[s].token = p =>
       /\ run[p].trades /\ run[p].shift = s /\ shift[s].token = p
       /\ run'[p].posted = run[p].posted

LEMMA SendsKept ==
  ASSUME NEW s \in Shifts, OneSends(s), posts' = posts,
         dispatched \subseteq dispatched',
         \A p \in Worker : Unsent(p, s)
  PROVE  OneSends(s)'
<1>1. /\ posts'[s] <= 1
      /\ posts'[s] > 0 => s \in dispatched'
  BY DEF OneSends
<1>2. \A p, q \in Worker : Sends(p, s)' /\ Sends(q, s)' => p = q
  BY DEF OneSends, Unsent
<1>3. ASSUME NEW p \in Worker,
             run'[p].trades /\ run'[p].shift = s /\ shift'[s].token = p
      PROVE  /\ posts'[s] > 0 => run'[p].posted
             /\ \A q \in Worker : Sends(q, s)' => q = p
  <2>1. /\ run[p].trades /\ run[p].shift = s /\ shift[s].token = p
        /\ run'[p].posted = run[p].posted
    BY <1>3 DEF Unsent
  <2>2. /\ posts[s] > 0 => run[p].posted
        /\ \A q \in Worker : Sends(q, s) => q = p
    BY <2>1 DEF OneSends
  <2>3. QED
    BY <2>1, <2>2 DEF Unsent
<1>4. QED
  BY <1>1, <1>2, <1>3 DEF OneSends

\* A run that the step leaves alone.
LEMMA RunKept ==
  ASSUME NEW p \in Worker, RunInv(p), pc'[p] = pc[p], run'[p] = run[p],
         dispatched \subseteq dispatched',
         posts' = posts
  PROVE  RunInv(p)'
  BY DEF RunInv, OnShift

\* A run that is over.
LEMMA RunOver ==
  ASSUME NEW p \in Worker, pc'[p] \in {"idle", "dead", "polled"},
         run'[p].shift = 0, ~run'[p].trades, ~run'[p].posted
  PROVE  RunInv(p)'
  BY DEF RunInv, OnShift, Off

LEMMA Written ==
  ASSUME IInv
  PROVE  /\ \A s \in Shifts : s \in dispatched \/ posts[s] # 0 =>
              shift[s].status # "none"
         /\ \A p \in Worker : run[p].shift \in Shifts =>
              shift[run[p].shift].status # "none"
         /\ \A s \in Shifts : shift[s].leased => shift[s].status # "none"
         /\ \A w \in Wake : wake[w].shift # 0 =>
              shift[wake[w].shift].status # "none"
<1>1. \A w \in Wake : wake[w].shift \in {0} \cup Shifts
  BY TypesByName DEF IInv, WakeRow
<1>2. QED
  BY <1>1 DEF IInv, UnwrittenUnused

-----------------------------------------------------------------------------
(* The inductive invariant holds *)

LEMMA InitIInv == Init => IInv
<1> SUFFICES ASSUME Init
             PROVE  IInv
  OBVIOUS
<1>1. TypeOK
  <2>1. /\ 1 \in 1 .. MaxVersion /\ 0 \in 0 .. MaxVersion
        /\ 0 \in 0 .. MaxAttempts
    BY ShiftAssumption
  <2>2. book \in BookRow
    BY <2>1 DEF Init, BookRow
  <2>3. wake \in [Wake -> WakeRow]
    BY <2>1 DEF Init, WakeRow, NotQueued
  <2>4. shift \in [Shifts -> ShiftRow]
    BY <2>1 DEF Init, ShiftRow, NoShift, Statuses, Modes
  <2>5. run \in [Worker -> RunRow]
    BY UnreadTyped DEF Init
  <2>6. pc \in [Worker -> Places]
    BY DEF Init, Places, Off
  <2>7. dispatched \subseteq Shifts /\ posts \in [Shifts -> Nat]
    BY DEF Init
  <2>8. QED
    BY <2>2, <2>3, <2>4, <2>5, <2>6, <2>7, TypesByName
<1>2. \A s \in Shifts : shift[s] = NoShift /\ posts[s] = 0
  BY DEF Init
<1>3. \A w \in Wake : wake[w].shift = 0
  BY DEF Init, NotQueued
<1>4. \A p \in Worker : pc[p] = "idle" /\ run[p].shift = 0
                        /\ ~run[p].trades /\ ~run[p].posted
  BY UnreadTyped DEF Init
<1>5. InOrder
  <2>1. 0 \in 0 .. Cardinality(Wake)
    BY WakesFinite
  <2>2. \A s \in Shifts : ~ (s <= 0)
    BY ShiftsAreNumbers
  <2>3. QED
    BY <1>2, <2>1, <2>2 DEF InOrder, NoShift
<1>6. HasItsWake /\ OneRunning
  BY <1>2 DEF HasItsWake, OneRunning, NoShift
<1>7. UnwrittenUnused
  <2>1. \A s \in Shifts : s # 0
    BY ShiftsAreNumbers
  <2>2. dispatched = {}
    BY DEF Init
  <2>3. QED
    BY <1>2, <1>3, <1>4, <2>1, <2>2 DEF UnwrittenUnused, NoShift
<1>8. \A p \in Worker : RunInv(p)
  BY <1>4 DEF RunInv, OnShift, Off
<1>9. \A s \in Shifts : OneSends(s)
  BY <1>2, <1>4 DEF OneSends, Sends
<1>10. AgendaOfOneMode
  BY <1>3 DEF AgendaOfOneMode
<1>11. QED
  BY <1>1, <1>5, <1>6, <1>7, <1>8, <1>9, <1>10 DEF IInv

\* A step that changes only tables, and gives no shift a token, keeps the
\* runs.
LEMMA RunsKept ==
  ASSUME IInv, UNCHANGED <<dispatched, pc, run, posts>>,
         \A s \in Shifts : shift'[s].token \in {shift[s].token, NoWorker}
  PROVE  /\ \A p \in Worker : RunInv(p)'
         /\ \A s \in Shifts : OneSends(s)'
<1>1. \A p \in Worker : RunInv(p)'
  BY RunKept DEF IInv
<1>2. \A s \in Shifts : OneSends(s)'
  <2>1. \A p \in Worker, s \in Shifts : Unsent(p, s)
    BY ShiftAssumption DEF Unsent, Sends
  <2>2. QED
    BY <2>1, SendsKept DEF IInv
<1>3. QED
  BY <1>1, <1>2

LEMMA ChangeKeeps ==
  ASSUME IInv, NEW enabled \in BOOLEAN, UpdateBook(enabled)
  PROVE  IInv'
<1>1. TypeOK'
  <2>1. book' \in BookRow
    BY TypesByName, ShiftAssumption DEF IInv, UpdateBook, BookRow
  <2>2. QED
    BY <2>1, TypesByName, TypesNext DEF IInv, UpdateBook
<1>2. \A s \in Shifts : Kept(s)
  BY Written DEF UpdateBook, Kept
<1>3. \A w \in Wake : Stays(w)
  BY DEF UpdateBook, Stays
<1>4. InOrder' /\ HasItsWake' /\ UnwrittenUnused' /\ OneRunning'
      /\ AgendaOfOneMode'
  BY <1>2, <1>3, Written, TablesKept DEF UpdateBook
<1>5. (\A p \in Worker : RunInv(p)') /\ (\A s \in Shifts : OneSends(s)')
  BY RunsKept DEF UpdateBook
<1>6. QED
  BY <1>1, <1>4, <1>5 DEF IInv

LEMMA ArrivalKeeps ==
  ASSUME IInv, NEW w \in Urgent \cup Chat, Arrive(w)
  PROVE  IInv'
<1>1. wake' \in [Wake -> WakeRow] /\ \A v \in Wake : Stays(v)
  BY Enqueued DEF IInv, Arrive, Stays, NotQueued
<1>2. TypeOK'
  BY <1>1, TypesByName, TypesNext DEF IInv, Arrive
<1>3. \A s \in Shifts : Kept(s)
  BY Written DEF Arrive, Kept
<1>4. InOrder' /\ HasItsWake' /\ UnwrittenUnused' /\ OneRunning'
      /\ AgendaOfOneMode'
  BY <1>1, <1>3, Written, TablesKept DEF Arrive
<1>5. (\A p \in Worker : RunInv(p)') /\ (\A s \in Shifts : OneSends(s)')
  BY RunsKept DEF Arrive
<1>6. QED
  BY <1>2, <1>4, <1>5 DEF IInv

LEMMA ExpiryKeeps ==
  ASSUME IInv, NEW s \in Shifts, Expire(s)
  PROVE  IInv'
<1>1. \A t \in Shifts : shift[t] \in ShiftRow
  BY TypesByName DEF IInv
<1>2. \A t \in Shifts : shift'[t] = IF t = s
        THEN [shift[t] EXCEPT !.leased = FALSE] ELSE shift[t]
  BY TypesByName DEF IInv, Expire
<1>3. [shift[s] EXCEPT !.leased = FALSE] \in ShiftRow
  BY <1>1 DEF ShiftRow
<1>4. shift' \in [Shifts -> ShiftRow]
  BY <1>3, TypesByName DEF IInv, Expire
<1>5. TypeOK'
  BY <1>4, TypesByName, TypesNext DEF IInv, Expire
<1>6. \A t \in Shifts : Kept(t) /\ shift'[t].token = shift[t].token
  BY <1>1, <1>2, Written DEF Kept, ShiftRow
<1>7. \A w \in Wake : Stays(w)
  BY DEF Expire, Stays
<1>8. InOrder' /\ HasItsWake' /\ UnwrittenUnused' /\ OneRunning'
      /\ AgendaOfOneMode'
  BY <1>6, <1>7, Written, TablesKept DEF Expire
<1>9. (\A p \in Worker : RunInv(p)') /\ (\A t \in Shifts : OneSends(t)')
  BY <1>6, RunsKept DEF Expire
<1>10. QED
  BY <1>5, <1>8, <1>9 DEF IInv

LEMMA PollKeeps ==
  ASSUME IInv, NEW p \in Worker, NEW ready \in BOOLEAN, Poll(p, ready)
  PROVE  IInv'
<1>1. wake' \in [Wake -> WakeRow] /\ \A w \in Wake : Stays(w)
  <2>1. wake \in [Wake -> WakeRow]
    BY TypesByName DEF IInv
  <2>2. CASE wake' = wake
    BY <2>1, <2>2 DEF Stays
  <2>3. CASE wake' # wake
    <3>1. wake' = Enqueue(wake, {Outage(w) : w \in UrgentQueued}, book.version)
      BY <2>3, Zenon DEF Poll
    <3>2. QED
      BY <3>1, Enqueued DEF IInv, Stays, NotQueued
  <2>4. QED
    BY <2>2, <2>3
<1> DEFINE reading == [Unread EXCEPT !.version = book.version,
                                     !.enabled = book.enabled,
                                     !.ready = ready]
<1>2. reading \in RunRow /\ reading.shift = 0 /\ ~reading.trades
      /\ ~reading.posted
  <2>1. book.version \in 0 .. MaxVersion /\ book.enabled \in BOOLEAN
    BY TypesByName, ShiftAssumption DEF IInv, BookRow
  <2>2. QED
    BY <2>1 DEF Unread, RunRow
<1>3. run' = [run EXCEPT ![p] = reading] /\ pc' = [pc EXCEPT ![p] = "polled"]
  BY DEF Poll
<1> HIDE DEF reading
<1>4. run' \in [Worker -> RunRow] /\ pc' \in [Worker -> Places]
  BY <1>2, <1>3, TypesByName DEF IInv, Places
<1>5. \A q \in Worker : run'[q] = IF q = p THEN reading ELSE run[q]
  BY <1>3, TypesByName DEF IInv
<1>6. \A q \in Worker : pc'[q] = IF q = p THEN "polled" ELSE pc[q]
  BY <1>3, TypesByName DEF IInv
<1>7. UNCHANGED <<book, shift, dispatched, posts>>
  BY DEF Poll
<1>8. TypeOK'
  BY <1>1, <1>4, <1>7, TypesByName, TypesNext DEF IInv
<1>9. \A s \in Shifts : Kept(s)
  BY <1>7, Written DEF Kept
<1>10. \A q \in Worker : run'[q].shift \in Shifts =>
         shift[run'[q].shift].status # "none"
  BY <1>2, <1>5, Written, ShiftsAreNumbers
<1>11. InOrder' /\ HasItsWake' /\ UnwrittenUnused' /\ OneRunning'
       /\ AgendaOfOneMode'
  BY <1>1, <1>7, <1>9, <1>10, Written, TablesKept
<1>12. \A q \in Worker : RunInv(q)'
  BY <1>2, <1>5, <1>6, <1>7, RunKept, RunOver DEF IInv
<1>13. \A s \in Shifts : OneSends(s)'
  <2>1. \A q \in Worker, s \in Shifts : Unsent(q, s)
    BY <1>2, <1>5, <1>6, <1>7 DEF Unsent, Sends
  <2>2. QED
    BY <1>7, <2>1, SendsKept DEF IInv
<1>14. QED
  BY <1>8, <1>11, <1>12, <1>13 DEF IInv

LEMMA ClaimKeeps ==
  ASSUME IInv, NEW p \in Worker, NEW a \in BOOLEAN, NEW b \in BOOLEAN,
         Claim(p, a, b)
  PROVE  IInv'
<1>1. PICK s \in {0} \cup Shifts : Outcome(p, s)
  BY ClaimOutcome DEF IInv
<1> DEFINE begun == IF s = 0 THEN Unread ELSE [Unread EXCEPT !.shift = s]
<1>2. begun \in RunRow /\ begun.shift = s /\ ~begun.trades /\ ~begun.posted
  BY UnreadTyped DEF Unread, RunRow
<1>3. /\ run' = [run EXCEPT ![p] = begun]
      /\ pc' = [pc EXCEPT ![p] = IF s = 0 THEN "idle" ELSE "claimed"]
  BY <1>1 DEF Outcome
<1> HIDE DEF begun
<1>4. run' \in [Worker -> RunRow] /\ pc' \in [Worker -> Places]
  BY <1>2, <1>3, TypesByName DEF IInv, Places, Off
<1>5. \A q \in Worker : run'[q] = IF q = p THEN begun ELSE run[q]
  BY <1>3, TypesByName DEF IInv
<1>6. \A q \in Worker : pc'[q] = IF q = p
        THEN IF s = 0 THEN "idle" ELSE "claimed" ELSE pc[q]
  BY <1>3, TypesByName DEF IInv
<1>7. /\ UNCHANGED <<book, dispatched, posts>>
      /\ shift' \in [Shifts -> ShiftRow]
      /\ wake' \in [Wake -> WakeRow]
  BY <1>1 DEF Outcome
<1>8. \A t \in Shifts \ {s} : Rests(shift[t], shift'[t])
  BY <1>1 DEF Outcome
<1>9. \A w \in Wake : Stays(w) \/ Joins(w, s)
  BY <1>1 DEF Outcome
<1>10. s # 0 =>
         /\ s \in Shifts
         /\ IsRun(p, shift[s], shift'[s])
         /\ \A t \in Shifts \ {s} : shift'[t].status # "running"
         /\ shift[s].status = "none" =>
              IsNext(s) /\ \E w \in Wake : wake'[w].shift = s
  BY <1>1 DEF Outcome
<1>11. TypeOK'
  BY <1>4, <1>7, TypesByName, TypesNext DEF IInv
<1>12. \A t \in Shifts \ {s} :
         shift'[t].status # "none" <=> shift[t].status # "none"
  BY <1>8 DEF Rests
<1>13. s # 0 => shift'[s].status = "running"
  BY <1>10 DEF IsRun
<1>14. InOrder'
  <2>1. CASE s = 0 \/ shift[s].status # "none"
    <3>1. \A t \in Shifts :
            shift'[t].status # "none" <=> shift[t].status # "none"
      BY <1>12, <1>13, <2>1, ShiftsAreNumbers
    <3>2. QED
      BY <3>1 DEF IInv, InOrder
  <2>2. CASE s # 0 /\ shift[s].status = "none"
    <3>1. IsNext(s) /\ s \in Shifts
      BY <1>10, <2>2
    <3>2. \A t \in Shifts : shift'[t].status # "none" <=> t < s \/ t = s
      BY <1>12, <1>13, <2>2, <3>1 DEF IsNext
    <3>3. \A t \in Shifts : t <= s <=> t < s \/ t = s
      BY <3>1, ShiftsAreNumbers
    <3>4. s \in 0 .. Cardinality(Wake)
      BY <3>1, WakesFinite DEF Shifts
    <3>5. QED
      BY <3>2, <3>3, <3>4 DEF InOrder
  <2>3. QED
    BY <2>1, <2>2
<1>15. HasItsWake'
  <2> SUFFICES ASSUME NEW t \in Shifts, shift'[t].status # "none"
               PROVE  \E w \in Wake : wake'[w].shift = t
    BY DEF HasItsWake
  <2>1. CASE t = s /\ shift[s].status = "none"
    BY <1>10, <2>1, ShiftsAreNumbers
  <2>2. CASE ~ (t = s /\ shift[s].status = "none")
    <3>1. shift[t].status # "none"
      BY <1>12, <2>2
    <3>2. PICK w \in Wake : wake[w].shift = t
      BY <3>1 DEF IInv, HasItsWake
    <3>3. Stays(w)
      BY <1>9, <3>2, ShiftsAreNumbers DEF Joins
    <3>4. QED
      BY <3>2, <3>3 DEF Stays
  <2>3. QED
    BY <2>1, <2>2
<1>16. UnwrittenUnused'
  <2> SUFFICES ASSUME NEW t \in Shifts, shift'[t].status = "none"
               PROVE  /\ t \notin dispatched' /\ posts'[t] = 0
                      /\ ~shift'[t].leased
                      /\ \A w \in Wake : wake'[w].shift # t
                      /\ \A q \in Worker : run'[q].shift # t
    BY DEF UnwrittenUnused
  <2>1. t # s /\ t # 0
    BY <1>13, ShiftsAreNumbers
  <2>2. shift[t].status = "none" /\ Rests(shift[t], shift'[t])
    BY <1>8, <1>12, <2>1
  <2>3. /\ t \notin dispatched /\ posts[t] = 0 /\ ~shift[t].leased
        /\ \A w \in Wake : wake[w].shift # t
        /\ \A q \in Worker : run[q].shift # t
    BY <2>2 DEF IInv, UnwrittenUnused
  <2>4. \A w \in Wake : wake'[w].shift # t
    BY <1>9, <2>1, <2>3 DEF Stays, Joins
  <2>5. \A q \in Worker : run'[q].shift # t
    BY <1>2, <1>5, <2>1, <2>3
  <2>6. QED
    BY <1>7, <2>2, <2>3, <2>4, <2>5 DEF Rests
<1>17. OneRunning'
  <2>1. CASE s = 0
    <3>1. \A t \in Shifts : shift'[t].status = "running" =>
            shift[t].status = "running"
      BY <1>8, <2>1, ShiftsAreNumbers DEF Rests
    <3>2. QED
      BY <3>1 DEF IInv, OneRunning
  <2>2. CASE s # 0
    BY <1>10, <2>2 DEF OneRunning
  <2>3. QED
    BY <2>1, <2>2
<1>18. AgendaOfOneMode'
  <2> SUFFICES ASSUME NEW w \in Wake, wake'[w].shift # 0
               PROVE  /\ shift'[wake'[w].shift].mode = Mode(w)
                      /\ shift'[wake'[w].shift].version = wake'[w].version
    BY DEF AgendaOfOneMode
  <2>1. CASE Joins(w, s)
    BY <2>1 DEF Joins
  <2>2. CASE Stays(w)
    <3>1. wake[w] \in WakeRow
      BY TypesByName DEF IInv
    <3>2. /\ wake[w].shift \in Shifts /\ wake'[w] = wake[w]
      BY <2>2, <3>1 DEF Stays, WakeRow
    <3>3. /\ shift[wake[w].shift].mode = Mode(w)
          /\ shift[wake[w].shift].version = wake[w].version
          /\ shift[wake[w].shift].status # "none"
      BY <3>2, Written, ShiftsAreNumbers DEF IInv, AgendaOfOneMode
    <3>4. CASE wake[w].shift = s
      BY <1>10, <3>2, <3>3, <3>4, ShiftsAreNumbers DEF IsRun
    <3>5. CASE wake[w].shift # s
      BY <1>8, <3>2, <3>3, <3>5 DEF Rests
    <3>6. QED
      BY <3>4, <3>5
  <2>3. QED
    BY <1>9, <2>1, <2>2
<1>19. \A q \in Worker : RunInv(q)'
  <2>1. RunInv(p)'
    <3>1. CASE s = 0
      BY <1>2, <1>5, <1>6, <3>1, RunOver
    <3>2. CASE s # 0
      <4>1. pc'[p] = "claimed" /\ run'[p] = begun /\ s \in Shifts
        BY <1>5, <1>6, <3>2
      <4>2. QED
        BY <1>2, <4>1 DEF RunInv, OnShift, Off
    <3>3. QED
      BY <3>1, <3>2
  <2>2. QED
    BY <1>5, <1>6, <1>7, <2>1, RunKept DEF IInv
<1>20. \A t \in Shifts : OneSends(t)'
  <2>1. ASSUME NEW q \in Worker, NEW t \in Shifts
        PROVE  Unsent(q, t)
    <3>1. Sends(q, t)' => Sends(q, t)
      BY <1>5, <1>6 DEF Sends
    <3>2. ASSUME run'[q].trades, shift'[t].token = q
          PROVE  run'[q] = run[q] /\ shift[t].token = q
      <4>1. q # p
        BY <1>2, <1>5, <3>2
      <4>2. t # s
        BY <1>10, <3>2, <4>1, ShiftsAreNumbers DEF IsRun
      <4>3. QED
        BY <1>5, <1>8, <3>2, <4>1, <4>2, ShiftAssumption DEF Rests
    <3>3. QED
      BY <3>1, <3>2 DEF Unsent
  <2>2. QED
    BY <1>7, <2>1, SendsKept DEF IInv
<1>21. QED
  BY <1>11, <1>14, <1>15, <1>16, <1>17, <1>18, <1>19, <1>20 DEF IInv

\* A step of a run on its shift: what it does to the tables.
LEMMA TablesOfRun ==
  ASSUME IInv, UNCHANGED <<wake, shift>>,
         \A s \in Shifts : s \in dispatched' \/ posts'[s] # 0 =>
                             shift[s].status # "none",
         \A q \in Worker : run'[q].shift = run[q].shift
  PROVE  /\ InOrder' /\ HasItsWake' /\ UnwrittenUnused'
         /\ OneRunning' /\ AgendaOfOneMode'
<1>1. \A s \in Shifts : Kept(s)
  BY Written DEF Kept
<1>2. \A w \in Wake : Stays(w)
  BY DEF Stays
<1>3. QED
  BY <1>1, <1>2, Written, TablesKept

\* A run that is on a shift has one that was written.
LEMMA OnItsShift ==
  ASSUME IInv, NEW p \in Worker, OnShift(p)
  PROVE  run[p].shift \in Shifts /\ shift[run[p].shift].status # "none"
  BY Written DEF IInv, RunInv

LEMMA BeginKeeps ==
  ASSUME IInv, NEW p \in Worker, Begin(p)
  PROVE  IInv'
<1> DEFINE s == run[p].shift
           tools == Mine(p).mode = "live" /\ NeverDispatched(s)
<1>1. run[p] \in RunRow /\ ~run[p].trades /\ ~run[p].posted
      /\ s \in Shifts
  <2>1. RunInv(p) /\ pc[p] = "claimed"
    BY DEF IInv, Begin
  <2>2. run[p] \in RunRow
    BY TypesByName DEF IInv
  <2>3. QED
    BY <2>1, <2>2 DEF RunInv, OnShift, Off, RunRow
<1>2. \A q \in Worker :
        run'[q] = IF q = p THEN [run[p] EXCEPT !.trades = tools] ELSE run[q]
  BY TypesByName DEF IInv, Begin
<1>3. \A q \in Worker : pc'[q] = IF q = p THEN "working" ELSE pc[q]
  BY TypesByName DEF IInv, Begin
<1>4. UNCHANGED <<book, wake, shift, dispatched, posts>>
  BY DEF Begin
<1>5. tools \in BOOLEAN /\ (tools => s \notin dispatched)
  BY DEF NeverDispatched
<1> HIDE DEF tools
<1>6. LET r == run'[p]
      IN  r \in RunRow /\ r.shift = s /\ r.trades = tools /\ ~r.posted
  BY <1>1, <1>2, <1>5 DEF RunRow
<1>7. TypeOK'
  <2>1. run' \in [Worker -> RunRow]
    BY <1>1, <1>2, <1>6, TypesByName DEF IInv, Begin
  <2>2. pc' \in [Worker -> Places]
    BY TypesByName DEF IInv, Begin, Places
  <2>3. QED
    BY <1>4, <2>1, <2>2, TypesByName, TypesNext DEF IInv
<1>8. \A q \in Worker : run'[q].shift = run[q].shift
  BY <1>2, <1>6
<1>9. InOrder' /\ HasItsWake' /\ UnwrittenUnused' /\ OneRunning'
      /\ AgendaOfOneMode'
  BY <1>4, <1>8, Written, TablesOfRun
<1>10. \A q \in Worker : RunInv(q)'
  <2>1. RunInv(p)'
    BY <1>1, <1>3, <1>6 DEF RunInv, OnShift, Off
  <2>2. QED
    BY <1>2, <1>3, <1>4, <2>1, RunKept DEF IInv
<1>11. ASSUME NEW t \in Shifts
       PROVE  OneSends(t)'
  <2>1. CASE tools /\ t = s
    <3>1. posts[t] = 0 /\ \A q \in Worker : ~Sends(q, t)
      <4>1. t \notin dispatched
        BY <1>5, <2>1
      <4>2. posts[t] \in Nat /\ (posts[t] > 0 => t \in dispatched)
        BY TypesByName DEF IInv, OneSends
      <4>3. \A q \in Worker : Sends(q, t) => t \in dispatched
        BY DEF IInv, RunInv, Sends
      <4>4. QED
        BY <4>1, <4>2, <4>3
    <3>2. \A q \in Worker : ~Sends(q, t)'
      BY <1>3, <1>8, <3>1 DEF Sends
    <3>3. QED
      BY <1>4, <3>1, <3>2 DEF OneSends
  <2>2. CASE ~ (tools /\ t = s)
    <3>1. ASSUME NEW q \in Worker
          PROVE  Unsent(q, t)
      <4>1. Sends(q, t)' => Sends(q, t)
        BY <1>3, <1>8 DEF Sends
      <4>2. q = p => ~ (run'[q].trades /\ run'[q].shift = t)
        BY <1>6, <2>2
      <4>3. q # p => run'[q] = run[q]
        BY <1>2
      <4>4. shift' = shift
        BY <1>4
      <4>5. QED
        BY <4>1, <4>2, <4>3, <4>4 DEF Unsent
    <3>2. QED
      BY <1>4, <3>1, SendsKept DEF IInv
  <2>3. QED
    BY <2>1, <2>2
<1>12. QED
  BY <1>7, <1>9, <1>10, <1>11 DEF IInv

\* The steps that only move a run on, and not to where it may send.
LEMMA CallKeeps ==
  ASSUME IInv, NEW p \in Worker, CallTool(p) \/ Record(p)
  PROVE  IInv'
<1> DEFINE s == run[p].shift
           place == IF pc[p] = "working" THEN "authorized" ELSE "recorded"
<1>1. /\ s \in Shifts /\ shift[s].status # "none" /\ run[p].trades
      /\ pc[p] \in {"working", "authorized"} /\ RunInv(p)
  <2>1. RunInv(p) /\ pc[p] \in {"working", "authorized"}
    BY DEF IInv, CallTool, Record
  <2>2. run[p].trades
    BY <2>1 DEF RunInv, CallTool, Record
  <2>3. OnShift(p)
    BY <2>1 DEF OnShift, Off
  <2>4. QED
    BY <2>1, <2>2, <2>3, OnItsShift
<1>2. \A q \in Worker : pc'[q] = IF q = p THEN place ELSE pc[q]
  BY TypesByName DEF IInv, CallTool, Record
<1>3. UNCHANGED <<book, wake, shift, run, posts>>
  BY DEF CallTool, Record
<1>4. /\ dispatched \subseteq dispatched'
      /\ dispatched' \subseteq dispatched \cup {s}
      /\ place = "recorded" => s \in dispatched'
  BY <1>1 DEF CallTool, Record
<1>5. TypeOK'
  <2>1. pc' \in [Worker -> Places]
    BY TypesByName DEF IInv, CallTool, Record, Places
  <2>2. dispatched' \subseteq Shifts
    BY <1>1, <1>4, TypesByName DEF IInv
  <2>3. QED
    BY <1>3, <2>1, <2>2, TypesByName, TypesNext DEF IInv
<1>6. InOrder' /\ HasItsWake' /\ UnwrittenUnused' /\ OneRunning'
      /\ AgendaOfOneMode'
  BY <1>1, <1>3, <1>4, Written, TablesOfRun
<1>7. \A q \in Worker : RunInv(q)'
  <2>1. RunInv(p)'
    BY <1>1, <1>2, <1>3, <1>4 DEF RunInv, OnShift, Off
  <2>2. QED
    BY <1>2, <1>3, <1>4, <2>1, RunKept DEF IInv
<1>8. \A t \in Shifts : OneSends(t)'
  <2>1. \A q \in Worker, t \in Shifts : Unsent(q, t)
    BY <1>2, <1>3 DEF Unsent, Sends
  <2>2. QED
    BY <1>3, <1>4, <2>1, SendsKept DEF IInv
<1>9. QED
  BY <1>5, <1>6, <1>7, <1>8 DEF IInv

LEMMA RecheckKeeps ==
  ASSUME IInv, NEW p \in Worker, Recheck(p)
  PROVE  IInv'
<1> DEFINE s == run[p].shift
           place == IF Authorized(p) THEN "cleared" ELSE "working"
<1>1. /\ s \in Shifts /\ run[p].trades /\ s \in dispatched
      /\ pc[p] = "recorded" /\ RunInv(p)
  BY DEF IInv, Recheck, RunInv, OnShift, Off
<1>2. \A q \in Worker : pc'[q] = IF q = p THEN place ELSE pc[q]
  BY TypesByName DEF IInv, Recheck
<1>3. UNCHANGED <<book, wake, shift, dispatched, run, posts>>
  BY DEF Recheck
<1>4. place = "cleared" => shift[s].token = p
  BY DEF Authorized, Holds, Mine
<1>5. place \in {"cleared", "working"}
  OBVIOUS
<1> HIDE DEF place
<1>6. TypeOK'
  <2>1. pc' \in [Worker -> Places]
    BY TypesByName DEF IInv, Recheck, Places
  <2>2. QED
    BY <1>3, <2>1, TypesByName, TypesNext DEF IInv
<1>7. InOrder' /\ HasItsWake' /\ UnwrittenUnused' /\ OneRunning'
      /\ AgendaOfOneMode'
  BY <1>3, Written, TablesOfRun
<1>8. place = "cleared" =>
        /\ posts[s] > 0 => run[p].posted
        /\ \A q \in Worker : Sends(q, s) => q = p
  BY <1>1, <1>4 DEF IInv, OneSends
<1>9. posts[s] \in Nat
  BY <1>1, TypesByName DEF IInv
<1>10. \A q \in Worker : RunInv(q)'
  <2>1. RunInv(p)'
    BY <1>1, <1>2, <1>3, <1>5, <1>8, <1>9 DEF RunInv, OnShift, Off
  <2>2. QED
    BY <1>2, <1>3, <2>1, RunKept DEF IInv
<1>11. ASSUME NEW t \in Shifts
       PROVE  OneSends(t)'
  <2>1. CASE place = "cleared" /\ t = s
    <3>1. /\ posts[t] > 0 => run[p].posted
          /\ \A q \in Worker : Sends(q, t) => q = p
          /\ shift[t].token = p
      BY <1>4, <1>8, <2>1
    <3>2. \A q \in Worker : Sends(q, t)' => q = p
      BY <1>2, <1>3, <3>1 DEF Sends
    <3>3. OneSends(t)
      BY DEF IInv
    <3>4. /\ posts[t] <= 1
          /\ posts[t] > 0 => t \in dispatched
      BY <3>3 DEF OneSends
    <3>5. QED
      BY <1>3, <3>1, <3>2, <3>4 DEF OneSends
  <2>2. CASE ~ (place = "cleared" /\ t = s)
    <3>1. \A q \in Worker : Unsent(q, t)
      BY <1>2, <1>3, <1>5, <2>2 DEF Unsent, Sends
    <3>2. QED
      BY <1>3, <3>1, SendsKept DEF IInv
  <2>3. QED
    BY <2>1, <2>2
<1>12. QED
  BY <1>6, <1>7, <1>10, <1>11 DEF IInv

LEMMA PostKeeps ==
  ASSUME IInv, NEW p \in Worker, Post(p)
  PROVE  IInv'
<1>1. PICK s \in Shifts : /\ s = run[p].shift /\ shift[s].status # "none"
                          /\ Sends(p, s)
  <2>1. OnShift(p)
    BY DEF Post, OnShift, Off
  <2>2. QED
    BY <2>1, OnItsShift DEF Post, Sends
<1>2. /\ run[p].trades /\ s \in dispatched /\ run[p] \in RunRow
      /\ run[p].posted => posts[s] = 1
      /\ ~run[p].posted => posts[s] = 0
  <2>1. RunInv(p) /\ pc[p] = "cleared"
    BY DEF IInv, Post
  <2>2. run[p] \in RunRow
    BY TypesByName DEF IInv
  <2>3. QED
    BY <1>1, <2>1, <2>2 DEF RunInv
<1>3. \A q \in Worker :
        run'[q] = IF q = p THEN [run[p] EXCEPT !.posted = TRUE] ELSE run[q]
  BY TypesByName DEF IInv, Post
<1>4. \A q \in Worker : pc'[q] = IF q = p THEN "working" ELSE pc[q]
  BY TypesByName DEF IInv, Post
<1>5. UNCHANGED <<book, wake, shift, dispatched>>
  BY DEF Post
<1>6. \A t \in Shifts : posts'[t] = IF t = s THEN 1 ELSE posts[t]
  <2>1. posts \in [Shifts -> Nat]
    BY TypesByName DEF IInv
  <2>2. posts' = IF run[p].posted THEN posts
                   ELSE [posts EXCEPT ![s] = posts[s] + 1]
    BY <1>1 DEF Post
  <2>3. QED
    BY <1>2, <2>1, <2>2
<1>7. LET r == run'[p]
      IN  r \in RunRow /\ r.shift = s /\ r.trades /\ r.posted
  BY <1>1, <1>2, <1>3 DEF RunRow
<1>8. TypeOK'
  <2>1. run' \in [Worker -> RunRow]
    BY <1>2, <1>7, <1>3, TypesByName DEF IInv, Post
  <2>2. pc' \in [Worker -> Places]
    BY TypesByName DEF IInv, Post, Places
  <2>3. posts' \in [Shifts -> Nat]
    BY <1>1, TypesByName DEF IInv, Post
  <2>4. QED
    BY <1>5, <2>1, <2>2, <2>3, TypesByName, TypesNext DEF IInv
<1>9. \A q \in Worker : run'[q].shift = run[q].shift
  BY <1>1, <1>3, <1>7
<1>10. InOrder' /\ HasItsWake' /\ UnwrittenUnused' /\ OneRunning'
       /\ AgendaOfOneMode'
  <2>1. \A t \in Shifts : t \in dispatched' \/ posts'[t] # 0 =>
          shift[t].status # "none"
    BY <1>1, <1>5, <1>6, Written
  <2>2. QED
    BY <1>5, <1>9, <2>1, TablesOfRun
<1>11. \A q \in Worker : RunInv(q)'
  <2>1. RunInv(p)'
    BY <1>1, <1>4, <1>6, <1>7 DEF RunInv, OnShift, Off
  <2>2. ASSUME NEW q \in Worker, q # p
        PROVE  RunInv(q)'
    <3>1. RunInv(q) /\ pc'[q] = pc[q] /\ run'[q] = run[q]
      BY <1>3, <1>4, <2>2 DEF IInv
    <3>2. CASE run[q].shift = s
      <4>1. ~ (pc[q] = "cleared")
        BY <1>1, <2>2, <3>2 DEF IInv, OneSends, Sends
      <4>2. run[q].posted => posts'[run[q].shift] = 1
        BY <1>6, <3>2
      <4>3. QED
        BY <1>5, <3>1, <4>1, <4>2 DEF RunInv, OnShift
    <3>3. CASE run[q].shift # s
      <4>1. run[q].shift \in Shifts \/ (~OnShift(q) /\ ~run[q].posted)
        BY <3>1 DEF RunInv, OnShift, Off
      <4>2. run[q].shift \in Shifts =>
              posts'[run[q].shift] = posts[run[q].shift]
        BY <1>6, <3>3
      <4>3. QED
        BY <1>5, <3>1, <4>1, <4>2 DEF RunInv, OnShift, Off
    <3>4. QED
      BY <3>2, <3>3
  <2>3. QED
    BY <2>1, <2>2
<1>12. ASSUME NEW t \in Shifts
       PROVE  OneSends(t)'
  <2>1. OneSends(t)
    BY DEF IInv
  <2>2. \A q \in Worker : Sends(q, t)' => Sends(q, t)
    BY <1>4, <1>9 DEF Sends
  <2>3. posts'[t] <= 1 /\ (posts'[t] > 0 => t \in dispatched')
    BY <1>2, <1>5, <1>6, <2>1 DEF OneSends
  <2>4. \A q, r \in Worker : Sends(q, t)' /\ Sends(r, t)' => q = r
    BY <2>1, <2>2 DEF OneSends
  <2>5. ASSUME NEW q \in Worker,
               run'[q].trades, run'[q].shift = t, shift'[t].token = q
        PROVE  /\ posts'[t] > 0 => run'[q].posted
               /\ \A r \in Worker : Sends(r, t)' => r = q
    <3>1. CASE q = p
      <4>1. t = s
        BY <1>7, <2>5, <3>1
      <4>2. \A r \in Worker : Sends(r, t)' => r = p
        BY <1>1, <2>1, <2>2, <4>1 DEF OneSends
      <4>3. QED
        BY <1>7, <3>1, <4>2
    <3>2. CASE q # p
      <4>1. run[q].trades /\ run[q].shift = t /\ shift[t].token = q
        BY <1>3, <1>5, <2>5, <3>2
      <4>2. /\ posts[t] > 0 => run[q].posted
            /\ \A r \in Worker : Sends(r, t) => r = q
        BY <2>1, <4>1 DEF OneSends
      <4>3. t # s
        BY <1>1, <3>2, <4>2
      <4>4. QED
        BY <1>3, <1>6, <2>2, <3>2, <4>2, <4>3
    <3>3. QED
      BY <3>1, <3>2
  <2>6. QED
    BY <2>3, <2>4, <2>5 DEF OneSends
<1>13. QED
  BY <1>8, <1>10, <1>11, <1>12 DEF IInv

LEMMA InterruptKeeps ==
  ASSUME IInv, NEW p \in Worker, Interrupt(p)
  PROVE  IInv'
<1>1. PICK s \in Shifts : /\ s = run[p].shift /\ shift[s].status = "running"
                          /\ shift[s] \in ShiftRow
  <2>1. OnShift(p) /\ Holds(p)
    BY DEF Interrupt, Renews
  <2>2. QED
    BY <2>1, OnItsShift, TypesByName DEF IInv, Holds, Mine
<1> DEFINE row == [shift[s] EXCEPT !.status = "paused", !.token = NoWorker,
                                   !.leased = FALSE]
<1>2. \A t \in Shifts : shift'[t] = IF t = s THEN row ELSE shift[t]
  BY <1>1, TypesByName DEF IInv, Interrupt
<1>3. /\ row \in ShiftRow /\ row.status = "paused" /\ ~row.leased
      /\ row.token = NoWorker /\ row.mode = shift[s].mode
      /\ row.version = shift[s].version
  BY <1>1 DEF ShiftRow, Statuses, Ended
<1> HIDE DEF row
<1>4. UNCHANGED <<book, wake, dispatched, pc, run, posts>>
  BY DEF Interrupt
<1>5. shift' \in [Shifts -> ShiftRow]
  <2>1. shift' = [shift EXCEPT ![s] = row]
    BY <1>1, TypesByName DEF IInv, Interrupt, row
  <2>2. QED
    BY <1>3, <2>1, TypesByName DEF IInv
<1>6. TypeOK'
  BY <1>4, <1>5, TypesByName, TypesNext DEF IInv
<1>7. \A t \in Shifts :
        Kept(t) /\ shift'[t].token \in {shift[t].token, NoWorker}
  BY <1>1, <1>2, <1>3, Written DEF Kept
<1>8. \A w \in Wake : Stays(w)
  BY <1>4 DEF Stays
<1>9. InOrder' /\ HasItsWake' /\ UnwrittenUnused' /\ OneRunning'
      /\ AgendaOfOneMode'
  BY <1>4, <1>7, <1>8, Written, TablesKept
<1>10. (\A q \in Worker : RunInv(q)') /\ (\A t \in Shifts : OneSends(t)')
  BY <1>4, <1>7, RunsKept
<1>11. QED
  BY <1>6, <1>9, <1>10 DEF IInv

\* A step by which a run ends, and may write the row of its shift once more.
LEMMA RunEnds ==
  ASSUME IInv, NEW p \in Worker, NEW place \in {"idle", "dead"},
         pc' = [pc EXCEPT ![p] = place],
         run' = [run EXCEPT ![p] = Unread],
         UNCHANGED <<book, dispatched, posts>>,
         shift' \in [Shifts -> ShiftRow], wake' \in [Wake -> WakeRow],
         \A s \in Shifts : Kept(s) /\ shift'[s].token = shift[s].token,
         \A w \in Wake : Stays(w) \/ Taking(w)
  PROVE  IInv'
<1>1. \A q \in Worker : /\ run'[q] = IF q = p THEN Unread ELSE run[q]
                        /\ pc'[q] = IF q = p THEN place ELSE pc[q]
  BY TypesByName DEF IInv
<1>2. TypeOK'
  <2>1. run' \in [Worker -> RunRow]
    BY UnreadTyped, TypesByName DEF IInv
  <2>2. pc' \in [Worker -> Places]
    BY TypesByName DEF IInv, Places, Off
  <2>3. QED
    BY <2>1, <2>2, TypesByName, TypesNext DEF IInv
<1>3. \A q \in Worker : run'[q].shift \in Shifts =>
        shift[run'[q].shift].status # "none"
  BY <1>1, UnreadTyped, Written, ShiftsAreNumbers
<1>4. InOrder' /\ HasItsWake' /\ UnwrittenUnused' /\ OneRunning'
      /\ AgendaOfOneMode'
  BY <1>3, Written, TablesKept
<1>5. \A q \in Worker : RunInv(q)'
  BY <1>1, UnreadTyped, RunKept, RunOver DEF IInv
<1>6. \A t \in Shifts : OneSends(t)'
  <2>1. \A q \in Worker, t \in Shifts : Unsent(q, t)
    BY <1>1, UnreadTyped DEF Unsent, Sends
  <2>2. QED
    BY <2>1, SendsKept DEF IInv
<1>7. QED
  BY <1>2, <1>4, <1>5, <1>6 DEF IInv

\* Nothing is written.
LEMMA NothingWritten ==
  ASSUME IInv, UNCHANGED <<shift, wake>>
  PROVE  /\ shift' \in [Shifts -> ShiftRow] /\ wake' \in [Wake -> WakeRow]
         /\ \A s \in Shifts : Kept(s) /\ shift'[s].token = shift[s].token
         /\ \A w \in Wake : Stays(w) \/ Taking(w)
  BY TypesByName, Written DEF IInv, Kept, Stays

LEMMA CompleteKeeps ==
  ASSUME IInv, NEW p \in Worker, Complete(p)
  PROVE  IInv'
<1>1. PICK s \in Shifts : /\ s = run[p].shift /\ shift[s].status # "none"
                          /\ shift[s] \in ShiftRow
  <2>1. OnShift(p)
    BY DEF Complete, OnShift, Off
  <2>2. QED
    BY <2>1, OnItsShift, TypesByName DEF IInv
<1>2. CASE ~Completes(p)
  <2>1. UNCHANGED <<shift, wake>>
    BY <1>2 DEF Complete
  <2>2. QED
    BY <2>1, NothingWritten, RunEnds DEF Complete, Leave
<1>3. CASE Completes(p)
  <2> DEFINE row == [shift[s] EXCEPT !.status = "completed", !.leased = FALSE]
             covered(w) == /\ Covers(p)
                           /\ w \in Review \cap Queued(Mine(p).version)
  <2>1. /\ row \in ShiftRow /\ row.status = "completed" /\ ~row.leased
        /\ row.token = shift[s].token /\ row.mode = shift[s].mode
        /\ row.version = shift[s].version
    BY <1>1 DEF ShiftRow, Statuses, Ended
  <2>2. shift' = [shift EXCEPT ![s] = row]
    BY <1>1, <1>3, TypesByName DEF IInv, Complete
  <2>3. wake' = [w \in Wake |-> IF covered(w)
                   THEN [wake[w] EXCEPT !.shift = s] ELSE wake[w]]
    BY <1>1, <1>3 DEF Complete
  <2> HIDE DEF row
  <2>4. shift' \in [Shifts -> ShiftRow]
    BY <2>1, <2>2, TypesByName DEF IInv
  <2>5. \A t \in Shifts : shift'[t] = IF t = s THEN row ELSE shift[t]
    BY <2>2, TypesByName DEF IInv
  <2>6. \A t \in Shifts : Kept(t) /\ shift'[t].token = shift[t].token
    BY <1>1, <2>1, <2>5, Written DEF Kept
  <2>7. \A w \in Wake : wake[w] \in WakeRow
    BY TypesByName DEF IInv
  <2>8. \A w \in Wake : covered(w) =>
          /\ wake[w].shift = 0 /\ wake[w].version = shift[s].version
          /\ Mode(w) = "live" /\ shift[s].mode = "live"
    BY <1>1 DEF Covers, Queued, Mine, Mode
  <2> HIDE DEF covered
  <2>9. wake' \in [Wake -> WakeRow]
    BY <2>3, <2>7 DEF WakeRow
  <2>10. ASSUME NEW w \in Wake
         PROVE  Stays(w) \/ Taking(w)
    <3>1. CASE covered(w)
      <4>1. wake'[w] = [wake[w] EXCEPT !.shift = s]
        BY <2>3, <3>1
      <4>2. wake'[w].shift = s /\ wake'[w].version = wake[w].version
        BY <2>7, <4>1 DEF WakeRow
      <4>3. QED
        BY <1>1, <2>8, <3>1, <4>2 DEF Taking
    <3>2. CASE ~covered(w)
      BY <2>3, <3>2 DEF Stays
    <3>3. QED
      BY <3>1, <3>2
  <2>11. QED
    BY <2>4, <2>6, <2>9, <2>10, RunEnds DEF Complete, Leave
<1>4. QED
  BY <1>2, <1>3

LEMMA FailureKeeps ==
  ASSUME IInv, NEW p \in Worker, Fail(p)
  PROVE  IInv'
<1>1. PICK s \in Shifts : /\ s = run[p].shift /\ shift[s].status # "none"
                          /\ shift[s] \in ShiftRow
  <2>1. OnShift(p)
    BY DEF Fail
  <2>2. QED
    BY <2>1, OnItsShift, TypesByName DEF IInv
<1>2. CASE ~Holds(p)
  <2>1. UNCHANGED <<shift, wake>>
    BY <1>2 DEF Fail
  <2>2. QED
    BY <2>1, NothingWritten, RunEnds DEF Fail, Leave
<1>3. CASE Holds(p)
  <2> DEFINE row == [shift[s] EXCEPT !.leased = TRUE,
                       !.status = IF shift[s].attempts >= MaxAttempts
                                    THEN "failed" ELSE "running"]
  <2>1. shift[s].status = "running"
    BY <1>1, <1>3 DEF Holds, Mine
  <2>2. /\ row \in ShiftRow /\ row.status \in {"failed", "running"}
        /\ row.token = shift[s].token /\ row.mode = shift[s].mode
        /\ row.version = shift[s].version
    BY <1>1 DEF ShiftRow, Statuses, Ended
  <2>3. shift' = [shift EXCEPT ![s] = row]
    BY <1>1, <1>3, TypesByName DEF IInv, Fail, Mine
  <2> HIDE DEF row
  <2>4. shift' \in [Shifts -> ShiftRow]
    BY <2>2, <2>3, TypesByName DEF IInv
  <2>5. \A t \in Shifts : shift'[t] = IF t = s THEN row ELSE shift[t]
    BY <2>3, TypesByName DEF IInv
  <2>6. \A t \in Shifts : Kept(t) /\ shift'[t].token = shift[t].token
    BY <1>1, <2>1, <2>2, <2>5, Written DEF Kept
  <2>7. wake' \in [Wake -> WakeRow] /\ \A w \in Wake : Stays(w)
    BY TypesByName DEF IInv, Fail, Stays
  <2>8. QED
    BY <2>4, <2>6, <2>7, RunEnds DEF Fail, Leave
<1>4. QED
  BY <1>2, <1>3

LEMMA CrashKeeps ==
  ASSUME IInv, NEW p \in Worker, Crash(p)
  PROVE  IInv'
  BY NothingWritten, RunEnds DEF Crash

LEMMA StepIInv == IInv /\ [Next]_vars => IInv'
<1> SUFFICES ASSUME IInv, [Next]_vars
             PROVE  IInv'
  OBVIOUS
<1>1. CASE UNCHANGED vars
  <2>1. UNCHANGED <<book, wake, shift, dispatched, pc, run, posts>>
    BY <1>1 DEF vars
  <2>2. TypeOK'
    BY <2>1, TypesByName, TypesNext DEF IInv
  <2>3. InOrder' /\ HasItsWake' /\ UnwrittenUnused' /\ OneRunning'
        /\ AgendaOfOneMode'
    BY <2>1, Written, TablesOfRun
  <2>4. (\A p \in Worker : RunInv(p)') /\ (\A s \in Shifts : OneSends(s)')
    BY <2>1, RunsKept
  <2>5. QED
    BY <2>2, <2>3, <2>4 DEF IInv
<1>2. ASSUME NEW enabled \in BOOLEAN, UpdateBook(enabled)
      PROVE  IInv'
  BY <1>2, ChangeKeeps
<1>3. ASSUME NEW w \in Urgent \cup Chat, Arrive(w)
      PROVE  IInv'
  BY <1>3, ArrivalKeeps
<1>4. ASSUME NEW s \in Shifts, Expire(s)
      PROVE  IInv'
  BY <1>4, ExpiryKeeps
<1>5. ASSUME NEW p \in Worker, NEW ready \in BOOLEAN, Poll(p, ready)
      PROVE  IInv'
  BY <1>5, PollKeeps
<1>6. ASSUME NEW p \in Worker, NEW a \in BOOLEAN, NEW b \in BOOLEAN,
             Claim(p, a, b)
      PROVE  IInv'
  BY <1>6, ClaimKeeps
<1>7. ASSUME NEW p \in Worker,
             \/ Begin(p) \/ CallTool(p) \/ Record(p) \/ Recheck(p) \/ Post(p)
             \/ Interrupt(p) \/ Complete(p) \/ Fail(p) \/ Crash(p)
      PROVE  IInv'
  BY <1>7, BeginKeeps, CallKeeps, RecheckKeeps, PostKeeps, InterruptKeeps,
     CompleteKeeps, FailureKeeps, CrashKeeps
<1>8. QED
  BY <1>1, <1>2, <1>3, <1>4, <1>5, <1>6, <1>7 DEF Next

THEOREM Inductive == Spec => []IInv
  BY InitIInv, StepIInv, PTL DEF Spec

-----------------------------------------------------------------------------
(* Theorems *)

\* Types and ranges.  Numbers of shifts never run out, so that claimShift
\* always has a row to write, and no shift is begun more often than
\* MaxAttempts.
THEOREM TypeCorrect == Spec => []TypeOK
<1>1. IInv => TypeOK
  BY DEF IInv
<1>2. QED
  BY <1>1, Inductive, PTL

\* Orders leave from one run of a shift at most, with any number of workers:
\* runShift's look at the journal and the lease token of authorize() are enough
\* also for a run that is interrupted, stalls, is taken over and goes on.
THEOREM OneRunTradesHolds == Spec => []OneRunTrades
<1>1. IInv => OneRunTrades
  BY DEF IInv, OneSends, OneRunTrades
<1>2. QED
  BY <1>1, Inductive, PTL

\* No two shifts of a book run at once: claimShift keeps it also for a worker
\* that decides by the row of a book that it read before a change.
THEOREM OneRunningHolds == Spec => []OneRunning
<1>1. IInv => OneRunning
  BY DEF IInv
<1>2. QED
  BY <1>1, Inductive, PTL

\* What a shift has on its agenda has its mode and its mandate, whether it was
\* taken when the shift was created or covered when it was completed.
THEOREM AgendaHolds == Spec => []AgendaOfOneMode
<1>1. IInv => AgendaOfOneMode
  BY DEF IInv
<1>2. QED
  BY <1>1, Inductive, PTL

\* What takes a worker from its poll to a shift is its own claim.
LEMMA OnlyClaims ==
  ASSUME IInv, [Next]_vars, NEW p \in Worker,
         pc[p] = "polled", pc'[p] = "claimed"
  PROVE  \E a, b \in BOOLEAN : Claim(p, a, b)
<1> USE TypesByName DEF IInv
<1>1. ~ UNCHANGED vars
  BY DEF vars
<1>2. ASSUME NEW q \in Worker, q # p,
             \E a, b \in BOOLEAN : Claim(q, a, b)
      PROVE  pc'[p] = pc[p]
  <2>1. PICK s \in {0} \cup Shifts : Outcome(q, s)
    BY <1>2, ClaimOutcome
  <2>2. QED
    BY <1>2, <2>1 DEF Outcome
<1>3. ASSUME NEW q \in Worker,
             \/ \E isReady \in BOOLEAN : Poll(q, isReady)
             \/ Begin(q) \/ CallTool(q) \/ Record(q) \/ Recheck(q) \/ Post(q)
             \/ Interrupt(q) \/ Complete(q) \/ Fail(q) \/ Crash(q)
      PROVE  pc'[p] # "claimed"
  <2> DEFINE Moves(place) == pc' = [pc EXCEPT ![q] = place]
  <2>1. ASSUME NEW place, place # "claimed", Moves(place)
        PROVE  pc'[p] # "claimed"
    BY <2>1
  <2>2. ASSUME Interrupt(q)
        PROVE  pc'[p] # "claimed"
    BY <2>2 DEF Interrupt
  <2>3. Begin(q) \/ Recheck(q) \/ Post(q) =>
          Moves("working") \/ Moves("cleared")
    BY DEF Begin, Recheck, Post
  <2>4. (\E isReady \in BOOLEAN : Poll(q, isReady)) => Moves("polled")
    BY DEF Poll
  <2>5. /\ CallTool(q) => Moves("authorized")
        /\ Record(q) => Moves("recorded")
        /\ Crash(q) => Moves("dead")
    BY DEF CallTool, Record, Crash
  <2>6. Complete(q) \/ Fail(q) => Moves("idle")
    BY DEF Complete, Fail, Leave
  <2> HIDE DEF Moves
  <2>7. QED
    BY <1>3, <2>1, <2>2, <2>3, <2>4, <2>5, <2>6
<1>4. ASSUME \/ \E enabled \in BOOLEAN : UpdateBook(enabled)
             \/ \E w \in Urgent \cup Chat : Arrive(w)
             \/ \E s \in Shifts : Expire(s)
      PROVE  pc' = pc
  BY <1>4 DEF UpdateBook, Arrive, Expire
<1>5. QED
  BY <1>1, <1>2, <1>3, <1>4 DEF Next

\* A worker begins, takes over or resumes a live shift only if the exchange was
\* reconciled when it looked.
THEOREM RecoversFirstHolds == Spec => RecoversFirst
<1> DEFINE Recovers ==
      \A p \in Worker :
        pc[p] = "polled" /\ pc'[p] = "claimed" =>
          (shift'[run'[p].shift].mode = "live" => run[p].ready)
<1>1. ASSUME IInv, [Next]_vars
      PROVE  Recovers
  <2> SUFFICES ASSUME NEW p \in Worker, pc[p] = "polled", pc'[p] = "claimed",
                      shift'[run'[p].shift].mode = "live"
               PROVE  run[p].ready
    OBVIOUS
  <2>1. \E a, b \in BOOLEAN : Claim(p, a, b)
    BY <1>1, OnlyClaims
  <2>2. PICK s \in {0} \cup Shifts : Outcome(p, s)
    BY <1>1, <2>1, ClaimOutcome DEF IInv
  <2>3. pc \in [Worker -> Places] /\ run \in [Worker -> RunRow]
    BY <1>1, TypesByName DEF IInv
  <2>4. s # 0
    BY <2>2, <2>3 DEF Outcome
  <2>5. run'[p].shift = s
    <3>1. run'[p] = [Unread EXCEPT !.shift = s]
      BY <2>2, <2>3, <2>4 DEF Outcome
    <3>2. QED
      BY <3>1 DEF Unread
  <2>6. IsRun(p, shift[s], shift'[s])
    BY <2>2, <2>4 DEF Outcome
  <2>7. QED
    BY <2>5, <2>6 DEF IsRun
<1>2. IInv /\ [Next]_vars => [Recovers]_vars
  BY <1>1
<1>3. QED
  BY <1>2, Inductive, PTL DEF RecoversFirst, Spec

\* A shift that has ended stays as it ended, whatever an old run, an expiry or
\* a later claim does.
THEOREM EndsOnceHolds == Spec => EndsOnce
<1> DEFINE Once == \A s \in Shifts :
              shift[s].status \in Ended => shift'[s].status = shift[s].status
<1>1. ASSUME IInv, [Next]_vars
      PROVE  Once
  <2> SUFFICES ASSUME NEW s \in Shifts, shift[s].status \in Ended
               PROVE  shift'[s].status = shift[s].status
    OBVIOUS
  <2>1. shift \in [Shifts -> ShiftRow]
    BY <1>1, TypesByName DEF IInv
  <2>2. CASE UNCHANGED shift
    BY <2>2
  <2>3. ASSUME NEW t \in Shifts, Expire(t)
        PROVE  shift'[s].status = shift[s].status
    BY <2>1, <2>3 DEF Expire, ShiftRow
  <2>4. ASSUME NEW p \in Worker, \E a, b \in BOOLEAN : Claim(p, a, b)
        PROVE  shift'[s].status = shift[s].status
    <3>1. PICK t \in {0} \cup Shifts : Outcome(p, t)
      BY <1>1, <2>4, ClaimOutcome DEF IInv
    <3>2. t # s
      <4>1. ASSUME t = s
            PROVE  shift[s].status \in {"running", "paused", "none"}
        BY <3>1, <4>1, ShiftsAreNumbers DEF Outcome, IsRun
      <4>2. QED
        BY <4>1 DEF Ended
    <3>3. Rests(shift[s], shift'[s])
      BY <3>1, <3>2 DEF Outcome
    <3>4. QED
      BY <3>3 DEF Rests, Ended
  <2>5. ASSUME NEW p \in Worker, Interrupt(p) \/ Complete(p) \/ Fail(p)
        PROVE  shift'[s].status = shift[s].status
    <3>1. CASE UNCHANGED shift
      BY <3>1
    <3>2. CASE ~ UNCHANGED shift
      <4>1. Holds(p)
        BY <2>5, <3>2 DEF Interrupt, Renews, Complete, Completes, Fail
      <4>2. run[p].shift # s
        BY <4>1 DEF Holds, Mine, Ended
      <4>3. shift'[s] = shift[s]
        BY <2>1, <2>5, <4>2 DEF Interrupt, Complete, Fail
      <4>4. QED
        BY <4>3
    <3>3. QED
      BY <3>1, <3>2
  <2>6. ASSUME \/ \E enabled \in BOOLEAN : UpdateBook(enabled)
               \/ \E w \in Urgent \cup Chat : Arrive(w)
               \/ \E p \in Worker :
                    \/ \E isReady \in BOOLEAN : Poll(p, isReady)
                    \/ Begin(p) \/ CallTool(p) \/ Record(p) \/ Recheck(p)
                    \/ Post(p) \/ Crash(p)
               \/ UNCHANGED vars
        PROVE  UNCHANGED shift
    <3>1. \A enabled \in BOOLEAN : UpdateBook(enabled) => UNCHANGED shift
      BY DEF UpdateBook
    <3>2. \A w \in Urgent \cup Chat : Arrive(w) => UNCHANGED shift
      BY DEF Arrive
    <3>3. ASSUME NEW p \in Worker
          PROVE  /\ \A isReady \in BOOLEAN :
                      Poll(p, isReady) => UNCHANGED shift
                 /\ Begin(p) \/ CallTool(p) \/ Record(p) => UNCHANGED shift
                 /\ Recheck(p) \/ Post(p) \/ Crash(p) => UNCHANGED shift
      <4>1. \A isReady \in BOOLEAN : Poll(p, isReady) => UNCHANGED shift
        BY DEF Poll
      <4>2. Begin(p) \/ CallTool(p) \/ Record(p) => UNCHANGED shift
        BY DEF Begin, CallTool, Record
      <4>3. Recheck(p) \/ Post(p) \/ Crash(p) => UNCHANGED shift
        BY DEF Recheck, Post, Crash
      <4>4. QED
        BY <4>1, <4>2, <4>3
    <3>4. UNCHANGED vars => UNCHANGED shift
      BY DEF vars
    <3>5. QED
      BY <2>6, <3>1, <3>2, <3>3, <3>4
  <2>7. QED
    BY <1>1, <2>2, <2>3, <2>4, <2>5, <2>6 DEF Next
<1>2. IInv /\ [Next]_vars => [Once]_vars
  BY <1>1
<1>3. QED
  BY <1>2, Inductive, PTL DEF EndsOnce, Spec
=============================================================================
