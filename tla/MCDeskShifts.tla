--------------------------- MODULE MCDeskShifts ----------------------------
(* DeskShifts on small instances for TLC. *)
EXTENDS DeskShifts, TLC

\* Workers are interchangeable.
WorkerSymmetry == Permutations(Worker)

\* Nothing reads the attempts, token and lease of a shift that has ended, and
\* a process that died is started like one that is idle.  (The comparison has
\* TLC enumerate the rows, before it stores the state.)
View ==
  <<book, wake, dispatched, run, posts,
    shift = [s \in Shifts |-> NoShift],
    [p \in Worker |-> IF pc[p] \in Off THEN "idle" ELSE pc[p]],
    [s \in Shifts |->
       IF shift[s].status \in Ended THEN [shift[s] EXCEPT !.attempts = 0,
                                                          !.token = NoWorker,
                                                          !.leased = FALSE]
         ELSE shift[s]]>>
=============================================================================
