---------------------------- MODULE DeskResearch ----------------------------
(***************************************************************************)
(* Public research of the roles of one shift (publicResearchTools in       *)
(* src/lib/desk/research.ts, bookPublicCache in                            *)
(* src/lib/desk/public-cache.ts, and what the observation board of         *)
(* src/lib/desk/read-cache.ts keeps of it): simultaneous requests share    *)
(* one retrieval, results and receipts are cached in the database, and     *)
(* news that arrives meanwhile supersedes them.                            *)
(*                                                                         *)
(* One topic, one source and one angle.  The database outlives the shift;  *)
(* the next shift's tools begin with empty memory.  That a row is expired, *)
(* or pushed out by others, may happen at any time.                        *)
(***************************************************************************)
EXTENDS Naturals

CONSTANTS Asker,    \* roles of the desk, each with one call at a time
          MaxRev   \* bound: revisions of the news on the topic

ResearchAssumption == MaxRev \in Nat \ {0}

VARIABLES
  revision,    \* the newest revision the book's DeskWake rows have
  row,         \* DeskPublicCache, for a search and a reading of the source
  receiptRow,  \* DeskPublicCache, the receipt of the source
  receipts,    \* the receipt in memory
  board,       \* what the observation board has of a result
  inFlight,    \* retrievals, by operation and revision
  call         \* what a role waits for

vars == <<revision, row, receiptRow, receipts, board, inFlight, call>>
cache == <<row, receiptRow>>

Rev == 1 .. MaxRev
Op == {"search", "read"}
Flight == Op \X Rev

\* A result knows the revision it is filed under; began and ended, which no
\* action reads, are the revisions on record when its retrieval did.
Nothing == [rev |-> 0, began |-> 0, ended |-> 0, fresh |-> FALSE]
NoFlight == [at |-> "none", result |-> Nothing, reused |-> FALSE,
             sources |-> FALSE]
NoCall == [at |-> "idle", op |-> "search", since |-> 0, required |-> 0,
           rev |-> 0, got |-> Nothing]

Init ==
  /\ revision = 1
  /\ row = [op \in Op |-> Nothing] /\ receiptRow = Nothing
  /\ receipts = Nothing /\ board = Nothing
  /\ inFlight = [f \in Flight |-> NoFlight]
  /\ call = [r \in Asker |-> NoCall]

-----------------------------------------------------------------------------
(* A role's call *)

Set(r, at) == call' = [call EXCEPT ![r].at = at]
Refused(r) == call' = [call EXCEPT ![r] = NoCall]

\* search_public_sources, read_public_source, or the opening brief of a turn
\* (sharedObservations).
Ask(r, op, at) ==
  /\ call[r].at \in {"idle", "told"}
  /\ call' = [call EXCEPT ![r] =
       [NoCall EXCEPT !.at = at, !.op = op, !.since = revision]]
  /\ UNCHANGED <<revision, cache, receipts, board, inFlight>>

\* The receipt in memory counts, expired or not; else the one in the database.
FindReceipt(r) ==
  LET entry == IF receipts.rev # 0 THEN receipts ELSE receiptRow IN
  /\ call[r].at = "receipt"
  /\ IF entry.fresh
     THEN call' = [call EXCEPT ![r].at = "revision",
                               ![r].required = entry.rev]
     ELSE Refused(r)
  /\ UNCHANGED <<revision, cache, receipts, board, inFlight>>

ReadRevision(r) ==
  /\ call[r].at = "revision"
  /\ IF call[r].required \in {0, revision}
     THEN call' = [call EXCEPT ![r].at = "enter", ![r].rev = revision]
     ELSE Refused(r)
  /\ UNCHANGED <<revision, cache, receipts, board, inFlight>>

\* Variant: the key of a retrieval is that of its row.
AnyRevision(r) ==
  LET running == {f \in Flight : f[1] = call[r].op /\ inFlight[f].at # "none"}
  IN IF running = {} THEN <<call[r].op, call[r].rev>>
     ELSE CHOOSE f \in running : TRUE

FlightKey(r) == <<call[r].op, call[r].rev>>

\* Who finds a retrieval of its revision waits for that.
Enter(r) ==
  LET f == FlightKey(r) IN
  /\ call[r].at = "enter"
  /\ call' = [call EXCEPT ![r].at = "wait", ![r].rev = f[2]]
  /\ inFlight' = IF inFlight[f].at # "none" THEN inFlight
                 ELSE [inFlight EXCEPT ![f].at = "get"]
  /\ UNCHANGED <<revision, cache, receipts, board>>

-----------------------------------------------------------------------------
(* A retrieval *)

\* Whoever waits for it is told, or fails with it.
Waits(r, f) == call[r].at = "wait" /\ <<call[r].op, call[r].rev>> = f

Told(r, result) ==
  [NoCall EXCEPT !.at = "told", !.since = call[r].since, !.got = result]

End(f, told) ==
  /\ inFlight' = [inFlight EXCEPT ![f] = NoFlight]
  /\ call' = [r \in Asker |->
       IF ~Waits(r, f) THEN call[r]
       ELSE IF told
         THEN Told(r, inFlight[f].result)
       ELSE NoCall]

\* The row is of this revision, or the web is searched.
Get(f) ==
  /\ inFlight[f].at = "get"
  /\ inFlight' = [inFlight EXCEPT ![f] =
       IF row[f[1]].fresh /\ row[f[1]].rev = f[2]
       THEN [at |-> "recheck", result |-> row[f[1]], reused |-> TRUE,
             sources |-> TRUE]
       ELSE [NoFlight EXCEPT !.at = "ask",
               !.result = [Nothing EXCEPT !.rev = f[2], !.began = revision]]]
  /\ UNCHANGED <<revision, cache, receipts, board, call>>

\* With sources that were seen, or with none.
Answer(f) ==
  /\ inFlight[f].at = "ask"
  /\ \E sources \in BOOLEAN :
       inFlight' = [inFlight EXCEPT
         ![f].at = "recheck", ![f].sources = sources,
         ![f].result.ended = revision, ![f].result.fresh = TRUE]
  /\ UNCHANGED <<revision, cache, receipts, board, call>>

Publish(f) ==
  board' = IF inFlight[f].sources THEN inFlight[f].result ELSE board

StillCurrent(f) == revision = f[2]

\* A correction may have arrived during the retrieval.
Recheck(f) ==
  /\ inFlight[f].at = "recheck"
  /\ \/ /\ ~StillCurrent(f)
        /\ End(f, FALSE)
        /\ UNCHANGED <<receipts, board>>
     \/ /\ StillCurrent(f)
        /\ receipts' = IF inFlight[f].sources
                       THEN inFlight[f].result ELSE receipts
        /\ IF inFlight[f].sources /\ ~inFlight[f].reused
           THEN /\ inFlight' = [inFlight EXCEPT ![f].at = "put"]
                /\ UNCHANGED <<board, call>>
           ELSE Publish(f) /\ End(f, TRUE)
  /\ UNCHANGED <<revision, cache>>

\* The rows are written, or left alone if the result is about to expire.
Put(f) ==
  /\ inFlight[f].at = "put"
  /\ \/ /\ row' = [row EXCEPT ![f[1]] = inFlight[f].result]
        /\ receiptRow' = inFlight[f].result
     \/ UNCHANGED cache
  /\ Publish(f) /\ End(f, TRUE)
  /\ UNCHANGED <<revision, receipts>>

\* The database, the model or the parsing of its answer fails.
FlightFails(f) ==
  /\ inFlight[f].at # "none"
  /\ End(f, FALSE)
  /\ UNCHANGED <<revision, cache, receipts, board>>

-----------------------------------------------------------------------------
(* The opening brief, news, and time *)

\* A fact of the board is asked about once more before it is shown.
Recall(r) ==
  /\ call[r].at = "brief"
  /\ IF board.fresh /\ board.rev = revision
     THEN call' = [call EXCEPT ![r] = Told(r, board)] /\ UNCHANGED board
     ELSE Refused(r) /\ board' = Nothing
  /\ UNCHANGED <<revision, cache, receipts, inFlight>>

News ==
  /\ revision < MaxRev /\ revision' = revision + 1
  /\ UNCHANGED <<cache, receipts, board, inFlight, call>>

\* Lifetimes end, or other entries take the place.
Lapse ==
  /\ \/ \E op \in Op : row' = [row EXCEPT ![op] = Nothing]
                       /\ UNCHANGED <<receiptRow, receipts, board>>
     \/ receiptRow' = Nothing /\ UNCHANGED <<row, receipts, board>>
     \/ receipts' \in {Nothing, [receipts EXCEPT !.fresh = FALSE]}
        /\ UNCHANGED <<cache, board>>
     \/ board' = Nothing /\ UNCHANGED <<cache, receipts>>
  /\ UNCHANGED <<revision, inFlight, call>>

\* The shift ends or its process dies; the next one has tools of its own.
NextShift ==
  /\ receipts' = Nothing /\ board' = Nothing
  /\ inFlight' = [f \in Flight |-> NoFlight]
  /\ call' = [r \in Asker |-> NoCall]
  /\ UNCHANGED <<revision, cache>>

Next ==
  \/ News \/ Lapse \/ NextShift
  \/ \E r \in Asker :
       \/ Ask(r, "search", "revision") \/ Ask(r, "read", "receipt")
       \/ Ask(r, "search", "brief")
       \/ FindReceipt(r) \/ ReadRevision(r) \/ Enter(r) \/ Recall(r)
  \/ \E f \in Flight :
       Get(f) \/ Answer(f) \/ Recheck(f) \/ Put(f) \/ FlightFails(f)

Spec == Init /\ [][Next]_vars

-----------------------------------------------------------------------------
(* Properties *)

Result == [rev : Rev \cup {0}, began : Rev \cup {0}, ended : Rev \cup {0},
           fresh : BOOLEAN]

TypeOK ==
  /\ revision \in Rev
  /\ row \in [Op -> Result]
  /\ {receiptRow, receipts, board} \subseteq Result
  /\ \A f \in Flight :
       /\ inFlight[f].at \in {"none", "get", "ask", "recheck", "put"}
       /\ inFlight[f].result \in Result
  /\ \A r \in Asker :
       call[r].at \in {"idle", "receipt", "revision", "enter", "wait",
                       "brief", "told"}

\* "A correction can arrive during the model call": whatever a role is told,
\* by a retrieval of its own or of a colleague, by the cache, or by the board,
\* no correction arrived while it was retrieved, and it is retrieved after
\* every correction that was on record when the role asked.
ToldCurrent ==
  \A r \in Asker : call[r].at = "told" =>
    /\ call[r].got.began >= call[r].since
    /\ call[r].got.ended = call[r].got.began
=============================================================================
