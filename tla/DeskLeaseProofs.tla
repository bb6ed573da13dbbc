-------------------------- MODULE DeskLeaseProofs --------------------------
(***************************************************************************)
(* Theorems about DeskLease, for any set of calls, any lease term, any     *)
(* window and any bounds.                                                  *)
(***************************************************************************)
EXTENDS DeskLease, TLAPS

-----------------------------------------------------------------------------
(* The inductive invariant *)

\* The call has stamped and signed its request.
Stamped(c) == pc[c] \in {"post", "dispatch"}

\* The call holds a nonce it has not sent yet.
Numbered(c) == pc[c] \in {"sign", "stamp", "post", "dispatch"}

\* In the authorize before the POST, this read has come back, and was good.
Passed(c, read) ==
  pc[c] = "dispatch" \/ (pc[c] = "post" /\ read \notin reads[c])

\* No request can outlive its signature by more than Window.
StampInv ==
  /\ \A r \in sent : r.expiresAfter <= now + Window
  /\ \A c \in Call : Stamped(c) => local[c].expiresAfter <= now + Window

KillInv ==
  kill => /\ \A r \in sent : ~r.cleanup => r.expiresAfter <= killedAt + Window
          /\ \A c \in Call : Passed(c, "kill") /\ ~local[c].cleanup
                               => local[c].expiresAfter <= killedAt + Window

\* What the book's row means for a write that was decided under version.
BookBound(version, cleanup, expiresAfter) ==
  /\ version \in Versions
  /\ version <= book.version
  /\ version # book.version => expiresAfter <= replacedAt[version] + Window
  /\ version = book.version /\ ~cleanup => book.enabled

BookInv ==
  /\ \A r \in sent : BookBound(r.version, r.cleanup, r.expiresAfter)
  /\ \A c \in Call : local[c].version <= book.version
  /\ \A c \in Call : pc[c] \notin {"new", "done"} => local[c].version # 0
  /\ \A c \in Call : Passed(c, "book") =>
       BookBound(local[c].version, local[c].cleanup, local[c].expiresAfter)

LeaseInv ==
  /\ \A c \in Call : pc[c] \in {"new", "claim"} =>
       /\ rank[c] = 0
       /\ lease.token # c
       /\ \A r \in sent : r.call # c
  /\ \A r \in sent :
       lease.token # r.call => r.expiresAfter <= lostAt[r.call] + Window
  /\ \A c \in Call : Passed(c, "lease") /\ lease.token # c =>
       local[c].expiresAfter <= lostAt[c] + Window

NonceInv ==
  /\ \A i \in issued : i.nonce <= lease.nonce
  /\ \A c \in Call : pc[c] = "cas" => local[c].nonce > local[c].seen
  /\ \A c \in Call : Numbered(c) =>
       /\ [call |-> c, nonce |-> local[c].nonce] \in issued
       /\ \A r \in sent : r.nonce # local[c].nonce
  /\ \A i, j \in issued : i.nonce = j.nonce => i = j
  /\ SentNonces

-----------------------------------------------------------------------------
(* Types *)

\* A call between two writes has well-typed variables.
LEMMA FreshType ==
  ASSUME NEW v \in 0 .. MaxVersion
  PROVE  Fresh(v) \in Local
BY DEF Fresh, Local

\* A call's program counter stays a program point when it moves to one.
LEMMA GotoType ==
  ASSUME TypeOK, NEW c \in Call, NEW point \in Points, Goto(c, point)
  PROVE  pc' \in [Call -> Points]
BY DEF TypeOK, Goto

\* An aborted write leaves well-typed variables.
LEMMA AbortType ==
  ASSUME TypeOK, NEW c \in Call, Abort(c)
  PROVE  /\ pc' \in [Call -> Points]
         /\ reads' \in [Call -> SUBSET Reads]
         /\ local' \in [Call -> Local]
<1>1. local[c].version \in 0 .. MaxVersion
  BY DEF TypeOK, Local
<1>2. Fresh(local[c].version) \in Local
  BY <1>1, FreshType
<1>3. Goto(c, "task") /\ "task" \in Points
  BY DEF Abort, Points, Holding
<1>4. pc' \in [Call -> Points]
  BY <1>3, GotoType
<1>5. local' \in [Call -> Local]
  BY <1>2 DEF TypeOK, Abort
<1>6. QED
  BY <1>4, <1>5 DEF TypeOK, Abort

\* The variables keep their types in every step.
LEMMA TypeStep ==
  ASSUME TypeOK, [Next]_vars
  PROVE  TypeOK'
<1> USE DEF shared, venue, history
<1>1. ASSUME NEW c \in Call, Start(c) PROVE TypeOK'
  <2>1. book.version \in 0 .. MaxVersion
    BY BoundAssumption DEF TypeOK, Versions
  <2>2. local' \in [Call -> Local]
    BY <1>1, <2>1, FreshType DEF Start, TypeOK
  <2>3. pc' \in [Call -> Points]
    BY <1>1, GotoType DEF Start, Points
  <2>4. QED
    BY <1>1, <2>2, <2>3 DEF Start, TypeOK
<1>2. ASSUME NEW c \in Call, Claim(c) PROVE TypeOK'
  <2>1. pc' \in [Call -> Points]
    BY <1>2, GotoType DEF Claim, Points, Holding
  <2>2. lease' \in [token : Call \cup {NoCall}, expiresAt : Nat, nonce : Nat]
    <3>1. lease' = [lease EXCEPT !.token = c, !.expiresAt = now + LeaseTTL]
      BY <1>2 DEF Claim
    <3>2. now + LeaseTTL \in Nat
      BY BoundAssumption DEF TypeOK
    <3>3. QED
      BY <3>1, <3>2 DEF TypeOK
  <2>3. lostAt' \in [Call -> Nat] /\ rank' \in [Call -> Nat] /\ turn' \in Nat
    BY <1>2 DEF Claim, TypeOK
  <2>4. QED
    BY <1>2, <2>1, <2>2, <2>3 DEF Claim, TypeOK
<1>3. ASSUME NEW c \in Call, Busy(c) PROVE TypeOK'
  <2>1. pc' \in [Call -> Points]
    BY <1>3, GotoType DEF Busy, Points
  <2>2. local' \in [Call -> Local]
    BY <1>3, FreshType, BoundAssumption DEF Busy, TypeOK
  <2>3. QED
    BY <1>3, <2>1, <2>2 DEF Busy, TypeOK
<1>4. ASSUME NEW c \in Call, Renew(c) PROVE TypeOK'
  <2>1. lease' \in [token : Call \cup {NoCall}, expiresAt : Nat, nonce : Nat]
    BY <1>4, BoundAssumption DEF Renew, TypeOK
  <2>2. QED
    BY <1>4, <2>1 DEF Renew, TypeOK
<1>5. ASSUME NEW c \in Call, Release(c) PROVE TypeOK'
  <2>1. pc' \in [Call -> Points]
    BY <1>5, GotoType DEF Release, Points
  <2>2. local' \in [Call -> Local]
    BY <1>5, FreshType, BoundAssumption DEF Release, TypeOK
  <2>3. lease' \in [token : Call \cup {NoCall}, expiresAt : Nat, nonce : Nat]
    <3>1. \/ lease' = [lease EXCEPT !.token = NoCall, !.expiresAt = 0]
          \/ lease' = lease
      BY <1>5 DEF Release, Past
    <3>2. [lease EXCEPT !.token = NoCall, !.expiresAt = 0]
            \in [token : Call \cup {NoCall}, expiresAt : Nat, nonce : Nat]
      BY DEF TypeOK
    <3>3. QED
      BY <3>1, <3>2 DEF TypeOK
  <2>4. lostAt' \in [Call -> Nat]
    BY <1>5 DEF Release, TypeOK
  <2>5. QED
    BY <1>5, <2>1, <2>2, <2>3, <2>4 DEF Release, TypeOK
<1>6. ASSUME NEW c \in Call, NEW read \in Reads, Authorize(c, read)
      PROVE  TypeOK'
  <2>1. CASE Abort(c)
    BY <1>6, <2>1, AbortType DEF Authorize, TypeOK
  <2>2. CASE ~Abort(c)
    <3>1. /\ reads' = [reads EXCEPT ![c] = @ \ {read}]
          /\ IF reads[c] = {read} THEN Goto(c, After[pc[c]]) ELSE pc' = pc
          /\ local' = local
      BY <1>6, <2>2 DEF Authorize
    <3>2. After[pc[c]] \in Points
      BY <1>6 DEF Authorize, AuthorizePoints, After, Points, Holding
    <3>3. pc' \in [Call -> Points]
      BY <3>1, <3>2, GotoType DEF TypeOK
    <3>4. QED
      BY <1>6, <3>1, <3>3 DEF Authorize, TypeOK
  <2>3. QED
    BY <2>1, <2>2
<1>7. ASSUME NEW c \in Call, NEW cleanup \in BOOLEAN, Write(c, cleanup)
      PROVE  TypeOK'
  <2>1. pc' \in [Call -> Points]
    BY <1>7, GotoType DEF Write, Points, Holding, AuthorizePoints
  <2>2. local' \in [Call -> Local]
    BY <1>7 DEF Write, TypeOK, Local
  <2>3. QED
    BY <1>7, <2>1, <2>2 DEF Write, TypeOK
<1>8. ASSUME NEW c \in Call, ReadRow(c) PROVE TypeOK'
  <2>1. pc' \in [Call -> Points]
    BY <1>8, GotoType DEF ReadRow, Points, Holding
  <2>2. lease.nonce \in Nat /\ NextNonce \in Nat
    BY DEF TypeOK, NextNonce, Max2
  <2>3. local' \in [Call -> Local]
    <3>1. local' = [local EXCEPT ![c] =
                      [@ EXCEPT !.seen = lease.nonce, !.nonce = NextNonce]]
      BY <1>8 DEF ReadRow, TypeOK, Local
    <3>2. [local[c] EXCEPT !.seen = lease.nonce, !.nonce = NextNonce] \in Local
      BY <2>2 DEF TypeOK, Local
    <3>3. QED
      BY <3>1, <3>2 DEF TypeOK
  <2>4. QED
    BY <1>8, <2>1, <2>3 DEF ReadRow, TypeOK
<1>9. ASSUME NEW c \in Call, TakeNonce(c) PROVE TypeOK'
  <2>1. CASE OwnsNonce(c)
    <3>1. local[c].nonce \in Nat
      BY DEF TypeOK, Local
    <3>2. lease' \in [token : Call \cup {NoCall}, expiresAt : Nat, nonce : Nat]
      BY <1>9, <2>1, <3>1 DEF TakeNonce, TypeOK
    <3>3. issued' \subseteq [call : Call, nonce : Nat]
      BY <1>9, <2>1, <3>1 DEF TakeNonce, TypeOK
    <3>4. pc' \in [Call -> Points]
      BY <1>9, <2>1, GotoType
         DEF TakeNonce, Points, Holding, AuthorizePoints
    <3>5. reads' \in [Call -> SUBSET Reads] /\ local' = local
      BY <1>9, <2>1 DEF TakeNonce, TypeOK
    <3>6. UNCHANGED <<now, book, kill, venue, turn, rank, lostAt, replacedAt,
                      killedAt>>
      BY <1>9 DEF TakeNonce
    <3>7. QED
      BY <3>2, <3>3, <3>4, <3>5, <3>6 DEF TypeOK
  <2>2. CASE ~OwnsNonce(c)
    BY <1>9, <2>2, AbortType DEF TakeNonce, TypeOK
  <2>3. QED
    BY <2>1, <2>2
<1>10. ASSUME NEW c \in Call, Sign(c) PROVE TypeOK'
  <2>1. pc' \in [Call -> Points]
    BY <1>10, GotoType DEF Sign, Points, Holding, AuthorizePoints
  <2>2. local' \in [Call -> Local]
    BY <1>10, BoundAssumption DEF Sign, TypeOK, Local
  <2>3. QED
    BY <1>10, <2>1, <2>2 DEF Sign, TypeOK
<1>11. ASSUME NEW c \in Call, Dispatch(c)
       PROVE  TypeOK'
  <2>1. pc' \in [Call -> Points]
    BY <1>11, GotoType DEF Dispatch, Points, Holding
  <2>2. local' \in [Call -> Local]
    <3>1. local[c].version \in 0 .. MaxVersion
      BY DEF TypeOK, Local
    <3>2. QED
      BY <1>11, <3>1, FreshType DEF Dispatch, TypeOK
  <2>3. sent' \subseteq Request
    BY <1>11 DEF Dispatch, TypeOK, Local, Request
  <2>4. accepted' \subseteq sent'
    BY <1>11 DEF Dispatch, TypeOK
  <2>5. QED
    BY <1>11, <2>1, <2>2, <2>3, <2>4 DEF Dispatch, TypeOK
<1>12. ASSUME NEW r \in sent, Accept(r) PROVE TypeOK'
  BY <1>12 DEF Accept, TypeOK
<1>13. ASSUME NEW enabled \in BOOLEAN, UpdateBook(enabled) PROVE TypeOK'
  <2>1. book' \in [version : Versions, enabled : BOOLEAN]
    BY <1>13, BoundAssumption DEF UpdateBook, TypeOK, Versions
  <2>2. replacedAt' \in [Versions -> Nat]
    BY <1>13 DEF UpdateBook, TypeOK
  <2>3. QED
    BY <1>13, <2>1, <2>2 DEF UpdateBook, TypeOK
<1>14. ASSUME NEW on \in BOOLEAN, SetKillSwitch(on) PROVE TypeOK'
  BY <1>14 DEF SetKillSwitch, TypeOK
<1>15. CASE Tick
  BY <1>15 DEF Tick, TypeOK
<1>16. CASE UNCHANGED vars
  BY <1>16 DEF vars, TypeOK
<1>17. QED
  BY <1>1, <1>2, <1>3, <1>4, <1>5, <1>6, <1>7, <1>8, <1>9, <1>10, <1>11,
     <1>12, <1>13, <1>14, <1>15, <1>16 DEF Next

LEMMA TypeInit == Init => TypeOK
<1> SUFFICES ASSUME Init PROVE TypeOK
  OBVIOUS
<1>1. book \in [version : Versions, enabled : BOOLEAN]
  BY BoundAssumption DEF Init, Versions
<1>2. local \in [Call -> Local]
  BY FreshType, BoundAssumption DEF Init
<1>3. QED
  BY <1>1, <1>2 DEF Init, TypeOK, Points

\* The variables of the lease protocol always have their types.
THEOREM TypeCorrect == Spec => []TypeOK
BY TypeInit, TypeStep, PTL DEF Spec

-----------------------------------------------------------------------------
(* What an authorize read may do *)

\* A read that comes back moves no call but its own, and gets it past the
\* last authorize only if it showed what was asked for.
LEMMA AuthorizeStep ==
  ASSUME TypeOK, NEW c \in Call, NEW read \in Reads, Authorize(c, read)
  PROVE  /\ UNCHANGED <<now, lease, book, kill, venue, history>>
         /\ \A d \in Call :
              /\ local'[d].version = local[d].version
              /\ \A q \in Reads : Passed(d, q)' =>
                   /\ local'[d] = local[d]
                   /\ Passed(d, q) \/ (pc[d] = "post" /\ Shows(d, q))
              /\ Stamped(d)' => Stamped(d) /\ local'[d] = local[d]
              /\ Numbered(d)' => Numbered(d) /\ local'[d] = local[d]
              /\ pc'[d] = "cas" => pc[d] = "cas" /\ local'[d] = local[d]
              /\ pc'[d] \in {"new", "claim", "done"} => pc'[d] = pc[d]
              /\ pc[d] \in {"new", "claim", "done"} => pc'[d] = pc[d]
<1> USE DEF TypeOK, Passed, Stamped, Numbered, Goto, Reads, Authorize
<1>1. UNCHANGED <<now, lease, book, kill, venue, history>>
  BY DEF shared, venue, history
<1>2. CASE Shows(c, read)
  <2>1. local' = local /\ reads' = [reads EXCEPT ![c] = @ \ {read}]
    BY <1>2
  <2>2. pc' = IF reads[c] = {read} THEN [pc EXCEPT ![c] = After[pc[c]]] ELSE pc
    BY <1>2
  <2>3. ASSUME NEW d \in Call, d # c
        PROVE  pc'[d] = pc[d] /\ reads'[d] = reads[d]
    BY <2>1, <2>2, <2>3
  <2>4. CASE pc[c] = "write"
    <3>1. pc'[c] \in {"write", "row"}
      BY <2>2, <2>4 DEF After
    <3>2. QED
      BY <1>1, <2>1, <2>3, <2>4, <3>1
  <2>5. CASE pc[c] = "sign"
    <3>1. pc'[c] \in {"sign", "stamp"}
      BY <2>2, <2>5 DEF After
    <3>2. QED
      BY <1>1, <2>1, <2>3, <2>5, <3>1
  <2>6. CASE pc[c] = "post"
    <3>1. \/ pc'[c] = "dispatch" /\ reads[c] = {read}
          \/ pc'[c] = "post" /\ reads'[c] = reads[c] \ {read}
      BY <2>1, <2>2, <2>6 DEF After
    <3>2. QED
      BY <1>1, <1>2, <2>1, <2>3, <2>6, <3>1
  <2>7. QED
    BY <2>4, <2>5, <2>6 DEF AuthorizePoints
<1>3. CASE ~Shows(c, read)
  <2>1. pc' = [pc EXCEPT ![c] = "task"]
    BY <1>3 DEF Abort
  <2>2. local' = [local EXCEPT ![c] = Fresh(@.version)]
    BY <1>3 DEF Abort
  <2>3. reads' = [reads EXCEPT ![c] = {}]
    BY <1>3 DEF Abort
  <2>4. ASSUME NEW d \in Call, d # c
        PROVE  pc'[d] = pc[d] /\ reads'[d] = reads[d] /\ local'[d] = local[d]
    BY <2>1, <2>2, <2>3, <2>4
  <2>5. pc'[c] = "task" /\ local'[c].version = local[c].version
    BY <2>1, <2>2 DEF Fresh
  <2>6. pc[c] \in {"write", "sign", "post"}
    BY DEF AuthorizePoints
  <2>7. QED
    BY <1>1, <2>4, <2>5, <2>6
<1>4. QED
  BY <1>2, <1>3
-----------------------------------------------------------------------------
(* The steps preserve the parts of the invariant *)

\* A request is stamped with the present time, and time only passes.
LEMMA StampStep ==
  ASSUME TypeOK, StampInv, [Next]_vars
  PROVE  StampInv'
<1> USE BoundAssumption
    DEF TypeOK, StampInv, Stamped, Local, Reads, shared, venue, history
<1>1. ASSUME NEW c \in Call, Start(c) PROVE StampInv'
  BY <1>1 DEF Start, Goto, Fresh
<1>2. ASSUME NEW c \in Call, Claim(c) PROVE StampInv'
  BY <1>2 DEF Claim, Goto
<1>3. ASSUME NEW c \in Call, Busy(c) PROVE StampInv'
  BY <1>3 DEF Busy, Goto, Fresh
<1>4. ASSUME NEW c \in Call, Renew(c) PROVE StampInv'
  BY <1>4 DEF Renew
<1>5. ASSUME NEW c \in Call, Release(c) PROVE StampInv'
  BY <1>5 DEF Release, Goto, Fresh
<1>6. ASSUME NEW c \in Call, NEW read \in Reads, Authorize(c, read)
      PROVE  StampInv'
  BY <1>6, AuthorizeStep DEF StampInv
<1>7. ASSUME NEW c \in Call, NEW cleanup \in BOOLEAN, Write(c, cleanup)
      PROVE  StampInv'
  BY <1>7 DEF Write, Goto
<1>8. ASSUME NEW c \in Call, ReadRow(c) PROVE StampInv'
  BY <1>8 DEF ReadRow, Goto
<1>9. ASSUME NEW c \in Call, TakeNonce(c) PROVE StampInv'
  BY <1>9 DEF TakeNonce, Goto, Abort, Fresh
<1>10. ASSUME NEW c \in Call, Sign(c) PROVE StampInv'
  BY <1>10 DEF Sign, Goto
<1>11. ASSUME NEW c \in Call, Dispatch(c) PROVE StampInv'
  BY <1>11 DEF Dispatch, Goto, Fresh
<1>12. ASSUME NEW r \in sent, Accept(r) PROVE StampInv'
  BY <1>12 DEF Accept
<1>13. ASSUME NEW enabled \in BOOLEAN, UpdateBook(enabled) PROVE StampInv'
  BY <1>13 DEF UpdateBook
<1>14. ASSUME NEW on \in BOOLEAN, SetKillSwitch(on) PROVE StampInv'
  BY <1>14 DEF SetKillSwitch
<1>15. CASE Tick
  <2>1. now' = now + 1 /\ UNCHANGED <<sent, pc, local>>
    BY <1>15 DEF Tick
  <2>2. \A r \in sent : r.expiresAfter \in Nat
    BY DEF Request
  <2>3. \A c \in Call : local[c].expiresAfter \in Nat
    OBVIOUS
  <2>4. QED
    BY <2>1, <2>2, <2>3
<1>16. CASE UNCHANGED vars
  BY <1>16 DEF vars
<1>17. QED
  BY <1>1, <1>2, <1>3, <1>4, <1>5, <1>6, <1>7, <1>8, <1>9, <1>10, <1>11,
     <1>12, <1>13, <1>14, <1>15, <1>16 DEF Next

\* An order stamped before the kill switch went on keeps its stamp; one stamped
\* after it does not pass the last read.
LEMMA KillStep ==
  ASSUME TypeOK, StampInv, KillInv, [Next]_vars
  PROVE  KillInv'
<1> USE BoundAssumption
    DEF TypeOK, StampInv, KillInv, Stamped, Passed, Local, Reads, shared,
        venue, history
<1>1. ASSUME NEW c \in Call, Start(c) PROVE KillInv'
  BY <1>1 DEF Start, Goto, Fresh
<1>2. ASSUME NEW c \in Call, Claim(c) PROVE KillInv'
  BY <1>2 DEF Claim, Goto
<1>3. ASSUME NEW c \in Call, Busy(c) PROVE KillInv'
  BY <1>3 DEF Busy, Goto, Fresh
<1>4. ASSUME NEW c \in Call, Renew(c) PROVE KillInv'
  BY <1>4 DEF Renew
<1>5. ASSUME NEW c \in Call, Release(c) PROVE KillInv'
  BY <1>5 DEF Release, Goto, Fresh
<1>6. ASSUME NEW c \in Call, NEW read \in Reads, Authorize(c, read)
      PROVE  KillInv'
  BY <1>6, AuthorizeStep DEF Shows, MayTrade
<1>7. ASSUME NEW c \in Call, NEW cleanup \in BOOLEAN, Write(c, cleanup)
      PROVE  KillInv'
  BY <1>7 DEF Write, Goto
<1>8. ASSUME NEW c \in Call, ReadRow(c) PROVE KillInv'
  BY <1>8 DEF ReadRow, Goto
<1>9. ASSUME NEW c \in Call, TakeNonce(c) PROVE KillInv'
  BY <1>9 DEF TakeNonce, Goto, Abort, Fresh
<1>10. ASSUME NEW c \in Call, Sign(c) PROVE KillInv'
  BY <1>10 DEF Sign, Goto
<1>11. ASSUME NEW c \in Call, Dispatch(c) PROVE KillInv'
  BY <1>11 DEF Dispatch, Goto, Fresh
<1>12. ASSUME NEW r \in sent, Accept(r) PROVE KillInv'
  BY <1>12 DEF Accept
<1>13. ASSUME NEW enabled \in BOOLEAN, UpdateBook(enabled) PROVE KillInv'
  BY <1>13 DEF UpdateBook
<1>14. ASSUME NEW on \in BOOLEAN, SetKillSwitch(on) PROVE KillInv'
  BY <1>14 DEF SetKillSwitch
<1>15. CASE Tick
  BY <1>15 DEF Tick
<1>16. CASE UNCHANGED vars
  BY <1>16 DEF vars
<1>17. QED
  BY <1>1, <1>2, <1>3, <1>4, <1>5, <1>6, <1>7, <1>8, <1>9, <1>10, <1>11,
     <1>12, <1>13, <1>14, <1>15, <1>16 DEF Next

-----------------------------------------------------------------------------
(* What a step may do to a call and to the requests *)

\* The last authorize of d as it is after a step.
PassedLater(d) ==
  \A q \in Reads : Passed(d, q)' =>
    /\ local'[d] = local[d]
    /\ Passed(d, q) \/ (pc[d] = "post" /\ Shows(d, q))

\* The version d was given, as it is after a step.
VersionLater(d) ==
  \/ /\ local'[d].version = local[d].version
     /\ pc'[d] \notin {"new", "done"} => pc[d] \notin {"new", "done"}
  \/ pc'[d] = "claim" /\ local'[d].version = book.version
  \/ pc'[d] = "done" /\ local'[d].version = 0

\* No step but the last authorize's own reads gets a call past them, and a call
\* gets its version from locked() only.
LEMMA CallStep ==
  ASSUME TypeOK, [Next]_vars
  PROVE  \A d \in Call : PassedLater(d) /\ VersionLater(d)
<1> USE DEF TypeOK, Passed, Local, Reads, shared, venue, history, PassedLater,
            VersionLater
<1>1. ASSUME NEW c \in Call, Start(c)
      PROVE  \A d \in Call : PassedLater(d) /\ VersionLater(d)
  BY <1>1 DEF Start, Goto, Fresh
<1>2. ASSUME NEW c \in Call, Claim(c)
      PROVE  \A d \in Call : PassedLater(d) /\ VersionLater(d)
  BY <1>2 DEF Claim, Goto
<1>3. ASSUME NEW c \in Call, Busy(c)
      PROVE  \A d \in Call : PassedLater(d) /\ VersionLater(d)
  BY <1>3 DEF Busy, Goto, Fresh
<1>4. ASSUME NEW c \in Call, Renew(c)
      PROVE  \A d \in Call : PassedLater(d) /\ VersionLater(d)
  BY <1>4 DEF Renew
<1>5. ASSUME NEW c \in Call, Release(c)
      PROVE  \A d \in Call : PassedLater(d) /\ VersionLater(d)
  BY <1>5 DEF Release, Goto, Fresh
<1>6. ASSUME NEW c \in Call, NEW read \in Reads, Authorize(c, read)
      PROVE  \A d \in Call : PassedLater(d) /\ VersionLater(d)
  BY <1>6, AuthorizeStep DEF PassedLater, VersionLater
<1>7. ASSUME NEW c \in Call, NEW cleanup \in BOOLEAN, Write(c, cleanup)
      PROVE  \A d \in Call : PassedLater(d) /\ VersionLater(d)
  BY <1>7 DEF Write, Goto
<1>8. ASSUME NEW c \in Call, ReadRow(c)
      PROVE  \A d \in Call : PassedLater(d) /\ VersionLater(d)
  BY <1>8 DEF ReadRow, Goto
<1>9. ASSUME NEW c \in Call, TakeNonce(c)
      PROVE  \A d \in Call : PassedLater(d) /\ VersionLater(d)
  BY <1>9 DEF TakeNonce, Goto, Abort, Fresh
<1>10. ASSUME NEW c \in Call, Sign(c)
      PROVE  \A d \in Call : PassedLater(d) /\ VersionLater(d)
  BY <1>10 DEF Sign, Goto
<1>11. ASSUME NEW c \in Call, Dispatch(c)
      PROVE  \A d \in Call : PassedLater(d) /\ VersionLater(d)
  BY <1>11 DEF Dispatch, Goto, Fresh
<1>12. ASSUME NEW r \in sent, Accept(r)
      PROVE  \A d \in Call : PassedLater(d) /\ VersionLater(d)
  BY <1>12 DEF Accept
<1>13. ASSUME NEW enabled \in BOOLEAN, UpdateBook(enabled)
      PROVE  \A d \in Call : PassedLater(d) /\ VersionLater(d)
  BY <1>13 DEF UpdateBook
<1>14. ASSUME NEW on \in BOOLEAN, SetKillSwitch(on)
      PROVE  \A d \in Call : PassedLater(d) /\ VersionLater(d)
  BY <1>14 DEF SetKillSwitch
<1>15. CASE Tick
  BY <1>15 DEF Tick
<1>16. CASE UNCHANGED vars
  BY <1>16 DEF vars
<1>17. QED
  BY <1>1, <1>2, <1>3, <1>4, <1>5, <1>6, <1>7, <1>8, <1>9, <1>10, <1>11,
     <1>12, <1>13, <1>14, <1>15, <1>16 DEF Next

\* Call c is about to POST r.
Sends(c, r) ==
  /\ pc[c] = "dispatch"
  /\ r.call = c
  /\ r.version = local[c].version
  /\ r.cleanup = local[c].cleanup
  /\ r.nonce = local[c].nonce
  /\ r.expiresAfter = local[c].expiresAfter
  /\ pc' = [pc EXCEPT ![c] = "task"]
  /\ UNCHANGED <<now, lease, book, kill, history>>

\* A step adds to the requests only what a call that is past the last authorize
\* has put together.
LEMMA SentStep ==
  ASSUME TypeOK, [Next]_vars
  PROVE  \A r \in sent' : r \in sent \/ (\E d \in Call : Sends(d, r))
<1> USE DEF TypeOK, Local, Request, shared, venue, history
<1>1. ASSUME NEW c \in Call, Start(c)
      PROVE  \A r \in sent' : r \in sent \/ (\E d \in Call : Sends(d, r))
  BY <1>1 DEF Start, Goto, Fresh
<1>2. ASSUME NEW c \in Call, Claim(c)
      PROVE  \A r \in sent' : r \in sent \/ (\E d \in Call : Sends(d, r))
  BY <1>2 DEF Claim, Goto
<1>3. ASSUME NEW c \in Call, Busy(c)
      PROVE  \A r \in sent' : r \in sent \/ (\E d \in Call : Sends(d, r))
  BY <1>3 DEF Busy, Goto, Fresh
<1>4. ASSUME NEW c \in Call, Renew(c)
      PROVE  \A r \in sent' : r \in sent \/ (\E d \in Call : Sends(d, r))
  BY <1>4 DEF Renew
<1>5. ASSUME NEW c \in Call, Release(c)
      PROVE  \A r \in sent' : r \in sent \/ (\E d \in Call : Sends(d, r))
  BY <1>5 DEF Release, Goto, Fresh
<1>6. ASSUME NEW c \in Call, NEW read \in Reads, Authorize(c, read)
      PROVE  \A r \in sent' : r \in sent \/ (\E d \in Call : Sends(d, r))
  BY <1>6, AuthorizeStep
<1>7. ASSUME NEW c \in Call, NEW cleanup \in BOOLEAN, Write(c, cleanup)
      PROVE  \A r \in sent' : r \in sent \/ (\E d \in Call : Sends(d, r))
  BY <1>7 DEF Write, Goto
<1>8. ASSUME NEW c \in Call, ReadRow(c)
      PROVE  \A r \in sent' : r \in sent \/ (\E d \in Call : Sends(d, r))
  BY <1>8 DEF ReadRow, Goto
<1>9. ASSUME NEW c \in Call, TakeNonce(c)
      PROVE  \A r \in sent' : r \in sent \/ (\E d \in Call : Sends(d, r))
  BY <1>9 DEF TakeNonce, Goto, Abort, Fresh
<1>10. ASSUME NEW c \in Call, Sign(c)
      PROVE  \A r \in sent' : r \in sent \/ (\E d \in Call : Sends(d, r))
  BY <1>10 DEF Sign, Goto
<1>11. ASSUME NEW c \in Call, Dispatch(c)
      PROVE  \A r \in sent' : r \in sent \/ (\E d \in Call : Sends(d, r))
  <2>1. ASSUME NEW r \in sent', r \notin sent PROVE Sends(c, r)
    <3>1. r = [call |-> c, version |-> local[c].version,
               cleanup |-> local[c].cleanup, nonce |-> local[c].nonce,
               expiresAfter |-> local[c].expiresAfter]
      BY <1>11, <2>1 DEF Dispatch
    <3>2. QED
      BY <1>11, <3>1 DEF Sends, Dispatch, Goto
  <2>2. QED
    BY <2>1
<1>12. ASSUME NEW a \in sent, Accept(a)
      PROVE  \A r \in sent' : r \in sent \/ (\E d \in Call : Sends(d, r))
  BY <1>12 DEF Accept
<1>13. ASSUME NEW enabled \in BOOLEAN, UpdateBook(enabled)
      PROVE  \A r \in sent' : r \in sent \/ (\E d \in Call : Sends(d, r))
  BY <1>13 DEF UpdateBook
<1>14. ASSUME NEW on \in BOOLEAN, SetKillSwitch(on)
      PROVE  \A r \in sent' : r \in sent \/ (\E d \in Call : Sends(d, r))
  BY <1>14 DEF SetKillSwitch
<1>15. CASE Tick
  BY <1>15 DEF Tick
<1>16. CASE UNCHANGED vars
  BY <1>16 DEF vars
<1>17. QED
  BY <1>1, <1>2, <1>3, <1>4, <1>5, <1>6, <1>7, <1>8, <1>9, <1>10, <1>11,
     <1>12, <1>13, <1>14, <1>15, <1>16 DEF Next

\* The book's row, and when its versions were replaced, change in UpdateBook.
LEMMA BookFrame ==
  ASSUME [Next]_vars
  PROVE  UNCHANGED <<book, replacedAt>> \/ \E e \in BOOLEAN : UpdateBook(e)
BY DEF Next, vars, shared, venue, history, Start, Claim, Busy, Renew, Release,
       Authorize, Write, ReadRow, TakeNonce, Sign, Dispatch, Accept,
       SetKillSwitch, Tick

\* A write passes the last read of the book only under the book's present
\* version, and no version comes back.
LEMMA BookStep ==
  ASSUME TypeOK, StampInv, BookInv, [Next]_vars
  PROVE  BookInv'
<1>1. book.version \in Nat /\ book.version \in Versions /\ book.version # 0
  BY BoundAssumption DEF TypeOK, Versions
<1>2. \A c \in Call : local[c].version \in Nat
  BY DEF TypeOK, Local
<1>3. \A r \in sent' : r \in sent \/ \E c \in Call : Sends(c, r)
  BY SentStep
<1>4. \A c \in Call : PassedLater(c) /\ VersionLater(c)
  BY CallStep
<1>5. CASE UNCHANGED <<book, replacedAt>>
  <2>1. \A v, u, x : BookBound(v, u, x)' <=> BookBound(v, u, x)
    BY <1>5 DEF BookBound
  <2>2. \A r \in sent' : BookBound(r.version, r.cleanup, r.expiresAfter)
    BY <1>3 DEF BookInv, Sends, Passed
  <2>3. ASSUME NEW c \in Call
        PROVE  /\ local'[c].version <= book.version
               /\ pc'[c] \notin {"new", "done"} => local'[c].version # 0
    BY <1>1, <1>4 DEF BookInv, VersionLater
  <2>4. ASSUME NEW c \in Call, Passed(c, "book")'
        PROVE  BookBound(local'[c].version, local'[c].cleanup,
                         local'[c].expiresAfter)
    <3>1. local'[c] = local[c]
      BY <1>4, <2>4 DEF PassedLater, Reads
    <3>2. CASE Passed(c, "book")
      BY <3>1, <3>2 DEF BookInv
    <3>3. CASE Shows(c, "book")
      BY <1>1, <3>1, <3>3 DEF Shows, SameBook, Enabled, BookBound
    <3>4. QED
      BY <1>4, <2>4, <3>2, <3>3 DEF PassedLater, Reads
  <2>5. QED
    BY <1>5, <2>1, <2>2, <2>3, <2>4 DEF BookInv
<1>6. ASSUME NEW e \in BOOLEAN, UpdateBook(e) PROVE BookInv'
  <2>1. /\ UNCHANGED <<sent, pc, reads, local, now>>
        /\ book' = [version |-> book.version + 1, enabled |-> e]
        /\ replacedAt' = [replacedAt EXCEPT ![book.version] = now]
    BY <1>6 DEF UpdateBook, venue
  <2>2. ASSUME NEW v, NEW u, NEW x, x \in Nat, x <= now + Window,
               BookBound(v, u, x)
        PROVE  BookBound(v, u, x)'
    <3>1. book'.version = book.version + 1
      BY <2>1
    <3>2. v \in Nat /\ v # book'.version
      BY <1>1, <2>2, <3>1 DEF BookBound, Versions
    <3>3. v = book.version => replacedAt'[v] = now
      BY <1>1, <2>1 DEF TypeOK
    <3>4. v # book.version => replacedAt'[v] = replacedAt[v]
      BY <1>1, <2>1 DEF TypeOK
    <3>5. QED
      BY <1>1, <2>2, <3>1, <3>2, <3>3, <3>4 DEF BookBound
  <2>3. \A r \in sent :
          r.expiresAfter \in Nat /\ r.expiresAfter <= now + Window
    BY DEF TypeOK, StampInv, Request
  <2>4. \A c \in Call : local[c].expiresAfter \in Nat
    BY DEF TypeOK, Local
  <2>5. \A c \in Call : Passed(c, "book") =>
          local[c].expiresAfter <= now + Window
    BY DEF StampInv, Stamped, Passed
  <2>6. \A r \in sent : BookBound(r.version, r.cleanup, r.expiresAfter)'
    BY <2>2, <2>3 DEF BookInv
  <2>7. ASSUME NEW c \in Call, Passed(c, "book")
        PROVE  BookBound(local[c].version, local[c].cleanup,
                         local[c].expiresAfter)'
    <3>1. BookBound(local[c].version, local[c].cleanup, local[c].expiresAfter)
      BY <2>7 DEF BookInv
    <3>2. QED
      BY <2>1, <2>2, <2>4, <2>5, <2>7, <3>1
  <2>8. \A c \in Call : local[c].version <= book'.version
    BY <1>1, <1>2, <2>1 DEF BookInv
  <2>9. QED
    BY <2>1, <2>6, <2>7, <2>8 DEF BookInv, Passed
<1>7. QED
  BY <1>5, <1>6, BookFrame

\* A call that has lost the lease does not pass the last read of it, and a call
\* never has it twice.
LEMMA LeaseStep ==
  ASSUME TypeOK, StampInv, LeaseInv, [Next]_vars
  PROVE  LeaseInv'
<1> USE BoundAssumption, CallAssumption
    DEF TypeOK, StampInv, LeaseInv, Stamped, Passed, Local, Reads, Holding,
        AuthorizePoints, shared, venue, history
<1>1. ASSUME NEW c \in Call, Start(c) PROVE LeaseInv'
  BY <1>1 DEF Start, Goto, Fresh
<1>2. ASSUME NEW c \in Call, Claim(c) PROVE LeaseInv'
  <2>1. /\ lease'.token = c
        /\ pc' = [pc EXCEPT ![c] = "task"]
        /\ UNCHANGED <<sent, reads, local, now>>
    BY <1>2 DEF Claim, Goto
  <2>2. \A d \in Call : rank'[d] = IF d = c THEN turn + 1 ELSE rank[d]
    BY <1>2 DEF Claim
  <2>3. \A d \in Call : lostAt'[d] = IF d = lease.token THEN now ELSE lostAt[d]
    BY <1>2 DEF Claim
  <2>4. lease.token # c /\ pc[c] = "claim"
    BY <1>2 DEF Claim
  <2>5. \A r \in sent : r.call \in Call /\ r.call # c
    BY <2>4 DEF Request
  <2>6. \A d \in Call : pc'[d] \in {"new", "claim"} =>
          rank'[d] = 0 /\ lease'.token # d /\ \A r \in sent : r.call # d
    BY <2>1, <2>2
  <2>7. \A r \in sent : r.expiresAfter <= lostAt'[r.call] + Window
    BY <2>3, <2>5
  <2>8. \A d \in Call : Passed(d, "lease")' /\ d # c =>
          local[d].expiresAfter <= lostAt'[d] + Window
    BY <2>1, <2>3
  <2>9. QED
    BY <2>1, <2>6, <2>7, <2>8
<1>3. ASSUME NEW c \in Call, Busy(c) PROVE LeaseInv'
  BY <1>3 DEF Busy, Goto, Fresh
<1>4. ASSUME NEW c \in Call, Renew(c) PROVE LeaseInv'
  BY <1>4 DEF Renew
<1>5. ASSUME NEW c \in Call, Release(c) PROVE LeaseInv'
  <2>1. /\ pc' = [pc EXCEPT ![c] = "done"]
        /\ UNCHANGED <<sent, reads, rank, now>>
        /\ \A d \in Call : d # c => local'[d] = local[d]
    BY <1>5 DEF Release, Goto
  <2>2. CASE lease.token = c
    <3>1. lease'.token = NoCall /\ lostAt' = [lostAt EXCEPT ![c] = now]
      BY <1>5, <2>2 DEF Release
    <3>2. \A r \in sent : r.call \in Call
      BY DEF Request
    <3>3. \A r \in sent : r.expiresAfter <= lostAt'[r.call] + Window
      BY <2>2, <3>1, <3>2
    <3>4. \A d \in Call : Passed(d, "lease")' =>
            local'[d].expiresAfter <= lostAt'[d] + Window
      BY <2>1, <2>2, <3>1
    <3>5. \A d \in Call : pc'[d] \in {"new", "claim"} =>
            rank'[d] = 0 /\ lease'.token # d /\ \A r \in sent' : r.call # d
      BY <2>1, <3>1
    <3>6. QED
      BY <2>1, <3>3, <3>4, <3>5
  <2>3. CASE lease.token # c
    BY <1>5, <2>1, <2>3 DEF Release
  <2>4. QED
    BY <2>2, <2>3
<1>6. ASSUME NEW c \in Call, NEW read \in Reads, Authorize(c, read)
      PROVE  LeaseInv'
  BY <1>6, AuthorizeStep DEF Shows, HoldsLease
<1>7. ASSUME NEW c \in Call, NEW cleanup \in BOOLEAN, Write(c, cleanup)
      PROVE  LeaseInv'
  BY <1>7 DEF Write, Goto
<1>8. ASSUME NEW c \in Call, ReadRow(c) PROVE LeaseInv'
  BY <1>8 DEF ReadRow, Goto
<1>9. ASSUME NEW c \in Call, TakeNonce(c) PROVE LeaseInv'
  BY <1>9 DEF TakeNonce, Goto, Abort, Fresh
<1>10. ASSUME NEW c \in Call, Sign(c) PROVE LeaseInv'
  BY <1>10 DEF Sign, Goto
<1>11. ASSUME NEW c \in Call, Dispatch(c) PROVE LeaseInv'
  BY <1>11 DEF Dispatch, Goto, Fresh
<1>12. ASSUME NEW r \in sent, Accept(r) PROVE LeaseInv'
  BY <1>12 DEF Accept
<1>13. ASSUME NEW enabled \in BOOLEAN, UpdateBook(enabled) PROVE LeaseInv'
  BY <1>13 DEF UpdateBook
<1>14. ASSUME NEW on \in BOOLEAN, SetKillSwitch(on) PROVE LeaseInv'
  BY <1>14 DEF SetKillSwitch
<1>15. CASE Tick
  BY <1>15 DEF Tick
<1>16. CASE UNCHANGED vars
  BY <1>16 DEF vars
<1>17. QED
  BY <1>1, <1>2, <1>3, <1>4, <1>5, <1>6, <1>7, <1>8, <1>9, <1>10, <1>11,
     <1>12, <1>13, <1>14, <1>15, <1>16 DEF Next

\* The row gives each nonce out once, and a call sends each of its own once.
LEMMA NonceStep ==
  ASSUME TypeOK, NonceInv, [Next]_vars
  PROVE  NonceInv'
<1> USE DEF TypeOK, NonceInv, SentNonces, Numbered, Local, Reads, shared,
        venue, history
<1>1. ASSUME NEW c \in Call, Start(c) PROVE NonceInv'
  BY <1>1 DEF Start, Goto, Fresh
<1>2. ASSUME NEW c \in Call, Claim(c) PROVE NonceInv'
  BY <1>2 DEF Claim, Goto
<1>3. ASSUME NEW c \in Call, Busy(c) PROVE NonceInv'
  BY <1>3 DEF Busy, Goto, Fresh
<1>4. ASSUME NEW c \in Call, Renew(c) PROVE NonceInv'
  BY <1>4 DEF Renew
<1>5. ASSUME NEW c \in Call, Release(c) PROVE NonceInv'
  BY <1>5 DEF Release, Goto, Fresh
<1>6. ASSUME NEW c \in Call, NEW read \in Reads, Authorize(c, read)
      PROVE  NonceInv'
  BY <1>6, AuthorizeStep
<1>7. ASSUME NEW c \in Call, NEW cleanup \in BOOLEAN, Write(c, cleanup)
      PROVE  NonceInv'
  BY <1>7 DEF Write, Goto
<1>8. ASSUME NEW c \in Call, ReadRow(c) PROVE NonceInv'
  <2>1. /\ UNCHANGED <<lease, sent, issued>>
        /\ pc' = [pc EXCEPT ![c] = "cas"]
        /\ local'[c].seen = lease.nonce /\ local'[c].nonce = NextNonce
        /\ \A d \in Call : d # c => local'[d] = local[d]
    BY <1>8 DEF ReadRow, Goto
  <2>2. NextNonce > lease.nonce
    BY DEF NextNonce, Max2
  <2>3. QED
    BY <2>1, <2>2
<1>9. ASSUME NEW c \in Call, TakeNonce(c) PROVE NonceInv'
  <2>1. CASE ~OwnsNonce(c)
    <3>1. /\ UNCHANGED <<lease, sent, issued>>
          /\ pc' = [pc EXCEPT ![c] = "task"]
          /\ \A d \in Call : d # c => local'[d] = local[d]
      BY <1>9, <2>1 DEF TakeNonce, Goto, Abort
    <3>2. QED
      BY <3>1
  <2>2. CASE OwnsNonce(c)
    <3> DEFINE new == [call |-> c, nonce |-> local[c].nonce]
    <3>1. /\ UNCHANGED <<sent, local>>
          /\ lease'.nonce = local[c].nonce
          /\ issued' = issued \cup {new}
          /\ pc' = [pc EXCEPT ![c] = "sign"]
      BY <1>9, <2>2 DEF TakeNonce, Goto
    <3>2. /\ local[c].nonce \in Nat /\ lease.nonce \in Nat
          /\ local[c].nonce > lease.nonce
      BY <1>9, <2>2 DEF TakeNonce, OwnsNonce
    <3>3. \A i \in issued : i.nonce \in Nat /\ i.nonce < local[c].nonce
      BY <3>2
    <3>4. \A i \in issued' : i.nonce <= lease'.nonce
      BY <3>1, <3>2, <3>3
    <3>5. \A i, j \in issued' : i.nonce = j.nonce => i = j
      BY <3>1, <3>3
    <3>6. \A r \in sent : r.nonce \in Nat /\ r.nonce < local[c].nonce
      <4>1. ASSUME NEW r \in sent
            PROVE  r.nonce \in Nat /\ r.nonce < local[c].nonce
        <5>1. [call |-> r.call, nonce |-> r.nonce] \in issued
          OBVIOUS
        <5>2. QED
          BY <3>3, <5>1
      <4>2. QED
        BY <4>1
    <3>7. \A d \in Call : Numbered(d)' =>
            /\ [call |-> d, nonce |-> local'[d].nonce] \in issued'
            /\ \A r \in sent' : r.nonce # local'[d].nonce
      BY <3>1, <3>6
    <3>8. \A d \in Call : pc'[d] = "cas" => local'[d].nonce > local'[d].seen
      BY <3>1
    <3>9. SentNonces'
      BY <3>1
    <3>10. QED
      BY <3>4, <3>5, <3>7, <3>8, <3>9
  <2>3. QED
    BY <2>1, <2>2
<1>10. ASSUME NEW c \in Call, Sign(c) PROVE NonceInv'
  BY <1>10 DEF Sign, Goto
<1>11. ASSUME NEW c \in Call, Dispatch(c) PROVE NonceInv'
  <2> DEFINE new == [call |-> c, version |-> local[c].version,
                     cleanup |-> local[c].cleanup, nonce |-> local[c].nonce,
                     expiresAfter |-> local[c].expiresAfter]
  <2>1. /\ UNCHANGED <<lease, issued>>
        /\ pc' = [pc EXCEPT ![c] = "task"]
        /\ \A d \in Call : d # c => local'[d] = local[d]
        /\ sent' = sent \cup {new}
    BY <1>11 DEF Dispatch, Goto
  <2>2. /\ [call |-> c, nonce |-> local[c].nonce] \in issued
        /\ \A r \in sent : r.nonce # local[c].nonce
    BY <1>11 DEF Dispatch
  <2>3. new.call = c /\ new.nonce = local[c].nonce
    OBVIOUS
  <2>4. SentNonces'
    BY <2>1, <2>2, <2>3
  <2>5. ASSUME NEW d \in Call, Numbered(d)'
        PROVE  /\ d # c /\ Numbered(d) /\ local'[d] = local[d]
               /\ local[d].nonce # local[c].nonce
    <3>1. d # c /\ Numbered(d)
      BY <2>1, <2>5
    <3>2. [call |-> d, nonce |-> local[d].nonce] \in issued
      BY <3>1
    <3>3. [call |-> d, nonce |-> local[d].nonce]
            # [call |-> c, nonce |-> local[c].nonce]
      BY <3>1
    <3>4. QED
      BY <2>1, <2>2, <3>1, <3>2, <3>3
  <2>6. \A d \in Call : Numbered(d)' =>
          /\ [call |-> d, nonce |-> local'[d].nonce] \in issued'
          /\ \A r \in sent' : r.nonce # local'[d].nonce
    BY <2>1, <2>3, <2>5
  <2>7. \A d \in Call : pc'[d] = "cas" => local'[d].nonce > local'[d].seen
    BY <2>1
  <2>8. QED
    BY <2>1, <2>4, <2>6, <2>7
<1>12. ASSUME NEW r \in sent, Accept(r) PROVE NonceInv'
  BY <1>12 DEF Accept
<1>13. ASSUME NEW enabled \in BOOLEAN, UpdateBook(enabled) PROVE NonceInv'
  BY <1>13 DEF UpdateBook
<1>14. ASSUME NEW on \in BOOLEAN, SetKillSwitch(on) PROVE NonceInv'
  BY <1>14 DEF SetKillSwitch
<1>15. CASE Tick
  BY <1>15 DEF Tick
<1>16. CASE UNCHANGED vars
  BY <1>16 DEF vars
<1> HIDE DEF TypeOK, NonceInv
<1>17. QED
  BY <1>1, <1>2, <1>3, <1>4, <1>5, <1>6, <1>7, <1>8, <1>9, <1>10, <1>11,
     <1>12, <1>13, <1>14, <1>15, <1>16 DEF Next

-----------------------------------------------------------------------------
(* The invariant, and what follows from it *)

IInv == TypeOK /\ StampInv /\ KillInv /\ BookInv /\ LeaseInv /\ NonceInv

LEMMA InitInv == Init => IInv
<1> SUFFICES ASSUME Init PROVE IInv
  OBVIOUS
<1>1. TypeOK
  BY TypeInit
<1>2. StampInv /\ KillInv
  BY DEF Init, StampInv, KillInv, Stamped, Passed
<1>3. BookInv
  BY DEF Init, BookInv, Passed, Fresh
<1>4. LeaseInv
  BY CallAssumption DEF Init, LeaseInv, Passed
<1>5. NonceInv
  BY DEF Init, NonceInv, Numbered, SentNonces
<1>6. QED
  BY <1>1, <1>2, <1>3, <1>4, <1>5 DEF IInv

\* The invariant is inductive, for every instance of the constants.
THEOREM Inductive == Spec => []IInv
<1>1. IInv /\ [Next]_vars => IInv'
  BY TypeStep, StampStep, KillStep, BookStep, LeaseStep, NonceStep DEF IInv
<1>2. QED
  BY InitInv, <1>1, PTL DEF Spec

\* The exchange acts on what was sent, before it expires, and nothing else
\* happens in that step.
LEMMA AcceptStep ==
  ASSUME [Next]_vars, NEW r \in New
  PROVE  r \in sent /\ now <= r.expiresAfter
<1>1. accepted' # accepted
  BY DEF New
<1>2. PICK q \in sent : Accept(q)
  BY <1>1 DEF Next, vars, shared, venue, history, Start, Claim, Busy, Renew,
     Release, Authorize, Write, ReadRow, TakeNonce, Sign, Dispatch, UpdateBook,
     SetKillSwitch, Tick
<1>3. QED
  BY <1>2 DEF Accept, New

\* Requests are numbered by the lease row, each once: two processes that both
\* believe they hold the lease never sign with the same nonce.
THEOREM NoncesAreUnique == Spec => []SentNonces
<1>1. IInv => SentNonces
  BY DEF IInv, NonceInv
<1>2. QED
  BY Inductive, <1>1, PTL

\* However long calls stall between their last check and their POST, the
\* exchange acts on no order more than Window after the kill switch goes on.
THEOREM KillSwitchHolds == Spec => KillStopsOrders
<1>1. ASSUME IInv, [Next]_vars, NEW r \in New, kill, ~r.cleanup
      PROVE  now <= killedAt + Window
  <2>1. r \in sent /\ now <= r.expiresAfter
    BY <1>1, AcceptStep
  <2>2. r.expiresAfter <= killedAt + Window
    BY <1>1, <2>1 DEF IInv, KillInv
  <2>3. now \in Nat /\ r.expiresAfter \in Nat /\ killedAt + Window \in Nat
    BY <1>1, <2>1, BoundAssumption DEF IInv, TypeOK, Request
  <2>4. QED
    BY <2>1, <2>2, <2>3
<1>2. IInv /\ [Next]_vars =>
        \A r \in New : kill /\ ~r.cleanup => now <= killedAt + Window
  BY <1>1
<1>3. QED
  BY Inductive, <1>2, PTL DEF KillStopsOrders, Spec

\* A mandate that has been replaced authorises nothing more than Window
\* after, and a disabled version no order at all.
THEOREM MandateHolds == Spec => MandateStopsWrites
<1>1. ASSUME IInv, [Next]_vars, NEW r \in New
      PROVE  /\ r.version # book.version =>
                  now <= replacedAt[r.version] + Window
             /\ r.version = book.version /\ ~r.cleanup => book.enabled
  <2>1. r \in sent /\ now <= r.expiresAfter
    BY <1>1, AcceptStep
  <2>2. BookBound(r.version, r.cleanup, r.expiresAfter)
    BY <1>1, <2>1 DEF IInv, BookInv
  <2>3. now \in Nat /\ r.expiresAfter \in Nat
    BY <1>1, <2>1 DEF IInv, TypeOK, Request
  <2>4. r.version \in Versions => replacedAt[r.version] + Window \in Nat
    BY <1>1, BoundAssumption DEF IInv, TypeOK
  <2>5. QED
    BY <2>1, <2>2, <2>3, <2>4 DEF BookBound
<1>2. IInv /\ [Next]_vars =>
        \A r \in New :
          /\ r.version # book.version =>
               now <= replacedAt[r.version] + Window
          /\ r.version = book.version /\ ~r.cleanup => book.enabled
  BY <1>1
<1>3. QED
  BY Inductive, <1>2, PTL DEF MandateStopsWrites, Spec

\* A call that lost the lease, however late it notices, is cut off within
\* Window of losing it.
THEOREM TakeoverHolds == Spec => TakeoverStopsWrites
<1>1. ASSUME IInv, [Next]_vars, NEW r \in New, lease.token # r.call
      PROVE  now <= lostAt[r.call] + Window
  <2>1. r \in sent /\ now <= r.expiresAfter
    BY <1>1, AcceptStep
  <2>2. r.expiresAfter <= lostAt[r.call] + Window
    BY <1>1, <2>1 DEF IInv, LeaseInv
  <2>3. /\ now \in Nat /\ r.expiresAfter \in Nat
        /\ lostAt[r.call] + Window \in Nat
    BY <1>1, <2>1, BoundAssumption DEF IInv, TypeOK, Request
  <2>4. QED
    BY <2>1, <2>2, <2>3
<1>2. IInv /\ [Next]_vars =>
        \A r \in New : lease.token # r.call => now <= lostAt[r.call] + Window
  BY <1>1
<1>3. QED
  BY Inductive, <1>2, PTL DEF TakeoverStopsWrites, Spec

-----------------------------------------------------------------------------
(* The lease row implements NonceTenure *)

\* Every step of the row is a step of the abstract tenure, or stutters there.
LEMMA TenureStep ==
  ASSUME IInv, [Next]_vars
  PROVE  [Tenure!Next]_(Tenure!tenureVars)
<1> USE DEF Tenure!tenureVars, shared, venue, history
<1>1. ASSUME NEW c \in Call, Claim(c) PROVE Tenure!Begin(c)
  <2>1. rank[c] = 0
    BY <1>1 DEF IInv, LeaseInv, Claim
  <2>2. lease'.token = c /\ lease'.nonce = lease.nonce
    BY <1>1 DEF Claim, IInv, TypeOK
  <2>3. QED
    BY <1>1, <2>1, <2>2 DEF Claim, Tenure!Begin
<1>2. ASSUME NEW c \in Call, TakeNonce(c)
      PROVE  Tenure!Issue(c) \/ UNCHANGED Tenure!tenureVars
  <2>1. CASE OwnsNonce(c)
    <3>1. local[c].nonce \in Nat /\ local[c].nonce > lease.nonce
      BY <1>2, <2>1 DEF TakeNonce, OwnsNonce, IInv, NonceInv, TypeOK, Local
    <3>2. lease'.nonce = local[c].nonce /\ lease'.token = lease.token
      BY <1>2, <2>1 DEF TakeNonce, IInv, TypeOK
    <3>3. QED
      BY <1>2, <2>1, <3>1, <3>2 DEF TakeNonce, OwnsNonce, Tenure!Issue
  <2>2. CASE ~OwnsNonce(c)
    BY <1>2, <2>2 DEF TakeNonce
  <2>3. QED
    BY <2>1, <2>2
<1>3. ASSUME NEW c \in Call, Release(c)
      PROVE  Tenure!End \/ UNCHANGED Tenure!tenureVars
  <2>1. CASE lease.token = c
    <3>1. lease'.token = NoCall /\ lease'.nonce = lease.nonce
      BY <1>3, <2>1 DEF Release, IInv, TypeOK
    <3>2. QED
      BY <1>3, <3>1, CallAssumption DEF Release, Tenure!End
  <2>2. CASE lease.token # c
    BY <1>3, <2>2 DEF Release
  <2>3. QED
    BY <2>1, <2>2
<1>4. ASSUME NEW c \in Call, Renew(c) PROVE UNCHANGED Tenure!tenureVars
  BY <1>4 DEF Renew, IInv, TypeOK
<1>5. ASSUME NEW c \in Call, NEW read \in Reads, Authorize(c, read)
      PROVE  UNCHANGED Tenure!tenureVars
  BY <1>5 DEF Authorize
<1>6. ASSUME NEW c \in Call,
             \/ Start(c) \/ Busy(c) \/ ReadRow(c) \/ Sign(c) \/ Dispatch(c)
             \/ \E cleanup \in BOOLEAN : Write(c, cleanup)
      PROVE  UNCHANGED Tenure!tenureVars
  BY <1>6 DEF Start, Busy, ReadRow, Sign, Dispatch, Write
<1>7. CASE \/ \E r \in sent : Accept(r)
           \/ \E enabled \in BOOLEAN : UpdateBook(enabled)
           \/ \E on \in BOOLEAN : SetKillSwitch(on)
           \/ Tick \/ UNCHANGED vars
  BY <1>7 DEF Accept, UpdateBook, SetKillSwitch, Tick, vars
<1>8. QED
  BY <1>1, <1>2, <1>3, <1>4, <1>5, <1>6, <1>7 DEF Next, Tenure!Next

\* The lease keeps the promise of NonceTenure: one holder after another, and
\* nonces issued to the present holder only, each above all before it.
THEOREM LeaseImplementsTenure == Spec => ImplementsTenure
<1>1. Init => Tenure!Init
  BY CallAssumption DEF Init, Tenure!Init
<1>2. QED
  BY Inductive, TenureStep, <1>1, PTL DEF ImplementsTenure, Tenure!Spec, Spec

-----------------------------------------------------------------------------
(* What the abstract specification promises, for any set of calls.  It has  *)
(* the names it has here: the holder is the lease's token, and the last     *)
(* nonce is the lease's.                                                    *)

TenureTypes ==
  /\ turn \in Nat
  /\ rank \in [Call -> Nat]
  /\ lease.nonce \in Nat
  /\ issued \subseteq [call : Call, nonce : Nat]

\* The holder is the latest; every nonce went to a call that had its turn; the
\* last nonce issued is the largest.
TenureInv ==
  /\ TenureTypes
  /\ \A c \in Call : rank[c] <= turn
  /\ lease.token \in Call => rank[lease.token] = turn /\ turn # 0
  /\ \A a \in issued : rank[a.call] # 0 /\ a.nonce <= lease.nonce
  /\ Tenure!TenureOrder
  /\ Tenure!NonceUnique

LEMMA TenureInit == Tenure!Init => TenureInv
BY DEF Tenure!Init, TenureInv, TenureTypes, Tenure!TenureOrder,
       Tenure!NonceUnique

\* A new tenure comes after all others and has issued nothing.
LEMMA TenureBegin ==
  ASSUME TenureInv, NEW c \in Call, Tenure!Begin(c)
  PROVE  TenureInv'
<1>1. \A d \in Call : rank'[d] = IF d = c THEN turn + 1 ELSE rank[d]
  BY DEF Tenure!Begin, TenureInv, TenureTypes
<1>2. \A a \in issued : a.call \in Call /\ rank'[a.call] = rank[a.call]
  BY <1>1 DEF Tenure!Begin, TenureInv, TenureTypes
<1>3. TenureTypes'
  BY DEF Tenure!Begin, TenureInv, TenureTypes
<1>4. \A d \in Call : rank'[d] <= turn'
  BY <1>1 DEF Tenure!Begin, TenureInv, TenureTypes
<1>5. Tenure!TenureOrder' /\ Tenure!NonceUnique'
  BY <1>2 DEF Tenure!Begin, TenureInv, Tenure!TenureOrder, Tenure!NonceUnique
<1>6. lease.token' \in Call => rank'[lease.token'] = turn' /\ turn' # 0
  BY <1>1 DEF Tenure!Begin, TenureInv, TenureTypes
<1>7. QED
  BY <1>2, <1>3, <1>4, <1>5, <1>6 DEF Tenure!Begin, TenureInv

LEMMA TenureEnd == TenureInv /\ Tenure!End => TenureInv'
BY DEF Tenure!End, TenureInv, TenureTypes, Tenure!TenureOrder,
       Tenure!NonceUnique

\* What the holder is issued is above everything issued before it.
LEMMA TenureIssue ==
  ASSUME TenureInv, NEW c \in Call, Tenure!Issue(c)
  PROVE  TenureInv'
<1> DEFINE new == [call |-> c, nonce |-> lease.nonce']
<1>1. /\ issued' = issued \cup {new}
      /\ UNCHANGED <<lease.token, turn, rank>>
      /\ lease.nonce' \in Nat /\ lease.nonce' > lease.nonce
      /\ rank[c] = turn /\ turn # 0
  BY DEF Tenure!Issue, TenureInv
<1>2. \A a \in issued :
        a.call \in Call /\ a.nonce \in Nat /\ a.nonce < lease.nonce'
  BY <1>1 DEF TenureInv, TenureTypes
<1>3. TenureTypes'
  BY <1>1 DEF TenureInv, TenureTypes
<1>4. \A a \in issued' : rank'[a.call] # 0 /\ a.nonce <= lease.nonce'
  BY <1>1, <1>2 DEF TenureInv, TenureTypes
<1>5. Tenure!TenureOrder'
  <2>1. \A a \in issued : ~(rank[c] < rank[a.call])
    BY <1>1, <1>2 DEF TenureInv, TenureTypes
  <2>2. new.call = c /\ new.nonce = lease.nonce'
    OBVIOUS
  <2>3. QED
    BY <1>1, <1>2, <2>1, <2>2 DEF TenureInv, Tenure!TenureOrder, TenureTypes
<1>6. Tenure!NonceUnique'
  BY <1>1, <1>2 DEF TenureInv, Tenure!NonceUnique
<1>7. QED
  BY <1>1, <1>3, <1>4, <1>5, <1>6 DEF TenureInv

LEMMA TenureNext ==
  TenureInv /\ [Tenure!Next]_(Tenure!tenureVars) => TenureInv'
<1> SUFFICES ASSUME TenureInv, [Tenure!Next]_(Tenure!tenureVars)
             PROVE  TenureInv'
  OBVIOUS
<1>1. CASE UNCHANGED Tenure!tenureVars
  BY <1>1 DEF TenureInv, TenureTypes, Tenure!TenureOrder, Tenure!NonceUnique,
              Tenure!tenureVars
<1>2. CASE Tenure!Next
  BY <1>2, TenureBegin, TenureEnd, TenureIssue DEF Tenure!Next
<1>3. QED
  BY <1>1, <1>2

\* A later holder's nonces are all above an earlier one's.
THEOREM LaterTenureSignsLater == Tenure!Spec => []Tenure!TenureOrder
<1>1. TenureInv => Tenure!TenureOrder
  BY DEF TenureInv
<1>2. QED
  BY TenureInit, TenureNext, <1>1, PTL DEF Tenure!Spec

\* No two issued nonces are equal.
THEOREM NonceIssuedOnce == Tenure!Spec => []Tenure!NonceUnique
<1>1. TenureInv => Tenure!NonceUnique
  BY DEF TenureInv
<1>2. QED
  BY TenureInit, TenureNext, <1>1, PTL DEF Tenure!Spec

\* So the venue can order what two calls sign by the nonce alone: a call that
\* took the lease over signs above everything its predecessors ever will.
THEOREM LeaseOrdersNonces == Spec => []Tenure!TenureOrder
BY LeaseImplementsTenure, LaterTenureSignsLater DEF ImplementsTenure
=============================================================================
