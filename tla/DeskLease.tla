----------------------------- MODULE DeskLease -----------------------------
(***************************************************************************)
(* The write path of an autonomous desk: DeskExecution.locked, authorize   *)
(* and write (src/lib/desk/execution.ts) with the signing steps of the     *)
(* venue adapter (src/lib/desk/venue.ts).                                  *)
(*                                                                         *)
(* Several calls, in several processes (the web server's routes and the    *)
(* desk worker's tasks), want to sign with one credential.  One database   *)
(* row per owner and network is the lease and the nonce counter; the book  *)
(* row and the kill switch are read again and again on the way to the      *)
(* POST.  Every await is a step of its own here, so that everything else   *)
(* may happen in between; the three reads of authorize are concurrent in   *)
(* the code (Promise.all) and are three steps in any order.                *)
(*                                                                         *)
(* A call is one execution of locked(); its random token is its identity.  *)
(* Nothing obliges a call to go on or to renew: a crash is a call that     *)
(* takes no further step, and releases nothing.                            *)
(* The clocks of the hosts and of the venue are one clock (README).        *)
(***************************************************************************)
EXTENDS Integers

CONSTANTS Call,        \* calls of DeskExecution.locked, one token each
          NoCall,      \* the empty token of a released lease
          LeaseTTL,    \* 60 s in the code: how long a claim or renewal lasts
          Window,      \* 8 s in the code: expiresAfter - time of signing
          MaxTime,     \* bound on the clock
          MaxNonce,    \* bound on the nonces
          MaxVersion   \* bound on the book's version

ASSUME CallAssumption == NoCall \notin Call
ASSUME BoundAssumption ==
  /\ LeaseTTL \in Nat \ {0}
  /\ Window \in Nat
  /\ MaxTime \in Nat
  /\ MaxNonce \in Nat
  /\ MaxVersion \in Nat \ {0}

VARIABLES
  now,         \* the clock
  lease,       \* the DeskExecutionLease row
  book,        \* version and enabled of the DeskBook row
  kill,        \* walletRiskControl.killSwitch
  pc,          \* where each call is
  reads,       \* the reads of authorize that a call still waits for
  local,       \* the call's own variables
  sent,        \* requests POSTed to the exchange
  accepted,    \* requests the exchange has acted on
  \* History, read by no action:
  turn, rank,  \* the order in which calls were granted the lease
  issued,      \* the nonces the lease row has given out
  lostAt,      \* lostAt[c]: when c's token left the lease row
  replacedAt,  \* replacedAt[v]: when version v of the book was replaced
  killedAt     \* when the kill switch was last turned on

shared == <<lease, book, kill>>
venue == <<sent, accepted>>
history == <<turn, rank, issued, lostAt, replacedAt, killedAt>>
vars == <<now, shared, pc, reads, local, venue, history>>

-----------------------------------------------------------------------------

Versions == 1 .. MaxVersion

\* What authorize reads with one Promise.all.
Reads == {"lease", "book", "kill"}

\* The three places where a write waits for authorize: at the head of
\* DeskExecution.write, in the venue adapter before it stamps and signs, and
\* again between the signature and the POST.
AuthorizePoints == {"write", "sign", "post"}
After == [write |-> "row", sign |-> "stamp", post |-> "dispatch"]

\* A call runs its task, and may be renewed, from the claim to the release.
Holding == AuthorizePoints \cup {"task", "row", "cas", "stamp", "dispatch"}
Points == Holding \cup {"new", "claim", "done"}

Local == [version : 0 .. MaxVersion, cleanup : BOOLEAN, seen : Nat,
          nonce : Nat, expiresAfter : Nat]
Request == [call : Call, version : 0 .. MaxVersion, cleanup : BOOLEAN,
            nonce : Nat, expiresAfter : Nat]

\* Between two writes a call remembers only the book row it was given.
Fresh(version) == [version |-> version, cleanup |-> FALSE, seen |-> 0,
                   nonce |-> 0, expiresAfter |-> 0]

Max2(a, b) == IF a >= b THEN a ELSE b

Init ==
  /\ now = 1
  /\ lease = [token |-> NoCall, expiresAt |-> 0, nonce |-> 0]
  /\ book = [version |-> 1, enabled |-> TRUE]
  /\ kill = FALSE
  /\ pc = [c \in Call |-> "new"]
  /\ reads = [c \in Call |-> {}]
  /\ local = [c \in Call |-> Fresh(0)]
  /\ sent = {}
  /\ accepted = {}
  /\ turn = 0
  /\ rank = [c \in Call |-> 0]
  /\ issued = {}
  /\ lostAt = [c \in Call |-> 0]
  /\ replacedAt = [v \in Versions |-> 0]
  /\ killedAt = 0

-----------------------------------------------------------------------------
(* locked() *)

Goto(c, point) == pc' = [pc EXCEPT ![c] = point]

\* locked() reads the book before it asks for the lease, and creates the
\* lease row, already expired, when there is none.
Start(c) ==
  /\ pc[c] = "new"
  /\ Goto(c, "claim")
  /\ local' = [local EXCEPT ![c] = Fresh(book.version)]
  /\ UNCHANGED <<now, shared, reads, venue, history>>

LeaseFree == lease.expiresAt < now

\* One updateMany takes the row if its term is over, whoever's it was.
Claim(c) ==
  /\ pc[c] = "claim"
  /\ LeaseFree
  /\ lease' = [lease EXCEPT !.token = c, !.expiresAt = now + LeaseTTL]
  /\ Goto(c, "task")
  /\ turn' = turn + 1
  /\ rank' = [rank EXCEPT ![c] = turn + 1]
  /\ lostAt' = IF lease.token \in Call
                 THEN [lostAt EXCEPT ![lease.token] = now] ELSE lostAt
  /\ UNCHANGED <<now, book, kill, reads, local, venue, issued, replacedAt,
                 killedAt>>

\* "Desk execution busy; retry with the same intent key"
Busy(c) ==
  /\ pc[c] = "claim"
  /\ ~LeaseFree
  /\ Goto(c, "done")
  /\ local' = [local EXCEPT ![c] = Fresh(0)]
  /\ UNCHANGED <<now, shared, reads, venue, history>>

\* The interval timer extends the row as long as the token is still there,
\* even past the end of the term.  It may fail silently: it need not happen.
Renew(c) ==
  /\ pc[c] \in Holding
  /\ lease.token = c
  /\ lease.expiresAt # now + LeaseTTL
  /\ lease' = [lease EXCEPT !.expiresAt = now + LeaseTTL]
  /\ UNCHANGED <<now, book, kill, pc, reads, local, venue, history>>

\* new Date(0)
Past == 0

\* The finally block: the task is over and the row is given back, if it is
\* still this call's.
Release(c) ==
  /\ pc[c] = "task"
  /\ Goto(c, "done")
  /\ local' = [local EXCEPT ![c] = Fresh(0)]
  /\ IF lease.token = c
       THEN /\ lease' = [lease EXCEPT !.token = NoCall, !.expiresAt = Past]
            /\ lostAt' = [lostAt EXCEPT ![c] = now]
       ELSE UNCHANGED <<lease, lostAt>>
  /\ UNCHANGED <<now, book, kill, reads, venue, turn, rank, issued,
                 replacedAt, killedAt>>

-----------------------------------------------------------------------------
(* authorize() *)

\* A write throws: the task goes on without it.
Abort(c) ==
  /\ Goto(c, "task")
  /\ reads' = [reads EXCEPT ![c] = {}]
  /\ local' = [local EXCEPT ![c] = Fresh(@.version)]

\* Variant: an unexpired lease will do, whoever's it is.
HoldsAnyLease(c) == lease.expiresAt >= now

\* Variant: the book row is not compared with the one locked() was given.
AnyBook(c) == TRUE

\* What each of the three reads must show for authorize to return.
HoldsLease(c) == lease.token = c /\ lease.expiresAt >= now
SameBook(c) == book.version = local[c].version
MayTrade(c) == local[c].cleanup \/ ~kill
Enabled(c) == local[c].cleanup \/ book.enabled
Shows(c, read) ==
  CASE read = "lease" -> HoldsLease(c)
    [] read = "book"  -> SameBook(c) /\ Enabled(c)
    [] read = "kill"  -> MayTrade(c)

\* One of the reads comes back.  The code throws once all three are in; that
\* a failing read aborts at once here only removes steps without effect.
Authorize(c, read) ==
  /\ pc[c] \in AuthorizePoints
  /\ read \in reads[c]
  /\ IF Shows(c, read)
       THEN /\ reads' = [reads EXCEPT ![c] = @ \ {read}]
            /\ IF reads[c] = {read} THEN Goto(c, After[pc[c]]) ELSE pc' = pc
            /\ local' = local
       ELSE Abort(c)
  /\ UNCHANGED <<now, shared, venue, history>>

-----------------------------------------------------------------------------
(* write() and the signing steps of the venue *)

\* The task calls write(); cleanup is TRUE for cancellations.
Write(c, cleanup) ==
  /\ pc[c] = "task"
  /\ lease.nonce < MaxNonce
  /\ Goto(c, "write")
  /\ reads' = [reads EXCEPT ![c] = Reads]
  /\ local' = [local EXCEPT ![c].cleanup = cleanup]
  /\ UNCHANGED <<now, shared, venue, history>>

\* Variant: two writes in one millisecond are not told apart.
ClockNonce == Max2(now, lease.nonce)

NextNonce == Max2(now, lease.nonce + 1)

\* The row is read and the next nonce computed from it and the clock.
ReadRow(c) ==
  /\ pc[c] = "row"
  /\ Goto(c, "cas")
  /\ local' = [local EXCEPT ![c].seen = lease.nonce, ![c].nonce = NextNonce]
  /\ UNCHANGED <<now, shared, reads, venue, history>>

\* Variant: the compare-and-set names the nonce but not the token.
OwnsNonceUnfenced(c) == lease.nonce = local[c].seen

\* The nonce is taken only from the row that was read, and only while the
\* token is in it ("Nonce ownership lost").
OwnsNonce(c) == lease.token = c /\ lease.nonce = local[c].seen

TakeNonce(c) ==
  /\ pc[c] = "cas"
  /\ IF OwnsNonce(c)
       THEN /\ lease' = [lease EXCEPT !.nonce = local[c].nonce]
            /\ issued' = issued \cup {[call |-> c, nonce |-> local[c].nonce]}
            /\ Goto(c, "sign")
            /\ reads' = [reads EXCEPT ![c] = Reads]
            /\ local' = local
       ELSE /\ Abort(c)
            /\ UNCHANGED <<lease, issued>>
  /\ UNCHANGED <<now, book, kill, venue, turn, rank, lostAt, replacedAt,
                 killedAt>>

\* expiresAfter is fixed, and the action signed with it, before authorize is
\* asked for the last time.
Sign(c) ==
  /\ pc[c] = "stamp"
  /\ local' = [local EXCEPT ![c].expiresAfter = now + Window]
  /\ Goto(c, "post")
  /\ reads' = [reads EXCEPT ![c] = Reads]
  /\ UNCHANGED <<now, shared, venue, history>>

\* Variant: expiresAfter is set when the request leaves, after the last check.
DispatchStampedLate(c) ==
  /\ pc[c] = "dispatch"
  /\ sent' = sent \cup {[call |-> c, version |-> local[c].version,
                         cleanup |-> local[c].cleanup,
                         nonce |-> local[c].nonce,
                         expiresAfter |-> now + Window]}
  /\ Goto(c, "task")
  /\ local' = [local EXCEPT ![c] = Fresh(@.version)]
  /\ UNCHANGED <<now, shared, reads, accepted, history>>

\* onDispatch() and the POST.  The call goes on when the answer comes or its
\* own timeout fires; the request may still be under way.
Dispatch(c) ==
  /\ pc[c] = "dispatch"
  /\ sent' = sent \cup {[call |-> c, version |-> local[c].version,
                         cleanup |-> local[c].cleanup,
                         nonce |-> local[c].nonce,
                         expiresAfter |-> local[c].expiresAfter]}
  /\ Goto(c, "task")
  /\ local' = [local EXCEPT ![c] = Fresh(@.version)]
  /\ UNCHANGED <<now, shared, reads, accepted, history>>

-----------------------------------------------------------------------------
(* The exchange, the operator and the clock *)

\* The exchange acts on a request at any time until expiresAfter.
Accept(r) ==
  /\ r \notin accepted
  /\ now <= r.expiresAfter
  /\ accepted' = accepted \cup {r}
  /\ UNCHANGED <<now, shared, pc, reads, local, sent, history>>

\* updateBook: every change, of the mandate or of enabled, is a new version.
UpdateBook(enabled) ==
  /\ book.version < MaxVersion
  /\ book' = [version |-> book.version + 1, enabled |-> enabled]
  /\ replacedAt' = [replacedAt EXCEPT ![book.version] = now]
  /\ UNCHANGED <<now, lease, kill, pc, reads, local, venue, turn, rank,
                 issued, lostAt, killedAt>>

SetKillSwitch(on) ==
  /\ kill # on
  /\ kill' = on
  /\ killedAt' = IF on THEN now ELSE killedAt
  /\ UNCHANGED <<now, lease, book, pc, reads, local, venue, turn, rank,
                 issued, lostAt, replacedAt>>

Tick ==
  /\ now < MaxTime
  /\ now' = now + 1
  /\ UNCHANGED <<shared, pc, reads, local, venue, history>>

Next ==
  \/ \E c \in Call :
       \/ Start(c) \/ Claim(c) \/ Busy(c) \/ Renew(c) \/ Release(c)
       \/ \E read \in Reads : Authorize(c, read)
       \/ \E cleanup \in BOOLEAN : Write(c, cleanup)
       \/ ReadRow(c) \/ TakeNonce(c) \/ Sign(c) \/ Dispatch(c)
  \/ \E r \in sent : Accept(r)
  \/ \E enabled \in BOOLEAN : UpdateBook(enabled)
  \/ \E on \in BOOLEAN : SetKillSwitch(on)
  \/ Tick

Spec == Init /\ [][Next]_vars

-----------------------------------------------------------------------------
(* Properties *)

\* The rows, the calls' variables and the requests keep their types; every
\* request the exchange has acted on was sent.
TypeOK ==
  /\ now \in Nat
  /\ lease \in [token : Call \cup {NoCall}, expiresAt : Nat, nonce : Nat]
  /\ book \in [version : Versions, enabled : BOOLEAN]
  /\ kill \in BOOLEAN
  /\ pc \in [Call -> Points]
  /\ reads \in [Call -> SUBSET Reads]
  /\ local \in [Call -> Local]
  /\ sent \subseteq Request
  /\ accepted \subseteq sent
  /\ turn \in Nat
  /\ rank \in [Call -> Nat]
  /\ issued \subseteq [call : Call, nonce : Nat]
  /\ lostAt \in [Call -> Nat]
  /\ replacedAt \in [Versions -> Nat]
  /\ killedAt \in Nat

\* The requests the exchange acts on in a step.
New == accepted' \ accepted

\* Once the kill switch has been on for Window, the exchange acts on no order
\* that was decided before it, however long a call stalled between its last
\* check and its POST.  Cancellations are let through.
KillStopsOrders ==
  [][\A r \in New : kill /\ ~r.cleanup => now <= killedAt + Window]_vars

\* A new version of the book (a new mandate, or disabling it) cuts off every
\* write of a call that was given the old one, within Window; and no order is
\* placed under a version that is disabled.
MandateStopsWrites ==
  [][\A r \in New :
       /\ r.version # book.version => now <= replacedAt[r.version] + Window
       /\ r.version = book.version /\ ~r.cleanup => book.enabled]_vars

\* A call that has lost the lease to another is cut off within Window: after
\* that every request the exchange acts on is the present holder's.
TakeoverStopsWrites ==
  [][\A r \in New :
       lease.token # r.call => now <= lostAt[r.call] + Window]_vars

\* Everything sent was issued its nonce by the lease row, and no two requests
\* share one, whichever calls and writes they come from.
SentNonces ==
  /\ \A r \in sent : [call |-> r.call, nonce |-> r.nonce] \in issued
  /\ \A r, s \in sent : r.nonce = s.nonce => r = s

\* The lease row implements the promise of NonceTenure.
Tenure == INSTANCE NonceTenure WITH holder <- lease.token, last <- lease.nonce

\* Every behaviour of the lease row is one of NonceTenure: credentials are held
\* one after the other and nonces are issued in that order.
ImplementsTenure == Tenure!Spec
=============================================================================
