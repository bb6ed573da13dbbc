---------------------------- MODULE NonceTenure ----------------------------
(***************************************************************************)
(* What the execution lease of a desk promises to the venue, without how   *)
(* it is done: callers hold the signing credential one after the other,    *)
(* each at most once, and only the present holder may be issued a nonce.   *)
(* DeskLease implements this specification.                                *)
(***************************************************************************)
EXTENDS Naturals

CONSTANT Call       \* the calls of DeskExecution.locked

VARIABLES holder,   \* the call that holds the credential, if one does
          turn,     \* how many tenures have begun
          rank,     \* rank[c]: which tenure c had, 0 before it had one
          last,     \* the last nonce issued
          issued    \* every nonce issued, with the call it went to

tenureVars == <<holder, turn, rank, last, issued>>

Init ==
  /\ holder \notin Call
  /\ turn = 0
  /\ rank = [c \in Call |-> 0]
  /\ last = 0
  /\ issued = {}

\* A tenure begins, whether or not the previous holder knows it has ended.
Begin(c) ==
  /\ rank[c] = 0
  /\ holder' = c
  /\ turn' = turn + 1
  /\ rank' = [rank EXCEPT ![c] = turn + 1]
  /\ UNCHANGED <<last, issued>>

End ==
  /\ holder' \notin Call
  /\ UNCHANGED <<turn, rank, last, issued>>

Issue(c) ==
  /\ holder = c
  /\ last' \in Nat
  /\ last' > last
  /\ issued' = issued \cup {[call |-> c, nonce |-> last']}
  /\ UNCHANGED <<holder, turn, rank>>

Next ==
  \/ \E c \in Call : Begin(c)
  \/ End
  \/ \E c \in Call : Issue(c)

Spec == Init /\ [][Next]_tenureVars

-----------------------------------------------------------------------------

\* Nonces follow the order of the tenures: whatever a later holder signs is
\* numbered after everything an earlier holder was ever issued, so the venue
\* can tell the two apart even when the earlier one is still running.
TenureOrder ==
  \A a, b \in issued : rank[a.call] < rank[b.call] => a.nonce < b.nonce

\* No two requests carry the same nonce.
NonceUnique ==
  \A a, b \in issued : a.nonce = b.nonce => a = b
=============================================================================
