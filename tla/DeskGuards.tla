------------------------------ MODULE DeskGuards ------------------------------
(***************************************************************************)
(* The stops that protect a position: protect, revise and cancelCli of     *)
(* DeskExecution (src/lib/desk/execution.ts 499-714), the local exit of    *)
(* spot positions in tick (1019-1043), and what of syncLedger, adopt and   *)
(* execute they meet.                                                      *)
(*                                                                         *)
(* One long position of a directional book.  The lease lets one call run   *)
(* at a time (DeskLease); the exchange, the operator and the market move   *)
(* between its steps.  Targets ("tp") are handled by the code as stops are *)
(* and are left out.                                                       *)
(***************************************************************************)
EXTENDS Naturals, FiniteSets

CONSTANTS Slot,    \* stops at hand; one that is over and gone is used again
          NoSlot,
          MaxQty,  \* lots the position may have
          MinPrice, MaxPrice \* of the market; a stop is below MaxPrice

GuardAssumption ==
  /\ NoSlot \notin Slot
  /\ {MaxQty, MinPrice, MaxPrice} \subseteq Nat \ {0}

VARIABLES
  \* The database:
  enabled,  \* the book is enabled and its owner's kill switch is off
  inv,      \* the DeskInventory row
  sent,     \* keys of exits whose row exists, of those built from the
            \* updatedAt that the inventory row has now
  guard,    \* the stops: rows of group "guard/sl", or attached to an entry
  call,     \* the call that holds the lease, and what it has read
  \* The exchange:
  kind,     \* of the instrument, "perp" or "spot"
  pos,      \* the position of the account
  own,      \* the sum of the fills of the desk's orders since the handover
  entered,  \* the stop of the entry that the last fill which the ledger does
            \* not have belongs to, its own or that of its stop; or 0
  price,    \* of the market
  venue,    \* what became of each stop
  cancels,  \* open stops whose cancellation is under way
  exits     \* sizes of the exits under way

rows == <<enabled, inv, sent, guard>>
market == <<kind, pos, own, entered, price>>
requests == <<venue, cancels, exits>>
vars == <<rows, call, market, requests>>

-----------------------------------------------------------------------------

Stop == 1 .. MaxPrice - 1
Uncertain == {"submitting", "unknown"}

NoGuard == [state |-> "over", stop |-> 0, size |-> 0]
Idle == [at |-> "idle", enabled |-> FALSE, goal |-> 0, live |-> 0,
         ours |-> {}, todo |-> {}, slot |-> NoSlot, key |-> "none",
         late |-> FALSE]

\* After a crash or an exception: as good as idle, the next call may start.
Dead == [Idle EXCEPT !.at = "dead"]
Vacant == call \in {Idle, Dead}

Init ==
  /\ enabled = TRUE
  /\ inv = [qty |-> 0, stop |-> 0, suspended |-> FALSE]
  /\ sent = {}
  /\ guard = [i \in Slot |-> NoGuard]
  /\ call = Idle
  /\ kind \in {"perp", "spot"}
  /\ pos = 0 /\ own = 0 /\ entered = 0 /\ price = MaxPrice
  /\ venue = [i \in Slot |-> "none"]
  /\ cancels = {} /\ exits = {}

Open == {i \in Slot : venue[i] = "open"}
Free == {i \in Slot : guard[i] = NoGuard}
Crossed(stop) == price <= stop
Less(n, m) == IF n < m THEN 0 ELSE n - m

\* Row i with state s; it is forgotten when the exchange cannot act on it.
Row(i, s) ==
  IF s = "over" /\ venue[i] \notin {"flight", "open"}
    THEN NoGuard ELSE [guard[i] EXCEPT !.state = s]
Forget == venue' = [i \in Slot |-> IF guard'[i] = NoGuard THEN "none"
                                     ELSE venue[i]]

\* A stop ends.  Its row goes at once if the desk knew its fate: calls begin
\* with a sync, which will say so, and one that has read the row (ours) may
\* use what it has read.
Ends(i) ==
  LET known == guard[i].state \notin Uncertain /\ i \notin call.ours
  IN
  /\ guard' = IF known THEN [guard EXCEPT ![i] = NoGuard] ELSE guard
  /\ venue' = [venue EXCEPT ![i] = IF known THEN "none" ELSE "gone"]

\* Every write of the inventory row changes its updatedAt.
Inventory(r) ==
  /\ inv' = r
  /\ sent' = IF r = inv THEN sent ELSE {}

-----------------------------------------------------------------------------
(* execute: an entry with an attached stop, or a reduction *)

\* Calls go through the ledger first (prepare), so that what they rely on is
\* what it says; see DeskIntents for the rest of submit.
Tradable ==
  /\ Vacant /\ enabled
  /\ ~inv.suspended /\ inv.qty = own /\ own = pos /\ entered = 0

\* (A slot stays free for the stop that replaces the attached one.)
Enter(i, s, n) ==
  /\ Tradable /\ pos + n <= MaxQty /\ i \in Free /\ Free # {i}
  /\ inv.qty = 0 => Open = {}
  /\ ~Crossed(s)
  /\ pos' = pos + n /\ own' = own + n /\ entered' = s
  /\ IF kind = "spot" THEN UNCHANGED <<guard, venue>>
       ELSE /\ guard' = [guard EXCEPT ![i] =
                           [state |-> "child", stop |-> s, size |-> n]]
            /\ venue' = [venue EXCEPT ![i] = "open"]
  /\ UNCHANGED <<enabled, inv, sent, call, price, cancels, exits, kind>>

Reduce ==
  /\ Tradable /\ pos > 0
  /\ pos' = pos - 1 /\ own' = own - 1
  /\ UNCHANGED <<rows, call, entered, price, requests, kind>>

-----------------------------------------------------------------------------
(* tick and revise up to protect *)

TickDesk ==
  /\ Vacant
  /\ call' = [Idle EXCEPT !.at = "sync", !.enabled = enabled]
  /\ UNCHANGED <<rows, market, requests>>

\* (A slot stays free for the new stop.)
Revise(s) ==
  /\ Vacant /\ enabled /\ Free # {}
  /\ call' = [Idle EXCEPT !.at = "sync", !.enabled = enabled, !.goal = s]
  /\ UNCHANGED <<rows, market, requests>>

\* What the exchange says of a row that is live; it keeps no record of an
\* order it refused.
StateOf(i) ==
  CASE guard[i].state \in Uncertain /\ venue[i] = "open" -> "working"
    [] venue[i] = "gone" -> "over"
    [] OTHER -> guard[i].state

\* syncLedger: fills are booked, then the states of the orders.  The stop of the
\* row is the one of the last request that has a price.  The funding of a
\* perpetual is booked as well, from time to time.
BookFills ==
  /\ call.at = "sync"
  /\ inv' = [inv EXCEPT !.qty = own,
               !.stop = IF own = 0 THEN 0
                          ELSE IF entered # 0 THEN entered ELSE @]
  /\ \/ sent' = IF own = inv.qty /\ entered = 0 THEN sent ELSE {}
     \/ kind = "perp" /\ inv.qty > 0 /\ ~inv.suspended /\ sent' = {}
  /\ entered' = 0
  /\ guard' = [i \in Slot |-> Row(i, StateOf(i))]
  /\ Forget
  /\ call' = [call EXCEPT !.at = "account"]
  /\ UNCHANGED <<enabled, pos, own, price, cancels, exits, kind>>

\* The account is read last; revise goes on only with an undisputed position
\* and a stop that is not crossed.
ReadAccount ==
  LET collides == inv.suspended \/ inv.qty # pos
      flagged == [inv EXCEPT !.suspended = @ \/ (inv.qty # 0 /\ inv.qty # pos)]
      read == [call EXCEPT !.at = "protect", !.goal = 0, !.live = pos,
                           !.ours = Open]
  IN
  /\ call.at = "account"
  /\ \/ call.goal = 0 /\ call' = read /\ Inventory(flagged)
     \/ /\ call.goal # 0 /\ ~collides /\ pos > 0 /\ ~Crossed(call.goal)
        /\ Inventory([flagged EXCEPT !.stop = call.goal])
        /\ call' = read
     \/ /\ call.goal # 0
        /\ collides \/ pos = 0 \/ Crossed(call.goal)
        /\ Inventory(flagged)
        /\ call' = Idle
  /\ UNCHANGED <<enabled, guard, market, requests>>

-----------------------------------------------------------------------------
(* protect *)

Cancel(S) == IF S = {} THEN Idle
               ELSE [Idle EXCEPT !.at = "drop", !.todo = S, !.late = call.late]

\* A position that is gone or disputed: the stops of the desk are removed.
RemoveAll ==
  /\ call.at = "protect"
  /\ inv.suspended \/ call.live # inv.qty \/ call.live = 0
  /\ call' = Cancel(call.ours)
  /\ UNCHANGED <<rows, market, requests>>

Held ==
  /\ call.at = "protect"
  /\ ~inv.suspended /\ call.live = inv.qty /\ call.live > 0

\* Nothing is placed at the exchange for spot, nor for a book that is stopped.
Skip ==
  /\ Held /\ kind = "perp" /\ ~call.enabled
  /\ call' = Idle
  /\ UNCHANGED <<rows, market, requests>>

Guarding == Held /\ kind = "perp" /\ call.enabled

\* Variant: a stop at another price is kept.
OfSize == {i \in call.ours : guard[i].size = call.live}

Matching == {i \in call.ours : /\ guard[i].stop = inv.stop
                               /\ guard[i].size = call.live}

\* The first stop that is as it should be is kept, the others go.
Keep(i) ==
  /\ Guarding /\ inv.stop # 0 /\ i \in Matching
  /\ call' = Cancel(call.ours \ {i})
  /\ UNCHANGED <<rows, market, requests>>

NoneWanted ==
  /\ Guarding /\ inv.stop = 0
  /\ call' = Cancel(call.ours)
  /\ UNCHANGED <<rows, market, requests>>

InDoubt == \E i \in Slot : guard[i].state \in Uncertain
Wanting == Guarding /\ inv.stop # 0 /\ Matching = {}

\* An exit has a row, for ever, under a key of the inventory row's updatedAt:
\* submit returns a row there is, or throws when the price is another.
Unsent(key) == key \notin sent

Exit(key) ==
  IF ~Unsent(key) THEN Idle
    ELSE [Idle EXCEPT !.at = "exit", !.live = call.live, !.key = key]

\* Variant: an exit is not sent either as long as a stop is in doubt.
CrossedAndSure == Wanting /\ Crossed(inv.stop) /\ ~InDoubt

MayExit == Wanting /\ Crossed(inv.stop)

CrossedExit ==
  /\ MayExit
  /\ call' = Exit("crossed")
  /\ UNCHANGED <<rows, market, requests>>

SpotExit ==
  /\ Held /\ kind = "spot"
  /\ call' = IF call.enabled /\ inv.stop # 0 /\ Crossed(inv.stop)
               THEN Exit("protect") ELSE Idle
  /\ UNCHANGED <<rows, market, requests>>

\* A stop whose fate is unknown is never replaced.
RefuseReplacement ==
  /\ Wanting /\ ~Crossed(inv.stop) /\ InDoubt
  /\ call' = Idle
  /\ UNCHANGED <<rows, market, requests>>

Draft(i) ==
  /\ Wanting /\ ~Crossed(inv.stop) /\ ~InDoubt
  /\ i \in Free
  /\ guard' = [guard EXCEPT ![i] = [state |-> "submitting", stop |-> inv.stop,
                                    size |-> call.live]]
  /\ call' = [call EXCEPT !.at = "place", !.slot = i, !.enabled = FALSE]
  /\ UNCHANGED <<enabled, inv, sent, market, requests>>

\* Variant: the answer is not awaited before the old stops go.
NotAwaited == Cancel(call.ours)

AfterPost == [call EXCEPT !.at = "ack"]

\* Signature and POST, which authorize allows to an enabled book only.
Dispatch ==
  /\ call.at = "place" /\ enabled
  /\ venue' = [venue EXCEPT ![call.slot] = "flight"]
  /\ call' = AfterPost
  /\ UNCHANGED <<rows, market, cancels, exits>>

\* The new stop is acknowledged: the old ones go.
Acknowledge ==
  /\ call.at = "ack" /\ venue[call.slot] \in {"open", "gone"}
  /\ guard' = [guard EXCEPT ![call.slot].state = "working"]
  /\ call' = Cancel(call.ours)
  /\ UNCHANGED <<enabled, inv, sent, market, requests>>

\* The stop was not sent, or the exchange refused it: with no other stop at
\* the exchange the position is closed instead.
Unplaced ==
  /\ guard' = [guard EXCEPT ![call.slot] = Row(call.slot, "over")]
  /\ Forget
  /\ call' = IF call.ours = {} THEN Exit("unguarded") ELSE Idle
  /\ UNCHANGED <<enabled, inv, sent, market, cancels, exits>>

Fail == call.at = "place" /\ Unplaced
Refused == call.at = "ack" /\ venue[call.slot] = "refused" /\ Unplaced

LoseAnswer ==
  /\ call.at = "ack"
  /\ guard' = [guard EXCEPT ![call.slot].state = "unknown"]
  /\ call' = Idle
  /\ UNCHANGED <<enabled, inv, sent, market, requests>>

\* cancelCli of one stop.
SendCancel(i) ==
  /\ call.at = "drop" /\ i \in call.todo
  /\ cancels' = cancels \cup ({i} \cap Open)
  /\ call' = [call EXCEPT !.at = "dropping", !.slot = i]
  /\ UNCHANGED <<rows, market, venue, exits>>

\* The row of the exit is written before anything is sent, and stays.
SubmitExit ==
  /\ call.at = "exit"
  /\ sent' = sent \cup {call.key}
  /\ call' = [call EXCEPT !.at = "exiting", !.key = "none"]
  /\ UNCHANGED <<enabled, inv, guard, market, requests>>

SendExit ==
  /\ call.at = "exiting" /\ enabled
  /\ exits' = exits \cup {call.live}
  /\ call' = Idle
  /\ UNCHANGED <<rows, market, venue, cancels>>

\* A cancellation that is not confirmed ends the call: the stop is gone.
Unconfirmed ==
  /\ call.at = "dropping" /\ call.slot \notin cancels
  /\ call' = Idle
  /\ UNCHANGED <<rows, market, requests>>

\* A crash, an exception, a failed check or a lost answer.
Break ==
  /\ ~Vacant
  /\ call' = Dead
  /\ UNCHANGED <<rows, market, requests>>

-----------------------------------------------------------------------------
(* The operator *)

Toggle ==
  /\ enabled' = ~enabled
  /\ UNCHANGED <<inv, sent, guard, call, market, requests>>

\* The position is closed by hand.
CloseByHand ==
  /\ pos > 0 /\ pos' = 0
  /\ UNCHANGED <<rows, call, own, entered, price, requests, kind>>

Adopt ==
  /\ Vacant
  /\ \A i \in Slot : guard[i].state \in {"over", "child"}
  /\ Inventory([qty |-> pos, stop |-> 0, suspended |-> FALSE])
  /\ own' = pos /\ entered' = 0
  /\ UNCHANGED <<enabled, guard, call, pos, price, requests, kind>>

\* A row the exchange knows nothing of, and too old to be under way.
Abandon(i) ==
  /\ Vacant
  /\ guard[i].state \in Uncertain /\ venue[i] \in {"none", "refused"}
  /\ ~inv.suspended /\ inv.qty = pos
  /\ guard' = [guard EXCEPT ![i] = Row(i, "over")]
  /\ Forget
  /\ UNCHANGED <<enabled, inv, sent, call, market, cancels, exits>>

-----------------------------------------------------------------------------
(* The exchange *)

Becomes(i, s) ==
  /\ venue' = [venue EXCEPT ![i] = s]
  /\ UNCHANGED <<rows, call, market, cancels, exits>>

Arrive(i) == venue[i] = "flight" /\ Becomes(i, "open")
Refuse(i) == venue[i] = "flight" /\ Becomes(i, "refused")

Chosen == call.at \in {"protect", "place", "ack", "drop", "dropping"}
Awaited(i) == call.at = "dropping" /\ call.slot = i

\* A cancellation arrives, perhaps after the call that asked for it has ended;
\* "late" records this for the call that has read the stops since.
TakeCancel(i) ==
  /\ i \in cancels /\ cancels' = cancels \ {i}
  /\ Ends(i)
  /\ call' = IF Awaited(i) THEN Cancel(call.todo \ {i})
               ELSE [call EXCEPT !.late = @ \/ Chosen]
  /\ UNCHANGED <<enabled, inv, sent, market, exits>>

\* It is lost on the way, or answered with an error.
LoseCancel(i) ==
  /\ i \in cancels /\ cancels' = cancels \ {i}
  /\ call' = IF Awaited(i) THEN Idle ELSE call
  /\ UNCHANGED <<rows, market, venue, exits>>

\* The market moves; a stop that is reached reduces the position.  The fill of
\* an attached one is a fill of its entry to the ledger.
Move(p) ==
  /\ price' = p
  /\ UNCHANGED <<rows, call, pos, own, entered, requests, kind>>

Trigger(i) ==
  /\ i \in Open /\ Crossed(guard[i].stop)
  /\ pos' = Less(pos, guard[i].size)
  /\ own' = Less(own, pos - pos')
  /\ entered' = IF guard[i].state = "child" /\ pos > 0 THEN guard[i].stop
                  ELSE entered
  /\ Ends(i) /\ cancels' = cancels \ {i}
  /\ UNCHANGED <<enabled, inv, sent, call, price, exits, kind>>

\* An exit fills in part or not at all: it is immediate-or-cancel.
TakeExit(n, filled) ==
  /\ n \in exits /\ filled <= n /\ filled <= pos
  /\ exits' = exits \ {n}
  /\ pos' = pos - filled /\ own' = Less(own, filled)
  /\ UNCHANGED <<rows, call, entered, price, venue, cancels, kind>>

-----------------------------------------------------------------------------

Advance ==
  \/ BookFills \/ ReadAccount \/ RemoveAll \/ Skip \/ NoneWanted
  \/ CrossedExit \/ SpotExit \/ RefuseReplacement
  \/ Dispatch \/ Acknowledge \/ Refused \/ Unconfirmed
  \/ SubmitExit \/ SendExit
  \/ \E i \in Slot : Keep(i) \/ Draft(i) \/ SendCancel(i)

Environment ==
  \/ Toggle \/ CloseByHand \/ Adopt \/ Reduce
  \/ \E i \in Slot : Abandon(i) \/ Arrive(i) \/ Refuse(i) \/ TakeCancel(i)
                      \/ LoseCancel(i) \/ Trigger(i)
                      \/ \E s \in Stop, n \in 1 .. MaxQty : Enter(i, s, n)
  \/ \E p \in MinPrice .. MaxPrice : Move(p)
  \/ \E n \in exits, filled \in 0 .. MaxQty : TakeExit(n, filled)

Next ==
  \/ TickDesk \/ (\E s \in Stop : Revise(s)) \/ Advance
  \/ Fail \/ LoseAnswer \/ Break \/ Environment

Spec == Init /\ [][Next]_vars

\* The worker ticks, calls end, requests arrive, and of the stops that are
\* reached and the exits that the exchange gets again and again it executes
\* some.
Deliver == \E i \in Slot : Arrive(i) \/ TakeCancel(i) \/ LoseCancel(i)
Execute == \/ \E i \in Slot : Trigger(i)
           \/ \E n \in exits : pos > 0 /\ TakeExit(n, pos)
FairSpec ==
  /\ Spec
  /\ SF_vars(TickDesk) /\ WF_vars(Advance)
  /\ WF_vars(Deliver) /\ SF_vars(Execute)

-----------------------------------------------------------------------------
(* Properties *)

TypeOK ==
  /\ enabled \in BOOLEAN
  /\ inv \in [qty : 0 .. MaxQty, stop : Stop \cup {0}, suspended : BOOLEAN]
  /\ sent \subseteq {"crossed", "unguarded", "protect"}
  /\ guard \in [Slot -> [state : Uncertain \cup {"over", "child", "working"},
                         stop : Stop \cup {0}, size : 0 .. MaxQty]]
  /\ pos \in 0 .. MaxQty /\ own \in 0 .. MaxQty
  /\ venue \in [Slot -> {"none", "flight", "open", "refused", "gone"}]
  /\ cancels \subseteq Open /\ exits \subseteq 1 .. MaxQty

Undisturbed == pos > 0 /\ pos' = pos /\ inv.stop # 0 /\ ~inv.suspended

\* A cancellation comes after the call that asked for it has ended.
ComesLate == \E i \in cancels : venue'[i] # "open" /\ ~Awaited(i)

\* While a position is held undisturbed under a stop nothing leaves it without
\* one: the old stop rests until its replacement does, unless a cancellation
\* came late.
StopKept ==
  [][Undisturbed /\ Open # {} /\ ~call.late /\ ~ComesLate
      => Open' # {}]_vars

RefuseAny == \E i \in Slot : Refuse(i)
FailuresEnd == <>[][~Break /\ ~Fail /\ ~LoseAnswer /\ ~RefuseAny]_vars
Steady == /\ enabled /\ ~inv.suspended /\ inv.stop # 0
          /\ inv.qty = pos /\ pos > 0

\* A position that stays as it is gets a stop of its size at the price that is
\* wanted, unless the fate of an earlier stop stays unknown.
Guarded ==
  kind = "perp" /\ FailuresEnd /\ []<>~InDoubt
    /\ <>[](Steady /\ ~Crossed(inv.stop)) /\ <>[][inv' = inv]_vars
  => <>[](\E i \in Open : guard[i].stop = inv.stop /\ guard[i].size = pos)

\* A position whose stop is crossed is closed in the end, whatever becomes of
\* an exit order, provided that the inventory row is written again and again:
\* the key of an exit is the row's updatedAt, and is used once.
CrossedIsExited ==
  FailuresEnd /\ []<>(sent = {}) => ~<>[](Steady /\ Crossed(inv.stop))
=============================================================================
