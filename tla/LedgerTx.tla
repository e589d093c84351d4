------------------------------- MODULE LedgerTx -------------------------------
(***************************************************************************)
(* PostgresCallLedger (adapters/postgres_call_ledger.py): ai.case_budgets  *)
(* and ai.llm_calls under its transactions, statement by statement, at     *)
(* READ COMMITTED.  A transaction takes row locks in the order of its      *)
(* statements and waits for a lock another one holds; what it writes is    *)
(* seen, and the locks are free, when it commits.  Any transaction may be  *)
(* rolled back before that: a lost connection, a killed process.           *)
(*                                                                         *)
(* The code writes a budget relative to its value (reserved = reserved +   *)
(* est), so a write needs no value read before; the test against the cap   *)
(* uses the values the SELECT returned.                                    *)
(***************************************************************************)
EXTENDS Integers, Sequences, SequencesExt

CONSTANTS
    CallId, Key, Slot, Est, Charge, NULL,
    Session,    \* connections of the workers and the API
    Sweeper,    \* those that run `geoji-ai ledger-sweep`
    CapOf       \* cap_micro_usd of the image behind each session

VARIABLES
    budgets,    \* ai.case_budgets (a key without a row has cap 0)
    calls,      \* ai.llm_calls; charged is history but for UNKNOWN rows, whose
                \* actual_micro_usd it is
    tx          \* the transaction of each session

vars == <<budgets, calls, tx>>

Promise == INSTANCE CallLedger WITH
    Cap <- {CapOf[s] : s \in Session},
    cap <- [k \in Key |-> budgets[k].cap]

ASSUME LedgerAssumption ==
    /\ CallId \subseteq Nat /\ Key \subseteq Nat
    /\ Est \subseteq Nat \ {0} /\ Charge \subseteq Nat
    /\ Sweeper \subseteq Session
    /\ CapOf \in [Session -> Nat]
    /\ NULL \notin Int \cup Slot \cup Promise!Call

\* A lock on a row, or on the index entry a slot is inserted under.
Lock == [of : {"call"}, id : CallId] \cup [of : {"budget"}, id : Key] \cup [of : {"slot"}, id : Slot]
CallLock(c) == [of |-> "call", id |-> c]
BudgetLock(k) == [of |-> "budget", id |-> k]
SlotLock(s) == [of |-> "slot", id |-> s]

At == {"idle", "reserve", "insert", "close", "stale", "unknown", "charge"}

\* todo: the locks still to take, in order; held: those taken; seen: the cap
\* the SELECT of a reserve returned; id, row: the row to insert or the new
\* values of the row to close; old: the calls a sweep finds old enough.
Idle == [at |-> "idle", todo |-> <<>>, held |-> {}, seen |-> NULL, row |-> NULL, id |-> NULL,
         old |-> {}]

Tx == [at : At, todo : Seq(Lock), held : SUBSET Lock, seen : Nat \cup {NULL},
       row : Promise!Call \cup {NULL}, id : CallId \cup {NULL}, old : SUBSET CallId]

Budget == [cap : Nat, spent : Nat, reserved : Nat]

LTypeOK ==
    /\ budgets \in [Key -> Budget]
    /\ calls \in [CallId -> Promise!Call \cup {NULL}]
    /\ tx \in [Session -> Tx]

Init ==
    /\ budgets = [k \in Key |-> [cap |-> 0, spent |-> 0, reserved |-> 0]]
    /\ calls = [c \in CallId |-> NULL]
    /\ tx = [s \in Session |-> Idle]

Free(s, l) == \A t \in Session \ {s} : l \notin tx[t].held

Begin(s, t) ==
    /\ tx[s] = Idle
    /\ tx' = [tx EXCEPT ![s] = t]
    /\ UNCHANGED <<budgets, calls>>

Ends(s) == tx' = [tx EXCEPT ![s] = Idle]

Spends(k, charge, est) ==
    budgets' = [budgets EXCEPT ![k].spent = @ + charge, ![k].reserved = @ - est]

\* Variant: an UNKNOWN call may be closed as well.
ClosableUnknown(c) == calls[c] # NULL /\ calls[c].status \in {"RESERVED", "UNKNOWN"}

\* status IN ('RESERVED','SENT'): nothing writes SENT.
Closable(c) == calls[c] # NULL /\ calls[c].status = "RESERVED"

Unsettled(c) == calls[c].status = "UNKNOWN" /\ calls[c].charged = NULL

\* The WHERE clause, looked at again once the row is free.
Matches(s, l) ==
    /\ tx[s].at = "close" /\ l.of = "call" => Closable(l.id)
    /\ tx[s].at = "stale" => calls[l.id].status = "RESERVED"
    /\ tx[s].at = "unknown" => Unsettled(l.id)

\* The next lock is free: it is taken, unless the row was changed meanwhile.
\* A close without its row ends there.
Take(s) ==
    LET l == Head(tx[s].todo)
    IN  /\ tx[s].todo # <<>>
        /\ Free(s, l)
        /\ \/ /\ Matches(s, l)
              /\ tx' = [tx EXCEPT ![s].todo = Tail(@), ![s].held = @ \cup {l}]
           \/ /\ ~Matches(s, l)
              /\ IF tx[s].at = "close" THEN Ends(s) ELSE tx' = [tx EXCEPT ![s].todo = Tail(@)]
        /\ UNCHANGED <<budgets, calls>>

-----------------------------------------------------------------------------
(* reserve.                                                                *)

\* Variant: an upsert that does nothing to an existing row, and no FOR UPDATE.
ReserveLocksNothing(k) == <<>>

\* The upsert of the budget row locks it, as FOR UPDATE does again.
ReserveLocks(k) == <<BudgetLock(k)>>

\* Ids are uuid4; the next number stands for a fresh one.
FreshId(c) ==
    LET Used == {d \in CallId : calls[d] # NULL \/ \E t \in Session : tx[t].id = d}
    IN  c \in CallId \ Used /\ \A d \in CallId : d < c => d \in Used

BeginReserve(s) ==
    \E c \in CallId, k \in Key, slot \in Slot \cup {NULL}, e \in Est :
        /\ FreshId(c)
        /\ s \notin Sweeper
        /\ Begin(s, [Idle EXCEPT !.at = "reserve", !.todo = ReserveLocks(k), !.id = c,
                     !.row = [status |-> "RESERVED", key |-> k, slot |-> slot, est |-> e,
                              charged |-> NULL]])

CapFor(s, k) == IF CapOf[s] > budgets[k].cap THEN CapOf[s] ELSE budgets[k].cap

Fits(s) ==
    LET k == tx[s].row.key
    IN  budgets[k].spent + budgets[k].reserved + tx[s].row.est <= CapFor(s, k)

\* BudgetExceeded rolls the transaction back, the raised cap with it.
SelectBudget(s) ==
    /\ tx[s].at = "reserve"
    /\ tx[s].todo = <<>>
    /\ IF Fits(s)
       THEN tx' = [tx EXCEPT ![s].at = "insert", ![s].seen = CapFor(s, tx[s].row.key),
                     ![s].todo = IF tx[s].row.slot = NULL THEN <<>>
                                 ELSE <<SlotLock(tx[s].row.slot)>>]
       ELSE Ends(s)
    /\ UNCHANGED <<budgets, calls>>

SlotTaken(slot) ==
    slot # NULL /\ \E c \in CallId : calls[c] # NULL /\ calls[c].slot = slot

CommitReserve(s) ==
    LET r == tx[s].row
    IN  /\ tx[s].at = "insert"
        /\ tx[s].todo = <<>>
        /\ IF SlotTaken(r.slot)
           THEN UNCHANGED <<budgets, calls>>
           ELSE /\ budgets' = [budgets EXCEPT ![r.key].reserved = @ + r.est,
                                              ![r.key].cap = tx[s].seen]
                /\ calls' = [calls EXCEPT ![tx[s].id] = r]
        /\ Ends(s)

-----------------------------------------------------------------------------
(* settle, fail, mark_unknown.                                             *)

\* Variant: the budget first.
CloseLocksBudgetFirst(c) == <<BudgetLock(calls[c].key), CallLock(c)>>

CloseLocks(c) == <<CallLock(c), BudgetLock(calls[c].key)>>

\* settle: the cost that is known, or what was reserved; fail: nothing either
\* when there was no response.
BeginClose(s) ==
    \E c \in CallId :
        /\ s \notin Sweeper
        /\ Closable(c)
        /\ \E charge \in Charge \cup {0, calls[c].est} :
             Begin(s, [Idle EXCEPT !.at = "close", !.todo = CloseLocks(c), !.id = c,
                       !.row = [calls[c] EXCEPT !.status = "CLOSED", !.charged = charge]])

CommitClose(s) ==
    LET r == tx[s].row
    IN  /\ tx[s].at = "close"
        /\ tx[s].todo = <<>>
        /\ Spends(r.key, r.charged, r.est)
        /\ calls' = [calls EXCEPT ![tx[s].id] = r]
        /\ Ends(s)

\* One statement, one row.
MarkUnknown(s, c) ==
    /\ tx[s] = Idle
    /\ s \notin Sweeper
    /\ Closable(c)
    /\ Free(s, CallLock(c))
    /\ calls' = [calls EXCEPT ![c].status = "UNKNOWN"]
    /\ UNCHANGED <<budgets, tx>>

-----------------------------------------------------------------------------
(* sweep_unknown.                                                          *)

TakenBy(s) == {c \in CallId : CallLock(c) \in tx[s].held}

\* The rows the second statement asks for, its own changes included.
Unswept(s) == {c \in tx[s].old : Unsettled(c)} \cup TakenBy(s)

InOrder(S) == {q \in SetToSeqs(S) : \A i, j \in DOMAIN q : i < j => q[i] < q[j]}
CallLocks(cs) == [i \in DOMAIN cs |-> CallLock(cs[i])]
BudgetLocks(ks) == [i \in DOMAIN ks |-> BudgetLock(ks[i])]

\* Variant: what a dead process left RESERVED is not taken up.
BeginSweepUnknown(s, old) ==
    /\ s \in Sweeper
    /\ old # {}
    /\ Begin(s, [Idle EXCEPT !.at = "stale", !.old = old])

\* Any open calls may be older than --older-than.  The first statement meets
\* those RESERVED in any order.
BeginSweep(s, old) ==
    \E order \in SetToSeqs({c \in old : Closable(c)}) :
        /\ s \in Sweeper
        /\ old # {}
        /\ Begin(s, [Idle EXCEPT !.at = "stale", !.todo = CallLocks(order), !.old = old])

OpenCalls == {c \in CallId : Closable(c) \/ (calls[c] # NULL /\ Unsettled(c))}

SelectUnknown(s) ==
    /\ tx[s].at = "stale"
    /\ tx[s].todo = <<>>
    /\ \E order \in InOrder(Unswept(s) \ TakenBy(s)) :
         tx' = [tx EXCEPT ![s].at = "unknown", ![s].todo = CallLocks(order)]
    /\ UNCHANGED <<budgets, calls>>

LockBudgets(s) ==
    /\ tx[s].at = "unknown"
    /\ tx[s].todo = <<>>
    /\ \E order \in InOrder({calls[c].key : c \in TakenBy(s)}) :
         tx' = [tx EXCEPT ![s].at = "charge", ![s].todo = BudgetLocks(order)]
    /\ UNCHANGED <<budgets, calls>>

\* per_key of the code.
SweptOf(s, k) ==
    LET swept == {c \in TakenBy(s) : calls[c].key = k}
    IN  Promise!Total([c \in swept |-> calls[c].est], swept)

\* Variant: what is swept is spent but stays reserved.
SweptBudgetKeepsReserved(s, k) ==
    [budgets[k] EXCEPT !.spent = @ + SweptOf(s, k)]

SweptBudget(s, k) ==
    [budgets[k] EXCEPT !.spent = @ + SweptOf(s, k), !.reserved = @ - SweptOf(s, k)]

CommitSweep(s) ==
    /\ tx[s].at = "charge"
    /\ tx[s].todo = <<>>
    /\ budgets' = [k \in Key |-> SweptBudget(s, k)]
    /\ calls' = [c \in CallId |->
         IF c \in TakenBy(s)
         THEN [calls[c] EXCEPT !.status = "UNKNOWN", !.charged = calls[c].est]
         ELSE calls[c]]
    /\ Ends(s)

-----------------------------------------------------------------------------
RollBack(s) ==
    /\ tx[s] # Idle
    /\ Ends(s)
    /\ UNCHANGED <<budgets, calls>>

Advance(s) ==
    \/ Take(s) \/ SelectBudget(s) \/ CommitReserve(s) \/ CommitClose(s)
    \/ SelectUnknown(s) \/ LockBudgets(s) \/ CommitSweep(s)

Next ==
    \/ \E s \in Session : BeginReserve(s) \/ BeginClose(s)
    \/ \E s \in Session, old \in SUBSET OpenCalls : BeginSweep(s, old)
    \/ \E s \in Session : Advance(s) \/ RollBack(s)
    \/ \E s \in Session, c \in CallId : MarkUnknown(s, c)

Spec == Init /\ [][Next]_vars

\* Transactions go on, locks are granted in turn, every call that stays open
\* is old enough for a sweep again and again, and from some time on no sweep
\* is cut off.
Fairness ==
    /\ \A s \in Session : WF_vars(Advance(s)) /\ SF_vars(Take(s))
    /\ \A s \in Sweeper, c \in CallId :
         SF_vars(\E old \in SUBSET OpenCalls : c \in old /\ BeginSweep(s, old))
    /\ <>[][\A s \in Sweeper : RollBack(s) => Advance(s)]_vars

FairSpec == Spec /\ Fairness

-----------------------------------------------------------------------------
(* Properties.                                                             *)

\* The amounts kept in case_budgets are those the calls add up to, whatever
\* transactions crossed each other: nothing is lost, counted twice or left
\* reserved by a call that is settled.
BudgetsAgree ==
    \A k \in Key :
        /\ budgets[k].spent = Promise!Spent(k)
        /\ budgets[k].reserved = Promise!Reserved(k)

\* The transactions do together what LedgerPort promises: no call starts above
\* the cap, each is charged once, an UNKNOWN call is spent only when swept.
KeepsPromise == Promise!CSpec

Wants(s) ==
    IF tx[s].todo = <<>> THEN {}
    ELSE IF tx[s].at = "stale" THEN Range(tx[s].todo) ELSE {Head(tx[s].todo)}

WaitsFor(s, t) == s # t /\ Wants(s) \cap tx[t].held # {}

\* No transactions wait for each other in a circle: the statements of reserve,
\* settle, fail and the sweep take their locks in one order.
NoWaitCycle ==
    \A S \in (SUBSET Session) \ {{}} : \E s \in S : \A t \in S : ~WaitsFor(s, t)

\* No amount stays reserved for ever: the call of a process that died without
\* settling it is charged by a sweep.
NoLeak ==
    \A c \in CallId : Promise!IsOpen(c) ~> ~Promise!IsOpen(c)
=============================================================================
