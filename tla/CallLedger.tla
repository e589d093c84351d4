------------------------------ MODULE CallLedger ------------------------------
(***************************************************************************)
(* What LedgerPort promises (ports/ledger.py, docs 06 section 3.2): the    *)
(* calls to the model vendors are entered before they start, each under a  *)
(* budget key, and what a key has spent and holds reserved is what its     *)
(* calls say.  Nothing is counted twice, nothing leaks, and no call starts *)
(* that could take its key beyond the cap.                                 *)
(***************************************************************************)
EXTENDS Integers, FiniteSetsExt

CONSTANTS
    CallId,     \* ids of the calls
    Key,        \* budget keys: post ids, intake keys, jury keys
    Slot,       \* <generation, node, call index>
    Est,        \* the amounts that may be reserved
    Charge,     \* the costs a vendor may report
    Cap,        \* the caps of the images that are deployed
    NULL

VARIABLES
    calls,      \* the calls entered
    cap         \* the cap of each key, 0 before its first call

cvars == <<calls, cap>>

\* COMPLETE and FAILED differ in what is charged only: CLOSED is both.
CallStatus == {"RESERVED", "CLOSED", "UNKNOWN"}

\* charged: what the call added to the spent amount, NULL while it is reserved.
Call == [status : CallStatus, key : Key, slot : Slot \cup {NULL}, est : Est,
         charged : Est \cup Charge \cup {0, NULL}]

Entered == {c \in CallId : calls[c] # NULL}
IsOpen(c) == calls[c] # NULL /\ calls[c].charged = NULL

\* What the calls of C come to.
Total(amount, C) == MapThenSumSet(LAMBDA c : amount[c], C)

Reserved(k) ==
    Total([c \in Entered |-> calls[c].est], {c \in Entered : IsOpen(c) /\ calls[c].key = k})

Spent(k) ==
    Total([c \in Entered |-> calls[c].charged], {c \in Entered : ~IsOpen(c) /\ calls[c].key = k})

CInit ==
    /\ calls = [c \in CallId |-> NULL]
    /\ cap = [k \in Key |-> 0]

Raised(k, x) == IF x > cap[k] THEN x ELSE cap[k]

Reserve(c, k, s, e, x) ==
    /\ calls[c] = NULL
    /\ s # NULL => \A d \in Entered : calls[d].slot # s
    /\ Spent(k) + Reserved(k) + e <= Raised(k, x)
    /\ cap' = [cap EXCEPT ![k] = Raised(k, x)]
    /\ calls' = [calls EXCEPT ![c] =
         [status |-> "RESERVED", key |-> k, slot |-> s, est |-> e, charged |-> NULL]]

\* settle and fail: the amount reserved gives way to the amount spent, once.
Close(c, charge) ==
    /\ IsOpen(c)
    /\ calls[c].status = "RESERVED"
    /\ calls' = [calls EXCEPT ![c].status = "CLOSED", ![c].charged = charge]
    /\ UNCHANGED cap

\* The outcome is not known: the amount stays reserved and is not spent.
MarkUnknown(c) ==
    /\ IsOpen(c)
    /\ calls[c].status = "RESERVED"
    /\ calls' = [calls EXCEPT ![c].status = "UNKNOWN"]
    /\ UNCHANGED cap

\* Calls nobody closed are charged what was reserved.
Sweep(C) ==
    /\ \A c \in C : IsOpen(c)
    /\ calls' = [c \in CallId |->
         IF c \in C THEN [calls[c] EXCEPT !.status = "UNKNOWN", !.charged = calls[c].est] ELSE calls[c]]
    /\ UNCHANGED cap

CNext ==
    \/ \E c \in CallId, k \in Key, s \in Slot \cup {NULL}, e \in Est, x \in Cap :
         Reserve(c, k, s, e, x)
    \/ \E c \in CallId : MarkUnknown(c)
    \/ \E c \in CallId, charge \in Est \cup Charge \cup {0} : Close(c, charge)
    \/ \E C \in SUBSET CallId : Sweep(C)

CSpec == CInit /\ [][CNext]_cvars
=============================================================================
