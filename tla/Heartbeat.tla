------------------------------ MODULE Heartbeat ------------------------------
(***************************************************************************)
(* The timing of one handler, its heartbeat (workers/heartbeat.py, _beat)  *)
(* and its lease in ai.jobs.  Worker lets the heartbeat give up at any     *)
(* time; here is when it does.  The claim that starts the handler is       *)
(* awaited without a timeout, so the lease runs from the row's claim and   *)
(* the heartbeat from its reply, however late.                             *)
(*                                                                         *)
(* Time goes in steps of one unit; a task whose timer has run out is       *)
(* scheduled before time goes on.  A statement that is cut off has taken   *)
(* effect by then or never does.                                           *)
(***************************************************************************)
EXTENDS Integers

CONSTANTS
    Interval,   \* HEARTBEAT_SECONDS, the sleep and the timeout of a call
    Lease,      \* JOB_LEASE_SECONDS
    MaxLate     \* bound: the latest reply of a claim

\* core/config.py sets the two independently of each other.
ASSUME TimingAssumption ==
    /\ Interval \in Nat \ {0} /\ Lease \in Nat /\ MaxLate \in Nat
    /\ Interval < Lease

VARIABLES
    left,       \* lease_until - now(), negative when the lease is over
    owned,      \* the row is RUNNING under our generation
    beat,       \* "claiming" before there is a heartbeat, then where it
                \* stands: "sleeping", "calling", "over"
    late,       \* how long the reply of the claim took
    timer,      \* what is left of the sleep or of the timeout
    since,      \* time.monotonic() - last_ok
    reply,      \* what the UPDATE of this call returned, "none" before it ran
    failed      \* history: a call has failed

beatVars == <<left, owned, beat, late, timer, since, reply, failed>>

BeatTypeOK ==
    /\ left \in Int /\ left <= Lease
    /\ owned \in BOOLEAN /\ failed \in BOOLEAN
    /\ beat \in {"claiming", "sleeping", "calling", "over"}
    /\ late \in 0..MaxLate
    /\ timer \in 0..Interval
    /\ since \in Nat
    /\ reply \in {"none", "alive", "lost"}

\* The handler works until the heartbeat cancels it or it ends.
Working == beat \in {"sleeping", "calling"}

\* CLAIM_SQL has written lease_until, and its reply is on the way.
BeatInit ==
    /\ left = Lease
    /\ owned = TRUE
    /\ beat = "claiming"
    /\ late = 0
    /\ timer = 0
    /\ since = 0
    /\ reply = "none"
    /\ failed = FALSE

\* Time passes before the claim's reply; nothing bounds it in the code.
ClaimWaits ==
    /\ beat = "claiming"
    /\ late < MaxLate
    /\ late' = late + 1
    /\ left' = left - 1
    /\ UNCHANGED <<owned, beat, timer, since, reply, failed>>

\* The claim is answered: handler and heartbeat start, with whatever is left
\* of the lease, and last_ok is now.
ClaimAnswered ==
    /\ beat = "claiming"
    /\ beat' = "sleeping"
    /\ timer' = Interval
    /\ UNCHANGED <<left, owned, late, since, reply, failed>>

Wake ==
    /\ beat = "sleeping"
    /\ timer = 0
    /\ beat' = "calling"
    /\ timer' = Interval
    /\ reply' = "none"
    /\ UNCHANGED <<left, owned, late, since, failed>>

\* Variant: the row is touched, the lease is not.
ExecuteTouchesOnly ==
    /\ beat = "calling"
    /\ reply = "none"
    /\ reply' = IF owned /\ left > 0 THEN "alive" ELSE "lost"
    /\ UNCHANGED <<left, owned, beat, late, timer, since, failed>>

\* Variant: the lease is prolonged from its end.
ExecuteAdds ==
    /\ beat = "calling"
    /\ reply = "none"
    /\ reply' = IF owned /\ left > 0 THEN "alive" ELSE "lost"
    /\ left' = IF owned /\ left > 0 THEN left + Lease ELSE left
    /\ UNCHANGED <<owned, beat, late, timer, since, failed>>

\* The database runs HEARTBEAT_SQL.  Its now() is when its transaction began,
\* some time of this call ago.
Execute ==
    /\ beat = "calling"
    /\ reply = "none"
    /\ \E ago \in 0..(Interval - timer) :
        IF owned /\ left + ago > 0
        THEN reply' = "alive" /\ left' = Lease - ago
        ELSE reply' = "lost" /\ UNCHANGED left
    /\ UNCHANGED <<owned, beat, late, timer, since, failed>>

Sleeps == beat' = "sleeping" /\ timer' = Interval
Cancels == beat' = "over" /\ timer' = timer

Answer ==
    /\ beat = "calling"
    /\ reply # "none"
    /\ IF reply = "alive" THEN Sleeps /\ since' = 0 ELSE Cancels /\ since' = since
    /\ UNCHANGED <<left, owned, late, reply, failed>>

\* An exception at any time of the call, or asyncio.timeout at its end; the
\* statement may have run all the same.
CallFails ==
    /\ beat = "calling"
    /\ failed' = TRUE
    /\ IF since + Interval < Lease THEN Sleeps ELSE Cancels
    /\ UNCHANGED <<left, owned, late, since, reply>>

\* The handler ends and its heartbeat is cancelled.
HandlerEnds ==
    /\ Working
    /\ beat' = "over"
    /\ UNCHANGED <<left, owned, late, timer, since, reply, failed>>

\* The reaper or an invalidation takes the row away.
RowTaken ==
    /\ owned
    /\ owned' = FALSE
    /\ UNCHANGED <<left, beat, late, timer, since, reply, failed>>

\* Variant: the call has no timeout.
BeatTickUntimed ==
    /\ Working
    /\ timer > 0 \/ beat = "calling"
    /\ left' = left - 1
    /\ timer' = IF timer > 0 THEN timer - 1 ELSE 0
    /\ since' = since + 1
    /\ UNCHANGED <<owned, beat, late, reply, failed>>

BeatTick ==
    /\ Working
    /\ timer > 0
    /\ left' = left - 1
    /\ timer' = timer - 1
    /\ since' = since + 1
    /\ UNCHANGED <<owned, beat, late, reply, failed>>

BeatNext ==
    \/ ClaimWaits \/ ClaimAnswered
    \/ Wake \/ Execute \/ Answer \/ CallFails
    \/ HandlerEnds \/ RowTaken \/ BeatTick

BeatSpec == BeatInit /\ [][BeatNext]_beatVars

-----------------------------------------------------------------------------
(* Properties.                                                             *)

\* While every call of the heartbeat is answered within its timeout, however
\* slowly, at most three intervals pass between two renewals, or two intervals
\* and the wait for the claim's reply before the first.  With the defaults of
\* 5 and 15 and a claim answered within an interval, the lease is over no
\* sooner than the next renewal.
AnsweredBeatsRenew ==
    Working /\ ~failed =>
        \/ left >= Lease - 3 * Interval
        \/ left >= Lease - 2 * Interval - late

\* Whatever fails, and however late the last renewal was answered, a handler
\* works less than two intervals beyond its lease, or, of a claim answered
\* later than an interval, less than an interval and that delay: the longest
\* time for which two handlers of a job can make the same vendor calls.
OverrunIsBounded ==
    Working =>
        \/ left > -2 * Interval
        \/ left > -(Interval + late)
=============================================================================
