---------------------------- MODULE QueueContract ----------------------------
(***************************************************************************)
(* What the durable queue promises of each job, with no SQL, no clock and  *)
(* no lease in sight: a job is offered once, is held by one generation at  *)
(* a time, spends one attempt per grant, goes back to waiting only while   *)
(* an attempt is left, is written by nobody but its present holder, and    *)
(* once closed stays closed.  JobQueue implements it.                      *)
(***************************************************************************)
EXTENDS Integers

CONSTANTS Job, Gen, NULL, MaxAttempts

VARIABLE view   \* [phase, left, holder, writer] of each job

Phase == {"none", "waiting", "held", "closed"}

View == [phase : Phase, left : Nat, holder : Gen \cup {NULL}, writer : Gen \cup {NULL}]

Init == view = [j \in Job |-> [phase |-> "none", left |-> MaxAttempts[j],
                               holder |-> NULL, writer |-> NULL]]

\* Each step relates the view a of one job to its next view b.
Offered(a, b) ==
    /\ a.phase = "none"
    /\ b = [a EXCEPT !.phase = "waiting"]

Granted(a, b) ==
    /\ a.phase = "waiting"
    /\ a.left > 0
    /\ \E g \in Gen :
         b = [phase |-> "held", left |-> a.left - 1, holder |-> g, writer |-> NULL]

\* The holder shows that it is alive.
Kept(a, b) ==
    /\ a.phase = "held"
    /\ b = [a EXCEPT !.writer = a.holder]

\* The holder (or whoever revokes its grant) hands the job back.
Returned(a, b) ==
    /\ a.phase = "held"
    /\ \E left \in {a.left, a.left + 1}, writer \in {a.writer, a.holder} :
         /\ left > 0
         /\ b = [phase |-> "waiting", left |-> left, holder |-> NULL, writer |-> writer]

Closed(a, b) ==
    /\ a.phase \in {"waiting", "held"}
    /\ \E writer \in {a.writer, IF a.phase = "held" THEN a.holder ELSE a.writer} :
         b = [phase |-> "closed", left |-> a.left, holder |-> NULL, writer |-> writer]

Step(a, b) ==
    Offered(a, b) \/ Granted(a, b) \/ Kept(a, b) \/ Returned(a, b) \/ Closed(a, b)

\* One statement may move several jobs (the reaper); each takes a step of its
\* own or none.
Next == \A j \in Job : view'[j] = view[j] \/ Step(view[j], view'[j])

Spec == Init /\ [][Next]_view
=============================================================================
