------------------------------ MODULE LLMGateway ------------------------------
(***************************************************************************)
(* LLMGateway.scoped_call and remember (application/llm_gateway.py): the   *)
(* calls of one worker process to the vendors, over the ledger as          *)
(* CallLedger promises it, the stored results (ai.node_results) and the    *)
(* privacy epoch of the case.  A step runs from one await to the next; a   *)
(* task may be cancelled at any await (lost lease, shutdown).              *)
(*                                                                         *)
(* Abstracted: whether the vendor is degraded, a model has a price, time   *)
(* is left for a retry and a statement of the database fails or is never   *)
(* answered are free choices; VendorHealth and the time budget have no     *)
(* other effect here.                                                      *)
(***************************************************************************)
EXTENDS CallLedger

CONSTANTS
    Task,       \* tasks of the process that make calls, one at a time each
    Hash,       \* request hashes, the versions but the epoch included
    MaxEpoch    \* bound on invalidations

\* Every model in the price table has prices above 0, and so has a reservation.
ASSUME GatewayAssumption ==
    /\ NULL \notin CallId /\ NULL \notin Call /\ NULL # 0
    /\ Est \subseteq Nat \ {0} /\ Charge \subseteq Nat /\ Cap \subseteq Nat
    /\ MaxEpoch \in Nat

VARIABLES
    epoch,      \* ai.privacy_epochs of the scope of the evidence
    results,    \* ai.node_results
    task,       \* where each task stands
    closing,    \* shielded closes under way: <<call, action>>
    asked,      \* history: closes asked for of each call
    unheard,    \* history: calls whose id no task received or remembers
    uncertain   \* history: calls of which an attempt ended without an answer

gvars == <<calls, cap, epoch, results, task, closing, asked, unheard, uncertain>>

Result == [call : CallId, hash : Hash, epoch : 0..MaxEpoch, valid : BOOLEAN]

\* "check", "lookup", "reserve": the awaits before the call; "calling",
\* "waiting": an attempt and the wait before the retry; "ending": the close is
\* awaited; "returned": the caller validates; "keep": the result is stored.
\* hung: the statement it awaits is never answered.
At == {"idle", "check", "lookup", "reserve", "calling", "waiting", "ending", "returned", "keep"}

Action == {"settle", "fail", "mark_unknown"}

Idle == [at |-> "idle", epoch |-> 0, began |-> 0, hash |-> NULL, call |-> NULL, attempt |-> 0,
         good |-> FALSE, hung |-> FALSE]

TaskState ==
    [at : At, epoch : 0..MaxEpoch, began : 0..MaxEpoch, hash : Hash \cup {NULL},
     call : CallId \cup {NULL}, attempt : 0..2, good : BOOLEAN, hung : BOOLEAN]

GTypeOK ==
    /\ calls \in [CallId -> Call \cup {NULL}] /\ cap \in [Key -> Nat]
    /\ epoch \in 0..MaxEpoch
    /\ results \subseteq Result
    /\ task \in [Task -> TaskState]
    /\ closing \subseteq CallId \X Action
    /\ asked \in [CallId -> 0..1]
    /\ unheard \subseteq CallId /\ uncertain \subseteq CallId

GInit ==
    /\ CInit
    /\ epoch = 0
    /\ results = {}
    /\ task = [t \in Task |-> Idle]
    /\ closing = {}
    /\ asked = [c \in CallId |-> 0]
    /\ unheard = {}
    /\ uncertain = {}

Moves(t, at) == task' = [task EXCEPT ![t].at = at]
Ends(t) == task' = [task EXCEPT ![t] = Idle]
Ledger == <<calls, cap>>
History == <<asked, unheard, uncertain>>

Asks(c, action) ==
    /\ closing' = closing \cup {<<c, action>>}
    /\ asked' = [asked EXCEPT ![c] = @ + 1]

\* The epochs the call was given are those of ai.privacy_epochs.
EpochCurrent(t) == task[t].epoch = epoch

-----------------------------------------------------------------------------
(* Before the call.                                                        *)

\* The snapshot of the case was taken at this epoch or before.
CaseScope(e, h) == [Idle EXCEPT !.at = "check", !.epoch = e, !.began = epoch, !.hash = h]

\* A degraded vendor ends the call at once.
Begin(t) ==
    /\ task[t].at = "idle"
    /\ \E e \in 0..epoch, h \in Hash : task' = [task EXCEPT ![t] = CaseScope(e, h)]
    /\ UNCHANGED <<Ledger, epoch, results, closing, History>>

\* Variant: the epoch is not compared.
CheckNothing(t) ==
    /\ task[t].at = "check"
    /\ Moves(t, "lookup")
    /\ UNCHANGED <<Ledger, epoch, results, closing, History>>

\* EvidenceInvalidated, or TRANSPORT when the check fails, ends the call.
CheckEpoch(t) ==
    /\ task[t].at = "check"
    /\ \/ EpochCurrent(t) /\ Moves(t, "lookup")
       \/ Ends(t)
    /\ UNCHANGED <<Ledger, epoch, results, closing, History>>

Stored(t) ==
    {r \in results : r.valid /\ r.hash = task[t].hash /\ r.epoch = task[t].epoch}

\* A hit ends the call; remember does nothing with a reused result.  A lookup
\* that fails is a miss.
Reuse(t) ==
    /\ task[t].at = "lookup"
    /\ Stored(t) # {}
    /\ Ends(t)
    /\ UNCHANGED <<Ledger, epoch, results, closing, History>>

Miss(t) ==
    /\ task[t].at = "lookup"
    /\ Moves(t, "reserve")
    /\ UNCHANGED <<Ledger, epoch, results, closing, History>>

\* The next number stands for a fresh uuid4.
FreshId(c) == calls[c] = NULL /\ \A d \in CallId : d < c => calls[d] # NULL

ReserveCall(t) ==
    /\ task[t].at = "reserve"
    /\ \E c \in CallId, k \in Key, s \in Slot \cup {NULL}, e \in Est, x \in Cap :
         /\ FreshId(c)
         /\ Reserve(c, k, s, e, x)
         /\ \/ /\ task' = [task EXCEPT ![t].at = "calling", ![t].call = c, ![t].attempt = 1]
               /\ UNCHANGED unheard
            \/ Ends(t) /\ unheard' = unheard \cup {c}
    /\ UNCHANGED <<epoch, results, closing, asked, uncertain>>

\* No price, BudgetExceeded, a slot taken, a failure of the database.
NoReservation(t) ==
    /\ task[t].at = "reserve"
    /\ Ends(t)
    /\ UNCHANGED <<Ledger, epoch, results, closing, History>>

-----------------------------------------------------------------------------
(* The call and its retry.                                                 *)

Answers(t) ==
    /\ task[t].at = "calling"
    /\ task' = [task EXCEPT ![t].at = "ending", ![t].good = TRUE]
    /\ Asks(task[t].call, "settle")
    /\ UNCHANGED <<Ledger, epoch, results, unheard, uncertain>>

\* Variant: retried as long as there is time.
RetryAlways(t) ==
    /\ task[t].at = "calling"
    /\ Moves(t, "waiting")
    /\ UNCHANGED <<Ledger, epoch, results, closing, History>>

\* RATE_LIMIT, SERVER after the first attempt, with time left.
RetryLater(t) ==
    /\ task[t].at = "calling"
    /\ task[t].attempt = 1
    /\ Moves(t, "waiting")
    /\ UNCHANGED <<Ledger, epoch, results, closing, History>>

\* An answer that is an error: FAILED.
Refuses(t) ==
    /\ task[t].at = "calling"
    /\ Moves(t, "ending")
    /\ Asks(task[t].call, "fail")
    /\ UNCHANGED <<Ledger, epoch, results, unheard, uncertain>>

\* Variant: a call without an answer is a failed one.
NoAnswerFails(t) ==
    /\ task[t].at = "calling"
    /\ Moves(t, "ending")
    /\ Asks(task[t].call, "fail")
    /\ uncertain' = uncertain \cup {task[t].call}
    /\ UNCHANGED <<Ledger, epoch, results, unheard>>

\* TIMEOUT, TRANSPORT: the vendor may have worked and charged.
NoAnswer(t) ==
    /\ task[t].at = "calling"
    /\ Moves(t, "ending")
    /\ Asks(task[t].call, "mark_unknown")
    /\ uncertain' = uncertain \cup {task[t].call}
    /\ UNCHANGED <<Ledger, epoch, results, unheard>>

\* The epoch is compared again; if it has moved or cannot be read the error of
\* the first attempt closes the row.
Retry(t) ==
    /\ task[t].at = "waiting"
    /\ \/ /\ EpochCurrent(t)
          /\ task' = [task EXCEPT ![t].at = "calling", ![t].attempt = 2]
          /\ UNCHANGED <<closing, asked>>
       \/ /\ Moves(t, "ending")
          /\ Asks(task[t].call, "fail")
    /\ UNCHANGED <<Ledger, epoch, results, unheard, uncertain>>

-----------------------------------------------------------------------------
(* Closing the row.                                                        *)

\* What the statement of a shielded close does: settle charges the cost or the
\* reserved amount, fail also nothing; a call already closed is left alone.
Closes(c, action) ==
    CASE action = "settle" -> \E charge \in Charge \cup {calls[c].est} : Close(c, charge)
      [] action = "fail"   -> \E charge \in {0, calls[c].est} : Close(c, charge)
      [] OTHER             -> MarkUnknown(c)

\* It goes on whatever becomes of the task; a failure is only logged.
CloseRuns(c, action) ==
    /\ <<c, action>> \in closing
    /\ closing' = closing \ {<<c, action>>}
    /\ Closes(c, action) \/ UNCHANGED Ledger
    /\ UNCHANGED <<epoch, results, task, History>>

\* The task goes on when its close is through.
CloseDone(t) ==
    /\ task[t].at = "ending"
    /\ \A action \in Action : <<task[t].call, action>> \notin closing
    /\ IF task[t].good THEN Moves(t, "returned") ELSE Ends(t)
    /\ UNCHANGED <<Ledger, epoch, results, closing, History>>

\* Neither the engine nor the gateway bounds a statement; only the vendor's
\* call has a wait_for.
Unbounded == At \ {"idle", "calling"}

Hangs(t) ==
    /\ task[t].at \in Unbounded /\ ~task[t].hung
    /\ task' = [task EXCEPT ![t].hung = TRUE]
    /\ UNCHANGED <<Ledger, epoch, results, closing, History>>

Aborts(t) ==
    /\ task' = [task EXCEPT ![t].at = "ending", ![t].hung = FALSE]
    /\ Asks(task[t].call, "mark_unknown")
    /\ uncertain' = uncertain \cup {task[t].call}

\* Variant: the abort closes whatever was asked for before.
CancelTwice(t) ==
    /\ task[t].at # "idle"
    /\ \/ task[t].at \in {"calling", "waiting", "ending"} /\ Aborts(t)
       \/ /\ task[t].at \notin {"calling", "waiting", "ending"}
          /\ Ends(t) /\ UNCHANGED <<closing, asked, uncertain>>
    /\ UNCHANGED <<Ledger, epoch, results, unheard>>

\* An abort between reserve and close marks the call UNKNOWN and awaits that;
\* anywhere else it ends the call.  (Cancelled under reserve: NoReservation or
\* the unheard case of ReserveCall.)
CancelTask(t) ==
    /\ task[t].at # "idle"
    /\ \/ task[t].at \in {"calling", "waiting"} /\ Aborts(t)
       \/ /\ task[t].at \notin {"calling", "waiting"}
          /\ Ends(t) /\ UNCHANGED <<closing, asked, uncertain>>
    /\ UNCHANGED <<Ledger, epoch, results, unheard>>

-----------------------------------------------------------------------------
(* remember.                                                               *)

\* The caller found the output valid; the epoch is compared before it is put.
CheckAgain(t) ==
    /\ task[t].at = "returned"
    /\ \/ EpochCurrent(t) /\ Moves(t, "keep")
       \/ Ends(t)
    /\ UNCHANGED <<Ledger, epoch, results, closing, History>>

Put(t) ==
    /\ task[t].at = "keep"
    /\ results' = results \cup {[call |-> task[t].call, hash |-> task[t].hash,
                                 epoch |-> task[t].epoch, valid |-> TRUE]}
    /\ Ends(t)
    /\ UNCHANGED <<Ledger, epoch, closing, History>>

-----------------------------------------------------------------------------
(* Around the process.                                                     *)

\* database/sql/invalidate_scope.sql, run by the backend with the new epoch.
Invalidate ==
    /\ epoch < MaxEpoch
    /\ epoch' = epoch + 1
    /\ results' = {[r EXCEPT !.valid = FALSE] : r \in results}
    /\ UNCHANGED <<Ledger, task, closing, History>>

SweepCalls ==
    /\ \E C \in SUBSET CallId \ {{}} : Sweep(C)
    /\ UNCHANGED <<epoch, results, task, closing, History>>

Kill ==
    /\ closing # {} \/ \E t \in Task : task[t] # Idle
    /\ task' = [t \in Task |-> Idle]
    /\ closing' = {}
    /\ unheard' = {c \in CallId : calls[c] # NULL}
    /\ UNCHANGED <<Ledger, epoch, results, asked, uncertain>>

Step(t) ==
    /\ ~task[t].hung
    /\ \/ CheckEpoch(t) \/ Reuse(t) \/ Miss(t) \/ ReserveCall(t) \/ NoReservation(t)
       \/ Answers(t) \/ RetryLater(t) \/ Refuses(t) \/ NoAnswer(t) \/ Retry(t)
       \/ CloseDone(t) \/ CheckAgain(t) \/ Put(t)

GNext ==
    \/ \E t \in Task : Begin(t) \/ Step(t) \/ Hangs(t) \/ CancelTask(t)
    \/ \E c \in CallId, action \in Action : CloseRuns(c, action)
    \/ Invalidate
    \/ SweepCalls
    \/ Kill

\* The close t awaits, its statement answered.
CloseOf(t) ==
    /\ task[t].at = "ending" /\ ~task[t].hung
    /\ \E action \in Action : CloseRuns(task[t].call, action)

\* The event loop resumes a task whose await has returned, and wait_for bounds
\* the vendor's call.  Nothing makes the database answer: Hangs may happen at
\* any statement, and a close that no task awaits need not get anywhere.
GFairness == \A t \in Task : WF_gvars(Step(t)) /\ WF_gvars(CloseOf(t))

GSpec == GInit /\ [][GNext]_gvars
FairGSpec == GSpec /\ GFairness

-----------------------------------------------------------------------------
(* Properties.                                                             *)

InFlight(c) == \E t \in Task : task[t].call = c /\ task[t].at \in {"calling", "waiting"}

\* Whatever ends a call - an answer, an error, a stale epoch before the retry,
\* a cancellation at any await - its row is asked to be closed exactly once,
\* unless no task ever learnt its id.
ClosedExactlyOnce ==
    \A c \in CallId :
        calls[c] # NULL /\ c \notin unheard => asked[c] = IF InFlight(c) THEN 0 ELSE 1

\* A call that may have been worked on by the vendor without our seeing the
\* answer is never booked as free.
UncertainIsNotFree ==
    \A c \in uncertain : calls[c].charged # 0

\* A call that begins after its evidence was withdrawn never gets a result
\* stored before, not even one that was put while the withdrawal went on.
ReuseIsCurrent ==
    [][\A t \in Task : Reuse(t) => \A r \in Stored(t) : r.epoch >= task[t].began]_gvars

\* A call that was begun ends, retry, closing and storing included, or stands
\* at a statement the database never answers; a cancellation frees it from there.
CallEnds == \A t \in Task : task[t].at # "idle" ~> task[t].at = "idle" \/ task[t].hung
=============================================================================
