------------------------------- MODULE Worker -------------------------------
(***************************************************************************)
(* The worker processes (workers/main.py) over the queue of JobQueue: the  *)
(* loops of one slot claim jobs, run a handler and a heartbeat for each,   *)
(* and remember the running jobs in the `_inflight` dictionary of their    *)
(* process, which shutdown walks to hand the leases back.                  *)
(*                                                                         *)
(* A Worker is one process seen through one of its slots: the slots claim  *)
(* different kinds and meet only in shutdown.  Every step takes at most    *)
(* one step of JobQueue, so the processes implement JobQueue.              *)
(*                                                                         *)
(* A statement that raises, or that matches 0 rows, leaves the queue as it *)
(* is; a statement whose reply is lost has its effect all the same.  A     *)
(* statement cut off by a cancellation has taken effect by then or never   *)
(* does.                                                                   *)
(***************************************************************************)
EXTENDS JobQueue

CONSTANTS
    Loop,       \* the asyncio tasks _slot_loop
    WorkerOf    \* the process of each loop

ASSUME LoopAssumption ==
    /\ WorkerOf \in [Loop -> Worker]
    /\ NULL \notin Ticket

VARIABLES
    phase,      \* how far the process of each worker id has gone in run()
    loop,       \* where each loop stands, the claim it holds and the number
                \* of attempts the claim returned
    inflight,   \* _inflight of each process: the claim kept under a job id
    excused,    \* history: claims nobody in their process will hand back,
                \* as one of the things Excuses names went wrong
    alerted     \* jobs a retry_exhausted alert went out for

wvars == <<vars, phase, loop, inflight, excused, alerted>>

Phase == {"up", "stopping", "cancelling", "exited", "killed"}

\* "claimed": the claim is committed, its reply not yet looked at.
\* "settled": the handler has sent its one statement and not yet returned.
\* "cancelled": the heartbeat has cancelled the handler.
\* "failing": the handler raised, HANDLER_ERROR is still to be recorded.
Pc == {"polling", "claimed", "running", "settled", "cancelled", "failing", "ended"}

WTypeOK ==
    /\ TypeOK
    /\ phase \in [Worker -> Phase]
    /\ loop \in [Loop -> [pc : Pc, tk : Ticket \cup {NULL}, attempts : Nat]]
    /\ inflight \in [Worker -> [Job -> Ticket \cup {NULL}]]
    /\ excused \subseteq Ticket
    /\ alerted \subseteq Job

At(pc) == [pc |-> pc, tk |-> NULL, attempts |-> 0]

WInit ==
    /\ Init
    /\ phase = [w \in Worker |-> "up"]
    /\ loop = [l \in Loop |-> At("polling")]
    /\ inflight = [w \in Worker |-> [j \in Job |-> NULL]]
    /\ excused = {}
    /\ alerted = {}

\* Somebody still holds the claim; any other is forgotten.
Remembered(tk) ==
    \/ \E l \in Loop : loop[l].tk = tk
    \/ \E w \in Worker : inflight[w][tk.job] = tk

GoesOn(l) == phase[WorkerOf[l]] \in {"up", "stopping"}

Moves(l, pc) == loop' = [loop EXCEPT ![l].pc = pc]
Drops(l, pc) == loop' = [loop EXCEPT ![l] = At(pc)]

\* The statement reaches its row, or matches none, or raises.
OrNothing(statement) == statement \/ UNCHANGED vars

\* inflight of the process of l without the entry of l's job.
Pop(l) ==
    inflight' = [inflight EXCEPT ![WorkerOf[l]][loop[l].tk.job] = NULL]

\* A statement on the row of l's claim that was answered, by a row or by none,
\* leaves the claim without the row; one that raised may not.
Answered(l) == \A tk \in {loop[l].tk} : ~Owns(tk)'

\* The claims of S are given up though their row may still be theirs: the
\* reply to the claim was lost, or it was cut off before its handler started;
\* the fail after a handler's exception, or a release, raised or was cut off;
\* the heartbeats have failed for too long.
Excuses(S) == excused' = {tk \in excused \cup S : Owns(tk)'}

-----------------------------------------------------------------------------
(* A slot loop.                                                            *)

\* The loop looks at the shutdown event before it claims.  A claim that finds
\* no row, or raises, leaves it polling; one that raises may have committed.
ClaimNext(l) ==
    /\ loop[l].pc = "polling"
    /\ phase[WorkerOf[l]] = "up"
    /\ \E j \in Job, g \in Gen :
         LET tk == [job |-> j, worker |-> WorkerOf[l], gen |-> g]
         IN  /\ Claim(WorkerOf[l], j, g)
             /\ \/ UNCHANGED loop /\ Excuses({tk})
                \/ /\ loop' = [loop EXCEPT ![l] =
                        [pc |-> "claimed", tk |-> tk, attempts |-> jobs'[j].attempts]]
                   /\ Excuses({})
    /\ UNCHANGED <<phase, inflight, alerted>>

\* run_job: the handler and its heartbeat start, the entry is kept.
StartHandler(l) ==
    LET w == WorkerOf[l]
    IN  /\ loop[l].pc = "claimed"
        /\ phase[w] = "up"
        /\ Moves(l, "running")
        /\ inflight' = [inflight EXCEPT ![w][loop[l].tk.job] = loop[l].tk]
        /\ UNCHANGED <<vars, phase, excused, alerted>>

\* The shutdown event was set while the claim was under way.
HandBack(l) ==
    /\ loop[l].pc = "claimed"
    /\ phase[WorkerOf[l]] = "stopping"
    /\ \/ OrNothing(Release(loop[l].tk)) /\ Answered(l) /\ Excuses({})
       \/ UNCHANGED vars /\ Excuses({loop[l].tk})
    /\ Drops(l, "ended")
    /\ UNCHANGED <<phase, inflight, alerted>>

LoopEnds(l) ==
    /\ loop[l].pc = "polling"
    /\ phase[WorkerOf[l]] = "stopping"
    /\ Drops(l, "ended")
    /\ UNCHANGED <<vars, phase, inflight, excused, alerted>>

-----------------------------------------------------------------------------
(* The handler and its heartbeat.                                          *)

\* _AlertingJobs.fail and the HANDLER_ERROR branch: an alert goes out when the
\* row was updated and the attempts the claim returned were the last.  The
\* reply may be lost, and with it the alert.
AlertIfExhausted(l) ==
    LET j == loop[l].tk.job
    IN  \/ UNCHANGED alerted
        \/ /\ loop[l].attempts >= MaxAttempts[j]
           /\ alerted' = alerted \cup {j}

\* Variant: the alert does not ask whether the row was updated.
RecordFailUnheard(l) ==
    /\ OrNothing(\E s \in RetryDelays : Fail(loop[l].tk, s))
    /\ AlertIfExhausted(l)

RecordFail(l) ==
    \/ /\ \E s \in RetryDelays : Fail(loop[l].tk, s)
       /\ AlertIfExhausted(l)
    \/ UNCHANGED <<vars, alerted>>

Renew(l) ==
    /\ loop[l].pc \in {"running", "settled"}
    /\ GoesOn(l)
    /\ Heartbeat(loop[l].tk)
    /\ Excuses({})
    /\ UNCHANGED <<phase, loop, inflight, alerted>>

\* A handler sends one complete, cancel or fail as its last act
\* (settle_backend_error and the handlers); finalize closes the row likewise.
\* If it raises, so does the handler: that is Raise.
Settle(l) ==
    /\ loop[l].pc = "running"
    /\ GoesOn(l)
    /\ Moves(l, "settled")
    /\ \/ OrNothing(Complete(loop[l].tk) \/ Cancel(loop[l].tk)) /\ UNCHANGED alerted
       \/ RecordFail(l)
    /\ Answered(l)
    /\ Excuses({})
    /\ UNCHANGED <<phase, inflight>>

\* The handler returns: done_clean, the entry goes.
Finish(l) ==
    /\ loop[l].pc = "settled"
    /\ GoesOn(l)
    /\ Pop(l)
    /\ Drops(l, "polling")
    /\ UNCHANGED <<vars, phase, excused, alerted>>

Raise(l) ==
    /\ loop[l].pc \in {"running", "settled"}
    /\ GoesOn(l)
    /\ Pop(l)
    /\ Moves(l, "failing")
    /\ UNCHANGED <<vars, phase, excused, alerted>>

RecordHandlerError(l) ==
    /\ loop[l].pc = "failing"
    /\ \/ RecordFail(l) /\ Answered(l) /\ Excuses({})
       \/ UNCHANGED <<vars, alerted>> /\ Excuses({loop[l].tk})
    /\ Drops(l, "polling")
    /\ UNCHANGED <<phase, inflight>>

\* Variant: only a change of generation counts as a lost lease.
BeatLostByGeneration(l) ==
    /\ loop[l].pc \in {"running", "settled"}
    /\ GoesOn(l)
    /\ jobs[loop[l].tk.job].generation # loop[l].tk.gen
    /\ Moves(l, "cancelled")
    /\ UNCHANGED <<vars, phase, inflight, excused, alerted>>

\* The heartbeat finds that the row is no longer ours.
BeatLost(l) ==
    /\ loop[l].pc \in {"running", "settled"}
    /\ GoesOn(l)
    /\ ~Owns(loop[l].tk)
    /\ Moves(l, "cancelled")
    /\ UNCHANGED <<vars, phase, inflight, excused, alerted>>

\* The heartbeats have failed for so long that the lease counts as lost.
BeatGivesUp(l) ==
    /\ loop[l].pc \in {"running", "settled"}
    /\ GoesOn(l)
    /\ Moves(l, "cancelled")
    /\ UNCHANGED <<vars, phase, inflight, excused, alerted>>

\* Variant: the entry is dropped under shutdown as well.
HandlerCancelledPops(l) ==
    LET w == WorkerOf[l]
    IN  /\ loop[l].pc = "cancelled"
        /\ GoesOn(l)
        /\ Pop(l)
        /\ UNCHANGED <<vars, phase, alerted>>
        /\ IF phase[w] = "up"
           THEN Drops(l, "polling") /\ Excuses({loop[l].tk})
           ELSE Drops(l, "ended") /\ Excuses({})

\* The loop sees its handler cancelled by the heartbeat and goes on; under
\* shutdown it passes the cancellation on and leaves the entry.
HandlerCancelled(l) ==
    LET w == WorkerOf[l]
    IN  /\ loop[l].pc = "cancelled"
        /\ GoesOn(l)
        /\ UNCHANGED <<vars, phase, alerted>>
        /\ IF phase[w] = "up"
           THEN Pop(l) /\ Drops(l, "polling") /\ Excuses({loop[l].tk})
           ELSE Drops(l, "ended") /\ Excuses({}) /\ UNCHANGED inflight

-----------------------------------------------------------------------------
(* Shutdown: run() and _release_inflight.                                  *)

RequestShutdown(w) ==
    /\ phase[w] = "up"
    /\ phase' = [phase EXCEPT ![w] = "stopping"]
    /\ UNCHANGED <<vars, loop, inflight, excused, alerted>>

\* WORKER_SHUTDOWN_DEADLINE_SECONDS have passed, or every loop has ended.
DeadlinePasses(w) ==
    /\ phase[w] = "stopping"
    /\ phase' = [phase EXCEPT ![w] = "cancelling"]
    /\ UNCHANGED <<vars, loop, inflight, excused, alerted>>

\* Variant: a loop that runs a handler is waited for.
CancelIdleLoop(l) ==
    /\ phase[WorkerOf[l]] = "cancelling"
    /\ loop[l].pc \notin {"running", "settled", "ended"}
    /\ Drops(l, "ended")
    /\ UNCHANGED <<vars, phase, inflight, excused, alerted>>

\* The loop is cancelled and its handler with it.  Before run_job has kept the
\* entry, and after it was popped for an exception, nothing is left of the claim.
CancelLoop(l) ==
    /\ phase[WorkerOf[l]] = "cancelling"
    /\ loop[l].pc # "ended"
    /\ UNCHANGED <<vars, phase, inflight, alerted>>
    /\ Drops(l, "ended")
    /\ Excuses(IF loop[l].pc \in {"claimed", "failing"} THEN {loop[l].tk} ELSE {})

LoopsOf(w) == {l \in Loop : WorkerOf[l] = w}

Draining(w) ==
    /\ phase[w] = "cancelling"
    /\ \A l \in LoopsOf(w) : loop[l].pc = "ended"

\* Variant: the row is released by its job id alone.
ReleaseEntryBlindly(w, j) ==
    /\ Draining(w)
    /\ inflight[w][j] # NULL
    /\ inflight' = [inflight EXCEPT ![w][j] = NULL]
    /\ jobs' = [jobs EXCEPT ![j] = ReleasedRow(@)]
    /\ UNCHANGED <<tickets, issued, writer, phase, loop, excused, alerted>>

\* One entry is released; 0 rows are taken for done, an error is logged.
ReleaseEntry(w, j) ==
    LET tk == inflight[w][j]
    IN  /\ Draining(w)
        /\ tk # NULL
        /\ inflight' = [inflight EXCEPT ![w][j] = NULL]
        /\ \/ Release(tk) /\ Excuses({})
           \/ ~Owns(tk) /\ UNCHANGED vars /\ Excuses({})
           \/ UNCHANGED vars /\ Excuses({tk})
        /\ UNCHANGED <<phase, loop, alerted>>

Exit(w) ==
    /\ Draining(w)
    /\ \A j \in Job : inflight[w][j] = NULL
    /\ phase' = [phase EXCEPT ![w] = "exited"]
    /\ UNCHANGED <<vars, loop, inflight, excused, alerted>>

Kill(w) ==
    /\ phase[w] \in {"up", "stopping", "cancelling"}
    /\ phase' = [phase EXCEPT ![w] = "killed"]
    /\ loop' = [l \in Loop |-> IF WorkerOf[l] = w THEN At("ended") ELSE loop[l]]
    /\ inflight' = [inflight EXCEPT ![w] = [j \in Job |-> NULL]]
    /\ excused' = {tk \in excused : tk.worker # w}
    /\ UNCHANGED <<vars, alerted>>

-----------------------------------------------------------------------------
\* What goes on outside the processes, and the forgetting of claims.
Outside ==
    /\ \/ \E j \in Job : Insert(j) \/ BackendCancel(j)
       \/ Reap
       \/ Tick
       \/ \E tk \in tickets : ~Remembered(tk) /\ Forget(tk)
    /\ Excuses({})
    /\ UNCHANGED <<phase, loop, inflight, alerted>>

LoopStep(l) ==
    \/ ClaimNext(l) \/ StartHandler(l) \/ HandBack(l) \/ LoopEnds(l)
    \/ Renew(l) \/ Settle(l) \/ Finish(l) \/ Raise(l) \/ RecordHandlerError(l)
    \/ BeatLost(l) \/ BeatGivesUp(l) \/ HandlerCancelled(l) \/ CancelLoop(l)

ShutdownStep(w) ==
    \/ RequestShutdown(w) \/ DeadlinePasses(w) \/ Exit(w) \/ Kill(w)
    \/ \E j \in Job : ReleaseEntry(w, j)

WNext ==
    \/ \E l \in Loop : LoopStep(l)
    \/ \E w \in Worker : ShutdownStep(w)
    \/ Outside

\* The event loop runs every task that can run: heartbeats keep beating, a
\* cancelled task ends, the shutdown timer fires, the entries are walked.
\* Handlers need not end and nobody need be told to stop.  Time passes, and the
\* scheduler of the backend (or --reaper) runs the reaper for ever.
WFairness ==
    /\ \A l \in Loop :
         /\ WF_wvars(BeatLost(l))
         /\ WF_wvars(HandlerCancelled(l))
         /\ WF_wvars(CancelLoop(l))
    /\ \A w \in Worker :
         /\ WF_wvars(DeadlinePasses(w))
         /\ WF_wvars(\E j \in Job : ReleaseEntry(w, j))
         /\ WF_wvars(Exit(w))
    /\ WF_wvars(Outside /\ Tick)
    /\ WF_wvars(Outside /\ Reap)

WSpec == WInit /\ [][WNext]_wvars
FairWSpec == WSpec /\ WFairness

-----------------------------------------------------------------------------
(* Properties.                                                             *)

\* The processes use the queue as JobQueue says a worker may.
UsesQueue == Spec

\* A process that has stopped by request holds no lease, whatever the order of
\* deadline, cancellations, heartbeats, exceptions and reaping: each row it
\* claimed was settled, released or taken away, unless the claim is excused.
ExitReturnsLeases ==
    \A tk \in Ticket :
        phase[tk.worker] = "exited" /\ Owns(tk) => tk \in excused

\* A job whose retries were reported as exhausted is closed: the alert is
\* decided on the number of attempts the claim returned, long before.
AlertIsTrue ==
    \A j \in alerted : jobs[j].status \in {"FAILED", "CANCELLED"}

Works(l, tk) == loop[l].pc \in {"running", "settled", "cancelled"} /\ loop[l].tk = tk

\* A handler that lost its lease does not work on for ever.
LostHandlerStops ==
    \A l \in Loop :
        (\E tk \in Ticket : Works(l, tk) /\ ~Owns(tk))
            ~> ~(\E tk \in Ticket : Works(l, tk) /\ ~Owns(tk))

\* A process asked to stop stops, whatever its handlers do.
StopEnds ==
    \A w \in Worker : phase[w] = "stopping" ~> phase[w] \in {"exited", "killed"}

\* A running job nobody works on: its process was killed, the reply to its
\* claim was lost, or its release failed.
Abandoned(j) ==
    /\ jobs[j].status = "RUNNING"
    /\ \A tk \in tickets : tk.job = j /\ tk.gen = jobs[j].generation => ~Remembered(tk)

\* It does not stay RUNNING: the reaper requeues it or closes it, the last
\* attempt included.
AbandonedIsReaped == \A j \in Job : Abandoned(j) ~> jobs[j].status # "RUNNING"
=============================================================================
