------------------------------ MODULE JobQueue ------------------------------
(***************************************************************************)
(* The durable queue ai.jobs (database/migrations/001_ai_jobs.sql) under   *)
(* the statements of adapters/postgres_jobs.py.  A row is one job.  Every  *)
(* statement is one short transaction that updates one row, so it is one   *)
(* action; its WHERE clause is the guard (a statement that matches 0 rows  *)
(* changes nothing and is a stuttering step).                              *)
(*                                                                         *)
(* Who may call a statement is kept in `tickets`: a ticket is the          *)
(* <job, worker, generation> that a claim returned and that some task of a *)
(* worker process still remembers, however late it uses it.                *)
(*                                                                         *)
(* Timestamps are kept as the time left until them, so that the clock is   *)
(* unbounded and the state finite: `lease` runs from LeaseS down to -1     *)
(* ("lease_until < now()", 0 being "lease_until = now()"), `available` and *)
(* `deadline` run down to 0 ("<= now()").                                  *)
(***************************************************************************)
EXTENDS Integers, FiniteSets

CONSTANTS
    Job,            \* ids of the rows the backend may insert
    Worker,         \* worker ids <host>:<pid>:<slot>, shared by a slot's loops
    Gen,            \* generation ids (uuid4)
    NULL,
    Kind,           \* kind of each job
    MaxAttempts,    \* max_attempts of each job
    Priority,       \* priority of each job
    DeadlineAfter,  \* deadline_at - created_at of each job, or NULL
    SlotKinds,      \* the kinds a worker id claims
    LeaseS,         \* JOB_LEASE_SECONDS
    RetryDelays     \* the retry_after_s values the callers of fail pass

JobKind == {"PREPARE", "SENTENCE", "TEXT_RETRY", "RETAIN", "JURY_VOTE"}

ASSUME NullAssumption ==
    /\ NULL \notin Int
    /\ NULL \notin Worker
    /\ NULL \notin Gen

ASSUME ColumnAssumption ==
    /\ Kind \in [Job -> JobKind]
    /\ MaxAttempts \in [Job -> Nat \ {0}]
    /\ Priority \in [Job -> Int]
    /\ DeadlineAfter \in [Job -> Nat \cup {NULL}]
    /\ SlotKinds \in [Worker -> SUBSET JobKind]
    /\ LeaseS \in Nat \ {0}
    /\ RetryDelays \subseteq Nat

VARIABLES
    jobs,     \* the table: row of each job
    tickets,  \* claims some task remembers
    issued,   \* history: the generation the last claim of the job returned
    writer    \* history: the generation behind the last owned write to the
              \* row since that claim, or NULL

vars == <<jobs, tickets, issued, writer>>

Terminal == {"SUCCEEDED", "FAILED", "CANCELLED"}
Status == {"ABSENT", "QUEUED", "RUNNING"} \cup Terminal

Row == [status     : Status,
        attempts   : Nat,
        owner      : Worker \cup {NULL},
        generation : Gen \cup {NULL},
        lease      : (-1..LeaseS) \cup {NULL},
        available  : Nat,
        deadline   : Nat \cup {NULL}]

Ticket == [job : Job, worker : Worker, gen : Gen]

TypeOK ==
    /\ jobs \in [Job -> Row]
    /\ tickets \subseteq Ticket
    /\ issued \in [Job -> Gen \cup {NULL}]
    /\ writer \in [Job -> Gen \cup {NULL}]

\* Column defaults of a row.
BlankRow(status, deadline) ==
    [status |-> status, attempts |-> 0, owner |-> NULL, generation |-> NULL,
     lease |-> NULL, available |-> 0, deadline |-> deadline]

Init ==
    /\ jobs = [j \in Job |-> BlankRow("ABSENT", NULL)]
    /\ tickets = {}
    /\ issued = [j \in Job |-> NULL]
    /\ writer = [j \in Job |-> NULL]

-----------------------------------------------------------------------------
(* What each statement does to the row it matches.                         *)

Freed(r) == [r EXCEPT !.owner = NULL, !.generation = NULL, !.lease = NULL]

ClaimedRow(r, w, g) ==
    [r EXCEPT !.status = "RUNNING", !.owner = w, !.generation = g,
              !.lease = LeaseS, !.attempts = @ + 1]

\* Variant: a heartbeat that extends the old lease instead of starting it anew.
HeartbeatRowExtends(r) == [r EXCEPT !.lease = @ + LeaseS]

HeartbeatRow(r) == [r EXCEPT !.lease = LeaseS]

\* COMPLETE_SQL leaves owner, generation and lease where they are.
CompletedRow(r) == [r EXCEPT !.status = "SUCCEEDED"]

CancelledRow(r) == [Freed(r) EXCEPT !.status = "CANCELLED"]

\* Variant: one attempt too many.
FailedStatusOffByOne(j, s) ==
    IF Kind[j] = "SENTENCE" /\ jobs[j].deadline # NULL /\ jobs[j].deadline <= s
    THEN "CANCELLED"
    ELSE IF jobs[j].attempts > MaxAttempts[j] THEN "FAILED" ELSE "QUEUED"

\* Variant: the deadline is compared with now, not with the time of the retry.
FailedStatusNow(j, s) ==
    IF Kind[j] = "SENTENCE" /\ jobs[j].deadline # NULL /\ jobs[j].deadline <= 0
    THEN "CANCELLED"
    ELSE IF jobs[j].attempts >= MaxAttempts[j] THEN "FAILED" ELSE "QUEUED"

FailedStatus(j, s) ==
    IF Kind[j] = "SENTENCE" /\ jobs[j].deadline # NULL /\ jobs[j].deadline <= s
    THEN "CANCELLED"
    ELSE IF jobs[j].attempts >= MaxAttempts[j] THEN "FAILED" ELSE "QUEUED"

FailedRow(j, s) ==
    [Freed(jobs[j]) EXCEPT !.status = FailedStatus(j, s), !.available = s]

\* Variant: release forgets the status.
ReleasedRowStillRunning(r) == [Freed(r) EXCEPT !.attempts = @ - 1]

\* RELEASE_SQL gives the attempt back and looks at no deadline.
ReleasedRow(r) == [Freed(r) EXCEPT !.status = "QUEUED", !.attempts = @ - 1]

\* Variant: the reaper requeues whatever number of attempts was spent.
ReapedStatusUnbounded(j) ==
    IF Kind[j] = "TEXT_RETRY" THEN "FAILED"
    ELSE IF Kind[j] = "SENTENCE" /\ (jobs[j].deadline = NULL \/ jobs[j].deadline <= 0)
    THEN "CANCELLED" ELSE "QUEUED"

ReapedStatus(j) ==
    IF Kind[j] = "TEXT_RETRY" THEN "FAILED"
    ELSE IF Kind[j] = "SENTENCE" /\ (jobs[j].deadline = NULL \/ jobs[j].deadline <= 0)
    THEN "CANCELLED"
    ELSE IF jobs[j].attempts >= MaxAttempts[j] THEN "FAILED" ELSE "QUEUED"

ReapedRow(j) == [Freed(jobs[j]) EXCEPT !.status = ReapedStatus(j)]

-----------------------------------------------------------------------------
(* The guards: CLAIM_SQL's and REAPER_SQL's WHERE and OWNERSHIP_WHERE.     *)

Claimable(w, j) ==
    /\ jobs[j].status = "QUEUED"
    /\ Kind[j] \in SlotKinds[w]
    /\ jobs[j].attempts < MaxAttempts[j]
    /\ jobs[j].available <= 0
    /\ jobs[j].deadline # NULL => jobs[j].deadline > 0

\* Variant: the owner is told by the worker id alone.
OwnsAnyGeneration(tk) ==
    LET r == jobs[tk.job]
    IN  r.status = "RUNNING" /\ r.owner = tk.worker /\ r.lease > 0

\* Variant: a statement that does not look at the status.
OwnsAnyStatus(tk) ==
    LET r == jobs[tk.job]
    IN  r.owner = tk.worker /\ r.generation = tk.gen /\ r.lease > 0

Owns(tk) ==
    LET r == jobs[tk.job]
    IN  /\ r.status = "RUNNING"
        /\ r.owner = tk.worker
        /\ r.generation = tk.gen
        /\ r.lease > 0

\* Variant: the reaper skips the rows that cannot be retried.
LeaseExpiredRetryable(j) ==
    jobs[j].status = "RUNNING" /\ jobs[j].lease < 0 /\ jobs[j].attempts < MaxAttempts[j]

LeaseExpired(j) == jobs[j].status = "RUNNING" /\ jobs[j].lease < 0

\* uuid4: a value no row and no task holds.  Values are recycled once nobody
\* can tell, which keeps Gen small.
FreshGen(g) ==
    /\ \A tk \in tickets : tk.gen # g
    /\ \A j \in Job : jobs[j].generation # g

-----------------------------------------------------------------------------
(* The statements.                                                         *)

\* Ties in priority are broken by available_at, created_at, id in the code
\* and by either order here.
Claim(w, j, g) ==
    /\ Claimable(w, j)
    /\ \A k \in Job : Claimable(w, k) => Priority[k] <= Priority[j]
    /\ FreshGen(g)
    /\ jobs' = [jobs EXCEPT ![j] = ClaimedRow(jobs[j], w, g)]
    /\ tickets' = tickets \cup {[job |-> j, worker |-> w, gen |-> g]}
    /\ issued' = [issued EXCEPT ![j] = g]
    /\ writer' = [writer EXCEPT ![j] = NULL]

\* An owned UPDATE: OWNERSHIP_WHERE holds and the row becomes r.
OwnedWrite(tk, r) ==
    /\ tk \in tickets
    /\ Owns(tk)
    /\ jobs' = [jobs EXCEPT ![tk.job] = r]
    /\ writer' = [writer EXCEPT ![tk.job] = tk.gen]
    /\ UNCHANGED <<tickets, issued>>

Heartbeat(tk) == OwnedWrite(tk, HeartbeatRow(jobs[tk.job]))
Complete(tk) == OwnedWrite(tk, CompletedRow(jobs[tk.job]))
Cancel(tk) == OwnedWrite(tk, CancelledRow(jobs[tk.job]))
Fail(tk, s) == OwnedWrite(tk, FailedRow(tk.job, s))
Release(tk) == OwnedWrite(tk, ReleasedRow(jobs[tk.job]))

\* One UPDATE takes back every expired lease.
Reap ==
    /\ \E j \in Job : LeaseExpired(j)
    /\ jobs' = [j \in Job |-> IF LeaseExpired(j) THEN ReapedRow(j) ELSE jobs[j]]
    /\ UNCHANGED <<tickets, issued, writer>>

\* A task ends and with it its knowledge of the claim; a reply lost after the
\* commit of a claim is a claim forgotten at once.
Forget(tk) ==
    /\ tk \in tickets
    /\ tickets' = tickets \ {tk}
    /\ UNCHANGED <<jobs, issued, writer>>

Crash(w) ==
    /\ \E tk \in tickets : tk.worker = w
    /\ tickets' = {tk \in tickets : tk.worker # w}
    /\ UNCHANGED <<jobs, issued, writer>>

-----------------------------------------------------------------------------
(* The backend and the clock (external).                                   *)

\* The backend inserts the row in the transaction of the business event.
Insert(j) ==
    /\ jobs[j].status = "ABSENT"
    /\ jobs' = [jobs EXCEPT ![j] = BlankRow("QUEUED", DeadlineAfter[j])]
    /\ UNCHANGED <<tickets, issued, writer>>

\* Invalidation (D-26) and the deadline watchdog close a job themselves.
BackendCancel(j) ==
    /\ jobs[j].status \in {"QUEUED", "RUNNING"}
    /\ jobs' = [jobs EXCEPT ![j] = CancelledRow(jobs[j])]
    /\ UNCHANGED <<tickets, issued, writer>>

\* finalize closes the job of the generation that called it.
BackendFinalize(tk) ==
    /\ Kind[tk.job] \in {"SENTENCE", "TEXT_RETRY"}
    /\ Complete(tk)

Later(t, floor) == IF t > floor THEN t - 1 ELSE t

Aged(r) ==
    [r EXCEPT !.lease = IF @ = NULL THEN NULL ELSE Later(@, -1),
              !.available = Later(@, 0),
              !.deadline = IF @ = NULL THEN NULL ELSE Later(@, 0)]

Tick ==
    /\ jobs' = [j \in Job |-> Aged(jobs[j])]
    /\ UNCHANGED <<tickets, issued, writer>>

-----------------------------------------------------------------------------
Use(tk) ==
    \/ Heartbeat(tk)
    \/ Complete(tk)
    \/ Cancel(tk)
    \/ \E s \in RetryDelays : Fail(tk, s)
    \/ Release(tk)
    \/ BackendFinalize(tk)
    \/ Forget(tk)

Next ==
    \/ \E j \in Job : Insert(j) \/ BackendCancel(j)
    \/ \E w \in Worker, j \in Job, g \in Gen : Claim(w, j, g)
    \/ \E tk \in tickets : Use(tk)
    \/ \E w \in Worker : Crash(w)
    \/ Reap
    \/ Tick

Spec == Init /\ [][Next]_vars

-----------------------------------------------------------------------------
(* Properties.                                                             *)

\* The CHECK constraints of 001_ai_jobs.sql can never abort a statement: an
\* attempt is never given back that was not taken, never taken beyond the
\* limit, and a RUNNING row always has owner, generation and lease.
RowChecks ==
    \A j \in Job :
        /\ jobs[j].attempts \in 0..MaxAttempts[j]
        /\ jobs[j].status = "RUNNING" =>
             /\ jobs[j].attempts >= 1
             /\ jobs[j].owner # NULL
             /\ jobs[j].generation # NULL
             /\ jobs[j].lease # NULL

\* A row waits in the queue only while an attempt is left: CLAIM_SQL would
\* skip any other row for ever and REAPER_SQL looks at RUNNING rows only, so
\* fail, release and reap must between them never put one back.
QueuedHasAttempt ==
    \A j \in Job : jobs[j].status = "QUEUED" => jobs[j].attempts < MaxAttempts[j]

\* A RUNNING row carries the generation of the last claim, and a write that
\* reaches the row comes from that generation: a worker whose lease was reaped
\* and whose job was claimed again writes 0 rows, even when the new holder has
\* the same worker id.
OnlyTheHolderWrites ==
    \A j \in Job :
        /\ jobs[j].status = "RUNNING" => jobs[j].generation = issued[j]
        /\ writer[j] # NULL => writer[j] = issued[j]

\* SUCCEEDED, FAILED and CANCELLED rows are never taken up again, whatever a
\* late complete, fail, cancel, release, heartbeat or reap does.
TerminalIsFinal ==
    [][\A j \in Job : jobs[j].status \in Terminal => jobs'[j].status = jobs[j].status]_vars

\* A row that can never be claimed again but still reads QUEUED.
Stranded(j) ==
    /\ jobs[j].status = "QUEUED"
    /\ jobs[j].deadline # NULL
    /\ jobs[j].deadline <= jobs[j].available

Requeued(j) == jobs[j].status = "RUNNING" /\ jobs'[j].status = "QUEUED"

\* fail and reap (the requeues that keep the attempt) never put a SENTENCE job
\* back at a time its deadline has passed.
NoStrandedRetry ==
    [][\A j \in Job :
         Requeued(j) /\ Kind[j] = "SENTENCE" /\ jobs'[j].attempts = jobs[j].attempts
            => ~Stranded(j)']_vars

\* The queue as its callers may rely on it.
PhaseOf(r) ==
    CASE r.status = "ABSENT"  -> "none"
      [] r.status = "QUEUED"  -> "waiting"
      [] r.status = "RUNNING" -> "held"
      [] OTHER                -> "closed"

JobView ==
    [j \in Job |->
       [phase  |-> PhaseOf(jobs[j]),
        left   |-> MaxAttempts[j] - jobs[j].attempts,
        holder |-> IF jobs[j].status = "RUNNING" THEN jobs[j].generation ELSE NULL,
        writer |-> writer[j]]]

Contract == INSTANCE QueueContract WITH view <- JobView

\* The statements on ai.jobs keep the promises of QueueContract: one holder
\* at a time, nobody else writes, attempts are spent and returned one by one,
\* no requeue without an attempt left, closed is closed.
KeepsContract == Contract!Spec
=============================================================================
