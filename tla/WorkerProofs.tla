---------------------------- MODULE WorkerProofs ----------------------------
(***************************************************************************)
(* Proofs about the job queue, the processes that work it and their        *)
(* heartbeats, for any set of jobs, workers and generations, any attempt   *)
(* limits, deadlines and retry delays, any processes and loops, and any    *)
(* interval and longer lease.                                              *)
(*                                                                         *)
(* First the queue alone (JobQueue, specification Spec): the types and the *)
(* CHECK constraints, the attempt left to every queued row, the fencing of *)
(* late writers, and the implementation of QueueContract.  Then Worker     *)
(* (WSpec): the processes implement JobQueue, so that what is proved of the*)
(* queue holds of them; exhaustion alerts are true; and a process whose    *)
(* slot has one loop leaves no lease behind when it stops.  Last the timing*)
(* of one heartbeat (Heartbeat, BeatSpec).                                 *)
(***************************************************************************)
EXTENDS Worker, Heartbeat, TLAPS

(***************************************************************************)
(* The inductive invariant.  OnlyTheHolderWrites needs the row's generation*)
(* to be the issued one while it is RUNNING; QueuedHasAttempt needs the    *)
(* bounds on attempts, because fail and reap compare them with the limit   *)
(* and release takes one back.  Rows not inserted yet have spent nothing,  *)
(* and a claimed row was due, so that the reaper requeues it as due.       *)
(***************************************************************************)
AbsentIsUnspent == \A j \in Job : jobs[j].status = "ABSENT" => jobs[j].attempts = 0

RunningIsDue == \A j \in Job : jobs[j].status = "RUNNING" => jobs[j].available = 0

IInv ==
    /\ TypeOK
    /\ RowChecks
    /\ QueuedHasAttempt
    /\ OnlyTheHolderWrites
    /\ AbsentIsUnspent
    /\ RunningIsDue

\* What the invariant says of one row, so that a statement that changes one
\* row has one row to look at.
RowInv(j, r, i, w) ==
    /\ r \in Row
    /\ r.attempts \in 0..MaxAttempts[j]
    /\ r.status = "RUNNING" =>
         /\ r.attempts >= 1
         /\ r.owner # NULL /\ r.generation # NULL /\ r.lease # NULL
         /\ r.generation = i
         /\ r.available = 0
    /\ r.status = "QUEUED" => r.attempts < MaxAttempts[j]
    /\ r.status = "ABSENT" => r.attempts = 0
    /\ i \in Gen \cup {NULL}
    /\ w \in Gen \cup {NULL}
    /\ w # NULL => w = i

\* IInv is RowInv of every row and the type of the remaining variables.
LEMMA Pointwise ==
    IInv <=> /\ jobs = [j \in Job |-> jobs[j]]
             /\ issued = [j \in Job |-> issued[j]]
             /\ writer = [j \in Job |-> writer[j]]
             /\ tickets \subseteq Ticket
             /\ \A j \in Job : RowInv(j, jobs[j], issued[j], writer[j])
  BY DEF IInv, TypeOK, RowChecks, QueuedHasAttempt, OnlyTheHolderWrites,
         AbsentIsUnspent, RunningIsDue, RowInv

LEMMA PointwisePrimed ==
    IInv' <=> /\ jobs' = [j \in Job |-> jobs'[j]]
              /\ issued' = [j \in Job |-> issued'[j]]
              /\ writer' = [j \in Job |-> writer'[j]]
              /\ tickets' \subseteq Ticket
              /\ \A j \in Job : RowInv(j, jobs'[j], issued'[j], writer'[j])
  BY DEF IInv, TypeOK, RowChecks, QueuedHasAttempt, OnlyTheHolderWrites,
         AbsentIsUnspent, RunningIsDue, RowInv

-----------------------------------------------------------------------------
(* What the statements do to one row.                                      *)

\* Clearing the owner columns leaves a row that may be given any status.
LEMMA FreedRow ==
    ASSUME NEW r \in Row
    PROVE  /\ Freed(r) \in Row
           /\ Freed(r).status = r.status
           /\ Freed(r).attempts = r.attempts
           /\ Freed(r).available = r.available
           /\ Freed(r).deadline = r.deadline
           /\ Freed(r).generation = NULL
  BY DEF Freed, Row

\* An owned statement leaves the row inside the invariant, with its writer
\* recorded as the generation it was issued to.
LEMMA OwnedRows ==
    ASSUME NEW tk \in Ticket, NEW i, NEW w, NEW r,
           jobs \in [Job -> Row],
           RowInv(tk.job, jobs[tk.job], i, w), Owns(tk),
           \/ r = HeartbeatRow(jobs[tk.job])
           \/ r = CompletedRow(jobs[tk.job])
           \/ r = CancelledRow(jobs[tk.job])
           \/ \E s \in RetryDelays : r = FailedRow(tk.job, s)
           \/ r = ReleasedRow(jobs[tk.job])
    PROVE  RowInv(tk.job, r, i, tk.gen)
  <1> DEFINE j == tk.job
             o == jobs[j]
  <1>1. /\ j \in Job /\ tk.gen \in Gen /\ o \in Row
        /\ o.status = "RUNNING" /\ o.generation = tk.gen /\ i = tk.gen
        /\ MaxAttempts[j] \in Nat
        /\ o.attempts \in Nat /\ o.attempts >= 1 /\ o.attempts <= MaxAttempts[j]
    BY ColumnAssumption DEF Ticket, RowInv, Owns
  <1>2. i \in Gen \cup {NULL} /\ (tk.gen # NULL => tk.gen = i)
    BY <1>1
  <1>3. CASE r = HeartbeatRow(o)
    BY <1>1, <1>2, <1>3, ColumnAssumption, NullAssumption
    DEF HeartbeatRow, RowInv, Row, Status, Terminal
  <1>4. CASE r = CompletedRow(o)
    BY <1>1, <1>2, <1>4 DEF CompletedRow, RowInv, Row, Status, Terminal
  <1>5. CASE r = CancelledRow(o)
    <2>1. Freed(o) \in Row /\ Freed(o).attempts = o.attempts
      BY <1>1, FreedRow
    <2>2. r \in Row /\ r.status = "CANCELLED" /\ r.attempts = o.attempts
      BY <2>1, <1>5 DEF CancelledRow, Row, Status, Terminal
    <2>3. QED
      BY <2>2, <1>1, <1>2 DEF RowInv
  <1>6. ASSUME NEW s \in RetryDelays, r = FailedRow(j, s)
        PROVE  RowInv(j, r, i, tk.gen)
    <2>0. s \in Nat
      BY ColumnAssumption
    <2>1. Freed(o) \in Row /\ Freed(o).attempts = o.attempts
      BY <1>1, FreedRow
    <2>2. FailedStatus(j, s) \in {"CANCELLED", "FAILED", "QUEUED"}
      BY DEF FailedStatus
    <2>3. FailedStatus(j, s) = "QUEUED" => o.attempts < MaxAttempts[j]
      BY <1>1 DEF FailedStatus
    <2>4. /\ r \in Row /\ r.attempts = o.attempts
          /\ r.status = FailedStatus(j, s)
      BY <2>0, <2>1, <2>2, <1>1, <1>6 DEF FailedRow, Row, Status, Terminal
    <2>5. QED
      BY <2>2, <2>3, <2>4, <1>1, <1>2 DEF RowInv
  <1>7. CASE r = ReleasedRow(o)
    <2>1. Freed(o) \in Row /\ Freed(o).attempts = o.attempts
      BY <1>1, FreedRow
    <2>2. Freed(o).attempts - 1 \in Nat
      BY <2>1, <1>1
    <2>3. r = [Freed(o) EXCEPT !.status = "QUEUED", !.attempts = Freed(o).attempts - 1]
      BY <1>7 DEF ReleasedRow
    <2>4. r \in Row /\ r.status = "QUEUED" /\ r.attempts = o.attempts - 1
      BY <2>1, <2>2, <2>3 DEF Row, Status, Terminal
    <2>5. QED
      BY <2>4, <1>1, <1>2 DEF RowInv
  <1>8. QED
    BY <1>3, <1>4, <1>5, <1>6, <1>7

\* The reaper leaves an expired row inside the invariant.
LEMMA ReapedRows ==
    ASSUME NEW j \in Job, NEW i, NEW w, jobs \in [Job -> Row],
           RowInv(j, jobs[j], i, w), jobs[j].status = "RUNNING"
    PROVE  RowInv(j, ReapedRow(j), i, w)
  <1> DEFINE o == jobs[j]
  <1>1. /\ o \in Row /\ MaxAttempts[j] \in Nat
        /\ o.attempts \in Nat /\ o.attempts <= MaxAttempts[j]
    BY ColumnAssumption DEF RowInv
  <1>2. Freed(o) \in Row /\ Freed(o).attempts = o.attempts
    BY <1>1, FreedRow
  <1>3. ReapedStatus(j) \in {"CANCELLED", "FAILED", "QUEUED"}
    BY DEF ReapedStatus
  <1>4. ReapedStatus(j) = "QUEUED" => o.attempts < MaxAttempts[j]
    BY <1>1 DEF ReapedStatus
  <1>5. /\ ReapedRow(j) \in Row /\ ReapedRow(j).attempts = o.attempts
        /\ ReapedRow(j).status = ReapedStatus(j)
    BY <1>2, <1>3 DEF ReapedRow, Row, Status, Terminal
  <1>6. QED
    BY <1>1, <1>3, <1>4, <1>5 DEF RowInv

\* The passing of time keeps every row inside the invariant.
LEMMA AgedRows ==
    ASSUME NEW j \in Job, NEW i, NEW w, RowInv(j, jobs[j], i, w)
    PROVE  RowInv(j, Aged(jobs[j]), i, w)
  <1> DEFINE o == jobs[j]
  <1>1. o \in Row
    BY DEF RowInv
  <1>2. /\ o.lease # NULL => Later(o.lease, -1) \in -1..LeaseS
        /\ Later(o.available, 0) \in Nat
        /\ o.deadline # NULL => Later(o.deadline, 0) \in Nat
    BY <1>1, ColumnAssumption DEF Later, Row
  <1>3. /\ Aged(o) \in Row
        /\ Aged(o).status = o.status /\ Aged(o).attempts = o.attempts
        /\ Aged(o).owner = o.owner /\ Aged(o).generation = o.generation
        /\ Aged(o).available = Later(o.available, 0)
    BY <1>1, <1>2 DEF Aged, Row
  <1>4. o.lease # NULL => Aged(o).lease # NULL
    BY <1>1, <1>2, NullAssumption, ColumnAssumption DEF Aged, Row
  <1>5. o.available = 0 => Later(o.available, 0) = 0
    BY DEF Later
  <1>6. QED
    BY <1>3, <1>4, <1>5 DEF RowInv

-----------------------------------------------------------------------------
\* Init establishes the invariant.
LEMMA InitIInv == Init => IInv
  BY ColumnAssumption, NullAssumption
  DEF Init, BlankRow, IInv, TypeOK, RowChecks, QueuedHasAttempt, OnlyTheHolderWrites,
      AbsentIsUnspent, RunningIsDue, Row, Status, Terminal

\* An owned write keeps the invariant: one row changes, by OwnedRows.
LEMMA OwnedWriteIInv ==
    ASSUME IInv, NEW tk \in tickets, NEW r,
           OwnedWrite(tk, r),
           \/ r = HeartbeatRow(jobs[tk.job])
           \/ r = CompletedRow(jobs[tk.job])
           \/ r = CancelledRow(jobs[tk.job])
           \/ \E s \in RetryDelays : r = FailedRow(tk.job, s)
           \/ r = ReleasedRow(jobs[tk.job])
    PROVE  IInv'
  <1>1. /\ tk \in Ticket /\ tk.job \in Job
        /\ jobs \in [Job -> Row] /\ jobs = [j \in Job |-> jobs[j]]
        /\ writer = [j \in Job |-> writer[j]] /\ issued = [j \in Job |-> issued[j]]
        /\ \A j \in Job : RowInv(j, jobs[j], issued[j], writer[j])
    BY Pointwise DEF IInv, TypeOK, Ticket
  <1>2. RowInv(tk.job, r, issued[tk.job], tk.gen)
    BY <1>1, OwnedRows DEF OwnedWrite
  <1>3. /\ jobs' = [jobs EXCEPT ![tk.job] = r]
        /\ writer' = [writer EXCEPT ![tk.job] = tk.gen]
        /\ issued' = issued /\ tickets' = tickets
    BY DEF OwnedWrite
  <1>4. \A j \in Job : RowInv(j, jobs'[j], issued'[j], writer'[j])
    BY <1>1, <1>2, <1>3
  <1>5. QED
    BY <1>1, <1>3, <1>4, PointwisePrimed, Pointwise

\* Every step of the queue keeps the invariant.
LEMMA NextIInv == IInv /\ [Next]_vars => IInv'
  <1> SUFFICES ASSUME IInv, [Next]_vars PROVE IInv'
    OBVIOUS
  <1>1. /\ jobs \in [Job -> Row] /\ jobs = [j \in Job |-> jobs[j]]
        /\ writer = [j \in Job |-> writer[j]] /\ issued = [j \in Job |-> issued[j]]
        /\ tickets \subseteq Ticket
        /\ \A j \in Job : RowInv(j, jobs[j], issued[j], writer[j])
    BY Pointwise DEF IInv, TypeOK
  <1>2. ASSUME NEW j \in Job, Insert(j) PROVE IInv'
    <2>1. BlankRow("QUEUED", DeadlineAfter[j]) \in Row
      BY ColumnAssumption DEF BlankRow, Row, Status
    <2>2. RowInv(j, BlankRow("QUEUED", DeadlineAfter[j]), issued[j], writer[j])
      BY <1>1, <2>1, ColumnAssumption DEF BlankRow, RowInv
    <2>3. QED
      BY <1>1, <1>2, <2>2, PointwisePrimed DEF Insert
  <1>3. ASSUME NEW j \in Job, BackendCancel(j) PROVE IInv'
    <2>1. Freed(jobs[j]) \in Row /\ Freed(jobs[j]).attempts = jobs[j].attempts
      BY <1>1, FreedRow
    <2>2. RowInv(j, CancelledRow(jobs[j]), issued[j], writer[j])
      BY <1>1, <2>1 DEF CancelledRow, RowInv, Row, Status, Terminal
    <2>3. QED
      BY <1>1, <1>3, <2>2, PointwisePrimed DEF BackendCancel
  <1>4. ASSUME NEW w \in Worker, NEW j \in Job, NEW g \in Gen, Claim(w, j, g)
        PROVE  IInv'
    <2>1. /\ jobs[j] \in Row /\ jobs[j].attempts \in Nat /\ MaxAttempts[j] \in Nat
          /\ jobs[j].attempts + 1 \in 0..MaxAttempts[j]
          /\ jobs[j].attempts + 1 >= 1 /\ jobs[j].available = 0
      BY <1>1, <1>4, ColumnAssumption DEF Claim, Claimable, RowInv, Row
    <2>2. LeaseS \in -1..LeaseS /\ LeaseS # NULL /\ w # NULL /\ g # NULL
      BY ColumnAssumption, NullAssumption
    <2> DEFINE c == ClaimedRow(jobs[j], w, g)
    <2>4. /\ c \in Row /\ c.status = "RUNNING" /\ c.owner = w /\ c.generation = g
          /\ c.lease = LeaseS /\ c.attempts = jobs[j].attempts + 1
          /\ c.available = jobs[j].available
      <3>1. "RUNNING" \in Status /\ jobs[j].attempts + 1 \in Nat
        BY <2>1 DEF Status
      <3>2. c = [jobs[j] EXCEPT !.status = "RUNNING", !.owner = w, !.generation = g,
                                !.lease = LeaseS, !.attempts = jobs[j].attempts + 1]
        BY DEF ClaimedRow
      <3>3. QED
        BY <2>1, <2>2, <3>1, <3>2 DEF Row
    <2>5. RowInv(j, c, g, NULL)
      BY <2>1, <2>2, <2>4 DEF RowInv
    <2>6. [job |-> j, worker |-> w, gen |-> g] \in Ticket
      BY DEF Ticket
    <2>7. QED
      BY <1>1, <1>4, <2>5, <2>6, PointwisePrimed DEF Claim
  <1>5. ASSUME NEW tk \in tickets, Use(tk) PROVE IInv'
    <2>1. CASE Forget(tk)
      BY <1>1, <2>1, PointwisePrimed DEF Forget
    <2>2. CASE \E s \in RetryDelays : Fail(tk, s)
      BY <2>2, OwnedWriteIInv DEF Fail
    <2>3. CASE Heartbeat(tk) \/ Complete(tk) \/ Cancel(tk) \/ Release(tk)
               \/ BackendFinalize(tk)
      <3>1. PICK r : /\ OwnedWrite(tk, r)
                     /\ \/ r = HeartbeatRow(jobs[tk.job])
                        \/ r = CompletedRow(jobs[tk.job])
                        \/ r = CancelledRow(jobs[tk.job])
                        \/ r = ReleasedRow(jobs[tk.job])
        BY <2>3 DEF Heartbeat, Complete, Cancel, Release, BackendFinalize
      <3>2. QED
        BY <3>1, OwnedWriteIInv
    <2>4. QED
      BY <1>5, <2>1, <2>2, <2>3 DEF Use
  <1>6. ASSUME NEW w \in Worker, Crash(w) PROVE IInv'
    BY <1>1, <1>6, PointwisePrimed DEF Crash
  <1>7. CASE Reap
    <2>1. \A j \in Job : RowInv(j, jobs'[j], issued'[j], writer'[j])
      BY <1>1, <1>7, ReapedRows DEF Reap, LeaseExpired
    <2>2. jobs' = [j \in Job |-> jobs'[j]]
      BY <1>7 DEF Reap
    <2>3. QED
      BY <1>1, <1>7, <2>1, <2>2, PointwisePrimed DEF Reap
  <1>8. CASE Tick
    <2>1. \A j \in Job : RowInv(j, jobs'[j], issued'[j], writer'[j])
      BY <1>1, <1>8, AgedRows DEF Tick
    <2>2. jobs' = [j \in Job |-> jobs'[j]]
      BY <1>8 DEF Tick
    <2>3. QED
      BY <1>1, <1>8, <2>1, <2>2, PointwisePrimed DEF Tick
  <1>9. CASE UNCHANGED vars
    BY <1>1, <1>9, PointwisePrimed DEF vars
  <1>10. QED
    BY <1>2, <1>3, <1>4, <1>5, <1>6, <1>7, <1>8, <1>9 DEF Next

-----------------------------------------------------------------------------
(* The theorems.                                                           *)

\* The inductive invariant holds for ever.
THEOREM Inductive == Spec => []IInv
  <1>1. Init => IInv
    BY InitIInv
  <1>2. IInv /\ [Next]_vars => IInv'
    BY NextIInv
  <1>3. QED
    BY <1>1, <1>2, PTL DEF Spec

\* Every variable keeps its type.
THEOREM TypeCorrect == Spec => []TypeOK
  <1>1. IInv => TypeOK
    BY DEF IInv
  <1>2. QED
    BY <1>1, Inductive, PTL

\* No statement ever runs into a CHECK constraint of 001_ai_jobs.sql.
THEOREM ChecksNeverAbort == Spec => []RowChecks
  <1>1. IInv => RowChecks
    BY DEF IInv
  <1>2. QED
    BY <1>1, Inductive, PTL

\* fail, release and reap never leave a queued row without an attempt.
THEOREM NoQueuedRowIsSpent == Spec => []QueuedHasAttempt
  <1>1. IInv => QueuedHasAttempt
    BY DEF IInv
  <1>2. QED
    BY <1>1, Inductive, PTL

\* The lease fences: only the generation of the last claim writes the row.
THEOREM Fencing == Spec => []OnlyTheHolderWrites
  <1>1. IInv => OnlyTheHolderWrites
    BY DEF IInv
  <1>2. QED
    BY <1>1, Inductive, PTL

-----------------------------------------------------------------------------
(* Every step of the queue is a step of QueueContract, job by job.         *)

\* The phase of a row by its status.
LEMMA Phases ==
    ASSUME NEW r
    PROVE  /\ r.status = "ABSENT" => PhaseOf(r) = "none"
           /\ r.status = "QUEUED" => PhaseOf(r) = "waiting"
           /\ r.status = "RUNNING" => PhaseOf(r) = "held"
           /\ r.status \in Terminal => PhaseOf(r) = "closed"
  BY DEF PhaseOf, Terminal

\* The view of one job as a record of its own row.
ViewOf(j, r, w) ==
    [phase  |-> PhaseOf(r),
     left   |-> MaxAttempts[j] - r.attempts,
     holder |-> IF r.status = "RUNNING" THEN r.generation ELSE NULL,
     writer |-> w]

\* JobView, at a job, is ViewOf that job's row, now and in the next state.
LEMMA ViewsOfRows ==
    ASSUME NEW j \in Job
    PROVE  /\ JobView[j] = ViewOf(j, jobs[j], writer[j])
           /\ JobView'[j] = ViewOf(j, jobs'[j], writer'[j])
  BY DEF JobView, ViewOf

\* An owned statement is the holder keeping, returning or closing its job.
LEMMA OwnedSteps ==
    ASSUME IInv, NEW tk \in tickets, NEW r,
           OwnedWrite(tk, r),
           \/ r = HeartbeatRow(jobs[tk.job])
           \/ r = CompletedRow(jobs[tk.job])
           \/ r = CancelledRow(jobs[tk.job])
           \/ \E s \in RetryDelays : r = FailedRow(tk.job, s)
           \/ r = ReleasedRow(jobs[tk.job])
    PROVE  Contract!Step(ViewOf(tk.job, jobs[tk.job], writer[tk.job]),
                         ViewOf(tk.job, r, tk.gen))
  <1> DEFINE j == tk.job
             o == jobs[j]
             a == ViewOf(j, o, writer[j])
             b == ViewOf(j, r, tk.gen)
  <1>1. /\ j \in Job /\ o \in Row /\ o.status = "RUNNING" /\ o.generation = tk.gen
        /\ MaxAttempts[j] \in Nat /\ o.attempts \in Nat /\ o.attempts >= 1
        /\ o.attempts <= MaxAttempts[j] /\ RowInv(j, o, issued[j], writer[j])
    <2>1. j \in Job /\ o \in Row /\ RowInv(j, o, issued[j], writer[j])
      BY Pointwise DEF IInv, TypeOK, Ticket
    <2>2. o.status = "RUNNING" /\ o.generation = tk.gen
      BY DEF OwnedWrite, Owns
    <2>3. QED
      BY <2>1, <2>2, ColumnAssumption DEF RowInv, Row
  <1>2. RowInv(j, r, issued[j], tk.gen)
    BY <1>1, OwnedRows DEF OwnedWrite, IInv, TypeOK
  <1>3. /\ a = [phase |-> "held", left |-> MaxAttempts[j] - o.attempts,
                holder |-> tk.gen, writer |-> writer[j]]
        /\ a.phase = "held" /\ a.holder = tk.gen
        /\ a.left = MaxAttempts[j] - o.attempts /\ a.writer = writer[j]
    BY <1>1, Phases DEF ViewOf
  <1>4. Freed(o) \in Row /\ Freed(o).attempts = o.attempts
    BY <1>1, FreedRow
  <1>5. ASSUME r.status = "QUEUED", r.attempts \in {o.attempts, o.attempts - 1}
        PROVE  Contract!Returned(a, b)
    <2>1. b = [phase |-> "waiting", left |-> MaxAttempts[j] - r.attempts,
               holder |-> NULL, writer |-> tk.gen]
      BY <1>5, Phases DEF ViewOf
    <2>2. /\ MaxAttempts[j] - r.attempts \in {a.left, a.left + 1}
          /\ MaxAttempts[j] - r.attempts > 0
      BY <1>1, <1>2, <1>3, <1>5 DEF RowInv
    <2>3. QED
      BY <1>3, <2>1, <2>2 DEF Contract!Returned
  <1>6. ASSUME r.status \in Terminal, r.attempts = o.attempts
        PROVE  Contract!Closed(a, b)
    <2>1. b = [phase |-> "closed", left |-> MaxAttempts[j] - o.attempts,
               holder |-> NULL, writer |-> tk.gen]
      BY <1>6, Phases DEF ViewOf, Terminal
    <2>2. QED
      BY <1>3, <2>1 DEF Contract!Closed
  <1>7. CASE r = HeartbeatRow(o)
    <2>1. r.status = "RUNNING" /\ r.generation = tk.gen /\ r.attempts = o.attempts
      BY <1>1, <1>7 DEF HeartbeatRow, Row
    <2>2. b = [phase |-> "held", left |-> MaxAttempts[j] - o.attempts,
               holder |-> tk.gen, writer |-> tk.gen]
      BY <2>1, Phases DEF ViewOf
    <2>3. QED
      BY <1>3, <2>2 DEF Contract!Step, Contract!Kept
  <1>8. CASE r = CompletedRow(o)
    <2>1. r.status \in Terminal /\ r.attempts = o.attempts
      BY <1>1, <1>8 DEF CompletedRow, Row, Terminal
    <2>2. QED
      BY <2>1, <1>6 DEF Contract!Step
  <1>9. CASE r = CancelledRow(o)
    <2>1. r.status \in Terminal /\ r.attempts = o.attempts
      BY <1>4, <1>9 DEF CancelledRow, Row, Terminal
    <2>2. QED
      BY <2>1, <1>6 DEF Contract!Step
  <1>10. ASSUME NEW s \in RetryDelays, r = FailedRow(j, s)
         PROVE  Contract!Step(a, b)
    <2>1. r.status = FailedStatus(j, s) /\ r.attempts = o.attempts
      BY <1>4, <1>10 DEF FailedRow, Row
    <2>2. FailedStatus(j, s) \in {"CANCELLED", "FAILED", "QUEUED"}
      BY DEF FailedStatus
    <2>3. QED
      BY <2>1, <2>2, <1>5, <1>6 DEF Contract!Step, Terminal
  <1>11. CASE r = ReleasedRow(o)
    <2>1. r = [Freed(o) EXCEPT !.status = "QUEUED", !.attempts = Freed(o).attempts - 1]
      BY <1>11 DEF ReleasedRow
    <2>2. r.status = "QUEUED" /\ r.attempts = o.attempts - 1
      BY <2>1, <1>4 DEF Row
    <2>3. QED
      BY <2>2, <1>5 DEF Contract!Step
  <1>12. QED
    BY <1>7, <1>8, <1>9, <1>10, <1>11

\* Every step of the queue moves every job by a step of the contract or not
\* at all.
LEMMA NextContract == IInv /\ [Next]_vars => [Contract!Next]_JobView
  <1> SUFFICES ASSUME IInv, [Next]_vars, NEW j \in Job
               PROVE  LET a == ViewOf(j, jobs[j], writer[j])
                          b == ViewOf(j, jobs'[j], writer'[j])
                      IN  a = b \/ Contract!Step(a, b)
    BY ViewsOfRows DEF Contract!Next
  <1> DEFINE a == ViewOf(j, jobs[j], writer[j])
             b == ViewOf(j, jobs'[j], writer'[j])
  <1>1. /\ jobs \in [Job -> Row] /\ writer \in [Job -> Gen \cup {NULL}]
        /\ tickets \subseteq Ticket /\ MaxAttempts[j] \in Nat
        /\ jobs[j] \in Row /\ jobs[j].attempts \in Nat
        /\ RowInv(j, jobs[j], issued[j], writer[j])
    BY Pointwise, ColumnAssumption DEF IInv, TypeOK, Row
  <1>2. ASSUME jobs'[j] = jobs[j], writer'[j] = writer[j] PROVE a = b
    BY <1>2
  <1>3. ASSUME NEW k \in Job, Insert(k) PROVE a = b \/ Contract!Step(a, b)
    <2>1. CASE k # j
      BY <1>1, <1>2, <1>3, <2>1 DEF Insert
    <2>2. CASE k = j
      <3>1. /\ jobs[j].status = "ABSENT" /\ writer'[j] = writer[j]
            /\ jobs'[j] = BlankRow("QUEUED", DeadlineAfter[j])
        BY <1>1, <1>3, <2>2 DEF Insert
      <3>2. jobs[j].attempts = 0
        BY <1>1, <3>1 DEF RowInv
      <3>3. a = [phase |-> "none", left |-> MaxAttempts[j] - 0, holder |-> NULL,
                 writer |-> writer[j]]
        BY <3>1, <3>2, Phases DEF ViewOf
      <3>4. b = [phase |-> "waiting", left |-> MaxAttempts[j] - 0, holder |-> NULL,
                 writer |-> writer[j]]
        BY <3>1, Phases DEF ViewOf, BlankRow
      <3>5. QED
        BY <3>3, <3>4 DEF Contract!Step, Contract!Offered
    <2>3. QED
      BY <2>1, <2>2
  <1>4. ASSUME NEW k \in Job, BackendCancel(k) PROVE a = b \/ Contract!Step(a, b)
    <2>1. CASE k # j
      BY <1>1, <1>2, <1>4, <2>1 DEF BackendCancel
    <2>2. CASE k = j
      <3>1. /\ jobs[j].status \in {"QUEUED", "RUNNING"} /\ writer'[j] = writer[j]
            /\ jobs'[j] = CancelledRow(jobs[j])
        BY <1>1, <1>4, <2>2 DEF BackendCancel
      <3>2. jobs'[j].status = "CANCELLED" /\ jobs'[j].attempts = jobs[j].attempts
        BY <1>1, <3>1, FreedRow DEF CancelledRow, Row
      <3>3. b = [phase |-> "closed", left |-> MaxAttempts[j] - jobs[j].attempts,
                 holder |-> NULL, writer |-> writer[j]]
        BY <3>1, <3>2, Phases DEF ViewOf, Terminal
      <3>4. /\ a.phase \in {"waiting", "held"} /\ a.writer = writer[j]
            /\ a.left = MaxAttempts[j] - jobs[j].attempts
        BY <3>1, Phases DEF ViewOf
      <3>5. QED
        BY <3>3, <3>4 DEF Contract!Step, Contract!Closed
    <2>3. QED
      BY <2>1, <2>2
  <1>5. ASSUME NEW w \in Worker, NEW k \in Job, NEW g \in Gen, Claim(w, k, g)
        PROVE  a = b \/ Contract!Step(a, b)
    <2>1. CASE k # j
      BY <1>1, <1>2, <1>5, <2>1 DEF Claim
    <2>2. CASE k = j
      <3>1. /\ jobs[j].status = "QUEUED" /\ jobs[j].attempts < MaxAttempts[j]
            /\ jobs'[j] = ClaimedRow(jobs[j], w, g) /\ writer'[j] = NULL
        BY <1>1, <1>5, <2>2 DEF Claim, Claimable
      <3>2. /\ jobs'[j].status = "RUNNING" /\ jobs'[j].generation = g
            /\ jobs'[j].attempts = jobs[j].attempts + 1
        BY <1>1, <3>1 DEF ClaimedRow, Row
      <3>3. /\ a.phase = "waiting" /\ a.left = MaxAttempts[j] - jobs[j].attempts
            /\ a.left > 0
        BY <1>1, <3>1, Phases DEF ViewOf
      <3>4. b = [phase |-> "held", left |-> MaxAttempts[j] - (jobs[j].attempts + 1),
                 holder |-> g, writer |-> NULL]
        BY <3>1, <3>2, Phases DEF ViewOf
      <3>5. MaxAttempts[j] - (jobs[j].attempts + 1) = a.left - 1
        BY <1>1, <3>3
      <3>6. QED
        BY <3>3, <3>4, <3>5 DEF Contract!Step, Contract!Granted
    <2>3. QED
      BY <2>1, <2>2
  <1>6. ASSUME NEW tk \in tickets, Use(tk) PROVE a = b \/ Contract!Step(a, b)
    <2>1. CASE Forget(tk)
      BY <1>2, <2>1 DEF Forget
    <2>2. CASE ~Forget(tk)
      <3>1. PICK r : /\ OwnedWrite(tk, r)
                     /\ \/ r = HeartbeatRow(jobs[tk.job])
                        \/ r = CompletedRow(jobs[tk.job])
                        \/ r = CancelledRow(jobs[tk.job])
                        \/ \E s \in RetryDelays : r = FailedRow(tk.job, s)
                        \/ r = ReleasedRow(jobs[tk.job])
        BY <1>6, <2>2
        DEF Use, Heartbeat, Complete, Cancel, Fail, Release, BackendFinalize
      <3>2. Contract!Step(ViewOf(tk.job, jobs[tk.job], writer[tk.job]),
                          ViewOf(tk.job, r, tk.gen))
        BY <3>1, OwnedSteps
      <3>3. CASE tk.job = j
        <4>1. jobs'[j] = r /\ writer'[j] = tk.gen
          BY <1>1, <3>1, <3>3 DEF OwnedWrite
        <4>2. QED
          BY <3>2, <3>3, <4>1
      <3>4. CASE tk.job # j
        BY <1>1, <1>2, <3>1, <3>4 DEF OwnedWrite
      <3>5. QED
        BY <3>3, <3>4
    <2>3. QED
      BY <2>1, <2>2
  <1>7. ASSUME NEW w \in Worker, Crash(w) PROVE a = b
    BY <1>2, <1>7 DEF Crash
  <1>8. CASE Reap
    <2>1. CASE ~LeaseExpired(j)
      BY <1>2, <1>8, <2>1 DEF Reap
    <2>2. CASE LeaseExpired(j)
      <3>1. /\ jobs[j].status = "RUNNING" /\ writer'[j] = writer[j]
            /\ jobs'[j] = ReapedRow(j)
        BY <1>8, <2>2 DEF Reap, LeaseExpired
      <3>2. /\ jobs'[j].status = ReapedStatus(j) /\ jobs'[j].attempts = jobs[j].attempts
            /\ ReapedStatus(j) \in {"QUEUED", "FAILED", "CANCELLED"}
            /\ ReapedStatus(j) = "QUEUED" => jobs[j].attempts < MaxAttempts[j]
        BY <1>1, <3>1, FreedRow DEF ReapedRow, ReapedStatus, Row
      <3>3. /\ a.phase = "held" /\ a.writer = writer[j]
            /\ a.left = MaxAttempts[j] - jobs[j].attempts
        BY <3>1, Phases DEF ViewOf
      <3>4. CASE ReapedStatus(j) = "QUEUED"
        <4>1. b = [phase |-> "waiting", left |-> a.left, holder |-> NULL,
                   writer |-> a.writer]
          BY <3>1, <3>2, <3>3, <3>4, Phases DEF ViewOf
        <4>2. a.left > 0
          BY <1>1, <3>2, <3>3, <3>4
        <4>3. QED
          BY <3>3, <4>1, <4>2 DEF Contract!Step, Contract!Returned
      <3>5. CASE ReapedStatus(j) \in {"FAILED", "CANCELLED"}
        <4>1. b = [phase |-> "closed", left |-> a.left, holder |-> NULL,
                   writer |-> a.writer]
          BY <3>1, <3>2, <3>3, <3>5, Phases DEF ViewOf, Terminal
        <4>2. QED
          BY <3>3, <4>1 DEF Contract!Step, Contract!Closed
      <3>6. QED
        BY <3>2, <3>4, <3>5
    <2>3. QED
      BY <2>1, <2>2
  <1>9. CASE Tick
    <2>1. /\ jobs'[j] = Aged(jobs[j]) /\ writer'[j] = writer[j]
      BY <1>9 DEF Tick
    <2>2. /\ Aged(jobs[j]).status = jobs[j].status
          /\ Aged(jobs[j]).attempts = jobs[j].attempts
          /\ Aged(jobs[j]).generation = jobs[j].generation
      BY <1>1 DEF Aged, Row
    <2>3. PhaseOf(Aged(jobs[j])) = PhaseOf(jobs[j])
      BY <2>2 DEF PhaseOf
    <2>4. QED
      BY <2>1, <2>2, <2>3 DEF ViewOf
  <1>10. CASE UNCHANGED vars
    BY <1>2, <1>10 DEF vars
  <1>11. QED
    BY <1>3, <1>4, <1>5, <1>6, <1>7, <1>8, <1>9, <1>10 DEF Next

\* The queue implements its contract.
THEOREM Implements == Spec => KeepsContract
  <1>1. Init => Contract!Init
    BY ColumnAssumption, Phases DEF Init, BlankRow, Contract!Init, JobView, PhaseOf
  <1>2. IInv /\ [Next]_vars => [Contract!Next]_JobView
    BY NextContract
  <1>3. QED
    BY <1>1, <1>2, Inductive, PTL DEF Spec, KeepsContract, Contract!Spec

-----------------------------------------------------------------------------
(* Action properties.                                                      *)

\* What a step may do to a row whose status it changes.
LEMMA StatusSteps ==
    ASSUME IInv, [Next]_vars, NEW j \in Job
    PROVE  \/ jobs'[j].status = jobs[j].status
           \/ jobs[j].status \in {"ABSENT", "QUEUED"} /\ jobs'[j].status # "QUEUED"
           \/ jobs[j].status = "ABSENT"
           \/ /\ jobs[j].status = "RUNNING"
              /\ \/ jobs'[j].status # "QUEUED"
                 \/ \E s \in RetryDelays : jobs'[j] = FailedRow(j, s)
                 \/ jobs'[j] = ReapedRow(j)
                 \/ jobs'[j] = ReleasedRow(jobs[j])
  <1>1. jobs \in [Job -> Row] /\ jobs[j] \in Row /\ tickets \subseteq Ticket
    BY DEF IInv, TypeOK
  <1>2. ASSUME NEW k \in Job, Insert(k) \/ BackendCancel(k)
        PROVE  \/ jobs'[j] = jobs[j]
               \/ jobs[j].status = "ABSENT"
               \/ jobs[j].status \in {"QUEUED", "RUNNING"} /\ jobs'[j].status = "CANCELLED"
    <2>1. CancelledRow(jobs[j]).status = "CANCELLED"
      BY <1>1, FreedRow DEF CancelledRow, Row
    <2>2. QED
      BY <1>1, <1>2, <2>1 DEF Insert, BackendCancel
  <1>3. ASSUME NEW w \in Worker, NEW k \in Job, NEW g \in Gen, Claim(w, k, g)
        PROVE  jobs'[j] = jobs[j] \/ (jobs[j].status = "QUEUED" /\ jobs'[j].status = "RUNNING")
    BY <1>1, <1>3 DEF Claim, Claimable, ClaimedRow, Row
  <1>4. ASSUME NEW tk \in tickets, Use(tk)
        PROVE  \/ jobs'[j].status = jobs[j].status
               \/ /\ jobs[j].status = "RUNNING"
                  /\ \/ jobs'[j].status \in {"SUCCEEDED", "CANCELLED"}
                     \/ \E s \in RetryDelays : jobs'[j] = FailedRow(j, s)
                     \/ jobs'[j] = ReleasedRow(jobs[j])
    <2>1. /\ HeartbeatRow(jobs[j]).status = jobs[j].status
          /\ CompletedRow(jobs[j]).status = "SUCCEEDED"
      BY <1>1 DEF HeartbeatRow, CompletedRow, Row
    <2>2. CancelledRow(jobs[j]).status = "CANCELLED"
      BY <1>1, FreedRow DEF CancelledRow, Row
    <2>3. CASE tk.job # j
      BY <1>1, <1>4, <2>3
      DEF Use, Heartbeat, Complete, Cancel, Fail, Release, BackendFinalize, Forget, OwnedWrite
    <2>4. CASE tk.job = j
      BY <1>1, <1>4, <2>1, <2>2, <2>4
      DEF Use, Heartbeat, Complete, Cancel, Fail, Release, BackendFinalize, Forget,
          OwnedWrite, Owns
    <2>5. QED
      BY <2>3, <2>4
  <1>5. ASSUME NEW w \in Worker, Crash(w) PROVE jobs'[j] = jobs[j]
    BY <1>5 DEF Crash
  <1>6. ASSUME Reap
        PROVE  jobs'[j] = jobs[j] \/ (jobs[j].status = "RUNNING" /\ jobs'[j] = ReapedRow(j))
    BY <1>6 DEF Reap, LeaseExpired
  <1>7. ASSUME Tick PROVE jobs'[j].status = jobs[j].status
    BY <1>1, <1>7 DEF Tick, Aged, Row
  <1>8. QED
    BY <1>2, <1>3, <1>4, <1>5, <1>6, <1>7 DEF Next, vars

\* A closed job is closed for good, whatever late statement arrives.
THEOREM ClosedForGood == Spec => TerminalIsFinal
  <1>1. ASSUME IInv, [Next]_vars, NEW j \in Job, jobs[j].status \in Terminal
        PROVE  jobs'[j].status = jobs[j].status
    BY <1>1, StatusSteps DEF Terminal
  <1>2. IInv /\ [Next]_vars =>
          [\A j \in Job : jobs[j].status \in Terminal
                          => jobs'[j].status = jobs[j].status]_vars
    BY <1>1
  <1>3. QED
    BY <1>2, Inductive, PTL DEF Spec, TerminalIsFinal

\* fail and reap requeue a SENTENCE job only for a time before its deadline.
THEOREM RetriesCanBeClaimed == Spec => NoStrandedRetry
  <1>1. ASSUME IInv, [Next]_vars, NEW j \in Job, Requeued(j), Kind[j] = "SENTENCE",
               jobs'[j].attempts = jobs[j].attempts
        PROVE  ~Stranded(j)'
    <2>1. /\ jobs[j] \in Row /\ jobs[j].attempts \in Nat /\ jobs[j].available \in Nat
          /\ jobs[j].deadline # NULL => jobs[j].deadline \in Nat
      BY <1>1 DEF IInv, TypeOK, Row
    <2>2. /\ Freed(jobs[j]) \in Row /\ Freed(jobs[j]).deadline = jobs[j].deadline
          /\ Freed(jobs[j]).attempts = jobs[j].attempts
          /\ Freed(jobs[j]).available = jobs[j].available
      BY <2>1, FreedRow
    <2>3. CASE \E s \in RetryDelays : jobs'[j] = FailedRow(j, s)
      <3>1. PICK s \in RetryDelays : jobs'[j] = FailedRow(j, s)
        BY <2>3
      <3>2. /\ jobs'[j].status = FailedStatus(j, s) /\ jobs'[j].available = s
            /\ jobs'[j].deadline = jobs[j].deadline
        BY <2>2, <3>1 DEF FailedRow, Row
      <3>3. s \in Nat /\ FailedStatus(j, s) = "QUEUED"
        BY <1>1, <3>2, ColumnAssumption DEF Requeued
      <3>4. jobs[j].deadline # NULL => ~(jobs[j].deadline <= s)
        BY <1>1, <3>3 DEF FailedStatus
      <3>5. QED
        BY <3>2, <3>4 DEF Stranded
    <2>4. CASE jobs'[j] = ReapedRow(j)
      <3>1. /\ jobs'[j].status = ReapedStatus(j) /\ jobs'[j].available = jobs[j].available
            /\ jobs'[j].deadline = jobs[j].deadline
        BY <2>2, <2>4 DEF ReapedRow, Row
      <3>2. jobs[j].available = 0
        BY <1>1 DEF IInv, RunningIsDue, Requeued
      <3>3. jobs[j].deadline # NULL => ~(jobs[j].deadline <= 0)
        BY <1>1, <3>1 DEF Requeued, ReapedStatus
      <3>4. QED
        BY <3>1, <3>2, <3>3 DEF Stranded
    <2>5. CASE jobs'[j] = ReleasedRow(jobs[j])
      <3>1. jobs'[j].attempts = jobs[j].attempts - 1
        BY <2>1, <2>2, <2>5 DEF ReleasedRow, Row
      <3>2. QED
        BY <1>1, <2>1, <3>1
    <2>6. QED
      BY <1>1, <2>3, <2>4, <2>5, StatusSteps DEF Requeued
  <1>2. IInv /\ [Next]_vars =>
          [\A j \in Job :
             Requeued(j) /\ Kind[j] = "SENTENCE" /\ jobs'[j].attempts = jobs[j].attempts
               => ~Stranded(j)']_vars
    BY <1>1
  <1>3. QED
    BY <1>2, Inductive, PTL DEF Spec, NoStrandedRetry

-----------------------------------------------------------------------------
(* Every step of the processes is a step of the queue or none.             *)

LEMMA OwnedUse ==
    ASSUME NEW tk,
           \/ Heartbeat(tk) \/ Complete(tk) \/ Cancel(tk) \/ Release(tk)
           \/ \E s \in RetryDelays : Fail(tk, s)
    PROVE  Next
  <1>1. tk \in tickets
    BY DEF Heartbeat, Complete, Cancel, Release, Fail, OwnedWrite
  <1>2. QED
    BY <1>1 DEF Next, Use

LEMMA QueueSteps ==
    ASSUME WNext
    PROVE  [Next]_vars
  <1>1. ASSUME NEW l \in Loop, LoopStep(l) PROVE [Next]_vars
    <2>1. CASE ClaimNext(l)
      <3>1. WorkerOf[l] \in Worker
        BY LoopAssumption
      <3>2. PICK j \in Job, g \in Gen : Claim(WorkerOf[l], j, g)
        BY <2>1 DEF ClaimNext
      <3>3. QED
        BY <3>1, <3>2 DEF Next
    <2>2. CASE Settle(l) \/ RecordHandlerError(l) \/ Renew(l) \/ HandBack(l)
      BY <2>2, OwnedUse DEF Settle, RecordHandlerError, RecordFail, Renew, HandBack, OrNothing
    <2>3. CASE \/ StartHandler(l) \/ LoopEnds(l) \/ Finish(l) \/ Raise(l)
               \/ BeatLost(l) \/ BeatGivesUp(l) \/ HandlerCancelled(l) \/ CancelLoop(l)
      BY <2>3 DEF StartHandler, LoopEnds, Finish, Raise, BeatLost, BeatGivesUp,
                  HandlerCancelled, CancelLoop
    <2>4. QED
      BY <1>1, <2>1, <2>2, <2>3 DEF LoopStep
  <1>2. ASSUME NEW w \in Worker, ShutdownStep(w) PROVE [Next]_vars
    <2>1. CASE \E j \in Job : ReleaseEntry(w, j)
      BY <2>1, OwnedUse DEF ReleaseEntry
    <2>2. CASE RequestShutdown(w) \/ DeadlinePasses(w) \/ Exit(w) \/ Kill(w)
      BY <2>2 DEF RequestShutdown, DeadlinePasses, Exit, Kill
    <2>3. QED
      BY <1>2, <2>1, <2>2 DEF ShutdownStep
  <1>3. CASE Outside
    BY <1>3 DEF Outside, Next, Use
  <1>4. QED
    BY <1>1, <1>2, <1>3 DEF WNext

\* The processes of workers/main.py use the queue as JobQueue says a worker
\* may: whatever holds of JobQueue holds of them.
THEOREM WorkersUseQueue == WSpec => UsesQueue
  <1>1. WInit => Init
    BY DEF WInit
  <1>2. [WNext]_wvars => [Next]_vars
    <2>1. CASE WNext
      BY <2>1, QueueSteps
    <2>2. CASE UNCHANGED wvars
      BY <2>2 DEF wvars
    <2>3. QED
      BY <2>1, <2>2
  <1>3. QED
    BY <1>1, <1>2, PTL DEF WSpec, UsesQueue, Spec

\* Of all the loops that may be running handlers of a job at once, only the
\* holder of the last claim writes the row.
THEOREM LoopsAreFenced == WSpec => []OnlyTheHolderWrites
  <1>1. UsesQueue => []OnlyTheHolderWrites
    BY Fencing DEF UsesQueue
  <1>2. QED
    BY <1>1, WorkersUseQueue, PTL

-----------------------------------------------------------------------------
(***************************************************************************)
(* The inductive invariant of the processes, beside that of the queue.     *)
(* Alerts are true because the attempts a claim returned are those of the  *)
(* row for as long as the row carries the generation of the claim          *)
(* (Snapshot), and no later claim can carry it because every claim a loop  *)
(* or an entry holds is a remembered ticket (HoldsClaim, KeepsClaims).     *)
(***************************************************************************)
Holding(l) == loop[l].pc \notin {"polling", "ended"}

HoldsClaim ==
    \A l \in Loop : Holding(l) => loop[l].tk \in tickets /\ loop[l].tk.worker = WorkerOf[l]

KeepsClaims ==
    \A w \in Worker, j \in Job :
        \/ inflight[w][j] = NULL
        \/ inflight[w][j] \in tickets /\ inflight[w][j].job = j /\ inflight[w][j].worker = w

Carries(j, g) == jobs[j].status = "RUNNING" /\ jobs[j].generation = g

Snapshot ==
    \A l \in Loop :
        Holding(l) /\ Carries(loop[l].tk.job, loop[l].tk.gen)
          => loop[l].attempts = jobs[loop[l].tk.job].attempts

WInv ==
    /\ phase \in [Worker -> Phase]
    /\ loop \in [Loop -> [pc : Pc, tk : Ticket \cup {NULL}, attempts : Nat]]
    /\ inflight \in [Worker -> [Job -> Ticket \cup {NULL}]]
    /\ excused \subseteq Ticket
    /\ alerted \subseteq Job
    /\ HoldsClaim
    /\ KeepsClaims
    /\ Snapshot
    /\ AlertIsTrue

(***************************************************************************)
(* With one loop to a slot, a process that goes on has at most one entry,  *)
(* that of its running handler; a handler that is about to return has lost *)
(* its row; and every claim whose row is still its own is in somebody's    *)
(* hands (InHand), or excused.                                             *)
(***************************************************************************)
OneLoop == \A l, k \in Loop : WorkerOf[l] = WorkerOf[k] => l = k

AtWork(l) == loop[l].pc \in {"running", "settled", "cancelled"}

EntryIsOwn(l) ==
    loop[l].pc # "ended" =>
        \A j \in Job : inflight[WorkerOf[l]][j] =
            IF AtWork(l) /\ j = loop[l].tk.job THEN loop[l].tk ELSE NULL

SettledIsOver(l) == loop[l].pc = "settled" => ~Owns(loop[l].tk)

InHand(tk) ==
    \/ inflight[tk.worker][tk.job] = tk
    \/ \E l \in LoopsOf(tk.worker) : Holding(l) /\ loop[l].tk = tk

Accounted(tk) ==
    phase[tk.worker] # "killed" /\ Owns(tk) => tk \in excused \/ InHand(tk)

ExitIsEmpty(w) ==
    phase[w] = "exited" =>
        /\ \A l \in LoopsOf(w) : loop[l].pc = "ended"
        /\ \A j \in Job : inflight[w][j] = NULL

EInv ==
    /\ \A l \in Loop : EntryIsOwn(l) /\ SettledIsOver(l)
    /\ \A tk \in Ticket : Accounted(tk)
    /\ \A w \in Worker : ExitIsEmpty(w)

-----------------------------------------------------------------------------
(* What a step of the queue does to a row that carries a given claim.      *)

\* A RUNNING row that carries a claim after a step that did not make the claim
\* carried it before.
LEMMA HeldRowSteps ==
    ASSUME IInv, [Next]_vars, NEW tk \in Ticket, Carries(tk.job, tk.gen)',
           \/ tk \in tickets
           \/ jobs'[tk.job].owner = tk.worker /\ ~Claim(tk.worker, tk.job, tk.gen)
    PROVE  /\ Carries(tk.job, tk.gen)
           /\ jobs'[tk.job].attempts = jobs[tk.job].attempts
           /\ jobs'[tk.job].owner = jobs[tk.job].owner
           /\ jobs'[tk.job].lease > 0 => jobs[tk.job].lease > 0
  <1> DEFINE j == tk.job
  <1>1. /\ jobs \in [Job -> Row] /\ j \in Job /\ jobs[j] \in Row
        /\ tickets \subseteq Ticket
        /\ jobs'[j].status = "RUNNING" /\ jobs'[j].generation = tk.gen
        /\ jobs[j].status = "RUNNING" => jobs[j].lease \in -1..LeaseS
    BY DEF IInv, TypeOK, RowChecks, Ticket, Row, Carries
  <1> DEFINE Goal == /\ jobs[j].status = "RUNNING" /\ jobs[j].generation = tk.gen
                     /\ jobs'[j].attempts = jobs[j].attempts
                     /\ jobs'[j].owner = jobs[j].owner
                     /\ jobs'[j].lease > 0 => jobs[j].lease > 0
  <1>2. ASSUME NEW k \in Job, Insert(k) \/ BackendCancel(k) PROVE Goal
    <2>1. CancelledRow(jobs[j]).status = "CANCELLED"
      BY <1>1, FreedRow DEF CancelledRow, Row
    <2>2. CASE k = j
      BY <1>1, <1>2, <2>1, <2>2 DEF Insert, BackendCancel, BlankRow
    <2>3. CASE k # j
      BY <1>1, <1>2, <2>3 DEF Insert, BackendCancel
    <2>4. QED
      BY <2>2, <2>3
  <1>3. ASSUME NEW w \in Worker, NEW k \in Job, NEW g \in Gen, Claim(w, k, g) PROVE Goal
    <2>1. CASE k = j
      <3>1. jobs'[j].owner = w /\ jobs'[j].generation = g
        BY <1>1, <1>3, <2>1 DEF Claim, ClaimedRow, Row
      <3>2. g = tk.gen
        BY <1>1, <3>1
      <3>3. tk \notin tickets
        BY <1>3, <3>2 DEF Claim, FreshGen
      <3>4. w # tk.worker
        BY <1>3, <2>1, <3>2, <3>3
      <3>5. QED
        BY <3>1, <3>3, <3>4
    <2>2. CASE k # j
      BY <1>1, <1>3, <2>2 DEF Claim
    <2>3. QED
      BY <2>1, <2>2
  <1>4. ASSUME NEW t \in tickets, Use(t) PROVE Goal
    <2>1. CASE t.job # j \/ Forget(t)
      BY <1>1, <1>4, <2>1
      DEF Use, Heartbeat, Complete, Cancel, Fail, Release, BackendFinalize, Forget, OwnedWrite
    <2>2. CASE t.job = j /\ ~Forget(t)
      <3>1. Owns(t) /\ jobs[j].lease > 0 /\ jobs[j].status = "RUNNING"
        BY <1>4, <2>2
        DEF Use, Heartbeat, Complete, Cancel, Fail, Release, BackendFinalize, OwnedWrite, Owns
      <3>2. CompletedRow(jobs[j]).status = "SUCCEEDED"
        BY <1>1 DEF CompletedRow, Row
      <3>3. CancelledRow(jobs[j]).status = "CANCELLED"
        BY <1>1, FreedRow DEF CancelledRow, Row
      <3>4. ReleasedRow(jobs[j]).status = "QUEUED"
        BY <1>1, FreedRow DEF ReleasedRow, Row
      <3>5. ASSUME NEW x \in RetryDelays PROVE FailedRow(j, x).status # "RUNNING"
        BY <1>1, FreedRow DEF FailedRow, FailedStatus, Row
      <3>6. jobs'[j] = HeartbeatRow(jobs[j])
        BY <1>1, <1>4, <2>2, <3>2, <3>3, <3>4, <3>5
        DEF Use, Heartbeat, Complete, Cancel, Fail, Release, BackendFinalize, OwnedWrite
      <3>7. QED
        BY <1>1, <3>1, <3>6 DEF HeartbeatRow, Row
    <2>3. QED
      BY <2>1, <2>2
  <1>5. ASSUME NEW w \in Worker, Crash(w) PROVE Goal
    BY <1>1, <1>5 DEF Crash
  <1>6. ASSUME Reap PROVE Goal
    <2>1. ReapedRow(j).status # "RUNNING"
      BY <1>1, FreedRow DEF ReapedRow, ReapedStatus, Row
    <2>2. jobs'[j] = ReapedRow(j) \/ jobs'[j] = jobs[j]
      BY <1>1, <1>6 DEF Reap
    <2>3. QED
      BY <1>1, <2>1, <2>2
  <1>7. ASSUME Tick PROVE Goal
    <2>1. jobs'[j] = Aged(jobs[j])
      BY <1>1, <1>7 DEF Tick
    <2>2. /\ jobs'[j].status = jobs[j].status /\ jobs'[j].generation = jobs[j].generation
          /\ jobs'[j].attempts = jobs[j].attempts /\ jobs'[j].owner = jobs[j].owner
          /\ jobs'[j].lease = IF jobs[j].lease = NULL THEN NULL ELSE Later(jobs[j].lease, -1)
      BY <1>1, <2>1 DEF Aged, Row
    <2>3. jobs[j].lease \in -1..LeaseS /\ jobs[j].lease # NULL
      BY <1>1, <2>2, NullAssumption
    <2>4. jobs'[j].lease = Later(jobs[j].lease, -1)
      BY <2>2, <2>3
    <2>5. jobs'[j].lease > 0 => jobs[j].lease > 0
      BY <2>3, <2>4, ColumnAssumption DEF Later
    <2>6. QED
      BY <1>1, <2>2, <2>5
  <1>8. ASSUME UNCHANGED vars PROVE Goal
    BY <1>1, <1>8 DEF vars
  <1>9. Goal
    BY <1>2, <1>3, <1>4, <1>5, <1>6, <1>7, <1>8 DEF Next
  <1>10. QED
    BY <1>9 DEF Carries

\* A claim that is not owned is not owned again.
LEMMA LostForGood ==
    ASSUME IInv, [Next]_vars, NEW tk \in Ticket, Owns(tk)',
           tk \in tickets \/ ~Claim(tk.worker, tk.job, tk.gen)
    PROVE  Owns(tk)
  <1>1. /\ Carries(tk.job, tk.gen)' /\ jobs'[tk.job].owner = tk.worker
        /\ jobs'[tk.job].lease > 0
    BY DEF Owns, Carries
  <1>2. QED
    BY <1>1, HeldRowSteps DEF Owns, Carries

-----------------------------------------------------------------------------
(* The shape of a step of the processes.                                   *)

LoopType == [Loop -> [pc : Pc, tk : Ticket \cup {NULL}, attempts : Nat]]
InflightType == [Worker -> [Job -> Ticket \cup {NULL}]]

\* Every loop that holds a claim after the step held it before.
LoopsKeep ==
    /\ loop' \in LoopType
    /\ \A k \in Loop : Holding(k)' => /\ Holding(k)
                                     /\ loop'[k].tk = loop[k].tk
                                     /\ loop'[k].attempts = loop[k].attempts

\* Every entry after the step was there before, is new from a loop that holds
\* its claim, or is empty.
EntriesKeep ==
    /\ inflight' \in InflightType
    /\ \A w \in Worker, j \in Job :
         \/ inflight'[w][j] \in {NULL, inflight[w][j]}
         \/ \E l \in Loop : /\ Holding(l) /\ WorkerOf[l] = w /\ loop[l].tk.job = j
                            /\ inflight'[w][j] = loop[l].tk

\* Alerts are new only of jobs that the step closes.
AlertsKeep ==
    /\ alerted' \subseteq Job
    /\ \A j \in alerted' : j \in alerted \/ jobs'[j].status \in {"FAILED", "CANCELLED"}

LEMMA MovesKeeps ==
    ASSUME WInv, NEW l \in Loop, NEW pc \in Pc \ {"polling", "ended"}, Holding(l), Moves(l, pc)
    PROVE  LoopsKeep
  <1>1. loop' \in LoopType
    BY DEF WInv, Moves, LoopType
  <1>2. ASSUME NEW k \in Loop
        PROVE  loop'[k].tk = loop[k].tk /\ loop'[k].attempts = loop[k].attempts
    BY DEF WInv, Moves
  <1>3. ASSUME NEW k \in Loop, k # l PROVE loop'[k] = loop[k]
    BY <1>3 DEF WInv, Moves
  <1>4. QED
    BY <1>1, <1>2, <1>3 DEF LoopsKeep, Holding

LEMMA DropsKeeps ==
    ASSUME WInv, NEW l \in Loop, NEW pc \in {"polling", "ended"}, Drops(l, pc)
    PROVE  LoopsKeep
  <1>1. At(pc) \in [pc : Pc, tk : Ticket \cup {NULL}, attempts : Nat] /\ At(pc).pc = pc
    BY DEF At, Pc
  <1>2. loop' \in LoopType /\ loop'[l].pc = pc
    BY <1>1 DEF WInv, Drops, LoopType
  <1>3. ASSUME NEW k \in Loop, k # l PROVE loop'[k] = loop[k]
    BY <1>3 DEF WInv, Drops
  <1>4. QED
    BY <1>2, <1>3 DEF LoopsKeep, Holding

LEMMA PopKeeps ==
    ASSUME WInv, TypeOK, NEW l \in Loop, Holding(l), Pop(l)
    PROVE  EntriesKeep
  <1>1. WorkerOf[l] \in Worker /\ loop[l].tk.job \in Job
    BY LoopAssumption DEF WInv, HoldsClaim, TypeOK, Ticket
  <1>2. inflight' \in InflightType
    BY <1>1 DEF WInv, Pop, InflightType
  <1>3. ASSUME NEW w \in Worker, NEW j \in Job PROVE inflight'[w][j] \in {NULL, inflight[w][j]}
    BY <1>1 DEF WInv, Pop
  <1>4. QED
    BY <1>2, <1>3 DEF EntriesKeep

LEMMA NothingKeeps ==
    ASSUME WInv
    PROVE  /\ UNCHANGED loop => LoopsKeep
           /\ UNCHANGED inflight => EntriesKeep
           /\ UNCHANGED alerted => AlertsKeep
  BY DEF WInv, LoopsKeep, EntriesKeep, AlertsKeep, LoopType, InflightType, Holding

\* Only claims are excused.
LEMMA ExcusesClaims ==
    ASSUME WInv
    PROVE  /\ Excuses({}) => excused' \subseteq Ticket
           /\ \A tk \in Ticket : Excuses({tk}) => excused' \subseteq Ticket
  BY DEF WInv, Excuses

LEMMA ExcusedClaims ==
    ASSUME IInv, WInv,
           \/ \E l \in Loop : LoopStep(l)
           \/ \E w \in Worker : ShutdownStep(w)
           \/ Outside
    PROVE  excused' \subseteq Ticket
  <1>1. excused \subseteq Ticket
    BY DEF WInv
  <1>2. ASSUME NEW l \in Loop, LoopStep(l) PROVE excused' \subseteq Ticket
    <2>1. Holding(l) => loop[l].tk \in Ticket
      BY DEF IInv, TypeOK, WInv, HoldsClaim
    <2>2. CASE ClaimNext(l)
      <3>1. \A j \in Job, g \in Gen : [job |-> j, worker |-> WorkerOf[l], gen |-> g] \in Ticket
        BY LoopAssumption DEF Ticket
      <3>2. QED
        BY <2>2, <3>1, ExcusesClaims DEF ClaimNext
    <2>3. CASE HandBack(l) \/ RecordHandlerError(l) \/ HandlerCancelled(l)
      <3>1. Holding(l)
        BY <2>3 DEF HandBack, RecordHandlerError, HandlerCancelled, Holding
      <3>2. QED
        BY <2>1, <2>3, <3>1, ExcusesClaims DEF HandBack, RecordHandlerError, HandlerCancelled
    <2>4. CASE Renew(l) \/ Settle(l)
      BY <2>4, ExcusesClaims DEF Renew, Settle
    <2>5. CASE CancelLoop(l)
      <3>1. loop[l].pc \in {"claimed", "failing"} => Holding(l)
        BY DEF Holding
      <3>2. QED
        BY <2>1, <2>5, <3>1, ExcusesClaims DEF CancelLoop
    <2>6. CASE \/ StartHandler(l) \/ LoopEnds(l) \/ Finish(l) \/ Raise(l)
               \/ BeatLost(l) \/ BeatGivesUp(l)
      BY <1>1, <2>6 DEF StartHandler, LoopEnds, Finish, Raise, BeatLost, BeatGivesUp
    <2>7. QED
      BY <1>2, <2>2, <2>3, <2>4, <2>5, <2>6 DEF LoopStep
  <1>3. ASSUME NEW w \in Worker, ShutdownStep(w) PROVE excused' \subseteq Ticket
    <2>1. CASE RequestShutdown(w) \/ DeadlinePasses(w) \/ Exit(w) \/ Kill(w)
      BY <1>1, <2>1 DEF RequestShutdown, DeadlinePasses, Exit, Kill
    <2>2. ASSUME NEW j \in Job, ReleaseEntry(w, j) PROVE excused' \subseteq Ticket
      <3>1. inflight[w][j] \in Ticket
        BY <2>2 DEF ReleaseEntry, WInv
      <3>2. QED
        BY <2>2, <3>1, ExcusesClaims DEF ReleaseEntry
    <2>3. QED
      BY <1>3, <2>1, <2>2 DEF ShutdownStep
  <1>4. QED
    BY <1>2, <1>3, ExcusesClaims DEF Outside

\* An alert that goes out with a fail is of a job the fail closes: the loop's
\* number of attempts is the row's.
LEMMA FailKeepsAlerts ==
    ASSUME IInv, WInv, NEW l \in Loop, Holding(l), RecordFail(l)
    PROVE  AlertsKeep
  <1> DEFINE tk == loop[l].tk
             j == tk.job
  <1>1. CASE UNCHANGED <<vars, alerted>>
    BY <1>1, NothingKeeps
  <1>2. ASSUME NEW s \in RetryDelays, Fail(tk, s), AlertIfExhausted(l) PROVE AlertsKeep
    <2>1. /\ tk \in Ticket /\ j \in Job /\ jobs \in [Job -> Row] /\ jobs[j] \in Row
          /\ alerted \subseteq Job /\ MaxAttempts[j] \in Nat /\ jobs[j].attempts \in Nat
      BY ColumnAssumption DEF IInv, TypeOK, WInv, HoldsClaim, Ticket, Row
    <2>2. Owns(tk) /\ jobs'[j] = FailedRow(j, s)
      BY <1>2, <2>1 DEF Fail, OwnedWrite
    <2>3. loop[l].attempts = jobs[j].attempts
      BY <2>2 DEF Owns, WInv, Snapshot, Carries
    <2>4. jobs'[j].status = FailedStatus(j, s)
      BY <2>1, <2>2, FreedRow DEF FailedRow, Row
    <2>5. loop[l].attempts >= MaxAttempts[j] => jobs'[j].status \in {"FAILED", "CANCELLED"}
      BY <2>3, <2>4 DEF FailedStatus
    <2>6. QED
      BY <1>2, <2>1, <2>5 DEF AlertIfExhausted, AlertsKeep
  <1>3. QED
    BY <1>1, <1>2 DEF RecordFail

\* The attempts a loop remembers stay those of the row that carries its claim.
LEMMA SnapshotSteps ==
    ASSUME IInv, [Next]_vars, WInv, NEW l \in Loop, Holding(l),
           jobs'[loop[l].tk.job].status = "RUNNING",
           jobs'[loop[l].tk.job].generation = loop[l].tk.gen
    PROVE  loop[l].attempts = jobs'[loop[l].tk.job].attempts
  <1>1. PICK tk \in Ticket : tk = loop[l].tk /\ tk \in tickets
    BY DEF IInv, TypeOK, WInv, HoldsClaim
  <1>2. Carries(tk.job, tk.gen)'
    BY <1>1 DEF Carries
  <1>3. Carries(tk.job, tk.gen) /\ jobs'[tk.job].attempts = jobs[tk.job].attempts
    BY <1>1, <1>2, HeldRowSteps
  <1>4. QED
    BY <1>1, <1>3 DEF WInv, Snapshot

\* A step of that shape keeps the invariant.
LEMMA ShapeKeeps ==
    ASSUME IInv, [Next]_vars, WInv, LoopsKeep, EntriesKeep, AlertsKeep,
           phase' \in [Worker -> Phase], excused' \subseteq Ticket,
           tickets' = tickets
    PROVE  WInv'
  <1>1. IInv' /\ tickets \subseteq Ticket
    BY NextIInv DEF IInv, TypeOK
  <1>2. HoldsClaim'
    BY DEF LoopsKeep, WInv, HoldsClaim
  <1>3. KeepsClaims'
    BY DEF EntriesKeep, WInv, KeepsClaims, HoldsClaim
  <1>4. Snapshot'
    <2>1. ASSUME NEW l \in Loop, Holding(l)',
                 jobs'[loop'[l].tk.job].status = "RUNNING",
                 jobs'[loop'[l].tk.job].generation = loop'[l].tk.gen
          PROVE  loop'[l].attempts = jobs'[loop'[l].tk.job].attempts
      <3>1. Holding(l) /\ loop'[l].tk = loop[l].tk /\ loop'[l].attempts = loop[l].attempts
        BY <2>1 DEF LoopsKeep
      <3>2. QED
        BY <2>1, <3>1, SnapshotSteps
    <2>2. QED
      BY <2>1 DEF Snapshot, Carries
  <1>5. AlertIsTrue'
    <2>1. ASSUME NEW j \in alerted PROVE jobs'[j].status \in {"FAILED", "CANCELLED"}
      BY StatusSteps DEF WInv, AlertIsTrue
    <2>2. QED
      BY <2>1 DEF AlertsKeep, AlertIsTrue
  <1>6. QED
    BY <1>2, <1>3, <1>4, <1>5 DEF WInv, LoopsKeep, EntriesKeep, AlertsKeep, LoopType, InflightType

\* The steps of a loop other than a claim have that shape.
LEMMA LoopStepKeeps ==
    ASSUME IInv, WInv, NEW l \in Loop, LoopStep(l), ~ClaimNext(l)
    PROVE  WInv'
  <1> DEFINE w == WorkerOf[l]
             Shape == /\ LoopsKeep /\ EntriesKeep /\ AlertsKeep
                      /\ phase' \in [Worker -> Phase] /\ excused' \subseteq Ticket
                      /\ tickets' = tickets
  <1>1. [Next]_vars
    BY QueueSteps DEF WNext
  <1>2. /\ w \in Worker /\ TypeOK
        /\ phase \in [Worker -> Phase] /\ excused' \subseteq Ticket
        /\ Holding(l) => loop[l].tk \in Ticket
    BY LoopAssumption, ExcusedClaims DEF IInv, TypeOK, WInv, HoldsClaim
  <1>3. /\ \A tk : Heartbeat(tk) \/ Complete(tk) \/ Cancel(tk) \/ Release(tk)
                     => tickets' = tickets
        /\ \A tk, s : Fail(tk, s) => tickets' = tickets
    BY DEF Heartbeat, Complete, Cancel, Release, Fail, OwnedWrite
  <1>4. UNCHANGED vars => tickets' = tickets
    BY DEF vars
  <1>5. \A pc \in Pc \ {"polling", "ended"} : Holding(l) /\ Moves(l, pc) => LoopsKeep
    BY MovesKeeps
  <1>6. \A pc \in {"polling", "ended"} : Drops(l, pc) => LoopsKeep
    BY DropsKeeps
  <1>7. Holding(l) /\ Pop(l) => EntriesKeep
    BY <1>2, PopKeeps
  <1>8. CASE StartHandler(l)
    <2>1. Holding(l) /\ Moves(l, "running") /\ "running" \in Pc \ {"polling", "ended"}
      BY <1>8 DEF StartHandler, Holding, Pc
    <2>2. EntriesKeep
      <3>1. loop[l].tk \in Ticket /\ loop[l].tk.job \in Job
        BY <1>2, <2>1 DEF Ticket
      <3>2. inflight' = [inflight EXCEPT ![w][loop[l].tk.job] = loop[l].tk]
        BY <1>8 DEF StartHandler
      <3>3. inflight' \in InflightType
        BY <1>2, <3>1, <3>2 DEF WInv, InflightType
      <3>4. ASSUME NEW u \in Worker, NEW j \in Job, ~(u = w /\ j = loop[l].tk.job)
            PROVE  inflight'[u][j] = inflight[u][j]
        BY <1>2, <3>1, <3>2, <3>4 DEF WInv
      <3>5. inflight'[w][loop[l].tk.job] = loop[l].tk
        BY <1>2, <3>1, <3>2 DEF WInv
      <3>6. QED
        BY <2>1, <3>3, <3>4, <3>5 DEF EntriesKeep
    <2>3. Shape
      BY <1>2, <1>4, <1>5, <1>8, <2>1, <2>2, NothingKeeps DEF StartHandler
    <2>4. QED
      BY <1>1, <2>3, ShapeKeeps
  <1>9. CASE HandBack(l) \/ LoopEnds(l)
    <2>1. Shape
      BY <1>2, <1>3, <1>4, <1>6, <1>9, NothingKeeps DEF HandBack, LoopEnds, OrNothing
    <2>2. QED
      BY <1>1, <2>1, ShapeKeeps
  <1>10. CASE Renew(l)
    <2>1. Shape
      BY <1>2, <1>3, <1>10, NothingKeeps DEF Renew
    <2>2. QED
      BY <1>1, <2>1, ShapeKeeps
  <1>11. CASE Settle(l)
    <2>1. Holding(l) /\ Moves(l, "settled") /\ "settled" \in Pc \ {"polling", "ended"}
      BY <1>11 DEF Settle, Holding, Pc
    <2>2. AlertsKeep
      BY <1>11, <2>1, NothingKeeps, FailKeepsAlerts DEF Settle
    <2>3. tickets' = tickets
      BY <1>3, <1>4, <1>11 DEF Settle, OrNothing, RecordFail
    <2>4. Shape
      BY <1>2, <1>5, <1>11, <2>1, <2>2, <2>3, NothingKeeps DEF Settle
    <2>5. QED
      BY <1>1, <2>4, ShapeKeeps
  <1>12. CASE Finish(l)
    <2>1. Shape
      BY <1>2, <1>4, <1>6, <1>7, <1>12, NothingKeeps DEF Finish, Holding
    <2>2. QED
      BY <1>1, <2>1, ShapeKeeps
  <1>13. CASE Raise(l)
    <2>1. Holding(l) /\ "failing" \in Pc \ {"polling", "ended"}
      BY <1>13 DEF Raise, Holding, Pc
    <2>2. Shape
      BY <1>2, <1>4, <1>5, <1>7, <1>13, <2>1, NothingKeeps DEF Raise
    <2>3. QED
      BY <1>1, <2>2, ShapeKeeps
  <1>14. CASE RecordHandlerError(l)
    <2>1. Holding(l) /\ (RecordFail(l) \/ UNCHANGED <<vars, alerted>>)
      BY <1>14 DEF RecordHandlerError, Holding
    <2>2. AlertsKeep
      BY <2>1, FailKeepsAlerts, NothingKeeps
    <2>3. tickets' = tickets
      BY <1>3, <1>4, <2>1 DEF RecordFail
    <2>4. Shape
      BY <1>2, <1>6, <1>14, <2>2, <2>3, NothingKeeps DEF RecordHandlerError
    <2>5. QED
      BY <1>1, <2>4, ShapeKeeps
  <1>15. CASE BeatLost(l) \/ BeatGivesUp(l)
    <2>1. Holding(l) /\ Moves(l, "cancelled") /\ "cancelled" \in Pc \ {"polling", "ended"}
      BY <1>15 DEF BeatLost, BeatGivesUp, Holding, Pc
    <2>2. Shape
      BY <1>2, <1>4, <1>5, <1>15, <2>1, NothingKeeps DEF BeatLost, BeatGivesUp
    <2>3. QED
      BY <1>1, <2>2, ShapeKeeps
  <1>16. CASE HandlerCancelled(l)
    <2>1. Holding(l)
      BY <1>16 DEF HandlerCancelled, Holding
    <2>2. LoopsKeep
      BY <1>6, <1>16 DEF HandlerCancelled
    <2>3. EntriesKeep
      BY <1>7, <1>16, <2>1, NothingKeeps DEF HandlerCancelled
    <2>4. Shape
      BY <1>2, <1>4, <1>16, <2>2, <2>3, NothingKeeps DEF HandlerCancelled
    <2>5. QED
      BY <1>1, <2>4, ShapeKeeps
  <1>17. CASE CancelLoop(l)
    <2>1. Shape
      BY <1>2, <1>4, <1>6, <1>17, NothingKeeps DEF CancelLoop
    <2>2. QED
      BY <1>1, <2>1, ShapeKeeps
  <1>18. QED
    BY <1>8, <1>9, <1>10, <1>11, <1>12, <1>13, <1>14, <1>15, <1>16, <1>17 DEF LoopStep

\* A claim: the loop's claim is new, every other loop's stays as it is.
LEMMA ClaimKeeps ==
    ASSUME IInv, WInv, NEW l \in Loop, ClaimNext(l)
    PROVE  WInv'
  <1> DEFINE w == WorkerOf[l]
  <1>1. [Next]_vars /\ w \in Worker
    BY QueueSteps, LoopAssumption DEF WNext, LoopStep
  <1>2. IInv'
    BY <1>1, NextIInv
  <1>3. PICK j \in Job, g \in Gen :
          /\ Claim(w, j, g)
          /\ \/ loop' = loop
             \/ loop' = [loop EXCEPT ![l] =
                  [pc |-> "claimed", tk |-> [job |-> j, worker |-> w, gen |-> g],
                   attempts |-> jobs'[j].attempts]]
    BY <1>1 DEF ClaimNext
  <1>4. PICK t \in Ticket : t = [job |-> j, worker |-> w, gen |-> g]
    BY <1>1 DEF Ticket
  <1>5. tickets' = tickets \cup {t} /\ t.job = j /\ t.worker = w
    BY <1>3, <1>4 DEF Claim
  <1>6. jobs'[j].attempts \in Nat
    BY <1>2 DEF IInv, TypeOK, Row
  <1>7. /\ loop' \in LoopType
        /\ \/ loop' = loop
           \/ loop'[l].tk = t /\ loop'[l].attempts = jobs'[j].attempts
        /\ \A k \in Loop \ {l} : loop'[k] = loop[k]
    BY <1>3, <1>4, <1>6 DEF WInv, LoopType, Pc
  <1>8. HoldsClaim'
    BY <1>5, <1>7 DEF WInv, HoldsClaim, Holding
  <1>9. KeepsClaims'
    BY <1>5 DEF ClaimNext, WInv, KeepsClaims
  <1>10. Snapshot'
    <2>1. ASSUME NEW k \in Loop, Holding(k)',
                 jobs'[loop'[k].tk.job].status = "RUNNING",
                 jobs'[loop'[k].tk.job].generation = loop'[k].tk.gen
          PROVE  loop'[k].attempts = jobs'[loop'[k].tk.job].attempts
      <3>1. CASE k = l /\ loop' # loop
        BY <1>5, <1>7, <3>1
      <3>2. CASE k # l \/ loop' = loop
        <4>1. Holding(k) /\ loop'[k] = loop[k]
          BY <1>7, <2>1, <3>2 DEF Holding
        <4>2. QED
          BY <1>1, <2>1, <4>1, SnapshotSteps
      <3>3. QED
        BY <3>1, <3>2
    <2>2. QED
      BY <2>1 DEF Snapshot, Carries
  <1>11. AlertIsTrue'
    BY <1>1, StatusSteps DEF ClaimNext, WInv, AlertIsTrue
  <1>12. excused' \subseteq Ticket
    BY ExcusedClaims DEF LoopStep
  <1>13. QED
    BY <1>7, <1>8, <1>9, <1>10, <1>11, <1>12 DEF WInv, ClaimNext, LoopType

LEMMA ShutdownStepKeeps ==
    ASSUME IInv, WInv, NEW w \in Worker, ShutdownStep(w)
    PROVE  WInv'
  <1>1. [Next]_vars
    BY QueueSteps DEF WNext
  <1>2. /\ phase \in [Worker -> Phase] /\ excused' \subseteq Ticket
        /\ inflight \in InflightType
    BY ExcusedClaims DEF WInv, InflightType
  <1>3. UNCHANGED vars => tickets' = tickets
    BY DEF vars
  <1>4. CASE RequestShutdown(w) \/ DeadlinePasses(w) \/ Exit(w)
    <2>1. /\ phase' \in [Worker -> Phase] /\ UNCHANGED <<loop, inflight, alerted>>
          /\ tickets' = tickets
      BY <1>2, <1>3, <1>4 DEF RequestShutdown, DeadlinePasses, Exit, Phase
    <2>2. QED
      BY <1>1, <1>2, <2>1, NothingKeeps, ShapeKeeps
  <1>5. CASE Kill(w)
    <2>1. phase' \in [Worker -> Phase] /\ tickets' = tickets
      BY <1>2, <1>3, <1>5 DEF Kill, Phase
    <2>2. LoopsKeep
      <3>1. At("ended") \in [pc : Pc, tk : Ticket \cup {NULL}, attempts : Nat]
            /\ At("ended").pc = "ended"
        BY DEF At, Pc
      <3>2. QED
        BY <1>5, <3>1 DEF Kill, LoopsKeep, LoopType, Holding, WInv
    <2>3. EntriesKeep
      <3>1. inflight' \in InflightType
        BY <1>2, <1>5 DEF Kill, InflightType
      <3>2. ASSUME NEW u \in Worker, NEW j \in Job
            PROVE  inflight'[u][j] \in {NULL, inflight[u][j]}
        BY <1>2, <1>5 DEF Kill, InflightType
      <3>3. QED
        BY <3>1, <3>2 DEF EntriesKeep
    <2>4. AlertsKeep
      BY <1>5, NothingKeeps DEF Kill
    <2>5. QED
      BY <1>1, <1>2, <2>1, <2>2, <2>3, <2>4, ShapeKeeps
  <1>6. CASE \E j \in Job : ReleaseEntry(w, j)
    <2>1. PICK j \in Job : ReleaseEntry(w, j)
      BY <1>6
    <2>2. inflight' = [inflight EXCEPT ![w][j] = NULL] /\ UNCHANGED <<phase, loop, alerted>>
      BY <2>1 DEF ReleaseEntry
    <2>3. tickets' = tickets
      BY <1>3, <2>1 DEF ReleaseEntry, Release, OwnedWrite
    <2>4. EntriesKeep
      <3>1. inflight' \in InflightType
        BY <1>2, <2>2 DEF InflightType
      <3>2. ASSUME NEW u \in Worker, NEW k \in Job
            PROVE  inflight'[u][k] \in {NULL, inflight[u][k]}
        BY <1>2, <2>2 DEF InflightType
      <3>3. QED
        BY <3>1, <3>2 DEF EntriesKeep
    <2>5. QED
      BY <1>1, <1>2, <2>2, <2>3, <2>4, NothingKeeps, ShapeKeeps
  <1>7. QED
    BY <1>4, <1>5, <1>6 DEF ShutdownStep

LEMMA OutsideKeeps ==
    ASSUME IInv, WInv, Outside
    PROVE  WInv'
  <1>1. [Next]_vars /\ UNCHANGED <<phase, loop, inflight, alerted>> /\ excused' \subseteq Ticket
    BY QueueSteps, ExcusedClaims DEF WNext, Outside
  <1>2. CASE tickets' = tickets
    BY <1>1, <1>2, NothingKeeps, ShapeKeeps DEF WInv
  <1>3. ASSUME NEW tk \in tickets, ~Remembered(tk), Forget(tk) PROVE WInv'
    <2>1. jobs' = jobs /\ tickets' = tickets \ {tk}
      BY <1>3 DEF Forget
    <2>2. HoldsClaim'
      BY <1>1, <1>3, <2>1 DEF WInv, HoldsClaim, Holding, Remembered
    <2>3. KeepsClaims'
      BY <1>1, <1>3, <2>1 DEF WInv, KeepsClaims, Remembered
    <2>4. QED
      BY <1>1, <2>1, <2>2, <2>3 DEF WInv, Snapshot, AlertIsTrue, Holding, Carries
  <1>4. CASE (\E j \in Job : Insert(j) \/ BackendCancel(j)) \/ Reap \/ Tick
    <2>1. tickets' = tickets
      BY <1>4 DEF Insert, BackendCancel, Reap, Tick
    <2>2. QED
      BY <1>2, <2>1
  <1>5. QED
    BY <1>3, <1>4 DEF Outside

LEMMA WStepKeeps ==
    ASSUME IInv, WInv, [WNext]_wvars
    PROVE  WInv'
  <1>1. CASE \E l \in Loop : LoopStep(l)
    BY <1>1, ClaimKeeps, LoopStepKeeps
  <1>2. CASE \E w \in Worker : ShutdownStep(w)
    BY <1>2, ShutdownStepKeeps
  <1>3. CASE Outside
    BY <1>3, OutsideKeeps
  <1>4. CASE UNCHANGED wvars
    BY <1>4 DEF wvars, vars, WInv, HoldsClaim, KeepsClaims, Snapshot, AlertIsTrue, Holding, Carries
  <1>5. QED
    BY <1>1, <1>2, <1>3, <1>4 DEF WNext

LEMMA WInitHolds ==
    ASSUME WInit
    PROVE  WInv
  <1>1. At("polling") \in [pc : Pc, tk : Ticket \cup {NULL}, attempts : Nat]
        /\ At("polling").pc = "polling"
    BY DEF At, Pc
  <1>2. QED
    BY <1>1 DEF WInit, WInv, Phase, HoldsClaim, KeepsClaims, Snapshot, AlertIsTrue, Holding

\* The queue's invariant and the processes' together.
LEMMA WInductive == WSpec => [](IInv /\ WInv)
  <1>1. UsesQueue => []IInv
    BY Inductive DEF UsesQueue
  <1>2. WInit => WInv
    BY WInitHolds
  <1>3. IInv /\ WInv /\ [WNext]_wvars => WInv'
    BY WStepKeeps
  <1>4. QED
    BY <1>1, <1>2, <1>3, WorkersUseQueue, PTL DEF WSpec

\* A job whose retries were reported as exhausted is closed and stays so.
THEOREM AlertsAreTrue == WSpec => []AlertIsTrue
  <1>1. WInv => AlertIsTrue
    BY DEF WInv
  <1>2. QED
    BY <1>1, WInductive, PTL

\* Whatever tasks do, the variables have the shape the code gives them.
THEOREM WorkersTypeCorrect == WSpec => []WTypeOK
  <1>1. IInv /\ WInv => WTypeOK
    BY DEF IInv, WInv, WTypeOK
  <1>2. QED
    BY <1>1, WInductive, PTL

-----------------------------------------------------------------------------
(* Shutdown of processes with one loop to the slot.                        *)

\* Only ClaimNext adds a claim.
LEMMA OnlyClaimsAdd ==
    ASSUME \/ \E l \in Loop : LoopStep(l) /\ ~ClaimNext(l)
           \/ \E w \in Worker : ShutdownStep(w)
           \/ Outside
    PROVE  tickets' \subseteq tickets
  <1>1. \A tk : Heartbeat(tk) \/ Complete(tk) \/ Cancel(tk) \/ Release(tk) \/ Forget(tk)
                  => tickets' \subseteq tickets
    BY DEF Heartbeat, Complete, Cancel, Release, Forget, OwnedWrite
  <1>2. \A tk, s : Fail(tk, s) => tickets' \subseteq tickets
    BY DEF Fail, OwnedWrite
  <1>3. UNCHANGED vars => tickets' \subseteq tickets
    BY DEF vars
  <1>4. ASSUME NEW l \in Loop, LoopStep(l), ~ClaimNext(l) PROVE tickets' \subseteq tickets
    <2>1. CASE Settle(l) \/ RecordHandlerError(l)
      BY <1>1, <1>2, <1>3, <2>1 DEF Settle, RecordHandlerError, RecordFail, OrNothing
    <2>2. CASE HandBack(l) \/ Renew(l)
      BY <1>1, <1>3, <2>2 DEF HandBack, Renew, OrNothing
    <2>3. CASE \/ StartHandler(l) \/ LoopEnds(l) \/ Finish(l) \/ Raise(l)
               \/ BeatLost(l) \/ BeatGivesUp(l) \/ HandlerCancelled(l) \/ CancelLoop(l)
      BY <1>3, <2>3 DEF StartHandler, LoopEnds, Finish, Raise, BeatLost, BeatGivesUp,
                        HandlerCancelled, CancelLoop
    <2>4. QED
      BY <1>4, <2>1, <2>2, <2>3 DEF LoopStep
  <1>5. ASSUME NEW w \in Worker, ShutdownStep(w) PROVE tickets' \subseteq tickets
    BY <1>1, <1>3, <1>5
    DEF ShutdownStep, RequestShutdown, DeadlinePasses, Exit, Kill, ReleaseEntry
  <1>6. CASE Outside
    BY <1>1, <1>6 DEF Outside, Insert, BackendCancel, Reap, Tick
  <1>7. QED
    BY <1>4, <1>5, <1>6

\* A claim that has its row after a step had it before, or is made in the step.
LEMMA OwnedBefore ==
    ASSUME IInv, [Next]_vars, NEW tk \in Ticket, Owns(tk)', tk \in tickets' => tk \in tickets
    PROVE  Owns(tk)
  <1>1. tk = [job |-> tk.job, worker |-> tk.worker, gen |-> tk.gen]
    BY DEF Ticket
  <1>2. Claim(tk.worker, tk.job, tk.gen) => tk \in tickets' /\ tk \notin tickets
    BY <1>1 DEF Claim, FreshGen
  <1>3. QED
    BY <1>2, LostForGood

\* An excuse stays for as long as the claim has its row.
LEMMA ExcusesStay ==
    ASSUME WInv,
           \/ \E l \in Loop : LoopStep(l)
           \/ \E w \in Worker : ShutdownStep(w)
           \/ Outside,
           NEW tk \in excused, Owns(tk)', phase'[tk.worker] # "killed"
    PROVE  tk \in excused'
  <1>1. \A S : Excuses(S) => tk \in excused'
    BY DEF Excuses
  <1>2. excused' = excused => tk \in excused'
    OBVIOUS
  <1>3. ASSUME NEW l \in Loop, LoopStep(l) PROVE tk \in excused'
    <2>1. CASE ClaimNext(l) \/ HandBack(l) \/ RecordHandlerError(l) \/ HandlerCancelled(l)
      BY <1>1, <2>1 DEF ClaimNext, HandBack, RecordHandlerError, HandlerCancelled
    <2>2. CASE Renew(l) \/ Settle(l) \/ CancelLoop(l)
      BY <1>1, <2>2 DEF Renew, Settle, CancelLoop
    <2>3. CASE \/ StartHandler(l) \/ LoopEnds(l) \/ Finish(l) \/ Raise(l)
               \/ BeatLost(l) \/ BeatGivesUp(l)
      BY <1>2, <2>3 DEF StartHandler, LoopEnds, Finish, Raise, BeatLost, BeatGivesUp
    <2>4. QED
      BY <1>3, <2>1, <2>2, <2>3 DEF LoopStep
  <1>4. ASSUME NEW w \in Worker, ShutdownStep(w) PROVE tk \in excused'
    <2>1. CASE Kill(w)
      <3>1. tk.worker # w
        <4>1. phase'[w] = "killed"
          BY <2>1 DEF Kill, WInv
        <4>2. QED
          BY <4>1
      <3>2. QED
        BY <2>1, <3>1 DEF Kill
    <2>2. CASE RequestShutdown(w) \/ DeadlinePasses(w) \/ Exit(w)
      BY <1>2, <2>2 DEF RequestShutdown, DeadlinePasses, Exit
    <2>3. CASE \E j \in Job : ReleaseEntry(w, j)
      BY <1>1, <2>3 DEF ReleaseEntry
    <2>4. QED
      BY <1>4, <2>1, <2>2, <2>3 DEF ShutdownStep
  <1>5. CASE Outside
    BY <1>1, <1>5 DEF Outside
  <1>6. QED
    BY <1>3, <1>4, <1>5

\* What a step of a loop leaves alone, and what becomes of its own claim.
HandsOn(l, tk) ==
    \/ inflight'[WorkerOf[l]][tk.job] = tk
    \/ Holding(l)' /\ loop'[l].tk = tk

LoopFrame(l) ==
    LET w == WorkerOf[l]
    IN  /\ phase' = phase
        /\ \A k \in Loop \ {l} : loop'[k] = loop[k]
        /\ \A u \in Worker \ {w} : inflight'[u] = inflight[u]
        /\ loop[l].pc # "ended"
        /\ EntryIsOwn(l)'
        /\ SettledIsOver(l)'
        /\ \A tk \in Ticket :
             Holding(l) /\ tk = loop[l].tk /\ Owns(tk)' => tk \in excused' \/ HandsOn(l, tk)

LEMMA LoopStepFrame ==
    ASSUME IInv, WInv, NEW l \in Loop, EntryIsOwn(l), SettledIsOver(l), LoopStep(l)
    PROVE  LoopFrame(l)
  <1> DEFINE w == WorkerOf[l]
             t == loop[l].tk
  <1>1. /\ w \in Worker
        /\ loop \in LoopType /\ inflight \in InflightType
        /\ Holding(l) => t \in Ticket /\ t.job \in Job
    BY LoopAssumption DEF IInv, TypeOK, WInv, HoldsClaim, LoopType, InflightType, Ticket
  <1>2. \A pc \in Pc : Moves(l, pc) =>
          /\ \A k \in Loop \ {l} : loop'[k] = loop[k]
          /\ loop'[l].tk = t /\ loop'[l].pc = pc
    BY <1>1 DEF Moves, LoopType
  <1>3. \A pc \in Pc : Drops(l, pc) =>
          /\ \A k \in Loop \ {l} : loop'[k] = loop[k]
          /\ loop'[l].pc = pc
    BY <1>1 DEF Drops, LoopType, At
  <1>4. Holding(l) /\ Pop(l) =>
          /\ \A u \in Worker \ {w} : inflight'[u] = inflight[u]
          /\ \A j \in Job : inflight'[w][j] = IF j = t.job THEN NULL ELSE inflight[w][j]
    BY <1>1 DEF Pop, InflightType
  <1>5. \A S : Excuses(S) => \A tk \in S : Owns(tk)' => tk \in excused'
    BY DEF Excuses
  <1>6. UNCHANGED vars => \A tk \in Ticket : Owns(tk)' = Owns(tk)
    BY DEF vars, Owns
  <1>7. Answered(l) => \A tk \in Ticket : tk = t => ~Owns(tk)'
    BY DEF Answered
  <1>8. CASE ClaimNext(l)
    <2>1. /\ \A k \in Loop \ {l} : loop'[k] = loop[k]
          /\ loop'[l] = loop[l] \/ loop'[l].pc = "claimed"
          /\ loop[l].pc = "polling" /\ inflight' = inflight /\ phase' = phase
      BY <1>1, <1>8 DEF ClaimNext, LoopType
    <2>2. EntryIsOwn(l)'
      BY <2>1 DEF EntryIsOwn, AtWork
    <2>3. SettledIsOver(l)'
      BY <2>1 DEF SettledIsOver
    <2>4. QED
      BY <2>1, <2>2, <2>3 DEF LoopFrame, Holding
  <1>9. CASE StartHandler(l)
    <2>1. Holding(l) /\ Moves(l, "running") /\ "running" \in Pc /\ loop[l].pc = "claimed"
          /\ phase' = phase /\ inflight' = [inflight EXCEPT ![w][t.job] = t]
      BY <1>9 DEF StartHandler, Holding, Pc
    <2>2. /\ \A u \in Worker \ {w} : inflight'[u] = inflight[u]
          /\ \A j \in Job : inflight'[w][j] = IF j = t.job THEN t ELSE inflight[w][j]
      BY <1>1, <2>1 DEF InflightType
    <2>3. loop'[l].pc = "running" /\ loop'[l].tk = t /\ \A k \in Loop \ {l} : loop'[k] = loop[k]
      BY <1>2, <2>1
    <2>4. EntryIsOwn(l)'
      BY <2>1, <2>2, <2>3 DEF EntryIsOwn, AtWork
    <2>5. SettledIsOver(l)'
      BY <2>3 DEF SettledIsOver
    <2>6. QED
      BY <2>1, <2>2, <2>3, <2>4, <2>5 DEF LoopFrame, HandsOn, Holding
  <1>10. CASE HandBack(l) \/ RecordHandlerError(l) \/ LoopEnds(l)
    <2>1. PICK pc \in {"polling", "ended"} : Drops(l, pc)
      BY <1>10 DEF HandBack, RecordHandlerError, LoopEnds
    <2>2. loop'[l].pc = pc /\ \A k \in Loop \ {l} : loop'[k] = loop[k]
      BY <1>3, <2>1 DEF Pc
    <2>3. /\ phase' = phase /\ inflight' = inflight
          /\ loop[l].pc \in {"claimed", "failing", "polling"}
      BY <1>10 DEF HandBack, RecordHandlerError, LoopEnds
    <2>4. EntryIsOwn(l)'
      BY <2>2, <2>3 DEF EntryIsOwn, AtWork
    <2>5. SettledIsOver(l)'
      BY <2>2 DEF SettledIsOver
    <2>6. ASSUME NEW tk \in Ticket, Holding(l), tk = t, Owns(tk)' PROVE tk \in excused'
      <3>1. ~Answered(l) /\ ~LoopEnds(l)
        BY <1>7, <2>6 DEF LoopEnds, Holding
      <3>2. Excuses({t})
        BY <1>10, <3>1 DEF HandBack, RecordHandlerError
      <3>3. QED
        BY <1>5, <2>6, <3>2
    <2>7. QED
      BY <2>2, <2>3, <2>4, <2>5, <2>6 DEF LoopFrame
  <1>11. CASE Renew(l)
    <2>1. phase' = phase /\ loop' = loop /\ inflight' = inflight /\ AtWork(l)
      BY <1>11 DEF Renew, AtWork
    <2>2. Owns(t)
      BY <1>11 DEF Renew, Heartbeat, OwnedWrite
    <2>3. SettledIsOver(l)'
      BY <2>1, <2>2 DEF SettledIsOver
    <2>4. EntryIsOwn(l)'
      BY <2>1 DEF EntryIsOwn, AtWork
    <2>5. QED
      BY <2>1, <2>3, <2>4 DEF LoopFrame, HandsOn, Holding, AtWork
  <1>12. CASE Settle(l)
    <2>1. /\ phase' = phase /\ inflight' = inflight /\ loop[l].pc = "running"
          /\ Moves(l, "settled") /\ "settled" \in Pc /\ Answered(l)
      BY <1>12 DEF Settle, Pc
    <2>2. loop'[l].pc = "settled" /\ loop'[l].tk = t /\ \A k \in Loop \ {l} : loop'[k] = loop[k]
      BY <1>2, <2>1
    <2>3. PICK tk \in Ticket : tk = t /\ ~Owns(tk)'
      BY <1>1, <1>7, <2>1 DEF Holding
    <2>4. SettledIsOver(l)'
      BY <2>2, <2>3 DEF SettledIsOver, Owns
    <2>5. EntryIsOwn(l)'
      BY <2>1, <2>2 DEF EntryIsOwn, AtWork
    <2>6. QED
      BY <2>1, <2>2, <2>4, <2>5 DEF LoopFrame, HandsOn, Holding
  <1>13. CASE Finish(l)
    <2>1. /\ Holding(l) /\ loop[l].pc = "settled" /\ Pop(l) /\ Drops(l, "polling")
          /\ phase' = phase /\ UNCHANGED vars /\ "polling" \in Pc
      BY <1>13 DEF Finish, Holding, Pc
    <2>2. ~Owns(t)
      BY <2>1 DEF SettledIsOver
    <2>3. loop'[l].pc = "polling" /\ \A k \in Loop \ {l} : loop'[k] = loop[k]
      BY <1>3, <2>1
    <2>4. EntryIsOwn(l)'
      BY <1>4, <2>1, <2>3 DEF EntryIsOwn, AtWork
    <2>5. SettledIsOver(l)'
      BY <2>3 DEF SettledIsOver
    <2>6. \A tk \in Ticket : tk = t => ~Owns(tk)'
      BY <1>6, <2>1, <2>2
    <2>7. QED
      BY <1>4, <2>1, <2>3, <2>4, <2>5, <2>6 DEF LoopFrame
  <1>14. CASE Raise(l)
    <2>1. /\ Holding(l) /\ AtWork(l) /\ Pop(l) /\ Moves(l, "failing") /\ "failing" \in Pc
          /\ phase' = phase
      BY <1>14 DEF Raise, Holding, AtWork, Pc
    <2>2. loop'[l].pc = "failing" /\ loop'[l].tk = t /\ \A k \in Loop \ {l} : loop'[k] = loop[k]
      BY <1>2, <2>1
    <2>3. EntryIsOwn(l)'
      BY <1>4, <2>1, <2>2 DEF EntryIsOwn, AtWork
    <2>4. SettledIsOver(l)'
      BY <2>2 DEF SettledIsOver
    <2>5. QED
      BY <1>4, <2>1, <2>2, <2>3, <2>4 DEF LoopFrame, HandsOn, Holding, AtWork
  <1>15. CASE BeatLost(l) \/ BeatGivesUp(l)
    <2>1. /\ AtWork(l) /\ Moves(l, "cancelled") /\ "cancelled" \in Pc
          /\ phase' = phase /\ inflight' = inflight
      BY <1>15 DEF BeatLost, BeatGivesUp, AtWork, Pc
    <2>2. loop'[l].pc = "cancelled" /\ loop'[l].tk = t /\ \A k \in Loop \ {l} : loop'[k] = loop[k]
      BY <1>2, <2>1
    <2>3. EntryIsOwn(l)'
      BY <2>1, <2>2 DEF EntryIsOwn, AtWork
    <2>4. SettledIsOver(l)'
      BY <2>2 DEF SettledIsOver
    <2>5. QED
      BY <2>1, <2>2, <2>3, <2>4 DEF LoopFrame, HandsOn, Holding, AtWork
  <1>16. CASE HandlerCancelled(l)
    <2>1. Holding(l) /\ AtWork(l) /\ phase' = phase
      BY <1>16 DEF HandlerCancelled, Holding, AtWork
    <2>2. CASE phase[w] = "up"
      <3>1. Pop(l) /\ Drops(l, "polling") /\ Excuses({t}) /\ "polling" \in Pc
        BY <1>16, <2>2 DEF HandlerCancelled, Pc
      <3>2. loop'[l].pc = "polling" /\ \A k \in Loop \ {l} : loop'[k] = loop[k]
        BY <1>3, <3>1
      <3>3. EntryIsOwn(l)'
        BY <1>4, <2>1, <3>1, <3>2 DEF EntryIsOwn, AtWork
      <3>4. SettledIsOver(l)'
        BY <3>2 DEF SettledIsOver
      <3>5. \A tk \in Ticket : tk = t /\ Owns(tk)' => tk \in excused'
        BY <1>5, <3>1
      <3>6. QED
        BY <1>4, <2>1, <3>1, <3>2, <3>3, <3>4, <3>5 DEF LoopFrame, AtWork
    <2>3. CASE phase[w] # "up"
      <3>1. Drops(l, "ended") /\ inflight' = inflight /\ "ended" \in Pc
        BY <1>16, <2>3 DEF HandlerCancelled, Pc
      <3>2. loop'[l].pc = "ended" /\ \A k \in Loop \ {l} : loop'[k] = loop[k]
        BY <1>3, <3>1
      <3>3. inflight[w][t.job] = t
        BY <1>1, <2>1 DEF EntryIsOwn, AtWork
      <3>4. EntryIsOwn(l)' /\ SettledIsOver(l)'
        BY <3>2 DEF EntryIsOwn, SettledIsOver
      <3>5. QED
        BY <2>1, <3>1, <3>2, <3>3, <3>4 DEF LoopFrame, HandsOn, AtWork
    <2>4. QED
      BY <2>2, <2>3
  <1>17. CASE CancelLoop(l)
    <2>1. Drops(l, "ended") /\ inflight' = inflight /\ phase' = phase /\ "ended" \in Pc
          /\ loop[l].pc # "ended"
      BY <1>17 DEF CancelLoop, Pc
    <2>2. loop'[l].pc = "ended" /\ \A k \in Loop \ {l} : loop'[k] = loop[k]
      BY <1>3, <2>1
    <2>3. EntryIsOwn(l)' /\ SettledIsOver(l)'
      BY <2>2 DEF EntryIsOwn, SettledIsOver
    <2>4. ASSUME NEW tk \in Ticket, Holding(l), tk = t, Owns(tk)'
          PROVE  tk \in excused' \/ inflight'[w][tk.job] = tk
      <3>1. CASE AtWork(l)
        BY <1>1, <2>1, <2>4, <3>1 DEF EntryIsOwn
      <3>2. CASE ~AtWork(l)
        <4>1. loop[l].pc \in {"claimed", "failing"}
          BY <1>1, <2>4, <3>2 DEF AtWork, Holding, LoopType, Pc
        <4>2. Excuses({t})
          BY <1>17, <4>1 DEF CancelLoop
        <4>3. QED
          BY <1>5, <2>4, <4>2
      <3>3. QED
        BY <3>1, <3>2
    <2>5. QED
      BY <2>1, <2>2, <2>3, <2>4 DEF LoopFrame, HandsOn
  <1>18. QED
    BY <1>8, <1>9, <1>10, <1>11, <1>12, <1>13, <1>14, <1>15, <1>16, <1>17 DEF LoopStep

\* What a step does to a claim of a process whose own part stands still.
LEMMA ElsewhereStays ==
    ASSUME IInv, WInv, [Next]_vars, NEW tk \in Ticket, Accounted(tk),
           tk \in tickets' => tk \in tickets,
           tk \in excused /\ Owns(tk)' /\ phase'[tk.worker] # "killed" => tk \in excused',
           phase'[tk.worker] # "killed" => phase[tk.worker] # "killed",
           inflight'[tk.worker] = inflight[tk.worker],
           \A l \in LoopsOf(tk.worker) : loop'[l] = loop[l]
    PROVE  Accounted(tk)'
  <1>1. InHand(tk) => InHand(tk)'
    BY DEF InHand, LoopsOf, Holding
  <1>2. Owns(tk)' => Owns(tk)
    BY OwnedBefore
  <1>3. QED
    BY <1>1, <1>2 DEF Accounted

\* A handler that is about to return does not get its row back.
LEMMA SettledStays ==
    ASSUME IInv, WInv, [Next]_vars, NEW l \in Loop, SettledIsOver(l), loop'[l] = loop[l]
    PROVE  SettledIsOver(l)'
  <1>1. ASSUME loop[l].pc = "settled" PROVE \A tk \in Ticket : tk = loop[l].tk => ~Owns(tk)'
    <2>1. ~Owns(loop[l].tk) /\ loop[l].tk \in tickets
      BY <1>1 DEF SettledIsOver, WInv, HoldsClaim, Holding
    <2>2. QED
      BY <2>1, LostForGood
  <1>2. ASSUME loop[l].pc = "settled" PROVE loop[l].tk \in Ticket
    BY <1>2 DEF IInv, TypeOK, WInv, HoldsClaim, Holding
  <1>3. ASSUME loop[l].pc = "settled" PROVE ~Owns(loop[l].tk)'
    <2>1. PICK tk \in Ticket : tk = loop[l].tk /\ ~Owns(tk)'
      BY <1>1, <1>2, <1>3
    <2>2. QED
      BY <2>1 DEF Owns
  <1>4. QED
    BY <1>3 DEF SettledIsOver

LEMMA LoopStepAccounts ==
    ASSUME OneLoop, IInv, WInv, EInv, NEW l \in Loop, LoopStep(l)
    PROVE  EInv'
  <1> DEFINE w == WorkerOf[l]
  <1>1. /\ w \in Worker /\ WNext /\ [Next]_vars /\ LoopFrame(l)
        /\ phase \in [Worker -> Phase] /\ tickets \subseteq Ticket
        /\ \A k \in Loop : WorkerOf[k] \in Worker
    BY LoopAssumption, LoopStepFrame, QueueSteps DEF WNext, EInv, IInv, TypeOK, WInv
  <1>2. ASSUME NEW k \in Loop PROVE EntryIsOwn(k)' /\ SettledIsOver(k)'
    <2>1. CASE k = l
      BY <1>1, <2>1 DEF LoopFrame
    <2>2. CASE k # l
      <3>1. WorkerOf[k] # w
        BY <2>2 DEF OneLoop
      <3>2. loop'[k] = loop[k] /\ inflight'[WorkerOf[k]] = inflight[WorkerOf[k]]
        BY <1>1, <2>2, <3>1 DEF LoopFrame
      <3>3. EntryIsOwn(k)'
        BY <3>2 DEF EInv, EntryIsOwn, AtWork
      <3>4. QED
        BY <1>1, <3>2, <3>3, SettledStays DEF EInv
    <2>3. QED
      BY <2>1, <2>2
  <1>3. ASSUME NEW tk \in Ticket, tk \in tickets', tk \notin tickets
        PROVE  tk.worker = w /\ (tk \in excused' \/ ~Owns(tk)' \/ InHand(tk)')
    <2>1. ClaimNext(l)
      BY <1>3, OnlyClaimsAdd
    <2>2. PICK j \in Job, g \in Gen :
            LET t == [job |-> j, worker |-> w, gen |-> g]
            IN  /\ Claim(w, j, g)
                /\ \/ Excuses({t})
                   \/ loop' = [loop EXCEPT ![l] =
                        [pc |-> "claimed", tk |-> t, attempts |-> jobs'[j].attempts]]
      BY <2>1 DEF ClaimNext
    <2>3. tk = [job |-> j, worker |-> w, gen |-> g]
      BY <1>3, <2>2 DEF Claim
    <2>4. CASE Excuses({tk})
      BY <2>3, <2>4 DEF Excuses
    <2>5. CASE loop' = [loop EXCEPT ![l] =
                 [pc |-> "claimed", tk |-> tk, attempts |-> jobs'[j].attempts]]
      <3>1. loop'[l].pc = "claimed" /\ loop'[l].tk = tk
        BY <2>5 DEF WInv
      <3>2. InHand(tk)'
        BY <2>3, <3>1 DEF InHand, LoopsOf, Holding
      <3>3. QED
        BY <2>3, <3>2
    <2>6. QED
      BY <2>2, <2>3, <2>4, <2>5
  <1>4. ASSUME NEW tk \in Ticket PROVE Accounted(tk)'
    <2>1. CASE tk \in tickets' /\ tk \notin tickets
      BY <1>3, <2>1 DEF Accounted
    <2>2. CASE (tk \in tickets' => tk \in tickets) /\ tk.worker # w
      <3>1. tk.worker \in Worker
        BY DEF Ticket
      <3>2. /\ inflight'[tk.worker] = inflight[tk.worker] /\ phase' = phase
            /\ \A k \in LoopsOf(tk.worker) : loop'[k] = loop[k]
        BY <1>1, <2>2, <3>1 DEF LoopFrame, LoopsOf
      <3>3. QED
        BY <1>1, <2>2, <3>2, ElsewhereStays, ExcusesStay DEF EInv
    <2>3. ASSUME tk \in tickets' => tk \in tickets, tk.worker = w,
                 phase'[w] # "killed", Owns(tk)'
          PROVE  tk \in excused' \/ InHand(tk)'
      <3>1. Owns(tk) /\ phase[w] # "killed"
        BY <1>1, <2>3, OwnedBefore DEF LoopFrame
      <3>2. CASE tk \in excused
        BY <2>3, <3>2, ExcusesStay
      <3>3. CASE InHand(tk)
        <4>1. CASE Holding(l) /\ loop[l].tk = tk
          <5>1. tk \in excused' \/ HandsOn(l, tk)
            BY <1>1, <2>3, <4>1 DEF LoopFrame
          <5>2. HandsOn(l, tk) => InHand(tk)'
            BY <2>3 DEF HandsOn, InHand, LoopsOf
          <5>3. QED
            BY <5>1, <5>2
        <4>2. CASE inflight[w][tk.job] = tk
          <5>1. tk.job \in Job /\ tk # NULL
            BY LoopAssumption DEF Ticket
          <5>2. AtWork(l) /\ loop[l].tk = tk
            BY <1>1, <4>2, <5>1 DEF EInv, EntryIsOwn, LoopFrame
          <5>3. QED
            BY <4>1, <5>2 DEF AtWork, Holding
        <4>3. \A k \in LoopsOf(w) : k = l
          BY DEF LoopsOf, OneLoop
        <4>4. QED
          BY <2>3, <3>3, <4>1, <4>2, <4>3 DEF InHand
      <3>4. QED
        BY <2>3, <3>1, <3>2, <3>3 DEF EInv, Accounted
    <2>4. QED
      BY <2>1, <2>2, <2>3 DEF Accounted
  <1>5. ASSUME NEW u \in Worker PROVE ExitIsEmpty(u)'
    <2>1. CASE u = w
      <3>1. phase'[w] # "exited"
        BY <1>1 DEF LoopFrame, EInv, ExitIsEmpty, LoopsOf
      <3>2. QED
        BY <2>1, <3>1 DEF ExitIsEmpty
    <2>2. CASE u # w
      <3>1. /\ inflight'[u] = inflight[u] /\ phase' = phase
            /\ \A k \in LoopsOf(u) : loop'[k] = loop[k]
        BY <1>1, <2>2 DEF LoopFrame, LoopsOf
      <3>2. QED
        BY <3>1 DEF EInv, ExitIsEmpty, LoopsOf
    <2>3. QED
      BY <2>1, <2>2
  <1>6. QED
    BY <1>2, <1>4, <1>5 DEF EInv

LEMMA ShutdownStepAccounts ==
    ASSUME IInv, WInv, EInv, NEW w \in Worker, ShutdownStep(w)
    PROVE  EInv'
  <1>1. /\ [Next]_vars /\ tickets' \subseteq tickets
        /\ phase \in [Worker -> Phase]
        /\ inflight \in InflightType /\ loop \in LoopType
        /\ \A k \in Loop : WorkerOf[k] \in Worker
        /\ \A tk \in Ticket : tk.worker \in Worker /\ tk.job \in Job
    BY QueueSteps, OnlyClaimsAdd, LoopAssumption DEF WNext, WInv, InflightType, LoopType, Ticket
  <1>2. ASSUME NEW u \in Worker \ {w}
        PROVE  /\ inflight'[u] = inflight[u] /\ phase'[u] = phase[u]
               /\ \A l \in LoopsOf(u) : loop'[l] = loop[l]
    <2>1. inflight'[u] = inflight[u] /\ phase'[u] = phase[u]
      BY <1>1 DEF ShutdownStep, RequestShutdown, DeadlinePasses, Exit, Kill, ReleaseEntry,
                  InflightType
    <2>2. \A l \in LoopsOf(u) : loop'[l] = loop[l]
      BY <1>1, <1>2 DEF ShutdownStep, RequestShutdown, DeadlinePasses, Exit, Kill, ReleaseEntry,
                  LoopsOf, LoopType
    <2>3. QED
      BY <2>1, <2>2
  <1>3. ASSUME NEW k \in Loop, WorkerOf[k] # w PROVE EntryIsOwn(k)' /\ SettledIsOver(k)'
    <2>1. loop'[k] = loop[k] /\ inflight'[WorkerOf[k]] = inflight[WorkerOf[k]]
      BY <1>1, <1>2, <1>3 DEF LoopsOf
    <2>2. EntryIsOwn(k)'
      BY <2>1 DEF EInv, EntryIsOwn, AtWork
    <2>3. QED
      BY <1>1, <2>1, <2>2, SettledStays DEF EInv
  <1>4. ASSUME NEW tk \in Ticket, tk.worker # w PROVE Accounted(tk)'
    <2>1. tk \in excused /\ Owns(tk)' /\ phase'[tk.worker] # "killed" => tk \in excused'
      BY ExcusesStay
    <2>2. /\ inflight'[tk.worker] = inflight[tk.worker]
          /\ phase'[tk.worker] = phase[tk.worker]
          /\ \A l \in LoopsOf(tk.worker) : loop'[l] = loop[l]
      BY <1>1, <1>2, <1>4
    <2>3. QED
      BY <1>1, <2>1, <2>2, ElsewhereStays DEF EInv
  <1>5. ASSUME NEW u \in Worker \ {w} PROVE ExitIsEmpty(u)'
    BY <1>2 DEF EInv, ExitIsEmpty, LoopsOf
  <1>6. SUFFICES /\ \A k \in Loop : WorkerOf[k] = w => EntryIsOwn(k)' /\ SettledIsOver(k)'
                 /\ \A tk \in Ticket : tk.worker = w => Accounted(tk)'
                 /\ ExitIsEmpty(w)'
    BY <1>3, <1>4, <1>5 DEF EInv
  <1>7. CASE RequestShutdown(w) \/ DeadlinePasses(w) \/ Exit(w)
    <2>1. UNCHANGED <<vars, loop, inflight, excused>> /\ phase[w] # "killed"
      BY <1>7 DEF RequestShutdown, DeadlinePasses, Exit, Draining
    <2>2. \A k \in Loop : EntryIsOwn(k)' /\ SettledIsOver(k)'
      BY <2>1 DEF EInv, EntryIsOwn, SettledIsOver, AtWork, Owns, vars
    <2>3. \A tk \in Ticket : tk.worker = w => Accounted(tk)'
      BY <2>1 DEF EInv, Accounted, InHand, LoopsOf, Holding, Owns, vars
    <2>4. ExitIsEmpty(w)'
      <3>1. CASE RequestShutdown(w) \/ DeadlinePasses(w)
        BY <1>1, <3>1 DEF RequestShutdown, DeadlinePasses, ExitIsEmpty
      <3>2. CASE Exit(w)
        BY <3>2 DEF Exit, Draining, ExitIsEmpty, LoopsOf
      <3>3. QED
        BY <1>7, <3>1, <3>2
    <2>5. QED
      BY <2>2, <2>3, <2>4
  <1>8. CASE Kill(w)
    <2>1. phase'[w] = "killed"
      BY <1>1, <1>8 DEF Kill
    <2>2. \A k \in Loop : WorkerOf[k] = w => loop'[k].pc = "ended"
      BY <1>8 DEF Kill, At
    <2>3. QED
      BY <2>1, <2>2 DEF EntryIsOwn, SettledIsOver, Accounted, ExitIsEmpty
  <1>9. ASSUME NEW j \in Job, ReleaseEntry(w, j)
        PROVE  /\ \A k \in Loop : WorkerOf[k] = w => EntryIsOwn(k)' /\ SettledIsOver(k)'
               /\ \A tk \in Ticket : tk.worker = w => Accounted(tk)'
               /\ ExitIsEmpty(w)'
    <2>1. /\ inflight' = [inflight EXCEPT ![w][j] = NULL]
          /\ phase' = phase /\ loop' = loop
          /\ phase[w] = "cancelling" /\ \A l \in LoopsOf(w) : loop[l].pc = "ended"
      BY <1>9 DEF ReleaseEntry, Draining
    <2>2. \A k \in Loop : WorkerOf[k] = w => EntryIsOwn(k)' /\ SettledIsOver(k)'
      BY <2>1 DEF LoopsOf, EntryIsOwn, SettledIsOver
    <2>3. ExitIsEmpty(w)'
      BY <2>1 DEF ExitIsEmpty
    <2>4. ASSUME NEW tk \in Ticket, tk.worker = w, Owns(tk)' PROVE tk \in excused' \/ InHand(tk)'
      <3>1. Owns(tk)
        BY <1>1, <2>4, OwnedBefore
      <3>2. CASE tk \in excused
        BY <2>1, <2>4, <3>2, ExcusesStay
      <3>3. CASE InHand(tk)
        <4>1. inflight[w][tk.job] = tk
          BY <2>1, <2>4, <3>3 DEF InHand, Holding
        <4>2. CASE tk.job # j
          <5>1. inflight'[w][tk.job] = tk
            BY <1>1, <2>1, <4>1, <4>2 DEF InflightType
          <5>2. QED
            BY <2>4, <5>1 DEF InHand
        <4>3. CASE tk.job = j
          <5>1. ~Release(tk)
            <6>1. jobs \in [Job -> Row] /\ jobs[j] \in Row
              BY DEF IInv, TypeOK
            <6>2. Release(tk) => jobs'[j].status = "QUEUED"
              BY <4>3, <6>1, FreedRow DEF Release, OwnedWrite, ReleasedRow, Row
            <6>3. QED
              BY <2>4, <4>3, <6>2 DEF Owns
          <5>2. Excuses({tk})
            BY <1>9, <3>1, <4>1, <4>3, <5>1 DEF ReleaseEntry
          <5>3. QED
            BY <2>4, <5>2 DEF Excuses
        <4>4. QED
          BY <4>2, <4>3
      <3>4. QED
        BY <2>1, <2>4, <3>1, <3>2, <3>3 DEF EInv, Accounted
    <2>5. \A tk \in Ticket : tk.worker = w => Accounted(tk)'
      BY <2>4 DEF Accounted
    <2>6. QED
      BY <2>2, <2>3, <2>5
  <1>10. QED
    BY <1>7, <1>8, <1>9 DEF ShutdownStep

LEMMA EStepKeeps ==
    ASSUME OneLoop, IInv, WInv, EInv, [WNext]_wvars
    PROVE  EInv'
  <1>1. CASE \E l \in Loop : LoopStep(l)
    BY <1>1, LoopStepAccounts
  <1>2. CASE \E w \in Worker : ShutdownStep(w)
    BY <1>2, ShutdownStepAccounts
  <1>3. CASE Outside
    <2>1. [Next]_vars /\ tickets' \subseteq tickets /\ UNCHANGED <<phase, loop, inflight>>
      BY <1>3, QueueSteps, OnlyClaimsAdd DEF WNext, Outside
    <2>2. \A l \in Loop : EntryIsOwn(l)' /\ SettledIsOver(l)'
      BY <2>1, SettledStays DEF EInv, EntryIsOwn, AtWork
    <2>3. ASSUME NEW tk \in Ticket PROVE Accounted(tk)'
      <3>1. tk \in excused /\ Owns(tk)' /\ phase'[tk.worker] # "killed" => tk \in excused'
        BY <1>3, ExcusesStay
      <3>2. QED
        BY <2>1, <3>1, ElsewhereStays DEF EInv
    <2>4. \A w \in Worker : ExitIsEmpty(w)'
      BY <2>1 DEF EInv, ExitIsEmpty, LoopsOf
    <2>5. QED
      BY <2>2, <2>3, <2>4 DEF EInv
  <1>4. CASE UNCHANGED wvars
    BY <1>4 DEF wvars, vars, EInv, EntryIsOwn, SettledIsOver, Accounted, InHand, ExitIsEmpty,
                AtWork, Holding, LoopsOf, Owns
  <1>5. QED
    BY <1>1, <1>2, <1>3, <1>4 DEF WNext

\* With one loop to a slot (WORKER_SLOTS gives PREPARE, BACKGROUND and JURY one
\* and SENTENCE two), a process that has stopped by request holds the lease of
\* no row but those whose claims are excused: the reply to the claim was lost
\* or cut off, a fail or a release raised or was cut off, or the heartbeats
\* failed for too long.
THEOREM StopReturnsLeases ==
    ASSUME OneLoop
    PROVE  WSpec => []ExitReturnsLeases
  <1>1. WInit => EInv
    <2>1. At("polling").pc = "polling"
      BY DEF At
    <2>2. ASSUME WInit, NEW tk \in Ticket PROVE ~Owns(tk)
      BY <2>2 DEF WInit, Init, Owns, BlankRow, Ticket
    <2>3. ASSUME WInit PROVE \A l \in Loop : EntryIsOwn(l) /\ SettledIsOver(l)
      BY <2>1, <2>3, LoopAssumption DEF WInit, EntryIsOwn, SettledIsOver, AtWork
    <2>4. ASSUME WInit PROVE \A w \in Worker : ExitIsEmpty(w)
      BY <2>4 DEF WInit, ExitIsEmpty
    <2>5. QED
      BY <2>2, <2>3, <2>4 DEF EInv, Accounted
  <1>2. IInv /\ WInv /\ EInv /\ [WNext]_wvars => EInv'
    BY EStepKeeps
  <1>3. EInv => ExitReturnsLeases
    <2>1. ASSUME EInv, NEW tk \in Ticket, phase[tk.worker] = "exited", Owns(tk)
          PROVE  tk \in excused
      <3>1. tk.worker \in Worker /\ tk.job \in Job /\ tk # NULL
        BY LoopAssumption DEF Ticket
      <3>2. ~InHand(tk)
        BY <2>1, <3>1 DEF EInv, ExitIsEmpty, InHand, Holding
      <3>3. QED
        BY <2>1, <3>2 DEF EInv, Accounted
    <2>2. QED
      BY <2>1 DEF ExitReturnsLeases
  <1>4. QED
    BY <1>1, <1>2, <1>3, WInductive, PTL DEF WSpec

-----------------------------------------------------------------------------
(* The timing of one heartbeat.  Since the last success less than          *)
(* Lease - Interval has passed when a failure is put up with, and a sleep  *)
(* and a call follow, so since stays below Lease + Interval; the lease was *)
(* renewed at most Interval before that success was seen.  Before the      *)
(* first success it is the claim's reply that counts, which came late      *)
(* after the lease began.                                                  *)

\* What is left of the lease, counted from the last success.
Behind ==
    /\ beat = "claiming" => left = Lease - late /\ since = 0
    /\ Working =>
        \/ left >= Lease - since - Interval
        \/ left >= Lease - since - late
    /\ beat = "calling" /\ reply = "alive" => left >= Lease - (Interval - timer)

\* How long the heartbeat puts up with failures.
Patience ==
    /\ beat = "sleeping" => since + timer < Lease
    /\ beat = "calling" => since + timer < Lease + Interval

\* Without a failure the lease was renewed in the last call, or the claim's
\* reply started this one.
Renewed ==
    ~failed =>
        /\ beat = "sleeping" =>
            \/ left - timer >= Lease - 2 * Interval
            \/ left - timer >= Lease - Interval - late
        /\ beat = "calling" /\ reply # "alive" =>
            \/ left - timer >= Lease - 3 * Interval
            \/ left - timer >= Lease - 2 * Interval - late

BeatInv == BeatTypeOK /\ Behind /\ Patience /\ Renewed

LEMMA BeatInitInv == BeatInit => BeatInv
<1> SUFFICES ASSUME BeatInit PROVE BeatInv
    OBVIOUS
<1> USE TimingAssumption DEF BeatInit
<1>1. BeatTypeOK
    <2>1. owned \in BOOLEAN /\ failed \in BOOLEAN
        BY Zenon
    <2>2. left \in Int /\ left <= Lease
        OBVIOUS
    <2>3. timer \in 0..Interval /\ since \in Nat
        OBVIOUS
    <2> QED
        BY <2>1, <2>2, <2>3 DEF BeatTypeOK
<1>2. Behind
    BY DEF Behind
<1>3. Patience
    BY DEF Patience
<1>4. Renewed
    BY DEF Renewed
<1> QED
    BY <1>1, <1>2, <1>3, <1>4 DEF BeatInv

LEMMA BeatNextInv == BeatInv /\ [BeatNext]_beatVars => BeatInv'
<1> SUFFICES ASSUME BeatInv, [BeatNext]_beatVars PROVE BeatInv'
    OBVIOUS
<1> USE TimingAssumption DEF BeatInv, BeatTypeOK, Behind, Patience, Renewed, Working
<1>0. CASE ClaimWaits
    BY <1>0 DEF ClaimWaits
<1>1. CASE Wake
    BY <1>1 DEF Wake
<1>2. CASE Execute
    BY <1>2 DEF Execute
<1>3. CASE Answer
    BY <1>3 DEF Answer, Sleeps, Cancels
<1>4. CASE CallFails
    BY <1>4 DEF CallFails, Sleeps, Cancels
<1>5. CASE HandlerEnds
    BY <1>5 DEF HandlerEnds
<1>6. CASE RowTaken
    BY <1>6 DEF RowTaken
<1>7. CASE BeatTick
    BY <1>7 DEF BeatTick
<1>8. CASE UNCHANGED beatVars
    BY <1>8 DEF beatVars
<1>9. CASE ClaimAnswered
    BY <1>9 DEF ClaimAnswered
<1> QED
    BY <1>0, <1>1, <1>2, <1>3, <1>4, <1>5, <1>6, <1>7, <1>8, <1>9 DEF BeatNext

LEMMA BeatInvariant == BeatSpec => []BeatInv
<1> QED
    BY BeatInitInv, BeatNextInv, PTL DEF BeatSpec

\* However late its claim was answered and however its renewals fail, a handler
\* works less than two intervals beyond its lease, or less than an interval and
\* the claim's delay.
THEOREM Overrun == BeatSpec => []OverrunIsBounded
<1>1. BeatInv => OverrunIsBounded
    BY TimingAssumption
    DEF BeatInv, BeatTypeOK, Behind, Patience, OverrunIsBounded, Working
<1> QED
    BY <1>1, BeatInvariant, PTL

\* Calls that are answered keep the lease ahead of three intervals, or of two
\* and the claim's delay.
THEOREM NoNeedlessLoss == BeatSpec => []AnsweredBeatsRenew
<1>1. BeatInv => AnsweredBeatsRenew
    <2> SUFFICES ASSUME BeatInv, Working, ~failed
                 PROVE  \/ left >= Lease - 3 * Interval
                        \/ left >= Lease - 2 * Interval - late
        BY DEF AnsweredBeatsRenew
    <2>1. CASE beat = "sleeping"
        BY <2>1, TimingAssumption DEF BeatInv, BeatTypeOK, Renewed
    <2>2. CASE beat = "calling" /\ reply = "alive"
        BY <2>2, TimingAssumption DEF BeatInv, BeatTypeOK, Behind
    <2>3. CASE beat = "calling" /\ reply # "alive"
        BY <2>3, TimingAssumption DEF BeatInv, BeatTypeOK, Renewed
    <2> QED
        BY <2>1, <2>2, <2>3 DEF BeatInv, BeatTypeOK, Working
<1> QED
    BY <1>1, BeatInvariant, PTL

\* Every reachable state has its type.
THEOREM HeartbeatTypeCorrect == BeatSpec => []BeatTypeOK
<1>1. BeatInv => BeatTypeOK
    BY DEF BeatInv
<1> QED
    BY <1>1, BeatInvariant, PTL
=============================================================================
