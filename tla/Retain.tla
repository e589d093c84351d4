------------------------------- MODULE Retain -------------------------------
(***************************************************************************)
(* Memory (adapters/postgres_memory.py, application/retain_memory.py):     *)
(* RETAIN jobs write facts about a post, and the backend withdraws posts   *)
(* and authors at any time.  A handler reads a snapshot of the case, then  *)
(* in one transaction enters the event, compares the privacy epochs and    *)
(* inserts the facts; after the commit it compares the epochs once more    *)
(* and takes back what it wrote.  Workers may not lock privacy_epochs.     *)
(*                                                                         *)
(* A handler may be cut off at any await (a lost lease, shutdown, a kill,  *)
(* a failed statement); another may take the job up while a stale one is   *)
(* still at work, memory being outside the fence of the queue.             *)
(***************************************************************************)
EXTENDS Naturals, FiniteSets

CONSTANTS
    Event,      \* RETAIN jobs, one event each
    Empty,      \* events of which the snapshot gives nothing to keep
    Fact,       \* unique keys of ai.memory_facts
    Own,        \* the facts of each event that no other event writes
    Hits,       \* its RULE_HIT facts: the key is the room and the rule
    Scope,      \* privacy scopes: posts, authors
    ScopesOf,   \* the scopes of each event's snapshot
    Handler,    \* handlers at work
    Tries,      \* max_attempts of RETAIN
    MaxEpoch,   \* bound on withdrawals
    NULL

ASSUME RetainAssumption ==
    /\ Empty \subseteq Event
    /\ Own \in [Event -> SUBSET Fact] /\ Hits \in [Event -> SUBSET Fact]
    /\ \A e \in Event : Own[e] # {}
    /\ \A e, d \in Event : e # d => Own[e] \cap (Own[d] \cup Hits[d]) = {}
    /\ ScopesOf \in [Event -> SUBSET Scope]
    /\ Tries \in Nat /\ MaxEpoch \in Nat
    /\ NULL \notin Event

VARIABLES
    epoch,      \* ai.privacy_epochs, as committed
    withdrawal, \* how far the withdrawal of each scope is
    hit,        \* the rows the UPDATE of an open withdrawal has marked
    facts,      \* ai.memory_facts
    processed,  \* ai.processed_memory_events
    task,       \* where each handler stands
    job,        \* the RETAIN jobs
    unsure      \* history: events whose second comparison did not take place
                \* or fell into an open withdrawal

vars == <<epoch, withdrawal, hit, facts, processed, task, job, unsure>>

\* post: payload.post_id stands for the event that inserted the row.
FactRow == [post : Event, seen : [Scope -> 0..MaxEpoch], live : BOOLEAN]

At == {"idle", "snapshot", "retain", "entered", "checked", "recheck", "complete"}

Idle == [at |-> "idle", event |-> NULL, seen |-> [s \in Scope |-> 0], ids |-> {}]

TaskState == [at : At, event : Event \cup {NULL}, seen : [Scope -> 0..MaxEpoch], ids : SUBSET Fact]

ASSUME NullAssumption == NULL \notin FactRow

TypeOK ==
    /\ epoch \in [Scope -> 0..MaxEpoch]
    /\ withdrawal \in [Scope -> {"none", "deleting", "open"}]
    /\ hit \in [Scope -> SUBSET Fact]
    /\ facts \in [Fact -> FactRow \cup {NULL}]
    /\ processed \subseteq Event
    /\ task \in [Handler -> TaskState]
    /\ job \in [Event -> [holder : Handler \cup {NULL}, tries : 0..Tries, done : BOOLEAN]]
    /\ unsure \subseteq Event

Init ==
    /\ epoch = [s \in Scope |-> 0]
    /\ withdrawal = [s \in Scope |-> "none"]
    /\ hit = [s \in Scope |-> {}]
    /\ facts = [f \in Fact |-> NULL]
    /\ processed = {}
    /\ task = [h \in Handler |-> Idle]
    /\ job = [e \in Event |-> [holder |-> NULL, tries |-> 0, done |-> FALSE]]
    /\ unsure = {}

Moves(h, at) == task' = [task EXCEPT ![h].at = at]
Backend == <<epoch, withdrawal, hit>>

\* _epochs_match
Current(e, seen) == \A s \in ScopesOf[e] : seen[s] = epoch[s]

IsLive(f) == facts[f] # NULL /\ facts[f].live

\* deleted_at is set, the row stays.
Without(fs) ==
    [f \in Fact |-> IF f \in fs /\ facts[f] # NULL THEN [facts[f] EXCEPT !.live = FALSE] ELSE facts[f]]

-----------------------------------------------------------------------------
(* The handler.                                                            *)

\* Variant: a job may be claimed once more than max_attempts.
StartOnceMore(h, e) ==
    /\ task[h].at = "idle"
    /\ ~job[e].done /\ job[e].tries <= Tries
    /\ task' = [task EXCEPT ![h] = [Idle EXCEPT !.at = "snapshot", !.event = e]]
    /\ job' = [job EXCEPT ![e].holder = h, ![e].tries = @ + 1]
    /\ UNCHANGED <<Backend, facts, processed, unsure>>

\* A claim.  The handler of an earlier one may still be at work.
Start(h, e) ==
    /\ task[h].at = "idle"
    /\ ~job[e].done /\ job[e].tries < Tries
    /\ task' = [task EXCEPT ![h] = [Idle EXCEPT !.at = "snapshot", !.event = e]]
    /\ job' = [job EXCEPT ![e].holder = h, ![e].tries = @ + 1]
    /\ UNCHANGED <<Backend, facts, processed, unsure>>

\* The backend answers with the case and its epochs, or with 404 once it is
\* withdrawn.  Nothing to keep: the job is completed.
Snapshot(h) ==
    LET e == task[h].event
    IN  /\ task[h].at = "snapshot"
        /\ \/ /\ e \notin Empty
              /\ task' = [task EXCEPT ![h].at = "retain", ![h].seen = epoch]
           \/ /\ e \in Empty \/ \E s \in ScopesOf[e] : epoch[s] > 0
              /\ Moves(h, "complete")
        /\ UNCHANGED <<Backend, facts, processed, job, unsure>>

\* The unique key of an event entered by an open transaction is waited for.
CanEnter(h) ==
    /\ task[h].at = "retain"
    /\ \A g \in Handler \ {h} :
         task[g].event = task[h].event => task[g].at \notin {"entered", "checked"}

\* Variant: the event is entered by a transaction of its own.
EnterAlone(h) ==
    /\ CanEnter(h)
    /\ IF task[h].event \in processed
       THEN Moves(h, "complete") /\ UNCHANGED processed
       ELSE Moves(h, "entered") /\ processed' = processed \cup {task[h].event}
    /\ UNCHANGED <<Backend, facts, job, unsure>>

\* INSERT ... ON CONFLICT DO NOTHING; an event already processed is left.
EnterEvent(h) ==
    /\ CanEnter(h)
    /\ Moves(h, IF task[h].event \in processed THEN "complete" ELSE "entered")
    /\ UNCHANGED <<Backend, facts, processed, job, unsure>>

\* An epoch that differs rolls the transaction back.
CheckEpochs(h) ==
    /\ task[h].at = "entered"
    /\ Moves(h, IF Current(task[h].event, task[h].seen) THEN "checked" ELSE "complete")
    /\ UNCHANGED <<Backend, facts, processed, job, unsure>>

NewRow(h) == [post |-> task[h].event, seen |-> task[h].seen, live |-> TRUE]

Commits(h, written) ==
    /\ facts' = [f \in Fact |-> IF f \in written THEN NewRow(h) ELSE facts[f]]
    /\ processed' = processed \cup {task[h].event}
    /\ task' = [task EXCEPT ![h].at = IF written = {} THEN "complete" ELSE "recheck",
                            ![h].ids = written]
    /\ UNCHANGED <<Backend, job, unsure>>

\* Variant: ON CONFLICT DO UPDATE SET deleted_at = NULL.
CommitFactsAnew(h) ==
    /\ task[h].at = "checked"
    /\ \E hits \in SUBSET Hits[task[h].event] : Commits(h, Own[task[h].event] \cup hits)

\* The event and the facts become visible.  Which rules were hit is read from
\* the dossier, if it is still valid.  A key that exists is left as it is.
CommitFacts(h) ==
    /\ task[h].at = "checked"
    /\ \E hits \in SUBSET Hits[task[h].event] :
         Commits(h, {f \in Own[task[h].event] \cup hits : facts[f] = NULL})

\* Variant: no second comparison.
RecheckNothing(h) ==
    /\ task[h].at = "recheck"
    /\ Moves(h, "complete")
    /\ UNCHANGED <<Backend, facts, processed, job, unsure>>

\* _revoke_if_epochs_moved
Recheck(h) ==
    LET e == task[h].event
    IN  /\ task[h].at = "recheck"
        /\ facts' = IF Current(e, task[h].seen) THEN facts ELSE Without(task[h].ids)
        /\ unsure' = IF \E s \in ScopesOf[e] : withdrawal[s] = "open"
                     THEN unsure \cup {e} ELSE unsure
        /\ Moves(h, "complete")
        /\ UNCHANGED <<Backend, processed, job>>

\* The queue completes the job of its holder only.
CompleteJob(h) ==
    LET e == task[h].event
    IN  /\ task[h].at = "complete"
        /\ job' = [job EXCEPT ![e].done = @ \/ job[e].holder = h]
        /\ task' = [task EXCEPT ![h] = Idle]
        /\ UNCHANGED <<Backend, facts, processed, unsure>>

\* The handler ends at an await; a transaction that is open is rolled back.
CutOff(h) ==
    /\ task[h].at # "idle"
    /\ task' = [task EXCEPT ![h] = Idle]
    /\ unsure' = IF task[h].at = "recheck" THEN unsure \cup {task[h].event} ELSE unsure
    /\ UNCHANGED <<Backend, facts, processed, job>>

-----------------------------------------------------------------------------
(* The withdrawal of a scope by the backend (external).  It raises the     *)
(* epoch before database/sql/invalidate_scope.sql or in one transaction    *)
(* with it; an author's is taken to run the statements for all his posts.  *)

\* UPDATE ai.memory_facts of invalidate_scope.sql: the committed rows it sees.
RowsOf(s) == {f \in Fact : IsLive(f) /\ s \in ScopesOf[facts[f].post]}

BumpEpoch(s) ==
    /\ withdrawal[s] = "none" /\ epoch[s] < MaxEpoch
    /\ epoch' = [epoch EXCEPT ![s] = @ + 1]
    /\ withdrawal' = [withdrawal EXCEPT ![s] = "deleting"]
    /\ UNCHANGED <<hit, facts, processed, task, job, unsure>>

DeleteFacts(s) ==
    /\ withdrawal[s] = "deleting"
    /\ facts' = Without(RowsOf(s))
    /\ withdrawal' = [withdrawal EXCEPT ![s] = "none"]
    /\ UNCHANGED <<epoch, hit, processed, task, job, unsure>>

\* In one transaction: the UPDATE runs, and what it does is seen with the new
\* epoch when the transaction commits.
OpenWithdrawal(s) ==
    /\ withdrawal[s] = "none" /\ epoch[s] < MaxEpoch
    /\ withdrawal' = [withdrawal EXCEPT ![s] = "open"]
    /\ hit' = [hit EXCEPT ![s] = RowsOf(s)]
    /\ UNCHANGED <<epoch, facts, processed, task, job, unsure>>

CommitWithdrawal(s) ==
    /\ withdrawal[s] = "open"
    /\ epoch' = [epoch EXCEPT ![s] = @ + 1]
    /\ facts' = Without(hit[s])
    /\ withdrawal' = [withdrawal EXCEPT ![s] = "none"]
    /\ hit' = [hit EXCEPT ![s] = {}]
    /\ UNCHANGED <<processed, task, job, unsure>>

-----------------------------------------------------------------------------
Next ==
    \/ \E h \in Handler, e \in Event : Start(h, e)
    \/ \E h \in Handler :
         \/ Snapshot(h) \/ EnterEvent(h) \/ CheckEpochs(h) \/ CommitFacts(h)
         \/ Recheck(h) \/ CompleteJob(h) \/ CutOff(h)
    \/ \E s \in Scope :
         BumpEpoch(s) \/ DeleteFacts(s) \/ OpenWithdrawal(s) \/ CommitWithdrawal(s)

Spec == Init /\ [][Next]_vars

-----------------------------------------------------------------------------
(* Properties.                                                             *)

\* A row that may still be read although its evidence has been withdrawn.
Revived(f) == IsLive(f) /\ ~Current(facts[f].post, facts[f].seen)

\* Somebody is still going to delete it.
BeingDeleted(f) ==
    \/ \E h \in Handler : task[h].at = "recheck" /\ f \in task[h].ids
    \/ \E s \in ScopesOf[facts[f].post] : withdrawal[s] = "deleting"

\* Whatever order the handlers and the withdrawals take, a withdrawn fact is
\* deleted or about to be, but for two gaps: the second comparison was cut off
\* after the commit, or it fell into a withdrawal not yet committed.
WithdrawnIsForgotten ==
    \A f \in Fact : Revived(f) => BeingDeleted(f) \/ facts[f].post \in unsure

\* Docs 04 section 3.5 and _revoke_if_epochs_moved: no late retain revives what
\* was deleted.
NoLateRevival == \A f \in Fact : Revived(f) => BeingDeleted(f)

\* A fact that was deleted is never live again: a retry, or another event with
\* the same key, does not bring it back.
DeletedForGood ==
    [][\A f \in Fact : facts[f] # NULL /\ ~IsLive(f) => ~IsLive(f)']_vars

\* A RETAIN job that is done has written its facts, unless there was nothing
\* to keep or its evidence was withdrawn: neither a handler cut off anywhere
\* nor two of them at once lose an event.
DoneIsKept ==
    \A e \in Event \ Empty :
        job[e].done /\ (\A s \in ScopesOf[e] : epoch[s] = 0)
            => e \in processed /\ \A f \in Own[e] : IsLive(f)
=============================================================================
