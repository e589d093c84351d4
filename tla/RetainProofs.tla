---------------------------- MODULE RetainProofs ----------------------------
(***************************************************************************)
(* What memory keeps and forgets, for any events, scopes, handlers and     *)
(* orders of commits, cancellations and withdrawals.                       *)
(*                                                                         *)
(* A live row is watched: its writer is still to compare the epochs, or    *)
(* the comparison is known to have been missed, or no withdrawal has       *)
(* passed the row by.                                                      *)
(***************************************************************************)
EXTENDS Retain, TLAPS

\* Nothing of the event's evidence is withdrawn.
Untouched(e) == \A s \in ScopesOf[e] : epoch[s] = 0

Settled(e) == e \in processed \/ e \in Empty \/ ~Untouched(e)

TaskOK(r) ==
    /\ r.at # "idle" => r.event \in Event
    /\ \A s \in Scope : r.seen[s] <= epoch[s]
    /\ r.at = "recheck" => r.event \in processed /\ r.ids \subseteq Own[r.event] \cup Hits[r.event]
    /\ r.at = "complete" => Settled(r.event)

ScopeOK(s) ==
    /\ withdrawal[s] = "deleting" => epoch[s] > 0
    /\ withdrawal[s] = "open" => epoch[s] < MaxEpoch
    /\ \A f \in hit[s] : facts[f] # NULL /\ s \in ScopesOf[facts[f].post]

\* The handler that wrote the row will compare its epochs again.
ToCompare(h, f) ==
    /\ task[h].at = "recheck" /\ f \in task[h].ids
    /\ task[h].event = facts[f].post /\ task[h].seen = facts[f].seen

\* Every withdrawal since has met the row or is going to.
NotPassedBy(f) ==
    \A s \in ScopesOf[facts[f].post] :
        /\ facts[f].seen[s] = epoch[s] \/ withdrawal[s] = "deleting"
        /\ withdrawal[s] = "open" => f \in hit[s]

Watched(f) ==
    \/ \E h \in Handler : ToCompare(h, f)
    \/ facts[f].post \in unsure
    \/ NotPassedBy(f)

FactOK(f) ==
    facts[f] # NULL =>
        /\ \A e \in Event : f \in Own[e] => facts[f].post = e
        /\ f \in Own[facts[f].post] /\ Untouched(facts[f].post) => facts[f].live
        /\ facts[f].live => Watched(f)

EventOK(e) ==
    /\ e \in processed => \A f \in Own[e] : facts[f] # NULL
    /\ job[e].done => Settled(e)

Inv ==
    /\ TypeOK
    /\ \A h \in Handler : TaskOK(task[h])
    /\ \A s \in Scope : ScopeOK(s)
    /\ \A f \in Fact : FactOK(f)
    /\ \A e \in Event : EventOK(e)

-----------------------------------------------------------------------------
LEMMA Constants ==
    /\ \A e \in Event : Own[e] \in SUBSET Fact /\ Hits[e] \in SUBSET Fact
                        /\ ScopesOf[e] \in SUBSET Scope
    /\ \A e, d \in Event : e # d => Own[e] \cap (Own[d] \cup Hits[d]) = {}
    /\ MaxEpoch \in Nat /\ Tries \in Nat /\ NULL \notin Event /\ NULL \notin FactRow
  BY RetainAssumption, NullAssumption

LEMMA IdleFits == Idle \in TaskState /\ Idle.at = "idle" /\ \A s \in Scope : Idle.seen[s] = 0
  BY Constants DEF Idle, TaskState, At

LEMMA RowFacts ==
    ASSUME Inv, NEW f \in Fact, facts[f] # NULL
    PROVE  /\ facts[f] \in FactRow /\ facts[f].post \in Event
           /\ facts[f].seen \in [Scope -> 0..MaxEpoch] /\ facts[f].live \in BOOLEAN
  BY DEF Inv, TypeOK, FactRow

LEMMA TaskFacts ==
    ASSUME Inv, NEW h \in Handler
    PROVE  /\ task[h] \in TaskState /\ TaskOK(task[h])
           /\ \A s \in Scope : task[h].seen[s] \in Nat /\ epoch[s] \in Nat
           /\ task[h].at # "idle" => task[h].event \in Event
                 /\ ScopesOf[task[h].event] \in SUBSET Scope
  BY Constants DEF Inv, TypeOK, TaskState, TaskOK

-----------------------------------------------------------------------------
(* Steps of one handler outside the transaction's commit and the second    *)
(* comparison.                                                             *)

LEMMA TaskSteps ==
    ASSUME Inv, NEW h \in Handler, NEW r \in TaskState, task' = [task EXCEPT ![h] = r],
           UNCHANGED <<Backend, facts, processed, unsure>>,
           task[h].at # "recheck", r.at # "recheck", TaskOK(r),
           job' \in [Event -> [holder : Handler \cup {NULL}, tries : 0..Tries, done : BOOLEAN]],
           \A e \in Event : job'[e].done => job[e].done \/ Settled(e)
    PROVE  Inv'
  <1>1. /\ task' \in [Handler -> TaskState] /\ task'[h] = r
        /\ \A g \in Handler \ {h} : task'[g] = task[g]
    BY DEF Inv, TypeOK
  <1>2. TypeOK'
    BY <1>1 DEF Inv, TypeOK, Backend
  <1>3. \A g \in Handler : TaskOK(task[g])'
    BY <1>1 DEF Inv, TaskOK, Settled, Untouched, Backend
  <1>4. \A s \in Scope : ScopeOK(s)'
    BY DEF Inv, ScopeOK, Backend
  <1>5. ASSUME NEW f \in Fact PROVE FactOK(f)'
    <2>1. Watched(f) => Watched(f)'
      <3>1. \A g \in Handler : ToCompare(g, f) => ToCompare(g, f)'
        BY <1>1 DEF ToCompare
      <3> QED
        BY <3>1 DEF Watched, NotPassedBy, Backend
    <2> QED
      BY <2>1 DEF Inv, FactOK, Untouched, Backend
  <1>6. \A e \in Event : EventOK(e)'
    BY DEF Inv, EventOK, Settled, Untouched, Backend
  <1> QED
    BY <1>2, <1>3, <1>4, <1>5, <1>6 DEF Inv

LEMMA MovesGoes ==
    ASSUME Inv, NEW h \in Handler, NEW at \in At, Moves(h, at),
           UNCHANGED <<Backend, facts, processed, job, unsure>>,
           task[h].at \notin {"idle", "recheck"}, at \notin {"idle", "recheck"},
           at = "complete" => Settled(task[h].event)
    PROVE  Inv'
  <1>1. PICK r : r = [task[h] EXCEPT !.at = at]
    OBVIOUS
  <1>2. /\ r \in TaskState /\ r.at = at /\ r.event = task[h].event
        /\ r.seen = task[h].seen /\ r.ids = task[h].ids
    BY <1>1, TaskFacts DEF TaskState
  <1>3. task' = [task EXCEPT ![h] = r]
    BY <1>1 DEF Moves, Inv, TypeOK
  <1>4. TaskOK(r)
    BY <1>2, TaskFacts DEF TaskOK
  <1> QED
    BY <1>2, <1>3, <1>4, TaskSteps DEF Inv, TypeOK

LEMMA StartGoes == ASSUME Inv, NEW h \in Handler, NEW e \in Event, Start(h, e) PROVE Inv'
  <1>1. PICK r : r = [Idle EXCEPT !.at = "snapshot", !.event = e]
    OBVIOUS
  <1>2. /\ r \in TaskState /\ r.at = "snapshot" /\ r.event = e
        /\ \A s \in Scope : r.seen[s] = 0
    BY <1>1, IdleFits DEF TaskState, At
  <1>3. TaskOK(r)
    BY <1>2, TaskFacts DEF TaskOK
  <1>4. task' = [task EXCEPT ![h] = r]
    BY <1>1 DEF Start
  <1>5. /\ job' \in [Event -> [holder : Handler \cup {NULL}, tries : 0..Tries, done : BOOLEAN]]
        /\ \A d \in Event : job'[d].done = job[d].done
    BY Constants DEF Start, Inv, TypeOK
  <1> QED
    BY <1>2, <1>3, <1>4, <1>5, TaskSteps DEF Start

LEMMA SnapshotGoes == ASSUME Inv, NEW h \in Handler, Snapshot(h) PROVE Inv'
  <1>1. task[h].at = "snapshot" /\ UNCHANGED <<Backend, facts, processed, job, unsure>>
    BY DEF Snapshot
  <1>2. CASE task' = [task EXCEPT ![h].at = "retain", ![h].seen = epoch]
    <2>1. PICK r : r = [task[h] EXCEPT !.at = "retain", !.seen = epoch]
      OBVIOUS
    <2>2. /\ r \in TaskState /\ r.at = "retain" /\ r.event = task[h].event /\ r.seen = epoch
      BY <2>1, TaskFacts DEF TaskState, At, Inv, TypeOK
    <2>3. task' = [task EXCEPT ![h] = r]
      BY <1>2, <2>1 DEF Inv, TypeOK
    <2>4. TaskOK(r)
      BY <1>1, <2>2, TaskFacts DEF TaskOK
    <2> QED
      BY <1>1, <2>2, <2>3, <2>4, TaskSteps DEF Inv, TypeOK
  <1>3. CASE /\ task[h].event \in Empty \/ \E s \in ScopesOf[task[h].event] : epoch[s] > 0
             /\ Moves(h, "complete")
    <2>1. Settled(task[h].event)
      BY <1>1, <1>3, TaskFacts DEF Settled, Untouched
    <2> QED
      BY <1>1, <1>3, <2>1, MovesGoes DEF At
  <1> QED
    BY <1>2, <1>3 DEF Snapshot

LEMMA EnterEventGoes == ASSUME Inv, NEW h \in Handler, EnterEvent(h) PROVE Inv'
  BY MovesGoes DEF EnterEvent, CanEnter, Settled, At

LEMMA CheckEpochsGoes == ASSUME Inv, NEW h \in Handler, CheckEpochs(h) PROVE Inv'
  <1>1. task[h].at = "entered" /\ UNCHANGED <<Backend, facts, processed, job, unsure>>
    BY DEF CheckEpochs
  <1>2. ~Current(task[h].event, task[h].seen) => Settled(task[h].event)
    BY <1>1, TaskFacts DEF Current, Settled, Untouched, TaskOK
  <1> QED
    BY <1>1, <1>2, MovesGoes DEF CheckEpochs, At

LEMMA CompleteJobGoes == ASSUME Inv, NEW h \in Handler, CompleteJob(h) PROVE Inv'
  <1>1. PICK e : e = task[h].event
    OBVIOUS
  <1>2. task[h].at = "complete" /\ e \in Event /\ Settled(e)
    BY <1>1, TaskFacts DEF CompleteJob, TaskOK
  <1>3. job' = [job EXCEPT ![e].done = job[e].done \/ job[e].holder = h]
    BY <1>1 DEF CompleteJob
  <1>4. (job[e].done \/ job[e].holder = h) \in BOOLEAN
    BY <1>2 DEF Inv, TypeOK
  <1>5. job' \in [Event -> [holder : Handler \cup {NULL}, tries : 0..Tries, done : BOOLEAN]]
    BY <1>2, <1>3, <1>4 DEF Inv, TypeOK
  <1>6. \A d \in Event \ {e} : job'[d] = job[d]
    BY <1>2, <1>3 DEF Inv, TypeOK
  <1>7. TaskOK(Idle)
    BY IdleFits, TaskFacts DEF TaskOK
  <1> QED
    BY <1>2, <1>5, <1>6, <1>7, IdleFits, TaskSteps DEF CompleteJob

LEMMA CutOffGoes == ASSUME Inv, NEW h \in Handler, CutOff(h) PROVE Inv'
  <1>1. /\ task[h].at # "idle" /\ task' = [task EXCEPT ![h] = Idle]
        /\ UNCHANGED <<Backend, facts, processed, job>>
    BY DEF CutOff
  <1>2. TaskOK(Idle)
    BY IdleFits, TaskFacts DEF TaskOK
  <1>3. CASE task[h].at # "recheck"
    BY <1>1, <1>2, <1>3, IdleFits, TaskSteps DEF CutOff, Inv, TypeOK
  <1>4. CASE task[h].at = "recheck"
    <2>1. PICK e \in Event : e = task[h].event
      BY <1>1, TaskFacts
    <2>2. unsure' = unsure \cup {e}
      BY <1>4, <2>1 DEF CutOff
    <2>3. /\ task' \in [Handler -> TaskState] /\ task'[h] = Idle
          /\ \A g \in Handler \ {h} : task'[g] = task[g]
      BY <1>1, IdleFits DEF Inv, TypeOK
    <2>4. TypeOK'
      BY <1>1, <2>2, <2>3 DEF Inv, TypeOK, Backend
    <2>5. \A g \in Handler : TaskOK(task[g])'
      BY <1>1, <1>2, <2>3 DEF Inv, TaskOK, Settled, Untouched, Backend
    <2>6. \A s \in Scope : ScopeOK(s)'
      BY <1>1 DEF Inv, ScopeOK, Backend
    <2>7. ASSUME NEW f \in Fact PROVE FactOK(f)'
      <3>1. ASSUME NEW g \in Handler, ToCompare(g, f) PROVE Watched(f)'
        <4>1. g = h => facts[f].post = e
          BY <2>1, <3>1 DEF ToCompare
        <4>2. g # h => ToCompare(g, f)'
          BY <1>1, <2>3, <3>1 DEF ToCompare
        <4> QED
          BY <1>1, <2>2, <4>1, <4>2 DEF Watched
      <3>2. facts[f].post \in unsure \/ NotPassedBy(f) => Watched(f)'
        BY <1>1, <2>2 DEF Watched, NotPassedBy, Backend
      <3>3. Watched(f) => Watched(f)'
        BY <3>1, <3>2 DEF Watched
      <3> QED
        BY <1>1, <3>3 DEF Inv, FactOK, Untouched, Backend
    <2>8. \A d \in Event : EventOK(d)'
      BY <1>1 DEF Inv, EventOK, Settled, Untouched, Backend
    <2> QED
      BY <2>4, <2>5, <2>6, <2>7, <2>8 DEF Inv
  <1> QED
    BY <1>3, <1>4

-----------------------------------------------------------------------------
(* The commit of the facts and the second comparison.                      *)

LEMMA CommitFactsGoes == ASSUME Inv, NEW h \in Handler, CommitFacts(h) PROVE Inv'
  <1>1. PICK e \in Event : e = task[h].event /\ task[h].at = "checked"
    BY TaskFacts DEF CommitFacts
  <1>2. PICK hits \in SUBSET Hits[e] :
          Commits(h, {f \in Own[e] \cup hits : facts[f] = NULL})
    BY <1>1 DEF CommitFacts
  <1>3. PICK written : written = {f \in Own[e] \cup hits : facts[f] = NULL}
    OBVIOUS
  <1>4. written \in SUBSET Fact /\ written \subseteq Own[e] \cup Hits[e]
    BY <1>2, <1>3, Constants
  <1>5. PICK row : row = NewRow(h)
    OBVIOUS
  <1>6. /\ row \in FactRow /\ row # NULL /\ row.post = e /\ row.seen = task[h].seen
        /\ row.live = TRUE
    <2>1. task[h].seen \in [Scope -> 0..MaxEpoch]
      BY TaskFacts DEF TaskState
    <2>2. row = [post |-> e, seen |-> task[h].seen, live |-> TRUE]
      BY <1>1, <1>5 DEF NewRow
    <2>3. row \in FactRow
      BY <2>1, <2>2 DEF FactRow
    <2> QED
      BY <2>2, <2>3, Constants
  <1>7. PICK r : r = [task[h] EXCEPT !.at = IF written = {} THEN "complete" ELSE "recheck",
                                    !.ids = written]
    OBVIOUS
  <1>8. /\ r \in TaskState /\ r.at = (IF written = {} THEN "complete" ELSE "recheck")
        /\ r.event = e /\ r.seen = task[h].seen /\ r.ids = written
    BY <1>1, <1>4, <1>7, TaskFacts DEF TaskState, At
  <1>9. /\ facts' = [f \in Fact |-> IF f \in written THEN row ELSE facts[f]]
        /\ processed' = processed \cup {e}
        /\ task' = [task EXCEPT ![h] = r]
        /\ UNCHANGED <<Backend, job, unsure>>
    BY <1>1, <1>2, <1>3, <1>5, <1>7 DEF Commits, Inv, TypeOK
  <1>10. /\ task' \in [Handler -> TaskState] /\ task'[h] = r
         /\ \A g \in Handler \ {h} : task'[g] = task[g]
    BY <1>8, <1>9 DEF Inv, TypeOK
  <1>11. facts' \in [Fact -> FactRow \cup {NULL}]
    BY <1>6, <1>9 DEF Inv, TypeOK
  <1>12. \A f \in Fact : /\ facts[f] # NULL => facts'[f] = facts[f]
                         /\ facts[f] = NULL => facts'[f] = IF f \in written THEN row ELSE NULL
    BY <1>3, <1>9
  <1>13. TypeOK'
    BY <1>9, <1>10, <1>11 DEF Inv, TypeOK, Backend
  <1>14. ASSUME NEW g \in Handler PROVE TaskOK(task[g])'
    <2>1. CASE g = h
      <3>1. \A s \in Scope : r.seen[s] <= epoch[s]
        BY <1>8, TaskFacts DEF TaskOK
      <3> QED
        BY <1>4, <1>8, <1>9, <1>10, <2>1, <3>1 DEF TaskOK, Settled, Backend
    <2>2. CASE g # h
      BY <1>9, <1>10, <2>2 DEF Inv, TaskOK, Settled, Untouched, Backend
    <2> QED
      BY <2>1, <2>2
  <1>15. ASSUME NEW s \in Scope PROVE ScopeOK(s)'
    <2>1. \A f \in hit[s] : f \in Fact /\ facts[f] # NULL
      BY DEF Inv, TypeOK, ScopeOK
    <2> QED
      BY <1>9, <1>12, <2>1 DEF Inv, ScopeOK, Backend
  <1>16. ASSUME NEW f \in Fact PROVE FactOK(f)'
    <2>1. CASE facts[f] # NULL
      <3>1. ASSUME NEW g \in Handler, ToCompare(g, f) PROVE ToCompare(g, f)'
        <4>1. g # h
          BY <1>1, <3>1 DEF ToCompare
        <4> QED
          BY <1>10, <1>12, <2>1, <3>1, <4>1 DEF ToCompare
      <3>2. Watched(f) => Watched(f)'
        BY <1>9, <1>12, <2>1, <3>1 DEF Watched, NotPassedBy, Backend
      <3> QED
        BY <1>9, <1>12, <2>1, <3>2 DEF Inv, FactOK, Untouched, Backend
    <2>2. CASE facts[f] = NULL /\ f \in written
      <3>1. facts'[f] = row
        BY <1>12, <2>2
      <3>2. ToCompare(h, f)'
        BY <1>6, <1>8, <1>10, <2>2, <3>1 DEF ToCompare
      <3>3. \A d \in Event : f \in Own[d] => d = e
        BY <1>4, <2>2, Constants
      <3> QED
        BY <1>6, <3>1, <3>2, <3>3 DEF FactOK, Watched
    <2>3. CASE facts[f] = NULL /\ f \notin written
      BY <1>12, <2>3 DEF FactOK
    <2> QED
      BY <2>1, <2>2, <2>3
  <1>17. ASSUME NEW d \in Event PROVE EventOK(d)'
    <2>1. \A f \in Own[e] : facts'[f] # NULL
      BY <1>3, <1>6, <1>12, Constants
    <2>2. d \in processed => \A f \in Own[d] : facts'[f] # NULL
      BY <1>12, Constants DEF Inv, EventOK
    <2> QED
      BY <1>9, <2>1, <2>2 DEF Inv, EventOK, Settled, Untouched, Backend
  <1> QED
    BY <1>13, <1>14, <1>15, <1>16, <1>17 DEF Inv

\* Rows are made dead, otherwise nothing is written.
LEMMA WithoutFacts ==
    ASSUME Inv, NEW fs, facts' = Without(fs), NEW f \in Fact
    PROVE  /\ facts'[f] \in FactRow \cup {NULL}
           /\ facts[f] = NULL <=> facts'[f] = NULL
           /\ facts[f] # NULL =>
                /\ facts'[f].post = facts[f].post /\ facts'[f].seen = facts[f].seen
                /\ facts'[f].live <=> facts[f].live /\ f \notin fs
  <1>1. CASE facts[f] = NULL
    BY <1>1 DEF Without
  <1>2. CASE facts[f] # NULL
    <2>1. facts[f] \in FactRow
      BY <1>2, RowFacts
    <2>2. facts'[f] = IF f \in fs THEN [facts[f] EXCEPT !.live = FALSE] ELSE facts[f]
      BY <1>2 DEF Without
    <2>3. CASE f \in fs
      <3>1. facts'[f] = [facts[f] EXCEPT !.live = FALSE]
        BY <2>2, <2>3
      <3>2. facts'[f] \in FactRow /\ facts'[f].live = FALSE
        BY <2>1, <3>1 DEF FactRow
      <3>3. facts'[f].post = facts[f].post /\ facts'[f].seen = facts[f].seen
        BY <2>1, <3>1 DEF FactRow
      <3> QED
        BY <1>2, <2>3, <3>2, <3>3, Constants
    <2>4. CASE f \notin fs
      BY <1>2, <2>1, <2>2, <2>4
    <2> QED
      BY <2>3, <2>4
  <1> QED
    BY <1>1, <1>2

LEMMA RecheckGoes == ASSUME Inv, NEW h \in Handler, Recheck(h) PROVE Inv'
  <1>1. PICK e \in Event : e = task[h].event /\ task[h].at = "recheck"
    BY TaskFacts DEF Recheck
  <1>2. PICK r : r = [task[h] EXCEPT !.at = "complete"]
    OBVIOUS
  <1>3. PICK fs : fs = IF Current(e, task[h].seen) THEN {} ELSE task[h].ids
    OBVIOUS
  <1>4. facts' = Without(fs)
    <2>1. facts = Without({})
      BY DEF Without, Inv, TypeOK
    <2> QED
      BY <1>1, <1>3, <2>1 DEF Recheck
  <1>5. /\ task' = [task EXCEPT ![h] = r]
        /\ unsure' = IF \E s \in ScopesOf[e] : withdrawal[s] = "open"
                     THEN unsure \cup {e} ELSE unsure
        /\ UNCHANGED <<Backend, processed, job>>
    BY <1>1, <1>2 DEF Recheck, Moves, Inv, TypeOK
  <1>6. /\ r \in TaskState /\ r.at = "complete" /\ r.event = e /\ r.seen = task[h].seen
    BY <1>1, <1>2, TaskFacts DEF TaskState, At
  <1>7. /\ task' \in [Handler -> TaskState] /\ task'[h] = r
        /\ \A g \in Handler \ {h} : task'[g] = task[g]
    BY <1>5, <1>6 DEF Inv, TypeOK
  <1>8. e \in processed /\ fs \subseteq task[h].ids /\ task[h].ids \subseteq Own[e] \cup Hits[e]
    BY <1>1, <1>3, TaskFacts DEF TaskOK
  <1>9. fs # {} => ~Untouched(e)
    <2>1. ~Current(e, task[h].seen) => ~Untouched(e)
      BY <1>1, TaskFacts DEF Current, Untouched, TaskOK
    <2> QED
      BY <1>3, <2>1
  <1>10. TypeOK'
    <2>1. facts' \in [Fact -> FactRow \cup {NULL}]
      <3>1. facts' = [f \in Fact |-> facts'[f]]
        BY <1>4 DEF Without
      <3> QED
        BY <1>4, <3>1, WithoutFacts
    <2> QED
      BY <1>5, <1>7, <2>1 DEF Inv, TypeOK, Backend
  <1>11. \A g \in Handler : TaskOK(task[g])'
    <2>1. \A s \in Scope : r.seen[s] <= epoch[s]
      BY <1>6, TaskFacts DEF TaskOK
    <2> QED
      BY <1>5, <1>6, <1>7, <1>8, <2>1 DEF Inv, TaskOK, Settled, Untouched, Backend
  <1>12. ASSUME NEW s \in Scope PROVE ScopeOK(s)'
    <2>1. \A f \in hit[s] : f \in Fact
      BY DEF Inv, TypeOK
    <2> QED
      BY <1>4, <1>5, <2>1, WithoutFacts DEF Inv, ScopeOK, Backend
  <1>13. ASSUME NEW f \in Fact PROVE FactOK(f)'
    <2> SUFFICES ASSUME facts[f] # NULL PROVE FactOK(f)'
      BY <1>4, WithoutFacts DEF FactOK
    <2>1. /\ facts'[f].post = facts[f].post /\ facts'[f].seen = facts[f].seen
          /\ facts'[f].live <=> facts[f].live /\ f \notin fs
          /\ FactOK(f) /\ facts[f].post \in Event
      BY <1>4, WithoutFacts, RowFacts DEF Inv
    <2>2. f \in Own[facts[f].post] /\ Untouched(facts[f].post) => f \notin fs
      BY <1>8, <1>9, <2>1, Constants
    <2>3. ASSUME facts'[f].live PROVE Watched(f)'
      <3>1. f \notin fs /\ Watched(f)
        BY <2>1, <2>3 DEF FactOK
      <3>2. ASSUME NEW g \in Handler, ToCompare(g, f), g # h PROVE ToCompare(g, f)'
        BY <1>7, <2>1, <3>2 DEF ToCompare
      <3>3. CASE ToCompare(h, f)
        <4>1. Current(e, task[h].seen) /\ facts[f].post = e /\ facts[f].seen = task[h].seen
          BY <1>1, <1>3, <3>1, <3>3 DEF ToCompare
        <4>2. CASE \E s \in ScopesOf[e] : withdrawal[s] = "open"
          BY <1>5, <2>1, <4>1, <4>2 DEF Watched
        <4>3. CASE ~\E s \in ScopesOf[e] : withdrawal[s] = "open"
          BY <1>5, <2>1, <4>1, <4>3 DEF Watched, NotPassedBy, Current, Backend
        <4> QED
          BY <4>2, <4>3
      <3>4. facts[f].post \in unsure \/ NotPassedBy(f) => Watched(f)'
        BY <1>5, <2>1 DEF Watched, NotPassedBy, Backend
      <3> QED
        BY <3>1, <3>2, <3>3, <3>4 DEF Watched
    <2> QED
      BY <1>5, <2>1, <2>2, <2>3 DEF FactOK, Untouched, Backend
  <1>14. ASSUME NEW d \in Event PROVE EventOK(d)'
    BY <1>4, <1>5, WithoutFacts, Constants DEF Inv, EventOK, Settled, Untouched, Backend
  <1> QED
    BY <1>10, <1>11, <1>12, <1>13, <1>14 DEF Inv
-----------------------------------------------------------------------------
(* Withdrawals.                                                            *)

LEMMA EpochGrows ==
    ASSUME Inv, NEW s \in Scope, epoch[s] < MaxEpoch, epoch' = [epoch EXCEPT ![s] = @ + 1]
    PROVE  /\ epoch' \in [Scope -> 0..MaxEpoch] /\ epoch'[s] = epoch[s] + 1 /\ epoch'[s] > 0
           /\ \A q \in Scope \ {s} : epoch'[q] = epoch[q]
           /\ \A q \in Scope : epoch[q] <= epoch'[q]
           /\ \A e \in Event : Untouched(e)' => Untouched(e) /\ s \notin ScopesOf[e]
  <1>1. epoch[s] \in 0..MaxEpoch /\ epoch \in [Scope -> 0..MaxEpoch] /\ MaxEpoch \in Nat
    BY Constants DEF Inv, TypeOK
  <1>2. /\ epoch' \in [Scope -> 0..MaxEpoch] /\ epoch'[s] = epoch[s] + 1 /\ epoch'[s] > 0
        /\ \A q \in Scope \ {s} : epoch'[q] = epoch[q]
    BY <1>1
  <1>3. \A q \in Scope : epoch[q] <= epoch'[q]
    BY <1>1, <1>2
  <1>4. \A e \in Event : Untouched(e)' => Untouched(e) /\ s \notin ScopesOf[e]
    BY <1>1, <1>2, Constants DEF Untouched
  <1> QED
    BY <1>2, <1>3, <1>4

\* The tasks and the events do not mind that epochs rise and rows die.
LEMMA WithdrawalSteps ==
    ASSUME Inv, UNCHANGED <<processed, task, job, unsure>>, TypeOK',
           \A q \in Scope : epoch[q] <= epoch'[q],
           \A e \in Event : Untouched(e)' => Untouched(e),
           \A f \in Fact : facts[f] # NULL => facts'[f] # NULL,
           \A q \in Scope : ScopeOK(q)', \A f \in Fact : FactOK(f)'
    PROVE  Inv'
  <1>1. \A e \in Event : Settled(e) => Settled(e)'
    BY DEF Settled
  <1>2. ASSUME NEW h \in Handler PROVE TaskOK(task[h])'
    <2>1. \A q \in Scope : task[h].seen[q] <= epoch'[q]
      <3>1. \A q \in Scope : epoch'[q] \in Nat
        BY Constants DEF TypeOK
      <3> QED
        BY <3>1, TaskFacts DEF TaskOK
    <2>2. task[h].at = "complete" => Settled(task[h].event)'
      BY <1>1, TaskFacts DEF TaskOK
    <2> QED
      BY <2>1, <2>2, TaskFacts DEF TaskOK, Settled, Untouched
  <1>3. \A e \in Event : EventOK(e)'
    BY <1>1, Constants DEF Inv, EventOK
  <1> QED
    BY <1>2, <1>3 DEF Inv

LEMMA BumpEpochGoes == ASSUME Inv, NEW s \in Scope, BumpEpoch(s) PROVE Inv'
  <1>1. /\ UNCHANGED <<hit, facts, processed, task, job, unsure>>
        /\ withdrawal[s] = "none" /\ withdrawal' = [withdrawal EXCEPT ![s] = "deleting"]
        /\ epoch[s] < MaxEpoch /\ epoch' = [epoch EXCEPT ![s] = @ + 1]
    BY DEF BumpEpoch
  <1>2. /\ withdrawal' \in [Scope -> {"none", "deleting", "open"}] /\ withdrawal'[s] = "deleting"
        /\ \A q \in Scope \ {s} : withdrawal'[q] = withdrawal[q]
    BY <1>1 DEF Inv, TypeOK
  <1>3. TypeOK'
    BY <1>1, <1>2, EpochGrows DEF Inv, TypeOK
  <1>4. \A q \in Scope : ScopeOK(q)'
    BY <1>1, <1>2, EpochGrows DEF Inv, ScopeOK
  <1>5. ASSUME NEW f \in Fact PROVE FactOK(f)'
    <2> SUFFICES ASSUME facts[f] # NULL PROVE FactOK(f)'
      BY <1>1 DEF FactOK
    <2>1. facts[f].post \in Event /\ ScopesOf[facts[f].post] \in SUBSET Scope /\ FactOK(f)
      BY RowFacts, Constants DEF Inv
    <2>2. \A h \in Handler : ToCompare(h, f) => ToCompare(h, f)'
      BY <1>1 DEF ToCompare
    <2>3. NotPassedBy(f) => NotPassedBy(f)'
      BY <1>1, <1>2, <2>1, EpochGrows DEF NotPassedBy
    <2> QED
      BY <1>1, <2>1, <2>2, <2>3, EpochGrows DEF FactOK, Watched
  <1> QED
    BY <1>1, <1>3, <1>4, <1>5, EpochGrows, WithdrawalSteps

LEMMA DeadRows ==
    ASSUME Inv, NEW fs, facts' = Without(fs)
    PROVE  /\ facts' \in [Fact -> FactRow \cup {NULL}]
           /\ \A f \in Fact : facts[f] # NULL => facts'[f] # NULL
  <1>1. facts' = [f \in Fact |-> facts'[f]]
    BY DEF Without
  <1> QED
    BY <1>1, WithoutFacts

LEMMA DeleteFactsGoes == ASSUME Inv, NEW s \in Scope, DeleteFacts(s) PROVE Inv'
  <1>1. /\ UNCHANGED <<epoch, hit, processed, task, job, unsure>>
        /\ facts' = Without(RowsOf(s)) /\ withdrawal[s] = "deleting"
        /\ withdrawal' = [withdrawal EXCEPT ![s] = "none"]
    BY DEF DeleteFacts
  <1>2. /\ withdrawal' \in [Scope -> {"none", "deleting", "open"}] /\ withdrawal'[s] = "none"
        /\ \A q \in Scope \ {s} : withdrawal'[q] = withdrawal[q]
    BY <1>1 DEF Inv, TypeOK
  <1>3. TypeOK'
    BY <1>1, <1>2, DeadRows DEF Inv, TypeOK
  <1>4. ASSUME NEW q \in Scope PROVE ScopeOK(q)'
    <2>1. \A f \in hit[q] : f \in Fact
      BY DEF Inv, TypeOK
    <2> QED
      BY <1>1, <1>2, <2>1, WithoutFacts DEF Inv, ScopeOK
  <1>5. ASSUME NEW f \in Fact PROVE FactOK(f)'
    <2> SUFFICES ASSUME facts[f] # NULL PROVE FactOK(f)'
      BY <1>1, WithoutFacts DEF FactOK
    <2>1. /\ facts[f].post \in Event /\ ScopesOf[facts[f].post] \in SUBSET Scope /\ FactOK(f)
          /\ facts'[f].post = facts[f].post /\ facts'[f].seen = facts[f].seen
          /\ facts'[f].live <=> facts[f].live /\ f \notin RowsOf(s)
      BY <1>1, RowFacts, WithoutFacts, Constants DEF Inv
    <2>2. facts'[f].live => s \notin ScopesOf[facts[f].post]
      BY <2>1 DEF RowsOf, IsLive
    <2>3. Untouched(facts[f].post) => f \notin RowsOf(s)
      BY <1>1, <2>1 DEF Untouched, RowsOf, Inv, ScopeOK
    <2>4. \A h \in Handler : ToCompare(h, f) => ToCompare(h, f)'
      BY <1>1, <2>1 DEF ToCompare
    <2>5. facts'[f].live /\ NotPassedBy(f) => NotPassedBy(f)'
      BY <1>1, <1>2, <2>1, <2>2 DEF NotPassedBy
    <2> QED
      BY <1>1, <2>1, <2>3, <2>4, <2>5 DEF FactOK, Watched, Untouched
  <1> QED
    BY <1>1, <1>3, <1>4, <1>5, TaskFacts, DeadRows, WithdrawalSteps DEF Untouched, Inv, TypeOK

LEMMA OpenWithdrawalGoes == ASSUME Inv, NEW s \in Scope, OpenWithdrawal(s) PROVE Inv'
  <1>1. /\ UNCHANGED <<epoch, facts, processed, task, job, unsure>>
        /\ withdrawal[s] = "none" /\ withdrawal' = [withdrawal EXCEPT ![s] = "open"]
        /\ hit' = [hit EXCEPT ![s] = RowsOf(s)]
    BY DEF OpenWithdrawal
  <1>2. /\ withdrawal' \in [Scope -> {"none", "deleting", "open"}] /\ withdrawal'[s] = "open"
        /\ \A q \in Scope \ {s} : withdrawal'[q] = withdrawal[q]
    BY <1>1 DEF Inv, TypeOK
  <1>3. /\ hit' \in [Scope -> SUBSET Fact] /\ hit'[s] = RowsOf(s)
        /\ \A q \in Scope \ {s} : hit'[q] = hit[q]
    BY <1>1 DEF Inv, TypeOK, RowsOf
  <1>4. TypeOK'
    BY <1>1, <1>2, <1>3 DEF Inv, TypeOK
  <1>5. \A q \in Scope : ScopeOK(q)'
    BY <1>1, <1>2, <1>3 DEF OpenWithdrawal, Inv, ScopeOK, RowsOf, IsLive
  <1>6. ASSUME NEW f \in Fact PROVE FactOK(f)'
    <2> SUFFICES ASSUME facts[f] # NULL PROVE FactOK(f)'
      BY <1>1 DEF FactOK
    <2>1. ScopesOf[facts[f].post] \in SUBSET Scope /\ FactOK(f)
      BY RowFacts, Constants DEF Inv
    <2>2. \A h \in Handler : ToCompare(h, f) => ToCompare(h, f)'
      BY <1>1 DEF ToCompare
    <2>3. facts[f].live /\ NotPassedBy(f) => NotPassedBy(f)'
      BY <1>1, <1>2, <1>3, <2>1 DEF NotPassedBy, RowsOf, IsLive
    <2> QED
      BY <1>1, <2>1, <2>2, <2>3 DEF FactOK, Watched, Untouched
  <1> QED
    BY <1>1, <1>4, <1>5, <1>6, TaskFacts, WithdrawalSteps DEF Untouched, Inv, TypeOK

LEMMA CommitWithdrawalGoes == ASSUME Inv, NEW s \in Scope, CommitWithdrawal(s) PROVE Inv'
  <1>1. /\ UNCHANGED <<processed, task, job, unsure>>
        /\ facts' = Without(hit[s]) /\ withdrawal[s] = "open"
        /\ epoch' = [epoch EXCEPT ![s] = @ + 1]
        /\ withdrawal' = [withdrawal EXCEPT ![s] = "none"] /\ hit' = [hit EXCEPT ![s] = {}]
        /\ epoch[s] < MaxEpoch
    BY DEF CommitWithdrawal, Inv, ScopeOK
  <1>2. /\ withdrawal' \in [Scope -> {"none", "deleting", "open"}] /\ withdrawal'[s] = "none"
        /\ \A q \in Scope \ {s} : withdrawal'[q] = withdrawal[q]
    BY <1>1 DEF Inv, TypeOK
  <1>3. /\ hit' \in [Scope -> SUBSET Fact] /\ hit'[s] = {}
        /\ \A q \in Scope \ {s} : hit'[q] = hit[q]
    BY <1>1 DEF Inv, TypeOK
  <1>4. TypeOK'
    BY <1>1, <1>2, <1>3, DeadRows, EpochGrows DEF Inv, TypeOK
  <1>5. ASSUME NEW q \in Scope PROVE ScopeOK(q)'
    <2>1. \A f \in hit[q] : f \in Fact
      BY DEF Inv, TypeOK
    <2> QED
      BY <1>1, <1>2, <1>3, <2>1, WithoutFacts, EpochGrows DEF Inv, ScopeOK
  <1>6. ASSUME NEW f \in Fact PROVE FactOK(f)'
    <2> SUFFICES ASSUME facts[f] # NULL PROVE FactOK(f)'
      BY <1>1, WithoutFacts DEF FactOK
    <2>1. /\ facts[f].post \in Event /\ ScopesOf[facts[f].post] \in SUBSET Scope /\ FactOK(f)
          /\ facts'[f].post = facts[f].post /\ facts'[f].seen = facts[f].seen
          /\ facts'[f].live <=> facts[f].live /\ f \notin hit[s]
      BY <1>1, RowFacts, WithoutFacts, Constants DEF Inv
    <2>2. Untouched(facts[f].post)' => Untouched(facts[f].post) /\ f \notin hit[s]
      BY <1>1, <2>1, EpochGrows DEF Inv, ScopeOK, Untouched
    <2>3. \A h \in Handler : ToCompare(h, f) => ToCompare(h, f)'
      BY <1>1, <2>1 DEF ToCompare
    <2>4. facts'[f].live /\ NotPassedBy(f) => NotPassedBy(f)'
      BY <1>1, <1>2, <1>3, <2>1, EpochGrows DEF NotPassedBy
    <2> QED
      BY <1>1, <2>1, <2>2, <2>3, <2>4 DEF FactOK, Watched, Untouched
  <1> QED
    BY <1>1, <1>4, <1>5, <1>6, DeadRows, EpochGrows, WithdrawalSteps
-----------------------------------------------------------------------------
(* The invariant, and what follows from it.                                *)

LEMMA InitInv == ASSUME Init PROVE Inv
  <1>1. TypeOK
    BY IdleFits, Constants DEF Init, TypeOK
  <1>2. \A h \in Handler : TaskOK(task[h])
    BY IdleFits DEF Init, TaskOK
  <1>3. \A s \in Scope : ScopeOK(s)
    BY DEF Init, ScopeOK
  <1>4. \A f \in Fact : FactOK(f)
    BY DEF Init, FactOK
  <1>5. \A e \in Event : EventOK(e)
    BY DEF Init, EventOK
  <1> QED
    BY <1>1, <1>2, <1>3, <1>4, <1>5 DEF Inv

LEMMA NextInv == ASSUME Inv, [Next]_vars PROVE Inv'
  <1>1. ASSUME NEW h \in Handler, NEW e \in Event, Start(h, e) PROVE Inv'
    BY <1>1, StartGoes
  <1>2. ASSUME NEW h \in Handler,
               \/ Snapshot(h) \/ EnterEvent(h) \/ CheckEpochs(h) \/ CommitFacts(h)
               \/ Recheck(h) \/ CompleteJob(h) \/ CutOff(h)
        PROVE  Inv'
    BY <1>2, SnapshotGoes, EnterEventGoes, CheckEpochsGoes, CommitFactsGoes, RecheckGoes,
       CompleteJobGoes, CutOffGoes
  <1>3. ASSUME NEW s \in Scope,
               BumpEpoch(s) \/ DeleteFacts(s) \/ OpenWithdrawal(s) \/ CommitWithdrawal(s)
        PROVE  Inv'
    BY <1>3, BumpEpochGoes, DeleteFactsGoes, OpenWithdrawalGoes, CommitWithdrawalGoes
  <1>4. CASE UNCHANGED vars
    BY <1>4 DEF vars, Inv, TypeOK, TaskOK, ScopeOK, FactOK, EventOK, Settled, Untouched,
       Watched, ToCompare, NotPassedBy
  <1> QED
    BY <1>1, <1>2, <1>3, <1>4 DEF Next

LEMMA Always == Spec => []Inv
  BY InitInv, NextInv, PTL DEF Spec

LEMMA InvForgets == ASSUME Inv PROVE WithdrawnIsForgotten
  <1> SUFFICES ASSUME NEW f \in Fact, Revived(f)
               PROVE  BeingDeleted(f) \/ facts[f].post \in unsure
    BY DEF WithdrawnIsForgotten
  <1>1. Watched(f)
    BY DEF Inv, FactOK, Revived, IsLive
  <1>2. (\E h \in Handler : ToCompare(h, f)) => BeingDeleted(f)
    BY DEF ToCompare, BeingDeleted
  <1>3. NotPassedBy(f) => BeingDeleted(f)
    BY DEF NotPassedBy, Revived, Current, BeingDeleted
  <1> QED
    BY <1>1, <1>2, <1>3 DEF Watched

LEMMA InvKeeps == ASSUME Inv PROVE DoneIsKept
  <1> SUFFICES ASSUME NEW e \in Event \ Empty, job[e].done, Untouched(e)
               PROVE  e \in processed /\ \A f \in Own[e] : IsLive(f)
    BY DEF DoneIsKept, Untouched
  <1>1. e \in processed
    BY DEF Inv, EventOK, Settled
  <1>2. ASSUME NEW f \in Own[e] PROVE IsLive(f)
    <2>1. f \in Fact /\ facts[f] # NULL
      BY <1>1, Constants DEF Inv, EventOK
    <2> QED
      BY <2>1 DEF Inv, FactOK, IsLive
  <1> QED
    BY <1>1, <1>2

-----------------------------------------------------------------------------
\* Rows, events, tasks and jobs keep their types, and no epoch passes its bound.
THEOREM RetainTypeCorrect == Spec => []TypeOK
  <1>1. Inv => TypeOK
    BY DEF Inv
  <1> QED
    BY <1>1, Always, PTL

\* A withdrawn fact is deleted or about to be, but for the two gaps of
\* _revoke_if_epochs_moved: a comparison cut off, or made while a withdrawal
\* was not committed yet.
THEOREM RetainForgets == Spec => []WithdrawnIsForgotten
  BY Always, InvForgets, PTL

\* A RETAIN job that is done has its event entered and its own facts live,
\* unless there was nothing to keep or its evidence was withdrawn.
THEOREM RetainKeeps == Spec => []DoneIsKept
  BY Always, InvKeeps, PTL

\* A fact that was deleted stays deleted: ON CONFLICT DO NOTHING leaves its row.
THEOREM RetainDeletesForGood == Spec => DeletedForGood
  <1>1. ASSUME Inv, [Next]_vars, NEW f \in Fact, facts[f] # NULL, ~IsLive(f)
        PROVE  ~IsLive(f)'
    <2>1. facts[f] \in FactRow /\ facts[f].live = FALSE
      BY <1>1, RowFacts DEF IsLive
    <2>2. ASSUME NEW fs, facts' = Without(fs) PROVE ~IsLive(f)'
      BY <1>1, <2>1, <2>2, WithoutFacts DEF IsLive
    <2>3. UNCHANGED facts => ~IsLive(f)'
      BY <1>1 DEF IsLive
    <2>4. ASSUME NEW h \in Handler, CommitFacts(h) PROVE ~IsLive(f)'
      <3>1. facts'[f] = facts[f]
        BY <1>1, <2>4 DEF CommitFacts, Commits
      <3> QED
        BY <1>1, <3>1 DEF IsLive
    <2>5. ASSUME NEW h \in Handler,
                 \/ \E e \in Event : Start(h, e)
                 \/ Snapshot(h) \/ EnterEvent(h) \/ CheckEpochs(h) \/ CompleteJob(h) \/ CutOff(h)
          PROVE  UNCHANGED facts
      BY <2>5 DEF Start, Snapshot, EnterEvent, CheckEpochs, CompleteJob, CutOff
    <2>6. ASSUME NEW h \in Handler, Recheck(h) PROVE ~IsLive(f)'
      BY <2>2, <2>3, <2>6 DEF Recheck
    <2>7. ASSUME NEW s \in Scope,
                 BumpEpoch(s) \/ DeleteFacts(s) \/ OpenWithdrawal(s) \/ CommitWithdrawal(s)
          PROVE  ~IsLive(f)'
      BY <2>2, <2>3, <2>7 DEF BumpEpoch, DeleteFacts, OpenWithdrawal, CommitWithdrawal
    <2>8. UNCHANGED vars => UNCHANGED facts
      BY DEF vars
    <2> QED
      BY <1>1, <2>3, <2>4, <2>5, <2>6, <2>7, <2>8 DEF Next
  <1>2. ASSUME Inv, [Next]_vars
        PROVE  [\A f \in Fact : facts[f] # NULL /\ ~IsLive(f) => ~IsLive(f)']_vars
    BY <1>1, <1>2
  <1> QED
    BY <1>2, Always, PTL DEF Spec, DeletedForGood
=============================================================================
