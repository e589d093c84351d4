# Verification of geoji-agent

TLA+ models of the AI worker of geoji (`src/src/geoji_ai`), TLC runs that check
them on small instances and TLAPS proofs for all instances. Paths below are
relative to `src/src/geoji_ai/` unless they start with `src/`. `PROJECT.json`
holds the exact correspondence: the source lines of every definition, the
hazards with the properties that cover them, and for every property a mutant of
the code that breaks it.

## 1. The system

A community posts a spending; a jury votes; when the vote closes, the worker
writes the verdict. The backend (another repository) owns posts, votes and
verdicts and inserts rows into `ai.jobs`; worker processes poll that table and
run a handler for each job. The handlers call language models through a gateway
that books every call in a ledger, and call the backend over HTTP.

| Component | State | Operations | Interacts by |
| --- | --- | --- | --- |
| Job queue (`adapters/postgres_jobs.py`) | rows of `ai.jobs`: status, attempts, owner, generation, lease, deadline | claim, heartbeat, complete, cancel, fail, release, reap; inserts and cancellations of the backend | one SQL statement for each operation, fenced by owner and generation |
| Worker process (`workers/main.py`, `dispatch.py`) | loop tasks of each slot, `_inflight`, shutdown flag | claim, run handler, settle, alert, shutdown | owned statements on the queue; cancels its tasks |
| Heartbeat (`workers/heartbeat.py`) | time of the last success | sleep, renew, cancel the handler | queue, handler task |
| Call ledger (`adapters/postgres_call_ledger.py`) | `ai.case_budgets`, `ai.llm_calls` | reserve, settle, fail, mark_unknown, sweep | transactions with row locks |
| LLM gateway (`application/llm_gateway.py`) | stored results (`ai.node_results`), shielded closes | scoped_call, remember | ledger, vendors, privacy epochs |
| Sentencing graph (`graphs/sentencing.py`) | the graph's state: dossier, sentence, drafts, repair count, judgements kept | thirteen nodes from begin_generation to finalize | gateway, backend, dossier store |
| Memory (`adapters/postgres_memory.py`, `application/retain_memory.py`) | `ai.memory_facts`, `ai.processed_memory_events` | retain, recall, revoke | against the backend's withdrawals, without a common lock |
| Withdrawal (`src/database/sql/invalidate_scope.sql`) | `ai.privacy_epochs`, deleted facts, dossiers, results | raise epoch, delete | runs in a transaction of the backend |
| Preparation graph and store (`graphs/preparation.py`, `adapters/postgres_preparation.py`) | dossiers, preps | gather, save, load valid | privacy epochs |
| Jury vote (`graphs/jury_vote.py`, `application/jury_vote_case.py`) | none of its own | snapshot, one model call with a repair, cast | backend, gateway |
| Intake (`graphs/intake.py`) | its stored result | one model call, a fallback on anything | API, gateway |
| Backend client (`adapters/backend_http.py`) | none | requests with one retry, answers to exceptions | backend |
| Vendors (`adapters/llm_router.py`, `openai_compat_llm.py`, `domain/vendor_health.py`) | last failures of each vendor | route, call, record, degraded? | gateway |
| Pure rules (`domain/`) | none | validation, aggregation, lexicon, visibility, ... | called by graphs |
| Alerts (`telemetry/alerts.py`) | costs of a day, last message of a kind | check, notify | gateway, worker |
| Metrics, API, configuration, migrations, CLI | metrics, settings | observation and start-up | none of them changes a job |

What is hard, and what makes each part correct:

- **Queue**: workers that lost their lease and write late; attempts counted in
  three statements; deadlines; crashes. Correct: one holder at a time, only the
  last claim writes, closed is closed, a QUEUED row can be claimed.
- **Worker**: cancellation at any await, shutdown racing handlers, heartbeats and
  the reaper. Correct: leases go back, alerts are true, everything stops.
- **Heartbeat**: the time between a renewal, its reply and the next failure.
  Correct: overrun of the lease is bounded; heartbeats that are slow but answered
  renew in time, given that the claim was answered within an interval.
- **Ledger**: transactions crossing each other, processes that die between
  reservation and bill, different images with different caps. Correct: budgets
  equal the sum of their calls, the cap holds, nothing leaks, no deadlock.
- **Gateway**: cancellation, lost replies, retries, withdrawal while a call runs.
  Correct: each row closed once, uncertain calls never free, nothing stale reused.
- **Sentencing**: repairs from four nodes with one count, judgements kept over a
  repair, templates, deadlines. Correct: what is saved is what was judged, whole.
- **Memory and privacy**: redelivery, cut-off handlers, withdrawals in between.
  Correct: withdrawn is forgotten, done is kept, deleted is deleted for good.
- **Preparation**: a dossier saved while its evidence is withdrawn, runs of one
  key at once. Correct: what a sentencing run is given fits the dossier beside it
  and names nothing withdrawn; completed rows do not change.
- **Case**: lost replies, requests that arrive after their sender is gone, later
  claims, the watchdog. Correct: what stands stays, only the last generation
  writes, and a job that is done has decided or voted.
- **Rules**: chains of corrections on texts, reports, numerals, evidence. Correct:
  each keeps what its callers rely on, said without its steps.
- **Vendors and alerts**: retries, costs of answers of no use, windows of time.
  Correct: ledger, breaker and alerts agree with the replies.

## 2. Modules

```
QueueContract <--implemented by-- JobQueue <--extended by-- Worker
                                                               |
                                                          WorkerProofs
Heartbeat -- WorkerProofs         (the timing Worker leaves open)
CallLedger <--implemented by-- LedgerTx -- LedgerProofs
     ^---------extended by---- LLMGateway
                                  (GatewayProofs over LLMGateway)
Retain -- RetainProofs            (memory against withdrawals)
Preparation -- PreparationProofs  (dossiers against withdrawals and new versions)
Sentencing -- SentencingProofs    (one run of graph C)
Case -- CaseProofs                (all jobs of a case against the backend)
TextRules Report Intake Amounts Evidence Recall Vendor   (functions)
     ^   ^-----extended by---- Rules -- RulesProofs      (the questions asked of them)
  Filters                                                (what a filter leaves of a list)
MCJobQueue MCWorker MCLedgerTx MCLLMGateway MCRetain MCPreparation
MCSentencing MCCase MCRules                              (instances)
```

**QueueContract** is what callers may rely on: each job is none, waiting, held or
closed, has attempts left, a holder and a last writer. **JobQueue** has one action
for each SQL statement of `postgres_jobs.py` and for each write of the backend.
A claim hands out a ticket (job, worker, generation); tickets of lost leases stay
and their writes come late. Time is a count of ticks in `lease`, `available` and
`deadline`, relative to now (`Tick` ages every row). `JobView` maps the rows to the
contract.

**Worker** extends JobQueue: loops, `_inflight` by job id, the phases of shutdown.
Each step of a process contains at most one statement, so that `UsesQueue == Spec`
says the processes implement JobQueue. A handler is reduced to the statement by
which it settles its job (`settle_backend_error` and the direct settles), to
raising, and to being cancelled. A statement whose reply is lost has its effect.
`excused` is history: the claims whose row nobody in their process will hand back,
because one of the things listed at `Excuses` went wrong.

**Heartbeat** models one claim, its handler and the handler's `_beat` loop with their
clock: the reply to the claim, which is awaited without a timeout (`ClaimWaits`, at most
`MaxLate`), sleep, call with timeout, elapsed time, the rule
`elapsed + interval_s < lease_s`. The lease runs from the claim's statement, the heartbeat
from its reply, and `late` is the time between.

**CallLedger** is the promise of `LedgerPort` with atomic operations; **LedgerTx**
the statements under READ COMMITTED with locks, held until commit, and roll-backs
at any point. **LLMGateway** uses the operations of CallLedger, so that what
LedgerTx is shown to implement is what the gateway is checked over. A task may come to
stand at a statement that is never answered (`Hangs`), because neither the engine nor the
gateway bounds one; only the vendor's call has a timeout.

**Retain** has a handler's steps from snapshot to second comparison and the
backend's withdrawal as a transaction of two statements. The withdrawal of an
author raises the author's epoch and runs the SQL for all his posts. An event whose
snapshot gives nothing to keep may be named in `Empty` (none in the run).

**Sentencing** has one action for each node of the graph; edges are the node to
run next (`at`). A text is its source, the pass that wrote it and whether
`apply_text_rules` accepts it; the rules are a function of the text. A report is
what `validate_evaluation` tells apart: each text passed, failed or was left out,
the reason of the sentence failed, anything else is wrong. Answers about texts the
evaluator was not asked for are left out. `INITIAL` runs may get a fixed sentence,
because the code handles it. `deadline.remaining_s` is a class that may fall at any
time: 5 is more than 40.5 s (inline dossier), 4 more than 30.5 s (writer), 3 at
least 5 s (`REPAIR_MIN_REMAINING_S`), 2 more than 0.5 s (evaluator), 1 more than 0,
0 none. What the backend saved is `saved`; a lost reply of finalize is a run that
ends with or without it.

**Preparation** has the nodes of graph A as steps of several handlers over the rows
of the store: a lookup of two statements (`FindPrep`, `ReadPrep`), resolve, the
model's inferences, `save_prep` with its comparison of epochs and its
`ON CONFLICT DO NOTHING`, the other run's dossier when the row was taken
(`FindSaved`), candidates for what was not copied, `save_banter`. The backend changes
the audience (a new version of the event), withdraws sources and cleans up after
that, at once or later. Scopes are computed as in the code; the text of evidence is
its sources.

**Case** has the jobs of one case, their handlers by generation, the requests under
way and the backend. A request sent is a copy in `net` that may arrive at any time,
twice, or never; its sender gets the answer if it still waits. The backend is the one
the repository tests against (`src/tests/fakes/backend_app.py`); where only its
contract says something it is open or marked. Handlers may be cut off at any point, reaped and
claimed again; without a vendor key `SentenceStubHandler` runs. The graph inside is
reduced to a draft or a failure, which is what module Sentencing says of it.

**TextRules** (`apply_text_rules`, `assemble`, `validate_writer_draft`), **Report** (the
merging and weighing of evaluator answers), **Intake** (a request from check to
answer, what the lax contract coerces after the corrections included: `Coerced`), **Amounts** (numerals), **Evidence** (pack, inferred facts, candidates,
angles, writer request), **Recall** (facts kept of verdicts and comments, deletions,
the two recalls and their merge) and **Vendor** (routing, replies, retries, booking,
breaker, alerts) are functions of their inputs. A line of text is its length, whether
an id stands in it and the words of the lexicon it has; a keyword is its stem and
length. **Filters** is a comprehension over a list as Python writes it, with what is left in
order. **Rules** asks one question at a time: each question is an input, each
property says what the answer must be like without the steps that compute it.

## 3. Runs

| Run | Shows | Bounds, and why they are enough |
| --- | --- | --- |
| `queue` | CHECKs, fencing, no stranded retry, implementation of QueueContract (which has finality and an attempt for every waiting job) | 2 workers (one claims every kind), a SENTENCE and a RETAIN job with 2 attempts, 3 generations (a holder, a late one and one more), lease 2, deadline 4. Jobs never meet in a statement; the proof removes the bounds |
| `worker` | leases returned at shutdown but for excused claims, true alerts, the queue used as allowed, lost handlers stop, shutdown ends, abandoned jobs are reaped | 2 processes of one loop, 1 job of 2 attempts: a holder, a successor in the other process and a late statement |
| `worker_siblings` | violated: sibling loops and `_inflight` | 1 process of 2 loops, 3 generations |
| `heartbeat` | heartbeats that are answered, however slowly, renew within 3 intervals, or 2 and the claim's delay; overrun below 2 intervals, or one and that delay | the defaults 5 and 15, second by second, claims answered up to 20 s late: after the lease is over; proved for all |
| `ledger` | sums agree, no circle of waits, LedgerPort's promise, no leak | 2 sessions with caps 1 and 2 and a sweeper, 2 calls of one budget and one slot: every pair of transactions meets on every lock |
| `gateway` | closed once, uncertain is not free, reuse is current, calls end or stand at an unanswered statement | 2 tasks, 2 calls of one key, one withdrawal: a writer and a reader of a result, with each await cut off |
| `retain` | withdrawn is forgotten but for two gaps, done is kept, deleted for good | 2 events of one author sharing a rule, 2 handlers, 2 tries, one withdrawal of each scope |
| `retain_late` | violated: no late revival | the same |
| `sentencing` | saved is judged, saved is sound, calls are distinct | 2 intensities of which one has an evaluator of its own, 1 repair, 3 rounds (the defaults); a third intensity would meet the others as the second does |
| `preparation` | what is served fits its dossier and names nothing withdrawn but for one gap, a run works on its row, completed is final | 2 handlers, 3 runs, 3 versions of the audience (the intensities change, then a room is added), a covered and an uncovered source: one run stores, one meets it, one reuses both |
| `case` | done is decided, done has voted, what stands stays, saved once by the last | 2 claims of one SENTENCE job and its TEXT_RETRY, or of two JURY_VOTE jobs, every copy of every request late or twice |
| `rules` | see below | 820 000 questions, lengths on either side of each limit, up to three texts, entries or calls and five tokens or looks at the queue |

`rules` has six properties. *RulesKeepWhatIsSound*: text rules lose no sound sentence,
accept only sound texts of permitted size and are idempotent. *AssembledIsFit*: what
is assembled can be shown, with at least one AI text. *ReportsAreWeighed*: what a report
decides depends on the answers about each text, not on their order or split.
*IntakeAlwaysAnswers*: every accepted request gets an answer of the contract, which says
what request, rules and model have said, but for two exceptions (below). *ClaimsAreGrounded*: numerals are read as said (`AmountsAreRead`), repeats are
counted as the rule counts them (`RepeatsAreCounted`), and what a model is offered has its
ground in what was resolved, of a scope all rooms may see (`EvidenceIsGrounded`).
*RecordsAreTrue*: the ledger's rows, the breaker and the alerts of a process agree with the
replies it got (`AccountsAgree`), and recall brings up only what is the author's, undeleted
and ranked as it says (`RecallIsScoped`).

Deadlock is checked where the system never stops (`queue`, `worker` and
`worker_siblings`, in which time always passes) and switched off where it may: calls
and epochs are bounded in `ledger`, `gateway` and `retain`, handlers, graphs and runs
end in `heartbeat`, `sentencing`, `preparation` and `case`, and in `rules` a question is
asked once.

### Bounds by name

`Gen` (generations issued), `Tries`/`MaxAttempts` (2 instead of RETAIN's 5),
`MaxEpoch` (withdrawals of a scope), `CallId` (calls), `Charge` (costs booked: none or the
reserved amount, as the properties tell only 0 from the rest), `MaxLate` (the delay of a claim's reply: 20 s, more than the lease), `LeaseS` and
`DeadlineAfter` (15 s and 90 s scaled to 2 and 4, or 1), `RepairMax` and
`EvalRounds` (the code's own), `Versions` and `Runs` (events and handlers' runs in
Preparation), `MaxGen`, `Repairs` and `Rounds` (claims, repairs of the juror and TEXT_RETRY
rounds in Case), and the sets of inputs in MCRules, with the code's own limits of texts.
Symmetry is used for generations, handlers and dossiers in the runs without liveness; no definition tells their members apart.

### Fairness

- Worker: the event loop runs tasks that can run, so the detection of a lost lease,
  cancellations, the shutdown timer and the walk over `_inflight` are weakly fair.
  Handlers need never end, nobody need ask for a stop, kills are unfair. Time and
  the reaper (the backend's scheduler, `--reaper` in development) run for ever.
- Ledger: a transaction goes on (weak) and locks are granted in turn (strong);
  `ledger-sweep` is run again and again, finds each call that stays open old
  enough, and from some time on is not cut off. NoLeak needs all of these: nothing in
  the code but the sweep frees the reservation of a process that died.
- Gateway: the event loop resumes a task whose await has returned, and `wait_for` bounds the
  vendor's call. Nothing bounds the statements: the engine sets no `command_timeout`, and
  the epoch check, the lookup, the reservation, the store and the closes have no timeout of
  their own. So each may stay unanswered, and `CallEnds` says that a call ends or stands at such
  a statement, from where a cancellation frees it. Closes nobody waits for need not run.
- Worker: the statements of the shutdown are answered. `release` (`workers/main.py:407`) has no
  timeout either; with one unanswered, `StopEnds` does not hold. This and the gateway's
  statements are listed as hazards.

## 4. Findings

Runs that expect a violation:

1. `worker_siblings`: `_inflight` is keyed by job id; the end of a handler that lost
   its job removes the entry of its sibling, and shutdown does not release it. In the trace
   the first handler's fail puts the row back, the sibling claims it, the first handler
   ends and pops the sibling's entry; shutdown cancels the sibling and releases nothing. With
   one loop to a slot this cannot happen (`StopReturnsLeases`, proved).
2. `retain_late`: a handler cut off between its commit and its second comparison
   leaves withdrawn facts live.

Observations, which the models contain and the properties allow for by name:

- Queue: `RELEASE_SQL` requeues a SENTENCE job whose deadline has passed, which the
  comment on `FAIL_SQL` says must not happen; the backend's watchdog decides the verdict.
- Heartbeat: the cancellation "ahead" of expiry of the docstring does not hold: how long
  failures are put up with is counted from the start of the handler, not from the claim. The
  overrun is below two intervals, or one and the delay of the claim's reply (`Overrun`,
  proved); a claim answered after more than an interval may lose its lease to answered heartbeats.
- Worker: a claim cut off before its handler started, or whose reply is lost, a fail or release
  that raises and a handler its heartbeat gave up leave the row RUNNING until the reaper, also
  after an orderly stop (`Excuses`).
- Preparation: a dossier that cites a source its snapshot has no scope of, inserted after
  that source's withdrawal was cleaned up, stays served (`adapters/postgres_preparation.py:250`,
  `late` in NoWithdrawnServed). A row stored for a reused dossier after the dossier was
  invalidated stays DOSSIER_READY, and the next run of its key ends in INVALIDATED.
  The two SELECTs of a lookup may see two states.
- Case: two JURY_VOTE jobs of one post in two rooms share one vote: the second is done
  with ALREADY_VOTED. A stub whose begin-generation is answered DEADLINE_EXCEEDED fails its
  job, though the watchdog has decided.
- Rules: opinions may cite labels the pack does not have (`validate_writer_draft`, which no
  graph calls, would object). A confidence above 100 with a known category makes the
  answer a fallback instead of being clamped. A suggested category that cannot be hashed
  raises TypeError (`graphs/intake.py:233`) and the route answers 500.
- Intake: an `injection_detected` of `"true"`, `"yes"` or 1 is not `is True`
  (`graphs/intake.py:226`), but `contracts/intake.py:77` then coerces it: the answer says that an
  injection was detected and keeps the model's status, PASS for instance, though
  `prompts/intake-v1.md:43` and `src/tests/unit/test_intake_graph.py:191` have it BLOCKED. A
  confidence given as a text is not recognised (`graphs/intake.py:243`) but coerced as
  well: a category sure enough to be a MISMATCH is suggested with status OK.
- Evidence: a fact a model infers as RULE_HIT from the case alone makes the angle on a
  rule offered. The writer is shown the facts of every scope (`_facts_view`,
  `graphs/sentencing.py:427`), only banter and angles go through the target's pack.
- Recall: the key of a RULE_HIT fact names neither post nor category, so a room keeps the
  row of the first case and its date, and loses it with that case. delete_user leaves RULE_HIT
  rows, which have no author. The rule against duplicates in filter_comments never
  applies, as comments are kept one at a time.
- Vendors: a completion without usage is booked at no cost. A call to a vendor without a
  key is TRANSPORT: its reservation is held until the sweep and counts for the breaker,
  though nothing was sent. The alert of a day's costs may be held back and only counted.

## 5. Proofs

Assumed are only the named ASSUMEs of the modules: the shapes of the constants,
checked by TLC in the runs.

**WorkerProofs** holds what is proved of the queue, of the processes and of the heartbeat.

*The queue*, for any jobs, workers, generations, limits and delays. The
invariant `IInv` is TypeOK, RowChecks, QueuedHasAttempt and OnlyTheHolderWrites,
strengthened by two facts: rows not inserted have spent no attempt, and RUNNING
rows were due (else the reaper might requeue for the future). It is taken apart
row by row (`Pointwise`, `RowInv`), since each statement changes one row, and each
statement has a lemma about its row. `Implements` maps each action to a step of
QueueContract or a stutter; `ClosedForGood` and `RetriesCanBeClaimed` are action
properties from the same lemmas.

*The processes.* `WorkersUseQueue` (each step of a process is a step of
JobQueue) carries all results on the queue over to them. AlertIsTrue
needs that the attempts a claim returned are the row's own for as long as the row
carries that claim (`Snapshot`), which needs that every claim a loop or an entry
holds is a ticket the queue still knows. `StopReturnsLeases` says of every row, not only of
those shutdown cut off, that it is given back unless its claim is excused. Its
invariant `EInv` accounts for each row a process holds: a loop has it, an entry of
`_inflight` has it, or it is excused (`Accounted`); an entry is that of the loop at work
(`EntryIsOwn`), a handler that has settled owns nothing (`SettledIsOver`), and a process that
has stopped has neither loops nor entries (`ExitIsEmpty`). Assumed is one loop to a process
(`OneLoop`), exactly what `worker_siblings` refutes when dropped.

*The heartbeat*, for every interval, every longer lease and every delay of the claim's reply:
what is left of the lease counted from the last success or from that reply (`Behind`), and how
long failures are put up with (`Patience`), bound the overrun; without failures `Renewed`
bounds the age of the renewal.

**LedgerProofs.** For any sessions, calls, keys and amounts, with transactions rolled
back anywhere. The invariant is `Inv == Rows /\ Transactions /\ BudgetsAgree`. BudgetsAgree
alone is not inductive: an UPDATE of a budget is right only if the call it closes is
still open, and an insert only if the room its SELECT found is still there. `Transactions`
says that every transaction holds the locks of what it read and is to write, and that no
two hold one lock, so what was read under a lock is still so at the write; `Rows` says
that the tables are well formed and that a call not closed has not been charged.
The amounts are sums over finite sets of calls, of which no induction can be had: that a
sum exists, is a number and changes with one call is shown by looking at a smallest set
for which it would not (`Smallest`). `PromiseKept` maps each commit to one step of
CallLedger: until then a transaction's writes are not seen. `OnlySweepsCircle` orders the
locks (a call, then its budget, then its slot): sessions that wait in a circle include two
sweeps, whose first statement meets rows in any order. `NoCircle` adds the hypothesis
`OneSweeper`, that sweeps do not overlap, which `src/docs/plans/10-backend-contract.md:350`
makes the scheduler's task.

**RulesProofs.** For any texts, limits, requests, answers, numerals and evidence; five of the
six promises of `Rules`. What is asked is of the kind its rule is for (`Asked`), and each promise follows
from that by what the functions compute. `IntakeAnswers` goes through the ends of
`run_intake`: refused, blocked by rule, no usable answer, an answer that asks back where it
may not, one that keeps the contract once it is coerced. `TextsAreSound` needs what a filter leaves of a
sequence (`SelectKeeps`) and that the sum of lengths exists and is a number (`SumsExist`),
again by a smallest prefix or subset for which it would not hold; with these a text that
was rebuilt has nothing more to lose (`RebuildTwice`), and one without an issue is sound
(`AcceptedIsSound`). `AssembledFits` is about cards, which have one sentence: of those, the
rules and the card contract together reject exactly what cannot be shown
(`RejectedIsUnfit`), a rejected text that was replaced is rejected again only if the
template itself cannot be shown (`ReplacedDrafts`), so `assemble` ends in one of four ways
after at most two turns (`AssembleEnds`), and its result, shown again, is the same
(`AllShown`). Assumed are `StatementMin = 1`, and that a card's limits are within a text's
(`TextAssumption`), as `contracts/writer.py` has them, and that no category is one of the
values that stand for none (`IntakeAssumption`).

`ReportsWeighed` follows the answers of a round from the model to the verdict: they are put
one after the other (`FlattenIs`), entries of one intensity are joined and no two of one are
left (`PlacesMerge`), what only advises is forgiven (`ForgivenIs`), and each target is judged
by all that was said of it. Assumed is that the targets are some of the three intensities,
each of them once (`ReportAssumption`); the limit of codes may be any.
`ClaimsGrounded` has three parts. `AmountsOnce`: the reader of numerals has rejected a prefix
exactly if it is not said as it should be; otherwise its state has the least unit of the open
section and of all (`Follows`), and is worth what is closed, what is open times the next large
unit, and a number that waits for its unit (`Valued`); assumed are positive units, none of
them both small and large (`AmountsAssumption`). `RepeatsOnce`: what the backend says it
counts and the rule accepts is the set the rule counts. `EvidenceOnce`: each fact of the pack
has the scope its source came with (`PackScopes`), an inferred one the narrowest of those it
refers to, and where that is usable they all are (`NarrowestIs`); a fact that grounds an angle
is resolved, or said by a model (`GroundsAre`). A list the code sorts is inserted into, and
holds what it held (`LatestKeeps`).

**SentencingProofs.** For any intensities, limits, times and answers of models.
`SentencingTypeCorrect` bounds `repair_count` and `eval_round`; the invariant adds
that a repair is entered only below RepairMax, that no more rounds are used up than
passes of the texts allow (`RoundsUsed`), that the evaluator is given a text for
each intensity, and that from the writer on a sentence stands exactly where one is
due. `SentencingSavedIsJudged` needs two facts: what is kept from an earlier round
was passed beside the sentence that still stands (`KeptWasPassed`: a round in which
the reason failed keeps nothing), and a draft hash is taken only when every text was
passed or is kept (`HashIsJudged`).
`SentencingCallsAreDistinct` numbers the passes (`Numbered`): every writer's call made so
far lies below the pass at hand and every evaluator's below its round, each pass has slots
of its own, and both counts only grow. `SentencingSavedIsSound` needs that what the rules let
through is what the evaluator judges and finalize sends (`JudgedIsFit`).

**CaseProofs.** For any claims, repairs, rounds and requests lost, repeated or late.
What stands stays (`CaseStands`) because each handler of the backend compares before it
writes; that texts are saved once and by the last generation (`CaseSavedOnce`) needs the
order in which a handler sends: it reports a failure only when every finalize it has
sent was refused for a reason that lasts (`Dead`), so no copy still under way can commit
(`LiveIsLast`, `FailureIsLast`, `CommitIsLast`), and the active generation is the last
that began and has committed nothing (`Standing`).
`CaseDoneIsDecided` and `CaseDoneHasVoted` rest on what is so while a handler still owns its
row (`Stand`): if it has begun a sentence, its generation is active or the verdict is fixed,
and if it is to complete, it was told so. A handler told that it is stale has lost its
row, or the verdict was fixed meanwhile; the one other case, that a second generation is
active, needs two rows of the same sentence (`Rows`, `Active`). Each step is taken apart into
what becomes of the rows, of the verdict and votes, and of the handlers (`JobMoves`,
`VerdictMoves`, `RunMoves`), and `MovesAccount` puts them together. Assumed is that NULL is
neither a generation nor a verdict (`CaseAssumption`).

**PreparationProofs.** For any handlers, sources, rooms and versions. A dossier names the
rooms it was made for and the epochs it saw, and so does every row that points to it
(`DossierOK`, `RowOK`); no two runs hold the same unsaved dossier (`Alone`). A run may take
over another dossier than its row's only because its row is invalid, and a row once
invalid stays so (`Grows`): what such a run writes is never served. That an inferred
fact may be seen only by those who may see all it refers to is `NarrowestFits`, the
step `ServedBanterFits` rests on. Assumed is that no row is the constant NULL.

**RetainProofs.** For any events, scopes and handlers. A live row is `Watched`: its
writer is still to compare the epochs, or missed the comparison (`unsure`), or every
withdrawal since has met the row or is going to (`NotPassedBy`, which must say of an
open withdrawal that its UPDATE has seen the row). An event that is entered has all its
own facts, and they are live as long as nothing of its evidence is withdrawn, because
other events write none of them and only a moved epoch takes them back.

**GatewayProofs.** For any tasks, calls, cancellations, kills and sweeps. A call belongs to
one task from reservation to close (`Apart`); in flight nothing has been asked for it, and
whatever ends it asks once (`TaskOK`, `CallOK`). A call with an unanswered attempt has asked
for mark_unknown and nothing else, so only a sweep charges it, and a reservation is above 0
because all prices are (`GatewayAssumption`).

Only model-checked: `RecordsAreTrue`, which says what nested folds over calls, events and
facts compute, one on the result of the other; and the liveness properties
`LostHandlerStops`, `StopEnds`, `AbandonedIsReaped`, `CallEnds` and `NoLeak` (temporal
proofs under fairness are beyond the prover).

## 6. Not modelled

Left out: the wording of prompts and templates, the expressions of the lexicon (a line has
a set of words), HTTP connections, building adapters from the settings, metrics, logs
and traces, the internal API, configuration, migrations and the command line: they hold no
state a property relates or are pure input and output. `src/scripts` are tools of a developer.
Of modelled parts: which of several claimable jobs a claim picks, saving an inline
dossier, the approved banter examples, the metrics around graph C, and the amounts of
money in full (prices are small numbers).

## 7. Plan

1. **Privacy**: Retain, Preparation and the gateway's stored results under the same withdrawals,
   instead of one withdrawal in each module.
2. **Composition of Case and Sentencing**: the draft of a run of graph C as the body of
   its finalize, with the retry of a text over what a first generation saved.
3. **Overlapping calls** in Vendor, with the order in which answers are told to the breaker.
4. **Proofs**: the accounts of a process (`AccountsAgree`) and recall (`RecallIsScoped`), with
   the folds of Vendor and Recall written as functions on prefixes, as in Amounts and Report.
