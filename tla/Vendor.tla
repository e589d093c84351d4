------------------------------- MODULE Vendor --------------------------------
(***************************************************************************)
(* One call after the other of a worker process: routed to an adapter      *)
(* (adapters/llm_router.py, openai_compat_llm.py), tried once more if the  *)
(* vendor asks for it (domain/retries.py), booked, and watched by the      *)
(* breaker (domain/vendor_health.py) and the alerts (telemetry/alerts.py). *)
(* Functions of a record: what the process remembers.                      *)
(*                                                                         *)
(* A reply is what the HTTP client comes back with; a completion has the   *)
(* usage the vendor charges for, and a finish that says what it is worth.  *)
(* Time is in seconds, money in micro-USD.  The privacy epochs before a    *)
(* call and its retry, the price list, the reservation and cancellation    *)
(* are LLMGateway's.                                                       *)
(***************************************************************************)
EXTENDS Integers, Sequences, SequencesExt, FiniteSetsExt, TLC

CONSTANTS
    RoleVendor,         \* ROLE_VENDOR: role |-> vendor
    DefaultModel,       \* vendor |-> model of the settings
    Keyed,              \* vendors with an API key, whose default models have adapters
    ModelAdapters,      \* other models with an adapter
    Price,              \* vendor |-> price of a token
    TicksPerMicro,      \* TICKS_PER_MICRO_USD
    DegradedThreshold, DegradedWindow,
    AlertWindow,        \* ALERT_WINDOW_SECONDS, also how long the queue must be old
    AgeLimit,           \* threshold_seconds of QueueAgeWatch
    CostLimit,          \* COST_ALERT_KRW_PER_DAY in micro-USD
    DayLength, Dawn,    \* seconds of a day, and the first second of a run
    Nil

-----------------------------------------------------------------------------
(* The adapters.                                                           *)

\* The adapter for a role: that of its vendor, or of the model asked for.
AdapterFor(role, model) ==
    LET vendor == RoleVendor[role]
    IN  IF model \in {Nil, DefaultModel[vendor]}
        THEN IF vendor \in Keyed THEN DefaultModel[vendor] ELSE Nil
        ELSE IF model \in ModelAdapters THEN model ELSE Nil

StatusKind(status) ==
    CASE status \in {401, 403} -> "AUTH"
      [] status \in 400..499 \ {401, 403} -> "SCHEMA"
      [] OTHER -> "SERVER"

\* A completion without usage has none of the tokens, and costs nothing.
Cost(vendor, usage) ==
    IF usage = Nil THEN 0
    ELSE IF usage.ticks # Nil THEN usage.ticks \div TicksPerMicro
    ELSE usage.tokens * Price[vendor]

Outcome(kind, cost, after) == [kind |-> kind, cost |-> cost, after |-> after]

\* Only a status says when to try again; a completion that is of no use is an
\* error that brings its cost.
StructuredCall(vendor, reply) ==
    LET costs(kind) == Outcome(kind, Cost(vendor, reply.usage), Nil)
    IN  CASE reply.kind = "timeout"       -> Outcome("TIMEOUT", Nil, Nil)
          [] reply.kind = "no_connection" -> Outcome("TRANSPORT", Nil, Nil)
          [] reply.kind = "broken"        -> Outcome("PARSE", Nil, Nil)
          [] reply.kind = "status" /\ reply.status = 429 -> Outcome("RATE_LIMIT", Nil, reply.after)
          [] reply.kind = "status" /\ reply.status # 429 ->
               LET kind == StatusKind(reply.status)
               IN  Outcome(kind, Nil, IF kind = "SERVER" THEN reply.after ELSE Nil)
          [] reply.kind = "completion" ->
               CASE reply.finish = "no_choices" -> costs("PARSE")
                 [] reply.finish = "refusal"    -> costs("REFUSAL")
                 [] reply.finish = "length"     -> costs("SCHEMA")
                 [] reply.finish = "no_object"  -> costs("PARSE")
                 [] reply.finish = "stop"       -> costs("OK")

\* RoleRoutedLLM: without an adapter nothing is sent; the gateway waits no
\* longer than the timeout.
Routed(call, reply, timeout) ==
    IF AdapterFor(call.role, call.model) = Nil THEN Outcome("TRANSPORT", Nil, Nil)
    ELSE IF reply.took >= timeout THEN Outcome("TIMEOUT", Nil, Nil)
    ELSE StructuredCall(RoleVendor[call.role], reply)

Took(call, reply, timeout) ==
    IF AdapterFor(call.role, call.model) = Nil THEN 0
    ELSE IF reply.took >= timeout THEN timeout ELSE reply.took

-----------------------------------------------------------------------------
(* domain/retries.py                                                       *)

Retryable == {"RATE_LIMIT", "SERVER"}

\* ledger_status
LedgerStatus(kind) == IF kind \in {"TIMEOUT", "TRANSPORT"} THEN "UNKNOWN" ELSE "FAILED"

RetryAllowed(kind, attempt) == kind \in Retryable /\ attempt = 1

\* How long to wait before the retry, or Nil; a Retry-After of a negative
\* number is none.
BackoffSeconds(kind, attempt, remaining, after, reserve) ==
    LET wait == IF after = Nil \/ after < 0 THEN 0 ELSE after
        budget == remaining - reserve
    IN  IF ~RetryAllowed(kind, attempt) \/ budget < 0 \/ wait > budget THEN Nil ELSE wait

-----------------------------------------------------------------------------
(* What a process remembers.                                               *)

\* "log", "raised" and "sent" are history: calls, alerts and messages.
Fresh == [now |-> Dawn, failures |-> [v \in DOMAIN Price |-> <<>>],
          spent |-> <<>>, alerted |-> {}, since |-> Nil,
          last |-> <<>>, suppressed |-> <<>>, log |-> <<>>, raised |-> <<>>, sent |-> <<>>]

Get(f, x, default) == IF x \in DOMAIN f THEN f[x] ELSE default
Set(f, x, value) == (x :> value) @@ f
Drop(f, x) == [y \in DOMAIN f \ {x} |-> f[y]]

\* VendorHealth: the last failures of a vendor since its last success.
RecordFailure(m, vendor, kind) ==
    IF kind \notin {"SERVER", "TRANSPORT"} THEN m
    ELSE LET times == Append(m.failures[vendor], m.now)
         IN  [m EXCEPT !.failures[vendor] =
                 IF Len(times) > DegradedThreshold THEN Tail(times) ELSE times]

\* Variant: a success does not end a row of failures.
NeverForgets(m, vendor) == m

RecordSuccess(m, vendor) == [m EXCEPT !.failures[vendor] = <<>>]

IsDegraded(m, vendor) ==
    LET times == m.failures[vendor]
    IN  /\ Len(times) = DegradedThreshold
        /\ m.now - Last(times) <= DegradedWindow
        /\ Last(times) - Head(times) <= DegradedWindow

\* AlertNotifier.notify: one message of a kind in a window, with the number
\* of those held back since the last.
Notify(m, kind) ==
    IF kind \in DOMAIN m.last /\ m.now - m.last[kind] < AlertWindow
    THEN [m EXCEPT !.suppressed = Set(@, kind, Get(@, kind, 0) + 1)]
    ELSE [m EXCEPT !.last = Set(@, kind, m.now),
                   !.suppressed = Drop(@, kind),
                   !.sent = Append(@, [kind |-> kind, at |-> m.now,
                                       suppressed |-> Get(m.suppressed, kind, 0)])]

Raise(m, kind) == Notify([m EXCEPT !.raised = Append(@, [kind |-> kind, at |-> m.now])], kind)

Today(m) == m.now \div DayLength

\* DailyCostTracker.check: a day is warned of once.
CheckCost(m) ==
    IF Today(m) \in m.alerted \/ Get(m.spent, Today(m), 0) < CostLimit THEN m
    ELSE Raise([m EXCEPT !.alerted = @ \cup {Today(m)}], "COST_PER_DAY")

\* track_cost: a cost nobody knows is not added, one of an evaluation run is
\* added to an account of its own, which is never checked.
TrackCost(m, cost) ==
    IF cost = Nil THEN m
    ELSE CheckCost([m EXCEPT !.spent = Set(@, Today(m), Get(@, Today(m), 0) + cost)])

\* QueueAgeWatch.observe, once in a round of the reaper; Nil is a queue
\* without a waiting job.
ObserveAge(m, age) ==
    IF age = Nil \/ age <= AgeLimit THEN [m EXCEPT !.since = Nil]
    ELSE LET since == IF m.since = Nil THEN m.now ELSE m.since
             watched == [m EXCEPT !.since = since]
         IN  IF m.now - since < AlertWindow THEN watched ELSE Raise(watched, "QUEUE_OLDEST_AGE")

-----------------------------------------------------------------------------
(* LLMGateway.scoped_call between reservation and close.                   *)

\* What _close books of a call; of one left UNKNOWN the reservation is held.
Charge(call, answer) ==
    CASE LedgerStatus(answer.kind) = "UNKNOWN" -> call.est
      [] answer.kind # "OK" /\ answer.cost = Nil -> 0
      [] answer.cost = Nil -> call.est
      [] OTHER -> answer.cost

CallRow(call, at, answers, ended, status, charge) ==
    [call |-> call, vendor |-> RoleVendor[call.role], at |-> at, answers |-> answers,
     ended |-> ended, status |-> status, charge |-> charge]

\* The row is closed, then the breaker and the account of the day are told.
Close(m, call, at, answers) ==
    LET answer == Last(answers).answer
        status == IF answer.kind = "OK" THEN "COMPLETE" ELSE LedgerStatus(answer.kind)
        logged == [m EXCEPT !.log =
                      Append(@, CallRow(call, at, answers, m.now, status, Charge(call, answer)))]
        told == IF answer.kind = "OK" THEN RecordSuccess(logged, RoleVendor[call.role]) ELSE logged
    IN  TrackCost(told, answer.cost)

\* One attempt: its answer, and the breaker told of a failure.
Attempt(m, call, reply, timeout) ==
    LET answer == Routed(call, reply, timeout)
        after == [m EXCEPT !.now = @ + Took(call, reply, timeout)]
    IN  [answer |-> answer,
         m |-> IF answer.kind = "OK" THEN after
               ELSE RecordFailure(after, RoleVendor[call.role], answer.kind)]

\* The retry has what is left of the time after the wait, and no more than the
\* first attempt; without any there is none.
ScopedCall(m, call) ==
    IF IsDegraded(m, RoleVendor[call.role])
    THEN [m EXCEPT !.log = Append(@, CallRow(call, m.now, <<>>, m.now, "DEGRADED", 0))]
    ELSE LET first == Attempt(m, call, call.replies[1], call.timeout)
             remaining == call.remaining - (first.m.now - m.now)
             wait == BackoffSeconds(first.answer.kind, 1, remaining, first.answer.after, call.reserve)
             one == [answer |-> first.answer, at |-> first.m.now]
             left == remaining - call.reserve - wait
             timeout == IF left < call.timeout THEN left ELSE call.timeout
             second == Attempt([first.m EXCEPT !.now = @ + wait], call, call.replies[2], timeout)
         IN  IF first.answer.kind = "OK" \/ wait = Nil THEN Close(first.m, call, m.now, <<one>>)
             ELSE IF timeout <= 0 THEN Close(first.m, call, m.now, <<one>>)
             ELSE Close(second.m, call, m.now,
                        <<one, [answer |-> second.answer, at |-> second.m.now]>>)

\* What happens to a process: some time passes, then a call, a look at the
\* queue, or a job that used up its retries.
Happens(m, event) ==
    LET later == [m EXCEPT !.now = @ + event.gap]
    IN  CASE event.kind = "call"      -> ScopedCall(later, event.call)
          [] event.kind = "age"       -> ObserveAge(later, event.age)
          [] event.kind = "exhausted" -> Raise(later, "RETRY_EXHAUSTED")

ProcessAfter(events) == FoldLeft(Happens, Fresh, events)
=============================================================================
