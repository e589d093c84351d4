---------------------------- MODULE GatewayProofs ----------------------------
(***************************************************************************)
(* How the gateway books its calls, for any tasks, calls, cancellations,   *)
(* kills and sweeps.                                                       *)
(*                                                                         *)
(* A call belongs to one task from its reservation to its close.  While it *)
(* is in flight nothing has been asked for; whatever ends it asks once and *)
(* leaves, and a call of which an attempt went unanswered asks for         *)
(* mark_unknown, which charges nothing but what a sweep charges: the       *)
(* reserved amount.                                                        *)
(***************************************************************************)
EXTENDS LLMGateway, TLAPS

Flying == {"calling", "waiting"}
Holding == Flying \cup {"ending", "returned", "keep"}

TaskOK(r) ==
    /\ r.at \in Holding <=> r.call # NULL
    /\ r.call # NULL =>
         /\ calls[r.call] # NULL /\ r.call \notin unheard
         /\ asked[r.call] = IF r.at \in Flying THEN 0 ELSE 1
    /\ r.at # "idle" => r.hash \in Hash
    /\ r.began <= epoch /\ (r.at = "lookup" => r.began <= r.epoch)

\* Each call has one task.
Apart(t) == \A u \in Task \ {t} : task[u].call # NULL => task[u].call # task[t].call

CallOK(c) ==
    /\ calls[c] = NULL => asked[c] = 0 /\ c \notin uncertain \cup unheard
    /\ calls[c] # NULL /\ asked[c] = 0 => calls[c].charged # 0 /\ (c \in unheard \/ InFlight(c))
    /\ c \in uncertain => asked[c] = 1 /\ calls[c].charged # 0
    /\ \A action \in Action : <<c, action>> \in closing =>
         /\ asked[c] = 1
         /\ c \in uncertain => action = "mark_unknown"

Inv ==
    /\ GTypeOK
    /\ \A t \in Task : TaskOK(task[t]) /\ Apart(t)
    /\ \A c \in CallId : CallOK(c)

-----------------------------------------------------------------------------
LEMMA Constants ==
    /\ NULL \notin CallId /\ NULL \notin Call /\ NULL # 0 /\ 0 \notin Est
    /\ Est \subseteq Nat /\ Charge \subseteq Nat /\ Cap \subseteq Nat /\ MaxEpoch \in Nat
  BY GatewayAssumption

LEMMA IdleFits ==
    Idle \in TaskState /\ Idle.at = "idle" /\ Idle.call = NULL /\ Idle.began = 0
  BY Constants DEF Idle, TaskState, At

LEMMA TaskFacts ==
    ASSUME Inv, NEW t \in Task
    PROVE  /\ task[t] \in TaskState /\ TaskOK(task[t]) /\ Apart(t)
           /\ task[t].at \in Holding =>
                task[t].call \in CallId /\ calls[task[t].call] \in Call
  <1>1. task[t] \in TaskState /\ TaskOK(task[t]) /\ Apart(t)
    BY DEF Inv, GTypeOK
  <1>2. task[t].at \in Holding => task[t].call \in CallId /\ calls[task[t].call] # NULL
    BY <1>1 DEF TaskOK, TaskState
  <1> QED
    BY <1>1, <1>2 DEF Inv, GTypeOK

\* A call in flight: by its task, and by that one alone.
LEMMA FlyingFacts ==
    ASSUME Inv, NEW t \in Task, task[t].at \in Flying
    PROVE  /\ task[t].call \in CallId /\ calls[task[t].call] \in Call
           /\ calls[task[t].call] # NULL /\ asked[task[t].call] = 0
           /\ calls[task[t].call].charged # 0
           /\ task[t].call \notin uncertain \cup unheard
           /\ \A action \in Action : <<task[t].call, action>> \notin closing
           /\ \A u \in Task \ {t} : task[u].call # task[t].call
  <1>1. /\ task[t].call \in CallId /\ calls[task[t].call] \in Call
        /\ TaskOK(task[t]) /\ Apart(t) /\ task[t].call # NULL
    BY TaskFacts, Constants DEF Holding
  <1>2. CallOK(task[t].call)
    BY <1>1 DEF Inv
  <1>3. asked[task[t].call] = 0 /\ task[t].call \notin unheard /\ calls[task[t].call] # NULL
    BY <1>1 DEF TaskOK
  <1> QED
    BY <1>1, <1>2, <1>3 DEF CallOK, Apart

-----------------------------------------------------------------------------
(* Steps of a task that ask for nothing and leave the ledger alone.        *)

LEMMA QuietSteps ==
    ASSUME Inv, NEW t \in Task, NEW r \in TaskState, task' = [task EXCEPT ![t] = r],
           UNCHANGED <<Ledger, epoch, closing, History>>, results' \subseteq Result,
           r.call \in {task[t].call, NULL},
           task[t].at \in Flying => r.at \in Flying /\ r.call = task[t].call,
           TaskOK(r)
    PROVE  Inv'
  <1>1. /\ task' \in [Task -> TaskState] /\ task'[t] = r
        /\ \A u \in Task \ {t} : task'[u] = task[u]
    BY DEF Inv, GTypeOK
  <1>2. GTypeOK'
    BY <1>1 DEF Inv, GTypeOK, Ledger, History
  <1>3. \A u \in Task : TaskOK(task[u])'
    BY <1>1 DEF Inv, TaskOK, Ledger, History
  <1>4. \A u \in Task : Apart(u)'
    BY <1>1 DEF Inv, Apart
  <1>5. \A c \in CallId : InFlight(c) => InFlight(c)'
    BY <1>1 DEF InFlight, Flying
  <1>6. \A c \in CallId : CallOK(c)'
    BY <1>5 DEF Inv, CallOK, Ledger, History
  <1> QED
    BY <1>2, <1>3, <1>4, <1>6 DEF Inv

LEMMA MovesGoes ==
    ASSUME Inv, NEW t \in Task, NEW at \in At, Moves(t, at), task[t].at # "idle",
           UNCHANGED <<Ledger, epoch, closing, results, History>>,
           at \in Holding <=> task[t].at \in Holding,
           at \in Flying <=> task[t].at \in Flying,
           at = "lookup" => task[t].began <= task[t].epoch
    PROVE  Inv'
  <1>1. PICK r : r = [task[t] EXCEPT !.at = at]
    OBVIOUS
  <1>2. /\ r \in TaskState /\ r.at = at /\ r.call = task[t].call
        /\ r.began = task[t].began /\ r.epoch = task[t].epoch /\ r.hash = task[t].hash
    BY <1>1, TaskFacts DEF TaskState
  <1>3. task' = [task EXCEPT ![t] = r]
    BY <1>1 DEF Moves, Inv, GTypeOK
  <1>4. TaskOK(r)
    BY <1>2, TaskFacts DEF TaskOK
  <1> QED
    BY <1>2, <1>3, <1>4, QuietSteps DEF Inv, GTypeOK

LEMMA EndsGoes ==
    ASSUME Inv, NEW t \in Task, Ends(t), UNCHANGED <<Ledger, epoch, closing, History>>,
           results' \subseteq Result, task[t].at \notin Flying
    PROVE  Inv'
  <1>1. TaskOK(Idle)
    BY IdleFits DEF TaskOK, Holding, Flying, Inv, GTypeOK
  <1> QED
    BY <1>1, IdleFits, QuietSteps DEF Ends

LEMMA HangsGoes == ASSUME Inv, NEW t \in Task, Hangs(t) PROVE Inv'
  <1>1. PICK r : r = [task[t] EXCEPT !.hung = TRUE]
    OBVIOUS
  <1>2. /\ r \in TaskState /\ r.at = task[t].at /\ r.call = task[t].call
        /\ r.began = task[t].began /\ r.epoch = task[t].epoch /\ r.hash = task[t].hash
    BY <1>1, TaskFacts DEF TaskState
  <1>3. task' = [task EXCEPT ![t] = r]
    BY <1>1 DEF Hangs, Inv, GTypeOK
  <1>4. TaskOK(r)
    BY <1>2, TaskFacts DEF TaskOK
  <1> QED
    BY <1>2, <1>3, <1>4, QuietSteps DEF Hangs, Inv, GTypeOK

LEMMA BeforeGoes ==
    ASSUME Inv, NEW t \in Task,
           \/ Begin(t) \/ CheckEpoch(t) \/ Reuse(t) \/ Miss(t) \/ NoReservation(t)
    PROVE  Inv'
  <1>1. CASE Begin(t)
    <2>1. PICK e \in 0..epoch, h \in Hash : task' = [task EXCEPT ![t] = CaseScope(e, h)]
      BY <1>1 DEF Begin
    <2>2. PICK r : r = CaseScope(e, h)
      OBVIOUS
    <2>3. epoch \in 0..MaxEpoch /\ e \in 0..MaxEpoch
      BY Constants DEF Inv, GTypeOK
    <2>4. /\ r \in TaskState /\ r.at = "check" /\ r.call = NULL /\ r.began = epoch
          /\ r.hash = h
      BY <2>2, <2>3, IdleFits DEF CaseScope, TaskState, At
    <2>5. TaskOK(r)
      BY <2>3, <2>4 DEF TaskOK, Holding, Flying
    <2> QED
      BY <1>1, <2>1, <2>2, <2>4, <2>5, QuietSteps DEF Begin, Flying, Inv, GTypeOK
  <1>2. CASE CheckEpoch(t)
    <2>1. EpochCurrent(t) => task[t].began <= task[t].epoch
      BY TaskFacts DEF EpochCurrent, TaskOK
    <2> QED
      BY <1>2, <2>1, MovesGoes, EndsGoes DEF CheckEpoch, At, Holding, Flying, Inv, GTypeOK
  <1>3. CASE Reuse(t) \/ Miss(t) \/ NoReservation(t)
    BY <1>3, MovesGoes, EndsGoes
    DEF Reuse, Miss, NoReservation, At, Holding, Flying, Inv, GTypeOK
  <1> QED
    BY <1>1, <1>2, <1>3

LEMMA AfterGoes ==
    ASSUME Inv, NEW t \in Task, RetryLater(t) \/ CloseDone(t) \/ CheckAgain(t) \/ Put(t)
    PROVE  Inv'
  <1>1. CASE RetryLater(t)
    BY <1>1, MovesGoes DEF RetryLater, At, Holding, Flying
  <1>2. CASE CloseDone(t) \/ CheckAgain(t)
    BY <1>2, MovesGoes, EndsGoes
    DEF CloseDone, CheckAgain, At, Holding, Flying, Inv, GTypeOK
  <1>3. CASE Put(t)
    <2> SUFFICES results' \subseteq Result
      BY <1>3, EndsGoes DEF Put, Flying
    <2>1. task[t].call \in CallId /\ task[t].epoch \in 0..MaxEpoch /\ task[t].hash \in Hash
      BY <1>3, TaskFacts DEF Put, Holding, TaskState, TaskOK
    <2>2. PICK new : new = [call |-> task[t].call, hash |-> task[t].hash,
                            epoch |-> task[t].epoch, valid |-> TRUE]
      OBVIOUS
    <2>3. new \in Result
      BY <2>1, <2>2 DEF Result
    <2> QED
      BY <1>3, <2>2, <2>3 DEF Put, Inv, GTypeOK
  <1> QED
    BY <1>1, <1>2, <1>3
-----------------------------------------------------------------------------
(* The reservation.                                                        *)

LEMMA ReserveCallGoes == ASSUME Inv, NEW t \in Task, ReserveCall(t) PROVE Inv'
  <1>1. PICK c \in CallId, k \in Key, s \in Slot \cup {NULL}, e \in Est, x \in Cap :
          /\ FreshId(c)
          /\ Reserve(c, k, s, e, x)
          /\ \/ /\ task' = [task EXCEPT ![t].at = "calling", ![t].call = c, ![t].attempt = 1]
                /\ UNCHANGED unheard
             \/ Ends(t) /\ unheard' = unheard \cup {c}
    BY DEF ReserveCall
  <1>2. PICK row : row = [status |-> "RESERVED", key |-> k, slot |-> s, est |-> e, charged |-> NULL]
    OBVIOUS
  <1>3. row \in Call /\ row # NULL /\ row.charged = NULL
    BY <1>2, Constants DEF Call, CallStatus
  <1>4. /\ calls[c] = NULL /\ calls' = [calls EXCEPT ![c] = row]
        /\ cap' = [cap EXCEPT ![k] = Raised(k, x)]
        /\ UNCHANGED <<epoch, results, closing, asked, uncertain>>
        /\ task[t].at = "reserve"
    BY <1>1, <1>2 DEF Reserve, ReserveCall
  <1>5. /\ calls' \in [CallId -> Call \cup {NULL}] /\ calls'[c] = row
        /\ \A d \in CallId \ {c} : calls'[d] = calls[d]
    BY <1>3, <1>4 DEF Inv, GTypeOK
  <1>6. cap' \in [Key -> Nat]
    BY <1>4, Constants DEF Inv, GTypeOK, Raised
  <1>7. asked[c] = 0 /\ c \notin uncertain \cup unheard
    BY <1>4 DEF Inv, CallOK
  <1>8. \A u \in Task : task[u].call # c
    BY <1>4, TaskFacts, Constants DEF TaskOK
  <1>9. \A action \in Action : <<c, action>> \notin closing
    BY <1>7 DEF Inv, CallOK
  <1>10. PICK r \in TaskState :
           /\ task' = [task EXCEPT ![t] = r] /\ r.at \in {"idle", "calling"}
           /\ r.call = IF r.at = "idle" THEN NULL ELSE c
           /\ r.at # "idle" => r.hash \in Hash
           /\ r.began <= epoch
           /\ unheard' = IF r.at = "idle" THEN unheard \cup {c} ELSE unheard
    <2>1. CASE /\ task' = [task EXCEPT ![t].at = "calling", ![t].call = c, ![t].attempt = 1]
               /\ UNCHANGED unheard
      <3>1. PICK r : r = [task[t] EXCEPT !.at = "calling", !.call = c, !.attempt = 1]
        OBVIOUS
      <3>2. /\ r \in TaskState /\ r.at = "calling" /\ r.call = c /\ r.hash = task[t].hash
            /\ r.began = task[t].began
        <4>1. task[t] \in TaskState /\ "calling" \in At /\ 1 \in 0..2
          BY TaskFacts DEF At
        <4>2. r \in TaskState
          BY <3>1, <4>1 DEF TaskState
        <4> QED
          BY <3>1, <4>1, <4>2 DEF TaskState
      <3>3. task' = [task EXCEPT ![t] = r]
        BY <2>1, <3>1 DEF Inv, GTypeOK
      <3> QED
        BY <1>4, <2>1, <3>2, <3>3, TaskFacts DEF TaskOK
    <2>2. CASE Ends(t) /\ unheard' = unheard \cup {c}
      <3>1. task' = [task EXCEPT ![t] = Idle] /\ Idle.began <= epoch
        BY <2>2, IdleFits, Constants DEF Ends, Inv, GTypeOK
      <3> QED
        BY <2>2, <3>1, IdleFits
    <2> QED
      BY <1>1, <2>1, <2>2
  <1>11. /\ task' \in [Task -> TaskState] /\ task'[t] = r
         /\ \A u \in Task \ {t} : task'[u] = task[u]
    BY <1>10 DEF Inv, GTypeOK
  <1>12. GTypeOK'
    BY <1>4, <1>5, <1>6, <1>10, <1>11 DEF Inv, GTypeOK
  <1>13. ASSUME NEW u \in Task PROVE TaskOK(task[u])'
    <2>1. CASE u = t
      BY <1>3, <1>4, <1>5, <1>7, <1>10, <1>11, <2>1, Constants DEF TaskOK, Holding, Flying
    <2>2. CASE u # t
      <3>1. TaskOK(task[u]) /\ task[u].call # c /\ (task[u].call # NULL => task[u].call \in CallId)
        BY <1>8, TaskFacts DEF TaskState
      <3> QED
        BY <1>4, <1>5, <1>10, <1>11, <2>2, <3>1 DEF TaskOK
    <2> QED
      BY <2>1, <2>2
  <1>14. \A u \in Task : Apart(u)'
    BY <1>8, <1>10, <1>11 DEF Inv, Apart
  <1>15. ASSUME NEW d \in CallId PROVE CallOK(d)'
    <2>1. CASE d = c
      <3>1. c \in unheard' \/ InFlight(c)'
        BY <1>10, <1>11 DEF InFlight
      <3> QED
        BY <1>3, <1>4, <1>5, <1>7, <1>9, <2>1, <3>1, Constants DEF CallOK
    <2>2. CASE d # c
      <3>1. InFlight(d) => InFlight(d)'
        BY <1>4, <1>11 DEF InFlight
      <3> QED
        BY <1>4, <1>5, <1>10, <2>2, <3>1 DEF Inv, CallOK
    <2> QED
      BY <2>1, <2>2
  <1> QED
    BY <1>12, <1>13, <1>14, <1>15 DEF Inv

-----------------------------------------------------------------------------
(* Asking for the close.                                                   *)

LEMMA AskSteps ==
    ASSUME Inv, NEW t \in Task, task[t].at \in Flying, NEW action \in Action, NEW r \in TaskState,
           task' = [task EXCEPT ![t] = r], Asks(task[t].call, action),
           UNCHANGED <<Ledger, epoch, results, unheard>>,
           \/ UNCHANGED uncertain
           \/ action = "mark_unknown" /\ uncertain' = uncertain \cup {task[t].call},
           r.at \notin Flying, r.call \in {task[t].call, NULL}, r.call # NULL <=> r.at \in Holding,
           r.at # "idle" => r.hash \in Hash, r.began <= epoch, r.at # "lookup"
    PROVE  Inv'
  <1>1. PICK c : c = task[t].call
    OBVIOUS
  <1>2. /\ c \in CallId /\ calls[c] \in Call /\ calls[c] # NULL /\ asked[c] = 0
        /\ calls[c].charged # 0 /\ c \notin uncertain \cup unheard
        /\ \A a \in Action : <<c, a>> \notin closing
        /\ \A u \in Task \ {t} : task[u].call # c
    BY <1>1, FlyingFacts
  <1>3. /\ task' \in [Task -> TaskState] /\ task'[t] = r
        /\ \A u \in Task \ {t} : task'[u] = task[u]
    BY DEF Inv, GTypeOK
  <1>4. /\ closing' = closing \cup {<<c, action>>}
        /\ asked' \in [CallId -> 0..1] /\ asked'[c] = 1
        /\ \A d \in CallId \ {c} : asked'[d] = asked[d]
    BY <1>1, <1>2 DEF Asks, Inv, GTypeOK
  <1>5. GTypeOK'
    BY <1>1, <1>2, <1>3, <1>4 DEF Inv, GTypeOK, Ledger
  <1>6. ASSUME NEW u \in Task PROVE TaskOK(task[u])'
    <2>1. CASE u = t
      BY <1>1, <1>2, <1>3, <1>4, <2>1 DEF TaskOK, Ledger
    <2>2. CASE u # t
      <3>1. TaskOK(task[u]) /\ task[u].call # c /\ (task[u].call # NULL => task[u].call \in CallId)
        BY <1>2, <2>2, TaskFacts DEF TaskState
      <3> QED
        BY <1>3, <1>4, <2>2, <3>1 DEF TaskOK, Ledger
    <2> QED
      BY <2>1, <2>2
  <1>7. \A u \in Task : Apart(u)'
    BY <1>3 DEF Inv, Apart
  <1>8. ASSUME NEW d \in CallId PROVE CallOK(d)'
    <2>1. CASE d = c
      BY <1>1, <1>2, <1>4, <2>1 DEF CallOK, Ledger
    <2>2. CASE d # c
      <3>1. InFlight(d) => InFlight(d)'
        BY <1>1, <1>3, <2>2 DEF InFlight
      <3>2. \A a \in Action : <<d, a>> \in closing' <=> <<d, a>> \in closing
        BY <1>4, <2>2
      <3> QED
        BY <1>1, <1>4, <2>2, <3>1, <3>2 DEF Inv, CallOK, Ledger
    <2> QED
      BY <2>1, <2>2
  <1> QED
    BY <1>5, <1>6, <1>7, <1>8 DEF Inv

\* The answer, the refusal, the silence or the stale epoch that ends a call.
LEMMA EndingGoes ==
    ASSUME Inv, NEW t \in Task, task[t].at \in Flying, NEW action \in Action, NEW good \in BOOLEAN,
           task' = [task EXCEPT ![t].at = "ending", ![t].good = good],
           Asks(task[t].call, action), UNCHANGED <<Ledger, epoch, results, unheard>>,
           \/ UNCHANGED uncertain
           \/ action = "mark_unknown" /\ uncertain' = uncertain \cup {task[t].call}
    PROVE  Inv'
  <1>1. PICK r : r = [task[t] EXCEPT !.at = "ending", !.good = good]
    OBVIOUS
  <1>2. /\ r \in TaskState /\ r.at = "ending" /\ r.call = task[t].call /\ r.hash = task[t].hash
        /\ r.began = task[t].began
    BY <1>1, TaskFacts DEF TaskState, At
  <1>3. task' = [task EXCEPT ![t] = r]
    BY <1>1 DEF Inv, GTypeOK
  <1>4. r.call # NULL /\ r.hash \in Hash /\ r.began <= epoch
    BY <1>2, TaskFacts DEF TaskOK, Holding, Flying
  <1> QED
    BY <1>2, <1>3, <1>4, AskSteps DEF Holding, Flying

LEMMA AnswersGoes == ASSUME Inv, NEW t \in Task, Answers(t) PROVE Inv'
  BY EndingGoes DEF Answers, Flying, Action

\* Moves(t, "ending") leaves good as it is.
LEMMA MovesToEnding ==
    ASSUME Inv, NEW t \in Task, Moves(t, "ending")
    PROVE  \E good \in BOOLEAN : task' = [task EXCEPT ![t].at = "ending", ![t].good = good]
  <1>1. task[t].good \in BOOLEAN
    BY TaskFacts DEF TaskState
  <1>2. task' = [task EXCEPT ![t].at = "ending", ![t].good = task[t].good]
    BY TaskFacts DEF Moves, Inv, GTypeOK, TaskState
  <1> QED
    BY <1>1, <1>2

LEMMA UnansweredGoes == ASSUME Inv, NEW t \in Task, Refuses(t) \/ NoAnswer(t) PROVE Inv'
  BY MovesToEnding, EndingGoes DEF Refuses, NoAnswer, Flying, Action

LEMMA RetryGoes == ASSUME Inv, NEW t \in Task, Retry(t) PROVE Inv'
  <1>1. task[t].at = "waiting" /\ UNCHANGED <<Ledger, epoch, results, unheard, uncertain>>
    BY DEF Retry
  <1>2. CASE /\ task' = [task EXCEPT ![t].at = "calling", ![t].attempt = 2]
             /\ UNCHANGED <<closing, asked>>
    <2>1. PICK r : r = [task[t] EXCEPT !.at = "calling", !.attempt = 2]
      OBVIOUS
    <2>2. /\ r \in TaskState /\ r.at = "calling" /\ r.call = task[t].call
          /\ r.began = task[t].began /\ r.hash = task[t].hash
      <3>1. task[t] \in TaskState /\ "calling" \in At /\ 2 \in 0..2
        BY TaskFacts DEF At
      <3>2. r \in TaskState
        BY <2>1, <3>1 DEF TaskState
      <3> QED
        BY <2>1, <3>1, <3>2 DEF TaskState
    <2>3. task' = [task EXCEPT ![t] = r]
      BY <1>2, <2>1 DEF Inv, GTypeOK
    <2>4. TaskOK(r)
      BY <1>1, <2>2, TaskFacts DEF TaskOK, Holding, Flying
    <2> QED
      BY <1>1, <1>2, <2>2, <2>3, <2>4, QuietSteps DEF Flying, History, Inv, GTypeOK
  <1>3. CASE Moves(t, "ending") /\ Asks(task[t].call, "fail")
    BY <1>1, <1>3, MovesToEnding, EndingGoes DEF Flying, Action
  <1> QED
    BY <1>2, <1>3 DEF Retry

LEMMA CancelTaskGoes == ASSUME Inv, NEW t \in Task, CancelTask(t) PROVE Inv'
  <1>1. CASE task[t].at \in Flying
    <2>1. /\ task' = [task EXCEPT ![t].at = "ending", ![t].hung = FALSE]
          /\ Asks(task[t].call, "mark_unknown") /\ uncertain' = uncertain \cup {task[t].call}
          /\ UNCHANGED <<Ledger, epoch, results, unheard>>
      BY <1>1 DEF CancelTask, Aborts, Flying
    <2>2. PICK r : r = [task[t] EXCEPT !.at = "ending", !.hung = FALSE]
      OBVIOUS
    <2>3. /\ r \in TaskState /\ r.at = "ending" /\ r.call = task[t].call
          /\ r.hash = task[t].hash /\ r.began = task[t].began
      BY <2>2, TaskFacts DEF TaskState, At
    <2>4. task' = [task EXCEPT ![t] = r]
      BY <2>1, <2>2 DEF Inv, GTypeOK
    <2>5. r.call # NULL /\ r.hash \in Hash /\ r.began <= epoch
      BY <1>1, <2>3, TaskFacts DEF TaskOK, Holding, Flying
    <2>6. "mark_unknown" \in Action
      BY DEF Action
    <2> QED
      BY <1>1, <2>1, <2>3, <2>4, <2>5, <2>6, AskSteps DEF Holding, Flying
  <1>2. CASE task[t].at \notin Flying
    BY <1>2, EndsGoes DEF CancelTask, Flying, History, Inv, GTypeOK
  <1> QED
    BY <1>1, <1>2
-----------------------------------------------------------------------------
(* The ledger, the backend, the process.                                   *)

\* Calls are charged, and those that may not be free are not charged 0.
LEMMA LedgerSteps ==
    ASSUME Inv, UNCHANGED <<cap, epoch, results, task, History>>,
           calls' \in [CallId -> Call \cup {NULL}], closing' \subseteq closing,
           \A c \in CallId : calls'[c] = NULL <=> calls[c] = NULL,
           \A c \in CallId : calls[c] # NULL /\ calls[c].charged # 0 /\ calls'[c].charged = 0 =>
                               asked[c] = 1 /\ c \notin uncertain
    PROVE  Inv'
  <1>1. GTypeOK'
    BY DEF Inv, GTypeOK, History
  <1>2. ASSUME NEW t \in Task PROVE TaskOK(task[t])'
    <2>1. task[t].call # NULL => task[t].call \in CallId
      BY TaskFacts DEF TaskState
    <2> QED
      BY <2>1, TaskFacts DEF TaskOK, History
  <1>3. \A t \in Task : Apart(t)'
    BY DEF Inv, Apart
  <1>4. ASSUME NEW c \in CallId PROVE CallOK(c)'
    <2>1. InFlight(c)' <=> InFlight(c)
      BY DEF InFlight
    <2>2. CallOK(c)
      BY DEF Inv
    <2>3. c \in uncertain => calls[c] # NULL
      BY <2>2 DEF CallOK
    <2> QED
      BY <2>1, <2>2, <2>3 DEF CallOK, History
  <1> QED
    BY <1>1, <1>2, <1>3, <1>4 DEF Inv

\* One row changes what it says, in a step of a close.
LEMMA RowChanges ==
    ASSUME Inv, NEW c \in CallId, calls[c] # NULL, NEW row \in Call,
           calls' = [calls EXCEPT ![c] = row]
    PROVE  /\ calls' \in [CallId -> Call \cup {NULL}] /\ calls'[c] = row /\ row # NULL
           /\ \A d \in CallId \ {c} : calls'[d] = calls[d]
  BY Constants DEF Inv, GTypeOK

LEMMA CloseRunsGoes ==
    ASSUME Inv, NEW c \in CallId, NEW action \in Action, CloseRuns(c, action)
    PROVE  Inv'
  <1>1. /\ <<c, action>> \in closing /\ closing' \subseteq closing
        /\ UNCHANGED <<epoch, results, task, History>>
        /\ Closes(c, action) \/ UNCHANGED Ledger
    BY DEF CloseRuns
  <1>2. asked[c] = 1 /\ (c \in uncertain => action = "mark_unknown")
    BY <1>1 DEF Inv, CallOK
  <1>3. CASE UNCHANGED Ledger
    BY <1>1, <1>3, LedgerSteps DEF Ledger, Inv, GTypeOK
  <1>4. ASSUME NEW charge \in Est \cup Charge \cup {0}, Close(c, charge), action # "mark_unknown"
        PROVE  Inv'
    <2>1. PICK row : row = [calls[c] EXCEPT !.status = "CLOSED", !.charged = charge]
      OBVIOUS
    <2>2. calls[c] # NULL /\ calls[c] \in Call
      BY <1>4 DEF Close, IsOpen, Inv, GTypeOK
    <2>3. row \in Call
      BY <2>1, <2>2 DEF Call, CallStatus
    <2>4. calls' = [calls EXCEPT ![c] = row]
      BY <1>4, <2>1, <2>2 DEF Close, Inv, GTypeOK
    <2> QED
      BY <1>1, <1>2, <1>4, <2>2, <2>3, <2>4, RowChanges, LedgerSteps DEF Close
  <1>5. ASSUME MarkUnknown(c) PROVE Inv'
    <2>1. PICK row : row = [calls[c] EXCEPT !.status = "UNKNOWN"]
      OBVIOUS
    <2>2. calls[c] # NULL /\ calls[c] \in Call
      BY <1>5 DEF MarkUnknown, IsOpen, Inv, GTypeOK
    <2>3. row \in Call /\ row.charged = calls[c].charged
      BY <2>1, <2>2 DEF Call, CallStatus
    <2>4. calls' = [calls EXCEPT ![c] = row]
      BY <1>5, <2>1, <2>2 DEF MarkUnknown, Inv, GTypeOK
    <2> QED
      BY <1>1, <1>5, <2>2, <2>3, <2>4, RowChanges, LedgerSteps DEF MarkUnknown
  <1>6. ASSUME Closes(c, action) PROVE Inv'
    <2>1. CASE action = "mark_unknown"
      BY <1>5, <1>6, <2>1 DEF Closes
    <2>2. CASE action # "mark_unknown"
      <3>1. PICK charge \in Charge \cup {calls[c].est, 0} : Close(c, charge)
        BY <1>6, <2>2 DEF Closes, Action
      <3>2. calls[c].est \in Est
        BY <3>1 DEF Close, IsOpen, Inv, GTypeOK, Call
      <3> QED
        BY <1>4, <2>2, <3>1, <3>2
    <2> QED
      BY <2>1, <2>2
  <1> QED
    BY <1>1, <1>3, <1>6

LEMMA SweepCallsGoes == ASSUME Inv, SweepCalls PROVE Inv'
  <1>1. PICK C \in SUBSET CallId : Sweep(C)
    BY DEF SweepCalls
  <1>2. ASSUME NEW c \in CallId
        PROVE  /\ calls'[c] \in Call \cup {NULL} /\ (calls'[c] = NULL <=> calls[c] = NULL)
               /\ calls[c] # NULL /\ calls[c].charged # 0 => calls'[c].charged # 0
    <2>1. CASE c \in C
      <3>1. calls[c] # NULL /\ calls[c] \in Call
        BY <1>1, <2>1 DEF Sweep, IsOpen, Inv, GTypeOK
      <3>2. PICK row : row = [calls[c] EXCEPT !.status = "UNKNOWN", !.charged = calls[c].est]
        OBVIOUS
      <3>3. row \in Call /\ row.charged = calls[c].est /\ calls[c].est \in Est
        BY <3>1, <3>2 DEF Call, CallStatus
      <3>4. calls'[c] = row
        BY <1>1, <2>1, <3>2 DEF Sweep
      <3> QED
        BY <3>1, <3>3, <3>4, Constants
    <2>2. CASE c \notin C
      BY <1>1, <2>2 DEF Sweep, Inv, GTypeOK
    <2> QED
      BY <2>1, <2>2
  <1>3. calls' \in [CallId -> Call \cup {NULL}]
    <2>1. calls' = [c \in CallId |-> calls'[c]]
      BY <1>1 DEF Sweep
    <2> QED
      BY <1>2, <2>1
  <1> QED
    BY <1>1, <1>2, <1>3, LedgerSteps DEF SweepCalls, Sweep

LEMMA InvalidateGoes == ASSUME Inv, Invalidate PROVE Inv'
  <1>1. /\ epoch' = epoch + 1 /\ epoch < MaxEpoch /\ UNCHANGED <<Ledger, task, closing, History>>
        /\ results' = {[r EXCEPT !.valid = FALSE] : r \in results}
    BY DEF Invalidate
  <1>2. epoch' \in 0..MaxEpoch /\ epoch \in Nat
    BY <1>1, Constants DEF Inv, GTypeOK
  <1>3. results' \subseteq Result
    <2>1. ASSUME NEW r \in Result PROVE [r EXCEPT !.valid = FALSE] \in Result
      BY DEF Result
    <2> QED
      BY <1>1, <2>1 DEF Inv, GTypeOK
  <1>4. GTypeOK'
    BY <1>1, <1>2, <1>3 DEF Inv, GTypeOK, Ledger, History
  <1>5. ASSUME NEW t \in Task PROVE TaskOK(task[t])' /\ Apart(t)'
    <2>1. task[t].began \in Nat
      BY TaskFacts, Constants DEF TaskState
    <2> QED
      BY <1>1, <1>2, <2>1 DEF Inv, TaskOK, Apart, Ledger, History
  <1>6. \A c \in CallId : CallOK(c)'
    BY <1>1 DEF Inv, CallOK, InFlight, Ledger, History
  <1> QED
    BY <1>4, <1>5, <1>6 DEF Inv

LEMMA KillGoes == ASSUME Inv, Kill PROVE Inv'
  <1>1. /\ task' = [t \in Task |-> Idle] /\ closing' = {}
        /\ unheard' = {c \in CallId : calls[c] # NULL}
        /\ UNCHANGED <<Ledger, epoch, results, asked, uncertain>>
    BY DEF Kill
  <1>2. GTypeOK'
    BY <1>1, IdleFits DEF Inv, GTypeOK, Ledger
  <1>3. \A t \in Task : task'[t] = Idle
    BY <1>1
  <1>4. Idle.began <= epoch
    BY IdleFits, Constants DEF Inv, GTypeOK
  <1>5. \A t \in Task : TaskOK(task[t])'
    BY <1>1, <1>3, <1>4, IdleFits DEF TaskOK, Holding, Flying
  <1>6. \A t \in Task : Apart(t)'
    BY <1>3, IdleFits DEF Apart
  <1>7. \A c \in CallId : CallOK(c)'
    BY <1>1 DEF Inv, CallOK, Ledger
  <1> QED
    BY <1>2, <1>5, <1>6, <1>7 DEF Inv

-----------------------------------------------------------------------------
(* The invariant, and what follows from it.                                *)

LEMMA InitInv == ASSUME GInit PROVE Inv
  <1>1. GTypeOK
    BY IdleFits, Constants DEF GInit, CInit, GTypeOK
  <1>2. \A t \in Task : TaskOK(task[t]) /\ Apart(t)
    BY IdleFits DEF GInit, TaskOK, Apart, Holding, Flying
  <1>3. \A c \in CallId : CallOK(c)
    BY DEF GInit, CInit, CallOK
  <1> QED
    BY <1>1, <1>2, <1>3 DEF Inv

LEMMA NextInv == ASSUME Inv, [GNext]_gvars PROVE Inv'
  <1>1. ASSUME NEW t \in Task, Begin(t) \/ Step(t) \/ Hangs(t) \/ CancelTask(t) PROVE Inv'
    BY <1>1, BeforeGoes, ReserveCallGoes, AnswersGoes, UnansweredGoes, RetryGoes, AfterGoes,
       HangsGoes, CancelTaskGoes DEF Step
  <1>2. ASSUME NEW c \in CallId, NEW action \in Action, CloseRuns(c, action) PROVE Inv'
    BY <1>2, CloseRunsGoes
  <1>3. CASE Invalidate \/ SweepCalls \/ Kill
    BY <1>3, InvalidateGoes, SweepCallsGoes, KillGoes
  <1>4. CASE UNCHANGED gvars
    BY <1>4 DEF gvars, Inv, GTypeOK, TaskOK, Apart, CallOK, InFlight
  <1> QED
    BY <1>1, <1>2, <1>3, <1>4 DEF GNext

LEMMA Always == GSpec => []Inv
  BY InitInv, NextInv, PTL DEF GSpec

LEMMA InvCloses == ASSUME Inv PROVE ClosedExactlyOnce
  <1> SUFFICES ASSUME NEW c \in CallId, calls[c] # NULL, c \notin unheard
               PROVE  asked[c] = IF InFlight(c) THEN 0 ELSE 1
    BY DEF ClosedExactlyOnce
  <1>1. asked[c] \in {0, 1}
    BY DEF Inv, GTypeOK
  <1>2. asked[c] = 0 => InFlight(c)
    BY DEF Inv, CallOK
  <1>3. InFlight(c) => asked[c] = 0
    BY FlyingFacts DEF InFlight, Flying
  <1> QED
    BY <1>1, <1>2, <1>3

LEMMA InvCharges == ASSUME Inv PROVE UncertainIsNotFree
  BY DEF Inv, GTypeOK, CallOK, UncertainIsNotFree

-----------------------------------------------------------------------------
\* Tasks, closes and stored results keep their types, and no row is asked to be
\* closed twice (asked stays in 0..1).
THEOREM GatewayTypeCorrect == GSpec => []GTypeOK
  <1>1. Inv => GTypeOK
    BY DEF Inv
  <1> QED
    BY <1>1, Always, PTL

\* Whatever ends a call, its row is asked to be closed once, unless no task
\* ever learnt its id (the except clauses of scoped_call).
THEOREM GatewayClosesOnce == GSpec => []ClosedExactlyOnce
  BY Always, InvCloses, PTL

\* A call of which an attempt went unanswered is never booked as free, as long
\* as reservations are above 0.
THEOREM GatewayUncertainNotFree == GSpec => []UncertainIsNotFree
  BY Always, InvCharges, PTL

\* What is reused was stored at the epoch the call began at or later.
THEOREM GatewayReuseIsCurrent == GSpec => ReuseIsCurrent
  <1>1. ASSUME Inv, NEW t \in Task, Reuse(t), NEW r \in Stored(t)
        PROVE  r.epoch >= task[t].began
    <2>1. r.epoch = task[t].epoch /\ task[t].at = "lookup"
      BY <1>1 DEF Stored, Reuse
    <2>2. task[t].began <= task[t].epoch
      BY <1>1, <2>1, TaskFacts DEF TaskOK
    <2> QED
      BY <1>1, <2>1, <2>2, TaskFacts, Constants DEF TaskState
  <1>2. Inv => [\A t \in Task : Reuse(t) => \A r \in Stored(t) : r.epoch >= task[t].began]_gvars
    BY <1>1
  <1> QED
    BY <1>2, Always, PTL DEF GSpec, ReuseIsCurrent
=============================================================================
