----------------------------- MODULE LedgerProofs -----------------------------
(***************************************************************************)
(* What the transactions of the ledger keep, for any sessions, calls, keys *)
(* and amounts, rolled back anywhere.                                      *)
(*                                                                         *)
(* Every row a transaction means to write it has locked by then, and no    *)
(* two hold one lock: so a budget that reserve found room in still has it  *)
(* at the insert, a call whose close found it open is open until the close *)
(* commits, and a call a sweep took is nobody else's.  Hence the amounts   *)
(* move with the calls and stay their sums, and each commit is one step of *)
(* what LedgerPort promises.                                               *)
(*                                                                         *)
(* The sums are over finite sets of calls.  What holds of them is shown by *)
(* looking at a smallest set for which it would not hold.                  *)
(***************************************************************************)
EXTENDS LedgerTx, FiniteSetTheorems, TLAPS

-----------------------------------------------------------------------------
(* Sums.                                                                   *)

Pick(s) == CHOOSE x \in s : TRUE

Adds(g, f, S) ==
    g = [s \in SUBSET S |-> IF s = {} THEN 0 ELSE f[Pick(s)] + g[s \ {Pick(s)}]]

LEMMA Unfolded ==
    ASSUME NEW f, NEW S
    PROVE  Promise!Total(f, S) = (CHOOSE g : Adds(g, f, S))[S]
  BY DEF Promise!Total, Promise!MapThenSumSet, Promise!MapThenFoldSet, Adds, Pick

LEMMA Found ==
    ASSUME NEW f, NEW S, NEW g, Adds(g, f, S)
    PROVE  Adds(CHOOSE h : Adds(h, f, S), f, S)
  BY Zenon

LEMMA Smallest ==
    ASSUME NEW S, IsFiniteSet(S), NEW T, T \subseteq SUBSET S, T # {}
    PROVE  \E U \in T : \A V \in SUBSET U : V # U => V \notin T
  <1>1. T \subseteq FiniteSubsetsOf(S)
    BY FS_Subset DEF FiniteSubsetsOf
  <1>2. IsWellFoundedOn(StrictSubsetOrdering(S), FiniteSubsetsOf(S))
    BY FS_StrictSubsetOrderingWellFounded
  <1>3. PICK U \in T : \A V \in T : <<V, U>> \notin StrictSubsetOrdering(S)
    BY <1>1, <1>2, WFMin
  <1>4. ASSUME NEW V \in SUBSET U, V # U, V \in T PROVE FALSE
    <2>1. <<V, U>> \in StrictSubsetOrdering(S)
      BY <1>4 DEF StrictSubsetOrdering
    <2> QED
      BY <1>3, <1>4, <2>1
  <1> QED
    BY <1>4

LEMMA PickIn == \A s : s # {} => Pick(s) \in s
  BY DEF Pick

LEMMA AddsOnce ==
    ASSUME NEW f, NEW S, IsFiniteSet(S), NEW g, NEW h, Adds(g, f, S), Adds(h, f, S)
    PROVE  g = h
  <1> DEFINE T == {s \in SUBSET S : g[s] # h[s]}
  <1>1. CASE T = {}
    <2>1. \A s \in SUBSET S : g[s] = h[s]
      BY <1>1
    <2> QED
      BY <2>1 DEF Adds
  <1>2. CASE T # {}
    <2>1. PICK U \in T : \A V \in SUBSET U : V # U => V \notin T
      <3>1. T \subseteq SUBSET S
        OBVIOUS
      <3> HIDE DEF T
      <3> QED
        BY <1>2, <3>1, Smallest
    <2>2. U \in SUBSET S /\ g[U] # h[U]
      OBVIOUS
    <2>3. U # {}
      BY <2>2 DEF Adds
    <2>4. g[U \ {Pick(U)}] = h[U \ {Pick(U)}]
      <3> DEFINE V == U \ {Pick(U)}
      <3>1. V \in SUBSET U /\ V # U /\ V \in SUBSET S
        BY <2>2, <2>3, PickIn
      <3>2. V \notin T
        BY <2>1, <3>1
      <3> QED
        BY <3>1, <3>2
    <2> QED
      BY <2>2, <2>3, <2>4 DEF Adds
  <1> QED
    BY <1>1, <1>2

Steps(f, U) ==
    Promise!Total(f, U) = IF U = {} THEN 0 ELSE f[Pick(U)] + Promise!Total(f, U \ {Pick(U)})

LEMMA TotalSteps ==
    ASSUME NEW f, NEW S, IsFiniteSet(S)
    PROVE  Steps(f, S)
  <1> DEFINE T == {s \in SUBSET S : ~Steps(f, s)}
  <1>1. CASE T = {}
    BY <1>1
  <1>2. CASE T # {}
    <2>1. PICK U \in T : \A V \in SUBSET U : V # U => V \notin T
      <3>1. T \subseteq SUBSET S
        OBVIOUS
      <3> HIDE DEF T
      <3> QED
        BY <1>2, <3>1, Smallest
    <2>2. U \in SUBSET S /\ ~Steps(f, U) /\ IsFiniteSet(U)
      BY FS_Subset
    <2>3. ASSUME NEW V \in SUBSET U, V # U PROVE Steps(f, V)
      <3>1. V \in SUBSET S /\ V \notin T
        BY <2>1, <2>2, <2>3
      <3> QED
        BY <3>1
    <2> DEFINE g == [s \in SUBSET U |->
                       IF s = U THEN (IF U = {} THEN 0 ELSE f[Pick(U)] + Promise!Total(f, U \ {Pick(U)}))
                       ELSE Promise!Total(f, s)]
               r(s) == IF s = {} THEN 0 ELSE f[Pick(s)] + g[s \ {Pick(s)}]
    <2>4. ASSUME NEW s \in SUBSET U PROVE g[s] = r(s)
      <3>1. s # {} => s \ {Pick(s)} \in SUBSET U /\ s \ {Pick(s)} # U
        BY PickIn
      <3>2. s # {} => g[s \ {Pick(s)}] = Promise!Total(f, s \ {Pick(s)})
        BY <3>1
      <3>3. CASE s = U
        BY <3>2, <3>3
      <3>4. CASE s # U
        BY <2>3, <3>2, <3>4 DEF Steps
      <3> QED
        BY <3>3, <3>4
    <2>5. Adds(g, f, U)
      BY <2>4 DEF Adds
    <2>6. (CHOOSE h : Adds(h, f, U)) = g
      BY <2>2, <2>5, Found, AddsOnce
    <2>7. Promise!Total(f, U) = g[U]
      BY <2>6, Unfolded
    <2> QED
      BY <2>2, <2>7 DEF Steps
  <1> QED
    BY <1>1, <1>2

LEMMA TotalInt ==
    ASSUME NEW f, NEW S, IsFiniteSet(S), \A x \in S : f[x] \in Int
    PROVE  Promise!Total(f, S) \in Int
  <1> DEFINE T == {s \in SUBSET S : Promise!Total(f, s) \notin Int}
  <1>1. CASE T = {}
    BY <1>1
  <1>2. CASE T # {}
    <2>1. PICK U \in T : \A V \in SUBSET U : V # U => V \notin T
      <3>1. T \subseteq SUBSET S
        OBVIOUS
      <3> HIDE DEF T
      <3> QED
        BY <1>2, <3>1, Smallest
    <2>2. U \in SUBSET S /\ Promise!Total(f, U) \notin Int /\ IsFiniteSet(U)
      BY FS_Subset
    <2>3. Promise!Total(f, U) = IF U = {} THEN 0 ELSE f[Pick(U)] + Promise!Total(f, U \ {Pick(U)})
      BY <2>2, TotalSteps DEF Steps
    <2> DEFINE V == U \ {Pick(U)}
    <2>4. U # {} /\ Pick(U) \in U
      BY <2>2, <2>3, PickIn
    <2>5. V \in SUBSET U /\ V # U /\ V \in SUBSET S
      BY <2>2, <2>4
    <2>6. Promise!Total(f, V) \in Int
      BY <2>1, <2>5
    <2> QED
      BY <2>2, <2>3, <2>4, <2>6
  <1> QED
    BY <1>1, <1>2

LEMMA TotalNat ==
    ASSUME NEW f, NEW S, IsFiniteSet(S), \A x \in S : f[x] \in Nat
    PROVE  Promise!Total(f, S) \in Nat
  <1> DEFINE T == {s \in SUBSET S : Promise!Total(f, s) \notin Nat}
  <1>1. CASE T = {}
    BY <1>1
  <1>2. CASE T # {}
    <2>1. PICK U \in T : \A V \in SUBSET U : V # U => V \notin T
      <3>1. T \subseteq SUBSET S
        OBVIOUS
      <3> HIDE DEF T
      <3> QED
        BY <1>2, <3>1, Smallest
    <2>2. U \in SUBSET S /\ Promise!Total(f, U) \notin Nat /\ IsFiniteSet(U)
      BY FS_Subset
    <2>3. Promise!Total(f, U) = IF U = {} THEN 0 ELSE f[Pick(U)] + Promise!Total(f, U \ {Pick(U)})
      BY <2>2, TotalSteps DEF Steps
    <2> DEFINE V == U \ {Pick(U)}
    <2>4. U # {} /\ Pick(U) \in U
      BY <2>2, <2>3, PickIn
    <2>5. V \in SUBSET U /\ V # U /\ V \in SUBSET S
      BY <2>2, <2>4
    <2>6. Promise!Total(f, V) \in Nat
      BY <2>1, <2>5
    <2> QED
      BY <2>2, <2>3, <2>4, <2>6
  <1> QED
    BY <1>1, <1>2

Takes(f, U) ==
    \A x \in U : Promise!Total(f, U) = f[x] + Promise!Total(f, U \ {x})

LEMMA TotalTakes ==
    ASSUME NEW f, NEW S, IsFiniteSet(S), \A x \in S : f[x] \in Int, NEW x \in S
    PROVE  Promise!Total(f, S) = f[x] + Promise!Total(f, S \ {x})
  <1> DEFINE T == {s \in SUBSET S : ~Takes(f, s)}
  <1>1. CASE T = {}
    BY <1>1 DEF Takes
  <1>2. CASE T # {}
    <2>1. PICK U \in T : \A V \in SUBSET U : V # U => V \notin T
      <3>1. T \subseteq SUBSET S
        OBVIOUS
      <3> HIDE DEF T
      <3> QED
        BY <1>2, <3>1, Smallest
    <2>2. U \in SUBSET S /\ ~Takes(f, U) /\ IsFiniteSet(U)
      BY FS_Subset
    <2>3. ASSUME NEW V \in SUBSET U, V # U PROVE Takes(f, V)
      <3>1. V \in SUBSET S /\ V \notin T
        BY <2>1, <2>2, <2>3
      <3> QED
        BY <3>1
    <2>4. PICK y \in U : Promise!Total(f, U) # f[y] + Promise!Total(f, U \ {y})
      BY <2>2 DEF Takes
    <2> DEFINE p == Pick(U)
    <2>5. p \in U /\ Promise!Total(f, U) = f[p] + Promise!Total(f, U \ {p})
      BY <2>2, <2>4, PickIn, TotalSteps DEF Steps
    <2> HIDE DEF p
    <2>6. y # p
      BY <2>4, <2>5
    <2>7. Promise!Total(f, U \ {p}) = f[y] + Promise!Total(f, (U \ {p}) \ {y})
      <3>1. Takes(f, U \ {p}) /\ y \in U \ {p}
        BY <2>3, <2>4, <2>5, <2>6
      <3> QED
        BY <3>1 DEF Takes
    <2>8. Promise!Total(f, U \ {y}) = f[p] + Promise!Total(f, (U \ {y}) \ {p})
      <3>1. Takes(f, U \ {y}) /\ p \in U \ {y}
        BY <2>3, <2>4, <2>5, <2>6
      <3> QED
        BY <3>1 DEF Takes
    <2>9. (U \ {y}) \ {p} = (U \ {p}) \ {y}
      OBVIOUS
    <2>10. Promise!Total(f, (U \ {p}) \ {y}) \in Int /\ f[y] \in Int /\ f[p] \in Int
      <3>1. (U \ {p}) \ {y} \in SUBSET U /\ IsFiniteSet((U \ {p}) \ {y})
        BY <2>2, FS_Subset
      <3> QED
        BY <2>2, <2>4, <2>5, <3>1, TotalInt
    <2> DEFINE rest == Promise!Total(f, (U \ {p}) \ {y})
    <2>11. Promise!Total(f, U \ {p}) = f[y] + rest /\ Promise!Total(f, U \ {y}) = f[p] + rest
      BY <2>7, <2>8, <2>9
    <2>12. rest \in Int
      BY <2>10
    <2> HIDE DEF rest
    <2>13. f[p] + (f[y] + rest) = f[y] + (f[p] + rest)
      BY <2>10, <2>12
    <2>14. Promise!Total(f, U) = f[y] + Promise!Total(f, U \ {y})
      BY <2>5, <2>11, <2>13
    <2> QED
      BY <2>4, <2>14
  <1> QED
    BY <1>1, <1>2

LEMMA TotalAgrees ==
    ASSUME NEW f, NEW g, NEW S, IsFiniteSet(S), \A x \in S : f[x] = g[x]
    PROVE  Promise!Total(f, S) = Promise!Total(g, S)
  <1> DEFINE T == {s \in SUBSET S : Promise!Total(f, s) # Promise!Total(g, s)}
  <1>1. CASE T = {}
    BY <1>1
  <1>2. CASE T # {}
    <2>1. PICK U \in T : \A V \in SUBSET U : V # U => V \notin T
      <3>1. T \subseteq SUBSET S
        OBVIOUS
      <3> HIDE DEF T
      <3> QED
        BY <1>2, <3>1, Smallest
    <2>2. U \in SUBSET S /\ Promise!Total(f, U) # Promise!Total(g, U) /\ IsFiniteSet(U)
      BY FS_Subset
    <2>3. /\ Promise!Total(f, U) = IF U = {} THEN 0 ELSE f[Pick(U)] + Promise!Total(f, U \ {Pick(U)})
          /\ Promise!Total(g, U) = IF U = {} THEN 0 ELSE g[Pick(U)] + Promise!Total(g, U \ {Pick(U)})
      BY <2>2, TotalSteps DEF Steps
    <2> DEFINE V == U \ {Pick(U)}
    <2>4. U # {} /\ Pick(U) \in U
      BY <2>2, <2>3, PickIn
    <2>5. V \in SUBSET U /\ V # U /\ V \in SUBSET S
      BY <2>2, <2>4
    <2>6. Promise!Total(f, V) = Promise!Total(g, V)
      BY <2>1, <2>5
    <2> QED
      BY <2>2, <2>3, <2>4, <2>6
  <1> QED
    BY <1>1, <1>2

LEMMA TotalUnion ==
    ASSUME NEW f, NEW A, NEW B, IsFiniteSet(A), IsFiniteSet(B), A \cap B = {},
           \A x \in A \cup B : f[x] \in Int
    PROVE  Promise!Total(f, A \cup B) = Promise!Total(f, A) + Promise!Total(f, B)
  <1> DEFINE T == {s \in SUBSET B : Promise!Total(f, A \cup s) # Promise!Total(f, A) + Promise!Total(f, s)}
  <1>1. CASE T = {}
    BY <1>1
  <1>2. CASE T # {}
    <2>1. PICK U \in T : \A V \in SUBSET U : V # U => V \notin T
      <3>1. T \subseteq SUBSET B
        OBVIOUS
      <3> HIDE DEF T
      <3> QED
        BY <1>2, <3>1, Smallest
    <2>2. U \in SUBSET B /\ Promise!Total(f, A \cup U) # Promise!Total(f, A) + Promise!Total(f, U) /\ IsFiniteSet(U)
      BY FS_Subset
    <2>3. Promise!Total(f, A) \in Int
      BY TotalInt
    <2>4. U # {}
      <3>1. Promise!Total(f, {}) = 0
        BY FS_EmptySet, TotalSteps DEF Steps
      <3>2. CASE U = {}
        <4>1. A \cup U = A
          BY <3>2
        <4> QED
          BY <2>2, <2>3, <3>1, <3>2, <4>1
      <3> QED
        BY <3>2
    <2>5. PICK x \in U : TRUE
      BY <2>4
    <2> DEFINE V == U \ {x}
    <2>6. V \in SUBSET U /\ V # U /\ V \in SUBSET B /\ x \notin A /\ (A \cup U) \ {x} = A \cup V
      BY <2>2, <2>5
    <2>7. Promise!Total(f, A \cup V) = Promise!Total(f, A) + Promise!Total(f, V)
      BY <2>1, <2>6
    <2>8. Promise!Total(f, U) = f[x] + Promise!Total(f, V)
      BY <2>2, <2>5, TotalTakes
    <2>9. Promise!Total(f, A \cup U) = f[x] + Promise!Total(f, A \cup V)
      <3>1. IsFiniteSet(A \cup U)
        BY <2>2, FS_Union
      <3>2. x \in A \cup U /\ \A y \in A \cup U : f[y] \in Int
        BY <2>2, <2>5
      <3>3. Promise!Total(f, A \cup U) = f[x] + Promise!Total(f, (A \cup U) \ {x})
        BY <3>1, <3>2, TotalTakes
      <3> QED
        BY <2>6, <3>3
    <2>10. Promise!Total(f, V) \in Int /\ f[x] \in Int
      <3>1. IsFiniteSet(V)
        BY <2>2, <2>6, FS_Subset
      <3> QED
        BY <2>2, <2>5, <2>6, <3>1, TotalInt
    <2> QED
      BY <2>2, <2>3, <2>7, <2>8, <2>9, <2>10
  <1> QED
    BY <1>1, <1>2
-----------------------------------------------------------------------------
(* The inductive invariant.                                                *)

Sweeping == {"stale", "unknown", "charge"}

\* The row of a reserve that has not committed.
Fresh(r) ==
    /\ r.id \in CallId /\ calls[r.id] = NULL
    /\ r.row \in Promise!Call /\ r.row.status = "RESERVED" /\ r.row.charged = NULL

ReserveOK(r) ==
    r.at = "reserve" =>
      /\ Fresh(r)
      /\ \/ r.todo = <<BudgetLock(r.row.key)>> /\ r.held = {}
         \/ r.todo = <<>> /\ r.held = {BudgetLock(r.row.key)}

\* What the SELECT returned still holds: the budget row is locked.
Roomy(s, r) ==
    LET b == budgets[r.row.key]
    IN  /\ r.seen = IF CapOf[s] > b.cap THEN CapOf[s] ELSE b.cap
        /\ b.spent + b.reserved + r.row.est <= r.seen

InsertOK(s, r) ==
    r.at = "insert" =>
      /\ Fresh(r) /\ Roomy(s, r)
      /\ BudgetLock(r.row.key) \in r.held
      /\ r.held \subseteq {BudgetLock(r.row.key), SlotLock(r.row.slot)}
      /\ \/ r.todo = <<>>
         \/ r.todo = <<SlotLock(r.row.slot)>> /\ r.row.slot # NULL /\ r.held = {BudgetLock(r.row.key)}

\* A close changes the status of a call and what it is charged; from the lock
\* on, the call is RESERVED.
CloseOK(r) ==
    r.at = "close" =>
      /\ r.id \in CallId /\ calls[r.id] # NULL
      /\ r.row \in Promise!Call /\ r.row.status = "CLOSED" /\ r.row.charged # NULL
      /\ LET c == calls[r.id]
         IN  r.row.key = c.key /\ r.row.slot = c.slot /\ r.row.est = c.est
      /\ LET c == CallLock(r.id)
             b == BudgetLock(r.row.key)
         IN  \/ r.todo = <<c, b>> /\ r.held = {}
             \/ r.todo = <<b>> /\ r.held = {c} /\ Closable(r.id)
             \/ r.todo = <<>> /\ r.held = {c, b} /\ Closable(r.id)

EnteredLocks == {CallLock(c) : c \in Promise!Entered}
KeyLocks == {BudgetLock(k) : k \in Key}

SweepOK(r) ==
    r.at \in Sweeping =>
      /\ r.old \subseteq Promise!Entered
      /\ \A c \in CallId : CallLock(c) \in r.held => Promise!IsOpen(c)
      /\ r.at # "charge" => r.held \subseteq EnteredLocks /\ r.todo \in Seq(EnteredLocks)
      /\ r.at = "charge" => r.todo \in Seq(KeyLocks) /\ \A l \in r.held : l.of # "slot"

Standing(s, r) ==
    /\ r \in Tx
    /\ r.at = "idle" => r = Idle
    /\ r.at \in Sweeping => s \in Sweeper
    /\ r.at \in {"reserve", "insert", "close"} => s \notin Sweeper
    /\ ReserveOK(r) /\ InsertOK(s, r) /\ CloseOK(r) /\ SweepOK(r)

\* No two transactions hold one lock or reserve under one id.
Apart(q, r) ==
    /\ q.held \cap r.held = {}
    /\ q.at \in {"reserve", "insert"} /\ r.at \in {"reserve", "insert"} => q.id # r.id

Rows ==
    /\ budgets \in [Key -> [cap : Nat, spent : Int, reserved : Int]]
    /\ calls \in [CallId -> Promise!Call \cup {NULL}]
    /\ IsFiniteSet(Promise!Entered)
    /\ \A c \in CallId : Closable(c) => calls[c].charged = NULL

Transactions ==
    /\ tx \in [Session -> Tx]
    /\ \A s \in Session : Standing(s, tx[s])
    /\ \A s, t \in Session : s # t => Apart(tx[s], tx[t])

Inv == Rows /\ Transactions /\ BudgetsAgree

-----------------------------------------------------------------------------
LEMMA Constants ==
    /\ NULL \notin Int /\ NULL \notin Slot /\ NULL \notin Promise!Call
    /\ CallId \subseteq Nat /\ Key \subseteq Nat /\ Est \subseteq Nat /\ Charge \subseteq Nat
    /\ Sweeper \subseteq Session /\ CapOf \in [Session -> Nat]
  BY LedgerAssumption

LEMMA CallFacts ==
    ASSUME NEW r \in Promise!Call
    PROVE  /\ r # NULL /\ r.key \in Key /\ r.slot \in Slot \cup {NULL} /\ r.est \in Est /\ r.est \in Nat
           /\ r.est \in Int /\ r.charged \in Est \cup Charge \cup {0, NULL}
           /\ r.charged # NULL => r.charged \in Nat /\ r.charged \in Int
  <1>1. /\ r.key \in Key /\ r.slot \in Slot \cup {NULL} /\ r.est \in Est
        /\ r.charged \in Est \cup Charge \cup {0, NULL}
    BY DEF Promise!Call
  <1>2. \A x \in Est \cup Charge \cup {0} : x \in Nat /\ x \in Int
    BY Constants
  <1>3. r # NULL
    BY Constants
  <1> QED
    BY <1>1, <1>2, <1>3

LEMMA LockFacts ==
    /\ \A c \in CallId : CallLock(c) \in Lock
    /\ \A k \in Key : BudgetLock(k) \in Lock
    /\ \A x \in Slot : SlotLock(x) \in Lock
    /\ \A c, k : CallLock(c) # BudgetLock(k)
    /\ \A c, x : CallLock(c) # SlotLock(x)
    /\ \A k, x : BudgetLock(k) # SlotLock(x)
    /\ \A c, d : CallLock(c) = CallLock(d) => c = d
    /\ \A c, d : BudgetLock(c) = BudgetLock(d) => c = d
    /\ \A c, d : SlotLock(c) = SlotLock(d) => c = d
  BY DEF Lock, CallLock, BudgetLock, SlotLock

LEMMA LockParts ==
    /\ \A c : CallLock(c).of = "call" /\ CallLock(c).id = c
    /\ \A k : BudgetLock(k).of = "budget" /\ BudgetLock(k).id = k
    /\ \A x : SlotLock(x).of = "slot" /\ SlotLock(x).id = x
  BY DEF CallLock, BudgetLock, SlotLock

LEMMA IdleFacts ==
    /\ Idle \in Tx /\ Idle.at = "idle" /\ Idle.held = {} /\ Idle.todo = <<>>
    /\ Idle.seen = NULL /\ Idle.row = NULL /\ Idle.id = NULL /\ Idle.old = {}
  BY DEF Idle, Tx, At

\* What a step leaves of the rows a transaction relies on: those entered keep
\* what they are for, those it locked do not change.
Kept(t) ==
    /\ \A c \in Promise!Entered :
         /\ calls'[c] # NULL
         /\ calls'[c].key = calls[c].key /\ calls'[c].slot = calls[c].slot /\ calls'[c].est = calls[c].est
    /\ \A c \in CallId : CallLock(c) \in tx[t].held => calls'[c] = calls[c]
    /\ tx[t].at \in {"reserve", "insert"} => calls'[tx[t].id] = NULL
    /\ \A k \in Key : tx[t].at = "insert" /\ BudgetLock(k) \in tx[t].held =>
         /\ budgets'[k].cap = budgets[k].cap
         /\ budgets'[k].spent + budgets'[k].reserved = budgets[k].spent + budgets[k].reserved

LEMMA OthersStand ==
    ASSUME Inv, NEW t \in Session, Kept(t), tx'[t] = tx[t],
           calls' \in [CallId -> Promise!Call \cup {NULL}],
           budgets' \in [Key -> [cap : Nat, spent : Int, reserved : Int]]
    PROVE  Standing(t, tx[t])'
  <1> DEFINE r == tx[t]
  <1>0. Standing(t, r) /\ r \in Tx
    BY DEF Inv, Transactions, Standing
  <1>1. ReserveOK(r)'
    BY <1>0 DEF Standing, ReserveOK, Fresh, Kept
  <1>2. ASSUME r.at = "insert" PROVE Fresh(r)' /\ Roomy(t, r)'
    <2>1. Fresh(r) /\ Roomy(t, r) /\ BudgetLock(r.row.key) \in r.held
      BY <1>0, <1>2 DEF Standing, InsertOK
    <2>2. r.row.key \in Key /\ r.row.est \in Nat
      BY <2>1, Constants DEF Fresh, Promise!Call
    <2>3. Fresh(r)'
      BY <1>2, <2>1 DEF Fresh, Kept
    <2> DEFINE b == budgets[r.row.key]
               d == budgets'[r.row.key]
    <2>4. /\ b \in [cap : Nat, spent : Int, reserved : Int] /\ d \in [cap : Nat, spent : Int, reserved : Int]
          /\ d.cap = b.cap /\ d.spent + d.reserved = b.spent + b.reserved
      BY <1>2, <2>1, <2>2 DEF Kept, Inv, Rows
    <2> QED
      BY <2>1, <2>3, <2>4 DEF Roomy
  <1>3. InsertOK(t, r)'
    BY <1>0, <1>2 DEF Standing, InsertOK
  <1>4. CloseOK(r)'
    <2> SUFFICES ASSUME r.at = "close" PROVE CloseOK(r)'
      BY DEF CloseOK
    <2>1. /\ r.id \in CallId /\ calls[r.id] # NULL /\ r.id \in Promise!Entered
      BY <1>0 DEF Standing, CloseOK, Promise!Entered
    <2>2. /\ calls'[r.id] # NULL
          /\ calls'[r.id].key = calls[r.id].key /\ calls'[r.id].slot = calls[r.id].slot
          /\ calls'[r.id].est = calls[r.id].est
      BY <2>1 DEF Kept
    <2>4. CallLock(r.id) \in r.held => calls'[r.id] = calls[r.id]
      BY <2>1 DEF Kept
    <2> QED
      BY <1>0, <2>1, <2>2, <2>4 DEF Standing, CloseOK, Closable
  <1>5. SweepOK(r)'
    <2>1. Promise!Entered \subseteq Promise!Entered'
      BY DEF Promise!Entered, Kept
    <2>2. EnteredLocks \subseteq EnteredLocks'
      BY <2>1 DEF EnteredLocks
    <2>3. \A c \in CallId : CallLock(c) \in r.held /\ Promise!IsOpen(c) => Promise!IsOpen(c)'
      BY DEF Kept, Promise!IsOpen
    <2>4. r.at \in Sweeping /\ r.at # "charge" => r.todo \in Seq(EnteredLocks')
      BY <1>0, <2>2 DEF Standing, SweepOK
    <2> QED
      BY <1>0, <2>1, <2>2, <2>3, <2>4 DEF Standing, SweepOK
  <1> QED
    BY <1>0, <1>1, <1>3, <1>4, <1>5 DEF Standing

LEMMA IdleStands == \A s : Standing(s, Idle)
  BY IdleFacts DEF Standing, ReserveOK, InsertOK, CloseOK, SweepOK, Sweeping

LEMMA IdleApart == \A r : Apart(Idle, r) /\ Apart(r, Idle)
  BY IdleFacts DEF Apart

LEMMA StandingOf ==
    ASSUME Inv, NEW s \in Session
    PROVE  /\ tx[s] \in Tx /\ Standing(s, tx[s])
           /\ ReserveOK(tx[s]) /\ InsertOK(s, tx[s]) /\ CloseOK(tx[s]) /\ SweepOK(tx[s])
  BY DEF Inv, Transactions, Standing

\* A step of one transaction that writes nothing.
LEMMA Moves ==
    ASSUME Inv, NEW s \in Session, UNCHANGED <<budgets, calls>>,
           tx' = [tx EXCEPT ![s] = tx'[s]], Standing(s, tx'[s]),
           \A t \in Session \ {s} : Apart(tx'[s], tx[t])
    PROVE  Inv'
  <1>0. UNCHANGED <<budgets, calls>> /\ Rows /\ BudgetsAgree
    BY DEF Inv
  <1>1. Rows' /\ BudgetsAgree'
    <2>1. Rows'
      BY <1>0 DEF Rows, Closable, Promise!Entered
    <2>2. ASSUME NEW k \in Key
          PROVE Promise!Spent(k)' = Promise!Spent(k) /\ Promise!Reserved(k)' = Promise!Reserved(k)
      BY <1>0 DEF Promise!Spent, Promise!Reserved, Promise!Entered, Promise!IsOpen
    <2> QED
      BY <1>0, <2>1, <2>2 DEF BudgetsAgree
  <1>2. /\ tx \in [Session -> Tx] /\ \A t \in Session \ {s} : tx'[t] = tx[t]
        /\ tx' \in [Session -> Tx]
    BY DEF Inv, Transactions, Standing
  <1>3. ASSUME NEW t \in Session \ {s} PROVE Standing(t, tx[t])'
    <2>1. tx[t].at \in {"reserve", "insert"} => calls[tx[t].id] = NULL
      BY StandingOf DEF ReserveOK, InsertOK, Fresh
    <2>2. Kept(t)
      BY <2>1 DEF Kept, Promise!Entered
    <2> QED
      BY <1>2, <1>3, <2>2, OthersStand DEF Inv, Rows
  <1>4. Standing(s, tx[s])'
    BY DEF Standing, ReserveOK, InsertOK, CloseOK, SweepOK, Fresh, Roomy, Closable, EnteredLocks,
           Promise!Entered, Promise!IsOpen
  <1>5. ASSUME NEW t \in Session, NEW u \in Session, t # u PROVE Apart(tx[t], tx[u])'
    <2>1. CASE t = s
      BY <1>2, <1>5, <2>1 DEF Apart
    <2>2. CASE u = s
      BY <1>2, <1>5, <2>2 DEF Apart
    <2>3. CASE t # s /\ u # s
      BY <1>2, <1>5, <2>3 DEF Apart, Inv, Transactions
    <2> QED
      BY <2>1, <2>2, <2>3
  <1> QED
    BY <1>1, <1>2, <1>3, <1>4, <1>5 DEF Inv, Transactions

\* The end of one: what it wrote is nothing the others rely on.
LEMMA Commits ==
    ASSUME Inv, NEW s \in Session, tx' = [tx EXCEPT ![s] = Idle], Rows', BudgetsAgree',
           \A t \in Session \ {s} : Kept(t)
    PROVE  Inv'
  <1>1. /\ tx \in [Session -> Tx] /\ \A t \in Session \ {s} : tx'[t] = tx[t]
        /\ tx' \in [Session -> Tx] /\ tx'[s] = Idle
    BY IdleFacts DEF Inv, Transactions
  <1>2. ASSUME NEW t \in Session \ {s} PROVE Standing(t, tx[t])'
    BY <1>1, <1>2, OthersStand DEF Rows
  <1>3. Standing(s, tx[s])'
    BY <1>1, IdleFacts DEF Standing, ReserveOK, InsertOK, CloseOK, SweepOK, Sweeping
  <1>4. ASSUME NEW t \in Session, NEW u \in Session, t # u PROVE Apart(tx[t], tx[u])'
    <2>1. CASE t # s /\ u # s
      BY <1>1, <1>4, <2>1 DEF Apart, Inv, Transactions
    <2>2. CASE t = s \/ u = s
      BY <1>1, <1>4, <2>2, IdleFacts DEF Apart
    <2> QED
      BY <2>1, <2>2
  <1> QED
    BY <1>1, <1>2, <1>3, <1>4 DEF Inv, Transactions

-----------------------------------------------------------------------------
(* The steps that write nothing.                                           *)

LEMMA Quits ==
    ASSUME Inv, NEW s \in Session, UNCHANGED <<budgets, calls>>, Ends(s)
    PROVE  Inv'
  <1>1. tx' = [tx EXCEPT ![s] = Idle] /\ tx'[s] = Idle
    BY DEF Ends, Inv, Transactions
  <1> QED
    BY <1>1, IdleStands, IdleApart, Moves

\* A lock that is taken is taken by one.
LEMMA TakesAlone ==
    ASSUME Inv, NEW s \in Session, NEW l, Free(s, l),
           tx'[s].held = tx[s].held \cup {l}, tx'[s].at = tx[s].at, tx'[s].id = tx[s].id,
           NEW t \in Session \ {s}
    PROVE  Apart(tx'[s], tx[t])
  <1>1. Apart(tx[s], tx[t]) /\ l \notin tx[t].held
    BY DEF Inv, Transactions, Free
  <1> QED
    BY <1>1 DEF Apart

LEMMA SkipsApart ==
    ASSUME Inv, NEW s \in Session,
           tx'[s].held = tx[s].held, tx'[s].at = tx[s].at, tx'[s].id = tx[s].id,
           NEW t \in Session \ {s}
    PROVE  Apart(tx'[s], tx[t])
  <1>1. Apart(tx[s], tx[t])
    BY DEF Inv, Transactions
  <1> QED
    BY <1>1 DEF Apart

\* What Take makes of a transaction that goes on.
LEMMA Took ==
    ASSUME Inv, NEW s \in Session, tx[s].todo # <<>>, NEW l \in Lock,
           tx' = [tx EXCEPT ![s].todo = Tail(@), ![s].held = @ \cup {l}]
    PROVE  /\ tx' = [tx EXCEPT ![s] = tx'[s]] /\ tx'[s] \in Tx
           /\ tx'[s].todo = Tail(tx[s].todo) /\ tx'[s].held = tx[s].held \cup {l}
           /\ tx'[s].at = tx[s].at /\ tx'[s].seen = tx[s].seen /\ tx'[s].row = tx[s].row
           /\ tx'[s].id = tx[s].id /\ tx'[s].old = tx[s].old
  <1>1. tx[s] \in Tx /\ tx \in [Session -> Tx]
    BY DEF Inv, Transactions
  <1>2. /\ tx' = [tx EXCEPT ![s] = tx'[s]]
        /\ tx'[s] = [tx[s] EXCEPT !.todo = Tail(@), !.held = @ \cup {l}]
    BY <1>1
  <1>3. Tail(tx[s].todo) \in Seq(Lock) /\ tx[s].held \cup {l} \in SUBSET Lock
    BY <1>1 DEF Tx
  <1> QED
    BY <1>1, <1>2, <1>3 DEF Tx

LEMMA Skipped ==
    ASSUME Inv, NEW s \in Session, tx[s].todo # <<>>,
           tx' = [tx EXCEPT ![s].todo = Tail(@)]
    PROVE  /\ tx' = [tx EXCEPT ![s] = tx'[s]] /\ tx'[s] \in Tx
           /\ tx'[s].todo = Tail(tx[s].todo) /\ tx'[s].held = tx[s].held
           /\ tx'[s].at = tx[s].at /\ tx'[s].seen = tx[s].seen /\ tx'[s].row = tx[s].row
           /\ tx'[s].id = tx[s].id /\ tx'[s].old = tx[s].old
  <1>1. tx[s] \in Tx /\ tx \in [Session -> Tx]
    BY DEF Inv, Transactions
  <1>2. /\ tx' = [tx EXCEPT ![s] = tx'[s]]
        /\ tx'[s] = [tx[s] EXCEPT !.todo = Tail(@)]
    BY <1>1
  <1>3. Tail(tx[s].todo) \in Seq(Lock)
    BY <1>1 DEF Tx
  <1> QED
    BY <1>1, <1>2, <1>3 DEF Tx

LEMMA TakeStands ==
    ASSUME Inv, NEW s \in Session, tx[s].todo # <<>>,
           Matches(s, Head(tx[s].todo)),
           tx' = [tx EXCEPT ![s].todo = Tail(@), ![s].held = @ \cup {Head(tx[s].todo)}]
    PROVE  Standing(s, tx'[s])
  <1> DEFINE l == Head(tx[s].todo)
             n == tx'[s]
  <1>0. /\ tx[s] \in Tx /\ Standing(s, tx[s])
        /\ ReserveOK(tx[s]) /\ InsertOK(s, tx[s]) /\ CloseOK(tx[s]) /\ SweepOK(tx[s])
    BY StandingOf
  <1>1. l \in Lock
    BY <1>0 DEF Tx
  <1> HIDE DEF l
  <1>2. /\ n \in Tx /\ n.todo = Tail(tx[s].todo) /\ n.held = tx[s].held \cup {l}
        /\ n.at = tx[s].at /\ n.seen = tx[s].seen /\ n.row = tx[s].row
        /\ n.id = tx[s].id /\ n.old = tx[s].old
    BY <1>1, Took DEF l
  <1> HIDE DEF n
  <1>3. n.at # "idle"
    BY <1>0, <1>2, IdleFacts DEF Standing
  <1>4. ReserveOK(n)
    <2> SUFFICES ASSUME n.at = "reserve" PROVE ReserveOK(n)
      BY DEF ReserveOK
    <2>1. Fresh(tx[s]) /\ tx[s].todo = <<BudgetLock(n.row.key)>> /\ tx[s].held = {}
      BY <1>0, <1>2 DEF ReserveOK
    <2>2. n.todo = <<>> /\ n.held = {BudgetLock(n.row.key)}
      BY <1>2, <2>1 DEF l
    <2> QED
      BY <1>2, <2>1, <2>2 DEF ReserveOK, Fresh
  <1>5. InsertOK(s, n)
    <2> SUFFICES ASSUME n.at = "insert" PROVE InsertOK(s, n)
      BY DEF InsertOK
    <2>1. /\ Fresh(tx[s]) /\ Roomy(s, tx[s]) /\ tx[s].todo = <<SlotLock(n.row.slot)>>
          /\ tx[s].held = {BudgetLock(n.row.key)}
      BY <1>0, <1>2 DEF InsertOK
    <2>2. n.todo = <<>> /\ n.held = {BudgetLock(n.row.key), SlotLock(n.row.slot)}
      BY <1>2, <2>1 DEF l
    <2> QED
      BY <1>2, <2>1, <2>2 DEF InsertOK, Fresh, Roomy
  <1>6. CloseOK(n)
    <2> SUFFICES ASSUME n.at = "close" PROVE CloseOK(n)
      BY DEF CloseOK
    <2> DEFINE c == CallLock(n.id)
               b == BudgetLock(n.row.key)
    <2>1. CASE tx[s].todo = <<c, b>> /\ tx[s].held = {}
      <3>1. l = c /\ n.todo = <<b>> /\ n.held = {c}
        BY <1>2, <2>1 DEF l
      <3>2. Closable(n.id)
        BY <1>2, <3>1, LockParts DEF Matches, l
      <3> QED
        BY <1>0, <1>2, <3>1, <3>2 DEF CloseOK
    <2>2. CASE tx[s].todo = <<b>> /\ tx[s].held = {c} /\ Closable(n.id)
      <3>1. n.todo = <<>> /\ n.held = {c, b}
        BY <1>2, <2>2 DEF l
      <3> QED
        BY <1>0, <1>2, <2>2, <3>1 DEF CloseOK
    <2> QED
      BY <1>0, <1>2, <2>1, <2>2 DEF CloseOK
  <1>7. SweepOK(n)
    <2> SUFFICES ASSUME n.at \in Sweeping PROVE SweepOK(n)
      BY DEF SweepOK
    <2>1. CASE n.at = "charge"
      <3>1. l \in KeyLocks /\ n.todo \in Seq(KeyLocks)
        BY <1>0, <1>2, <2>1 DEF SweepOK, l
      <3>2. \A c : l # CallLock(c)
        BY <3>1, LockFacts DEF KeyLocks
      <3>3. l.of # "slot"
        BY <3>1, LockParts DEF KeyLocks
      <3>4. \A m \in n.held : m.of # "slot"
        BY <1>0, <1>2, <2>1, <3>3 DEF SweepOK, Sweeping
      <3> QED
        BY <1>0, <1>2, <2>1, <3>1, <3>2, <3>4 DEF SweepOK, Sweeping
    <2>2. CASE n.at # "charge"
      <3>1. l \in EnteredLocks /\ n.todo \in Seq(EnteredLocks)
        BY <1>0, <1>2, <2>2 DEF SweepOK, l
      <3>2. PICK c \in Promise!Entered : l = CallLock(c)
        BY <3>1 DEF EnteredLocks
      <3>3. Promise!IsOpen(c)
        <4>1. c \in CallId /\ calls[c] # NULL /\ l.id = c
          BY <3>2, LockParts DEF Promise!Entered
        <4>2. CASE n.at = "stale"
          <5>1. calls[c].status = "RESERVED"
            BY <1>2, <4>1, <4>2 DEF Matches, l
          <5> QED
            BY <4>1, <5>1 DEF Closable, Promise!IsOpen, Inv, Rows
        <4>3. CASE n.at = "unknown"
          <5>1. Unsettled(c)
            BY <1>2, <4>1, <4>3 DEF Matches, l
          <5> QED
            BY <4>1, <5>1 DEF Unsettled, Promise!IsOpen
        <4> QED
          BY <2>2, <4>2, <4>3 DEF Sweeping
      <3>4. \A d \in CallId : CallLock(d) \in n.held => Promise!IsOpen(d)
        BY <1>0, <1>2, <3>2, <3>3, LockFacts DEF SweepOK
      <3> QED
        BY <1>0, <1>2, <2>2, <3>1, <3>4 DEF SweepOK
    <2> QED
      BY <2>1, <2>2
  <1> QED
    BY <1>0, <1>2, <1>3, <1>4, <1>5, <1>6, <1>7 DEF Standing, n

LEMMA SkipStands ==
    ASSUME Inv, NEW s \in Session, tx[s].todo # <<>>, tx[s].at # "close",
           ~Matches(s, Head(tx[s].todo)), tx' = [tx EXCEPT ![s].todo = Tail(@)]
    PROVE  Standing(s, tx'[s])
  <1> DEFINE n == tx'[s]
  <1>0. /\ tx[s] \in Tx /\ Standing(s, tx[s]) /\ SweepOK(tx[s])
    BY StandingOf
  <1>1. /\ n \in Tx /\ n.todo = Tail(tx[s].todo) /\ n.held = tx[s].held
        /\ n.at = tx[s].at /\ n.old = tx[s].old
    BY Skipped
  <1> HIDE DEF n
  <1>2. n.at \in {"stale", "unknown"}
    BY <1>1 DEF Matches
  <1>3. n.todo \in Seq(EnteredLocks)
    BY <1>0, <1>1, <1>2 DEF SweepOK, Sweeping
  <1>4. SweepOK(n)
    BY <1>0, <1>1, <1>2, <1>3 DEF SweepOK, Sweeping
  <1> QED
    BY <1>0, <1>1, <1>2, <1>4 DEF Standing, ReserveOK, InsertOK, CloseOK, n

LEMMA TakeGoes == ASSUME Inv, NEW s \in Session, Take(s) PROVE Inv'
  <1> DEFINE l == Head(tx[s].todo)
  <1>1. tx[s].todo # <<>> /\ Free(s, l) /\ UNCHANGED <<budgets, calls>>
    BY DEF Take
  <1>2. l \in Lock
    BY <1>1 DEF Inv, Transactions, Tx
  <1>3. CASE Matches(s, l) /\ tx' = [tx EXCEPT ![s].todo = Tail(@), ![s].held = @ \cup {l}]
    <2>1. Standing(s, tx'[s])
      BY <1>1, <1>3, TakeStands
    <2>2. /\ tx' = [tx EXCEPT ![s] = tx'[s]]
          /\ tx'[s].held = tx[s].held \cup {l} /\ tx'[s].at = tx[s].at /\ tx'[s].id = tx[s].id
      BY <1>1, <1>2, <1>3, Took
    <2>3. \A t \in Session \ {s} : Apart(tx'[s], tx[t])
      BY <1>1, <2>2, TakesAlone
    <2> QED
      BY <1>1, <2>1, <2>2, <2>3, Moves
  <1>4. CASE ~Matches(s, l) /\ tx[s].at # "close" /\ tx' = [tx EXCEPT ![s].todo = Tail(@)]
    <2>1. Standing(s, tx'[s])
      BY <1>1, <1>4, SkipStands
    <2>2. /\ tx' = [tx EXCEPT ![s] = tx'[s]]
          /\ tx'[s].held = tx[s].held /\ tx'[s].at = tx[s].at /\ tx'[s].id = tx[s].id
      BY <1>1, <1>4, Skipped
    <2>3. \A t \in Session \ {s} : Apart(tx'[s], tx[t])
      BY <2>2, SkipsApart
    <2> QED
      BY <1>1, <2>1, <2>2, <2>3, Moves
  <1>5. CASE Ends(s)
    BY <1>1, <1>5, Quits
  <1> QED
    BY <1>3, <1>4, <1>5 DEF Take

LEMMA RollBackGoes == ASSUME Inv, NEW s \in Session, RollBack(s) PROVE Inv'
  BY Quits DEF RollBack

LEMMA BeginReserveGoes == ASSUME Inv, NEW s \in Session, BeginReserve(s) PROVE Inv'
  <1>1. PICK c \in CallId, k \in Key, slot \in Slot \cup {NULL}, e \in Est :
          /\ FreshId(c)
          /\ s \notin Sweeper
          /\ Begin(s, [Idle EXCEPT !.at = "reserve", !.todo = ReserveLocks(k), !.id = c,
                       !.row = [status |-> "RESERVED", key |-> k, slot |-> slot, est |-> e,
                                charged |-> NULL]])
    BY DEF BeginReserve
  <1> DEFINE n == tx'[s]
  <1>2. tx \in [Session -> Tx] /\ UNCHANGED <<budgets, calls>>
    BY <1>1 DEF Begin, Inv, Transactions
  <1>3. /\ tx' = [tx EXCEPT ![s] = n]
        /\ n = [Idle EXCEPT !.at = "reserve", !.todo = ReserveLocks(k), !.id = c,
                  !.row = [status |-> "RESERVED", key |-> k, slot |-> slot, est |-> e,
                           charged |-> NULL]]
    BY <1>1, <1>2 DEF Begin
  <1>4. /\ n \in Tx /\ n.at = "reserve" /\ n.todo = <<BudgetLock(k)>> /\ n.held = {}
        /\ n.id = c /\ n.row.key = k /\ Fresh(n)
    <2> DEFINE row == [status |-> "RESERVED", key |-> k, slot |-> slot, est |-> e, charged |-> NULL]
    <2>1. row \in Promise!Call /\ row.status = "RESERVED" /\ row.charged = NULL /\ row.key = k
      BY DEF Promise!Call, Promise!CallStatus
    <2> HIDE DEF row
    <2>2. /\ n.at = "reserve" /\ n.todo = <<BudgetLock(k)>> /\ n.id = c /\ n.row = row
          /\ n.held = {} /\ n.seen = NULL /\ n.old = {} /\ DOMAIN n = DOMAIN Idle
      BY <1>3 DEF Idle, ReserveLocks, row
    <2>3. n \in Tx
      <3>1. n = [Idle EXCEPT !.at = "reserve", !.todo = ReserveLocks(k), !.id = c, !.row = row]
        BY <1>3 DEF row
      <3>2. ReserveLocks(k) \in Seq(Lock)
        BY LockFacts DEF ReserveLocks
      <3> QED
        BY <2>1, <3>1, <3>2, IdleFacts DEF Tx, At
    <2>4. calls[c] = NULL
      BY <1>1 DEF FreshId
    <2> QED
      BY <2>1, <2>2, <2>3, <2>4 DEF Fresh
  <1> HIDE DEF n
  <1>5. Standing(s, n)
    BY <1>1, <1>4 DEF Standing, ReserveOK, InsertOK, CloseOK, SweepOK, Sweeping
  <1>6. ASSUME NEW t \in Session \ {s} PROVE Apart(n, tx[t])
    <2>1. tx[t].id # c
      BY <1>1 DEF FreshId
    <2> QED
      BY <1>4, <2>1 DEF Apart
  <1> QED
    BY <1>2, <1>3, <1>5, <1>6, Moves DEF n

LEMMA BeginCloseGoes == ASSUME Inv, NEW s \in Session, BeginClose(s) PROVE Inv'
  <1>1. PICK c \in CallId :
          /\ s \notin Sweeper /\ Closable(c)
          /\ \E charge \in Charge \cup {0, calls[c].est} :
               Begin(s, [Idle EXCEPT !.at = "close", !.todo = CloseLocks(c), !.id = c,
                         !.row = [calls[c] EXCEPT !.status = "CLOSED", !.charged = charge]])
    BY DEF BeginClose
  <1>2. PICK charge \in Charge \cup {0, calls[c].est} :
          Begin(s, [Idle EXCEPT !.at = "close", !.todo = CloseLocks(c), !.id = c,
                    !.row = [calls[c] EXCEPT !.status = "CLOSED", !.charged = charge]])
    BY <1>1
  <1> DEFINE row == [calls[c] EXCEPT !.status = "CLOSED", !.charged = charge]
             n == tx'[s]
  <1>3. calls[c] \in Promise!Call /\ calls[c] # NULL
    BY <1>1 DEF Closable, Inv, Rows
  <1>4. charge \in Est \cup Charge \cup {0} /\ charge # NULL
    BY <1>3, Constants DEF Promise!Call
  <1>5. /\ row \in Promise!Call /\ row.status = "CLOSED" /\ row.charged = charge
        /\ row.key = calls[c].key /\ row.slot = calls[c].slot /\ row.est = calls[c].est
    BY <1>3, <1>4 DEF Promise!Call, Promise!CallStatus
  <1> HIDE DEF row
  <1>6. /\ tx \in [Session -> Tx] /\ UNCHANGED <<budgets, calls>> /\ tx[s] = Idle
        /\ tx' = [tx EXCEPT ![s] = n]
        /\ n = [Idle EXCEPT !.at = "close", !.todo = CloseLocks(c), !.id = c, !.row = row]
    BY <1>2 DEF Begin, Inv, Transactions, row
  <1>7. /\ n.at = "close" /\ n.todo = <<CallLock(c), BudgetLock(calls[c].key)>> /\ n.id = c
        /\ n.row = row /\ n.held = {}
    BY <1>6 DEF Idle, CloseLocks
  <1>8. n \in Tx
    <2>1. CloseLocks(c) \in Seq(Lock)
      <3>1. calls[c].key \in Key
        BY <1>3 DEF Promise!Call
      <3>2. CallLock(c) \in Lock /\ BudgetLock(calls[c].key) \in Lock
        BY <3>1, LockFacts
      <3> QED
        BY <3>2 DEF CloseLocks
    <2> QED
      BY <1>5, <1>6, <2>1 DEF Idle, Tx, At
  <1> HIDE DEF n
  <1>9. Standing(s, n)
    <2>1. CloseOK(n)
      BY <1>3, <1>4, <1>5, <1>7 DEF CloseOK
    <2> QED
      BY <1>1, <1>7, <1>8, <2>1 DEF Standing, ReserveOK, InsertOK, SweepOK, Sweeping
  <1>10. \A t \in Session \ {s} : Apart(n, tx[t])
    BY <1>7 DEF Apart
  <1> QED
    BY <1>6, <1>9, <1>10, Moves DEF n

\* The orders in which locks are taken are of the rows that are asked for.
LEMMA OrdersAreOf ==
    ASSUME NEW S, IsFiniteSet(S), NEW q \in SetToSeqs(S)
    PROVE  q \in Seq(S)
  BY FS_CardinalityType DEF SetToSeqs

LEMMA LocksOfCalls ==
    ASSUME NEW cs \in Seq(Promise!Entered)
    PROVE  CallLocks(cs) \in Seq(EnteredLocks) /\ CallLocks(cs) \in Seq(Lock)
  <1>1. \A i \in DOMAIN cs : CallLock(cs[i]) \in EnteredLocks /\ CallLock(cs[i]) \in Lock
    BY LockFacts DEF EnteredLocks, Promise!Entered
  <1>2. DOMAIN cs = 1..Len(cs) /\ Len(cs) \in Nat
    OBVIOUS
  <1> QED
    BY <1>1, <1>2 DEF CallLocks

LEMMA LocksOfKeys ==
    ASSUME NEW ks \in Seq(Key)
    PROVE  BudgetLocks(ks) \in Seq(KeyLocks) /\ BudgetLocks(ks) \in Seq(Lock)
  <1>1. \A i \in DOMAIN ks : BudgetLock(ks[i]) \in KeyLocks /\ BudgetLock(ks[i]) \in Lock
    BY LockFacts DEF KeyLocks
  <1>2. DOMAIN ks = 1..Len(ks) /\ Len(ks) \in Nat
    OBVIOUS
  <1> QED
    BY <1>1, <1>2 DEF BudgetLocks

LEMMA BeginSweepGoes ==
    ASSUME Inv, NEW s \in Session, NEW old \in SUBSET OpenCalls, BeginSweep(s, old)
    PROVE  Inv'
  <1>1. PICK order \in SetToSeqs({c \in old : Closable(c)}) :
          /\ s \in Sweeper
          /\ Begin(s, [Idle EXCEPT !.at = "stale", !.todo = CallLocks(order), !.old = old])
    BY DEF BeginSweep
  <1> DEFINE n == tx'[s]
  <1>2. /\ tx \in [Session -> Tx] /\ UNCHANGED <<budgets, calls>>
        /\ tx' = [tx EXCEPT ![s] = n]
        /\ n = [Idle EXCEPT !.at = "stale", !.todo = CallLocks(order), !.old = old]
    BY <1>1 DEF Begin, Inv, Transactions
  <1>3. old \subseteq Promise!Entered /\ old \subseteq CallId
    BY DEF OpenCalls, Closable, Promise!Entered
  <1>4. n.at = "stale" /\ n.todo = CallLocks(order) /\ n.held = {} /\ n.old = old
    BY <1>2 DEF Idle
  <1>5. n.todo \in Seq(EnteredLocks) /\ n.todo \in Seq(Lock)
    <2>1. order \in Seq(Promise!Entered)
      <3>1. {c \in old : Closable(c)} \subseteq Promise!Entered
        BY <1>3
      <3>2. IsFiniteSet({c \in old : Closable(c)})
        BY <3>1, FS_Subset DEF Inv, Rows
      <3> QED
        BY <3>1, <3>2, OrdersAreOf
    <2> QED
      BY <1>4, <2>1, LocksOfCalls
  <1>6. n \in Tx
    BY <1>2, <1>3, <1>4, <1>5 DEF Idle, Tx, At
  <1> HIDE DEF n
  <1>7. Standing(s, n)
    <2>1. SweepOK(n)
      BY <1>3, <1>4, <1>5 DEF SweepOK
    <2> QED
      BY <1>1, <1>4, <1>6, <2>1 DEF Standing, ReserveOK, InsertOK, CloseOK, Sweeping
  <1>8. \A t \in Session \ {s} : Apart(n, tx[t])
    BY <1>4 DEF Apart
  <1> QED
    BY <1>2, <1>7, <1>8, Moves DEF n

LEMMA SelectBudgetGoes == ASSUME Inv, NEW s \in Session, SelectBudget(s) PROVE Inv'
  <1> DEFINE n == tx'[s]
             k == tx[s].row.key
             seen == CapFor(s, k)
             todo == IF tx[s].row.slot = NULL THEN <<>> ELSE <<SlotLock(tx[s].row.slot)>>
  <1>1. CASE ~Fits(s)
    BY <1>1, Quits DEF SelectBudget
  <1>2. CASE Fits(s)
    <2>1. /\ tx[s] \in Tx /\ Standing(s, tx[s]) /\ tx[s].at = "reserve" /\ Fresh(tx[s])
          /\ tx[s].held = {BudgetLock(k)} /\ s \notin Sweeper
      BY StandingOf DEF SelectBudget, ReserveOK, Standing
    <2>2. /\ k \in Key /\ tx[s].row \in Promise!Call /\ tx[s].row.slot \in Slot \cup {NULL}
      BY <2>1 DEF Fresh, Promise!Call
    <2>3. seen \in Nat /\ seen = (IF CapOf[s] > budgets[k].cap THEN CapOf[s] ELSE budgets[k].cap)
      BY <2>2, Constants DEF CapFor, Inv, Rows
    <2>4. todo \in Seq(Lock)
      BY <2>2, LockFacts
    <2>5. /\ tx \in [Session -> Tx] /\ UNCHANGED <<budgets, calls>>
          /\ tx' = [tx EXCEPT ![s].at = "insert", ![s].seen = seen, ![s].todo = todo]
      BY <1>2 DEF SelectBudget, Inv, Transactions
    <2>6. budgets[k].spent + budgets[k].reserved + tx[s].row.est <= seen
      BY <1>2 DEF Fits
    <2>7. (todo = <<>> \/ (todo = <<SlotLock(tx[s].row.slot)>> /\ tx[s].row.slot # NULL))
      OBVIOUS
    <2> HIDE DEF seen, todo, k
    <2>8. tx' = [tx EXCEPT ![s] = n] /\ n = [tx[s] EXCEPT !.at = "insert", !.seen = seen, !.todo = todo]
      BY <2>5
    <2>9. /\ n \in Tx /\ n.at = "insert" /\ n.seen = seen /\ n.todo = todo /\ n.held = tx[s].held
          /\ n.row = tx[s].row /\ n.id = tx[s].id
      BY <2>1, <2>3, <2>4, <2>8 DEF Tx, At
    <2> HIDE DEF n
    <2>10. Standing(s, n)
      <3>1. InsertOK(s, n)
        BY <2>1, <2>3, <2>6, <2>7, <2>9 DEF InsertOK, Fresh, Roomy, k
      <3> QED
        BY <2>1, <2>9, <3>1 DEF Standing, ReserveOK, CloseOK, SweepOK, Sweeping
    <2>11. ASSUME NEW t \in Session \ {s} PROVE Apart(n, tx[t])
      <3>1. Apart(tx[s], tx[t])
        BY DEF Inv, Transactions
      <3> QED
        BY <2>1, <2>9, <3>1 DEF Apart
    <2> QED
      BY <2>5, <2>8, <2>10, <2>11, Moves DEF n
  <1> QED
    BY <1>1, <1>2

LEMMA TakenFacts ==
    ASSUME Inv, NEW s \in Session, tx[s].at \in Sweeping
    PROVE  /\ TakenBy(s) \subseteq Promise!Entered
           /\ IsFiniteSet(TakenBy(s))
           /\ \A c \in TakenBy(s) : Promise!IsOpen(c)
           /\ tx[s].old \subseteq Promise!Entered
  <1>1. SweepOK(tx[s])
    BY StandingOf
  <1>2. \A c \in TakenBy(s) : c \in CallId /\ Promise!IsOpen(c)
    BY <1>1 DEF SweepOK, TakenBy
  <1>3. TakenBy(s) \subseteq Promise!Entered
    BY <1>2 DEF Promise!Entered, Promise!IsOpen
  <1> QED
    BY <1>1, <1>2, <1>3, FS_Subset DEF SweepOK, Inv, Rows

LEMMA SelectUnknownGoes == ASSUME Inv, NEW s \in Session, SelectUnknown(s) PROVE Inv'
  <1>1. PICK order \in InOrder(Unswept(s) \ TakenBy(s)) :
          tx' = [tx EXCEPT ![s].at = "unknown", ![s].todo = CallLocks(order)]
    BY DEF SelectUnknown
  <1> DEFINE n == tx'[s]
  <1>2. /\ tx[s] \in Tx /\ Standing(s, tx[s]) /\ SweepOK(tx[s]) /\ tx[s].at = "stale"
        /\ UNCHANGED <<budgets, calls>> /\ tx \in [Session -> Tx]
    BY StandingOf DEF SelectUnknown, Inv, Transactions
  <1>3. CallLocks(order) \in Seq(EnteredLocks) /\ CallLocks(order) \in Seq(Lock)
    <2>1. Unswept(s) \ TakenBy(s) \subseteq Promise!Entered
      BY <1>2, TakenFacts DEF Unswept, Sweeping
    <2>2. IsFiniteSet(Unswept(s) \ TakenBy(s))
      BY <2>1, FS_Subset DEF Inv, Rows
    <2>3. order \in Seq(Promise!Entered)
      BY <2>1, <2>2, OrdersAreOf DEF InOrder
    <2> QED
      BY <2>3, LocksOfCalls
  <1>4. /\ tx' = [tx EXCEPT ![s] = n]
        /\ n = [tx[s] EXCEPT !.at = "unknown", !.todo = CallLocks(order)]
    BY <1>1, <1>2
  <1>5. /\ n \in Tx /\ n.at = "unknown" /\ n.todo = CallLocks(order) /\ n.held = tx[s].held
        /\ n.old = tx[s].old /\ n.id = tx[s].id
    BY <1>2, <1>3, <1>4 DEF Tx, At
  <1> HIDE DEF n
  <1>6. Standing(s, n)
    <2>1. tx[s].held \subseteq EnteredLocks
      BY <1>2 DEF SweepOK, Sweeping
    <2>2. \A l \in n.held : l.of # "slot"
      BY <1>5, <2>1, LockParts DEF EnteredLocks
    <2>3. SweepOK(n)
      BY <1>2, <1>3, <1>5, <2>2 DEF SweepOK, Sweeping
    <2> QED
      BY <1>2, <1>5, <2>3 DEF Standing, ReserveOK, InsertOK, CloseOK, Sweeping
  <1>7. ASSUME NEW t \in Session \ {s} PROVE Apart(n, tx[t])
    <2>1. Apart(tx[s], tx[t])
      BY DEF Inv, Transactions
    <2> QED
      BY <1>5, <2>1 DEF Apart
  <1> QED
    BY <1>2, <1>4, <1>6, <1>7, Moves DEF n

LEMMA LockBudgetsGoes == ASSUME Inv, NEW s \in Session, LockBudgets(s) PROVE Inv'
  <1> DEFINE keys == {calls[c].key : c \in TakenBy(s)}
             n == tx'[s]
  <1>1. PICK order \in InOrder(keys) :
          tx' = [tx EXCEPT ![s].at = "charge", ![s].todo = BudgetLocks(order)]
    BY DEF LockBudgets
  <1>2. /\ tx[s] \in Tx /\ Standing(s, tx[s]) /\ SweepOK(tx[s]) /\ tx[s].at = "unknown"
        /\ UNCHANGED <<budgets, calls>> /\ tx \in [Session -> Tx]
    BY StandingOf DEF LockBudgets, Inv, Transactions
  <1>3. BudgetLocks(order) \in Seq(KeyLocks) /\ BudgetLocks(order) \in Seq(Lock)
    <2>1. TakenBy(s) \subseteq Promise!Entered /\ IsFiniteSet(TakenBy(s))
      BY <1>2, TakenFacts DEF Sweeping
    <2>2. keys \subseteq Key
      <3>1. \A c \in TakenBy(s) : calls[c] \in Promise!Call
        BY <2>1 DEF Inv, Rows, Promise!Entered
      <3> QED
        BY <3>1 DEF Promise!Call
    <2>3. IsFiniteSet(keys)
      <3> DEFINE f == [c \in TakenBy(s) |-> calls[c].key]
      <3>1. f \in Surjection(TakenBy(s), keys)
        BY DEF Surjection
      <3> QED
        BY <2>1, <3>1, FS_Surjection
    <2>4. order \in Seq(keys)
      <3> HIDE DEF keys
      <3> QED
        BY <2>3, OrdersAreOf DEF InOrder
    <2>5. order \in Seq(Key)
      BY <2>2, <2>4
    <2> QED
      BY <2>5, LocksOfKeys
  <1>4. /\ tx' = [tx EXCEPT ![s] = n]
        /\ n = [tx[s] EXCEPT !.at = "charge", !.todo = BudgetLocks(order)]
    BY <1>1, <1>2
  <1>5. /\ n \in Tx /\ n.at = "charge" /\ n.todo = BudgetLocks(order) /\ n.held = tx[s].held
        /\ n.old = tx[s].old /\ n.id = tx[s].id
    BY <1>2, <1>3, <1>4 DEF Tx, At
  <1> HIDE DEF n
  <1>6. Standing(s, n)
    <2>1. tx[s].held \subseteq EnteredLocks
      BY <1>2 DEF SweepOK, Sweeping
    <2>2. \A l \in n.held : l.of # "slot"
      BY <1>5, <2>1, LockParts DEF EnteredLocks
    <2>3. SweepOK(n)
      BY <1>2, <1>3, <1>5, <2>2 DEF SweepOK, Sweeping
    <2> QED
      BY <1>2, <1>5, <2>3 DEF Standing, ReserveOK, InsertOK, CloseOK, Sweeping
  <1>7. ASSUME NEW t \in Session \ {s} PROVE Apart(n, tx[t])
    <2>1. Apart(tx[s], tx[t])
      BY DEF Inv, Transactions
    <2> QED
      BY <1>5, <2>1 DEF Apart
  <1> QED
    BY <1>2, <1>4, <1>6, <1>7, Moves DEF n

-----------------------------------------------------------------------------
(* The steps that write.                                                   *)

\* What each call entered holds or has spent, and which hold, which spent.
EstOf == [c \in Promise!Entered |-> calls[c].est]
ChargeOf == [c \in Promise!Entered |-> calls[c].charged]
OpenOf(k) == {c \in Promise!Entered : Promise!IsOpen(c) /\ calls[c].key = k}
ClosedOf(k) == {c \in Promise!Entered : ~Promise!IsOpen(c) /\ calls[c].key = k}

LEMMA SumsOf ==
    ASSUME NEW k
    PROVE  /\ Promise!Reserved(k) = Promise!Total(EstOf, OpenOf(k))
           /\ Promise!Spent(k) = Promise!Total(ChargeOf, ClosedOf(k))
           /\ Promise!Reserved(k)' = Promise!Total(EstOf', OpenOf(k)')
           /\ Promise!Spent(k)' = Promise!Total(ChargeOf', ClosedOf(k)')
  BY DEF Promise!Reserved, Promise!Spent, EstOf, ChargeOf, OpenOf, ClosedOf

LEMMA AmountsOf ==
    ASSUME Rows, NEW k
    PROVE  /\ IsFiniteSet(OpenOf(k)) /\ IsFiniteSet(ClosedOf(k))
           /\ \A c \in OpenOf(k) : EstOf[c] \in Int
           /\ \A c \in ClosedOf(k) : ChargeOf[c] \in Int
           /\ Promise!Reserved(k) \in Int /\ Promise!Spent(k) \in Int
  <1>1. OpenOf(k) \subseteq Promise!Entered /\ ClosedOf(k) \subseteq Promise!Entered
    BY DEF OpenOf, ClosedOf
  <1>2. IsFiniteSet(OpenOf(k)) /\ IsFiniteSet(ClosedOf(k))
    BY <1>1, FS_Subset DEF Rows
  <1>3. \A c \in Promise!Entered : calls[c] \in Promise!Call
    BY DEF Promise!Entered, Rows
  <1>4. ASSUME NEW c \in OpenOf(k) PROVE EstOf[c] \in Int
    <2>1. EstOf[c] = calls[c].est /\ calls[c] \in Promise!Call
      BY <1>1, <1>3 DEF EstOf
    <2>2. calls[c].est \in Est
      BY <2>1 DEF Promise!Call
    <2>3. \A x \in Est : x \in Int
      BY Constants
    <2> QED
      BY <2>1, <2>2, <2>3
  <1>5. ASSUME NEW c \in ClosedOf(k) PROVE ChargeOf[c] \in Int
    <2>1. c \in Promise!Entered /\ calls[c].charged # NULL
      BY DEF ClosedOf, Promise!IsOpen, Promise!Entered
    <2>3. ChargeOf[c] = calls[c].charged
      BY <2>1 DEF ChargeOf
    <2>2. calls[c].charged \in Est \cup Charge \cup {0, NULL}
      BY <1>3, <2>1 DEF Promise!Call
    <2>4. \A x \in Est \cup Charge \cup {0} : x \in Int
      BY Constants
    <2> QED
      BY <2>1, <2>2, <2>3, <2>4
  <1>6. Promise!Reserved(k) \in Int /\ Promise!Spent(k) \in Int
    BY <1>2, <1>4, <1>5, SumsOf, TotalInt
  <1> QED
    BY <1>2, <1>4, <1>5, <1>6

\* Nobody locks a call that is not entered.
LEMMA LockedIsEntered ==
    ASSUME Inv, NEW t \in Session, NEW c \in CallId, CallLock(c) \in tx[t].held
    PROVE  c \in Promise!Entered
  <1>1. /\ tx[t] \in Tx /\ Standing(t, tx[t])
        /\ ReserveOK(tx[t]) /\ InsertOK(t, tx[t]) /\ CloseOK(tx[t]) /\ SweepOK(tx[t])
    BY StandingOf
  <1>2. tx[t].at # "idle"
    BY <1>1, IdleFacts DEF Standing
  <1>3. tx[t].at # "reserve"
    BY <1>1, LockFacts DEF ReserveOK
  <1>4. tx[t].at # "insert"
    BY <1>1, LockFacts DEF InsertOK
  <1>5. CASE tx[t].at = "close"
    <2>1. c = tx[t].id
      BY <1>1, <1>5, LockFacts DEF CloseOK
    <2> QED
      BY <1>1, <1>5, <2>1 DEF CloseOK, Promise!Entered
  <1>6. CASE tx[t].at \in Sweeping
    BY <1>1, <1>6 DEF SweepOK, Promise!IsOpen, Promise!Entered
  <1>7. tx[t].at \in At
    BY <1>1 DEF Tx
  <1> QED
    BY <1>2, <1>3, <1>4, <1>5, <1>6, <1>7 DEF At, Sweeping

LEMMA FreshOf ==
    ASSUME Inv, NEW t \in Session, tx[t].at \in {"reserve", "insert"}
    PROVE  tx[t].id \in CallId /\ calls[tx[t].id] = NULL
  BY StandingOf DEF ReserveOK, InsertOK, Fresh

\* The amounts of one call more.
LEMMA OneMore ==
    ASSUME NEW f, NEW g, NEW S, IsFiniteSet(S), NEW x, x \notin S,
           \A y \in S : f[y] \in Int /\ g[y] = f[y], g[x] \in Int
    PROVE  Promise!Total(g, S \cup {x}) = Promise!Total(f, S) + g[x]
  <1>1. IsFiniteSet(S \cup {x}) /\ (S \cup {x}) \ {x} = S
    BY FS_AddElement
  <1>2. \A y \in S \cup {x} : g[y] \in Int
    OBVIOUS
  <1>3. Promise!Total(g, S \cup {x}) = g[x] + Promise!Total(g, S)
    BY <1>1, <1>2, TotalTakes
  <1>4. Promise!Total(g, S) = Promise!Total(f, S)
    BY TotalAgrees
  <1>5. Promise!Total(f, S) \in Int
    BY TotalInt
  <1> QED
    BY <1>3, <1>4, <1>5

\* A reservation: one call more is open.
LEMMA ReserveAdds ==
    ASSUME Inv, NEW c \in CallId, calls[c] = NULL, NEW r \in Promise!Call, r.charged = NULL,
           calls' = [calls EXCEPT ![c] = r],
           budgets' \in [Key -> [cap : Nat, spent : Int, reserved : Int]],
           \A k \in Key : /\ budgets'[k].spent = budgets[k].spent
                          /\ budgets'[k].reserved = budgets[k].reserved + (IF k = r.key THEN r.est ELSE 0)
    PROVE  Rows' /\ BudgetsAgree'
  <1>1. /\ calls \in [CallId -> Promise!Call \cup {NULL}] /\ calls' \in [CallId -> Promise!Call \cup {NULL}]
        /\ calls'[c] = r /\ \A d \in CallId \ {c} : calls'[d] = calls[d]
    BY DEF Inv, Rows
  <1>2. r # NULL /\ c \notin Promise!Entered /\ r.est \in Int /\ r.key \in Key
    BY CallFacts DEF Promise!Entered
  <1>3. Promise!Entered' = Promise!Entered \cup {c}
    BY <1>1, <1>2 DEF Promise!Entered
  <1>4. Rows'
    <2>1. IsFiniteSet(Promise!Entered')
      BY <1>3, FS_AddElement DEF Inv, Rows
    <2>2. \A d \in CallId : Closable(d)' => calls'[d].charged = NULL
      BY <1>1 DEF Closable, Inv, Rows
    <2> QED
      BY <1>1, <2>1, <2>2 DEF Rows
  <1>5. ASSUME NEW k \in Key
        PROVE  /\ budgets'[k].spent = Promise!Spent(k)'
               /\ budgets'[k].reserved = Promise!Reserved(k)'
    <2>1. /\ budgets[k].spent = Promise!Spent(k) /\ budgets[k].reserved = Promise!Reserved(k)
          /\ Promise!Reserved(k) \in Int /\ Promise!Spent(k) \in Int
          /\ IsFiniteSet(OpenOf(k)) /\ IsFiniteSet(ClosedOf(k))
          /\ \A d \in OpenOf(k) : EstOf[d] \in Int
      BY AmountsOf DEF Inv, BudgetsAgree
    <2>2. \A d \in Promise!Entered : EstOf'[d] = EstOf[d] /\ ChargeOf'[d] = ChargeOf[d]
      BY <1>1, <1>2, <1>3 DEF EstOf, ChargeOf, Promise!Entered
    <2>3. EstOf'[c] = r.est
      BY <1>1, <1>3 DEF EstOf
    <2>4. \A d \in Promise!Entered : d \in CallId \ {c} /\ (Promise!IsOpen(d)' <=> Promise!IsOpen(d))
      BY <1>1, <1>2 DEF Promise!IsOpen, Promise!Entered
    <2>5. Promise!IsOpen(c)'
      BY <1>1, <1>2 DEF Promise!IsOpen
    <2>6. ClosedOf(k)' = ClosedOf(k)
      BY <1>1, <1>3, <2>4, <2>5 DEF ClosedOf
    <2>7. OpenOf(k)' = IF k = r.key THEN OpenOf(k) \cup {c} ELSE OpenOf(k)
      BY <1>1, <1>3, <2>4, <2>5 DEF OpenOf
    <2>8. Promise!Spent(k)' = Promise!Spent(k)
      <3>1. \A d \in ClosedOf(k) : ChargeOf'[d] = ChargeOf[d]
        BY <2>2 DEF ClosedOf
      <3>2. Promise!Total(ChargeOf', ClosedOf(k)) = Promise!Total(ChargeOf, ClosedOf(k))
        BY <2>1, <3>1, TotalAgrees
      <3> QED
        BY <2>6, <3>2, SumsOf
    <2>9. \A d \in OpenOf(k) : EstOf'[d] = EstOf[d]
      BY <2>2 DEF OpenOf
    <2>10. CASE k = r.key
      <3>1. c \notin OpenOf(k)
        BY <1>2 DEF OpenOf
      <3>2. Promise!Total(EstOf', OpenOf(k) \cup {c}) = Promise!Total(EstOf, OpenOf(k)) + EstOf'[c]
        BY <1>2, <2>1, <2>3, <2>9, <3>1, OneMore
      <3>3. Promise!Reserved(k)' = Promise!Reserved(k) + r.est
        BY <2>3, <2>7, <2>10, <3>2, SumsOf
      <3> QED
        BY <2>1, <2>8, <2>10, <3>3
    <2>11. CASE k # r.key
      <3>1. Promise!Total(EstOf', OpenOf(k)) = Promise!Total(EstOf, OpenOf(k))
        BY <2>1, <2>9, TotalAgrees
      <3>2. Promise!Reserved(k)' = Promise!Reserved(k)
        BY <2>7, <2>11, <3>1, SumsOf
      <3> QED
        BY <2>1, <2>8, <2>11, <3>2
    <2> QED
      BY <2>10, <2>11
  <1> QED
    BY <1>4, <1>5 DEF BudgetsAgree

\* A close: what the call held is free, what it is charged is spent.
LEMMA CloseMoves ==
    ASSUME Inv, NEW c \in CallId, Closable(c), NEW r \in Promise!Call, r.status = "CLOSED",
           r.charged # NULL, r.key = calls[c].key, r.est = calls[c].est,
           calls' = [calls EXCEPT ![c] = r],
           budgets' \in [Key -> [cap : Nat, spent : Int, reserved : Int]],
           \A k \in Key :
             /\ budgets'[k].spent = budgets[k].spent + (IF k = r.key THEN r.charged ELSE 0)
             /\ budgets'[k].reserved = budgets[k].reserved - (IF k = r.key THEN r.est ELSE 0)
    PROVE  Rows' /\ BudgetsAgree'
  <1>1. /\ calls \in [CallId -> Promise!Call \cup {NULL}] /\ calls' \in [CallId -> Promise!Call \cup {NULL}]
        /\ calls'[c] = r /\ \A d \in CallId \ {c} : calls'[d] = calls[d]
    BY DEF Inv, Rows
  <1>2. r # NULL /\ c \in Promise!Entered /\ r.charged \in Int /\ calls[c].charged = NULL
    <2>1. r # NULL /\ r.charged \in Int
      BY CallFacts
    <2>2. c \in Promise!Entered /\ calls[c].charged = NULL
      BY DEF Closable, Promise!Entered, Inv, Rows
    <2> QED
      BY <2>1, <2>2
  <1>3. Promise!Entered' = Promise!Entered
    BY <1>1, <1>2 DEF Promise!Entered
  <1>4. Rows'
    <2>1. IsFiniteSet(Promise!Entered')
      BY <1>3 DEF Inv, Rows
    <2>2. \A d \in CallId : Closable(d)' => calls'[d].charged = NULL
      BY <1>1 DEF Closable, Inv, Rows
    <2> QED
      BY <1>1, <2>1, <2>2 DEF Rows
  <1>5. ASSUME NEW k \in Key
        PROVE  /\ budgets'[k].spent = Promise!Spent(k)'
               /\ budgets'[k].reserved = Promise!Reserved(k)'
    <2>1. /\ budgets[k].spent = Promise!Spent(k) /\ budgets[k].reserved = Promise!Reserved(k)
          /\ Promise!Reserved(k) \in Int /\ Promise!Spent(k) \in Int
          /\ IsFiniteSet(OpenOf(k)) /\ IsFiniteSet(ClosedOf(k))
          /\ \A d \in OpenOf(k) : EstOf[d] \in Int
          /\ \A d \in ClosedOf(k) : ChargeOf[d] \in Int
      BY AmountsOf DEF Inv, BudgetsAgree
    <2>2. \A d \in Promise!Entered : EstOf'[d] = EstOf[d]
      BY <1>1, <1>2, <1>3 DEF EstOf, Promise!Entered
    <2>3. \A d \in Promise!Entered \ {c} : ChargeOf'[d] = ChargeOf[d]
      BY <1>1, <1>3 DEF ChargeOf, Promise!Entered
    <2>4. EstOf[c] = r.est /\ ChargeOf'[c] = r.charged
      BY <1>1, <1>2, <1>3 DEF EstOf, ChargeOf
    <2>5. /\ Promise!IsOpen(c) /\ ~Promise!IsOpen(c)'
          /\ \A d \in Promise!Entered \ {c} : Promise!IsOpen(d)' <=> Promise!IsOpen(d)
      BY <1>1, <1>2 DEF Promise!IsOpen, Promise!Entered
    <2>6. \A d \in Promise!Entered : calls'[d].key = calls[d].key
      BY <1>1 DEF Promise!Entered
    <2>7. OpenOf(k)' = OpenOf(k) \ {c}
      BY <1>3, <2>5, <2>6 DEF OpenOf
    <2>8. ClosedOf(k)' = IF k = r.key THEN ClosedOf(k) \cup {c} ELSE ClosedOf(k)
      BY <1>2, <1>3, <2>5, <2>6 DEF ClosedOf
    <2>9. /\ \A d \in OpenOf(k) : EstOf'[d] = EstOf[d]
          /\ \A d \in ClosedOf(k) : ChargeOf'[d] = ChargeOf[d] /\ c \notin ClosedOf(k)
      BY <2>2, <2>3, <2>5 DEF OpenOf, ClosedOf
    <2>10. CASE k = r.key
      <3>1. c \in OpenOf(k)
        BY <1>2, <2>5, <2>10 DEF OpenOf
      <3>2. /\ Promise!Total(EstOf, OpenOf(k)) = Promise!Total(EstOf', OpenOf(k)') + EstOf[c]
            /\ Promise!Total(EstOf', OpenOf(k)') \in Int
        <4> DEFINE R == OpenOf(k)'
        <4>1. R \cup {c} = OpenOf(k) /\ c \notin R /\ R \subseteq OpenOf(k)
          BY <2>7, <3>1
        <4>2. IsFiniteSet(R)
          BY <2>1, <4>1, FS_Subset
        <4>3. \A d \in R : EstOf'[d] \in Int /\ EstOf[d] = EstOf'[d]
          BY <2>1, <2>9, <4>1
        <4>4. EstOf[c] \in Int
          BY <2>1, <3>1
        <4> HIDE DEF R
        <4>5. Promise!Total(EstOf, R \cup {c}) = Promise!Total(EstOf', R) + EstOf[c]
          BY <4>1, <4>2, <4>3, <4>4, OneMore
        <4>6. Promise!Total(EstOf', R) \in Int
          BY <4>2, <4>3, TotalInt
        <4> QED
          BY <4>1, <4>5, <4>6 DEF R
      <3>3. c \notin ClosedOf(k)
        BY <2>5 DEF ClosedOf
      <3>4. Promise!Total(ChargeOf', ClosedOf(k) \cup {c})
              = Promise!Total(ChargeOf, ClosedOf(k)) + ChargeOf'[c]
        BY <1>2, <2>1, <2>4, <2>9, <3>3, OneMore
      <3>5. Promise!Reserved(k) = Promise!Reserved(k)' + r.est
        BY <2>4, <3>2, SumsOf
      <3>7. Promise!Reserved(k)' \in Int
        BY <3>2, SumsOf
      <3>6. Promise!Spent(k)' = Promise!Spent(k) + r.charged
        BY <2>4, <2>8, <2>10, <3>4, SumsOf
      <3> QED
        BY <2>1, <2>10, <3>5, <3>6, <3>7, CallFacts
    <2>11. CASE k # r.key
      <3>1. OpenOf(k) \ {c} = OpenOf(k)
        BY <2>11 DEF OpenOf
      <3>2. /\ Promise!Total(EstOf', OpenOf(k)) = Promise!Total(EstOf, OpenOf(k))
            /\ Promise!Total(ChargeOf', ClosedOf(k)) = Promise!Total(ChargeOf, ClosedOf(k))
        BY <2>1, <2>9, TotalAgrees
      <3>3. Promise!Reserved(k)' = Promise!Reserved(k)
        <4>1. OpenOf(k)' = OpenOf(k)
          BY <2>7, <3>1
        <4> QED
          BY <3>2, <4>1, SumsOf
      <3>4. Promise!Spent(k)' = Promise!Spent(k)
        BY <2>8, <2>11, <3>2, SumsOf
      <3> QED
        BY <2>1, <2>11, <3>3, <3>4
    <2> QED
      BY <2>10, <2>11
  <1> QED
    BY <1>4, <1>5 DEF BudgetsAgree

\* What a sweep takes of a key.
Swept(s, k) == {c \in TakenBy(s) : calls[c].key = k}

LEMMA SweptSum ==
    ASSUME Inv, NEW s \in Session, tx[s].at \in Sweeping, NEW k
    PROVE  /\ SweptOf(s, k) = Promise!Total(EstOf, Swept(s, k)) /\ SweptOf(s, k) \in Int
           /\ Swept(s, k) \subseteq OpenOf(k) /\ IsFiniteSet(Swept(s, k))
  <1> DEFINE S == Swept(s, k)
             f == [c \in S |-> calls[c].est]
  <1>1. S \subseteq OpenOf(k)
    BY TakenFacts DEF Swept, OpenOf
  <1>2. IsFiniteSet(S) /\ \A c \in S : EstOf[c] \in Int
    BY <1>1, AmountsOf, FS_Subset DEF Inv
  <1>3. \A c \in S : f[c] = EstOf[c]
    BY <1>1 DEF EstOf, OpenOf
  <1>4. SweptOf(s, k) = Promise!Total(f, S)
    BY DEF SweptOf, Swept
  <1> HIDE DEF S, f
  <1>5. Promise!Total(f, S) = Promise!Total(EstOf, S)
    BY <1>2, <1>3, TotalAgrees
  <1>6. Promise!Total(EstOf, S) \in Int
    BY <1>2, TotalInt
  <1> QED
    BY <1>1, <1>2, <1>4, <1>5, <1>6 DEF S

LEMMA AddedAndTaken == \A a, b \in Int : (a + b) - b = a
  OBVIOUS

\* A sweep: what the calls it took held is spent.
LEMMA SweepMoves ==
    ASSUME Inv, NEW s \in Session, tx[s].at \in Sweeping,
           calls' = [c \in CallId |->
                       IF c \in TakenBy(s)
                       THEN [calls[c] EXCEPT !.status = "UNKNOWN", !.charged = calls[c].est]
                       ELSE calls[c]],
           budgets' \in [Key -> [cap : Nat, spent : Int, reserved : Int]],
           \A k \in Key :
             /\ budgets'[k].spent = budgets[k].spent + SweptOf(s, k)
             /\ budgets'[k].reserved = budgets[k].reserved - SweptOf(s, k)
    PROVE  Rows' /\ BudgetsAgree'
  <1>0. TakenBy(s) \subseteq Promise!Entered /\ \A c \in TakenBy(s) : Promise!IsOpen(c)
    BY TakenFacts
  <1>1. \A c \in Promise!Entered : c \in CallId /\ calls[c] \in Promise!Call /\ calls[c] # NULL
    BY DEF Promise!Entered, Inv, Rows
  <1>2. ASSUME NEW c \in TakenBy(s)
        PROVE  /\ calls'[c] \in Promise!Call /\ calls'[c].status = "UNKNOWN"
               /\ calls'[c].charged = calls[c].est /\ calls'[c].key = calls[c].key
               /\ calls'[c].est = calls[c].est /\ calls'[c] # NULL /\ calls'[c].charged # NULL
    <2>1. calls[c] \in Promise!Call /\ c \in CallId
      BY <1>0, <1>1
    <2>2. calls[c].est \in Est /\ calls[c].est # NULL
      BY <2>1, CallFacts, Constants
    <2>3. calls'[c] = [calls[c] EXCEPT !.status = "UNKNOWN", !.charged = calls[c].est]
      BY <2>1
    <2>4. /\ calls'[c] \in Promise!Call /\ calls'[c].status = "UNKNOWN"
          /\ calls'[c].charged = calls[c].est /\ calls'[c].key = calls[c].key
          /\ calls'[c].est = calls[c].est
      BY <2>1, <2>2, <2>3 DEF Promise!Call, Promise!CallStatus
    <2> QED
      BY <2>2, <2>4, CallFacts
  <1>3. \A c \in CallId \ TakenBy(s) : calls'[c] = calls[c]
    OBVIOUS
  <1>4. Promise!Entered' = Promise!Entered
    BY <1>0, <1>2, <1>3 DEF Promise!Entered
  <1>5. Rows'
    <2>1. IsFiniteSet(Promise!Entered')
      BY <1>4 DEF Inv, Rows
    <2>2. calls' \in [CallId -> Promise!Call \cup {NULL}]
      <3>1. \A c \in CallId : calls'[c] \in Promise!Call \cup {NULL}
        BY <1>2, <1>3 DEF Inv, Rows
      <3> QED
        BY <3>1
    <2>3. \A c \in CallId : Closable(c)' => calls'[c].charged = NULL
      BY <1>2, <1>3 DEF Closable, Inv, Rows
    <2> QED
      BY <2>1, <2>2, <2>3 DEF Rows
  <1>6. ASSUME NEW k \in Key
        PROVE  /\ budgets'[k].spent = Promise!Spent(k)'
               /\ budgets'[k].reserved = Promise!Reserved(k)'
    <2> DEFINE S == Swept(s, k)
               R == OpenOf(k)'
    <2>1. /\ budgets[k].spent = Promise!Spent(k) /\ budgets[k].reserved = Promise!Reserved(k)
          /\ IsFiniteSet(OpenOf(k)) /\ IsFiniteSet(ClosedOf(k))
          /\ \A c \in OpenOf(k) : EstOf[c] \in Int
          /\ \A c \in ClosedOf(k) : ChargeOf[c] \in Int
      BY AmountsOf DEF Inv, BudgetsAgree
    <2>2. /\ SweptOf(s, k) = Promise!Total(EstOf, S) /\ SweptOf(s, k) \in Int
          /\ S \subseteq OpenOf(k) /\ IsFiniteSet(S)
      BY SweptSum
    <2>3. \A c \in Promise!Entered : calls'[c].key = calls[c].key /\ calls'[c].est = calls[c].est
      BY <1>1, <1>2, <1>3
    <2>4. /\ \A c \in S : ~Promise!IsOpen(c)'
          /\ \A c \in OpenOf(k) \ S : Promise!IsOpen(c)' /\ calls'[c] = calls[c]
          /\ \A c \in ClosedOf(k) : ~Promise!IsOpen(c)' /\ calls'[c] = calls[c]
      BY <1>0, <1>1, <1>2, <1>3 DEF Swept, OpenOf, ClosedOf, Promise!IsOpen
    <2>5. \A c \in Promise!Entered : calls[c].key = k <=> c \in OpenOf(k) \cup ClosedOf(k)
      BY DEF OpenOf, ClosedOf
    <2>6. R \cup S = OpenOf(k) /\ R \cap S = {}
      BY <1>4, <2>2, <2>3, <2>4, <2>5 DEF OpenOf
    <2>7. ClosedOf(k)' = ClosedOf(k) \cup S /\ ClosedOf(k) \cap S = {}
      <3>1. \A c \in OpenOf(k) : c \in Promise!Entered /\ c \notin ClosedOf(k)
        BY DEF OpenOf, ClosedOf
      <3> QED
        BY <1>4, <2>2, <2>3, <2>4, <2>5, <3>1 DEF ClosedOf
    <2>8. /\ \A c \in R : EstOf'[c] = EstOf[c]
          /\ \A c \in ClosedOf(k) : ChargeOf'[c] = ChargeOf[c]
          /\ \A c \in S : ChargeOf'[c] = EstOf[c]
      <3>1. \A c \in Promise!Entered : EstOf'[c] = EstOf[c] /\ ChargeOf'[c] = calls'[c].charged
        <4> SUFFICES ASSUME NEW c \in Promise!Entered
                     PROVE  EstOf'[c] = EstOf[c] /\ ChargeOf'[c] = calls'[c].charged
          OBVIOUS
        <4>1. c \in Promise!Entered'
          BY <1>4
        <4>2. EstOf[c] = calls[c].est
          BY DEF EstOf
        <4>3. EstOf'[c] = calls'[c].est /\ ChargeOf'[c] = calls'[c].charged
          BY <4>1 DEF EstOf, ChargeOf
        <4> QED
          BY <2>3, <4>2, <4>3
      <3>2. \A c \in ClosedOf(k) : ChargeOf'[c] = ChargeOf[c]
        <4> SUFFICES ASSUME NEW c \in ClosedOf(k) PROVE ChargeOf'[c] = ChargeOf[c]
          OBVIOUS
        <4>1. c \in Promise!Entered /\ calls'[c] = calls[c]
          BY <2>4 DEF ClosedOf
        <4>2. ChargeOf[c] = calls[c].charged
          BY <4>1 DEF ChargeOf
        <4> QED
          BY <3>1, <4>1, <4>2
      <3>3. \A c \in S : ChargeOf'[c] = EstOf[c]
        BY <1>0, <1>2, <3>1 DEF EstOf, Swept
      <3>4. R \subseteq Promise!Entered
        BY <1>4 DEF OpenOf
      <3> QED
        BY <3>1, <3>2, <3>3, <3>4
    <2> HIDE DEF S, R
    <2>9. IsFiniteSet(R) /\ R \subseteq OpenOf(k)
      BY <2>1, <2>6, FS_Subset
    <2>10. Promise!Total(EstOf, OpenOf(k)) = Promise!Total(EstOf', R) + SweptOf(s, k)
      <3>1. \A c \in R \cup S : EstOf[c] \in Int
        BY <2>1, <2>6
      <3>2. Promise!Total(EstOf, R \cup S) = Promise!Total(EstOf, R) + Promise!Total(EstOf, S)
        BY <2>2, <2>6, <2>9, <3>1, TotalUnion
      <3>3. Promise!Total(EstOf', R) = Promise!Total(EstOf, R)
        BY <2>8, <2>9, TotalAgrees
      <3> QED
        BY <2>2, <2>6, <3>2, <3>3
    <2>11. Promise!Total(ChargeOf', ClosedOf(k)') = Promise!Total(ChargeOf, ClosedOf(k)) + SweptOf(s, k)
      <3>1. \A c \in ClosedOf(k) \cup S : ChargeOf'[c] \in Int
        BY <2>1, <2>2, <2>8
      <3>2. Promise!Total(ChargeOf', ClosedOf(k) \cup S)
              = Promise!Total(ChargeOf', ClosedOf(k)) + Promise!Total(ChargeOf', S)
        BY <2>1, <2>2, <2>7, <3>1, TotalUnion
      <3>3. Promise!Total(ChargeOf', ClosedOf(k)) = Promise!Total(ChargeOf, ClosedOf(k))
        BY <2>1, <2>8, TotalAgrees
      <3>4. Promise!Total(ChargeOf', S) = Promise!Total(EstOf, S)
        BY <2>2, <2>8, TotalAgrees
      <3> QED
        BY <2>2, <2>7, <3>2, <3>3, <3>4
    <2>12. Promise!Total(EstOf', R) \in Int
      <3>1. \A c \in R : EstOf'[c] \in Int
        BY <2>1, <2>8, <2>9
      <3> QED
        BY <2>9, <3>1, TotalInt
    <2>13. Promise!Reserved(k) = Promise!Reserved(k)' + SweptOf(s, k) /\ Promise!Reserved(k)' \in Int
      BY <2>10, <2>12, SumsOf DEF R
    <2>14. Promise!Spent(k)' = Promise!Spent(k) + SweptOf(s, k)
      BY <2>11, SumsOf
    <2>15. /\ budgets'[k].spent = budgets[k].spent + SweptOf(s, k)
           /\ budgets'[k].reserved = budgets[k].reserved - SweptOf(s, k)
      OBVIOUS
    <2>16. budgets'[k].spent = Promise!Spent(k)'
      BY <2>1, <2>14, <2>15
    <2>17. budgets'[k].reserved = Promise!Reserved(k)'
      <3>2. (Promise!Reserved(k)' + SweptOf(s, k)) - SweptOf(s, k) = Promise!Reserved(k)'
        BY <2>2, <2>13, AddedAndTaken
      <3> QED
        BY <2>1, <2>13, <2>15, <3>2
    <2> QED
      BY <2>16, <2>17
  <1> QED
    BY <1>5, <1>6 DEF BudgetsAgree

\* What a write makes of a budget row.
Amounts == [cap : Nat, spent : Int, reserved : Int]

LEMMA Booked ==
    ASSUME NEW b \in Amounts, NEW x \in Int, NEW y \in Int, NEW d,
           d = [b EXCEPT !.spent = @ + x, !.reserved = @ - y]
    PROVE  d \in Amounts /\ d.cap = b.cap /\ d.spent = b.spent + x /\ d.reserved = b.reserved - y
  <1> DEFINE u == b.spent + x
             v == b.reserved - y
  <1>1. u \in Int /\ v \in Int /\ d = [b EXCEPT !.spent = u, !.reserved = v]
    BY DEF Amounts
  <1> HIDE DEF u, v
  <1>2. d \in Amounts /\ d.cap = b.cap /\ d.spent = u /\ d.reserved = v
    BY <1>1 DEF Amounts
  <1> QED
    BY <1>2 DEF u, v

\* Who closes a call, inserts a row or sweeps holds the lock; the others do not.
LEMMA HeldAlone ==
    ASSUME Inv, NEW s \in Session, NEW t \in Session \ {s}, NEW l, l \in tx[s].held
    PROVE  l \notin tx[t].held
  BY DEF Inv, Transactions, Apart

LEMMA CommitReserveGoes == ASSUME Inv, NEW s \in Session, CommitReserve(s) PROVE Inv'
  <1> DEFINE r == tx[s].row
             c == tx[s].id
             k == r.key
  <1>1. CASE SlotTaken(r.slot)
    BY <1>1, Quits DEF CommitReserve
  <1>2. CASE ~SlotTaken(r.slot)
    <2>1. /\ tx[s].at = "insert" /\ tx[s] \in Tx /\ Fresh(tx[s]) /\ Roomy(s, tx[s])
          /\ BudgetLock(k) \in tx[s].held
      BY StandingOf DEF CommitReserve, InsertOK
    <2>2. c \in CallId /\ calls[c] = NULL /\ r \in Promise!Call /\ r.charged = NULL /\ k \in Key
      BY <2>1, CallFacts DEF Fresh
    <2>3. tx[s].seen \in Nat
      BY <2>1, <2>2, Constants DEF Roomy, Inv, Rows
    <2>4. /\ calls' = [calls EXCEPT ![c] = r]
          /\ budgets' = [budgets EXCEPT ![k].reserved = @ + r.est, ![k].cap = tx[s].seen]
          /\ tx' = [tx EXCEPT ![s] = Idle]
      BY <1>2 DEF CommitReserve, Ends
    <2>5. /\ budgets' \in [Key -> [cap : Nat, spent : Int, reserved : Int]]
          /\ \A j \in Key \ {k} : budgets'[j] = budgets[j]
          /\ budgets'[k].spent = budgets[k].spent /\ budgets'[k].reserved = budgets[k].reserved + r.est
      <3>1. /\ budgets \in [Key -> [cap : Nat, spent : Int, reserved : Int]] /\ k \in Key
            /\ r.est \in Int
        BY <2>2, CallFacts DEF Inv, Rows
      <3> DEFINE z == tx[s].seen
                 e == r.est
      <3>2. budgets' = [budgets EXCEPT ![k] = [budgets[k] EXCEPT !.reserved = @ + e, !.cap = z]]
        BY <2>4, <3>1
      <3> HIDE DEF r, k, z, e
      <3>3. budgets'[k] = [budgets[k] EXCEPT !.reserved = @ + e, !.cap = z]
        BY <3>1, <3>2
      <3>4. budgets[k] \in Amounts /\ e \in Int /\ z \in Nat
        BY <2>3, <3>1 DEF Amounts, z, e
      <3>5. /\ budgets'[k] \in Amounts /\ budgets'[k].spent = budgets[k].spent
            /\ budgets'[k].reserved = budgets[k].reserved + e
        <4> DEFINE b == budgets[k]
                   d == budgets'[k]
                   u == b.reserved + e
        <4>1. d = [b EXCEPT !.reserved = u, !.cap = z] /\ b \in Amounts /\ u \in Int
          BY <3>3, <3>4 DEF Amounts
        <4> HIDE DEF b, d, u
        <4>2. d \in Amounts /\ d.spent = b.spent /\ d.reserved = u
          BY <3>4, <4>1 DEF Amounts
        <4> QED
          BY <4>2 DEF b, d, u
      <3>6. budgets' \in [Key -> Amounts] /\ \A j \in Key \ {k} : budgets'[j] = budgets[j]
        BY <3>1, <3>2, <3>3, <3>5 DEF Amounts
      <3> QED
        BY <3>5, <3>6 DEF Amounts, e
    <2>6. Rows' /\ BudgetsAgree'
      <3>1. \A j \in Key : /\ budgets'[j].spent = budgets[j].spent
                           /\ budgets'[j].reserved = budgets[j].reserved + (IF j = k THEN r.est ELSE 0)
        BY <2>5 DEF Inv, Rows
      <3> QED
        BY <2>2, <2>4, <2>5, <3>1, ReserveAdds
    <2>7. ASSUME NEW t \in Session \ {s} PROVE Kept(t)
      <3>1. \A d \in CallId \ {c} : calls'[d] = calls[d]
        BY <2>4 DEF Inv, Rows
      <3>2. \A d \in Promise!Entered : d \in CallId \ {c}
        BY <2>2 DEF Promise!Entered
      <3>3. \A d \in CallId : CallLock(d) \in tx[t].held => calls'[d] = calls[d]
        BY <3>1, <3>2, LockedIsEntered
      <3>4. tx[t].at \in {"reserve", "insert"} => calls'[tx[t].id] = NULL
        <4> SUFFICES ASSUME tx[t].at \in {"reserve", "insert"} PROVE calls'[tx[t].id] = NULL
          OBVIOUS
        <4>1. tx[t].id # c
          BY <2>1 DEF Inv, Transactions, Apart
        <4> QED
          BY <3>1, <4>1, FreshOf
      <3>5. \A j \in Key : BudgetLock(j) \in tx[t].held => budgets'[j] = budgets[j]
        BY <2>1, <2>5, HeldAlone
      <3>6. \A d \in Promise!Entered : calls'[d] = calls[d] /\ calls[d] # NULL
        BY <3>1, <3>2 DEF Promise!Entered
      <3> QED
        BY <3>3, <3>4, <3>5, <3>6 DEF Kept
    <2> QED
      BY <2>4, <2>6, <2>7, Commits
  <1> QED
    BY <1>1, <1>2

LEMMA CommitCloseGoes == ASSUME Inv, NEW s \in Session, CommitClose(s) PROVE Inv'
  <1> DEFINE r == tx[s].row
             c == tx[s].id
             k == r.key
  <1>1. /\ tx[s].at = "close" /\ c \in CallId /\ r \in Promise!Call /\ r.status = "CLOSED"
        /\ r.charged # NULL /\ r.key = calls[c].key /\ r.slot = calls[c].slot /\ r.est = calls[c].est
        /\ Closable(c) /\ CallLock(c) \in tx[s].held /\ BudgetLock(k) \in tx[s].held
    <2>1. tx[s].at = "close" /\ tx[s].todo = <<>> /\ CloseOK(tx[s])
      BY StandingOf DEF CommitClose
    <2>2. tx[s].todo # <<CallLock(c), BudgetLock(k)>> /\ tx[s].todo # <<BudgetLock(k)>>
      BY <2>1
    <2> QED
      BY <2>1, <2>2 DEF CloseOK
  <1>2. /\ k \in Key /\ r.est \in Int /\ r.charged \in Int /\ r # NULL
    BY <1>1, CallFacts
  <1>3. /\ calls' = [calls EXCEPT ![c] = r]
        /\ budgets' = [budgets EXCEPT ![k].spent = @ + r.charged, ![k].reserved = @ - r.est]
        /\ tx' = [tx EXCEPT ![s] = Idle]
    BY DEF CommitClose, Ends, Spends
  <1>4. /\ budgets' \in [Key -> [cap : Nat, spent : Int, reserved : Int]]
        /\ \A j \in Key \ {k} : budgets'[j] = budgets[j]
        /\ budgets'[k].spent = budgets[k].spent + r.charged
        /\ budgets'[k].reserved = budgets[k].reserved - r.est
    <2>1. budgets \in [Key -> [cap : Nat, spent : Int, reserved : Int]]
      BY DEF Inv, Rows
    <2> DEFINE x == r.charged
               e == r.est
    <2>2. budgets' = [budgets EXCEPT ![k] = [budgets[k] EXCEPT !.spent = @ + x, !.reserved = @ - e]]
      BY <1>2, <1>3, <2>1
    <2>3. k \in Key /\ x \in Int /\ e \in Int
      BY <1>2
    <2> HIDE DEF r, k, x, e
    <2>4. budgets'[k] = [budgets[k] EXCEPT !.spent = @ + x, !.reserved = @ - e]
      BY <2>1, <2>2, <2>3
    <2>5. budgets[k] \in Amounts
      BY <2>1, <2>3 DEF Amounts
    <2>6. /\ budgets'[k] \in Amounts /\ budgets'[k].spent = budgets[k].spent + x
          /\ budgets'[k].reserved = budgets[k].reserved - e
      <3> DEFINE b == budgets[k]
                 d == budgets'[k]
                 u == b.spent + x
                 v == b.reserved - e
      <3>1. d = [b EXCEPT !.spent = u, !.reserved = v] /\ b \in Amounts /\ u \in Int /\ v \in Int
        BY <2>3, <2>4, <2>5 DEF Amounts
      <3> HIDE DEF b, d, u, v
      <3>2. d \in Amounts /\ d.spent = u /\ d.reserved = v
        BY <3>1 DEF Amounts
      <3> QED
        BY <3>2 DEF b, d, u, v
    <2>7. budgets' \in [Key -> Amounts] /\ \A j \in Key \ {k} : budgets'[j] = budgets[j]
      BY <2>1, <2>2, <2>3, <2>6 DEF Amounts
    <2> QED
      BY <2>6, <2>7 DEF Amounts, x, e
  <1>5. Rows' /\ BudgetsAgree'
    <2>1. \A j \in Key :
            /\ budgets'[j].spent = budgets[j].spent + (IF j = k THEN r.charged ELSE 0)
            /\ budgets'[j].reserved = budgets[j].reserved - (IF j = k THEN r.est ELSE 0)
      BY <1>4 DEF Inv, Rows
    <2> QED
      BY <1>1, <1>3, <1>4, <2>1, CloseMoves
  <1>6. ASSUME NEW t \in Session \ {s} PROVE Kept(t)
    <2>1. calls'[c] = r /\ \A d \in CallId \ {c} : calls'[d] = calls[d]
      BY <1>1, <1>3 DEF Inv, Rows
    <2>2. calls[c] # NULL
      BY <1>1 DEF Closable
    <2>3. \A d \in CallId : CallLock(d) \in tx[t].held => calls'[d] = calls[d]
      BY <1>1, <2>1, HeldAlone
    <2>4. tx[t].at \in {"reserve", "insert"} => calls'[tx[t].id] = NULL
      BY <2>1, <2>2, FreshOf
    <2>5. \A j \in Key : BudgetLock(j) \in tx[t].held => budgets'[j] = budgets[j]
      BY <1>1, <1>4, HeldAlone
    <2>6. \A d \in Promise!Entered :
            /\ calls'[d] # NULL /\ calls'[d].key = calls[d].key
            /\ calls'[d].slot = calls[d].slot /\ calls'[d].est = calls[d].est
      BY <1>1, <1>2, <2>1 DEF Promise!Entered
    <2> QED
      BY <2>3, <2>4, <2>5, <2>6 DEF Kept
  <1> QED
    BY <1>3, <1>5, <1>6, Commits

LEMMA MarkUnknownGoes ==
    ASSUME Inv, NEW s \in Session, NEW c \in CallId, MarkUnknown(s, c)
    PROVE  Inv'
  <1>1. /\ tx[s] = Idle /\ Closable(c) /\ Free(s, CallLock(c)) /\ UNCHANGED <<budgets, tx>>
        /\ calls' = [calls EXCEPT ![c].status = "UNKNOWN"]
    BY DEF MarkUnknown
  <1>2. calls[c] \in Promise!Call /\ calls[c] # NULL
    BY <1>1 DEF Closable, Inv, Rows
  <1>3. /\ calls \in [CallId -> Promise!Call \cup {NULL}]
        /\ \A d \in CallId \ {c} : calls'[d] = calls[d]
        /\ calls'[c] = [calls[c] EXCEPT !.status = "UNKNOWN"]
    BY <1>1 DEF Inv, Rows
  <1>4. /\ calls'[c] \in Promise!Call /\ calls'[c].status = "UNKNOWN" /\ calls'[c].key = calls[c].key
        /\ calls'[c].slot = calls[c].slot /\ calls'[c].est = calls[c].est
        /\ calls'[c].charged = calls[c].charged
    BY <1>2, <1>3 DEF Promise!Call, Promise!CallStatus
  <1>5. calls'[c] # NULL
    BY <1>4, CallFacts
  <1>6. \A d \in CallId : /\ calls'[d] # NULL <=> calls[d] # NULL
                          /\ calls'[d].key = calls[d].key /\ calls'[d].slot = calls[d].slot
                          /\ calls'[d].est = calls[d].est /\ calls'[d].charged = calls[d].charged
    BY <1>2, <1>3, <1>4, <1>5
  <1>7. Promise!Entered' = Promise!Entered
    BY <1>6 DEF Promise!Entered
  <1>8. Rows'
    <2>1. calls' \in [CallId -> Promise!Call \cup {NULL}]
      BY <1>1, <1>3, <1>4
    <2>2. \A d \in CallId : Closable(d)' => calls'[d].charged = NULL
      BY <1>3, <1>4 DEF Closable, Inv, Rows
    <2> QED
      BY <1>1, <1>7, <2>1, <2>2 DEF Inv, Rows
  <1>9. BudgetsAgree'
    <2> SUFFICES ASSUME NEW k \in Key
                 PROVE  Promise!Spent(k)' = Promise!Spent(k) /\ Promise!Reserved(k)' = Promise!Reserved(k)
      BY <1>1 DEF BudgetsAgree, Inv
    <2>1. \A d \in Promise!Entered : d \in CallId
      BY DEF Promise!Entered
    <2>2. EstOf' = EstOf /\ ChargeOf' = ChargeOf
      BY <1>6, <1>7, <2>1 DEF EstOf, ChargeOf
    <2>3. OpenOf(k)' = OpenOf(k) /\ ClosedOf(k)' = ClosedOf(k)
      BY <1>6, <1>7, <2>1 DEF OpenOf, ClosedOf, Promise!IsOpen
    <2> QED
      BY <2>2, <2>3, SumsOf
  <1>10. ASSUME NEW t \in Session \ {s} PROVE Kept(t)
    <2>1. \A d \in CallId : CallLock(d) \in tx[t].held => calls'[d] = calls[d]
      BY <1>1, <1>3 DEF Free
    <2>2. tx[t].at \in {"reserve", "insert"} => calls'[tx[t].id] = NULL
      BY <1>6, FreshOf
    <2> QED
      BY <1>1, <1>6, <2>1, <2>2 DEF Kept, Promise!Entered
  <1>11. tx' = [tx EXCEPT ![s] = Idle]
    BY <1>1 DEF Inv, Transactions
  <1> QED
    BY <1>8, <1>9, <1>10, <1>11, Commits

LEMMA CommitSweepGoes == ASSUME Inv, NEW s \in Session, CommitSweep(s) PROVE Inv'
  <1>1. /\ tx[s].at = "charge" /\ tx[s].at \in Sweeping
        /\ budgets' = [k \in Key |-> SweptBudget(s, k)]
        /\ calls' = [c \in CallId |->
                       IF c \in TakenBy(s)
                       THEN [calls[c] EXCEPT !.status = "UNKNOWN", !.charged = calls[c].est]
                       ELSE calls[c]]
        /\ tx' = [tx EXCEPT ![s] = Idle]
    BY DEF CommitSweep, Ends, Sweeping
  <1>2. ASSUME NEW k \in Key
        PROVE  /\ budgets'[k] \in [cap : Nat, spent : Int, reserved : Int]
               /\ budgets'[k].cap = budgets[k].cap
               /\ budgets'[k].spent = budgets[k].spent + SweptOf(s, k)
               /\ budgets'[k].reserved = budgets[k].reserved - SweptOf(s, k)
               /\ budgets'[k].spent + budgets'[k].reserved = budgets[k].spent + budgets[k].reserved
    <2>1. SweptOf(s, k) \in Int /\ budgets[k] \in [cap : Nat, spent : Int, reserved : Int]
      BY <1>1, SweptSum DEF Inv, Rows
    <2> DEFINE x == SweptOf(s, k)
               b == budgets[k]
               d == budgets'[k]
    <2>2. d = [b EXCEPT !.spent = @ + x, !.reserved = @ - x]
      BY <1>1 DEF SweptBudget
    <2>3. x \in Int /\ b \in [cap : Nat, spent : Int, reserved : Int]
      BY <2>1
    <2> HIDE DEF x, b, d
    <2>4. /\ d \in [cap : Nat, spent : Int, reserved : Int] /\ d.cap = b.cap
          /\ d.spent = b.spent + x /\ d.reserved = b.reserved - x
      BY <2>2, <2>3, Booked DEF Amounts
    <2>5. d.spent + d.reserved = b.spent + b.reserved
      BY <2>3, <2>4
    <2> QED
      BY <2>4, <2>5 DEF x, b, d
  <1>3. budgets' \in [Key -> [cap : Nat, spent : Int, reserved : Int]]
    BY <1>1, <1>2
  <1>4. Rows' /\ BudgetsAgree'
    BY <1>1, <1>2, <1>3, SweepMoves
  <1>5. ASSUME NEW t \in Session \ {s} PROVE Kept(t)
    <2>1. \A d \in CallId \ TakenBy(s) : calls'[d] = calls[d]
      BY <1>1
    <2>2. TakenBy(s) \subseteq Promise!Entered /\ TakenBy(s) \subseteq CallId
      BY <1>1, TakenFacts DEF TakenBy
    <2>3. ASSUME NEW d \in CallId, CallLock(d) \in tx[t].held PROVE calls'[d] = calls[d]
      <3>1. d \notin TakenBy(s)
        BY <2>3, HeldAlone DEF TakenBy
      <3> QED
        BY <2>1, <3>1
    <2>4. ASSUME NEW d \in Promise!Entered
          PROVE  /\ calls'[d] # NULL /\ calls'[d].key = calls[d].key
                 /\ calls'[d].slot = calls[d].slot /\ calls'[d].est = calls[d].est
      <3>1. d \in CallId /\ calls[d] # NULL /\ calls[d] \in Promise!Call
        BY DEF Promise!Entered, Inv, Rows
      <3>2. CASE d \in TakenBy(s)
        <4>1. calls'[d] = [calls[d] EXCEPT !.status = "UNKNOWN", !.charged = calls[d].est]
          BY <1>1, <3>1, <3>2
        <4>2. calls[d].est \in Est
          BY <3>1, CallFacts
        <4>3. /\ calls'[d] \in Promise!Call /\ calls'[d].key = calls[d].key
              /\ calls'[d].slot = calls[d].slot /\ calls'[d].est = calls[d].est
          BY <3>1, <4>1, <4>2 DEF Promise!Call, Promise!CallStatus
        <4> QED
          BY <4>3, CallFacts
      <3> QED
        BY <2>1, <3>1, <3>2
    <2>5. tx[t].at \in {"reserve", "insert"} => calls'[tx[t].id] = NULL
      BY <2>1, <2>2, FreshOf DEF Promise!Entered
    <2> QED
      BY <1>2, <2>3, <2>4, <2>5 DEF Kept
  <1> QED
    BY <1>1, <1>4, <1>5, Commits

-----------------------------------------------------------------------------
(* The theorems.                                                           *)

LEMMA InitInv == ASSUME Init PROVE Inv
  <1>1. calls = [c \in CallId |-> NULL] /\ budgets = [k \in Key |-> [cap |-> 0, spent |-> 0, reserved |-> 0]]
    BY DEF Init
  <1>2. Promise!Entered = {}
    BY <1>1 DEF Promise!Entered
  <1>3. Rows
    BY <1>1, <1>2, FS_EmptySet DEF Rows, Closable
  <1>4. Transactions
    <2>1. \A s \in Session : tx[s] = Idle
      BY DEF Init
    <2>2. tx \in [Session -> Tx]
      BY IdleFacts DEF Init
    <2> QED
      BY <2>1, <2>2, IdleStands, IdleApart DEF Transactions
  <1>5. BudgetsAgree
    <2>1. \A f : Promise!Total(f, {}) = 0
      BY FS_EmptySet, TotalSteps DEF Steps
    <2>2. \A k : OpenOf(k) = {} /\ ClosedOf(k) = {}
      BY <1>2 DEF OpenOf, ClosedOf
    <2>3. \A k : Promise!Reserved(k) = 0 /\ Promise!Spent(k) = 0
      BY <2>1, <2>2, SumsOf
    <2> QED
      BY <1>1, <2>3 DEF BudgetsAgree
  <1> QED
    BY <1>3, <1>4, <1>5 DEF Inv

LEMMA NextInv == ASSUME Inv, [Next]_vars PROVE Inv'
  <1>1. CASE UNCHANGED vars
    <2>1. UNCHANGED <<budgets, calls, tx>>
      BY <1>1 DEF vars
    <2>2. CASE Session = {}
      <3>1. Rows'
        BY <2>1 DEF Inv, Rows, Closable, Promise!Entered
      <3>2. BudgetsAgree'
        BY <2>1 DEF Inv, BudgetsAgree, Promise!Spent, Promise!Reserved, Promise!Entered, Promise!IsOpen
      <3>3. Transactions'
        BY <2>1, <2>2 DEF Inv, Transactions
      <3> QED
        BY <3>1, <3>2, <3>3 DEF Inv
    <2>3. ASSUME NEW s \in Session PROVE Inv'
      <3>1. tx' = [tx EXCEPT ![s] = tx'[s]] /\ tx'[s] = tx[s]
        BY <2>1 DEF Inv, Transactions
      <3>2. \A t \in Session \ {s} : Apart(tx'[s], tx[t])
        BY <3>1 DEF Inv, Transactions
      <3>3. Standing(s, tx'[s])
        BY <3>1, StandingOf
      <3> QED
        BY <2>1, <3>1, <3>2, <3>3, Moves
    <2> QED
      BY <2>2, <2>3
  <1>2. ASSUME NEW s \in Session, BeginReserve(s) \/ BeginClose(s) PROVE Inv'
    BY <1>2, BeginReserveGoes, BeginCloseGoes
  <1>3. ASSUME NEW s \in Session, NEW old \in SUBSET OpenCalls, BeginSweep(s, old) PROVE Inv'
    BY <1>3, BeginSweepGoes
  <1>4. ASSUME NEW s \in Session, Advance(s) \/ RollBack(s) PROVE Inv'
    BY <1>4, TakeGoes, SelectBudgetGoes, CommitReserveGoes, CommitCloseGoes, SelectUnknownGoes,
       LockBudgetsGoes, CommitSweepGoes, RollBackGoes DEF Advance
  <1>5. ASSUME NEW s \in Session, NEW c \in CallId, MarkUnknown(s, c) PROVE Inv'
    BY <1>5, MarkUnknownGoes
  <1> QED
    BY <1>1, <1>2, <1>3, <1>4, <1>5 DEF Next

\* The invariant holds in every reachable state: the rows are well formed, every
\* transaction holds the locks of what it is to write, and budgets are their sums.
THEOREM Invariance == Spec => []Inv
  <1>1. Init => Inv
    BY InitInv
  <1>2. Inv /\ [Next]_vars => Inv'
    BY NextInv
  <1> QED
    BY <1>1, <1>2, PTL DEF Spec

\* The rows keep their types, and no amount falls below zero, though a close
\* and a sweep only ever subtract what they take off.
THEOREM Typing == Spec => []LTypeOK
  <1>1. ASSUME Inv, NEW k \in Key PROVE Promise!Spent(k) \in Nat /\ Promise!Reserved(k) \in Nat
    <2>1. \A c \in OpenOf(k) \cup ClosedOf(k) : c \in Promise!Entered /\ calls[c] \in Promise!Call
      BY <1>1 DEF OpenOf, ClosedOf, Promise!Entered, Inv, Rows
    <2>2. ASSUME NEW c \in OpenOf(k) PROVE EstOf[c] \in Nat
      <3>1. EstOf[c] = calls[c].est
        BY <2>1 DEF EstOf
      <3> QED
        BY <2>1, <3>1, CallFacts
    <2>3. ASSUME NEW c \in ClosedOf(k) PROVE ChargeOf[c] \in Nat
      <3>1. ChargeOf[c] = calls[c].charged
        BY <2>1 DEF ChargeOf
      <3>2. calls[c].charged # NULL
        BY DEF ClosedOf, Promise!IsOpen, Promise!Entered
      <3> QED
        BY <2>1, <3>1, <3>2, CallFacts
    <2>4. IsFiniteSet(OpenOf(k)) /\ IsFiniteSet(ClosedOf(k))
      BY <1>1, AmountsOf DEF Inv
    <2> QED
      BY <2>2, <2>3, <2>4, SumsOf, TotalNat
  <1>2. Inv => LTypeOK
    <2> SUFFICES ASSUME Inv PROVE LTypeOK
      OBVIOUS
    <2>1. \A k \in Key : budgets[k] \in Budget
      BY <1>1 DEF Inv, Rows, BudgetsAgree, Budget
    <2>2. budgets \in [Key -> Budget]
      BY <2>1 DEF Inv, Rows
    <2> QED
      BY <2>2 DEF Inv, Rows, Transactions, LTypeOK
  <1> QED
    BY <1>2, Invariance, PTL

\* The amounts of case_budgets are the sums over llm_calls, whichever
\* transactions crossed each other and whichever were rolled back.
THEOREM SumsAgree == Spec => []BudgetsAgree
  <1>1. Inv => BudgetsAgree
    BY DEF Inv
  <1> QED
    BY <1>1, Invariance, PTL

-----------------------------------------------------------------------------
(* What LedgerPort promises.                                               *)

CapsOf == [k \in Key |-> budgets[k].cap]

LEMMA WritesNothing ==
    ASSUME UNCHANGED <<budgets, calls>>
    PROVE  UNCHANGED Promise!cvars
  BY DEF Promise!cvars

LEMMA ReserveAsPromised ==
    ASSUME Inv, NEW s \in Session, CommitReserve(s), ~SlotTaken(tx[s].row.slot)
    PROVE  Promise!CNext
  <1> DEFINE r == tx[s].row
             c == tx[s].id
             k == r.key
  <1>1. /\ Fresh(tx[s]) /\ Roomy(s, tx[s])
    BY StandingOf DEF CommitReserve, InsertOK
  <1>2. /\ c \in CallId /\ calls[c] = NULL /\ r \in Promise!Call /\ r.status = "RESERVED"
        /\ r.charged = NULL /\ k \in Key /\ r.slot \in Slot \cup {NULL} /\ r.est \in Est
    BY <1>1, CallFacts DEF Fresh
  <1>3. /\ calls' = [calls EXCEPT ![c] = r]
        /\ budgets' = [budgets EXCEPT ![k].reserved = @ + r.est, ![k].cap = tx[s].seen]
    BY DEF CommitReserve
  <1>4. r.slot # NULL => \A d \in Promise!Entered : calls[d].slot # r.slot
    BY DEF SlotTaken, Promise!Entered
  <1>5. /\ tx[s].seen = (IF CapOf[s] > budgets[k].cap THEN CapOf[s] ELSE budgets[k].cap)
        /\ Promise!Spent(k) + Promise!Reserved(k) + r.est <= tx[s].seen
    BY <1>1, <1>2 DEF Roomy, Inv, BudgetsAgree
  <1>6. CapsOf' = [CapsOf EXCEPT ![k] = tx[s].seen]
    <2>1. budgets \in [Key -> [cap : Nat, spent : Int, reserved : Int]]
      BY DEF Inv, Rows
    <2>2. \A j \in Key : budgets'[j].cap = IF j = k THEN tx[s].seen ELSE budgets[j].cap
      <3> HIDE DEF r, k
      <3>1. budgets[k] \in [cap : Nat, spent : Int, reserved : Int] /\ k \in Key
        BY <1>2, <2>1
      <3>2. \A j \in Key \ {k} : budgets'[j] = budgets[j]
        BY <1>3, <2>1
      <3>3. budgets'[k] = [budgets[k] EXCEPT !.reserved = @ + r.est, !.cap = tx[s].seen]
        BY <1>3, <2>1, <3>1
      <3>4. budgets'[k].cap = tx[s].seen
        BY <3>1, <3>3
      <3> QED
        BY <3>2, <3>4
    <2> QED
      BY <2>2 DEF CapsOf
  <1>7. r = [status |-> "RESERVED", key |-> k, slot |-> r.slot, est |-> r.est, charged |-> NULL]
    BY <1>2 DEF Promise!Call
  <1>8. CapsOf[k] = budgets[k].cap
    BY <1>2 DEF CapsOf
  <1>9. Promise!Reserve(c, k, r.slot, r.est, CapOf[s])
    <2>1. Promise!Raised(k, CapOf[s]) = tx[s].seen
      BY <1>5, <1>8 DEF Promise!Raised, CapsOf
    <2> HIDE DEF k
    <2> QED
      BY <1>2, <1>3, <1>4, <1>5, <1>6, <1>7, <2>1 DEF Promise!Reserve, CapsOf
  <1>10. CapOf[s] \in {CapOf[t] : t \in Session}
    OBVIOUS
  <1> QED
    BY <1>2, <1>9, <1>10 DEF Promise!CNext

LEMMA CloseAsPromised ==
    ASSUME Inv, NEW s \in Session, CommitClose(s)
    PROVE  Promise!CNext
  <1> DEFINE r == tx[s].row
             c == tx[s].id
             k == r.key
  <1>1. tx[s].at = "close" /\ tx[s].todo = <<>> /\ CloseOK(tx[s])
    BY StandingOf DEF CommitClose
  <1>2. tx[s].todo # <<CallLock(c), BudgetLock(k)>> /\ tx[s].todo # <<BudgetLock(k)>>
    BY <1>1
  <1>3. /\ c \in CallId /\ r \in Promise!Call /\ r.status = "CLOSED" /\ r.charged # NULL
        /\ r.key = calls[c].key /\ r.slot = calls[c].slot /\ r.est = calls[c].est /\ Closable(c)
    BY <1>1, <1>2 DEF CloseOK
  <1>4. /\ calls[c] \in Promise!Call /\ calls[c].status = "RESERVED" /\ Promise!IsOpen(c)
        /\ r.charged \in Est \cup Charge \cup {0} /\ k \in Key
    BY <1>3, CallFacts DEF Closable, Promise!IsOpen, Inv, Rows
  <1>5. r = [calls[c] EXCEPT !.status = "CLOSED", !.charged = r.charged]
    BY <1>3, <1>4 DEF Promise!Call
  <1>6. calls' = [calls EXCEPT ![c].status = "CLOSED", ![c].charged = r.charged]
    <2>1. calls' = [calls EXCEPT ![c] = r] /\ calls \in [CallId -> Promise!Call \cup {NULL}]
      BY DEF CommitClose, Inv, Rows
    <2> DEFINE x == r.charged
    <2>2. r = [calls[c] EXCEPT !.status = "CLOSED", !.charged = x]
      BY <1>5
    <2> HIDE DEF r, x
    <2>3. calls' = [calls EXCEPT ![c] = [calls[c] EXCEPT !.status = "CLOSED", !.charged = x]]
      BY <2>1, <2>2
    <2> QED
      BY <1>3, <2>1, <2>3 DEF x
  <1>7. CapsOf' = CapsOf
    <2>1. budgets \in [Key -> [cap : Nat, spent : Int, reserved : Int]]
      BY DEF Inv, Rows
    <2>2. budgets' = [budgets EXCEPT ![k].spent = @ + r.charged, ![k].reserved = @ - r.est]
      BY DEF CommitClose, Spends
    <2>3. \A j \in Key : budgets'[j].cap = budgets[j].cap
      <3> HIDE DEF r, k
      <3>1. budgets[k] \in [cap : Nat, spent : Int, reserved : Int] /\ k \in Key
        BY <1>4, <2>1
      <3>2. \A j \in Key \ {k} : budgets'[j] = budgets[j]
        BY <2>1, <2>2
      <3>3. budgets'[k] = [budgets[k] EXCEPT !.spent = @ + r.charged, !.reserved = @ - r.est]
        BY <2>1, <2>2, <3>1
      <3>4. budgets'[k].cap = budgets[k].cap
        BY <3>1, <3>3
      <3> QED
        BY <3>2, <3>4
    <2> QED
      BY <2>3 DEF CapsOf
  <1>8. Promise!Close(c, r.charged)
    BY <1>4, <1>6, <1>7 DEF Promise!Close, CapsOf
  <1> QED
    BY <1>3, <1>4, <1>8 DEF Promise!CNext

LEMMA MarkUnknownAsPromised ==
    ASSUME Inv, NEW s \in Session, NEW c \in CallId, MarkUnknown(s, c)
    PROVE  Promise!CNext
  <1>1. Promise!IsOpen(c) /\ calls[c].status = "RESERVED"
    BY DEF MarkUnknown, Closable, Promise!IsOpen, Inv, Rows
  <1>2. Promise!MarkUnknown(c)
    BY <1>1 DEF MarkUnknown, Promise!MarkUnknown
  <1> QED
    BY <1>2 DEF Promise!CNext

LEMMA SweepAsPromised ==
    ASSUME Inv, NEW s \in Session, CommitSweep(s)
    PROVE  Promise!CNext
  <1>1. tx[s].at \in Sweeping
    BY DEF CommitSweep, Sweeping
  <1>2. TakenBy(s) \in SUBSET CallId /\ \A c \in TakenBy(s) : Promise!IsOpen(c)
    BY <1>1, TakenFacts DEF TakenBy
  <1>3. CapsOf' = CapsOf
    <2>1. ASSUME NEW k \in Key PROVE budgets'[k].cap = budgets[k].cap
      <3>1. budgets[k] \in [cap : Nat, spent : Int, reserved : Int]
        BY DEF Inv, Rows
      <3>2. budgets'[k] = SweptBudget(s, k)
        BY DEF CommitSweep
      <3> QED
        BY <3>1, <3>2 DEF SweptBudget
    <2> QED
      BY <2>1 DEF CapsOf
  <1>4. Promise!Sweep(TakenBy(s))
    BY <1>2, <1>3 DEF CommitSweep, Promise!Sweep, CapsOf
  <1> QED
    BY <1>2, <1>4 DEF Promise!CNext

LEMMA StepsAsPromised == ASSUME Inv, [Next]_vars PROVE [Promise!CNext]_(Promise!cvars)
  <1>1. CASE UNCHANGED vars
    BY <1>1, WritesNothing DEF vars
  <1>2. ASSUME NEW s \in Session, BeginReserve(s) \/ BeginClose(s)
        PROVE  UNCHANGED Promise!cvars
    <2>1. UNCHANGED <<budgets, calls>>
      BY <1>2 DEF BeginReserve, BeginClose, Begin
    <2> QED
      BY <2>1, WritesNothing
  <1>3. ASSUME NEW s \in Session, NEW old \in SUBSET OpenCalls, BeginSweep(s, old)
        PROVE  UNCHANGED Promise!cvars
    <2>1. UNCHANGED <<budgets, calls>>
      BY <1>3 DEF BeginSweep, Begin
    <2> QED
      BY <2>1, WritesNothing
  <1>4. ASSUME NEW s \in Session, Advance(s) \/ RollBack(s)
        PROVE  [Promise!CNext]_(Promise!cvars)
    <2>1. CASE Take(s) \/ SelectBudget(s) \/ SelectUnknown(s) \/ LockBudgets(s) \/ RollBack(s)
      <3>1. UNCHANGED <<budgets, calls>>
        BY <2>1 DEF Take, SelectBudget, SelectUnknown, LockBudgets, RollBack
      <3> QED
        BY <3>1, WritesNothing
    <2>2. CASE CommitReserve(s)
      <3>1. CASE SlotTaken(tx[s].row.slot)
        <4>1. UNCHANGED <<budgets, calls>>
          BY <2>2, <3>1 DEF CommitReserve
        <4> QED
          BY <4>1, WritesNothing
      <3>2. CASE ~SlotTaken(tx[s].row.slot)
        BY <2>2, <3>2, ReserveAsPromised
      <3> QED
        BY <3>1, <3>2
    <2>3. CASE CommitClose(s)
      BY <2>3, CloseAsPromised
    <2>4. CASE CommitSweep(s)
      BY <2>4, SweepAsPromised
    <2> QED
      BY <1>4, <2>1, <2>2, <2>3, <2>4 DEF Advance
  <1>5. ASSUME NEW s \in Session, NEW c \in CallId, MarkUnknown(s, c)
        PROVE  [Promise!CNext]_(Promise!cvars)
    BY <1>5, MarkUnknownAsPromised
  <1> QED
    BY <1>1, <1>2, <1>3, <1>4, <1>5 DEF Next

\* The transactions together are the ledger that LedgerPort promises: whatever
\* crosses whatever, each commit is one reservation within the cap, one close
\* of a call that is open, one call marked unknown, or one sweep.
THEOREM PromiseKept == Spec => KeepsPromise
  <1>1. Init => Promise!CInit
    BY DEF Init, Promise!CInit
  <1>2. Inv /\ [Next]_vars => [Promise!CNext]_(Promise!cvars)
    BY StepsAsPromised
  <1> QED
    BY <1>1, <1>2, Invariance, PTL DEF Spec, KeepsPromise, Promise!CSpec

-----------------------------------------------------------------------------
(* Circles of waits.                                                       *)

\* Locks are taken in the order calls, budgets, slots.
Only(kind, locks) == \A l \in locks : l.of = kind

LEMMA Headed == ASSUME NEW S, NEW q \in Seq(S), q # <<>> PROVE Head(q) \in S /\ Range(q) \subseteq S
  BY DEF Range

LEMMA WaiterFacts ==
    ASSUME Inv, NEW s \in Session, tx[s].todo # <<>>
    PROVE  /\ \A l \in tx[s].held : l.of # "slot"
           /\ tx[s].at \notin {"insert", "charge"} => Only("call", tx[s].held)
           /\ tx[s].at = "insert" => Only("slot", Wants(s))
           /\ tx[s].at \in {"reserve", "charge"} => Only("budget", Wants(s))
           /\ tx[s].at = "close" => tx[s].held = {} \/ Only("budget", Wants(s))
           /\ tx[s].at \in Sweeping => s \in Sweeper
           /\ tx[s].at \in {"reserve", "insert", "close"} \cup Sweeping
  <1>0. /\ tx[s] \in Tx /\ Standing(s, tx[s])
        /\ ReserveOK(tx[s]) /\ InsertOK(s, tx[s]) /\ CloseOK(tx[s]) /\ SweepOK(tx[s])
    BY StandingOf
  <1>1. /\ tx[s].at \in {"reserve", "insert", "close"} \cup Sweeping
        /\ tx[s].at \in Sweeping => s \in Sweeper
    BY <1>0, IdleFacts DEF Standing, Tx, At, Sweeping
  <1>2. tx[s].at # "stale" => Wants(s) = {Head(tx[s].todo)}
    BY DEF Wants
  <1>3. CASE tx[s].at = "reserve"
    <2>1. tx[s].held = {} /\ tx[s].todo = <<BudgetLock(tx[s].row.key)>>
      BY <1>0, <1>3 DEF ReserveOK
    <2>2. Wants(s) = {BudgetLock(tx[s].row.key)}
      BY <1>2, <1>3, <2>1
    <2> QED
      BY <1>3, <2>1, <2>2, LockParts DEF Only, Sweeping
  <1>4. CASE tx[s].at = "insert"
    <2>1. tx[s].held = {BudgetLock(tx[s].row.key)} /\ tx[s].todo = <<SlotLock(tx[s].row.slot)>>
      BY <1>0, <1>4 DEF InsertOK
    <2>2. Wants(s) = {SlotLock(tx[s].row.slot)}
      BY <1>2, <1>4, <2>1
    <2> QED
      BY <1>4, <2>1, <2>2, LockParts DEF Only, Sweeping
  <1>5. CASE tx[s].at = "close"
    <2> DEFINE c == CallLock(tx[s].id)
               b == BudgetLock(tx[s].row.key)
    <2>1. \/ tx[s].held = {}
          \/ tx[s].held = {c} /\ tx[s].todo = <<b>>
      BY <1>0, <1>5 DEF CloseOK
    <2>2. tx[s].todo = <<b>> => Wants(s) = {b}
      BY <1>2, <1>5
    <2> QED
      BY <1>5, <2>1, <2>2, LockParts DEF Only, Sweeping
  <1>6. CASE tx[s].at = "charge"
    <2>1. Head(tx[s].todo) \in KeyLocks
      BY <1>0, <1>6, Headed DEF SweepOK, Sweeping
    <2>2. Only("budget", Wants(s))
      BY <1>2, <1>6, <2>1, LockParts DEF Only, KeyLocks
    <2>3. ASSUME NEW l \in tx[s].held PROVE l.of # "slot"
      BY <1>0, <1>6 DEF SweepOK, Sweeping
    <2> QED
      BY <1>1, <1>6, <2>2, <2>3 DEF Sweeping
  <1>7. CASE tx[s].at \in {"stale", "unknown"}
    <2>1. tx[s].held \subseteq EnteredLocks
      BY <1>0, <1>7 DEF SweepOK, Sweeping
    <2>2. Only("call", tx[s].held)
      BY <2>1, LockParts DEF Only, EnteredLocks
    <2> QED
      BY <1>1, <1>7, <2>2 DEF Only
  <1> QED
    BY <1>1, <1>3, <1>4, <1>5, <1>6, <1>7 DEF Sweeping

\* Of transactions among which at most one is a sweep, one waits for none.
CirclesHaveTwoSweeps ==
    \A S \in (SUBSET Session) \ {{}} :
        (\A s, t \in S \cap Sweeper : s = t) => \E s \in S : \A t \in S : ~WaitsFor(s, t)

LEMMA SomeoneGoesOn ==
    ASSUME Inv, NEW S \in SUBSET Session, S # {}, \A s, t \in S \cap Sweeper : s = t
    PROVE  \E s \in S : \A t \in S : ~WaitsFor(s, t)
  <1>1. CASE \E s \in S : tx[s].todo = <<>>
    BY <1>1 DEF WaitsFor, Wants
  <1>2. CASE \A s \in S : tx[s].todo # <<>>
    <2>1. CASE \E s \in S : tx[s].at = "insert"
      <3>1. PICK s \in S : tx[s].at = "insert"
        BY <2>1
      <3>2. ASSUME NEW t \in S PROVE ~WaitsFor(s, t)
        BY <1>2, <3>1, WaiterFacts DEF WaitsFor, Only
      <3> QED
        BY <3>2
    <2>2. CASE (\A s \in S : tx[s].at # "insert") /\ \E s \in S : tx[s].at = "charge"
      <3>1. PICK s \in S : tx[s].at = "charge"
        BY <2>2
      <3>2. s \in Sweeper /\ Only("budget", Wants(s))
        BY <1>2, <3>1, WaiterFacts DEF Sweeping
      <3>3. ASSUME NEW t \in S PROVE ~WaitsFor(s, t)
        <4>1. t # s => tx[t].at # "charge"
          BY <1>2, <3>2, WaiterFacts DEF Sweeping
        <4>2. t # s => Only("call", tx[t].held)
          BY <1>2, <2>2, <4>1, WaiterFacts
        <4> QED
          BY <3>2, <4>2 DEF WaitsFor, Only
      <3> QED
        BY <3>3
    <2>3. CASE /\ \A s \in S : tx[s].at \notin {"insert", "charge"}
               /\ \E s \in S : Only("budget", Wants(s))
      <3>1. PICK s \in S : Only("budget", Wants(s))
        BY <2>3
      <3>2. ASSUME NEW t \in S PROVE ~WaitsFor(s, t)
        <4>1. Only("call", tx[t].held)
          BY <1>2, <2>3, WaiterFacts
        <4> QED
          BY <3>1, <4>1 DEF WaitsFor, Only
      <3> QED
        BY <3>2
    <2>4. CASE /\ \A s \in S : tx[s].at \notin {"insert", "charge"}
               /\ \A s \in S : ~Only("budget", Wants(s))
      <3>1. \A t \in S \ Sweeper : tx[t].held = {}
        BY <1>2, <2>4, WaiterFacts
      <3>2. CASE S \cap Sweeper = {}
        <4>1. PICK s \in S : TRUE
          OBVIOUS
        <4>2. \A t \in S : ~WaitsFor(s, t)
          BY <3>1, <3>2 DEF WaitsFor
        <4> QED
          BY <4>2
      <3>3. CASE S \cap Sweeper # {}
        <4>1. PICK s \in S \cap Sweeper : TRUE
          BY <3>3
        <4>2. \A t \in S : t # s => t \notin Sweeper
          BY <4>1
        <4>3. \A t \in S : ~WaitsFor(s, t)
          BY <3>1, <4>2 DEF WaitsFor
        <4> QED
          BY <4>1, <4>3
      <3> QED
        BY <3>2, <3>3
    <2> QED
      BY <2>1, <2>2, <2>3, <2>4
  <1> QED
    BY <1>1, <1>2

\* Whoever waits in a circle, two sweeps are in it: reserve, settle and fail
\* take calls before budgets and budgets before slots, as one sweep does.
THEOREM OnlySweepsCircle == Spec => []CirclesHaveTwoSweeps
  <1>1. Inv => CirclesHaveTwoSweeps
    <2> SUFFICES ASSUME Inv, NEW S \in (SUBSET Session) \ {{}}, \A s, t \in S \cap Sweeper : s = t
                 PROVE  \E s \in S : \A t \in S : ~WaitsFor(s, t)
      BY DEF CirclesHaveTwoSweeps
    <2>1. S \in SUBSET Session /\ S # {}
      OBVIOUS
    <2> QED
      BY <2>1, SomeoneGoesOn, Zenon
  <1> QED
    BY <1>1, Invariance, PTL

\* The sweep is scheduled once a day (docs/plans/10-backend-contract.md).
OneSweeper == \A s, t \in Sweeper : s = t

\* With one sweep at a time, nobody waits in a circle.
THEOREM NoCircle == ASSUME OneSweeper PROVE Spec => []NoWaitCycle
  <1>1. CirclesHaveTwoSweeps => NoWaitCycle
    <2>1. \A S : \A s, t \in S \cap Sweeper : s = t
      BY DEF OneSweeper
    <2> QED
      BY <2>1 DEF CirclesHaveTwoSweeps, NoWaitCycle
  <1> QED
    BY <1>1, OnlySweepsCircle, PTL

=============================================================================
