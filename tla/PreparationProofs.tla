------------------------- MODULE PreparationProofs -------------------------
(***************************************************************************)
(* What PREPARE stores and what a sentencing run is given of it, for any   *)
(* handlers, rooms, sources, versions of the audience and withdrawals.     *)
(*                                                                         *)
(* A dossier names the rooms it was made for and the epochs it saw, and so *)
(* does every row that points to it.  A row once invalid stays so: a run   *)
(* that takes another dossier than its row's does it because its row is    *)
(* invalid, and what it writes there is never served.                      *)
(***************************************************************************)
EXTENDS Preparation, TLAPS

VisibleIn(s, rooms) == s = Own \/ Usable(Scope[s], rooms)

\* Whoever may see a fact may see what it was drawn from.
FactFits(f) ==
    \A rooms \in SUBSET Room :
        Usable(f.scope, rooms) => \A s \in f.sources : VisibleIn(s, rooms)

Stored(d) == d \in Id /\ dossiers[d] # NULL

CandidateFits(c) ==
    Stored(c.made) /\ \A s \in c.shown : VisibleIn(s, dossiers[c.made].snapshot_hash)

BanterFits(b) == \A i \in Intensity : b[i] # NULL => CandidateFits(b[i])
MadeFrom(b, d) == \A i \in Intensity : b[i] # NULL => b[i].made = d

Apart(facts, seen) == \A f \in facts : f.sources \cap seen = {}

DossierOK(d) ==
    dossiers[d] # NULL =>
        /\ \A f \in dossiers[d].facts : FactFits(f)
        /\ Apart(dossiers[d].facts, dossiers[d].seen)
        /\ \A s \in cleaned, f \in dossiers[d].facts :
              s \in f.sources => f \in dossiers[d].invalid \/ s \in dossiers[d].late
        /\ dossiers[d].invalid # {} => gone # {}

\* The dossier of a version's rooms and epochs.
IsOf(d, v, seen) ==
    /\ Stored(d)
    /\ dossiers[d].snapshot_hash = Rooms[v] /\ dossiers[d].seen = seen

RowOK(k) ==
    preps[k] # NULL =>
        /\ IsOf(preps[k].dossier, k[1], k[2])
        /\ preps[k].banter # NULL => BanterFits(preps[k].banter)
        /\ preps[k].banter # NULL /\ ValidRow(k) => MadeFrom(preps[k].banter, preps[k].dossier)
        /\ preps[k].status = "INVALIDATED" => gone # {}

\* Runs with a dossier in hand that is not stored, and those whose is.
Unsaved(r) ==
    \/ r.at = "analyze_reason"
    \/ r.at \in {"persist_dossier", "insert"} /\ ~r.reuse

Saved(r) ==
    \/ r.at \in {"read", "read_saved", "generate_banter"}
    \/ r.at \in {"persist_dossier", "insert"} /\ r.reuse

Held(r) ==
    /\ r.seen \subseteq gone
    /\ r.at \in {"find", "resolve_sources", "analyze_reason"} => ~r.reuse
    /\ r.at \in {"find", "resolve_sources"} => r.copied = NoBanter
    /\ Saved(r) => IsOf(r.dossier, r.version, r.seen)
    /\ Unsaved(r) =>
         r.dossier \in Id /\ dossiers[r.dossier] = NULL /\ Apart(r.facts, r.seen)

Carried(r) ==
    /\ \A f \in r.facts : FactFits(f)
    /\ BanterFits(r.copied) /\ MadeFrom(r.copied, r.dossier)
    /\ BanterFits(r.banter)
    /\ gone = {} /\ Saved(r) /\ r.at \notin {"read", "read_saved"} =>
         r.facts = dossiers[r.dossier].facts

\* The row a run will write to.
Target(r) ==
    LET k == <<r.version, r.seen>> IN
    /\ r.at \in {"find_saved", "read_saved", "generate_banter", "persist_banter"} =>
         preps[k] # NULL
    /\ r.at \in {"read_saved", "generate_banter"} /\ ValidRow(k) => preps[k].dossier = r.dossier
    /\ r.at = "persist_banter" /\ ValidRow(k) => MadeFrom(r.banter, preps[k].dossier)

RunFits(r) == Held(r) /\ Carried(r) /\ Target(r)

\* No two runs are about to store the same dossier.
Alone ==
    \A h \in Handler : Unsaved(run[h]) =>
        \A g \in Handler \ {h} : run[g].dossier # run[h].dossier

Inv ==
    /\ TypeOK /\ Own \notin gone
    /\ \A d \in Id : DossierOK(d)
    /\ \A k \in Key : RowOK(k)
    /\ \A h \in Handler : RunFits(run[h])
    /\ Alone

-----------------------------------------------------------------------------
(* Types of what is read from the tables.                                  *)

LEMMA Constants ==
    /\ Own \in Covered /\ Covered \subseteq Source /\ Own \in Source
    /\ \A v \in 1..Versions : Rooms[v] \in SUBSET Room /\ Targets[v] \in SUBSET Intensity
    /\ \A s \in Source : Scope[s] \in [visibility : Visibility, rooms : SUBSET Room]
    /\ NULL \notin Id
  BY PreparationAssumption

LEMMA RowFacts ==
    ASSUME Inv, NEW k \in Key, preps[k] # NULL
    PROVE  /\ preps[k] \in PrepRow /\ preps[k].dossier \in Id
           /\ dossiers[preps[k].dossier] \in DossierRow
           /\ dossiers[preps[k].dossier] # NULL
           /\ RowOK(k)
  <1>1. preps[k] \in PrepRow /\ RowOK(k)
    BY DEF Inv, TypeOK
  <1>2. preps[k].dossier \in Id /\ dossiers[preps[k].dossier] # NULL
    BY <1>1 DEF PrepRow, RowOK, IsOf, Stored
  <1> QED
    BY <1>1, <1>2 DEF Inv, TypeOK

LEMMA RunFacts ==
    ASSUME Inv, NEW h \in Handler
    PROVE  /\ run[h] \in PrepareState /\ RunFits(run[h])
           /\ KeyOf(h) = <<run[h].version, run[h].seen>> /\ KeyOf(h) \in Key
  <1>1. run[h] \in PrepareState /\ RunFits(run[h])
    BY DEF Inv, TypeOK
  <1> QED
    BY <1>1 DEF PrepareState, KeyOf, Key

LEMMA SavedFacts ==
    ASSUME Inv, NEW r \in PrepareState, Held(r), Saved(r)
    PROVE  /\ r.dossier \in Id /\ dossiers[r.dossier] # NULL
           /\ dossiers[r.dossier] \in DossierRow /\ DossierOK(r.dossier)
           /\ dossiers[r.dossier].snapshot_hash = Rooms[r.version]
           /\ dossiers[r.dossier].seen = r.seen
  BY DEF Held, IsOf, Stored, Inv, TypeOK

LEMMA NoBanterFits ==
    /\ NoBanter \in Banter /\ BanterFits(NoBanter)
    /\ \A d : MadeFrom(NoBanter, d)
  BY DEF NoBanter, Banter, BanterFits, MadeFrom

LEMMA IdleFits ==
    /\ Idle \in PrepareState /\ RunFits(Idle)
    /\ Idle.dossier = NULL /\ ~Unsaved(Idle)
  <1>1. 1 \in 1..Versions
    BY PreparationAssumption
  <1>2. Idle \in PrepareState
    BY <1>1, NoBanterFits DEF Idle, PrepareState, At, Epochs
  <1> QED
    BY <1>2, NoBanterFits
    DEF Idle, RunFits, Held, Carried, Target, Saved, Unsaved, FactFits

-----------------------------------------------------------------------------
(* Rows and dossiers are added, made invalid, and otherwise kept.          *)

Grows ==
    /\ \A d \in Id : dossiers[d] # NULL =>
          /\ dossiers'[d] # NULL
          /\ dossiers'[d].snapshot_hash = dossiers[d].snapshot_hash
          /\ dossiers'[d].seen = dossiers[d].seen
          /\ dossiers'[d].facts = dossiers[d].facts
    /\ \A k \in Key : preps[k] # NULL =>
          /\ preps'[k] # NULL /\ preps'[k].dossier = preps[k].dossier
          /\ ValidRow(k)' => ValidRow(k)
    /\ gone \subseteq gone'

LEMMA CandidateGrows ==
    ASSUME Grows, NEW c, CandidateFits(c)
    PROVE  CandidateFits(c)'
  BY DEF Grows, CandidateFits, Stored

LEMMA BanterGrows ==
    ASSUME Grows, NEW b, BanterFits(b)
    PROVE  BanterFits(b)'
  BY CandidateGrows DEF BanterFits

LEMMA RowGrows ==
    ASSUME Inv, Grows, NEW k \in Key, preps[k] # NULL, preps'[k].banter = preps[k].banter,
           preps'[k].status = "INVALIDATED" => gone' # {}
    PROVE  RowOK(k)'
  <1>1. RowOK(k) /\ preps'[k].dossier = preps[k].dossier /\ (ValidRow(k)' => ValidRow(k))
    BY RowFacts DEF Grows
  <1>2. IsOf(preps[k].dossier, k[1], k[2])'
    BY <1>1 DEF RowOK, IsOf, Stored, Grows
  <1>3. PICK b : b = preps[k].banter
    OBVIOUS
  <1>4. b # NULL => BanterFits(b) /\ (ValidRow(k) => MadeFrom(b, preps[k].dossier))
    BY <1>1, <1>3 DEF RowOK
  <1>5. b # NULL => BanterFits(b)'
    BY <1>4, BanterGrows
  <1>6. preps'[k].banter # NULL => BanterFits(preps[k].banter)'
    BY <1>3, <1>5 DEF BanterFits, CandidateFits, Stored
  <1>7. preps'[k].banter # NULL /\ ValidRow(k)' =>
          MadeFrom(preps[k].banter, preps[k].dossier)'
    BY <1>1, <1>3, <1>4 DEF MadeFrom
  <1> QED
    BY <1>2, <1>6, <1>7 DEF RowOK

LEMMA RunGrows ==
    ASSUME Inv, Grows, NEW r \in PrepareState, RunFits(r),
           Unsaved(r) => dossiers'[r.dossier] = NULL
    PROVE  RunFits(r)'
  <1>1. Held(r)'
    BY DEF RunFits, Held, Grows, IsOf, Stored, Saved, Unsaved, Apart
  <1>2. Carried(r)'
    <2>1. BanterFits(r.copied)' /\ BanterFits(r.banter)'
      BY BanterGrows DEF RunFits, Carried
    <2>2. Saved(r) => r.dossier \in Id /\ dossiers[r.dossier] # NULL
      BY SavedFacts DEF RunFits
    <2>3. gone' = {} => gone = {}
      BY DEF Grows
    <2>4. ASSUME gone' = {}, Saved(r), r.at \notin {"read", "read_saved"}
          PROVE  r.facts = dossiers'[r.dossier].facts
      BY <2>2, <2>3, <2>4 DEF RunFits, Carried, Grows
    <2> QED
      BY <2>1, <2>4 DEF RunFits, Carried, Saved, MadeFrom, FactFits
  <1>3. Target(r)'
    <2>1. <<r.version, r.seen>> \in Key
      BY DEF PrepareState, Key
    <2> QED
      BY <2>1 DEF RunFits, Target, Grows, MadeFrom
  <1> QED
    BY <1>1, <1>2, <1>3 DEF RunFits

\* A step of one run that leaves the tables alone.
LEMMA RunSteps ==
    ASSUME Inv, UNCHANGED <<Backend, Store>>, NEW h \in Handler, NEW r \in PrepareState,
           run' = [run EXCEPT ![h] = r], RunFits(r), started' \in 0..Runs,
           \A g \in Handler \ {h} :
              /\ Unsaved(run[g]) => r.dossier # run[g].dossier
              /\ Unsaved(r) => run[g].dossier # r.dossier
    PROVE  Inv'
  <1>1. UNCHANGED <<version, gone, cleaned, dossiers, preps>>
    BY DEF Backend, Store
  <1>2. /\ run' \in [Handler -> PrepareState] /\ run'[h] = r
        /\ \A g \in Handler \ {h} : run'[g] = run[g]
    BY DEF Inv, TypeOK
  <1>3. TypeOK' /\ Own \notin gone'
    BY <1>1, <1>2 DEF Inv, TypeOK
  <1>4. (\A d \in Id : DossierOK(d))' /\ (\A k \in Key : RowOK(k))'
    <2>1. \A d \in Id : DossierOK(d)'
      BY <1>1 DEF Inv, DossierOK
    <2>2. \A k \in Key : RowOK(k)'
      BY <1>1 DEF Inv, RowOK, IsOf, Stored, BanterFits, CandidateFits, ValidRow
    <2> QED
      BY <2>1, <2>2
  <1>5. Grows
    BY <1>1 DEF Grows, ValidRow
  <1>6. ASSUME NEW g \in Handler PROVE RunFits(run[g])'
    <2>1. CASE g = h
      <3>1. RunFits(r)'
        BY <1>1, <1>5, RunGrows DEF RunFits, Held
      <3>2. run'[g] = r
        BY <1>2, <2>1
      <3> QED
        BY <3>1, <3>2 DEF RunFits, Held, Carried, Target, Saved, Unsaved
    <2>2. CASE g # h
      <3> DEFINE q == run[g]
      <3>1. q \in PrepareState /\ RunFits(q)
        BY RunFacts
      <3>2. RunFits(q)'
        BY <1>1, <1>2, <1>5, <2>2, <3>1, RunGrows DEF RunFits, Held
      <3> QED
        BY <1>2, <2>2, <3>2
    <2> QED
      BY <2>1, <2>2
  <1>7. Alone'
    BY <1>2 DEF Inv, Alone, Unsaved
  <1> QED
    BY <1>3, <1>4, <1>6, <1>7 DEF Inv

-----------------------------------------------------------------------------
(* Evidence.                                                               *)

ScopeSet == [visibility : Visibility, rooms : SUBSET Room]

LEMMA NarrowestFits ==
    ASSUME NEW refs \in SUBSET Fact
    PROVE  /\ NarrowestScope(refs) \in ScopeSet
           /\ \A rooms \in SUBSET Room :
                Usable(NarrowestScope(refs), rooms) => \A f \in refs : Usable(f.scope, rooms)
  <1> DEFINE limited == {f \in refs : f.scope.visibility = "ROOMS"}
             shared == {r \in Room : \A f \in limited : r \in f.scope.rooms}
  <1>1. \A f \in refs : f.scope \in ScopeSet /\ f.scope.visibility \in Visibility
    BY DEF Fact, ScopeSet
  <1>2. CASE \E f \in refs : f.scope.visibility = "PRIVATE"
    <2>1. NarrowestScope(refs) = [visibility |-> "PRIVATE", rooms |-> {}]
      BY <1>2 DEF NarrowestScope
    <2> QED
      BY <2>1 DEF ScopeSet, Visibility, Usable
  <1>3. CASE ~(\E f \in refs : f.scope.visibility = "PRIVATE") /\ limited = {}
    <2>1. NarrowestScope(refs) = [visibility |-> "PUBLIC", rooms |-> {}]
      BY <1>3 DEF NarrowestScope
    <2>2. \A f \in refs : f.scope.visibility = "PUBLIC"
      BY <1>1, <1>3 DEF Visibility
    <2> QED
      BY <2>1, <2>2 DEF ScopeSet, Visibility, Usable
  <1>4. CASE ~(\E f \in refs : f.scope.visibility = "PRIVATE") /\ limited # {}
    <2>1. NarrowestScope(refs) = [visibility |-> "ROOMS", rooms |-> shared]
      BY <1>4 DEF NarrowestScope
    <2>2. ASSUME NEW rooms \in SUBSET Room, Usable(NarrowestScope(refs), rooms), NEW f \in refs
          PROVE  Usable(f.scope, rooms)
      <3>1. rooms # {} /\ rooms \subseteq shared
        BY <2>1, <2>2 DEF Usable
      <3>2. CASE f.scope.visibility = "ROOMS"
        BY <3>1, <3>2 DEF Usable
      <3>3. CASE f.scope.visibility = "PUBLIC"
        BY <3>3 DEF Usable
      <3> QED
        BY <1>1, <1>4, <3>2, <3>3 DEF Visibility
    <2> QED
      BY <2>1, <2>2 DEF ScopeSet, Visibility
  <1> QED
    BY <1>2, <1>3, <1>4

LEMMA InferredFits ==
    ASSUME NEW facts \in SUBSET Fact, NEW seen, \A f \in facts : FactFits(f), Apart(facts, seen),
           NEW fact \in ContextAnswers(facts)
    PROVE  fact \in Fact /\ FactFits(fact) /\ fact.sources \cap seen = {}
  <1>1. PICK refs \in SUBSET facts : fact = Inferred(refs)
    BY DEF ContextAnswers
  <1>2. /\ fact.sources = UNION {f.sources : f \in refs}
        /\ fact.scope = NarrowestScope(refs)
        /\ fact = [sources |-> fact.sources, scope |-> fact.scope]
    BY <1>1 DEF Inferred
  <1>3. refs \in SUBSET Fact /\ \A f \in refs : f.sources \in SUBSET Source
    BY DEF Fact
  <1>4. fact \in Fact
    BY <1>2, <1>3, NarrowestFits DEF Fact, ScopeSet
  <1>5. FactFits(fact)
    BY <1>2, <1>3, NarrowestFits DEF FactFits
  <1>6. fact.sources \cap seen = {}
    BY <1>2 DEF Apart
  <1> QED
    BY <1>4, <1>5, <1>6

LEMMA CodeFactsFit ==
    ASSUME NEW v \in 1..Versions, NEW confirmed \in SUBSET Source,
           NEW seen, Own \notin seen, confirmed \cap seen = {}
    PROVE  /\ CodeFacts(v, confirmed) \in SUBSET Fact
           /\ \A f \in CodeFacts(v, confirmed) : FactFits(f)
           /\ Apart(CodeFacts(v, confirmed), seen)
  <1>1. ThisCase(v) \in Fact /\ FactFits(ThisCase(v)) /\ ThisCase(v).sources \cap seen = {}
    BY Constants DEF ThisCase, Fact, Visibility, FactFits, VisibleIn
  <1>2. ASSUME NEW s \in confirmed
        PROVE  Drafted(s) \in Fact /\ FactFits(Drafted(s)) /\ Drafted(s).sources \cap seen = {}
    BY Constants DEF Drafted, Fact, FactFits, VisibleIn
  <1> QED
    BY <1>1, <1>2 DEF CodeFacts, Apart

\* What one run may take over: a dossier of its rooms and its epochs, with the
\* candidates made from it.
LEMMA LoadableFits ==
    ASSUME Inv, NEW v \in 1..Versions, NEW seen \in Epochs, NEW k \in Loadable(v, seen)
    PROVE  /\ k \in Key /\ preps[k] # NULL /\ ValidRow(k)
           /\ IsOf(preps[k].dossier, v, seen) /\ preps[k].dossier \in Id
           /\ Copied(k, v) \in Banter
           /\ BanterFits(Copied(k, v)) /\ MadeFrom(Copied(k, v), preps[k].dossier)
           /\ ValidRow(<<v, seen>>) => k = <<v, seen>>
  <1>1. k \in Key /\ ValidRow(k) /\ (ValidRow(<<v, seen>>) => k = <<v, seen>>)
    BY DEF Loadable, Key
  <1>2. preps[k] # NULL /\ preps[k] \in PrepRow /\ preps[k].dossier \in Id /\ RowOK(k)
    BY <1>1, RowFacts DEF ValidRow
  <1>3. IsOf(preps[k].dossier, v, seen)
    <2>1. CASE k = <<v, seen>>
      BY <1>2, <2>1 DEF RowOK
    <2>2. CASE /\ dossiers[preps[k].dossier].snapshot_hash = DossierKey(v)
               /\ dossiers[preps[k].dossier].seen = seen
      BY <1>2, <2>2 DEF RowOK, IsOf, DossierKey
    <2> QED
      BY <2>1, <2>2 DEF Loadable
  <1>4. \A i \in Intensity : Copied(k, v)[i] # NULL =>
           preps[k].banter # NULL /\ Copied(k, v)[i] = preps[k].banter[i]
    BY DEF Copied
  <1>5. Copied(k, v) \in Banter
    BY <1>2 DEF Copied, PrepRow, Banter
  <1>6. BanterFits(Copied(k, v)) /\ MadeFrom(Copied(k, v), preps[k].dossier)
    BY <1>1, <1>2, <1>4 DEF RowOK, BanterFits, MadeFrom
  <1> QED
    BY <1>1, <1>2, <1>3, <1>5, <1>6

LEMMA StoredFactsFit ==
    ASSUME Inv, NEW d \in Id, dossiers[d] # NULL
    PROVE  /\ StoredFacts(d) \in SUBSET Fact
           /\ \A f \in StoredFacts(d) : FactFits(f)
           /\ gone = {} => StoredFacts(d) = dossiers[d].facts
  <1>1. dossiers[d] \in DossierRow /\ DossierOK(d)
    BY DEF Inv, TypeOK
  <1> QED
    BY <1>1 DEF DossierRow, DossierOK, StoredFacts

-----------------------------------------------------------------------------
(* The steps of a run.                                                     *)

\* What a run may come to hold without taking it from another.
Holds(h, r) ==
    \/ r.dossier = NULL /\ ~Unsaved(r)
    \/ r.dossier \in Id /\ dossiers[r.dossier] # NULL /\ ~Unsaved(r)
    \/ r.dossier = run[h].dossier /\ (Unsaved(r) => Unsaved(run[h]))
    \/ r.dossier \in Id /\ Fresh(r.dossier)

LEMMA RunGoes ==
    ASSUME Inv, UNCHANGED <<Backend, Store, started>>, NEW h \in Handler, NEW r \in PrepareState,
           run' = [run EXCEPT ![h] = r], RunFits(r), Holds(h, r)
    PROVE  Inv'
  <1>1. \A g \in Handler : Unsaved(run[g]) =>
           /\ run[g].dossier \in Id /\ dossiers[run[g].dossier] = NULL
           /\ \A f \in Handler \ {g} : run[f].dossier # run[g].dossier
    BY DEF Inv, Alone, RunFits, Held
  <1>2. \A g \in Handler \ {h} :
           /\ Unsaved(run[g]) => r.dossier # run[g].dossier
           /\ Unsaved(r) => run[g].dossier # r.dossier
    BY <1>1, Constants DEF Holds, Fresh
  <1>3. started' \in 0..Runs /\ UNCHANGED <<Backend, Store>>
    BY DEF Inv, TypeOK
  <1> QED
    BY <1>2, <1>3, RunSteps

LEMMA EndsGoes ==
    ASSUME Inv, UNCHANGED <<Backend, Store, started>>, NEW h \in Handler, Ends(h)
    PROVE  Inv'
  BY IdleFits, RunGoes DEF Ends, Holds

\* A run that only goes to its next statement.
LEMMA MovesGoes ==
    ASSUME Inv, UNCHANGED <<Backend, Store, started>>, NEW h \in Handler, NEW at \in At,
           Moves(h, at),
           \/ run[h].at = "find" /\ at = "resolve_sources"
           \/ run[h].at = "analyze_reason" /\ at = "persist_dossier"
           \/ run[h].at = "persist_dossier" /\ at = "insert"
    PROVE  Inv'
  <1> DEFINE r == [run[h] EXCEPT !.at = at]
  <1>1. run[h] \in PrepareState /\ RunFits(run[h])
    BY RunFacts
  <1>2. /\ r \in PrepareState /\ r.at = at
        /\ r.version = run[h].version /\ r.seen = run[h].seen /\ r.dossier = run[h].dossier
        /\ r.facts = run[h].facts /\ r.reuse = run[h].reuse /\ r.copied = run[h].copied
        /\ r.banter = run[h].banter
    BY <1>1 DEF PrepareState
  <1>3. run' = [run EXCEPT ![h] = r]
    BY DEF Moves
  <1> HIDE DEF r
  <1>4. RunFits(r) /\ Holds(h, r)
    BY <1>1, <1>2 DEF RunFits, Held, Carried, Target, Saved, Unsaved, Holds
  <1> QED
    BY <1>2, <1>3, <1>4, RunGoes

LEMMA LoadCaseGoes == ASSUME Inv, NEW h \in Handler, LoadCase(h) PROVE Inv'
  <1> DEFINE r == [Idle EXCEPT !.at = "find", !.version = version, !.seen = Now]
  <1>1. version \in 1..Versions /\ Now \in Epochs /\ Now \subseteq gone
    BY DEF Inv, TypeOK, Now, Epochs
  <1>2. /\ r \in PrepareState /\ r.at = "find" /\ r.seen = Now /\ r.dossier = NULL
        /\ r.facts = {} /\ r.reuse = FALSE /\ r.copied = NoBanter /\ r.banter = NoBanter
    BY <1>1, IdleFits DEF Idle, PrepareState, At
  <1> HIDE DEF r
  <1>3. RunFits(r) /\ ~Unsaved(r)
    BY <1>1, <1>2, NoBanterFits DEF RunFits, Held, Carried, Target, Saved, Unsaved
  <1>4. UNCHANGED <<Backend, Store>> /\ run' = [run EXCEPT ![h] = r] /\ started' \in 0..Runs
    BY PreparationAssumption DEF LoadCase, Inv, TypeOK, r
  <1>5. \A g \in Handler \ {h} : Unsaved(run[g]) => r.dossier # run[g].dossier
    BY <1>2, Constants DEF Inv, RunFits, Held
  <1> QED
    BY <1>2, <1>3, <1>4, <1>5, RunSteps

LEMMA FindPrepGoes == ASSUME Inv, NEW h \in Handler, FindPrep(h) PROVE Inv'
  <1>1. /\ run[h] \in PrepareState /\ RunFits(run[h]) /\ run[h].at = "find"
        /\ UNCHANGED <<Backend, Store, started>>
    BY RunFacts DEF FindPrep
  <1>2. CASE Moves(h, "resolve_sources")
    BY <1>1, <1>2, MovesGoes DEF At
  <1>3. ASSUME NEW k \in Loadable(run[h].version, run[h].seen),
               run' = [run EXCEPT ![h].at = "read", ![h].dossier = preps[k].dossier,
                                  ![h].copied = Copied(k, run[h].version)]
        PROVE  Inv'
    <2> DEFINE copied == Copied(k, run[h].version)
               r == [run[h] EXCEPT !.at = "read", !.dossier = preps[k].dossier, !.copied = copied]
    <2>1. /\ preps[k].dossier \in Id /\ IsOf(preps[k].dossier, run[h].version, run[h].seen)
          /\ copied \in Banter /\ BanterFits(copied) /\ MadeFrom(copied, preps[k].dossier)
      BY <1>1, LoadableFits DEF PrepareState
    <2>2. run' = [run EXCEPT ![h] = r]
      BY <1>1, <1>3 DEF Inv, TypeOK, PrepareState
    <2> HIDE DEF copied
    <2>3. /\ r \in PrepareState /\ r.at = "read"
          /\ r.version = run[h].version /\ r.seen = run[h].seen /\ r.dossier = preps[k].dossier
          /\ r.facts = run[h].facts /\ r.copied = copied /\ r.banter = run[h].banter
      BY <1>1, <2>1 DEF PrepareState, At
    <2> HIDE DEF r
    <2>4. RunFits(r)
      BY <1>1, <2>1, <2>3 DEF RunFits, Held, Carried, Target, Saved, Unsaved
    <2>5. Holds(h, r)
      BY <2>1, <2>3 DEF Holds, Unsaved, IsOf, Stored
    <2> QED
      BY <1>1, <2>2, <2>3, <2>4, <2>5, RunGoes
  <1> QED
    BY <1>2, <1>3 DEF FindPrep

LEMMA ReadPrepGoes == ASSUME Inv, NEW h \in Handler, ReadPrep(h) PROVE Inv'
  <1> DEFINE d == run[h].dossier
             r == [run[h] EXCEPT !.at = "persist_dossier", !.reuse = TRUE,
                                 !.facts = StoredFacts(d)]
  <1>1. /\ run[h] \in PrepareState /\ RunFits(run[h]) /\ run[h].at = "read"
        /\ UNCHANGED <<Backend, Store, started>>
    BY RunFacts DEF ReadPrep
  <1>2. d \in Id /\ dossiers[d] # NULL
    BY <1>1, SavedFacts DEF RunFits, Saved
  <1>3. run' = [run EXCEPT ![h] = r]
    BY <1>1 DEF ReadPrep, Inv, TypeOK, PrepareState
  <1>4. /\ r \in PrepareState /\ r.at = "persist_dossier" /\ r.reuse = TRUE
        /\ r.version = run[h].version /\ r.seen = run[h].seen /\ r.dossier = d
        /\ r.facts = StoredFacts(d) /\ r.copied = run[h].copied /\ r.banter = run[h].banter
    BY <1>1, <1>2, StoredFactsFit DEF PrepareState, At
  <1> HIDE DEF r
  <1>5. RunFits(r)
    BY <1>1, <1>2, <1>4, StoredFactsFit DEF RunFits, Held, Carried, Target, Saved, Unsaved
  <1>6. Holds(h, r)
    BY <1>2, <1>4 DEF Holds, Unsaved
  <1> QED
    BY <1>1, <1>3, <1>4, <1>5, <1>6, RunGoes

LEMMA ResolveSourcesGoes == ASSUME Inv, NEW h \in Handler, ResolveSources(h) PROVE Inv'
  <1>1. /\ run[h] \in PrepareState /\ RunFits(run[h]) /\ run[h].at = "resolve_sources"
        /\ UNCHANGED <<Backend, Store, started>>
    BY RunFacts DEF ResolveSources
  <1>2. PICK d \in Id, offered \in Offers :
          /\ Fresh(d)
          /\ run' = [run EXCEPT ![h].at = "analyze_reason", ![h].dossier = d,
                                ![h].facts = CodeFacts(run[h].version, offered \ gone)]
    BY DEF ResolveSources
  <1> DEFINE facts == CodeFacts(run[h].version, offered \ gone)
             r == [run[h] EXCEPT !.at = "analyze_reason", !.dossier = d, !.facts = facts]
  <1>3. facts \in SUBSET Fact /\ (\A f \in facts : FactFits(f)) /\ Apart(facts, run[h].seen)
    <2>1. run[h].version \in 1..Versions /\ run[h].seen \subseteq gone /\ Own \notin run[h].seen
      BY <1>1 DEF PrepareState, RunFits, Held, Inv
    <2>2. offered \ gone \in SUBSET Source /\ (offered \ gone) \cap run[h].seen = {}
      BY <2>1, PreparationAssumption
    <2> QED
      BY <2>1, <2>2, CodeFactsFit
  <1>4. run' = [run EXCEPT ![h] = r]
    BY <1>1, <1>2 DEF Inv, TypeOK, PrepareState
  <1> HIDE DEF facts
  <1>5. /\ r \in PrepareState /\ r.at = "analyze_reason" /\ r.reuse = run[h].reuse
        /\ r.version = run[h].version /\ r.seen = run[h].seen /\ r.dossier = d
        /\ r.facts = facts /\ r.copied = run[h].copied /\ r.banter = run[h].banter
    BY <1>1, <1>3 DEF PrepareState, At
  <1> HIDE DEF r
  <1>6. RunFits(r)
    BY <1>1, <1>2, <1>3, <1>5, NoBanterFits
    DEF RunFits, Held, Carried, Target, Saved, Unsaved, Fresh
  <1>7. Holds(h, r)
    BY <1>2, <1>5 DEF Holds
  <1> QED
    BY <1>1, <1>4, <1>5, <1>6, <1>7, RunGoes

LEMMA AnalyzeReasonGoes == ASSUME Inv, NEW h \in Handler, AnalyzeReason(h) PROVE Inv'
  <1>1. /\ run[h] \in PrepareState /\ RunFits(run[h]) /\ run[h].at = "analyze_reason"
        /\ UNCHANGED <<Backend, Store, started>>
    BY RunFacts DEF AnalyzeReason
  <1>2. CASE Moves(h, "persist_dossier") \/ Ends(h)
    BY <1>1, <1>2, MovesGoes, EndsGoes DEF At
  <1>3. ASSUME NEW fact \in ContextAnswers(run[h].facts),
               run' = [run EXCEPT ![h].at = "persist_dossier", ![h].facts = @ \cup {fact}]
        PROVE  Inv'
    <2> DEFINE facts == run[h].facts \cup {fact}
               r == [run[h] EXCEPT !.at = "persist_dossier", !.facts = facts]
    <2>1. /\ run[h].facts \in SUBSET Fact /\ \A f \in run[h].facts : FactFits(f)
          /\ Apart(run[h].facts, run[h].seen)
      BY <1>1 DEF PrepareState, RunFits, Held, Carried, Unsaved
    <2>2. facts \in SUBSET Fact /\ (\A f \in facts : FactFits(f)) /\ Apart(facts, run[h].seen)
      <3>1. fact \in Fact /\ FactFits(fact) /\ fact.sources \cap run[h].seen = {}
        BY <2>1, InferredFits
      <3> QED
        BY <2>1, <3>1 DEF Apart
    <2>3. run' = [run EXCEPT ![h] = r]
      BY <1>1, <1>3 DEF Inv, TypeOK, PrepareState
    <2> HIDE DEF facts
    <2>4. /\ r \in PrepareState /\ r.at = "persist_dossier" /\ r.reuse = run[h].reuse
          /\ r.version = run[h].version /\ r.seen = run[h].seen /\ r.dossier = run[h].dossier
          /\ r.facts = facts /\ r.copied = run[h].copied /\ r.banter = run[h].banter
      BY <1>1, <2>2 DEF PrepareState, At
    <2> HIDE DEF r
    <2>5. RunFits(r)
      BY <1>1, <2>2, <2>4 DEF RunFits, Held, Carried, Target, Saved, Unsaved
    <2>6. Holds(h, r)
      BY <1>1, <2>4 DEF Holds, Unsaved
    <2> QED
      BY <1>1, <2>3, <2>4, <2>5, <2>6, RunGoes
  <1> QED
    BY <1>2, <1>3 DEF AnalyzeReason

LEMMA CheckEpochsGoes == ASSUME Inv, NEW h \in Handler, CheckEpochs(h) PROVE Inv'
  <1>1. run[h].at = "persist_dossier" /\ UNCHANGED <<Backend, Store, started>>
    BY DEF CheckEpochs
  <1>2. Ends(h) \/ Moves(h, "insert")
    BY DEF CheckEpochs
  <1> QED
    BY <1>1, <1>2, EndsGoes, MovesGoes DEF At

LEMMA FindSavedGoes == ASSUME Inv, NEW h \in Handler, FindSaved(h) PROVE Inv'
  <1>1. /\ run[h] \in PrepareState /\ RunFits(run[h]) /\ run[h].at = "find_saved"
        /\ UNCHANGED <<Backend, Store, started>>
    BY RunFacts DEF FindSaved
  <1>2. CASE Ends(h)
    BY <1>1, <1>2, EndsGoes
  <1>3. ASSUME NEW k \in Loadable(run[h].version, run[h].seen),
               run' = [run EXCEPT ![h].at = "read_saved", ![h].dossier = preps[k].dossier,
                                  ![h].copied = Copied(k, run[h].version)]
        PROVE  Inv'
    <2> DEFINE copied == Copied(k, run[h].version)
               r == [run[h] EXCEPT !.at = "read_saved", !.dossier = preps[k].dossier,
                                   !.copied = copied]
    <2>1. /\ preps[k].dossier \in Id /\ IsOf(preps[k].dossier, run[h].version, run[h].seen)
          /\ copied \in Banter /\ BanterFits(copied) /\ MadeFrom(copied, preps[k].dossier)
          /\ ValidRow(<<run[h].version, run[h].seen>>) => k = <<run[h].version, run[h].seen>>
      BY <1>1, LoadableFits DEF PrepareState
    <2>2. run' = [run EXCEPT ![h] = r]
      BY <1>1, <1>3 DEF Inv, TypeOK, PrepareState
    <2> HIDE DEF copied
    <2>3. /\ r \in PrepareState /\ r.at = "read_saved"
          /\ r.version = run[h].version /\ r.seen = run[h].seen /\ r.dossier = preps[k].dossier
          /\ r.facts = run[h].facts /\ r.copied = copied /\ r.banter = run[h].banter
      BY <1>1, <2>1 DEF PrepareState, At
    <2> HIDE DEF r
    <2>4. RunFits(r)
      BY <1>1, <2>1, <2>3 DEF RunFits, Held, Carried, Target, Saved, Unsaved
    <2>5. Holds(h, r)
      BY <2>1, <2>3 DEF Holds, Unsaved, IsOf, Stored
    <2> QED
      BY <1>1, <2>2, <2>3, <2>4, <2>5, RunGoes
  <1>4. Ends(h) \/ \E k \in Loadable(run[h].version, run[h].seen) :
          run' = [run EXCEPT ![h].at = "read_saved", ![h].dossier = preps[k].dossier,
                             ![h].copied = Copied(k, run[h].version)]
    BY DEF FindSaved
  <1> QED
    BY <1>2, <1>3, <1>4

LEMMA ReadSavedGoes == ASSUME Inv, NEW h \in Handler, ReadSaved(h) PROVE Inv'
  <1> DEFINE d == run[h].dossier
             r == [run[h] EXCEPT !.at = "generate_banter", !.facts = StoredFacts(d)]
  <1>1. /\ run[h] \in PrepareState /\ RunFits(run[h]) /\ run[h].at = "read_saved"
        /\ UNCHANGED <<Backend, Store, started>>
    BY RunFacts DEF ReadSaved
  <1>2. d \in Id /\ dossiers[d] # NULL
    BY <1>1, SavedFacts DEF RunFits, Saved
  <1>3. run' = [run EXCEPT ![h] = r]
    BY <1>1 DEF ReadSaved, Inv, TypeOK, PrepareState
  <1>4. /\ r \in PrepareState /\ r.at = "generate_banter"
        /\ r.version = run[h].version /\ r.seen = run[h].seen /\ r.dossier = d
        /\ r.facts = StoredFacts(d) /\ r.copied = run[h].copied /\ r.banter = run[h].banter
    BY <1>1, <1>2, StoredFactsFit DEF PrepareState, At
  <1> HIDE DEF r
  <1>5. RunFits(r)
    BY <1>1, <1>2, <1>4, StoredFactsFit DEF RunFits, Held, Carried, Target, Saved, Unsaved
  <1>6. Holds(h, r)
    BY <1>2, <1>4 DEF Holds, Unsaved
  <1> QED
    BY <1>1, <1>3, <1>4, <1>5, <1>6, RunGoes

\* Only what every room of the audience may see is shown to the model.
LEMMA OneCallFits ==
    ASSUME Inv, NEW h \in Handler, run[h].at = "generate_banter"
    PROVE  /\ OneCall(h) \in Candidates /\ OneCall(h).made = run[h].dossier
           /\ CandidateFits(OneCall(h))
  <1> DEFINE v == run[h].version
             pack == TargetPack(run[h].facts, v)
  <1>1. /\ run[h] \in PrepareState /\ RunFits(run[h])
        /\ run[h].facts \in SUBSET Fact /\ v \in 1..Versions
    BY RunFacts DEF PrepareState
  <1>2. /\ run[h].dossier \in Id /\ dossiers[run[h].dossier] # NULL
        /\ dossiers[run[h].dossier].snapshot_hash = Rooms[v]
    BY <1>1, SavedFacts DEF RunFits, Saved
  <1>3. /\ OneCall(h) = [made |-> run[h].dossier, shown |-> UNION {f.sources : f \in pack}]
        /\ OneCall(h).made = run[h].dossier
        /\ OneCall(h).shown = UNION {f.sources : f \in pack}
    BY DEF OneCall
  <1>4. \A f \in pack : f \in Fact /\ \A s \in f.sources : s \in Source /\ VisibleIn(s, Rooms[v])
    <2>1. \A f \in pack : f \in run[h].facts /\ Usable(f.scope, Rooms[v]) /\ FactFits(f)
      BY <1>1 DEF TargetPack, RunFits, Carried
    <2> QED
      BY <1>1, <2>1, Constants DEF FactFits, Fact
  <1>5. OneCall(h).shown \in SUBSET Source /\ \A s \in OneCall(h).shown : VisibleIn(s, Rooms[v])
    BY <1>3, <1>4
  <1> QED
    BY <1>2, <1>3, <1>5 DEF Candidates, CandidateFits, Stored

LEMMA GenerateBanterGoes == ASSUME Inv, NEW h \in Handler, GenerateBanter(h) PROVE Inv'
  <1> DEFINE missing == {i \in Targets[run[h].version] : run[h].copied[i] = NULL}
             new(ok) == [i \in Intensity |-> IF i \in ok THEN OneCall(h) ELSE run[h].copied[i]]
  <1>1. /\ run[h] \in PrepareState /\ RunFits(run[h]) /\ run[h].at = "generate_banter"
        /\ UNCHANGED <<Backend, Store, started>>
    BY RunFacts DEF GenerateBanter
  <1>2. CASE Ends(h)
    BY <1>1, <1>2, EndsGoes
  <1>3. ASSUME NEW ok \in SUBSET missing,
               run' = [run EXCEPT ![h] = [Idle EXCEPT !.at = "persist_banter",
                         !.banter = new(ok), !.version = run[h].version, !.seen = run[h].seen]]
        PROVE  Inv'
    <2> DEFINE banter == new(ok)
               r == [Idle EXCEPT !.at = "persist_banter", !.banter = banter,
                                 !.version = run[h].version, !.seen = run[h].seen]
    <2>1. /\ OneCall(h) \in Candidates /\ OneCall(h).made = run[h].dossier
          /\ CandidateFits(OneCall(h))
      BY <1>1, OneCallFits
    <2>2. \A i \in Intensity : banter[i] = OneCall(h) \/ banter[i] = run[h].copied[i]
      OBVIOUS
    <2>3. banter \in Banter
      BY <1>1, <2>1 DEF PrepareState, Banter
    <2> HIDE DEF banter
    <2>4. BanterFits(banter) /\ MadeFrom(banter, run[h].dossier)
      BY <1>1, <2>1, <2>2 DEF RunFits, Carried, BanterFits, MadeFrom
    <2>5. run' = [run EXCEPT ![h] = r]
      BY <1>3 DEF banter
    <2>6. /\ r \in PrepareState /\ r.at = "persist_banter" /\ r.dossier = NULL
          /\ r.version = run[h].version /\ r.seen = run[h].seen
          /\ r.facts = {} /\ r.copied = NoBanter /\ r.banter = banter
      BY <1>1, <2>3, IdleFits DEF PrepareState, At, Idle
    <2> HIDE DEF r
    <2>7. RunFits(r)
      BY <1>1, <2>4, <2>6, NoBanterFits DEF RunFits, Held, Carried, Target, Saved, Unsaved
    <2>8. Holds(h, r)
      BY <2>6 DEF Holds, Unsaved
    <2> QED
      BY <1>1, <2>5, <2>6, <2>7, <2>8, RunGoes
  <1>4. Ends(h) \/ \E ok \in SUBSET missing :
          run' = [run EXCEPT ![h] = [Idle EXCEPT !.at = "persist_banter",
                    !.banter = new(ok), !.version = run[h].version, !.seen = run[h].seen]]
    BY DEF GenerateBanter
  <1> QED
    BY <1>2, <1>3, <1>4

LEMMA CutOffGoes == ASSUME Inv, NEW h \in Handler, CutOff(h) PROVE Inv'
  BY EndsGoes DEF CutOff, Ends

-----------------------------------------------------------------------------
(* The steps that write to the tables, and the backend's.                  *)

\* What is left to show of such a step: types, what it has written itself, and
\* who is where.
LEMMA TableSteps ==
    ASSUME Inv, Grows, TypeOK', Own \notin gone',
           \A d \in Id : DossierOK(d)', \A k \in Key : RowOK(k)',
           NEW h \in Handler, RunFits(run[h])', ~Unsaved(run'[h]),
           run'[h].dossier \in {NULL, run[h].dossier},
           \A g \in Handler \ {h} : run'[g] = run[g],
           \A g \in Handler \ {h} : Unsaved(run[g]) => dossiers'[run[g].dossier] = NULL
    PROVE  Inv'
  <1>1. ASSUME NEW g \in Handler \ {h} PROVE RunFits(run[g])'
    <2> DEFINE r == run[g]
    <2>1. r \in PrepareState /\ RunFits(r)
      BY RunFacts
    <2>2. RunFits(r)'
      BY <2>1, RunGrows DEF RunFits, Held
    <2> QED
      BY <2>2
  <1>2. Alone'
    <2> SUFFICES ASSUME NEW f \in Handler, Unsaved(run'[f]), NEW g \in Handler \ {f}
                 PROVE  run'[g].dossier # run'[f].dossier
      BY DEF Alone
    <2>1. f # h /\ run'[f] = run[f] /\ Unsaved(run[f])
      OBVIOUS
    <2>2. run[f].dossier \in Id /\ \A e \in Handler \ {f} : run[e].dossier # run[f].dossier
      BY <2>1 DEF Inv, Alone, RunFits, Held
    <2> QED
      BY <2>1, <2>2, Constants
  <1> QED
    BY <1>1, <1>2 DEF Inv

LEMMA SavePrepGoes == ASSUME Inv, NEW h \in Handler, SavePrep(h) PROVE Inv'
  <1> DEFINE k == KeyOf(h)
             d == run[h].dossier
  <1>1. /\ run[h] \in PrepareState /\ RunFits(run[h]) /\ run[h].at = "insert"
        /\ k = <<run[h].version, run[h].seen>> /\ k \in Key
        /\ UNCHANGED <<version, gone, cleaned, started>>
    BY RunFacts DEF SavePrep, Backend
  <1>2. CASE preps[k] = NULL
    <2>0. PICK r : r = [run[h] EXCEPT !.at = "generate_banter", !.reuse = FALSE]
      OBVIOUS
    <2>1. /\ preps' = [preps EXCEPT ![k] = NewRow(h)]
          /\ dossiers' = IF run[h].reuse THEN dossiers ELSE [dossiers EXCEPT ![d] = NewDossier(h)]
          /\ run' = [run EXCEPT ![h] = r]
      BY <1>1, <1>2, <2>0 DEF SavePrep, Inv, TypeOK, PrepareState
    <2>2. /\ d \in Id
          /\ run[h].reuse => /\ dossiers[d] # NULL /\ dossiers[d].seen = run[h].seen
                             /\ dossiers[d].snapshot_hash = Rooms[run[h].version]
          /\ ~run[h].reuse => dossiers[d] = NULL /\ Apart(run[h].facts, run[h].seen)
      BY <1>1 DEF RunFits, Held, Saved, Unsaved, IsOf, Stored, PrepareState
    <2>3. NewDossier(h) \in DossierRow /\ NewRow(h) \in PrepRow
      <3>1. run[h].facts \in SUBSET Fact /\ run[h].version \in 1..Versions /\ run[h].seen \in Epochs
        BY <1>1 DEF PrepareState
      <3>2. \A f \in run[h].facts : f.sources \subseteq Source
        BY <3>1 DEF Fact
      <3>3. gone \cap UNION {f.sources : f \in run[h].facts} \in SUBSET Source
        BY <3>2
      <3>4. NewDossier(h) \in DossierRow
        BY <3>1, <3>3, Constants DEF NewDossier, DossierRow, DossierKey
      <3> QED
        BY <2>2, <3>4 DEF NewRow, PrepRow
    <2>4. NewDossier(h) # NULL /\ NewRow(h) # NULL
      BY <2>3, NullAssumption
    <2>5. /\ preps' \in [Key -> PrepRow \cup {NULL}] /\ preps'[k] = NewRow(h)
          /\ \A j \in Key \ {k} : preps'[j] = preps[j]
      BY <1>1, <2>1, <2>3 DEF Inv, TypeOK
    <2>6. /\ dossiers' \in [Id -> DossierRow \cup {NULL}]
          /\ \A e \in Id \ {d} : dossiers'[e] = dossiers[e]
          /\ dossiers'[d] = IF run[h].reuse THEN dossiers[d] ELSE NewDossier(h)
      BY <2>1, <2>2, <2>3 DEF Inv, TypeOK
    <2>7. dossiers'[d] # NULL /\ dossiers'[d].seen = run[h].seen
          /\ dossiers'[d].snapshot_hash = Rooms[run[h].version]
      BY <2>2, <2>4, <2>6 DEF NewDossier, DossierKey
    <2>8. Grows
      <3>1. \A e \in Id : dossiers[e] # NULL => dossiers'[e] = dossiers[e]
        BY <2>2, <2>6
      <3>2. \A j \in Key : preps[j] # NULL => preps'[j] = preps[j] /\ preps[j].dossier \in Id
              /\ dossiers[preps[j].dossier] # NULL
        BY <1>2, <2>5, RowFacts
      <3> QED
        BY <1>1, <3>1, <3>2 DEF Grows, ValidRow
    <2>9. /\ r \in PrepareState /\ r.at = "generate_banter" /\ r.version = run[h].version
          /\ r.seen = run[h].seen /\ r.dossier = d /\ r.facts = run[h].facts
          /\ r.copied = run[h].copied /\ r.banter = run[h].banter
      BY <1>1, <2>0 DEF PrepareState, At
    <2>10. /\ run' \in [Handler -> PrepareState] /\ run'[h] = r
           /\ \A g \in Handler \ {h} : run'[g] = run[g]
      BY <2>1, <2>9 DEF Inv, TypeOK
    <2>11. TypeOK' /\ Own \notin gone'
      BY <1>1, <2>5, <2>6, <2>10 DEF Inv, TypeOK
    <2>12. ASSUME NEW e \in Id PROVE DossierOK(e)'
      <3>1. CASE dossiers'[e] = dossiers[e]
        BY <1>1, <3>1 DEF Inv, DossierOK
      <3>2. CASE e = d /\ ~run[h].reuse
        <4>1. /\ dossiers'[e].facts = run[h].facts /\ dossiers'[e].invalid = {}
              /\ dossiers'[e].late = gone \cap UNION {f.sources : f \in run[h].facts}
              /\ dossiers'[e].seen = run[h].seen
          BY <2>6, <3>2 DEF NewDossier
        <4>2. cleaned \subseteq gone /\ \A f \in run[h].facts : FactFits(f)
          BY <1>1 DEF Inv, TypeOK, RunFits, Carried
        <4> QED
          BY <1>1, <2>2, <3>2, <4>1, <4>2 DEF DossierOK, FactFits
      <3> QED
        BY <2>6, <3>1, <3>2
    <2>13. ASSUME NEW j \in Key PROVE RowOK(j)'
      <3>1. CASE j = k
        BY <1>1, <2>2, <2>5, <2>7, <3>1 DEF RowOK, IsOf, Stored, NewRow
      <3>2. CASE j # k /\ preps[j] # NULL
        <4>1. preps'[j] = preps[j] /\ RowOK(j)
          BY <2>5, <3>2, RowFacts
        <4> QED
          BY <1>1, <2>8, <3>2, <4>1, RowGrows DEF RowOK
      <3>3. CASE j # k /\ preps[j] = NULL
        BY <2>5, <3>3 DEF RowOK
      <3> QED
        BY <3>1, <3>2, <3>3
    <2>14. RunFits(r)'
      <3>1. Held(r)'
        BY <1>1, <2>2, <2>7, <2>9 DEF RunFits, Held, IsOf, Stored, Unsaved
      <3>2. Carried(r)'
        <4>1. BanterFits(r.copied)' /\ BanterFits(r.banter)'
          BY <1>1, <2>8, <2>9, BanterGrows DEF RunFits, Carried
        <4>2. gone = {} => r.facts = dossiers'[d].facts
          BY <1>1, <2>6, <2>9 DEF RunFits, Carried, Saved, NewDossier
        <4> QED
          BY <1>1, <2>9, <4>1, <4>2 DEF RunFits, Carried, MadeFrom, FactFits
      <3>3. Target(r)'
        BY <1>1, <2>4, <2>5, <2>9 DEF Target, NewRow
      <3> QED
        BY <3>1, <3>2, <3>3 DEF RunFits
    <2>15. RunFits(run[h])' /\ ~Unsaved(run'[h]) /\ run'[h].dossier = d
      BY <2>9, <2>10, <2>14 DEF RunFits, Held, Carried, Target, Saved, Unsaved
    <2>16. \A g \in Handler \ {h} : Unsaved(run[g]) => dossiers'[run[g].dossier] = NULL
      BY <2>6 DEF Inv, Alone, RunFits, Held
    <2> QED
      BY <2>8, <2>10, <2>11, <2>12, <2>13, <2>15, <2>16, TableSteps
  <1>3. CASE preps[k] # NULL
    <2>1. UNCHANGED <<Backend, Store, started>>
      BY <1>1, <1>3 DEF SavePrep
    <2>2. CASE Ends(h)
      BY <2>1, <2>2, EndsGoes
    <2> DEFINE r == [Idle EXCEPT !.at = "find_saved", !.version = run[h].version,
                                 !.seen = run[h].seen]
    <2>3. CASE run' = [run EXCEPT ![h] = r]
      <3>1. /\ r \in PrepareState /\ r.at = "find_saved" /\ r.dossier = NULL
            /\ r.version = run[h].version /\ r.seen = run[h].seen
            /\ r.facts = {} /\ r.copied = NoBanter /\ r.banter = NoBanter
        BY <1>1, IdleFits DEF PrepareState, At, Idle
      <3> HIDE DEF r
      <3>2. RunFits(r)
        BY <1>1, <1>3, <3>1, NoBanterFits DEF RunFits, Held, Carried, Target, Saved, Unsaved
      <3>3. Holds(h, r)
        BY <3>1 DEF Holds, Unsaved
      <3> QED
        BY <2>1, <2>3, <3>1, <3>2, <3>3, RunGoes
    <2> QED
      BY <1>3, <2>2, <2>3 DEF SavePrep
  <1> QED
    BY <1>2, <1>3

LEMMA SaveBanterGoes == ASSUME Inv, NEW h \in Handler, SaveBanter(h) PROVE Inv'
  <1>1. PICK k \in Key : k = KeyOf(h)
    BY RunFacts
  <1>2. PICK b \in Banter : b = run[h].banter
    BY RunFacts DEF PrepareState
  <1>3. /\ k = <<run[h].version, run[h].seen>> /\ RunFits(run[h])
        /\ run[h].at = "persist_banter" /\ Ends(h)
        /\ UNCHANGED <<version, gone, cleaned, dossiers, started>>
    BY <1>1, RunFacts DEF SaveBanter, Backend
  <1>4. /\ preps[k] # NULL /\ preps[k] \in PrepRow /\ RowOK(k)
        /\ BanterFits(b) /\ (ValidRow(k) => MadeFrom(b, preps[k].dossier))
    BY <1>1, <1>2, <1>3, RowFacts DEF RunFits, Carried, Target
  <1>5. CASE ~(preps[k].status = "DOSSIER_READY" /\ preps[k].banter = NULL)
    <2>1. UNCHANGED <<Backend, Store, started>>
      BY <1>1, <1>3, <1>5 DEF SaveBanter, Backend, Store
    <2> QED
      BY <1>3, <2>1, EndsGoes
  <1>6. CASE preps[k].status = "DOSSIER_READY" /\ preps[k].banter = NULL
    <2>0. PICK row : row = [preps[k] EXCEPT !.banter = b, !.status = "COMPLETE"]
      OBVIOUS
    <2>1. /\ row \in PrepRow /\ row # NULL /\ row.dossier = preps[k].dossier
          /\ row.banter = b /\ row.status = "COMPLETE"
      BY <2>0, <1>4, NullAssumption DEF PrepRow
    <2>2. preps' = [preps EXCEPT ![k] = row]
      BY <2>0, <1>1, <1>2, <1>4, <1>6 DEF SaveBanter, Inv, TypeOK, PrepRow
    <2>3. /\ preps' \in [Key -> PrepRow \cup {NULL}] /\ preps'[k] = row
          /\ \A j \in Key \ {k} : preps'[j] = preps[j]
      BY <2>1, <2>2 DEF Inv, TypeOK
    <2>4. Grows
      BY <1>3, <1>4, <1>6, <2>1, <2>3 DEF Grows, ValidRow
    <2>5. /\ run' \in [Handler -> PrepareState] /\ run'[h] = Idle
          /\ \A g \in Handler \ {h} : run'[g] = run[g]
      BY <1>3, IdleFits DEF Ends, Inv, TypeOK
    <2>6. TypeOK' /\ Own \notin gone'
      BY <1>3, <2>3, <2>5 DEF Inv, TypeOK
    <2>7. \A d \in Id : DossierOK(d)'
      BY <1>3 DEF Inv, DossierOK
    <2>8. ASSUME NEW j \in Key PROVE RowOK(j)'
      <3>1. CASE j = k
        <4>1. IsOf(row.dossier, k[1], k[2])'
          BY <1>3, <1>4, <2>1 DEF RowOK, IsOf, Stored
        <4>2. BanterFits(b)'
          BY <1>4, <2>4, BanterGrows
        <4>3. ValidRow(k)' => MadeFrom(b, row.dossier)
          BY <1>4, <2>1, <2>4 DEF Grows
        <4>4. RowOK(k)'
          BY <2>1, <2>3, <4>1, <4>2, <4>3
          DEF RowOK, IsOf, Stored, BanterFits, CandidateFits, MadeFrom
        <4> QED
          BY <3>1, <4>4
      <3>2. CASE j # k /\ preps[j] # NULL
        <4>1. preps'[j] = preps[j] /\ RowOK(j)
          BY <2>3, <3>2, RowFacts
        <4> QED
          BY <1>3, <2>4, <3>2, <4>1, RowGrows DEF RowOK
      <3>3. CASE j # k /\ preps[j] = NULL
        BY <2>3, <3>3 DEF RowOK
      <3> QED
        BY <3>1, <3>2, <3>3
    <2>9. RunFits(run[h])' /\ ~Unsaved(run'[h]) /\ run'[h].dossier = NULL
      <3>1. PICK r \in PrepareState : r = Idle
        BY IdleFits
      <3>2. RunFits(r)'
        BY <2>4, <3>1, IdleFits, RunGrows
      <3> QED
        BY <2>5, <3>1, <3>2, IdleFits DEF RunFits, Held, Carried, Target, Saved, Unsaved
    <2>10. \A g \in Handler \ {h} : Unsaved(run[g]) => dossiers'[run[g].dossier] = NULL
      BY <1>3 DEF Inv, RunFits, Held
    <2> QED
      BY <2>4, <2>5, <2>6, <2>7, <2>8, <2>9, <2>10, TableSteps
  <1> QED
    BY <1>5, <1>6

\* Steps of the backend: no run moves.
LEMMA BackendSteps ==
    ASSUME Inv, Grows, UNCHANGED run, TypeOK', Own \notin gone',
           \A d \in Id : DossierOK(d)', \A k \in Key : RowOK(k)',
           \A d \in Id : dossiers[d] = NULL => dossiers'[d] = NULL
    PROVE  Inv'
  <1>1. ASSUME NEW g \in Handler PROVE RunFits(run[g])'
    <2>1. PICK r \in PrepareState : r = run[g]
      BY RunFacts
    <2>2. RunFits(r) /\ (Unsaved(r) => dossiers'[r.dossier] = NULL)
      BY <2>1, RunFacts DEF RunFits, Held
    <2>3. RunFits(r)'
      BY <2>2, RunGrows
    <2> QED
      BY <2>1, <2>3 DEF RunFits, Held, Carried, Target, Saved, Unsaved
  <1>2. Alone'
    BY DEF Inv, Alone, Unsaved
  <1> QED
    BY <1>1, <1>2 DEF Inv

LEMMA ChangeAudienceGoes == ASSUME Inv, ChangeAudience PROVE Inv'
  <1>1. UNCHANGED <<gone, cleaned, dossiers, preps, started, run>> /\ version' \in 1..Versions
    BY PreparationAssumption DEF ChangeAudience, Inv, TypeOK
  <1>2. Grows
    BY <1>1 DEF Grows, ValidRow
  <1>3. TypeOK' /\ Own \notin gone'
    BY <1>1 DEF Inv, TypeOK
  <1>4. \A d \in Id : DossierOK(d)'
    BY <1>1 DEF Inv, DossierOK
  <1>5. \A k \in Key : RowOK(k)'
    BY <1>1 DEF Inv, RowOK, IsOf, Stored, BanterFits, CandidateFits, ValidRow
  <1> QED
    BY <1>1, <1>2, <1>3, <1>4, <1>5, BackendSteps

LEMMA WithdrawGoes == ASSUME Inv, NEW s \in Source, Withdraw(s) PROVE Inv'
  <1>1. /\ UNCHANGED <<version, cleaned, dossiers, preps, started, run>>
        /\ gone' = gone \cup {s} /\ s # Own
    BY DEF Withdraw
  <1>2. Grows
    BY <1>1 DEF Grows, ValidRow
  <1>3. TypeOK' /\ Own \notin gone'
    BY <1>1 DEF Inv, TypeOK
  <1>4. \A d \in Id : DossierOK(d)'
    BY <1>1 DEF Inv, DossierOK
  <1>5. \A k \in Key : RowOK(k)'
    BY <1>1 DEF Inv, RowOK, IsOf, Stored, BanterFits, CandidateFits, ValidRow
  <1> QED
    BY <1>1, <1>2, <1>3, <1>4, <1>5, BackendSteps

LEMMA CleanGoes == ASSUME Inv, NEW s \in Source, Clean(s) PROVE Inv'
  <1> DEFINE cut(d) == [dossiers[d] EXCEPT
                          !.invalid = @ \cup {f \in dossiers[d].facts : s \in f.sources}]
  <1>1. /\ UNCHANGED <<version, gone, started, run>>
        /\ cleaned' = cleaned \cup {s} /\ s \in gone
        /\ dossiers' = [d \in Id |-> IF dossiers[d] = NULL THEN NULL ELSE cut(d)]
        /\ preps' = [k \in Key |->
                       IF preps[k] # NULL /\ dossiers'[preps[k].dossier] # NULL
                            /\ dossiers'[preps[k].dossier].invalid # {}
                       THEN [preps[k] EXCEPT !.status = "INVALIDATED"]
                       ELSE preps[k]]
    BY DEF Clean
  <1>2. ASSUME NEW d \in Id, dossiers[d] # NULL
        PROVE  /\ dossiers'[d] \in DossierRow /\ dossiers'[d] # NULL
               /\ dossiers'[d].snapshot_hash = dossiers[d].snapshot_hash
               /\ dossiers'[d].seen = dossiers[d].seen /\ dossiers'[d].facts = dossiers[d].facts
               /\ dossiers'[d].late = dossiers[d].late
               /\ dossiers'[d].invalid =
                     dossiers[d].invalid \cup {f \in dossiers[d].facts : s \in f.sources}
    <2>1. dossiers[d] \in DossierRow /\ dossiers'[d] = cut(d)
      BY <1>1, <1>2 DEF Inv, TypeOK
    <2> QED
      BY <2>1, NullAssumption DEF DossierRow
  <1>3. \A d \in Id : dossiers[d] = NULL => dossiers'[d] = NULL
    BY <1>1
  <1>4. ASSUME NEW k \in Key, preps[k] # NULL
        PROVE  /\ preps'[k] \in PrepRow /\ preps'[k] # NULL
               /\ preps'[k].dossier = preps[k].dossier /\ preps'[k].banter = preps[k].banter
               /\ preps'[k].status \in {preps[k].status, "INVALIDATED"}
    <2>1. preps[k] \in PrepRow
      BY <1>4, RowFacts
    <2>2. preps'[k] = preps[k] \/ preps'[k] = [preps[k] EXCEPT !.status = "INVALIDATED"]
      BY <1>1
    <2> QED
      BY <2>1, <2>2, NullAssumption DEF PrepRow
  <1>5. \A k \in Key : preps[k] = NULL => preps'[k] = NULL
    BY <1>1
  <1>6. Grows
    <2>1. ASSUME NEW k \in Key, preps[k] # NULL, ValidRow(k)' PROVE ValidRow(k)
      <3>1. preps[k].dossier \in Id /\ dossiers[preps[k].dossier] # NULL
        BY <2>1, RowFacts
      <3> QED
        BY <1>2, <1>4, <2>1, <3>1 DEF ValidRow
    <2> QED
      BY <1>1, <1>2, <1>4, <2>1 DEF Grows
  <1>7. TypeOK' /\ Own \notin gone'
    <2>1. dossiers' \in [Id -> DossierRow \cup {NULL}]
      BY <1>1, <1>2, <1>3
    <2>2. preps' \in [Key -> PrepRow \cup {NULL}]
      BY <1>1, <1>4, <1>5
    <2> QED
      BY <1>1, <2>1, <2>2 DEF Inv, TypeOK
  <1>8. ASSUME NEW d \in Id PROVE DossierOK(d)'
    BY <1>1, <1>2, <1>3 DEF Inv, DossierOK, Apart, FactFits
  <1>9. ASSUME NEW k \in Key PROVE RowOK(k)'
    <2>1. CASE preps[k] # NULL
      BY <1>1, <1>4, <1>6, <2>1, RowGrows
    <2>2. CASE preps[k] = NULL
      BY <1>5, <2>2 DEF RowOK
    <2> QED
      BY <2>1, <2>2
  <1> QED
    BY <1>1, <1>3, <1>6, <1>7, <1>8, <1>9, BackendSteps

-----------------------------------------------------------------------------
(* The invariant, and what follows from it.                                *)

LEMMA InitInv == ASSUME Init PROVE Inv
  <1>1. 1 \in 1..Versions
    BY PreparationAssumption
  <1>2. TypeOK /\ Own \notin gone
    BY <1>1, IdleFits, PreparationAssumption DEF Init, TypeOK
  <1>3. \A h \in Handler : run[h] = Idle
    BY DEF Init
  <1>4. \A h \in Handler : RunFits(run[h])
    BY <1>3, IdleFits
  <1>5. Alone
    BY <1>3, IdleFits DEF Alone
  <1>6. \A d \in Id : DossierOK(d)
    BY DEF Init, DossierOK
  <1>7. \A k \in Key : RowOK(k)
    BY DEF Init, RowOK
  <1> QED
    BY <1>2, <1>4, <1>5, <1>6, <1>7 DEF Inv

LEMMA NextInv == ASSUME Inv, [Next]_vars PROVE Inv'
  <1>1. ASSUME NEW h \in Handler,
               \/ LoadCase(h) \/ FindPrep(h) \/ ReadPrep(h)
               \/ ResolveSources(h) \/ AnalyzeReason(h) \/ CheckEpochs(h) \/ SavePrep(h)
               \/ FindSaved(h) \/ ReadSaved(h) \/ GenerateBanter(h) \/ SaveBanter(h)
               \/ CutOff(h)
        PROVE  Inv'
    BY <1>1, LoadCaseGoes, FindPrepGoes, ReadPrepGoes, ResolveSourcesGoes, AnalyzeReasonGoes,
       CheckEpochsGoes, SavePrepGoes, FindSavedGoes, ReadSavedGoes, GenerateBanterGoes,
       SaveBanterGoes, CutOffGoes
  <1>2. CASE ChangeAudience
    BY <1>2, ChangeAudienceGoes
  <1>3. ASSUME NEW s \in Source, Withdraw(s) \/ Clean(s) PROVE Inv'
    BY <1>3, WithdrawGoes, CleanGoes
  <1>4. CASE UNCHANGED vars
    BY <1>4 DEF vars, Inv, TypeOK, DossierOK, RowOK, IsOf, Stored, BanterFits, CandidateFits,
       ValidRow, RunFits, Held, Carried, Target, Saved, Unsaved, Alone
  <1> QED
    BY <1>1, <1>2, <1>3, <1>4 DEF Next

LEMMA Always == Spec => []Inv
  BY InitInv, NextInv, PTL DEF Spec

\* What a run with this version and these epochs is given, here a sentencing run.
LEMMA ServedFacts ==
    ASSUME Inv, NEW k \in Served
    PROVE  /\ k \in Key /\ preps[k] # NULL /\ ValidRow(k) /\ RowOK(k)
           /\ preps[k].dossier \in Id /\ DossierOK(preps[k].dossier)
           /\ dossiers[preps[k].dossier] \in DossierRow
           /\ dossiers[preps[k].dossier] # NULL
           /\ dossiers[preps[k].dossier].invalid = {}
           /\ dossiers[preps[k].dossier].snapshot_hash = Rooms[version]
           /\ dossiers[preps[k].dossier].seen = Now
  <1>1. version \in 1..Versions /\ Now \in Epochs
    BY PreparationAssumption DEF Inv, TypeOK, Now, Epochs
  <1>2. k \in Key /\ ValidRow(k) /\ IsOf(preps[k].dossier, version, Now)
    BY <1>1, LoadableFits DEF Served
  <1>3. preps[k] # NULL
    BY <1>2 DEF ValidRow
  <1> QED
    BY <1>2, <1>3, RowFacts DEF Inv, IsOf, ValidRow

LEMMA InvServes == ASSUME Inv PROVE ServedBanterFits
  <1> SUFFICES ASSUME NEW k \in Served, NEW i \in Intensity,
                      preps[k].banter # NULL, preps[k].banter[i] # NULL
               PROVE  /\ preps[k].banter[i].made = preps[k].dossier
                      /\ \A s \in preps[k].banter[i].shown : Visible(s)
    BY DEF ServedBanterFits
  <1>1. preps[k].banter[i].made = preps[k].dossier /\ CandidateFits(preps[k].banter[i])
    BY ServedFacts DEF RowOK, BanterFits, MadeFrom
  <1>2. dossiers[preps[k].dossier].snapshot_hash = Rooms[version]
    BY ServedFacts
  <1> QED
    BY <1>1, <1>2 DEF CandidateFits, VisibleIn, Visible

LEMMA InvForgets == ASSUME Inv PROVE NoWithdrawnServed
  <1> SUFFICES ASSUME NEW k \in Served, NEW s \in gone,
                      NEW f \in dossiers[preps[k].dossier].facts, s \in f.sources
               PROVE  /\ s \notin Covered
                      /\ s \notin cleaned \/ s \in dossiers[preps[k].dossier].late
    BY DEF NoWithdrawnServed
  <1>1. s \notin Covered
    BY ServedFacts DEF DossierOK, Apart, Now
  <1>2. s \in cleaned => s \in dossiers[preps[k].dossier].late
    BY ServedFacts DEF DossierOK
  <1> QED
    BY <1>1, <1>2

LEMMA InvWorks == ASSUME Inv PROVE WorksOnItsRow
  <1> SUFFICES ASSUME NEW h \in Handler, run[h].at = "generate_banter", gone = {}
               PROVE  /\ ValidRow(KeyOf(h))
                      /\ preps[KeyOf(h)].dossier = run[h].dossier
                      /\ dossiers[run[h].dossier].facts = run[h].facts
    BY DEF WorksOnItsRow
  <1>1. RunFits(run[h]) /\ Saved(run[h]) /\ KeyOf(h) \in Key
    BY RunFacts DEF Saved
  <1>2. preps[KeyOf(h)] # NULL
    BY <1>1, RunFacts DEF RunFits, Target
  <1>3. ValidRow(KeyOf(h))
    <2>1. /\ preps[KeyOf(h)] \in PrepRow /\ RowOK(KeyOf(h))
          /\ preps[KeyOf(h)].dossier \in Id /\ dossiers[preps[KeyOf(h)].dossier] # NULL
      BY <1>1, <1>2, RowFacts
    <2>2. preps[KeyOf(h)].status \in {"DOSSIER_READY", "COMPLETE"}
      BY <1>2, <2>1 DEF PrepRow, RowOK
    <2>3. DossierOK(preps[KeyOf(h)].dossier)
      BY <2>1 DEF Inv
    <2> QED
      BY <1>2, <2>1, <2>2, <2>3 DEF ValidRow, DossierOK
  <1>4. preps[KeyOf(h)].dossier = run[h].dossier
    BY <1>1, <1>3, RunFacts DEF RunFits, Target
  <1>5. dossiers[run[h].dossier].facts = run[h].facts
    BY <1>1 DEF RunFits, Carried
  <1> QED
    BY <1>3, <1>4, <1>5

-----------------------------------------------------------------------------
\* The tables and the states of the runs keep their types: a stored row names a
\* dossier id, and only sources that were withdrawn are cleaned.
THEOREM PreparationTypeCorrect == Spec => []TypeOK
  <1>1. Inv => TypeOK
    BY DEF Inv
  <1> QED
    BY <1>1, Always, PTL

\* D-27: what a sentencing run is given was written from the dossier it is
\* given, of evidence that may be used in every room it judges for.
THEOREM PreparationServesFitting == Spec => []ServedBanterFits
  BY Always, InvServes, PTL

\* No dossier that is served names a withdrawn source, but for sources the
\* epochs do not cover that are not cleaned yet or were inserted late.
THEOREM PreparationNoWithdrawn == Spec => []NoWithdrawnServed
  BY Always, InvForgets, PTL

\* As long as nothing is withdrawn, a run writes candidates for the very
\* dossier its row points to.
THEOREM PreparationWorksOnItsRow == Spec => []WorksOnItsRow
  BY Always, InvWorks, PTL
\* One row of ai.trial_prep in one step.
Final(k) ==
    preps[k] # NULL =>
        /\ preps'[k].dossier = preps[k].dossier
        /\ preps[k].banter # NULL => preps'[k].banter = preps[k].banter
        /\ preps[k].status = "COMPLETE" => preps'[k].status # "DOSSIER_READY"
        /\ preps[k].status = "INVALIDATED" => preps'[k] = preps[k]

LEMMA KeptIsFinal == ASSUME UNCHANGED preps, NEW k \in Key PROVE Final(k)
  BY DEF Final

LEMMA SavePrepIsFinal ==
    ASSUME Inv, NEW h \in Handler, SavePrep(h), NEW k \in Key PROVE Final(k)
  <1>1. CASE preps[KeyOf(h)] = NULL
    <2>1. preps' = [preps EXCEPT ![KeyOf(h)] = NewRow(h)]
      BY <1>1 DEF SavePrep
    <2>2. preps[k] # NULL => preps'[k] = preps[k]
      BY <1>1, <2>1 DEF Inv, TypeOK
    <2> QED
      BY <2>2 DEF Final
  <1>2. CASE preps[KeyOf(h)] # NULL
    BY <1>2, KeptIsFinal DEF SavePrep, Store
  <1> QED
    BY <1>1, <1>2

LEMMA SaveBanterIsFinal ==
    ASSUME Inv, NEW h \in Handler, SaveBanter(h), NEW k \in Key PROVE Final(k)
  <1>1. CASE ~(preps[KeyOf(h)].status = "DOSSIER_READY" /\ preps[KeyOf(h)].banter = NULL)
    BY <1>1, KeptIsFinal DEF SaveBanter
  <1>2. CASE preps[KeyOf(h)].status = "DOSSIER_READY" /\ preps[KeyOf(h)].banter = NULL
    <2>1. PICK b : b = run[h].banter
      OBVIOUS
    <2>2. preps' = [preps EXCEPT ![KeyOf(h)].banter = b, ![KeyOf(h)].status = "COMPLETE"]
      BY <1>2, <2>1 DEF SaveBanter
    <2>3. /\ preps[KeyOf(h)] # NULL /\ preps[KeyOf(h)] \in PrepRow /\ KeyOf(h) \in Key
          /\ preps \in [Key -> PrepRow \cup {NULL}]
      BY RunFacts, RowFacts DEF SaveBanter, RunFits, Target, Inv, TypeOK
    <2>4. CASE k = KeyOf(h)
      <3>1. preps'[k] = [preps[k] EXCEPT !.banter = b, !.status = "COMPLETE"]
        BY <2>2, <2>3, <2>4 DEF PrepRow
      <3> QED
        BY <1>2, <2>3, <2>4, <3>1 DEF Final, PrepRow
    <2>5. CASE k # KeyOf(h)
      BY <2>2, <2>3, <2>5 DEF Final
    <2> QED
      BY <2>4, <2>5
  <1> QED
    BY <1>1, <1>2

LEMMA CleanIsFinal ==
    ASSUME Inv, NEW s \in Source, Clean(s), NEW k \in Key PROVE Final(k)
  <1> SUFFICES ASSUME preps[k] # NULL PROVE Final(k)
    BY DEF Final
  <1>1. preps[k] \in PrepRow
    BY RowFacts
  <1>2. preps'[k] = preps[k] \/ preps'[k] = [preps[k] EXCEPT !.status = "INVALIDATED"]
    BY DEF Clean
  <1> QED
    BY <1>1, <1>2 DEF Final, PrepRow

\* "Completed rows do not change" (migration 002): candidates are written once,
\* the dossier of a row stays, and a row that is invalidated stays as it is.
THEOREM PreparationCompleteIsFinal == Spec => CompleteIsFinal
  <1>1. ASSUME Inv, [Next]_vars, NEW k \in Key PROVE Final(k)
    <2>1. ASSUME NEW h \in Handler,
                 \/ LoadCase(h) \/ FindPrep(h) \/ ReadPrep(h)
                 \/ ResolveSources(h) \/ AnalyzeReason(h) \/ CheckEpochs(h)
                 \/ FindSaved(h) \/ ReadSaved(h) \/ GenerateBanter(h) \/ CutOff(h)
          PROVE  UNCHANGED preps
      BY <2>1 DEF LoadCase, FindPrep, ReadPrep, ResolveSources, AnalyzeReason, CheckEpochs,
         FindSaved, ReadSaved, GenerateBanter, CutOff, Store
    <2>2. ASSUME NEW h \in Handler, SavePrep(h) \/ SaveBanter(h) PROVE Final(k)
      BY <1>1, <2>2, SavePrepIsFinal, SaveBanterIsFinal
    <2>3. ASSUME NEW s \in Source, Clean(s) PROVE Final(k)
      BY <1>1, <2>3, CleanIsFinal
    <2>4. ASSUME NEW s \in Source, Withdraw(s) PROVE UNCHANGED preps
      BY <2>4 DEF Withdraw
    <2>5. ChangeAudience \/ UNCHANGED vars => UNCHANGED preps
      BY DEF ChangeAudience, vars
    <2> QED
      BY <1>1, <2>1, <2>2, <2>3, <2>4, <2>5, KeptIsFinal DEF Next
  <1>2. ASSUME Inv, [Next]_vars
        PROVE  [\A k \in Key : preps[k] # NULL =>
                  /\ preps'[k].dossier = preps[k].dossier
                  /\ preps[k].banter # NULL => preps'[k].banter = preps[k].banter
                  /\ preps[k].status = "COMPLETE" => preps'[k].status # "DOSSIER_READY"
                  /\ preps[k].status = "INVALIDATED" => preps'[k] = preps[k]]_vars
    BY <1>1, <1>2 DEF Final
  <1> QED
    BY <1>2, Always, PTL DEF Spec, CompleteIsFinal
=============================================================================
