----------------------------- MODULE Preparation -----------------------------
(***************************************************************************)
(* Graph B and its store (graphs/preparation.py,                           *)
(* adapters/postgres_preparation.py, application/build_evidence.py):       *)
(* PREPARE runs of one post collect evidence into a dossier, let a model   *)
(* infer facts from it and write candidate lines for each intensity, and   *)
(* keep both for the sentencing graph.                                     *)
(*                                                                         *)
(* Runs overlap, of one event or of several: the audience of the post      *)
(* changes, events arrive late, and a handler that lost its job works on.  *)
(* Sources of the evidence are withdrawn at any time; a withdrawal raises  *)
(* an epoch at once and invalidates what was derived later.  Saving reads  *)
(* the epochs, then inserts, under READ COMMITTED and without a lock.      *)
(***************************************************************************)
EXTENDS Naturals, FiniteSets

CONSTANTS
    Handler,        \* PREPARE handlers at work
    Id,             \* ids of ai.dossiers, a bound
    Source,         \* what evidence names and its author may withdraw
    Own,            \* the post itself
    Covered,        \* sources whose scope is in the snapshot's privacy_versions
    Room,
    Intensity,
    Versions,       \* bound on audience_version
    Runs,           \* bound on the runs of the post: events, delivered again or not
    Rooms,          \* audience.room_ids of each version
    Targets,        \* _target_intensities of each version
    Scope,          \* how far resolve-evidence lets each source be used
    Offers,         \* what recall and the backend's lists may bring up
    RefCounts,      \* bound: how many facts an inferred one refers to
    NULL

Visibility == {"PUBLIC", "ROOMS", "PRIVATE"}

ASSUME PreparationAssumption ==
    /\ Own \in Covered /\ Covered \subseteq Source
    /\ Versions \in Nat \ {0} /\ Runs \in Nat
    /\ Rooms \in [1..Versions -> SUBSET Room] /\ Targets \in [1..Versions -> SUBSET Intensity]
    /\ Scope \in [Source -> [visibility : Visibility, rooms : SUBSET Room]]
    /\ Offers \subseteq SUBSET (Source \ {Own})
    /\ RefCounts \subseteq Nat \ {0}
    /\ NULL \notin Id

VARIABLES
    version,    \* audience_version of the post, as the backend has it
    gone,       \* sources withdrawn: each raises its own epoch, once
    cleaned,    \* sources for which invalidate_scope.sql has run
    dossiers,   \* ai.dossiers with ai.evidence and ai.evidence_sources
    preps,      \* ai.trial_prep, by its unique key
    started,    \* runs so far
    run         \* the handlers: PrepareState and _Run

vars == <<version, gone, cleaned, dossiers, preps, started, run>>
Store == <<dossiers, preps>>
Backend == <<version, gone, cleaned>>

\* privacy_versions: which of the scopes it covers the snapshot saw raised.
Epochs == SUBSET (Covered \ {Own})
Now == gone \cap Covered

Fact == [sources : SUBSET Source, scope : [visibility : Visibility, rooms : SUBSET Room]]

\* Candidates of one intensity: the dossier they were made from, and the
\* sources of the evidence the model was shown.
Candidates == [made : Id, shown : SUBSET Source]
Banter == [Intensity -> Candidates \cup {NULL}]
NoBanter == [i \in Intensity |-> NULL]

\* late: history, the sources that were gone when the row was inserted.
DossierRow == [snapshot_hash : SUBSET Room, seen : Epochs, facts : SUBSET Fact,
               invalid : SUBSET Fact, late : SUBSET Source]

PrepRow == [status : {"DOSSIER_READY", "COMPLETE", "INVALIDATED"}, dossier : Id,
            banter : Banter \cup {NULL}]

ASSUME NullAssumption == NULL \notin DossierRow /\ NULL \notin PrepRow

\* input_hash: audience and intensities follow from the version.
Key == (1..Versions) \X Epochs

At == {"idle", "find", "read", "resolve_sources", "analyze_reason",
       "persist_dossier", "insert", "find_saved", "read_saved", "generate_banter",
       "persist_banter"}

Idle == [at |-> "idle", version |-> 1, seen |-> {}, dossier |-> NULL, facts |-> {},
         reuse |-> FALSE, copied |-> NoBanter, banter |-> NoBanter]

PrepareState ==
    [at : At, version : 1..Versions, seen : Epochs, dossier : Id \cup {NULL},
     facts : SUBSET Fact, reuse : BOOLEAN, copied : Banter, banter : Banter]

TypeOK ==
    /\ version \in 1..Versions
    /\ gone \subseteq Source /\ cleaned \subseteq gone
    /\ dossiers \in [Id -> DossierRow \cup {NULL}]
    /\ preps \in [Key -> PrepRow \cup {NULL}]
    /\ started \in 0..Runs
    /\ run \in [Handler -> PrepareState]

Init ==
    /\ version = 1 /\ gone = {} /\ cleaned = {}
    /\ dossiers = [d \in Id |-> NULL]
    /\ preps = [k \in Key |-> NULL]
    /\ started = 0
    /\ run = [h \in Handler |-> Idle]

-----------------------------------------------------------------------------
(* Evidence.                                                               *)

\* visibility.usable
Usable(scope, target) ==
    \/ scope.visibility = "PUBLIC"
    \/ scope.visibility = "ROOMS" /\ target # {} /\ target \subseteq scope.rooms

\* Variant: whatever is not private may be used by everybody.
WidestScope(facts) ==
    IF \E f \in facts : f.scope.visibility = "PRIVATE"
    THEN [visibility |-> "PRIVATE", rooms |-> {}]
    ELSE [visibility |-> "ROOMS",
          rooms |-> UNION {f.scope.rooms : f \in {g \in facts : g.scope.visibility = "ROOMS"}}]

NarrowestScope(facts) ==
    LET limited == {f \in facts : f.scope.visibility = "ROOMS"}
    IN  IF \E f \in facts : f.scope.visibility = "PRIVATE"
        THEN [visibility |-> "PRIVATE", rooms |-> {}]
        ELSE IF limited = {} THEN [visibility |-> "PUBLIC", rooms |-> {}]
        ELSE [visibility |-> "ROOMS",
              rooms |-> {r \in Room : \A f \in limited : r \in f.scope.rooms}]

\* F0, the case itself, for the rooms it is posted in
ThisCase(v) == [sources |-> {Own}, scope |-> [visibility |-> "ROOMS", rooms |-> Rooms[v]]]

\* A rule, an earlier verdict or a remembered post, with the scope it came with
Drafted(s) == [sources |-> {s}, scope |-> Scope[s]]

\* build_evidence.  Aggregates name no source and are left out; the limit of
\* the pack is one more way to be offered less.
CodeFacts(v, confirmed) == {ThisCase(v)} \cup {Drafted(s) : s \in confirmed}

\* merge_inferred_facts, of one item with valid references
Inferred(refs) ==
    [sources |-> UNION {f.sources : f \in refs}, scope |-> NarrowestScope(refs)]

\* call_context: what the model may have inferred
ContextAnswers(facts) ==
    {Inferred(refs) : refs \in {r \in SUBSET facts : Cardinality(r) \in RefCounts}}

\* target_pack
TargetPack(facts, v) == {f \in facts : Usable(f.scope, Rooms[v])}

\* Variant: the rooms are left out of the key.
DossierKeyOfPost(v) == {}

\* dossier_key: the rules of the rooms name the rooms.
DossierKey(v) == Rooms[v]

-----------------------------------------------------------------------------
(* load_valid_prep                                                         *)

\* SELECT_VALID_PREP_SQL
ValidRow(k) ==
    /\ preps[k] # NULL /\ preps[k].status \in {"DOSSIER_READY", "COMPLETE"}
    /\ dossiers[preps[k].dossier] # NULL /\ dossiers[preps[k].dossier].invalid = {}

\* Variant: an older dossier is taken whatever the epochs.
LoadableWhenever(v, seen) ==
    IF ValidRow(<<v, seen>>) THEN {<<v, seen>>}
    ELSE {k \in Key : ValidRow(k) /\ dossiers[preps[k].dossier].snapshot_hash = DossierKey(v)}

\* The row of the key, else one with the same dossier key and the same epochs.
\* Which of several is the newest is left open.
Loadable(v, seen) ==
    IF ValidRow(<<v, seen>>) THEN {<<v, seen>>}
    ELSE {k \in Key : /\ ValidRow(k)
                      /\ dossiers[preps[k].dossier].snapshot_hash = DossierKey(v)
                      /\ dossiers[preps[k].dossier].seen = seen}

\* _copied_banter
Copied(k, v) ==
    [i \in Intensity |->
        IF i \in Targets[v] /\ preps[k].banter # NULL THEN preps[k].banter[i] ELSE NULL]

-----------------------------------------------------------------------------
(* The graph.                                                              *)

Moves(h, at) == run' = [run EXCEPT ![h].at = at]

\* The graph ends and the job is completed; or EvidenceInvalidated, which
\* nothing in the graph catches, and it fails for good.
Ends(h) == run' = [run EXCEPT ![h] = Idle]

Stale(h) == run[h].seen # Now

KeyOf(h) == <<run[h].version, run[h].seen>>

\* An event of some version, delivered late or again; one of an earlier
\* version than the snapshot's ends there.
LoadCase(h) ==
    /\ run[h].at = "idle" /\ started < Runs
    /\ started' = started + 1
    /\ run' = [run EXCEPT ![h] = [Idle EXCEPT !.at = "find", !.version = version, !.seen = Now]]
    /\ UNCHANGED <<Backend, Store>>

\* load_reusable_prep, first SELECT.  A lookup that fails finds nothing.
FindPrep(h) ==
    /\ run[h].at = "find"
    /\ \/ \E k \in Loadable(run[h].version, run[h].seen) :
            run' = [run EXCEPT ![h].at = "read", ![h].dossier = preps[k].dossier,
                               ![h].copied = Copied(k, run[h].version)]
       \/ Moves(h, "resolve_sources")
    /\ UNCHANGED <<Backend, Store, started>>

\* SELECT_EVIDENCE_SQL, a statement of its own.
StoredFacts(d) == dossiers[d].facts \ dossiers[d].invalid

ReadPrep(h) ==
    /\ run[h].at = "read"
    /\ run' = [run EXCEPT ![h].at = "persist_dossier", ![h].reuse = TRUE,
                          ![h].facts = StoredFacts(run[h].dossier)]
    /\ UNCHANGED <<Backend, Store, started>>

Fresh(d) == dossiers[d] = NULL /\ \A g \in Handler : run[g].dossier # d

\* recall_candidates, resolve_sources, build_db_evidence.  Both may fail and
\* bring up nothing; the backend confirms no source that is withdrawn.
ResolveSources(h) ==
    /\ run[h].at = "resolve_sources"
    /\ \E d \in Id, offered \in Offers :
         /\ Fresh(d)
         /\ run' = [run EXCEPT ![h].at = "analyze_reason", ![h].dossier = d,
                               ![h].facts = CodeFacts(run[h].version, offered \ gone)]
    /\ UNCHANGED <<Backend, Store, started>>

\* The gateway asks for the epochs before the call; a call that fails, or no
\* model, leaves the facts as they are.
AnalyzeReason(h) ==
    /\ run[h].at = "analyze_reason"
    /\ \/ Moves(h, "persist_dossier")
       \/ /\ Stale(h)
          /\ Ends(h)
       \/ /\ ~Stale(h)
          /\ \E fact \in ContextAnswers(run[h].facts) :
               run' = [run EXCEPT ![h].at = "persist_dossier", ![h].facts = @ \cup {fact}]
    /\ UNCHANGED <<Backend, Store, started>>

\* save_prep: _check_epochs
CheckEpochs(h) ==
    /\ run[h].at = "persist_dossier"
    /\ IF Stale(h) THEN Ends(h) ELSE Moves(h, "insert")
    /\ UNCHANGED <<Backend, Store, started>>

NewDossier(h) ==
    [snapshot_hash |-> DossierKey(run[h].version), seen |-> run[h].seen,
     facts |-> run[h].facts, invalid |-> {}, late |-> gone \cap UNION {f.sources : f \in run[h].facts}]

NewRow(h) == [status |-> "DOSSIER_READY", dossier |-> run[h].dossier, banter |-> NULL]

\* Variant: the dossier is taken to be stored already.
SavePrepAlone(h) ==
    /\ run[h].at = "insert"
    /\ preps[KeyOf(h)] = NULL
    /\ preps' = [preps EXCEPT ![KeyOf(h)] = NewRow(h)]
    /\ Moves(h, "generate_banter")
    /\ UNCHANGED <<Backend, dossiers, started>>

\* save_prep: INSERT ... ON CONFLICT DO NOTHING (which waits for a transaction
\* that has entered the key), the dossier unless it is reused, commit.
SavePrep(h) ==
    /\ run[h].at = "insert"
    /\ IF preps[KeyOf(h)] = NULL
       THEN /\ preps' = [preps EXCEPT ![KeyOf(h)] = NewRow(h)]
            /\ dossiers' = IF run[h].reuse THEN dossiers
                           ELSE [dossiers EXCEPT ![run[h].dossier] = NewDossier(h)]
            /\ run' = [run EXCEPT ![h].at = "generate_banter", ![h].reuse = FALSE]
       ELSE /\ IF preps[KeyOf(h)].status = "DOSSIER_READY"
               THEN run' = [run EXCEPT ![h] = [Idle EXCEPT !.at = "find_saved",
                              !.version = run[h].version, !.seen = run[h].seen]]
               ELSE Ends(h)
            /\ UNCHANGED Store
    /\ UNCHANGED <<Backend, started>>

\* Variant: the run takes the candidates over and not the dossier.
FindSavedOnly(h) ==
    LET found == Loadable(run[h].version, run[h].seen)
    IN  /\ run[h].at = "find_saved"
        /\ IF found = {} THEN Ends(h)
           ELSE \E k \in found :
                  run' = [run EXCEPT ![h].at = "generate_banter",
                                     ![h].copied = Copied(k, run[h].version)]
        /\ UNCHANGED <<Backend, Store, started>>

\* persist_dossier when another run holds the key: its dossier takes the place
\* of this one, prep_id stays.
FindSaved(h) ==
    LET found == Loadable(run[h].version, run[h].seen)
    IN  /\ run[h].at = "find_saved"
        /\ IF found = {} THEN Ends(h)
           ELSE \E k \in found :
                  run' = [run EXCEPT ![h].at = "read_saved", ![h].dossier = preps[k].dossier,
                                     ![h].copied = Copied(k, run[h].version)]
        /\ UNCHANGED <<Backend, Store, started>>

ReadSaved(h) ==
    /\ run[h].at = "read_saved"
    /\ run' = [run EXCEPT ![h].at = "generate_banter", ![h].facts = StoredFacts(run[h].dossier)]
    /\ UNCHANGED <<Backend, Store, started>>

\* The call for one intensity is shown what all rooms may see.
OneCall(h) ==
    [made |-> run[h].dossier,
     shown |-> UNION {f.sources : f \in TargetPack(run[h].facts, run[h].version)}]

\* One call for each intensity that was not copied, some of which fail.
\* validate_banter only drops candidates and labels.
GenerateBanter(h) ==
    LET missing == {i \in Targets[run[h].version] : run[h].copied[i] = NULL}
    IN  /\ run[h].at = "generate_banter"
        /\ \/ Ends(h)
           \/ /\ Stale(h) /\ missing # {}
              /\ Ends(h)
           \/ /\ ~Stale(h) \/ missing = {}
              /\ \E ok \in SUBSET missing :
                   LET banter == [i \in Intensity |-> IF i \in ok THEN OneCall(h) ELSE run[h].copied[i]]
                   IN  IF banter = NoBanter THEN Ends(h)
                       ELSE run' = [run EXCEPT ![h] = [Idle EXCEPT !.at = "persist_banter",
                                     !.banter = banter, !.version = run[h].version,
                                     !.seen = run[h].seen]]
        /\ UNCHANGED <<Backend, Store, started>>

\* Variant: UPDATE by id alone.
SaveBanterAnyway(h) ==
    /\ run[h].at = "persist_banter"
    /\ preps' = [preps EXCEPT ![KeyOf(h)].banter = run[h].banter, ![KeyOf(h)].status = "COMPLETE"]
    /\ Ends(h)
    /\ UNCHANGED <<Backend, dossiers, started>>

\* save_banter: UPDATE_BANTER_SQL
SaveBanter(h) ==
    LET open == preps[KeyOf(h)].status = "DOSSIER_READY" /\ preps[KeyOf(h)].banter = NULL
    IN  /\ run[h].at = "persist_banter"
        /\ preps' = IF open
                    THEN [preps EXCEPT ![KeyOf(h)].banter = run[h].banter,
                                       ![KeyOf(h)].status = "COMPLETE"]
                    ELSE preps
        /\ Ends(h)
        /\ UNCHANGED <<Backend, dossiers, started>>

\* A lost lease, shutdown, a kill, a failed statement, a backend that does not
\* answer: what was committed stays.
CutOff(h) ==
    /\ run[h].at # "idle"
    /\ run' = [run EXCEPT ![h] = Idle]
    /\ UNCHANGED <<Backend, Store, started>>

-----------------------------------------------------------------------------
(* The backend (external).                                                 *)

\* The author changes rooms or intensities: a new event.
ChangeAudience ==
    /\ version < Versions
    /\ version' = version + 1
    /\ UNCHANGED <<gone, cleaned, dossiers, preps, started, run>>

\* Withdrawing the post itself ends its snapshots, and with them the story.
Withdraw(s) ==
    /\ s \notin gone /\ s # Own
    /\ gone' = gone \cup {s}
    /\ UNCHANGED <<version, cleaned, dossiers, preps, started, run>>

\* invalidate_scope.sql, at the same time or later.  It sees committed rows.
Clean(s) ==
    LET hit == [d \in Id |->
                  IF dossiers[d] = NULL THEN NULL
                  ELSE [dossiers[d] EXCEPT !.invalid = @ \cup {f \in dossiers[d].facts : s \in f.sources}]]
    IN  /\ s \in gone \ cleaned
        /\ cleaned' = cleaned \cup {s}
        /\ dossiers' = hit
        /\ preps' = [k \in Key |->
                       IF preps[k] # NULL /\ hit[preps[k].dossier] # NULL
                            /\ hit[preps[k].dossier].invalid # {}
                       THEN [preps[k] EXCEPT !.status = "INVALIDATED"]
                       ELSE preps[k]]
        /\ UNCHANGED <<version, gone, started, run>>

-----------------------------------------------------------------------------
Next ==
    \/ \E h \in Handler :
         \/ LoadCase(h) \/ FindPrep(h) \/ ReadPrep(h)
         \/ ResolveSources(h) \/ AnalyzeReason(h) \/ CheckEpochs(h) \/ SavePrep(h)
         \/ FindSaved(h) \/ ReadSaved(h) \/ GenerateBanter(h) \/ SaveBanter(h)
         \/ CutOff(h)
    \/ ChangeAudience
    \/ \E s \in Source : Withdraw(s) \/ Clean(s)

Spec == Init /\ [][Next]_vars

-----------------------------------------------------------------------------
(* Properties.  A sentencing run that reads its snapshot now is given one  *)
(* of these rows.                                                          *)

Served == Loadable(version, Now)

Visible(s) ==
    IF s = Own THEN TRUE ELSE Usable(Scope[s], Rooms[version])

\* D-27, the candidates of a dossier are reused with it and never apart from
\* it: what a sentencing run is given was written from the dossier it is given,
\* and from evidence that may be used in every room of the audience it judges
\* for, however runs of several versions reused each other's rows.
ServedBanterFits ==
    \A k \in Served, i \in Intensity :
        LET row == preps[k]
        IN  row.banter # NULL /\ row.banter[i] # NULL =>
                /\ row.banter[i].made = row.dossier
                /\ \A s \in row.banter[i].shown : Visible(s)

\* A sentencing run is given nothing that names a withdrawn source, but for
\* sources the snapshot has no scope of: until the derived rows are cleaned,
\* and for a dossier inserted after the withdrawal.
NoWithdrawnServed ==
    \A k \in Served, s \in gone :
        LET d == dossiers[preps[k].dossier]
        IN  (\E f \in d.facts : s \in f.sources)
                => s \notin Covered /\ (s \notin cleaned \/ s \in d.late)

\* A run that writes candidates works on the dossier of the row it will store
\* them in, fact for fact, whichever run stored that row and however it came
\* by it, as long as nothing is withdrawn.
WorksOnItsRow ==
    \A h \in Handler :
        run[h].at = "generate_banter" /\ gone = {} =>
            /\ ValidRow(KeyOf(h))
            /\ preps[KeyOf(h)].dossier = run[h].dossier
            /\ dossiers[run[h].dossier].facts = run[h].facts

\* Migration 002, "completed rows do not change": candidates are written once,
\* a row never changes its dossier, and none that was invalidated comes back.
CompleteIsFinal ==
    [][\A k \in Key : preps[k] # NULL =>
         /\ preps'[k].dossier = preps[k].dossier
         /\ preps[k].banter # NULL => preps'[k].banter = preps[k].banter
         /\ preps[k].status = "COMPLETE" => preps'[k].status # "DOSSIER_READY"
         /\ preps[k].status = "INVALIDATED" => preps'[k] = preps[k]]_vars
=============================================================================
