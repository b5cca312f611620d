---------------------------- MODULE Services_proofs ----------------------------
(***************************************************************************)
(* Proofs about the services around an answer: the guard of a stream's     *)
(* language, the choice of a model, /debate, learned patterns, the         *)
(* encryption of the database and what users keep.                         *)
(***************************************************************************)
EXTENDS ServicesProps, FiniteSetTheorems, SequenceTheorems, WellFoundedInduction,
        TLAPS

(* A set of numbers has a least one.                                       *)
LEMMA LeastExists ==
  ASSUME NEW rest, rest \in SUBSET Nat, rest # {}
  PROVE  \E n \in rest : \A m \in rest : n <= m
<1>1. \E n \in rest : \A m \in rest : ~ (<<m, n>> \in OpToRel(<, Nat))
  BY NatLessThanWellFounded, WFMin
<1>2. OpToRel(<, Nat) = {ss \in Nat \X Nat : ss[1] < ss[2]}
  BY Zenon DEF OpToRel
<1>3. PICK n \in rest : \A m \in rest : ~ (<<m, n>> \in {ss \in Nat \X Nat : ss[1] < ss[2]})
  BY <1>1, <1>2
<1>4. ASSUME NEW m \in rest
      PROVE  n <= m
  <2>1. n \in Nat /\ m \in Nat
    OBVIOUS
  <2>2. ~ (<<m, n>>[1] < <<m, n>>[2])
    BY <1>3, <2>1
  <2> QED
    BY <2>1, <2>2
<1> QED
  BY <1>4

-----------------------------------------------------------------------------
(* The guard of the streams                                                *)

(* Every distribution that is not empty has a most probable language.      *)
LEMMA TopExists ==
  ASSUME NEW d \in Partials, DOMAIN d # {}
  PROVE  \E l \in DOMAIN d : \A m \in DOMAIN d : d[m] <= d[l]
<1> DEFINE rest == {100 - d[l] : l \in DOMAIN d}
<1>1. \A l \in DOMAIN d : d[l] \in 0 .. 100
  BY PartialsAssumption DEF Distribution
<1>2. rest \in SUBSET Nat /\ rest # {}
  BY <1>1
<1>3. PICK n \in rest : \A m \in rest : n <= m
  <2> HIDE DEF rest
  <2> QED
    BY <1>2, LeastExists
<1>4. PICK l \in DOMAIN d : n = 100 - d[l]
  BY <1>3
<1>5. \A m \in DOMAIN d : 100 - d[l] <= 100 - d[m]
  BY <1>3, <1>4
<1> QED
  BY <1>1, <1>5

(* What a stream is aborted for leaves the expected language no share the  *)
(* classification would call a false positive.                             *)
LEMMA AbortsAreNoFalsePositives ==
  ASSUME NEW d \in Partials, NEW expected, Aborts(d, expected)
  PROVE  classify_abort(d, expected) \in {"confirmed", "unknown"}
<1>1. DOMAIN d # {}
  BY DEF Aborts, Top
<1> DEFINE l == CHOOSE l \in DOMAIN d : \A m \in DOMAIN d : d[m] <= d[l]
<1>2. l \in DOMAIN d
  BY <1>1, TopExists
<1>3. l # expected /\ d[l] >= 85
  BY <1>1 DEF Aborts, Top
<1> HIDE DEF l
<1>4. expected \in DOMAIN d => d[l] \in 0 .. 100 /\ d[expected] \in 0 .. 100 /\ d[l] + d[expected] <= 100
  BY <1>2, <1>3, PartialsAssumption DEF Distribution
<1>5. ~(Share(d, expected) >= 30)
  BY <1>3, <1>4 DEF Share
<1> QED
  BY <1>5 DEF classify_abort

(* Statistics without a false positive.                                    *)
Without(s) == /\ DOMAIN s = DOMAIN NewStats
              /\ s.fps = 0 /\ s.consecutive = 0 /\ s.aborts \in Nat

(* Without false positives nothing is beyond the limits.                   *)
LEMMA NothingToDisable ==
  ASSUME NEW s, Without(s)
  PROVE  ~should_disable(s) /\ Calibrated(s) = s
BY DEF Without, should_disable, Calibrated

(* No access and no outcome brings in a false positive.                    *)
LEMMA OutcomesKeep ==
  ASSUME NEW s, Without(s), NEW outcome \in {"confirmed", "unknown"}
  PROVE  Without(apply_outcome(s, outcome))
<1> DEFINE t == [s EXCEPT !.checks = @ + 1, !.aborts = @ + 1,
        !.confirmed = @ + (IF outcome = "confirmed" THEN 1 ELSE 0),
        !.fps = @ + (IF outcome = "false_positive" THEN 1 ELSE 0),
        !.unknown = @ + (IF outcome = "unknown" THEN 1 ELSE 0),
        !.consecutive = IF outcome = "confirmed" THEN 0
                        ELSE @ + (IF outcome = "false_positive" THEN 1 ELSE 0)]
<1>1. Without(t)
  BY DEF Without, NewStats
<1>2. apply_outcome(s, outcome) = Calibrated(t)
  BY DEF apply_outcome
<1> HIDE DEF t
<1> QED
  BY <1>1, <1>2, NothingToDisable

GuardInv == DOMAIN stats = GuardChats /\ \A c \in GuardChats : Without(stats[c])

(* The invariant holds in every state of GuardSpec.                        *)
THEOREM GuardInvariant == GuardSpec => []GuardInv
<1>1. GuardInit => GuardInv
  BY DEF GuardInit, GuardInv, Without, NewStats
<1>2. GuardInv /\ [GuardNext]_guardVars => GuardInv'
  <2> SUFFICES ASSUME GuardInv, [GuardNext]_guardVars PROVE GuardInv'
    OBVIOUS
  <2>1. Without(NewStats)
    BY DEF NewStats, Without
  <2>2. \A c \in GuardChats : Without(Found(c))
    BY <2>1 DEF Found, GuardInv
  <2>3. ASSUME NEW c \in GuardChats, NEW model \in Models, StartStream(c, model)
        PROVE  GuardInv'
    BY <2>2, <2>3 DEF StartStream, GuardInv
  <2>4. ASSUME NEW c \in GuardChats, NEW d \in Partials, check_early(c, d)
        PROVE  GuardInv'
    <3>1. CASE Aborts(d, Expected[c])
      <4>1. Without(apply_outcome(Found(c), classify_abort(d, Expected[c])))
        BY <2>2, <3>1, AbortsAreNoFalsePositives, OutcomesKeep
      <4> QED
        BY <2>4, <3>1, <4>1 DEF check_early, GuardInv
    <3>2. CASE ~Aborts(d, Expected[c])
      BY <2>4, <3>2 DEF check_early, GuardInv
    <3> QED
      BY <3>1, <3>2
  <2>5. ASSUME NEW c \in GuardChats, NEW text \in Answers, EndStream(c, text)
        PROVE  GuardInv'
    <3> DEFINE s == Found(c)
               counted == [s EXCEPT !.checks = @ + 1]
    <3>1. Without(counted)
      BY <2>2 DEF Without, NewStats
    <3>2. Without(Calibrated(counted))
      <4> HIDE DEF counted
      <4> QED
        BY <3>1, NothingToDisable
    <3>3. Without(Reported(s, streams[c].checked))
      BY <2>2, <3>2 DEF Reported
    <3> QED
      BY <2>5, <3>3 DEF EndStream, GuardInv
  <2>6. ASSUME NEW c \in GuardChats, AnswerAnew(c)
        PROVE  GuardInv'
    BY <2>6 DEF AnswerAnew, GuardInv
  <2>7. CASE UNCHANGED guardVars
    BY <2>7 DEF guardVars, GuardInv
  <2> QED
    BY <2>3, <2>4, <2>5, <2>6, <2>7 DEF GuardNext
<1> QED
  BY <1>1, <1>2, PTL DEF GuardSpec

(* Whatever the streams say and however many chats share the store of the  *)
(* statistics, no guard is switched off (stream_guard.py).                 *)
THEOREM NoGuardIsDisabled == GuardSpec => []GuardStaysOn
<1>1. GuardInv => GuardStaysOn
  <2> SUFFICES ASSUME GuardInv, NEW c \in GuardChats
               PROVE  stats[c].fps = 0 /\ ~should_disable(stats[c])
    BY DEF GuardStaysOn
  <2>1. Without(stats[c])
    BY DEF GuardInv
  <2> QED
    BY <2>1, NothingToDisable DEF Without, NewStats
<1> QED
  BY <1>1, GuardInvariant, PTL

-----------------------------------------------------------------------------
(* The choice of a model                                                   *)

SettingsInv == overrides \in [SettingsUsers -> [Keys -> StoredModels \cup {None}]]

(* Reading keeps the type of the rows.                                     *)
LEMMA CleaningKeeps ==
  ASSUME SettingsInv, NEW u \in SettingsUsers, NEW keys
  PROVE  Cleaned(overrides[u], keys) \in [Keys -> StoredModels \cup {None}]
BY DEF SettingsInv, Cleaned

(* Every step of the settings keeps it.                                    *)
LEMMA SettingsKeep == SettingsInv /\ [SettingsNext]_settingsVars => SettingsInv'
<1> SUFFICES ASSUME SettingsInv, [SettingsNext]_settingsVars PROVE SettingsInv'
  OBVIOUS
<1> USE DEF SettingsInv
<1>1. CASE UNCHANGED settingsVars
  BY <1>1 DEF settingsVars
<1>2. ASSUME NEW u \in SettingsUsers, NEW k \in Keys, NEW input \in Inputs,
             set_user_model(u, k, input)
      PROVE  SettingsInv'
  BY <1>2, ModelsAssumption DEF set_user_model, Accepted
<1>3. ASSUME NEW u \in SettingsUsers, NEW k \in Keys, reset_user_model(u, k)
      PROVE  SettingsInv'
  BY <1>3 DEF reset_user_model
<1>4. ASSUME NEW u \in SettingsUsers, reset_all_slots(u)
      PROVE  SettingsInv'
  BY <1>4 DEF reset_all_slots
<1>5. ASSUME NEW u \in SettingsUsers,
             \E keys : overrides' = [overrides EXCEPT ![u] = Cleaned(@, keys)]
      PROVE  SettingsInv'
  BY <1>5, CleaningKeeps
<1>6. ASSUME NEW u \in SettingsUsers, NEW slot \in Slots,
             OpenSlotMenu(u, slot) \/ ResolveForMessage(u, slot)
      PROVE  SettingsInv'
  BY <1>5, <1>6 DEF OpenSlotMenu, ResolveForMessage
<1>7. ASSUME NEW u \in SettingsUsers, OpenModelMenu(u)
      PROVE  SettingsInv'
  BY <1>5, <1>7 DEF OpenModelMenu
<1>8. ASSUME NEW u \in SettingsUsers, NEW row, Upsert(u, row)
      PROVE  SettingsInv'
  BY <1>8 DEF Upsert
<1>9. ASSUME NEW u \in SettingsUsers, handle_setmodel_command(u)
      PROVE  SettingsInv'
  BY <1>2, <1>3, <1>4, <1>9 DEF handle_setmodel_command, Keys
<1>10. ASSUME NEW u \in SettingsUsers, handle_settings_callback(u)
       PROVE  SettingsInv'
  BY <1>2, <1>3, <1>4, <1>6, <1>10 DEF handle_settings_callback, Keys
<1>11. ASSUME NEW u \in SettingsUsers, handle_resetmodel_command(u)
       PROVE  SettingsInv'
  BY <1>3, <1>11 DEF handle_resetmodel_command, Keys
<1> QED
  BY <1>1, <1>6, <1>7, <1>8, <1>9, <1>10, <1>11
  DEF SettingsNext, toggle_debate_provider, set_rate_limit, toggle_personality,
      set_settings_language, set_timezone

(* The invariant holds in every state of SettingsSpec.                     *)
THEOREM SettingsInvariant == SettingsSpec => []SettingsInv
<1>1. SettingsInit => SettingsInv
  BY DEF SettingsInit, SettingsInv
<1> QED
  BY <1>1, SettingsKeep, PTL DEF SettingsSpec

(* A choice that is accepted decides the model of the next message         *)
(* (model_service.py), for any users, slots and registries, and whatever   *)
(* rows earlier registries have left.                                      *)
THEOREM ChoicesAreUsed == SettingsSpec => ChosenIsUsed
<1>1. ASSUME SettingsInv, NEW u \in SettingsUsers, NEW k \in Keys, NEW input \in Inputs,
             set_user_model(u, k, input), NEW slot \in Slots
      PROVE  resolve_model(u, slot)' =
               IF slot = k \/ (k = Global /\ get_user_model(u, slot) = None)
               THEN resolve_alias[input] ELSE resolve_model(u, slot)
  <2> DEFINE m == resolve_alias[input]
             v == IF ImplicitReset(u, k, m) THEN None ELSE m
             read(x) == IF Usable(x) THEN x ELSE None
  <2>1. Usable(m) /\ m # None /\ ~Usable(None)
    BY <1>1, ModelsAssumption DEF set_user_model, Accepted, Usable
  <2>2. /\ overrides'[u][k] = v
        /\ \A j \in Keys \ {k} : overrides'[u][j] = overrides[u][j]
    BY <1>1 DEF set_user_model, SettingsInv
  <2>3. slot \in Keys /\ Global \in Keys /\ slot # Global
    BY SlotsAssumption DEF Keys
  <2>4. \A j \in Keys : /\ get_user_model(u, j) = read(overrides[u][j])
                         /\ get_user_model(u, j)' = read(overrides'[u][j])
    BY DEF get_user_model, Cleaned
  <2>5. CASE ImplicitReset(u, k, m)
    <3>1. /\ k \in Slots /\ SlotDefault[k] = m /\ overrides[u][Global] = None /\ v = None
      BY <2>5 DEF ImplicitReset
    <3>2. k # Global
      BY <3>1, SlotsAssumption
    <3>3. get_user_model(u, Global)' = None /\ get_user_model(u, Global) = None
      BY <2>1, <2>2, <2>3, <2>4, <3>1, <3>2
    <3>4. CASE slot = k
      <4>1. get_user_model(u, slot)' = None
        BY <2>1, <2>2, <2>3, <2>4, <3>1, <3>4
      <4> QED
        BY <3>1, <3>3, <3>4, <4>1 DEF resolve_model
    <3>5. CASE slot # k
      <4>1. get_user_model(u, slot)' = get_user_model(u, slot)
        BY <2>2, <2>3, <2>4, <3>5
      <4> QED
        BY <3>2, <3>3, <3>5, <4>1 DEF resolve_model
    <3> QED
      BY <3>4, <3>5
  <2>6. CASE ~ImplicitReset(u, k, m)
    <3>1. get_user_model(u, k)' = m
      BY <2>1, <2>2, <2>4, <2>6
    <3>2. \A j \in Keys \ {k} : get_user_model(u, j)' = get_user_model(u, j)
      BY <2>2, <2>4
    <3>3. CASE slot = k
      BY <2>1, <3>1, <3>3 DEF resolve_model
    <3>4. CASE slot # k /\ k = Global
      BY <2>1, <2>3, <3>1, <3>2, <3>4 DEF resolve_model
    <3>5. CASE slot # k /\ k # Global
      BY <2>3, <3>2, <3>5 DEF resolve_model
    <3> QED
      BY <3>3, <3>4, <3>5
  <2> QED
    BY <2>5, <2>6
<1>2. SettingsInv =>
        [\A u \in SettingsUsers, k \in Keys, input \in Inputs :
           set_user_model(u, k, input) =>
             \A slot \in Slots :
               resolve_model(u, slot)' =
                 IF slot = k \/ (k = Global /\ get_user_model(u, slot) = None)
                 THEN resolve_alias[input] ELSE resolve_model(u, slot)]_settingsVars
  BY <1>1
<1> QED
  BY <1>2, SettingsInvariant, PTL DEF SettingsSpec, ChosenIsUsed

-----------------------------------------------------------------------------
(* Debates                                                                 *)

DebateInv ==
    /\ DOMAIN debate = DOMAIN NoDebate
    /\ \A p : <<p, "query">> \in subprocesses =>
              debate.phase \in {"querying", "reviewing"} /\ p \in debate.queried

(* A step that leaves the debate where it is and starts no query.          *)
LEMMA AskingNobodyKeeps ==
  ASSUME DebateInv, DOMAIN debate' = DOMAIN debate,
         debate'.queried = debate.queried,
         \/ debate'.phase = debate.phase
         \/ debate'.phase \in {"querying", "reviewing"},
         subprocesses' \subseteq subprocesses
  PROVE  DebateInv'
BY DEF DebateInv

(* The invariant holds in every state of DebateSpec.                       *)
THEOREM DebateInvariant == DebateSpec => []DebateInv
<1>1. DebateInit => DebateInv
  BY DEF DebateInit, DebateInv
<1>2. DebateInv /\ [DebateNext]_debateVars => DebateInv'
  <2> SUFFICES ASSUME DebateInv, [DebateNext]_debateVars PROVE DebateInv'
    OBVIOUS
  <2>1. CASE UNCHANGED debateVars
    BY <2>1 DEF debateVars, DebateInv
  <2>2. ASSUME NEW available \in SUBSET Providers, StartDebate(available)
        PROVE  DebateInv'
    <3> DEFINE ps == select_providers(available)
    <3>1. \A p : <<p, "query">> \notin subprocesses
      BY <2>2 DEF StartDebate, DebateInv
    <3>2. CASE ps = {}
      BY <2>2, <3>1, <3>2 DEF StartDebate, DebateInv, NoDebate
    <3>3. CASE ps # {}
      <4>1. /\ debate' = [NoDebate EXCEPT !.phase = "querying", !.queried = ps,
                                          !.waiting = ps]
            /\ subprocesses' = subprocesses \cup Spawned(ps, "query")
        BY <2>2, <3>3 DEF StartDebate
      <4> HIDE DEF ps
      <4>2. /\ DOMAIN debate' = DOMAIN NoDebate
            /\ debate'.phase = "querying" /\ debate'.queried = ps
        BY <4>1 DEF NoDebate
      <4>3. \A p : <<p, "query">> \in subprocesses' => p \in ps
        BY <3>1, <4>1 DEF Spawned
      <4> QED
        BY <4>2, <4>3 DEF DebateInv
    <3> QED
      BY <3>2, <3>3
  <2>3. ASSUME NEW p \in Providers, NEW fits \in BOOLEAN, ProviderAnswers(p, fits)
        PROVE  DebateInv'
    BY <2>3, AskingNobodyKeeps DEF ProviderAnswers, DebateInv, NoDebate
  <2>4. ASSUME NEW p \in Providers, ProviderFails(p)
        PROVE  DebateInv'
    <3>1. subprocesses' \subseteq subprocesses
      BY <2>4 DEF ProviderFails
    <3> QED
      BY <2>4, <3>1, AskingNobodyKeeps DEF ProviderFails, DebateInv, NoDebate
  <2>5. CASE ExcludeAndCompare
    BY <2>5, AskingNobodyKeeps DEF ExcludeAndCompare, DebateInv, NoDebate
  <2>6. ASSUME NEW available \in SUBSET Providers, Conclude(available)
        PROVE  DebateInv'
    <3>1. DOMAIN debate' = DOMAIN debate
      BY <2>6 DEF Conclude
    <3>2. \A p : <<p, "query">> \notin subprocesses'
      <4>1. subprocesses' \subseteq
              (subprocesses \cup Spawned({Judged(available)} \ {"nobody"}, "judge"))
                \ (debate.queried \X {"query"})
        BY <2>6 DEF Conclude, cleanup_debate_subprocesses
      <4>2. \A p : <<p, "query">> \notin Spawned({Judged(available)} \ {"nobody"}, "judge")
        BY DEF Spawned
      <4> QED
        BY <4>1, <4>2 DEF DebateInv
    <3> QED
      BY <3>1, <3>2 DEF DebateInv
  <2>7. ASSUME NEW s \in subprocesses, PoolDropsIdle(s)
        PROVE  DebateInv'
    BY <2>7, AskingNobodyKeeps DEF PoolDropsIdle
  <2> QED
    BY <2>1, <2>2, <2>3, <2>4, <2>5, <2>6, <2>7 DEF DebateNext
<1> QED
  BY <1>1, <1>2, PTL DEF DebateSpec

(* Whichever providers answer, fail or have lost their subprocess, in any  *)
(* order, a debate that is over leaves none of the subprocesses of its     *)
(* queries (debate_orchestrator.py), for any number of providers.          *)
THEOREM DebatesLeaveNothing == DebateSpec => []QueriesLeaveNothing
<1>1. DebateInv => QueriesLeaveNothing
  BY DEF DebateInv, QueriesLeaveNothing
<1> QED
  BY <1>1, DebateInvariant, PTL

-----------------------------------------------------------------------------
(* Learned patterns                                                        *)

RowFields == {"id", "owner", "status", "pattern", "type", "scope", "version", "elo", "immune"}

LifeInv ==
    /\ \A h \in hyps : DOMAIN h = RowFields /\ h.id \in Patterns
    /\ \A g, h \in hyps : g.id = h.id => g = h
    /\ DOMAIN approved = Patterns
    /\ ActiveWordingWasConfirmed

InUse == {"confirmed", "active"}

(* A status the step may give: one not in use, or the version is approved. *)
LEMMA StatusKeeps ==
  ASSUME LifeInv, NEW id \in Patterns, NEW status, update_hypothesis_status(id, status),
         DOMAIN approved' = Patterns,
         \A x \in Patterns \ {id} : approved'[x] = approved[x],
         \A h \in get_hypothesis(id) : status \in InUse => approved'[id] = h.version
  PROVE  LifeInv'
<1> DEFINE row(h) == IF h.id = id THEN [h EXCEPT !.status = status] ELSE h
<1>1. hyps' = {row(h) : h \in hyps}
  BY DEF update_hypothesis_status
<1>2. \A h \in hyps : /\ DOMAIN row(h) = RowFields /\ row(h).id = h.id
                      /\ row(h).version = h.version
                      /\ row(h).status = IF h.id = id THEN status ELSE h.status
  BY DEF LifeInv, RowFields
<1> HIDE DEF row
<1>3. /\ \A h \in hyps' : DOMAIN h = RowFields /\ h.id \in Patterns
      /\ \A g, h \in hyps' : g.id = h.id => g = h
  BY <1>1, <1>2 DEF LifeInv
<1>4. ActiveWordingWasConfirmed'
  <2> SUFFICES ASSUME NEW h \in hyps, row(h).status \in InUse
               PROVE  approved'[row(h).id] = row(h).version
    BY <1>1 DEF ActiveWordingWasConfirmed, InUse
  <2>1. CASE h.id = id
    BY <1>2, <2>1 DEF get_hypothesis
  <2>2. CASE h.id # id
    BY <1>2, <2>2 DEF LifeInv, ActiveWordingWasConfirmed, InUse
  <2> QED
    BY <2>1, <2>2
<1> QED
  BY <1>3, <1>4 DEF LifeInv

(* Neither the rows nor what was agreed to changes.                        *)
LEMMA NothingNew ==
  ASSUME LifeInv, UNCHANGED <<hyps, approved>>
  PROVE  LifeInv'
BY DEF LifeInv, ActiveWordingWasConfirmed

(* A new row is agreed to, or not in use.                                  *)
LEMMA NewRowKeeps ==
  ASSUME LifeInv, NEW id \in Patterns, NEW type, NEW scope, NEW claim, NEW status, NEW immune,
         get_hypothesis(id) = {},
         hyps' = hyps \cup {NewRow(id, type, scope, claim, status, immune)},
         DOMAIN approved' = Patterns,
         \A x \in Patterns \ {id} : approved'[x] = approved[x],
         status \in InUse => approved'[id] = 1
  PROVE  LifeInv'
<1> DEFINE r == NewRow(id, type, scope, claim, status, immune)
<1>1. DOMAIN r = RowFields /\ r.id = id /\ r.status = status /\ r.version = 1
  BY DEF NewRow, RowFields
<1> HIDE DEF r
<1>2. hyps' = hyps \cup {r}
  BY DEF r
<1>3. \A h \in hyps : h.id # id
  BY DEF get_hypothesis
<1>4. /\ \A h \in hyps' : DOMAIN h = RowFields /\ h.id \in Patterns
      /\ \A g, h \in hyps' : g.id = h.id => g = h
  BY <1>1, <1>2, <1>3 DEF LifeInv
<1>5. ActiveWordingWasConfirmed'
  BY <1>1, <1>2, <1>3 DEF LifeInv, ActiveWordingWasConfirmed, InUse
<1> QED
  BY <1>4, <1>5 DEF LifeInv

(* What the judge puts into use was in use before.                         *)
LEMMA JudgePutsNothingIntoUse ==
  ASSUME NEW h \in hyps, NEW dated \in BOOLEAN, evaluate(h, dated) \in InUse
  PROVE  h.status \in InUse
<1>1. CASE Archives(h, dated)
  BY <1>1 DEF evaluate, InUse
<1>2. CASE ~Archives(h, dated) /\ should_challenge(h)
  BY <1>2 DEF evaluate, InUse
<1>3. CASE ~Archives(h, dated) /\ ~should_challenge(h)
  <2>1. check_promotion(h, get_summary(h.id)) \in InUse => h.status \in InUse
    BY DEF check_promotion, InUse
  <2>2. CASE check(h.pattern) # {}
    BY <1>3, <2>2 DEF evaluate, InUse
  <2>3. CASE check(h.pattern) = {}
    BY <1>3, <2>1, <2>3 DEF evaluate
  <2> QED
    BY <2>2, <2>3
<1> QED
  BY <1>1, <1>2, <1>3

(* Agreeing to a pattern agrees to the version it has.                     *)
LEMMA AgreeingKeeps ==
  ASSUME LifeInv, NEW id \in Patterns, NEW status, update_hypothesis_status(id, status),
         get_hypothesis(id) # {}, Agreed(id)
  PROVE  LifeInv'
<1>1. PICK h \in hyps : h.id = id
  BY DEF get_hypothesis
<1>2. get_hypothesis(id) = {h}
  BY <1>1 DEF LifeInv, get_hypothesis
<1>3. approved' = [approved EXCEPT ![id] = h.version]
  BY <1>2 DEF Agreed
<1>4. /\ DOMAIN approved' = Patterns
      /\ approved'[id] = h.version
      /\ \A x \in Patterns \ {id} : approved'[x] = approved[x]
  BY <1>3 DEF LifeInv
<1> QED
  BY <1>2, <1>4, StatusKeeps

(* A status that is not in use, with no agreement.                         *)
LEMMA LeavingUseKeeps ==
  ASSUME LifeInv, NEW id \in Patterns, NEW status, status \notin InUse,
         update_hypothesis_status(id, status), UNCHANGED approved
  PROVE  LifeInv'
<1>1. DOMAIN approved' = Patterns
  BY DEF LifeInv
<1> QED
  BY <1>1, StatusKeeps

(* Another rating changes neither the status nor the version.              *)
LEMMA RatingKeeps ==
  ASSUME LifeInv, NEW id \in Patterns, NEW outcome, update_hypothesis_elo(id, outcome)
  PROVE  LifeInv'
<1>1. PICK r : hyps' = {IF h.id = id THEN [h EXCEPT !.elo = r] ELSE h : h \in hyps}
  BY DEF update_hypothesis_elo, SetColumns
<1> DEFINE row(h) == IF h.id = id THEN [h EXCEPT !.elo = r] ELSE h
<1>2. hyps' = {row(h) : h \in hyps} /\ UNCHANGED approved
  BY <1>1 DEF update_hypothesis_elo
<1>3. \A h \in hyps : /\ DOMAIN row(h) = RowFields /\ row(h).id = h.id
                      /\ row(h).version = h.version /\ row(h).status = h.status
  BY DEF LifeInv, RowFields
<1> HIDE DEF row
<1> QED
  BY <1>2, <1>3 DEF LifeInv, ActiveWordingWasConfirmed

(* A new wording is a suggestion.                                          *)
LEMMA NewVersionKeeps ==
  ASSUME LifeInv, NEW id \in Patterns, NEW claim, create_new_version(id, claim)
  PROVE  LifeInv'
<1> DEFINE row(h) == IF h.id = id
                     THEN [h EXCEPT !.pattern = claim, !.version = @ + 1,
                                    !.elo = INITIAL_RATING, !.status = "suggested"]
                     ELSE h
<1>1. hyps' = {row(h) : h \in hyps} /\ UNCHANGED approved
  BY DEF create_new_version, SetColumns
<1>2. \A h \in hyps : /\ DOMAIN row(h) = RowFields /\ row(h).id = h.id
                      /\ h.id = id => row(h).status = "suggested"
                      /\ h.id # id => row(h) = h
  BY DEF LifeInv, RowFields
<1> HIDE DEF row
<1> QED
  BY <1>1, <1>2 DEF LifeInv, ActiveWordingWasConfirmed

(* The invariant holds in every state of LifeSpec.                         *)
THEOREM LifeInvariant == LifeSpec => []LifeInv
<1>1. LifeInit => LifeInv
  BY DEF LifeInit, LifeInv, ActiveWordingWasConfirmed
<1>2. LifeInv /\ [LifeNext]_lifeVars => LifeInv'
  <2> SUFFICES ASSUME LifeInv, [LifeNext]_lifeVars PROVE LifeInv'
    OBVIOUS
  <2>1. CASE UNCHANGED lifeVars
    BY <2>1, NothingNew DEF lifeVars
  <2>2. CASE DayPasses \/ RestartLife
    BY <2>2, NothingNew DEF DayPasses, RestartLife
  <2>3. ASSUME NEW id \in Patterns, NEW claim \in Claims, learn(id, claim)
        PROVE  LifeInv'
    <3>1. CASE check(claim) # {}
      BY <2>3, <3>1, NothingNew DEF learn
    <3>2. CASE check(claim) = {}
      <4>1. /\ get_hypothesis(id) = {}
            /\ hyps' = hyps \cup {NewRow(id, "preference",
                                         [client |-> FALSE, project |-> FALSE, tags |-> 0],
                                         claim, "confirmed", TRUE)}
            /\ approved' = [approved EXCEPT ![id] = 1]
        BY <2>3, <3>2 DEF learn
      <4>2. /\ DOMAIN approved' = Patterns /\ approved'[id] = 1
            /\ \A x \in Patterns \ {id} : approved'[x] = approved[x]
        BY <4>1 DEF LifeInv
      <4> QED
        BY <4>1, <4>2, NewRowKeeps
    <3> QED
      BY <3>1, <3>2
  <2>4. ASSUME NEW id \in Patterns, NEW type \in Types, NEW scope \in Scopes,
               NEW claim \in Claims, Find(id, type, scope, claim)
        PROVE  LifeInv'
    <3>1. /\ get_hypothesis(id) = {}
          /\ hyps' = hyps \cup {NewRow(id, type, scope, claim, "candidate", FALSE)}
          /\ UNCHANGED approved /\ DOMAIN approved = Patterns
      BY <2>4 DEF Find, LifeInv
    <3>2. "candidate" \notin InUse
      BY DEF InUse
    <3> QED
      BY <3>1, <3>2, NewRowKeeps
  <2>5. ASSUME NEW id \in Patterns, NEW signal \in Signals, add_evidence(id, signal)
        PROVE  LifeInv'
    BY <2>5, NothingNew DEF add_evidence
  <2>6. ASSUME NEW id \in Patterns, NEW rating \in 1 .. 4, Review(id, rating)
        PROVE  LifeInv'
    BY <2>6, NothingNew DEF Review
  <2>7. ASSUME NEW id \in Patterns, Judge(id)
        PROVE  LifeInv'
    <3>1. PICK h \in get_hypothesis(id), dated \in BOOLEAN :
             update_hypothesis_status(id, evaluate(h, dated))
      BY <2>7 DEF Judge
    <3>2. h \in hyps /\ h.id = id /\ \A g \in get_hypothesis(id) : g = h
      BY <3>1 DEF get_hypothesis, LifeInv
    <3>3. UNCHANGED approved /\ DOMAIN approved = Patterns
      BY <2>7 DEF Judge, LifeInv
    <3>4. evaluate(h, dated) \in InUse => approved[id] = h.version
      BY <3>2, JudgePutsNothingIntoUse DEF LifeInv, ActiveWordingWasConfirmed, InUse
    <3> QED
      BY <3>1, <3>2, <3>3, <3>4, StatusKeeps
  <2>8. ASSUME NEW id \in Patterns, Confirm(id) \/ AnswerYesOnce(id) \/ ResumePattern(id)
        PROVE  LifeInv'
    <3>1. get_hypothesis(id) # {} /\ Agreed(id)
      BY <2>8 DEF Confirm, AnswerYesOnce, ResumePattern
    <3>2. \E status : update_hypothesis_status(id, status)
      BY <2>8 DEF Confirm, AnswerYesOnce, ResumePattern
    <3> QED
      BY <3>1, <3>2, AgreeingKeeps
  <2>9. ASSUME NEW id \in Patterns, PausePattern(id) \/ execute_forget(id)
        PROVE  LifeInv'
    <3>1. PICK status \in {"paused", "retired"} : update_hypothesis_status(id, status)
      BY <2>9 DEF PausePattern, execute_forget
    <3>2. UNCHANGED approved
      BY <2>9 DEF PausePattern, execute_forget
    <3>3. status \notin InUse
      BY DEF InUse
    <3> QED
      BY <3>1, <3>2, <3>3, LeavingUseKeeps
  <2>10. ASSUME NEW id \in Patterns, clear_hypothesis(id)
         PROVE  LifeInv'
    BY <2>10, NothingNew DEF clear_hypothesis
  <2> QED
    BY <2>1, <2>2, <2>3, <2>4, <2>5, <2>6, <2>7, <2>8, <2>9, <2>10, RatingKeeps, NewVersionKeeps
    DEF LifeNext
<1> QED
  BY <1>1, <1>2, PTL DEF LifeSpec

(* Whatever the judge, old buttons and new wordings do in which order, the *)
(* wording in use is one its user has agreed to (HC-SC-10, HC-SC-12), for  *)
(* any number of patterns, wordings, signals and days.                     *)
THEOREM WordingsInUseWereConfirmed == LifeSpec => []ActiveWordingWasConfirmed
<1>1. LifeInv => ActiveWordingWasConfirmed
  BY DEF LifeInv
<1> QED
  BY <1>1, LifeInvariant, PTL

-----------------------------------------------------------------------------
(* How sure the bot is of a pattern                                        *)

Beliefs == LowestBelief .. 9990

(* A quotient, by its defining inequalities.                               *)
Quot(a, b) == a \div b

LEMMA Quotient ==
  ASSUME NEW a \in Nat, NEW b \in Nat \ {0}
  PROVE  /\ Quot(a, b) \in Nat
         /\ Quot(a, b) * b <= a
         /\ a < (Quot(a, b) + 1) * b
BY DEF Quot

(* The posterior of a confirmed and of a contradicted belief.              *)
AfterYes(p) == Quot(90000 * p, 7 * p + 20000)
AfterNo(p) == Quot(10000 * p, 80000 - 7 * p)

(* A confirmation moves the posterior up.                                  *)
LEMMA ConfirmedPosterior ==
  ASSUME NEW p \in Beliefs
  PROVE  AfterYes(p) \in p .. 10000
<1> DEFINE a == 90000 * p
           b == 7 * p + 20000
           q == Quot(a, b)
<1>1. p \in Nat /\ p >= 1142 /\ p <= 9990
  BY DEF Beliefs, LowestBelief
<1>2. AfterYes(p) = q
  BY DEF AfterYes
<1>3. a \in Nat /\ b \in Nat \ {0}
  BY <1>1
<1>4. q \in Nat /\ q * b <= a /\ a < (q + 1) * b
  <2> HIDE DEF a, b
  <2> QED
    BY <1>3, Quotient
<1>5. p * b <= a
  <2>1. p * p <= 10000 * p
    BY <1>1
  <2>2. p * b = 7 * (p * p) + 20000 * p
    BY <1>1
  <2>3. p * p \in Nat
    BY <1>1
  <2> QED
    BY <1>1, <2>1, <2>2, <2>3
<1>6. a < 10001 * b
  BY <1>1
<1> HIDE DEF a, q, b
<1>7. p < q + 1
  BY <1>1, <1>3, <1>4, <1>5
<1>8. q < 10001
  BY <1>3, <1>4, <1>6
<1> QED
  BY <1>1, <1>2, <1>4, <1>7, <1>8

(* The transition after a contradicted posterior: above the lowest belief  *)
(* it never makes up for the contradiction.                                *)
LEMMA ContradictedPosterior ==
  ASSUME NEW p \in Beliefs
  PROVE  /\ AfterNo(p) \in 158 .. 10000
         /\ 9 * AfterNo(p) + 10000 <= 10 * p + 9
<1> DEFINE a == 10000 * p
           b == 80000 - 7 * p
           q == Quot(a, b)
<1>1. p \in Nat /\ p >= 1142 /\ p <= 9990
  BY DEF Beliefs, LowestBelief
<1>2. AfterNo(p) = q
  BY DEF AfterNo
<1>3. a \in Nat /\ b \in Nat \ {0}
  BY <1>1
<1>4. q \in Nat /\ q * b <= a /\ a < (q + 1) * b
  <2> HIDE DEF a, b
  <2> QED
    BY <1>3, Quotient
<1>5. 158 * b <= a
  BY <1>1
<1>6. a <= 10000 * b
  BY <1>1
<1>7. (10 * p - 9990) * b > 9 * a
  <2>1. (p - 1142) * (9990 - p) >= 0
    BY <1>1
  <2>2. (p - 1142) * (9990 - p) = 11132 * p - p * p - 11408580
    BY <1>1
  <2>3. (10 * p - 9990) * b = 869930 * p - 70 * (p * p) - 799200000
    BY <1>1
  <2>4. p * p \in Nat
    BY <1>1
  <2> HIDE DEF b
  <2> QED
    BY <1>1, <2>1, <2>2, <2>3, <2>4
<1> HIDE DEF a, q, b
<1>8. 158 < q + 1
  BY <1>3, <1>4, <1>5
<1>9. q <= 10000
  BY <1>3, <1>4, <1>6
<1>10. 9 * q < 10 * p - 9990
  <2> DEFINE x == 10 * p - 9990
  <2>1. x \in Int /\ x * b > 9 * a
    BY <1>1, <1>7
  <2>2. (9 * q) * b <= 9 * a
    <3>1. (9 * q) * b = 9 * (q * b)
      BY <1>3, <1>4
    <3>2. q * b \in Nat
      BY <1>3, <1>4
    <3> QED
      BY <1>3, <1>4, <3>1, <3>2
  <2> HIDE DEF x
  <2>3. 9 * q < x
    BY <1>3, <1>4, <2>1, <2>2
  <2> QED
    BY <2>3 DEF x
<1> QED
  BY <1>1, <1>2, <1>4, <1>8, <1>9, <1>10

(* A confirmation moves a belief up, never past the highest one.           *)
LEMMA ConfirmedUpdate ==
  ASSUME NEW p \in Beliefs
  PROVE  Clamped(apply_transition(AfterYes(p)), 10, 9990) \in p .. 9990
<1> DEFINE q == AfterYes(p)
<1>1. q \in p .. 10000
  BY ConfirmedPosterior
<1>2. p \in Nat /\ p >= 1142 /\ p <= 9990
  BY DEF Beliefs, LowestBelief
<1> HIDE DEF q
<1>3. apply_transition(q) \in p .. 10000
  BY <1>1, <1>2 DEF apply_transition, Unit, DEFAULT_P_TRANSITION
<1>4. Clamped(apply_transition(q), 10, 9990) \in p .. 9990
  BY <1>2, <1>3 DEF Clamped
<1> QED
  BY <1>4 DEF q

(* A contradiction moves a belief down, never below the lowest one.        *)
LEMMA ContradictedUpdate ==
  ASSUME NEW p \in Beliefs
  PROVE  Clamped(apply_transition(AfterNo(p)), 10, 9990) \in LowestBelief .. p
<1> DEFINE q == AfterNo(p)
<1>1. q \in 158 .. 10000 /\ 9 * q + 10000 <= 10 * p + 9
  BY ContradictedPosterior
<1>2. p \in Nat /\ p >= 1142 /\ p <= 9990
  BY DEF Beliefs, LowestBelief
<1> HIDE DEF q
<1>3. apply_transition(q) \in 1142 .. p
  BY <1>1, <1>2 DEF apply_transition, Unit, DEFAULT_P_TRANSITION
<1>4. Clamped(apply_transition(q), 10, 9990) \in LowestBelief .. p
  BY <1>2, <1>3 DEF Clamped, LowestBelief
<1> QED
  BY <1>4 DEF q

(* A part of the way up is a way up.                                       *)
LEMMA PartOfTheWayUp ==
  ASSUME NEW p \in Beliefs, NEW new \in p .. 9990, NEW w \in 1 .. 9
  PROVE  Clamped(p + (w * (new - p)) \div 10, 10, 9990) \in p .. 9990
<1>1. p \in Nat /\ p >= 1142 /\ p <= 9990 /\ new \in Nat /\ new - p \in Nat
  BY DEF Beliefs, LowestBelief
<1>2. w * (new - p) \in Nat
  BY <1>1
<1>3. (w * (new - p)) \div 10 \in Nat
  BY <1>2
<1> QED
  BY <1>1, <1>3 DEF Clamped

(* And a part of the way down one down.                                    *)
LEMMA PartOfTheWayDown ==
  ASSUME NEW p \in Beliefs, NEW new \in LowestBelief .. p, NEW w \in 1 .. 9
  PROVE  Clamped(p + (w * (new - p)) \div 10, 10, 9990) \in LowestBelief .. p
<1> DEFINE y == w * (new - p)
<1>1. p \in Nat /\ p >= 1142 /\ p <= 9990 /\ new \in 1142 .. p
  BY DEF Beliefs, LowestBelief
<1>2. y \in Int /\ y <= 0 /\ y >= 10 * (new - p)
  <2>1. (10 - w) * (p - new) >= 0 /\ w * (p - new) >= 0
    BY <1>1
  <2>2. (10 - w) * (p - new) = y - 10 * (new - p) /\ w * (p - new) = 0 - y
    BY <1>1
  <2>3. y \in Int
    BY <1>1
  <2> HIDE DEF y
  <2> QED
    BY <1>1, <2>1, <2>2, <2>3
<1> HIDE DEF y
<1>3. y \div 10 \in Int /\ y \div 10 <= 0 /\ y \div 10 >= new - p
  BY <1>1, <1>2
<1>4. Clamped(p + y \div 10, 10, 9990) \in LowestBelief .. p
  BY <1>1, <1>3 DEF Clamped, LowestBelief
<1> QED
  BY <1>4 DEF y

(* The update, weighted by anything, moves a belief the way of the signal. *)
LEMMA WeightedUpdate ==
  ASSUME NEW p \in Beliefs, NEW positive \in BOOLEAN, NEW weight \in Int
  PROVE  LET next == update_bkt_weighted(p, positive, weight)
         IN  /\ positive => next \in Beliefs /\ next >= p
             /\ ~positive => next \in Beliefs /\ next <= p
<1>1. p \in Nat /\ p >= 1142 /\ p <= 9990
  BY DEF Beliefs, LowestBelief
<1> DEFINE w == Clamped(weight, 0, 10)
<1>2. w \in 0 .. 10
  BY DEF Clamped
<1>3. CASE positive
  <2> DEFINE new == Clamped(apply_transition(AfterYes(p)), 10, 9990)
  <2>1. new \in p .. 9990
    BY ConfirmedUpdate
  <2> DEFINE next == CASE w = 0 -> p [] w = 10 -> new
                       [] OTHER -> Clamped(p + (w * (new - p)) \div 10, 10, 9990)
  <2>2. update_bkt_weighted(p, positive, weight) = next
    BY <1>1, <1>3 DEF update_bkt_weighted, update_bkt, Posterior, AfterYes, Quot, Unit,
                      DEFAULT_P_SLIP, DEFAULT_P_GUESS
  <2> HIDE DEF w, new
  <2>3. next \in p .. 9990
    <3>1. CASE w = 0
      BY <1>1, <3>1
    <3>2. CASE w = 10
      BY <2>1, <3>2
    <3>3. CASE w \in 1 .. 9
      BY <2>1, <3>3, PartOfTheWayUp
    <3> QED
      BY <1>2, <3>1, <3>2, <3>3
  <2>4. next \in Beliefs /\ next >= p
    <3> HIDE DEF next
    <3> QED
      BY <1>1, <2>3 DEF Beliefs, LowestBelief
  <2> HIDE DEF next
  <2> QED
    BY <1>3, <2>2, <2>4
<1>4. CASE ~positive
  <2> DEFINE new == Clamped(apply_transition(AfterNo(p)), 10, 9990)
  <2>1. new \in LowestBelief .. p
    BY ContradictedUpdate
  <2> DEFINE next == CASE w = 0 -> p [] w = 10 -> new
                       [] OTHER -> Clamped(p + (w * (new - p)) \div 10, 10, 9990)
  <2>2. update_bkt_weighted(p, positive, weight) = next
    BY <1>1, <1>4 DEF update_bkt_weighted, update_bkt, Posterior, AfterNo, Quot, Unit,
                      DEFAULT_P_SLIP, DEFAULT_P_GUESS
  <2> HIDE DEF w, new
  <2>3. next \in LowestBelief .. p
    <3>1. CASE w = 0
      BY <1>1, <3>1 DEF LowestBelief
    <3>2. CASE w = 10
      BY <2>1, <3>2
    <3>3. CASE w \in 1 .. 9
      BY <2>1, <3>3, PartOfTheWayDown
    <3> QED
      BY <1>2, <3>1, <3>2, <3>3
  <2>4. next \in Beliefs /\ next <= p
    <3> HIDE DEF next
    <3> QED
      BY <1>1, <2>3 DEF Beliefs, LowestBelief
  <2> HIDE DEF next
  <2> QED
    BY <1>4, <2>2, <2>4
<1> QED
  BY <1>3, <1>4

BeliefInv == beliefs \in [Patterns -> Beliefs]

(* A signal keeps the invariant, and moves its belief the right way.       *)
LEMMA SignalsMoveBeliefs ==
  ASSUME BeliefInv, NEW id \in Patterns, NEW signal \in Signals, add_evidence(id, signal)
  PROVE  /\ BeliefInv'
         /\ signal.positive => beliefs'[id] >= beliefs[id]
         /\ ~signal.positive => beliefs'[id] <= beliefs[id]
<1> DEFINE p == beliefs[id]
           next == update_bkt_weighted(p, signal.positive, signal.weight)
<1>1. p \in Beliefs /\ \A b \in Beliefs : b \in Nat /\ b >= LowestBelief /\ b <= 9990
  <2>1. p \in Beliefs
    BY DEF BeliefInv
  <2>2. \A b \in Beliefs : b \in Nat /\ b >= LowestBelief /\ b <= 9990
    BY DEF Beliefs, LowestBelief
  <2> QED
    BY <2>1, <2>2
<1>2. beliefs' = [beliefs EXCEPT ![id] = next]
  BY DEF add_evidence
<1>3. signal.positive \in BOOLEAN /\ signal.weight \in Int
  BY SignalsAssumption
<1>4. /\ signal.positive => next \in Beliefs /\ next >= p
      /\ ~signal.positive => next \in Beliefs /\ next <= p
  <2> HIDE DEF p
  <2> QED
    BY <1>1, <1>3, WeightedUpdate
<1> HIDE DEF next
<1>5. next \in Beliefs
  BY <1>3, <1>4
<1>6. beliefs'[id] = next
  BY <1>2 DEF BeliefInv
<1> QED
  BY <1>1, <1>2, <1>4, <1>5, <1>6 DEF BeliefInv, LowestBelief

(* The invariant holds in every state of LifeSpec.                         *)
THEOREM BeliefInvariant == LifeSpec => []BeliefInv
<1>1. DEFAULT_P_INIT \in Beliefs
  BY DEF DEFAULT_P_INIT, Beliefs, LowestBelief
<1>2. LifeInit => BeliefInv
  BY <1>1 DEF LifeInit, BeliefInv
<1>3. BeliefInv /\ [LifeNext]_lifeVars => BeliefInv'
  <2> SUFFICES ASSUME BeliefInv, [LifeNext]_lifeVars PROVE BeliefInv'
    OBVIOUS
  <2>1. CASE UNCHANGED beliefs
    BY <2>1 DEF BeliefInv
  <2>2. CASE RestartLife
    BY <1>1, <2>2 DEF RestartLife, BeliefInv
  <2>3. ASSUME NEW id \in Patterns, clear_hypothesis(id)
        PROVE  BeliefInv'
    BY <1>1, <2>3 DEF clear_hypothesis, BeliefInv
  <2> QED
    BY <2>1, <2>2, <2>3, SignalsMoveBeliefs
    DEF LifeNext, lifeVars, DayPasses, learn, create_new_version, Find, update_hypothesis_elo,
        Review, Judge, Confirm, AnswerYesOnce, PausePattern, ResumePattern, execute_forget
<1> QED
  BY <1>2, <1>3, PTL DEF LifeSpec

(* A signal never moves a belief the wrong way (evidence_ledger.py, bkt.py), *)
(* although the learning transition lifts every posterior: no history of   *)
(* signals of any weights leads below the belief at which that would show. *)
THEOREM SignalsAreHeeded == LifeSpec => EvidenceMovesConfidence
<1>1. BeliefInv =>
        [\A id \in Patterns, signal \in Signals :
           add_evidence(id, signal) =>
             IF signal.positive THEN beliefs'[id] >= beliefs[id]
             ELSE beliefs'[id] <= beliefs[id]]_lifeVars
  BY SignalsMoveBeliefs
<1> QED
  BY <1>1, BeliefInvariant, PTL DEF LifeSpec, EvidenceMovesConfidence

-----------------------------------------------------------------------------
(* The encryption of the database                                          *)

DatabaseTyped ==
    /\ disk \in [Names -> Files \cup {Absent}]
    /\ vault \in DatabaseKeys \cup {Absent}
    /\ connection \in [held : DatabaseKeys \cup {Absent}, open : BOOLEAN,
                       key : DatabaseKeys \cup {Absent}]
    /\ migration \in [step : {"none", "dumped", "opened", "verified", "aside"},
                      dump : Files, key : DatabaseKeys \cup {Absent}]

\* An open connection has a file, and none is open during a migration.
OneUser ==
    /\ connection.open => disk["main"] # Absent
    /\ migration.step # "none" => ~connection.open

\* Until the database is moved aside the dump is all it holds, and what is
\* moved aside has been copied.
Copied ==
    /\ migration.step \in {"dumped", "opened"} =>
         disk["main"] # Absent /\ migration.dump.rows = disk["main"].rows
    /\ migration.step \in {"opened", "verified", "aside"} => disk["temp"] # Absent
    /\ migration.step = "verified" => Stored("main") \subseteq disk["temp"].rows

DatabaseInv == DatabaseTyped /\ OneUser /\ Copied /\ RowsKept

(* Opening a file keeps its rows, and leaves a file (crypto_storage.py,    *)
(* _open_sqlcipher).                                                       *)
LEMMA OpeningKeeps ==
    ASSUME DatabaseTyped, NEW name \in Names, NEW key \in DatabaseKeys \cup {Absent}
    PROVE  /\ Opened(name, key) \in Files
           /\ Opened(name, key) # Absent
           /\ Opened(name, key).rows = Stored(name)
<1>1. CASE disk[name] = Absent
  <2>1. File(key, FALSE, {}) \in Files /\ File(key, FALSE, {}).rows = {}
    BY DEF File, Files
  <2> QED
    BY <1>1, <2>1, AbsentAssumption DEF Opened, Stored
<1>2. CASE disk[name] # Absent
  BY <1>2 DEF DatabaseTyped, Opened, Stored
<1> QED
  BY <1>1, <1>2

(* A connection that is opened, with a key or without one, changes no row. *)
LEMMA ConnectingKeeps ==
    ASSUME DatabaseInv, ensure_connection PROVE DatabaseInv'
<1>1. migration.step = "none" /\ UNCHANGED <<migration, machine, committed, torn>>
  BY DEF ensure_connection, Ready
<1>2. vault' \in DatabaseKeys \cup {Absent}
  BY DEF ensure_connection, DatabaseInv, DatabaseTyped, get_or_create_key, OpenPlain
<1>3. CASE UNCHANGED disk /\ connection'.open = FALSE
           /\ connection' \in [held : DatabaseKeys \cup {Absent}, open : BOOLEAN,
                               key : DatabaseKeys \cup {Absent}]
  BY <1>1, <1>2, <1>3 DEF DatabaseInv, DatabaseTyped, OneUser, Copied, RowsKept, Stored
<1>4. ASSUME NEW key \in DatabaseKeys \cup {Absent}, NEW kept \in DatabaseKeys \cup {Absent},
             disk' = [disk EXCEPT !["main"] = Opened("main", key)],
             connection' = [held |-> kept, open |-> TRUE, key |-> key]
      PROVE  DatabaseInv'
  <2>1. /\ Opened("main", key) \in Files /\ Opened("main", key) # Absent
        /\ Opened("main", key).rows = Stored("main")
    BY OpeningKeeps DEF DatabaseInv, Names
  <2>2. disk'["main"] = Opened("main", key) /\ disk' \in [Names -> Files \cup {Absent}]
    BY <1>4, <2>1 DEF DatabaseInv, DatabaseTyped, Names
  <2>3. Stored("main")' = Stored("main")
    BY <2>1, <2>2 DEF Stored
  <2>4. DatabaseTyped' /\ OneUser' /\ Copied'
    BY <1>1, <1>2, <1>4, <2>1, <2>2 DEF DatabaseInv, DatabaseTyped, OneUser, Copied
  <2>5. RowsKept'
    BY <1>1, <2>3 DEF DatabaseInv, RowsKept
  <2> QED
    BY <2>4, <2>5 DEF DatabaseInv
<1>5. ASSUME NEW kept \in DatabaseKeys \cup {Absent}, OpenPlain(kept) PROVE DatabaseInv'
  BY <1>4, <1>5 DEF OpenPlain
<1>6. connection.held \in DatabaseKeys \cup {Absent} /\ ~connection.open
  BY DEF ensure_connection, Ready, DatabaseInv, DatabaseTyped
<1>7. CASE machine.library
  <2>1. PICK key \in IF connection.held # Absent THEN {connection.held} ELSE get_or_create_key :
          IF open_sqlcipher("main", key)
          THEN /\ disk' = [disk EXCEPT !["main"] = Opened("main", key)]
               /\ connection' = [held |-> key, open |-> TRUE, key |-> key]
          ELSE \/ OpenPlain(key)
               \/ /\ machine.production /\ UNCHANGED disk
                  /\ connection' = [connection EXCEPT !.held = key]
    BY <1>7 DEF ensure_connection
  <2>2. key \in DatabaseKeys \cup {Absent}
    BY <1>6 DEF get_or_create_key, DatabaseInv, DatabaseTyped
  <2>3. CASE open_sqlcipher("main", key)
    BY <1>4, <2>1, <2>2, <2>3
  <2>4. CASE OpenPlain(key)
    BY <1>5, <2>2, <2>4
  <2>5. CASE UNCHANGED disk /\ connection' = [connection EXCEPT !.held = key]
    BY <1>3, <1>6, <2>2, <2>5 DEF DatabaseInv, DatabaseTyped
  <2> QED
    BY <2>1, <2>3, <2>4, <2>5
<1>8. CASE ~machine.library
  BY <1>5, <1>6, <1>8 DEF ensure_connection
<1> QED
  BY <1>7, <1>8

(* A row that is stored is in the file of the connection.                  *)
LEMMA StoringKeeps ==
    ASSUME DatabaseInv, NEW row \in Rows, execute(row) PROVE DatabaseInv'
<1>1. disk["main"] \in Files /\ migration.step = "none"
  BY DEF execute, DatabaseInv, DatabaseTyped, OneUser, Names
<1> DEFINE after == [disk["main"] EXCEPT !.tables = TRUE, !.rows = @ \cup {row}]
<1>2. after \in Files /\ after.rows = disk["main"].rows \cup {row}
  BY <1>1 DEF Files
<1>3. disk' = [disk EXCEPT !["main"] = after]
  BY <1>1 DEF execute, DatabaseInv, DatabaseTyped, Files
<1> HIDE DEF after
<1>4. after # Absent
  BY <1>2, AbsentAssumption
<1>5. disk'["main"] = after /\ disk' \in [Names -> Files \cup {Absent}]
  BY <1>2, <1>3 DEF DatabaseInv, DatabaseTyped, Names
<1>6. DatabaseTyped' /\ OneUser' /\ Copied'
  BY <1>1, <1>4, <1>5 DEF execute, DatabaseInv, DatabaseTyped, OneUser, Copied
<1>7. disk["main"] # Absent
  BY <1>1, AbsentAssumption
<1>8. RowsKept'
  BY <1>1, <1>2, <1>4, <1>5, <1>7 DEF execute, DatabaseInv, RowsKept, Stored
<1> QED
  BY <1>6, <1>8 DEF DatabaseInv

(* The steps of the migration, and what may end it, lose no row: the new   *)
(* file takes the place of the old one only with all its rows              *)
(* (crypto_storage.py, migrate_plaintext_to_encrypted).                    *)
LEMMA MigratingKeeps ==
    ASSUME DatabaseInv,
           DumpPlain \/ OpenTemporary \/ FillTemporary \/ MigrationFails \/ MoveAside
             \/ MoveIntoPlace \/ SwapFails
    PROVE  DatabaseInv'
<1> USE DEF DatabaseInv
<1>1. CASE DumpPlain
  <2>1. migration.step = "none" /\ ~connection.open /\ disk["main"] \in Files
    BY <1>1 DEF DumpPlain, Ready, NeedsMigration, DatabaseTyped, Names
  <2>2. PICK key \in get_or_create_key :
          vault' = key /\ migration' = [step |-> "dumped", dump |-> disk["main"], key |-> key]
    BY <1>1 DEF DumpPlain
  <2>3. key \in DatabaseKeys \cup {Absent} /\ disk["main"] # Absent
    BY <1>1 DEF get_or_create_key, DatabaseTyped, DumpPlain, NeedsMigration
  <2>4. UNCHANGED <<disk, connection, machine, committed, torn>>
    BY <1>1 DEF DumpPlain
  <2> QED
    BY <2>1, <2>2, <2>3, <2>4 DEF DatabaseTyped, OneUser, Copied, RowsKept, Stored
<1>2. CASE OpenTemporary
  <2>1. /\ migration.step = "dumped" /\ migration' = [migration EXCEPT !.step = "opened"]
        /\ UNCHANGED <<vault, connection, committed, torn>>
        /\ disk' = [disk EXCEPT !["temp"] = Opened("temp", migration.key)]
    BY <1>2 DEF OpenTemporary, MigrationStep
  <2>2. migration.key \in DatabaseKeys \cup {Absent}
    BY DEF DatabaseTyped
  <2>3. Opened("temp", migration.key) \in Files /\ Opened("temp", migration.key) # Absent
    BY <2>2, OpeningKeeps DEF Names
  <2>4. /\ disk' \in [Names -> Files \cup {Absent}]
        /\ disk'["temp"] # Absent /\ disk'["main"] = disk["main"]
    BY <2>1, <2>3 DEF DatabaseTyped, Names
  <2>5. migration' \in [step : {"none", "dumped", "opened", "verified", "aside"},
                        dump : Files, key : DatabaseKeys \cup {Absent}]
        /\ migration'.step = "opened" /\ migration'.dump = migration.dump
    BY <2>1 DEF DatabaseTyped
  <2> QED
    BY <2>1, <2>4, <2>5 DEF DatabaseTyped, OneUser, Copied, RowsKept, Stored
<1>3. CASE FillTemporary
  <2>1. /\ migration.step = "opened" /\ migration' = [migration EXCEPT !.step = "verified"]
        /\ UNCHANGED <<vault, connection, committed, torn>>
        /\ disk["temp"] \in Files /\ disk["main"] # Absent
        /\ migration.dump \in Files /\ migration.dump.rows = disk["main"].rows
    BY <1>3 DEF FillTemporary, MigrationStep, DatabaseTyped, Copied, Names
  <2> DEFINE after == [disk["temp"] EXCEPT !.tables = @ \/ migration.dump.tables,
                                         !.rows = @ \cup migration.dump.rows]
  <2>2. after \in Files /\ migration.dump.rows \subseteq after.rows
    BY <2>1 DEF Files
  <2>3. disk' = [disk EXCEPT !["temp"] = after]
    BY <1>3, <2>1 DEF FillTemporary, DatabaseTyped, Files
  <2> HIDE DEF after
  <2>4. /\ disk' \in [Names -> Files \cup {Absent}]
        /\ disk'["temp"] = after /\ after # Absent /\ disk'["main"] = disk["main"]
    BY <2>2, <2>3, AbsentAssumption DEF DatabaseTyped, Names
  <2>5. migration' \in [step : {"none", "dumped", "opened", "verified", "aside"},
                        dump : Files, key : DatabaseKeys \cup {Absent}]
        /\ migration'.step = "verified"
    BY <2>1 DEF DatabaseTyped
  <2> QED
    BY <2>1, <2>2, <2>4, <2>5 DEF DatabaseTyped, OneUser, Copied, RowsKept, Stored
<1>4. NoMigration \in [step : {"none", "dumped", "opened", "verified", "aside"},
                       dump : Files, key : DatabaseKeys \cup {Absent}]
      /\ NoMigration.step = "none"
  BY DEF NoMigration, File, Files
<1>5. CASE MigrationFails
  <2>1. /\ migration.step \in {"dumped", "opened"} /\ migration' = NoMigration
        /\ UNCHANGED <<vault, connection, committed, torn>>
        /\ disk' = [disk EXCEPT !["temp"] = Absent]
    BY <1>5 DEF MigrationFails, MigrationStep
  <2>2. disk' \in [Names -> Files \cup {Absent}] /\ disk'["main"] = disk["main"]
    BY <2>1 DEF DatabaseTyped, Names
  <2> QED
    BY <1>4, <2>1, <2>2 DEF DatabaseTyped, OneUser, Copied, RowsKept, Stored
<1>6. CASE MoveAside
  <2>1. /\ migration.step = "verified" /\ migration' = [migration EXCEPT !.step = "aside"]
        /\ UNCHANGED <<vault, connection, committed, torn>>
        /\ disk' = [disk EXCEPT !["backup"] = disk["main"], !["main"] = Absent]
    BY <1>6 DEF MoveAside, MigrationStep
  <2>2. disk' \in [Names -> Files \cup {Absent}] /\ disk'["temp"] = disk["temp"]
    BY <2>1 DEF DatabaseTyped, Names
  <2>3. migration' \in [step : {"none", "dumped", "opened", "verified", "aside"},
                        dump : Files, key : DatabaseKeys \cup {Absent}]
        /\ migration'.step = "aside"
    BY <2>1 DEF DatabaseTyped
  <2> QED
    BY <2>1, <2>2, <2>3 DEF DatabaseTyped, OneUser, Copied, RowsKept, Stored
<1>7. CASE MoveIntoPlace
  <2>1. /\ migration.step = "aside" /\ migration' = NoMigration
        /\ UNCHANGED <<vault, connection, committed, torn>>
        /\ disk' = [disk EXCEPT !["main"] = disk["temp"], !["temp"] = Absent]
    BY <1>7 DEF MoveIntoPlace, MigrationStep
  <2>2. disk' \in [Names -> Files \cup {Absent}] /\ disk'["main"] = disk["temp"]
    BY <2>1 DEF DatabaseTyped, Names
  <2> QED
    BY <1>4, <2>1, <2>2 DEF DatabaseTyped, OneUser, Copied, RowsKept, Stored
<1>8. CASE SwapFails
  BY <1>4, <1>8 DEF SwapFails, MigrationStep, DatabaseTyped, OneUser, Copied, RowsKept, Stored
<1> QED
  BY <1>1, <1>2, <1>3, <1>5, <1>6, <1>7, <1>8

(* The invariant holds in every state of DatabaseSpec.                     *)
THEOREM DatabaseInvariant == DatabaseSpec => []DatabaseInv
<1>1. NoMigration \in [step : {"none", "dumped", "opened", "verified", "aside"},
                       dump : Files, key : DatabaseKeys \cup {Absent}]
      /\ NoMigration.step = "none"
  BY DEF NoMigration, File, Files
<1>2. NoConnection \in [held : DatabaseKeys \cup {Absent}, open : BOOLEAN,
                        key : DatabaseKeys \cup {Absent}]
      /\ ~NoConnection.open
  BY DEF NoConnection
<1>3. DatabaseInit => DatabaseInv
  BY <1>1, <1>2
  DEF DatabaseInit, DatabaseInv, DatabaseTyped, OneUser, Copied, RowsKept
<1>4. DatabaseInv /\ [DatabaseNext]_databaseVars => DatabaseInv'
  <2> SUFFICES ASSUME DatabaseInv, [DatabaseNext]_databaseVars PROVE DatabaseInv'
    OBVIOUS
  <2>1. CASE close
    BY <2>1 DEF close, DatabaseInv, DatabaseTyped, OneUser, Copied, RowsKept, Stored
  <2>2. CASE RestartDatabase
    BY <1>1, <1>2, <2>2
    DEF RestartDatabase, DatabaseInv, DatabaseTyped, OneUser, Copied, RowsKept, Stored
  <2>3. CASE UNCHANGED databaseVars
    BY <2>3 DEF databaseVars, DatabaseInv, DatabaseTyped, OneUser, Copied, RowsKept, Stored
  <2> QED
    BY <2>1, <2>2, <2>3, ConnectingKeeps, StoringKeeps, MigratingKeeps DEF DatabaseNext
<1> QED
  BY <1>3, <1>4, PTL DEF DatabaseSpec

(* Whatever libraries come and go, and wherever attempts to encrypt the    *)
(* database end (crypto_storage.py, migrate_plaintext_to_encrypted), every *)
(* row that was stored is in the database or in the file about to become   *)
(* it, unless an attempt ended between its two renamings.                  *)
THEOREM RowsAreKept == DatabaseSpec => []RowsKept
BY DatabaseInvariant, PTL DEF DatabaseInv

-----------------------------------------------------------------------------
(* What users keep                                                         *)

Step(lines, kept, f, i) ==
  IF i = 0 THEN <<>>
  ELSE IF lines[i] \in kept THEN Append(f[i - 1], lines[i]) ELSE f[i - 1]

Filters(lines, kept, f, n) == f = [i \in 0 .. n |-> Step(lines, kept, f, i)]

LEMMA OnlyRecurs ==
  ASSUME NEW lines, Len(lines) \in Nat, NEW kept
  PROVE  \E f : Filters(lines, kept, f, Len(lines)) /\ Only(lines, kept) = f[Len(lines)]
<1> DEFINE has(n) == \E f : Filters(lines, kept, f, n)
           bad == {n \in Nat : ~ has(n)}
<1>1. bad = {}
  <2> SUFFICES ASSUME bad # {} PROVE FALSE
    OBVIOUS
  <2>1. bad \in SUBSET Nat
    OBVIOUS
  <2>2. PICK n \in bad : \A m \in bad : n <= m
    <3> HIDE DEF bad
    <3> QED
      BY <2>1, LeastExists
  <2>3. n \in Nat /\ ~ has(n)
    OBVIOUS
  <2>4. CASE n = 0
    <3> DEFINE g == [i \in 0 .. 0 |-> <<>>]
    <3>1. g = [i \in 0 .. 0 |-> Step(lines, kept, g, i)]
      BY DEF Step
    <3> QED
      BY <2>3, <2>4, <3>1 DEF Filters
  <2>5. CASE n # 0
    <3>1. n - 1 \in Nat /\ n - 1 \notin bad
      BY <2>2, <2>3, <2>5
    <3>2. PICK f : Filters(lines, kept, f, n - 1)
      BY <3>1
    <3> DEFINE g == [i \in 0 .. n |-> Step(lines, kept, f, i)]
    <3>3. ASSUME NEW i \in 0 .. n
          PROVE  Step(lines, kept, f, i) = Step(lines, kept, g, i)
      <4>1. CASE i = 0
        BY <4>1 DEF Step
      <4>2. CASE i # 0
        <5>1. i - 1 \in 0 .. (n - 1) /\ i - 1 \in 0 .. n
          BY <2>3, <4>2
        <5>2. f[i - 1] = Step(lines, kept, f, i - 1)
          BY <3>2, <5>1 DEF Filters
        <5>3. g[i - 1] = f[i - 1]
          BY <5>1, <5>2
        <5> HIDE DEF g
        <5> QED
          BY <4>2, <5>3 DEF Step
      <4> QED
        BY <4>1, <4>2
    <3>4. g = [i \in 0 .. n |-> Step(lines, kept, g, i)]
      <4> DEFINE h == [i \in 0 .. n |-> Step(lines, kept, g, i)]
      <4>1. \A i \in 0 .. n : g[i] = h[i]
        BY <3>3
      <4> QED
        BY <4>1
    <3> QED
      BY <2>3, <3>4 DEF Filters
  <2> QED
    BY <2>4, <2>5
<1>2. has(Len(lines))
  BY <1>1
<1> DEFINE F == CHOOSE f : f = [i \in 0 .. Len(lines) |->
                                  IF i = 0 THEN <<>>
                                  ELSE IF lines[i] \in kept THEN Append(f[i - 1], lines[i])
                                  ELSE f[i - 1]]
<1>3. F = [i \in 0 .. Len(lines) |->
             IF i = 0 THEN <<>>
             ELSE IF lines[i] \in kept THEN Append(F[i - 1], lines[i]) ELSE F[i - 1]]
  BY <1>2 DEF Filters, Step
<1>4. Only(lines, kept) = F[Len(lines)]
  BY DEF Only
<1> HIDE DEF F
<1>5. Filters(lines, kept, F, Len(lines))
  BY <1>3 DEF Filters, Step
<1> QED
  BY <1>4, <1>5

(* A line of T that occurs, occurs once.                                   *)
OnceIn(lines, T) ==
  \A i, j \in DOMAIN lines : lines[i] = lines[j] /\ lines[i] \in T => i = j

LEMMA OnlyKeeps ==
  ASSUME NEW S, NEW lines \in Seq(S), NEW kept
  PROVE  /\ Only(lines, kept) \in Seq(S \cap kept)
         /\ ToSet(Only(lines, kept)) = ToSet(lines) \cap kept
         /\ \A T : OnceIn(lines, T) => OnceIn(Only(lines, kept), T)
<1>1. Len(lines) \in Nat /\ DOMAIN lines = 1 .. Len(lines)
      /\ \A i \in 1 .. Len(lines) : lines[i] \in S
  OBVIOUS
<1>2. PICK f : Filters(lines, kept, f, Len(lines)) /\ Only(lines, kept) = f[Len(lines)]
  BY <1>1, OnlyRecurs
<1> DEFINE sofar(n) == {lines[i] : i \in 1 .. n}
           good(n) == /\ f[n] \in Seq(S \cap kept)
                      /\ ToSet(f[n]) = sofar(n) \cap kept
                      /\ \A T : OnceIn(lines, T) => OnceIn(f[n], T)
           bad == {n \in 0 .. Len(lines) : ~ good(n)}
<1>3. good(0)
  <2>1. f[0] = <<>>
    BY <1>1, <1>2 DEF Filters, Step
  <2>2. sofar(0) = {} /\ ToSet(<<>>) = {} /\ <<>> \in Seq(S \cap kept) /\ DOMAIN <<>> = {}
    BY DEF ToSet
  <2> QED
    BY <2>1, <2>2 DEF OnceIn
<1>4. ASSUME NEW n \in 1 .. Len(lines), good(n - 1)
      PROVE  good(n)
  <2> DEFINE e == f[n - 1]
             x == lines[n]
  <2>1. f[n] = IF x \in kept THEN Append(e, x) ELSE e
    <3>1. n \in 0 .. Len(lines) /\ n # 0
      BY <1>1
    <3>2. f = [i \in 0 .. Len(lines) |-> Step(lines, kept, f, i)]
      BY <1>2 DEF Filters
    <3>3. f[n] = Step(lines, kept, f, n)
      BY <3>1, <3>2
    <3> QED
      BY <3>1, <3>3 DEF Step
  <2>2. sofar(n) = sofar(n - 1) \cup {x} /\ x \in S
    BY <1>1
  <2>3. /\ e \in Seq(S \cap kept) /\ ToSet(e) = sofar(n - 1) \cap kept
        /\ \A T : OnceIn(lines, T) => OnceIn(e, T)
    BY <1>4
  <2>4. CASE x \notin kept
    BY <2>1, <2>2, <2>3, <2>4
  <2>5. CASE x \in kept
    <3> DEFINE a == Append(e, x)
    <3>1. x \in S \cap kept
      BY <2>2, <2>5
    <3> HIDE DEF e, x
    <3>2. a \in Seq(S \cap kept)
      BY <2>3, <3>1
    <3>3. /\ Len(a) = Len(e) + 1 /\ Len(e) \in Nat
          /\ DOMAIN a = 1 .. Len(e) + 1 /\ DOMAIN e = 1 .. Len(e)
          /\ a[Len(e) + 1] = x /\ \A i \in 1 .. Len(e) : a[i] = e[i]
      BY <2>3, <3>1
    <3> HIDE DEF a
    <3>4. ToSet(a) = ToSet(e) \cup {x}
      BY <3>3 DEF ToSet
    <3>5. ToSet(a) = sofar(n) \cap kept
      BY <2>2, <2>3, <3>1, <3>4
    <3>6. ASSUME NEW T, OnceIn(lines, T)
          PROVE  OnceIn(a, T)
      <4>1. OnceIn(e, T)
        BY <2>3, <3>6
      <4>2. x \in T => \A i \in DOMAIN e : e[i] # x
        <5> SUFFICES ASSUME x \in T, NEW i \in DOMAIN e, e[i] = x
                     PROVE  FALSE
          OBVIOUS
        <5>1. x \in sofar(n - 1)
          BY <2>3 DEF ToSet
        <5>2. PICK j \in 1 .. n - 1 : lines[j] = x
          BY <5>1
        <5>3. j \in DOMAIN lines /\ n \in DOMAIN lines /\ j # n /\ lines[n] = x
          BY <1>1, <5>2 DEF x
        <5> QED
          BY <3>6, <5>2, <5>3 DEF OnceIn
      <4>3. \A i \in DOMAIN a : i \in DOMAIN e \/ i = Len(e) + 1
        BY <3>3
      <4> QED
        BY <3>3, <4>1, <4>2, <4>3 DEF OnceIn
    <3>7. f[n] = a
      BY <2>1, <2>5 DEF a
    <3> QED
      BY <3>2, <3>5, <3>6, <3>7
  <2> QED
    BY <2>4, <2>5
<1>5. bad = {}
  <2> SUFFICES ASSUME bad # {} PROVE FALSE
    OBVIOUS
  <2>1. bad \in SUBSET Nat /\ bad \subseteq 0 .. Len(lines)
    OBVIOUS
  <2>2. PICK n \in bad : \A m \in bad : n <= m
    <3> HIDE DEF bad
    <3> QED
      BY <2>1, LeastExists
  <2>3. n \in 0 .. Len(lines) /\ ~ good(n) /\ n # 0
    BY <1>3
  <2>4. n - 1 \in 0 .. Len(lines) /\ n - 1 \notin bad /\ n \in 1 .. Len(lines)
    <3>1. ~(n <= n - 1) /\ n - 1 \in 0 .. Len(lines) /\ n \in 1 .. Len(lines)
      BY <1>1, <2>3
    <3> HIDE DEF bad
    <3> QED
      BY <2>2, <3>1
  <2>5. good(n - 1)
    BY <2>4
  <2> HIDE DEF good
  <2> QED
    BY <1>4, <2>3, <2>4, <2>5
<1>6. good(Len(lines)) /\ sofar(Len(lines)) = ToSet(lines)
  <2>1. Len(lines) \in 0 .. Len(lines)
    BY <1>1
  <2>2. good(Len(lines))
    <3> HIDE DEF good
    <3> QED
      BY <1>5, <2>1
  <2> QED
    BY <1>1, <2>2 DEF ToSet
<1> QED
  BY <1>2, <1>6

LEMMA StoresAre ==
  /\ Stores = {"bookmarks", "episodic", "semantic", "procedural"}
  /\ \A i \in 1 .. 4 : StoreOrder[i] \in Stores
  /\ Len(StoreOrder) = 4 /\ Layers \subseteq Stores
BY DEF Stores, StoreOrder, ToSet, Layers

LEMMA ReverseSet ==
  ASSUME NEW S, NEW lines \in Seq(S)
  PROVE  ToSet(Reverse(lines)) = ToSet(lines)
<1> DEFINE n == Len(lines)
           r == Reverse(lines)
<1>1. n \in Nat /\ DOMAIN lines = 1 .. n
  OBVIOUS
<1>2. r = [i \in 1 .. n |-> lines[(n - i) + 1]]
  BY DEF Reverse
<1>3. DOMAIN r = 1 .. n /\ \A i \in 1 .. n : r[i] = lines[(n - i) + 1]
  BY <1>2
<1> HIDE DEF n, r
<1>4. \A i \in 1 .. n : (n - i) + 1 \in 1 .. n /\ r[(n - i) + 1] = lines[i]
  BY <1>1, <1>3
<1>5. ToSet(r) = ToSet(lines)
  BY <1>1, <1>3, <1>4 DEF ToSet
<1> QED
  BY <1>5 DEF r

(* A file is taken over before it is renamed.                              *)
TakenOver ==
  boot.at = "rename" =>
    ToSet(LinesOf(StoreOrder[boot.store])) \cap Sound \subseteq ToSet(table[StoreOrder[boot.store]])

KeptOnce ==
  \A s \in Stores : OnceIn(table[s], Sound) /\ OnceIn(LinesOf(s), Sound)

ItemsInv ==
  /\ backend \in {"sqlite", "jsonl"}
  /\ boot \in {Down, Running} \cup [at : {"import", "rename"}, store : 1 .. 4]
  /\ table \in [Stores -> Seq(Sound)]
  /\ file \in [Stores -> Seq(Lines) \cup {None}]
  /\ backup \in [Stores -> Seq(Lines) \cup {None}]
  /\ wanted \subseteq Stores \X Sound
  /\ ItemsKept /\ TakenOver /\ KeptOnce

LEMMA InitItems ==
  ASSUME ItemsInit
  PROVE  ItemsInv
<1>1. /\ table \in [Stores -> Seq(Sound)] /\ boot = Down /\ boot.at # "rename"
      /\ backup \in [Stores -> Seq(Lines) \cup {None}]
  BY DEF ItemsInit, Down
<1>2. file \in [Stores -> Seq(Lines) \cup {None}] /\ file = LegacyFiles
  BY ItemsAssumption DEF ItemsInit, ItemsAssumption
<1>3. wanted \subseteq Stores \X Sound
  <2>1. wanted \subseteq Stores \X Lines /\ \A item \in wanted : item[2] \in Sound
    BY DEF ItemsInit
  <2> QED
    BY <2>1
<1>4. ItemsKept
  BY <1>2 DEF ItemsKept, ItemsInit, LinesOf
<1>5. KeptOnce
  <2>1. \A s \in Stores : table[s] = <<>>
    BY DEF ItemsInit
  <2>2. OnceIn(<<>>, Sound)
    BY DEF OnceIn
  <2>3. ASSUME NEW s \in Stores, file[s] # None
        PROVE  OnceIn(LinesOf(s), Sound)
    BY <1>2, <2>3, ItemsAssumption DEF ItemsAssumption, OnceIn, LinesOf
  <2> QED
    BY <2>1, <2>2, <2>3 DEF KeptOnce, LinesOf
<1> QED
  BY <1>1, <1>2, <1>3, <1>4, <1>5 DEF ItemsInv, TakenOver, ItemsInit

(* What is where, and what a store does to it.                             *)
LEMMA WhereItIs ==
  ASSUME ItemsInv, NEW s \in Stores
  PROVE  /\ table[s] \in Seq(Sound) /\ LinesOf(s) \in Seq(Lines)
         /\ file[s] # None => LinesOf(s) = file[s]
         /\ \A u \in Keepers, k \in Keys0 :
              /\ Entry(u, k) \in Sound /\ Sound \subseteq Lines
              /\ Exists(u, s, k) <=>
                   Entry(u, k) \in ToSet(IF backend = "sqlite" THEN table[s] ELSE LinesOf(s))
<1>1. table[s] \in Seq(Sound) /\ LinesOf(s) \in Seq(Lines)
      /\ (file[s] # None => LinesOf(s) = file[s])
  BY DEF ItemsInv, LinesOf
<1>2. Sound \subseteq Lines
  BY DEF Sound, Parsable
<1>3. ASSUME NEW u \in Keepers, NEW k \in Keys0
      PROVE  /\ Entry(u, k) \in Sound
             /\ Exists(u, s, k) <=>
                  Entry(u, k) \in ToSet(IF backend = "sqlite" THEN table[s] ELSE LinesOf(s))
  <2> DEFINE x == IF backend = "sqlite" THEN table[s] ELSE LinesOf(s)
             mine == {Entry(u, j) : j \in Keys0}
  <2>1. x \in Seq(Lines)
    BY <1>1, <1>2
  <2>2. Entry(u, k) \in mine
    OBVIOUS
  <2>3. list_entries(u, s) = Reverse(Only(x, mine))
    BY DEF list_entries
  <2>4. Entry(u, k) \in Sound
    BY ItemsAssumption DEF ItemsAssumption, Entry, Sound, Parsable, Lines
  <2> HIDE DEF x, mine
  <2>5. Only(x, mine) \in Seq(Lines \cap mine) /\ ToSet(Only(x, mine)) = ToSet(x) \cap mine
    BY <2>1, OnlyKeeps
  <2>6. ToSet(list_entries(u, s)) = ToSet(x) \cap mine
    BY <2>3, <2>5, ReverseSet
  <2> QED
    BY <2>2, <2>4, <2>6 DEF Exists, x
<1> QED
  BY <1>1, <1>2, <1>3

LEMMA AppendedSet ==
  ASSUME NEW S, NEW lines \in Seq(S), NEW x \in S
  PROVE  /\ Append(lines, x) \in Seq(S)
         /\ ToSet(Append(lines, x)) = ToSet(lines) \cup {x}
         /\ \A T : OnceIn(lines, T) /\ x \notin ToSet(lines) => OnceIn(Append(lines, x), T)
<1> DEFINE a == Append(lines, x)
<1>1. /\ a \in Seq(S) /\ Len(a) = Len(lines) + 1 /\ Len(lines) \in Nat
      /\ DOMAIN a = 1 .. Len(lines) + 1 /\ DOMAIN lines = 1 .. Len(lines)
      /\ a[Len(lines) + 1] = x /\ \A i \in 1 .. Len(lines) : a[i] = lines[i]
  OBVIOUS
<1> HIDE DEF a
<1>2. ToSet(a) = ToSet(lines) \cup {x}
  BY <1>1 DEF ToSet
<1>3. \A i \in DOMAIN a : i \in DOMAIN lines \/ i = Len(lines) + 1
  BY <1>1
<1>4. ASSUME NEW T, OnceIn(lines, T), x \notin ToSet(lines)
      PROVE  OnceIn(a, T)
  BY <1>1, <1>3, <1>4 DEF OnceIn, ToSet
<1> QED
  BY <1>1, <1>2, <1>4 DEF a

LEMMA AppendKeeps ==
  ASSUME ItemsInv, boot = Running, NEW u \in Keepers, NEW s \in Stores, NEW k \in Keys0,
         ~ Exists(u, s, k), append_entry(u, s, k)
  PROVE  ItemsInv'
<1> DEFINE e == Entry(u, k)
           more == Append(IF backend = "sqlite" THEN table[s] ELSE LinesOf(s), e)
<1>1. /\ e \in Sound /\ e \in Lines /\ Sound \subseteq Lines
      /\ e \notin ToSet(IF backend = "sqlite" THEN table[s] ELSE LinesOf(s))
  BY WhereItIs
<1>2. /\ wanted' = wanted \cup {<<s, e>>} /\ boot' = boot /\ boot'.at # "rename"
      /\ UNCHANGED <<backend, backup>>
  BY DEF append_entry, Running
<1>3. wanted' \subseteq Stores \X Sound
  BY <1>1, <1>2 DEF ItemsInv
<1> HIDE DEF e
<1>4. CASE backend = "sqlite"
  <2>1. table' = [table EXCEPT ![s] = Append(table[s], e)] /\ file' = file
    BY <1>4 DEF append_entry, e
  <2> DEFINE t == table[s]
             a == Append(t, e)
  <2>2. a \in Seq(Sound) /\ ToSet(a) = ToSet(t) \cup {e} /\ OnceIn(a, Sound)
    BY <1>1, <1>4, WhereItIs, AppendedSet DEF ItemsInv, KeptOnce
  <2>3. table' = [table EXCEPT ![s] = a]
    BY <2>1
  <2>7. ToSet(t) = ToSet(table[s])
    OBVIOUS
  <2> HIDE DEF a, t
  <2>4. table' \in [Stores -> Seq(Sound)] /\ table'[s] = a
        /\ \A r \in Stores \ {s} : table'[r] = table[r]
    BY <2>2, <2>3 DEF ItemsInv
  <2>5. ItemsKept'
    <3> SUFFICES ASSUME NEW item \in wanted'
                 PROVE  item[2] \in ToSet(table'[item[1]]) \cup ToSet(LinesOf(item[1])')
      BY DEF ItemsKept
    <3>1. item[1] \in Stores /\ (item \in wanted \/ (item[1] = s /\ item[2] = e))
      BY <1>2, <1>3
    <3>2. LinesOf(item[1])' = LinesOf(item[1])
      BY <2>1 DEF LinesOf
    <3>3. item \in wanted => item[2] \in ToSet(table[item[1]]) \cup ToSet(LinesOf(item[1]))
      BY DEF ItemsInv, ItemsKept
    <3> QED
      BY <2>2, <2>4, <2>7, <3>1, <3>2, <3>3
  <2>6. KeptOnce'
    BY <2>1, <2>2, <2>4 DEF ItemsInv, KeptOnce, LinesOf
  <2> QED
    BY <1>2, <1>3, <2>1, <2>4, <2>5, <2>6 DEF ItemsInv, TakenOver
<1>5. CASE backend # "sqlite"
  <2> DEFINE l == LinesOf(s)
             a == Append(l, e)
  <2>1. file' = [file EXCEPT ![s] = a] /\ table' = table
    BY <1>5 DEF append_entry, e
  <2>2. a \in Seq(Lines) /\ ToSet(a) = ToSet(l) \cup {e} /\ OnceIn(a, Sound)
    BY <1>1, <1>5, WhereItIs, AppendedSet DEF ItemsInv, KeptOnce
  <2>3. a # None
    BY <2>2, ItemsAssumption DEF ItemsAssumption
  <2> HIDE DEF a
  <2>4. /\ file' \in [Stores -> Seq(Lines) \cup {None}] /\ LinesOf(s)' = a
        /\ \A r \in Stores \ {s} : LinesOf(r)' = LinesOf(r)
    BY <2>1, <2>2, <2>3 DEF ItemsInv, LinesOf
  <2>5. ItemsKept'
    <3> SUFFICES ASSUME NEW item \in wanted'
                 PROVE  item[2] \in ToSet(table'[item[1]]) \cup ToSet(LinesOf(item[1])')
      BY DEF ItemsKept
    <3>1. item[1] \in Stores /\ (item \in wanted \/ (item[1] = s /\ item[2] = e))
      BY <1>2, <1>3
    <3>2. item \in wanted => item[2] \in ToSet(table[item[1]]) \cup ToSet(LinesOf(item[1]))
      BY DEF ItemsInv, ItemsKept
    <3> QED
      BY <2>1, <2>2, <2>4, <3>1, <3>2
  <2>6. KeptOnce'
    BY <2>1, <2>2, <2>4 DEF ItemsInv, KeptOnce
  <2> QED
    BY <1>2, <1>3, <2>1, <2>4, <2>5, <2>6 DEF ItemsInv, TakenOver
<1> QED
  BY <1>4, <1>5

LEMMA DeleteKeeps ==
  ASSUME ItemsInv, boot = Running, NEW u \in Keepers, NEW s \in Stores, NEW k \in Keys0,
         delete_entry(u, s, k)
  PROVE  ItemsInv'
<1> DEFINE e == Entry(u, k)
           others == Lines \ {e}
<1>1. /\ e \in Sound /\ Sound \subseteq Lines
      /\ Exists(u, s, k) <=> e \in ToSet(IF backend = "sqlite" THEN table[s] ELSE LinesOf(s))
      /\ table[s] \in Seq(Sound) /\ LinesOf(s) \in Seq(Lines)
      /\ file[s] # None => LinesOf(s) = file[s]
  BY WhereItIs
<1>2. /\ wanted' = IF Exists(u, s, k) THEN wanted \ {<<s, e>>} ELSE wanted
      /\ boot' = boot /\ boot'.at # "rename" /\ UNCHANGED <<backend, backup>>
  BY DEF delete_entry, Running
<1>3. wanted' \subseteq Stores \X Sound /\ wanted' \subseteq wanted
  BY <1>2 DEF ItemsInv
<1>4. /\ backend = "sqlite" => /\ table' = [table EXCEPT ![s] = Only(table[s], others)]
                               /\ file' = file
      /\ backend # "sqlite" =>
           /\ file' = IF file[s] = None THEN file
                      ELSE [file EXCEPT ![s] = Only(file[s], others)]
           /\ table' = table
  BY DEF delete_entry
<1> HIDE DEF e
<1>5. CASE backend = "sqlite"
  <2> DEFINE t == table[s]
             a == Only(t, others)
  <2>1. a \in Seq(Sound \cap others) /\ ToSet(a) = ToSet(t) \cap others /\ OnceIn(a, Sound)
    BY <1>1, OnlyKeeps DEF ItemsInv, KeptOnce
  <2>2. a \in Seq(Sound) /\ ToSet(t) = ToSet(table[s]) /\ table' = [table EXCEPT ![s] = a]
    <3>1. table' = [table EXCEPT ![s] = a]
      BY <1>4, <1>5
    <3> HIDE DEF a, others
    <3>2. a \in Seq(Sound)
      BY <2>1
    <3> QED
      BY <3>1, <3>2
  <2> HIDE DEF a, t
  <2>3. table' \in [Stores -> Seq(Sound)] /\ table'[s] = a
        /\ \A r \in Stores \ {s} : table'[r] = table[r]
    BY <2>2 DEF ItemsInv
  <2>4. ItemsKept'
    <3> SUFFICES ASSUME NEW item \in wanted'
                 PROVE  item[2] \in ToSet(table'[item[1]]) \cup ToSet(LinesOf(item[1])')
      BY DEF ItemsKept
    <3>1. /\ item[1] \in Stores /\ item[2] \in Lines /\ item = <<item[1], item[2]>>
          /\ item[2] \in ToSet(table[item[1]]) \cup ToSet(LinesOf(item[1]))
          /\ LinesOf(item[1])' = LinesOf(item[1])
      BY <1>1, <1>3, <1>4, <1>5 DEF ItemsInv, ItemsKept, LinesOf
    <3>2. CASE item[1] = s /\ item[2] = e
      <4>1. ~ Exists(u, s, k)
        BY <1>2, <3>1, <3>2
      <4> QED
        BY <1>1, <1>5, <3>1, <3>2, <4>1
    <3>3. CASE item[1] # s
      BY <2>3, <3>1, <3>3
    <3>4. CASE item[1] = s /\ item[2] # e
      BY <2>1, <2>2, <2>3, <3>1, <3>4
    <3> QED
      BY <3>2, <3>3, <3>4
  <2>5. KeptOnce'
    BY <1>4, <1>5, <2>1, <2>3 DEF ItemsInv, KeptOnce, LinesOf
  <2> QED
    BY <1>2, <1>3, <1>4, <1>5, <2>3, <2>4, <2>5 DEF ItemsInv, TakenOver
<1>6. CASE backend # "sqlite" /\ file[s] = None
  <2>1. file' = file /\ table' = table /\ \A r \in Stores : LinesOf(r)' = LinesOf(r)
    BY <1>4, <1>6 DEF LinesOf
  <2>2. ItemsKept' /\ KeptOnce'
    BY <1>3, <2>1 DEF ItemsInv, ItemsKept, KeptOnce
  <2> QED
    BY <1>2, <1>3, <2>1, <2>2 DEF ItemsInv, TakenOver
<1>7. CASE backend # "sqlite" /\ file[s] # None
  <2> DEFINE l == LinesOf(s)
             a == Only(l, others)
  <2>1. a \in Seq(Lines \cap others) /\ ToSet(a) = ToSet(l) \cap others /\ OnceIn(a, Sound)
    BY <1>1, OnlyKeeps DEF ItemsInv, KeptOnce
  <2>2. a \in Seq(Lines) /\ file' = [file EXCEPT ![s] = a] /\ table' = table
    <3>1. file' = [file EXCEPT ![s] = a] /\ table' = table
      BY <1>1, <1>4, <1>7
    <3> HIDE DEF a, others
    <3>2. a \in Seq(Lines)
      BY <2>1
    <3> QED
      BY <3>1, <3>2
  <2>3. a # None
    BY <2>2, ItemsAssumption DEF ItemsAssumption
  <2> HIDE DEF a
  <2>4. /\ file' \in [Stores -> Seq(Lines) \cup {None}] /\ LinesOf(s)' = a
        /\ \A r \in Stores \ {s} : LinesOf(r)' = LinesOf(r)
    BY <2>2, <2>3 DEF ItemsInv, LinesOf
  <2>5. ItemsKept'
    <3> SUFFICES ASSUME NEW item \in wanted'
                 PROVE  item[2] \in ToSet(table'[item[1]]) \cup ToSet(LinesOf(item[1])')
      BY DEF ItemsKept
    <3>1. /\ item[1] \in Stores /\ item[2] \in Lines /\ item = <<item[1], item[2]>>
          /\ item[2] \in ToSet(table[item[1]]) \cup ToSet(LinesOf(item[1]))
      BY <1>1, <1>3 DEF ItemsInv, ItemsKept
    <3>2. CASE item[1] = s /\ item[2] = e
      <4>1. ~ Exists(u, s, k)
        BY <1>2, <3>1, <3>2
      <4> QED
        BY <1>1, <1>7, <2>2, <3>1, <3>2, <4>1
    <3>3. CASE item[1] # s
      BY <2>2, <2>4, <3>1, <3>3
    <3>4. CASE item[1] = s /\ item[2] # e
      BY <2>1, <2>2, <2>4, <3>1, <3>4
    <3> QED
      BY <3>2, <3>3, <3>4
  <2>6. KeptOnce'
    BY <2>1, <2>2, <2>4 DEF ItemsInv, KeptOnce
  <2> QED
    BY <1>2, <1>3, <2>2, <2>4, <2>5, <2>6 DEF ItemsInv, TakenOver
<1> QED
  BY <1>5, <1>6, <1>7

LEMMA ImportingIs ==
  ASSUME NEW i \in 1 .. 4
  PROVE  /\ Importing(i + 1) \in {Down, Running} \cup [at : {"import", "rename"}, store : 1 .. 4]
         /\ Importing(i + 1).at # "rename"
         /\ Importing(1) \in [at : {"import", "rename"}, store : 1 .. 4]
         /\ Importing(1).at # "rename"
<1>1. i + 1 > 4 \/ i + 1 \in 1 .. 4
  OBVIOUS
<1> QED
  BY <1>1, StoresAre DEF Importing, Running

(* A start, at any of its steps, and a stop.                               *)
LEMMA BootKeeps ==
  ASSUME ItemsInv,
         (\E mode \in {"sqlite", "jsonl"} : StartBot(mode)) \/ ImportStore \/ RenameStore \/ StopBot
  PROVE  ItemsInv'
<1> DEFINE boots == {Down, Running} \cup [at : {"import", "rename"}, store : 1 .. 4]
<1>1. ASSUME NEW mode \in {"sqlite", "jsonl"}, StartBot(mode)
      PROVE  ItemsInv'
  <2>1. /\ UNCHANGED <<table, backup, wanted>> /\ backend' = mode
        /\ boot' = IF mode = "sqlite" THEN Importing(1) ELSE Running
        /\ file' = IF file["bookmarks"] = None THEN file
                   ELSE [file EXCEPT !["bookmarks"] = Only(file["bookmarks"], Parsable)]
    BY <1>1 DEF StartBot
  <2>2. boot' \in boots /\ boot'.at # "rename" /\ backend' \in {"sqlite", "jsonl"}
    BY <2>1, ImportingIs DEF Running
  <2>3. CASE file["bookmarks"] = None
    <3>1. file' = file /\ \A s \in Stores : LinesOf(s)' = LinesOf(s)
      BY <2>1, <2>3 DEF LinesOf
    <3>2. ItemsKept' /\ KeptOnce'
      BY <2>1, <3>1 DEF ItemsInv, ItemsKept, KeptOnce
    <3> QED
      BY <2>1, <2>2, <3>1, <3>2 DEF ItemsInv, TakenOver
  <2>4. CASE file["bookmarks"] # None
    <3> DEFINE s == "bookmarks"
               l == LinesOf(s)
               a == Only(l, Parsable)
    <3>1. s \in Stores /\ l \in Seq(Lines) /\ l = file[s] /\ Sound \subseteq Parsable
      BY <2>4, StoresAre, WhereItIs DEF Sound
    <3>2. a \in Seq(Lines \cap Parsable) /\ ToSet(a) = ToSet(l) \cap Parsable /\ OnceIn(a, Sound)
      BY <3>1, OnlyKeeps DEF ItemsInv, KeptOnce
    <3>3. a \in Seq(Lines) /\ file' = [file EXCEPT ![s] = a] /\ table' = table
      <4>1. file' = [file EXCEPT ![s] = a] /\ table' = table
        BY <2>1, <2>4, <3>1
      <4> HIDE DEF a
      <4>2. a \in Seq(Lines)
        BY <3>2
      <4> QED
        BY <4>1, <4>2
    <3>4. a # None
      BY <3>3, ItemsAssumption DEF ItemsAssumption
    <3> HIDE DEF a
    <3>5. /\ file' \in [Stores -> Seq(Lines) \cup {None}] /\ LinesOf(s)' = a
          /\ \A r \in Stores \ {s} : LinesOf(r)' = LinesOf(r)
      BY <3>1, <3>3, <3>4 DEF ItemsInv, LinesOf
    <3>6. ItemsKept'
      <4> SUFFICES ASSUME NEW item \in wanted
                   PROVE  item[2] \in ToSet(table[item[1]]) \cup ToSet(LinesOf(item[1])')
        BY <2>1 DEF ItemsKept
      <4>1. /\ item[1] \in Stores /\ item[2] \in Sound
            /\ item[2] \in ToSet(table[item[1]]) \cup ToSet(LinesOf(item[1]))
        BY DEF ItemsInv, ItemsKept
      <4> QED
        BY <3>1, <3>2, <3>5, <4>1
    <3>7. KeptOnce'
      BY <2>1, <3>2, <3>5 DEF ItemsInv, KeptOnce
    <3> QED
      BY <2>1, <2>2, <3>5, <3>6, <3>7 DEF ItemsInv, TakenOver
  <2> QED
    BY <2>3, <2>4
<1>2. ASSUME boot.at \in {"import", "rename"}
      PROVE  /\ boot \in [at : {"import", "rename"}, store : 1 .. 4]
             /\ StoreOrder[boot.store] \in Stores
             /\ Importing(boot.store + 1) \in boots /\ Importing(boot.store + 1).at # "rename"
  <2>1. boot \in [at : {"import", "rename"}, store : 1 .. 4]
    BY <1>2 DEF ItemsInv, Down, Running
  <2> QED
    BY <2>1, StoresAre, ImportingIs
<1>3. CASE ImportStore
  <2> DEFINE s == StoreOrder[boot.store]
             l == LinesOf(s)
             rows == Only(l, Sound)
  <2>1. /\ boot.at = "import" /\ UNCHANGED <<backend, file, backup, wanted>>
        /\ \/ /\ table[s] = <<>> /\ table' = [table EXCEPT ![s] = rows]
              /\ boot' = [boot EXCEPT !.at = "rename"]
           \/ boot' = Importing(boot.store + 1) /\ table' = table
    BY <1>3 DEF ImportStore, MustImport
  <2>2. s \in Stores /\ l \in Seq(Lines)
    BY <1>2, <2>1, WhereItIs
  <2>3. \A r \in Stores : LinesOf(r)' = LinesOf(r)
    BY <2>1 DEF LinesOf
  <2>4. CASE boot' = Importing(boot.store + 1) /\ table' = table
    <3>1. ItemsKept' /\ KeptOnce'
      BY <2>1, <2>3, <2>4 DEF ItemsInv, ItemsKept, KeptOnce
    <3> QED
      BY <1>2, <2>1, <2>4, <3>1 DEF ItemsInv, TakenOver
  <2>5. CASE /\ table[s] = <<>> /\ table' = [table EXCEPT ![s] = rows]
             /\ boot' = [boot EXCEPT !.at = "rename"]
    <3>1. /\ rows \in Seq(Lines \cap Sound) /\ ToSet(rows) = ToSet(l) \cap Sound
          /\ OnceIn(rows, Sound)
      BY <2>2, OnlyKeeps DEF ItemsInv, KeptOnce
    <3>2. rows \in Seq(Sound) /\ table' = [table EXCEPT ![s] = rows]
      <4>1. table' = [table EXCEPT ![s] = rows]
        BY <2>5
      <4> HIDE DEF rows
      <4>2. rows \in Seq(Sound)
        BY <3>1
      <4> QED
        BY <4>1, <4>2
    <3>3. boot' \in boots /\ boot'.at = "rename" /\ boot'.store = boot.store
      BY <1>2, <2>1, <2>5
    <3> HIDE DEF rows
    <3>4. table' \in [Stores -> Seq(Sound)] /\ table'[s] = rows
          /\ \A r \in Stores \ {s} : table'[r] = table[r]
      BY <2>2, <3>2 DEF ItemsInv
    <3>5. ItemsKept'
      <4> SUFFICES ASSUME NEW item \in wanted
                   PROVE  item[2] \in ToSet(table'[item[1]]) \cup ToSet(LinesOf(item[1])')
        BY <2>1 DEF ItemsKept
      <4>1. /\ item[1] \in Stores /\ LinesOf(item[1])' = LinesOf(item[1])
            /\ item[2] \in ToSet(table[item[1]]) \cup ToSet(LinesOf(item[1]))
        BY <2>3 DEF ItemsInv, ItemsKept
      <4>2. CASE item[1] = s
        <5>1. ToSet(<<>>) = {}
          BY DEF ToSet
        <5> QED
          BY <2>5, <4>1, <4>2, <5>1
      <4>3. CASE item[1] # s
        BY <3>4, <4>1, <4>3
      <4> QED
        BY <4>2, <4>3
    <3>6. KeptOnce'
      BY <2>2, <2>3, <3>1, <3>4 DEF ItemsInv, KeptOnce
    <3>7. TakenOver'
      BY <2>2, <2>3, <3>1, <3>3, <3>4 DEF TakenOver
    <3> QED
      BY <2>1, <3>3, <3>4, <3>5, <3>6, <3>7 DEF ItemsInv
  <2> QED
    BY <2>1, <2>4, <2>5
<1>4. CASE RenameStore
  <2>1. PICK s : s = StoreOrder[boot.store]
    OBVIOUS
  <2>2. /\ boot.at = "rename" /\ UNCHANGED <<backend, table, wanted>>
        /\ backup' = [backup EXCEPT ![s] = file[s]] /\ file' = [file EXCEPT ![s] = None]
        /\ boot' = Importing(boot.store + 1)
    BY <1>4, <2>1 DEF RenameStore
  <2>3. s \in Stores /\ ToSet(LinesOf(s)) \cap Sound \subseteq ToSet(table[s])
    BY <1>2, <2>1, <2>2 DEF ItemsInv, TakenOver
  <2>4. /\ file' \in [Stores -> Seq(Lines) \cup {None}]
        /\ backup' \in [Stores -> Seq(Lines) \cup {None}]
        /\ LinesOf(s)' = <<>> /\ \A r \in Stores \ {s} : LinesOf(r)' = LinesOf(r)
    BY <2>2, <2>3 DEF ItemsInv, LinesOf
  <2>5. ItemsKept'
    <3> SUFFICES ASSUME NEW item \in wanted
                 PROVE  item[2] \in ToSet(table[item[1]]) \cup ToSet(LinesOf(item[1])')
      BY <2>2 DEF ItemsKept
    <3>1. /\ item[1] \in Stores /\ item[2] \in Sound
          /\ item[2] \in ToSet(table[item[1]]) \cup ToSet(LinesOf(item[1]))
      BY DEF ItemsInv, ItemsKept
    <3> QED
      BY <2>3, <2>4, <3>1
  <2>6. KeptOnce'
    <3>1. OnceIn(<<>>, Sound)
      BY DEF OnceIn
    <3> QED
      BY <2>2, <2>4, <3>1 DEF ItemsInv, KeptOnce
  <2> QED
    BY <1>2, <2>2, <2>4, <2>5, <2>6 DEF ItemsInv, TakenOver
<1>5. CASE StopBot
  <2>1. UNCHANGED <<backend, table, file, backup, wanted>> /\ boot' = Down /\ boot'.at # "rename"
        /\ \A s \in Stores : LinesOf(s)' = LinesOf(s)
    BY <1>5 DEF StopBot, Down, LinesOf
  <2>2. ItemsKept' /\ KeptOnce'
    BY <2>1 DEF ItemsInv, ItemsKept, KeptOnce
  <2> QED
    BY <2>1, <2>2 DEF ItemsInv, TakenOver
<1> QED
  BY <1>1, <1>3, <1>4, <1>5

LEMMA NewNote ==
  ASSUME ItemsInv, NEW u \in Keepers, NEW id \in NoteIds["episodic"],
         remember_episodic(u, id)
  PROVE  id \in Keys0 /\ "episodic" \in Stores /\ ~ Exists(u, "episodic", id)
<1>1. "episodic" \in Layers /\ "episodic" \in Stores
  BY StoresAre DEF Layers
<1>2. id \in Keys0
  BY <1>1 DEF Keys0
<1> DEFINE lines == IF backend = "sqlite" THEN table["episodic"] ELSE LinesOf("episodic")
<1>3. \A i \in DOMAIN lines : lines[i].key # id
  BY <1>1 DEF remember_episodic
<1>4. Entry(u, id).key = id
  BY DEF Entry
<1>5. Entry(u, id) \notin ToSet(lines)
  BY <1>3, <1>4 DEF ToSet
<1> QED
  BY <1>1, <1>2, <1>5, WhereItIs

LEMMA StepItems == ItemsInv /\ [ItemsNext]_itemVars => ItemsInv'
<1> SUFFICES ASSUME ItemsInv, [ItemsNext]_itemVars
             PROVE  ItemsInv'
  OBVIOUS
<1>1. ASSUME NEW u \in Keepers, NEW m \in BotMessages, handle_save_command(u, m)
      PROVE  ItemsInv'
  BY <1>1, StoresAre, AppendKeeps, DeleteKeeps
     DEF handle_save_command, save_or_toggle_bookmark, Keys0
<1>2. ASSUME NEW u \in Keepers, NEW m \in BotMessages, RemoveBookmark(u, m)
      PROVE  ItemsInv'
  BY <1>2, StoresAre, DeleteKeeps DEF RemoveBookmark, Keys0
<1>3. ASSUME NEW u \in Keepers, NEW id \in NoteIds["episodic"], handle_remember_command(u, id)
      PROVE  ItemsInv'
  BY <1>3, NewNote, AppendKeeps DEF handle_remember_command, remember_episodic
<1>4. ASSUME NEW u \in Keepers, NEW word \in DOMAIN NoteText, handle_forget_command(u, word)
      PROVE  ItemsInv'
  <2>1. forget(u, word)
    BY <1>4 DEF handle_forget_command
  <2>2. PICK l \in Layers : word \in NoteIds[l] /\ layer_from_id(word) = l
    BY <2>1 DEF forget, layer_from_id
  <2>3. word \in Keys0 /\ l \in Stores
    BY <2>2, StoresAre DEF Keys0
  <2> QED
    BY <2>1, <2>2, <2>3, DeleteKeeps DEF forget
<1>5. CASE UNCHANGED itemVars
  <2>1. UNCHANGED <<backend, boot, table, file, backup, wanted>>
        /\ \A s \in Stores : LinesOf(s)' = LinesOf(s)
    BY <1>5 DEF itemVars, LinesOf
  <2>2. ItemsKept' /\ KeptOnce'
    BY <2>1 DEF ItemsInv, ItemsKept, KeptOnce
  <2>3. TakenOver'
    BY <2>1 DEF ItemsInv, TakenOver, LinesOf
  <2> QED
    BY <2>1, <2>2, <2>3 DEF ItemsInv
<1> QED
  BY <1>1, <1>2, <1>3, <1>4, <1>5, BootKeeps DEF ItemsNext

(* The stores hold whole entries, each of them once.                       *)
THEOREM ItemsInvariant == ItemsSpec => []ItemsInv
<1>1. ItemsInit => ItemsInv
  BY InitItems
<1>2. ItemsInv /\ [ItemsNext]_itemVars => ItemsInv'
  BY StepItems
<1> QED
  BY <1>1, <1>2, PTL DEF ItemsSpec

(* Every variable of what users keep has its type.                         *)
THEOREM ItemsTypeCorrect == ItemsSpec => []ItemsTypeOK
<1>1. ASSUME ItemsInv
      PROVE  ItemsTypeOK
  <2>1. boot.at \in {"down", "running", "import", "rename"}
    BY <1>1 DEF ItemsInv, Down, Running
  <2>2. ASSUME NEW s \in Stores
        PROVE  /\ table[s] \in Seq(Sound) /\ IsInjective(table[s])
               /\ IsLines(file[s]) /\ IsLines(backup[s])
    <3>1. table[s] \in Seq(Sound) /\ OnceIn(table[s], Sound)
      BY <1>1 DEF ItemsInv, KeptOnce
    <3>2. \A i \in DOMAIN table[s] : table[s][i] \in Sound
      BY <3>1
    <3>3. IsInjective(table[s])
      BY <3>1, <3>2 DEF OnceIn, IsInjective
    <3>4. IsLines(file[s]) /\ IsLines(backup[s])
      BY <1>1 DEF ItemsInv, IsLines
    <3> QED
      BY <3>1, <3>3, <3>4
  <2>3. wanted \subseteq Stores \X Lines
    BY <1>1 DEF ItemsInv, Sound, Parsable
  <2> QED
    BY <1>1, <2>1, <2>2, <2>3 DEF ItemsInv, ItemsTypeOK
<1> QED
  BY <1>1, ItemsInvariant, PTL

(* What was stored is kept, whatever is migrated: the old files into       *)
(* SQLite and SQLite into the encrypted database, with crashes between the *)
(* steps of both.                                                          *)
THEOREM NothingIsLost == ItemsSpec /\ DatabaseSpec => []NothingLost
<1>1. ItemsInv => ItemsKept
  BY DEF ItemsInv
<1>2. ItemsKept /\ RowsKept => NothingLost
  BY DEF NothingLost
<1> QED
  BY <1>1, <1>2, ItemsInvariant, RowsAreKept, PTL

-----------------------------------------------------------------------------
(* What every variable holds                                               *)

(* The least number of a set, which Min chooses.                           *)
LEMMA MinIs ==
  ASSUME NEW S \in SUBSET Nat, S # {}
  PROVE  Min(S) \in S /\ \A m \in S : Min(S) <= m
<1>1. \E n \in S : \A m \in S : n <= m
  BY LeastExists
<1> QED
  BY <1>1 DEF Min

(* A finite set of numbers has a greatest one: a smallest set without one  *)
(* would have it as soon as one more element is left out.                  *)
LEMMA GreatestExists ==
  ASSUME NEW S, IsFiniteSet(S), S # {}, NEW f, \A x \in S : f[x] \in Nat
  PROVE  \E x \in S : \A y \in S : f[y] <= f[x]
<1> DEFINE without(T) == T # {} /\ ~ (\E x \in T : \A y \in T : f[y] <= f[x])
           sizes == {n \in Nat : \E T \in SUBSET S : without(T) /\ Cardinality(T) = n}
<1>1. \A T \in SUBSET S : IsFiniteSet(T) /\ Cardinality(T) \in Nat
  BY FS_Subset, FS_CardinalityType
<1>2. sizes = {}
  <2> SUFFICES ASSUME sizes # {} PROVE FALSE
    OBVIOUS
  <2>1. PICK n \in sizes : \A m \in sizes : n <= m
    <3>1. sizes \in SUBSET Nat
      OBVIOUS
    <3> HIDE DEF sizes
    <3> QED
      BY <3>1, LeastExists
  <2>2. PICK T \in SUBSET S : without(T) /\ Cardinality(T) = n
    OBVIOUS
  <2>3. PICK x \in T : TRUE
    BY <2>2
  <2> DEFINE R == T \ {x}
  <2>4. IsFiniteSet(R) /\ Cardinality(R) = Cardinality(T) - 1 /\ Cardinality(R) \in Nat
    BY <1>1, <2>2, <2>3, FS_RemoveElement
  <2>5. ~ without(R)
    <3> SUFFICES ASSUME without(R) PROVE FALSE
      OBVIOUS
    <3>1. Cardinality(R) \in sizes
      BY <2>4
    <3>2. n \in Nat /\ Cardinality(R) = n - 1
      BY <2>2, <2>4
    <3>3. n <= Cardinality(R)
      <4> HIDE DEF sizes, R
      <4> QED
        BY <2>1, <3>1
    <3> QED
      BY <3>2, <3>3
  <2>6. f[x] \in Nat /\ \A y \in T : y = x \/ y \in R
    BY <2>3
  <2>7. CASE R = {}
    BY <2>2, <2>3, <2>6, <2>7
  <2>8. CASE R # {}
    <3>1. PICK z \in R : \A y \in R : f[y] <= f[z]
      BY <2>5, <2>8
    <3>2. z \in T /\ f[z] \in Nat
      BY <3>1
    <3>3. CASE f[z] <= f[x]
      <4>1. \A y \in T : f[y] <= f[x]
        BY <2>6, <3>1, <3>2, <3>3
      <4> QED
        BY <2>2, <2>3, <4>1
    <3>4. CASE ~ (f[z] <= f[x])
      <4>1. \A y \in T : f[y] <= f[z]
        BY <2>6, <3>1, <3>2, <3>4
      <4> QED
        BY <2>2, <3>2, <4>1
    <3> QED
      BY <3>3, <3>4
  <2> QED
    BY <2>7, <2>8
<1>3. ~ without(S)
  BY <1>1, <1>2
<1> QED
  BY <1>3

(* Removing what a sequence holds makes it one shorter.                    *)
LEMMA RemovingKeeps ==
  ASSUME NEW S, NEW s \in Seq(S), NEW e \in Range(s)
  PROVE  /\ RemoveFirst(s, e) \in Seq(S)
         /\ Len(RemoveFirst(s, e)) = Len(s) - 1
         /\ ToSet(RemoveFirst(s, e)) \subseteq ToSet(s)
         /\ IsInjective(s) => /\ e \notin ToSet(RemoveFirst(s, e))
                              /\ IsInjective(RemoveFirst(s, e))
<1> DEFINE I == {i \in 1 .. Len(s) : s[i] = e}
           k == Min(I)
           a == SubSeq(s, 1, k - 1)
           b == SubSeq(s, k + 1, Len(s))
<1>1. Len(s) \in Nat /\ DOMAIN s = 1 .. Len(s) /\ \A i \in 1 .. Len(s) : s[i] \in S
  OBVIOUS
<1>2. I \in SUBSET Nat /\ I # {}
  BY <1>1 DEF Range
<1>3. k \in I
  <2> HIDE DEF I
  <2> QED
    BY <1>2, MinIs
<1>4. RemoveFirst(s, e) = a \o b
  BY <1>1, <1>2 DEF RemoveFirst, RemoveAt, SelectInSeq
<1> HIDE DEF k
<1>5. k \in 1 .. Len(s) /\ s[k] = e /\ k \in Int /\ Len(s) \in Int
  BY <1>1, <1>3
<1>6. /\ a \in Seq(S) /\ Len(a) = k - 1
      /\ \A i \in 1 .. k - 1 : a[i] = s[i]
  BY <1>1, <1>5, SubSeqProperties
<1>7. /\ b \in Seq(S) /\ Len(b) = Len(s) - k
      /\ \A i \in 1 .. Len(s) - k : b[i] = s[k + i]
  <2>1. /\ b \in Seq(S) /\ Len(b) = IF k + 1 <= Len(s) THEN Len(s) - (k + 1) + 1 ELSE 0
        /\ \A i \in 1 .. Len(s) - (k + 1) + 1 : b[i] = s[(k + 1) + i - 1]
    <3>1. k + 1 \in Int /\ \A i \in k + 1 .. Len(s) : s[i] \in S
      BY <1>1, <1>5
    <3> QED
      BY <1>5, <3>1, SubSeqProperties
  <2> HIDE DEF b
  <2>2. ASSUME NEW i \in 1 .. Len(s) - k
        PROVE  b[i] = s[k + i]
    <3>1. i \in 1 .. Len(s) - (k + 1) + 1 /\ (k + 1) + i - 1 = k + i
      BY <1>1, <1>5
    <3> QED
      BY <2>1, <3>1
  <2>3. Len(b) = Len(s) - k
    <3>1. \A n, m \in Int : m \in 1 .. n => (IF m + 1 <= n THEN n - (m + 1) + 1 ELSE 0) = n - m
      OBVIOUS
    <3> QED
      BY <1>5, <2>1, <3>1
  <2> QED
    BY <2>1, <2>2, <2>3
<1> DEFINE r == a \o b
<1>8. /\ r \in Seq(S) /\ Len(r) = Len(s) - 1
      /\ \A i \in 1 .. Len(s) - 1 : r[i] = IF i <= k - 1 THEN s[i] ELSE s[i + 1]
  <2> HIDE DEF a, b
  <2>1. /\ r \in Seq(S) /\ Len(r) = Len(a) + Len(b)
        /\ \A i \in 1 .. Len(a) + Len(b) : r[i] = IF i <= Len(a) THEN a[i] ELSE b[i - Len(a)]
    BY <1>6, <1>7, ConcatProperties
  <2>2. Len(a) + Len(b) = Len(s) - 1
    BY <1>1, <1>5, <1>6, <1>7
  <2> HIDE DEF r
  <2>3. ASSUME NEW i \in 1 .. Len(s) - 1
        PROVE  r[i] = IF i <= k - 1 THEN s[i] ELSE s[i + 1]
    <3>1. r[i] = IF i <= k - 1 THEN a[i] ELSE b[i - (k - 1)]
      BY <1>6, <2>1, <2>2
    <3>2. CASE i <= k - 1
      <4>1. i \in 1 .. k - 1
        BY <1>1, <1>5, <3>2
      <4> QED
        BY <1>6, <3>1, <3>2, <4>1
    <3>3. CASE ~ (i <= k - 1)
      <4>1. i - (k - 1) \in 1 .. Len(s) - k /\ k + (i - (k - 1)) = i + 1
        BY <1>1, <1>5, <3>3
      <4> QED
        BY <1>7, <3>1, <3>3, <4>1
    <3> QED
      BY <3>2, <3>3
  <2> QED
    BY <2>1, <2>2, <2>3
<1> HIDE DEF a, b, r
<1>9. DOMAIN r = 1 .. Len(s) - 1
  BY <1>1, <1>8
<1>10. ToSet(r) \subseteq ToSet(s)
  BY <1>1, <1>5, <1>8, <1>9 DEF ToSet
<1>11. ASSUME IsInjective(s)
       PROVE  e \notin ToSet(r) /\ IsInjective(r)
  <2>1. \A i, j \in 1 .. Len(s) : s[i] = s[j] => i = j
    BY <1>1, <1>11 DEF IsInjective
  <2>2. ASSUME NEW i \in DOMAIN r
        PROVE  \E j \in 1 .. Len(s) : /\ r[i] = s[j] /\ j # k
                                      /\ j = IF i <= k - 1 THEN i ELSE i + 1
    BY <1>1, <1>5, <1>8, <1>9
  <2>3. e \notin ToSet(r)
    BY <1>5, <2>1, <2>2 DEF ToSet
  <2>4. ASSUME NEW i \in DOMAIN r, NEW j \in DOMAIN r, r[i] = r[j]
        PROVE  i = j
    <3>1. PICK m \in 1 .. Len(s) : r[i] = s[m] /\ m = IF i <= k - 1 THEN i ELSE i + 1
      BY <2>2
    <3>2. PICK n \in 1 .. Len(s) : r[j] = s[n] /\ n = IF j <= k - 1 THEN j ELSE j + 1
      BY <2>2
    <3>3. m = n
      BY <2>1, <2>4, <3>1, <3>2
    <3>4. i \in Int /\ j \in Int
      BY <1>9
    <3> QED
      BY <1>5, <3>1, <3>2, <3>3, <3>4
  <2> QED
    BY <2>3, <2>4 DEF IsInjective
<1> QED
  BY <1>4, <1>8, <1>10, <1>11 DEF r

(* A question adds its debate, and its queries are spawned.                *)
THEOREM DebateTypeCorrect == DebateSpec => []DebateTypeOK
<1>1. DebateInit => DebateTypeOK
  BY DebateAssumption DEF DebateInit, DebateTypeOK, NoDebate, DebateAssumption
<1>2. DebateInv /\ DebateTypeOK /\ [DebateNext]_debateVars => DebateTypeOK'
  <2> SUFFICES ASSUME DebateInv, DebateTypeOK, [DebateNext]_debateVars
               PROVE  DebateTypeOK'
    OBVIOUS
  <2> USE DEF DebateTypeOK, DebateInv, NoDebate
  <2>0. \A ps, use : use \in {"query", "judge"} => Spawned(ps, use) \subseteq Pooled \X {"query", "judge"}
    BY DEF Spawned
  <2>1. CASE UNCHANGED debateVars
    BY <2>1 DEF debateVars
  <2>2. ASSUME NEW available \in SUBSET Providers, StartDebate(available)
        PROVE  DebateTypeOK'
    <3> DEFINE ps == select_providers(available)
    <3>1. ps \subseteq Providers
      BY DEF select_providers, deduplicate_providers
    <3>2. held' \in 0 .. MaxDebates
      BY <2>2, DebateAssumption DEF StartDebate, DebateAssumption
    <3>3. remembered' \in HistoryTexts \cup {"none"}
      BY <2>2 DEF StartDebate, HistoryTexts
    <3>4. CASE ps = {}
      BY <2>2, <3>2, <3>3, <3>4 DEF StartDebate
    <3>5. CASE ps # {}
      <4>1. /\ debate' = [NoDebate EXCEPT !.phase = "querying", !.queried = ps, !.waiting = ps]
            /\ subprocesses' = subprocesses \cup Spawned(ps, "query")
        BY <2>2, <3>5 DEF StartDebate
      <4>2. subprocesses' \subseteq Pooled \X {"query", "judge"}
        BY <2>0, <4>1
      <4> HIDE DEF ps
      <4> QED
        BY <3>1, <3>2, <3>3, <4>1, <4>2
    <3> QED
      BY <3>4, <3>5
  <2>3. ASSUME NEW p \in Providers, NEW fits \in BOOLEAN, ProviderAnswers(p, fits)
        PROVE  DebateTypeOK'
    BY <2>3 DEF ProviderAnswers, Response
  <2>4. ASSUME NEW p \in Providers, ProviderFails(p)
        PROVE  DebateTypeOK'
    BY <2>4 DEF ProviderFails
  <2>5. CASE ExcludeAndCompare
    <3>1. Excluded(debate.responses) \subseteq debate.responses
      BY DEF Excluded
    <3> HIDE DEF Excluded
    <3> QED
      BY <2>5, <3>1 DEF ExcludeAndCompare
  <2>6. ASSUME NEW available \in SUBSET Providers, Conclude(available)
        PROVE  DebateTypeOK'
    <3>1. PICK verdict : debate' = [debate EXCEPT !.phase = "done", !.verdict = verdict]
                         /\ remembered' = Remembered(verdict, debate.responses)
      BY <2>6 DEF Conclude
    <3>2. remembered' \in HistoryTexts
      BY <3>1 DEF Remembered, HistoryTexts
    <3>3. subprocesses' \subseteq Pooled \X {"query", "judge"}
      BY <2>0, <2>6 DEF Conclude, cleanup_debate_subprocesses
    <3>4. held' = held
      BY <2>6 DEF Conclude
    <3> QED
      BY <3>1, <3>2, <3>3, <3>4
  <2>7. ASSUME NEW s \in subprocesses, PoolDropsIdle(s)
        PROVE  DebateTypeOK'
    BY <2>7 DEF PoolDropsIdle
  <2> QED
    BY <2>1, <2>2, <2>3, <2>4, <2>5, <2>6, <2>7 DEF DebateNext
<1> QED
  BY <1>1, <1>2, DebateInvariant, PTL DEF DebateSpec

(* Whatever opens, migrates or loses the file, it is one of the forms the   *)
(* code knows (encrypted_storage.py) and a commit adds rows only.          *)
THEOREM DatabaseTypeCorrect == DatabaseSpec => []DatabaseTypeOK
<1>1. DatabaseInit => machine \in Machines /\ committed \subseteq Rows
  BY DEF DatabaseInit
<1>2. machine \in Machines /\ committed \subseteq Rows /\ [DatabaseNext]_databaseVars
        => (machine \in Machines /\ committed \subseteq Rows)'
  BY DEF DatabaseNext, databaseVars, ensure_connection, execute, close, DumpPlain,
         OpenTemporary, FillTemporary, MigrationFails, MoveAside, MoveIntoPlace, SwapFails,
         RestartDatabase, MigrationStep
<1>3. DatabaseInv /\ machine \in Machines /\ committed \subseteq Rows => DatabaseTypeOK
  BY DEF DatabaseInv, DatabaseTyped, DatabaseTypeOK
<1> QED
  BY <1>1, <1>2, <1>3, DatabaseInvariant, PTL DEF DatabaseSpec

-----------------------------------------------------------------------------
(* The language of a chat                                                  *)

(* The score of a text that can be read is a number.                       *)
LEMMA ScoresAreNumbers ==
  ASSUME NEW text, Readable(text), NEW l \in Languages
  PROVE  Score(text, l) \in Nat
<1>1. /\ At(text.markers, l) \in Nat /\ At(text.exclusive, l) \in Nat
      /\ At(text.shared, l) \in Nat /\ text.tokens \in Nat
  BY DEF Readable
<1>2. SharedAward(text, l) \in Nat
  <2>1. l \in Carriers(text.shared) => text.shared[l] \in Nat
    BY <1>1 DEF Carriers, At
  <2> QED
    BY <2>1 DEF SharedAward
<1>3. 15 * At(text.exclusive, l) + SharedAward(text, l) \in Nat
  BY <1>1, <1>2
<1>4. text.tokens * (15 * At(text.exclusive, l) + SharedAward(text, l)) \in Nat
  <2>1. \A a, b \in Nat : a * b \in Nat
    OBVIOUS
  <2> QED
    BY <1>1, <1>3, <2>1
<1> QED
  BY <1>1, <1>4 DEF Score

(* The heuristic names a language (domain/language.py).                    *)
LEMMA HeuristicNames ==
  ASSUME NEW text, Readable(text)
  PROVE  Heuristic(text).lang \in Languages
<1> DEFINE scored == {l \in Languages : Score(text, l) > 0}
           worth == [l \in Languages |-> Score(text, l)]
           best == CHOOSE l \in scored : \A m \in scored : Score(text, m) <= Score(text, l)
<1>1. scored # {} => best \in scored
  <2>1. IsFiniteSet(scored)
    BY LanguagesAssumption, FS_Subset DEF LanguagesAssumption
  <2>2. \A l \in scored : worth[l] \in Nat /\ worth[l] = Score(text, l)
    BY ScoresAreNumbers
  <2>3. scored # {} => \E l \in scored : \A m \in scored : worth[m] <= worth[l]
    <3> HIDE DEF worth, scored
    <3> QED
      BY <2>1, <2>2, GreatestExists
  <2>4. scored # {} => \E l \in scored : \A m \in scored : Score(text, m) <= Score(text, l)
    <3> HIDE DEF worth, scored
    <3> QED
      BY <2>2, <2>3
  <2> HIDE DEF scored
  <2> QED
    BY <2>4
<1>2. Nothing.lang \in Languages
  BY LanguagesAssumption DEF LanguagesAssumption, Nothing, Answer
<1>3. \/ text.script # None /\ detect_language_core(text).lang = text.script
      \/ detect_language_core(text) = Nothing
      \/ scored # {} /\ detect_language_core(text).lang = best
  BY DEF detect_language_core, Best, Answer
<1>4. scored # {} => best \in Languages
  <2>1. scored \subseteq Languages
    OBVIOUS
  <2> HIDE DEF best, scored
  <2> QED
    BY <1>1, <2>1
<1> HIDE DEF best, scored
<1> QED
  BY <1>2, <1>3, <1>4 DEF Heuristic, Readable

(* A library's answer is in a language of the bot's.                       *)
LEMMA PrimaryNames ==
  ASSUME NEW text, Readable(text)
  PROVE  Primary(text) # None => Primary(text).lang \in Languages
<1> DEFINE raw == text.langdetect
           dist == LangdetectBackend(raw)
           best == CHOOSE l \in DOMAIN dist : \A m \in DOMAIN dist : dist[m] <= dist[l]
<1>1. DOMAIN dist = {Canon(c) : c \in DOMAIN raw} /\ DOMAIN dist \subseteq Languages
  BY DEF LangdetectBackend, Readable
<1>2. ASSUME NEW l \in DOMAIN dist
      PROVE  dist[l] \in 0 .. 100
  <2> DEFINE shares == {raw[c] : c \in {d \in DOMAIN raw : Canon(d) = l}}
  <2>1. dist[l] = Min(shares)
    BY <1>1 DEF LangdetectBackend
  <2>2. shares \in SUBSET (0 .. 100) /\ shares # {}
    BY <1>1 DEF Readable
  <2> HIDE DEF shares
  <2>3. Min(shares) \in shares
    BY <2>2, MinIs
  <2> QED
    BY <2>1, <2>2, <2>3
<1>3. DOMAIN dist # {} => best \in DOMAIN dist
  <2> SUFFICES ASSUME DOMAIN dist # {} PROVE best \in DOMAIN dist
    OBVIOUS
  <2> HIDE DEF dist
  <2>1. \E l \in DOMAIN dist : \A m \in DOMAIN dist : dist[m] <= dist[l]
    <3>1. IsFiniteSet(DOMAIN dist)
      BY <1>1, LanguagesAssumption, FS_Subset DEF LanguagesAssumption
    <3>2. \A l \in DOMAIN dist : dist[l] \in Nat
      BY <1>2
    <3> QED
      BY <3>1, <3>2, GreatestExists
  <2> QED
    BY <2>1
<1>4. Primary(text) # None => DOMAIN raw # {} /\ Primary(text).lang = best
  BY DEF Primary, Best, Answer
<1> HIDE DEF best, dist
<1> QED
  BY <1>1, <1>3, <1>4

(* Whatever the detectors say, what comes of it is a language.             *)
LEMMA DetectionNames ==
  ASSUME NEW text, Readable(text)
  PROVE  detect(text).lang \in Languages
<1>1. make_default_result.lang \in Languages
  BY LanguagesAssumption DEF LanguagesAssumption, make_default_result, Detection
<1>2. ASSUME NEW a, a.lang \in Languages, NEW dissent
      PROVE  build_result(text, a, dissent).lang \in Languages
  BY <1>2 DEF build_result, Detection
<1>3. ASSUME NEW a, NEW b, a # None => a.lang \in Languages, b # None => b.lang \in Languages
      PROVE  aggregate(text, a, b).lang \in Languages
  <2>1. (IF a.conf >= b.conf THEN a ELSE b) \in {a, b}
    OBVIOUS
  <2> QED
    BY <1>1, <1>2, <1>3, <2>1 DEF aggregate
<1>4. detect_short_text(text).lang \in Languages
  BY <1>2, <1>3, HeuristicNames, PrimaryNames DEF detect_short_text
<1>5. detect_long_text(text).lang \in Languages
  <2> DEFINE p == Primary(text)
  <2>1. p = None => ~ (IF p = None THEN FALSE ELSE p.conf >= 60)
    OBVIOUS
  <2>2. \A x \in {Heuristic(text), None} : x # None => x.lang \in Languages
    BY HeuristicNames
  <2>3. p # None => p.lang \in Languages
    BY PrimaryNames
  <2> HIDE DEF p
  <2>4. \/ p # None /\ detect_long_text(text) = build_result(text, p, FALSE)
        \/ \E x \in {Heuristic(text), None} : detect_long_text(text) = aggregate(text, p, x)
    BY DEF detect_long_text, p
  <2> QED
    BY <1>2, <1>3, <2>2, <2>3, <2>4
<1> QED
  BY <1>1, <1>4, <1>5 DEF detect

(* Only languages of the bot's are stored and used for a chat, and the     *)
(* wizard's row is a row.                                                  *)
THEOREM LanguageTypeCorrect == LanguageSpec => []LanguageTypeOK
<1> DEFINE Row == [exists : BOOLEAN, onboarded : BOOLEAN, lang : Supported \cup {"auto", None},
                   skips : 0 .. HintAt + 1, hint : BOOLEAN]
<1>1. NoRow \in Row
  BY MessagesAssumption DEF MessagesAssumption, NoRow
<1>2. LanguageInit => LanguageTypeOK
  BY <1>1 DEF LanguageInit, LanguageTypeOK
<1>3. LanguageTypeOK /\ [LanguageNext]_languageVars => LanguageTypeOK'
  <2> SUFFICES ASSUME LanguageTypeOK, [LanguageNext]_languageVars
               PROVE  LanguageTypeOK'
    OBVIOUS
  <2>0. /\ \A u \in Speakers : /\ languages[u] \in Languages \cup {None}
                               /\ stored[u] \in Languages \cup {None} /\ wizard[u] \in Row
        /\ Supported \subseteq Languages
    BY SupportedAssumption DEF LanguageTypeOK
  <2>1. CASE UNCHANGED languageVars
    BY <2>1 DEF languageVars, LanguageTypeOK
  <2>2. ASSUME NEW u \in Speakers, NEW l \in Languages, set_language(u, l)
        PROVE  /\ languages' \in [Speakers -> Languages \cup {None}]
               /\ stored' \in [Speakers -> Languages \cup {None}]
    BY <2>0, <2>2 DEF set_language, LanguageTypeOK
  <2>3. ASSUME NEW u \in Speakers, NEW l \in Supported \cup {"auto"}, set_wizard_lang(u, l)
        PROVE  wizard' \in [Speakers -> Row]
    BY <2>0, <2>3 DEF set_wizard_lang, LanguageTypeOK
  <2>4. ASSUME NEW u \in Speakers, set_onboarded(u)
        PROVE  wizard' \in [Speakers -> Row]
    BY <2>0, <2>4 DEF set_onboarded, LanguageTypeOK
  <2>5. ASSUME NEW u \in Speakers, NEW text \in Messages, Message(u, text)
        PROVE  LanguageTypeOK'
    <3>1. detect(text).lang \in Languages
      BY MessagesAssumption, DetectionNames DEF MessagesAssumption
    <3> DEFINE d == detect(text)
    <3>2. /\ Kept(d, languages[u]) \in Languages
          /\ resolve(d, languages[u]) \in Languages
      <4> HIDE DEF d
      <4>1. d.lang \in Languages /\ DEFAULT_LANGUAGE \in Languages
        BY <3>1, LanguagesAssumption DEF LanguagesAssumption, d
      <4>2. Kept(d, languages[u]) \in Languages
        BY <2>0, <4>1 DEF Kept, FirstTime
      <4> QED
        BY <4>1, <4>2 DEF resolve
    <3>3. wizard' \in [Speakers -> Row]
      <4> DEFINE row == Capped(Counted(wizard[u]))
      <4>1. row \in Row
        <5> DEFINE Wide == [exists : BOOLEAN, onboarded : BOOLEAN, lang : Supported \cup {"auto", None},
                            skips : Nat, hint : BOOLEAN]
        <5>1. /\ HintAt \in Nat /\ HintAt + 1 \in 0 .. HintAt + 1
              /\ \A n \in 0 .. HintAt + 1 : n \in Nat /\ n + 1 \in Nat
              /\ \A n \in Nat : n > HintAt \/ n \in 0 .. HintAt + 1
          BY MessagesAssumption DEF MessagesAssumption
        <5>2. wizard[u] \in Row /\ wizard[u] \in Wide /\ wizard[u].skips + 1 \in Nat
          BY <2>0, <5>1
        <5>3. [wizard[u] EXCEPT !.exists = TRUE, !.skips = @ + 1] \in Wide
          BY <5>2
        <5>4. Counted(wizard[u]) \in Wide
          BY <5>2, <5>3 DEF Counted
        <5>5. ASSUME NEW r \in Wide
              PROVE  Capped(r) \in Row
          <6>1. CASE r.skips > HintAt
            BY <5>1, <6>1 DEF Capped
          <6>2. CASE ~ (r.skips > HintAt)
            <7>1. r.skips \in 0 .. HintAt + 1
              BY <5>1, <6>2
            <7> QED
              BY <6>2, <7>1 DEF Capped
          <6> QED
            BY <6>1, <6>2
        <5> QED
          BY <5>4, <5>5
      <4>2. \E r \in {row, [row EXCEPT !.hint = TRUE]} : wizard' = [wizard EXCEPT ![u] = r]
        <5> HIDE DEF row
        <5> QED
          BY <2>5 DEF Message, row
      <4> HIDE DEF row
      <4>3. [row EXCEPT !.hint = TRUE] \in Row
        BY <4>1
      <4> QED
        BY <4>1, <4>2, <4>3 DEF LanguageTypeOK
    <3> HIDE DEF d
    <3>4. \/ UNCHANGED <<languages, stored, spoken>>
          \/ /\ spoken' = [spoken EXCEPT ![u] = resolve(d, languages[u])]
             /\ \/ UNCHANGED <<languages, stored>>
                \/ set_language(u, Kept(d, languages[u]))
      BY <2>5 DEF Message, d
    <3>5. UNCHANGED shown
      BY <2>5 DEF Message
    <3> QED
      BY <2>2, <3>2, <3>3, <3>4, <3>5 DEF LanguageTypeOK
  <2>6. ASSUME NEW u \in Speakers, NEW l \in Supported, LangCommand(u, l)
        PROVE  LanguageTypeOK'
    BY <2>0, <2>2, <2>6 DEF LangCommand, LanguageTypeOK
  <2>7. ASSUME NEW u \in Speakers, StartWizard(u)
        PROVE  LanguageTypeOK'
    BY <2>7 DEF StartWizard, LanguageTypeOK
  <2>8. ASSUME NEW u \in Speakers, NEW l \in Supported, WizardLanguage(u, l)
        PROVE  LanguageTypeOK'
    <3>1. set_language(u, l) /\ set_wizard_lang(u, l) /\ l \in Languages /\ UNCHANGED spoken
      BY <2>0, <2>8 DEF WizardLanguage
    <3>2. shown' \in [Speakers -> SUBSET {"step1", "step2"}]
      BY <2>8 DEF WizardLanguage, LanguageTypeOK
    <3> QED
      BY <2>2, <2>3, <3>1, <3>2 DEF LanguageTypeOK
  <2>9. ASSUME NEW u \in Speakers, WizardAuto(u)
        PROVE  LanguageTypeOK'
    <3>1. shown' \in [Speakers -> SUBSET {"step1", "step2"}]
      BY <2>9 DEF WizardAuto, LanguageTypeOK
    <3> QED
      BY <2>3, <2>9, <3>1 DEF WizardAuto, LanguageTypeOK
  <2>10. ASSUME NEW u \in Speakers, WizardSkip(u)
         PROVE  LanguageTypeOK'
    BY <2>4, <2>10 DEF WizardSkip, LanguageTypeOK
  <2>11. ASSUME NEW u \in Speakers, WizardDone(u)
         PROVE  LanguageTypeOK'
    BY <2>4, <2>11 DEF WizardDone, LanguageTypeOK
  <2>12. CASE RestartLanguage
    <3>1. [NoRow EXCEPT !.exists = TRUE, !.onboarded = TRUE] \in Row
      BY <1>1
    <3>2. wizard' \in [Speakers -> Row]
      BY <2>0, <2>12, <3>1 DEF RestartLanguage
    <3> QED
      BY <2>12, <3>2 DEF RestartLanguage, LanguageTypeOK
  <2> QED
    BY <2>1, <2>5, <2>6, <2>7, <2>8, <2>9, <2>10, <2>11, <2>12 DEF LanguageNext
<1> QED
  BY <1>2, <1>3, PTL DEF LanguageSpec

(* Statistics of n streams at most, each count covered by the checks.      *)
Within(s, n) == /\ s \in [DOMAIN NewStats -> Nat] /\ s.checks <= n
                /\ \A f \in DOMAIN NewStats : s[f] <= s.checks

(* What a stream has still to report is no more than its one check.        *)
GuardCounts ==
    /\ GuardInv /\ GuardTypeOK
    /\ \A c \in GuardChats :
        Within(stats[c], IF streams[c].phase = "open" THEN started - 1 ELSE started)

(* Every model has a profile that says whether its streams are guarded.    *)
LEMMA ProfileExists ==
  ASSUME NEW m \in Models
  PROVE  get_profile(m).guard \in BOOLEAN
<1>1. /\ "default" \in DOMAIN Profiles
      /\ \A f \in DOMAIN Profiles : Profiles[f].guard \in BOOLEAN /\ NameLength[f] \in Nat
  BY ProfilesAssumption DEF ProfilesAssumption
<1> DEFINE known == Families[m] \ {"default"}
           longest == CHOOSE f \in known : \A g \in known : NameLength[g] <= NameLength[f]
<1>2. CASE m = None \/ m \in DOMAIN Profiles
  BY <1>1, <1>2 DEF get_profile
<1>3. CASE m # None /\ m \notin DOMAIN Profiles
  <2>1. Families[m] \subseteq DOMAIN Profiles /\ IsFiniteSet(known)
    BY <1>3, ProfilesAssumption, FS_Subset DEF ProfilesAssumption
  <2>2. known # {} => longest \in known
    <3>1. known # {} => \E f \in known : \A g \in known : NameLength[g] <= NameLength[f]
      <4> HIDE DEF known
      <4>1. \A f \in known : NameLength[f] \in Nat
        BY <1>1, <2>1 DEF known
      <4> QED
        BY <2>1, <4>1, GreatestExists
    <3> HIDE DEF known
    <3> QED
      BY <3>1
  <2>3. /\ known = {} => get_profile(m) = Profiles["default"]
        /\ known # {} => get_profile(m) = Profiles[longest]
    BY <1>3 DEF get_profile
  <2>4. known \subseteq DOMAIN Profiles
    BY <2>1
  <2> HIDE DEF known, longest
  <2> QED
    BY <1>1, <2>2, <2>3, <2>4
<1> QED
  BY <1>2, <1>3

(* An access leaves no more entries than the store may have.               *)
LEMMA TouchingKeeps ==
  ASSUME entries \in Seq(GuardChats), Len(entries) <= MaxEntries, NEW c \in GuardChats
  PROVE  Touched(c) \in Seq(GuardChats) /\ Len(Touched(c)) <= MaxEntries
<1>1. MaxEntries \in Nat \ {0}
  BY BoundsAssumption DEF BoundsAssumption
<1>2. CASE c \in Range(entries)
  <2> DEFINE rest == RemoveFirst(entries, c)
  <2>1. rest \in Seq(GuardChats) /\ Len(rest) = Len(entries) - 1
    BY <1>2, RemovingKeeps
  <2>2. Touched(c) = Append(rest, c)
    BY <1>2 DEF Touched
  <2> HIDE DEF rest
  <2> QED
    BY <1>1, <2>1, <2>2
<1>3. CASE c \notin Range(entries)
  <2> DEFINE rest == IF Len(entries) >= MaxEntries THEN Tail(entries) ELSE entries
  <2>1. rest \in Seq(GuardChats) /\ Len(rest) <= MaxEntries - 1
    <3>1. CASE Len(entries) >= MaxEntries
      <4>1. entries # <<>>
        BY <1>1, <3>1
      <4> QED
        BY <1>1, <3>1, <4>1
    <3>2. CASE ~ (Len(entries) >= MaxEntries)
      BY <1>1, <3>2
    <3> QED
      BY <3>1, <3>2
  <2>2. Touched(c) = Append(rest, c)
    BY <1>3 DEF Touched
  <2> HIDE DEF rest
  <2> QED
    BY <1>1, <2>1, <2>2
<1> QED
  BY <1>2, <1>3

(* One more check may raise every count by one and nothing further.        *)
LEMMA OutcomesStayWithin ==
  ASSUME NEW n \in Nat, NEW s, Without(s), Within(s, n), NEW outcome \in {"confirmed", "unknown"}
  PROVE  Within(apply_outcome(s, outcome), n + 1)
<1> DEFINE t == [s EXCEPT !.checks = @ + 1, !.aborts = @ + 1,
        !.confirmed = @ + (IF outcome = "confirmed" THEN 1 ELSE 0),
        !.fps = @ + (IF outcome = "false_positive" THEN 1 ELSE 0),
        !.unknown = @ + (IF outcome = "unknown" THEN 1 ELSE 0),
        !.consecutive = IF outcome = "confirmed" THEN 0
                        ELSE @ + (IF outcome = "false_positive" THEN 1 ELSE 0)]
<1>1. DOMAIN NewStats = {"checks", "aborts", "confirmed", "fps", "unknown", "consecutive", "disabled"}
  BY DEF NewStats
<1>2. /\ s.checks \in Nat /\ s.aborts \in Nat /\ s.confirmed \in Nat /\ s.fps \in Nat
      /\ s.unknown \in Nat /\ s.consecutive \in Nat /\ s.disabled \in Nat
      /\ s.aborts <= s.checks /\ s.confirmed <= s.checks /\ s.fps <= s.checks
      /\ s.unknown <= s.checks /\ s.consecutive <= s.checks /\ s.disabled <= s.checks
      /\ s.checks <= n
  BY <1>1 DEF Within
<1>3. /\ DOMAIN t = DOMAIN NewStats
      /\ t.checks = s.checks + 1 /\ t.aborts = s.aborts + 1
      /\ t.confirmed \in {s.confirmed, s.confirmed + 1} /\ t.fps = s.fps
      /\ t.unknown \in {s.unknown, s.unknown + 1} /\ t.consecutive \in {0, s.consecutive}
      /\ t.disabled = s.disabled
  BY <1>1, <1>2 DEF Within
<1>4. t \in [DOMAIN NewStats -> Nat]
  <2>1. t = [f \in DOMAIN NewStats |-> t[f]]
    BY <1>1 DEF Within
  <2>2. \A f \in DOMAIN NewStats : t[f] \in Nat
    <3> HIDE DEF t
    <3> QED
      BY <1>1, <1>2, <1>3
  <2> HIDE DEF t
  <2> QED
    BY <2>1, <2>2
<1>5. Without(t)
  BY DEF Without, NewStats
<1>6. apply_outcome(s, outcome) = Calibrated(t)
  BY DEF apply_outcome
<1> HIDE DEF t
<1>7. Within(t, n + 1)
  <2>1. \A f \in DOMAIN NewStats : t[f] <= t.checks
    BY <1>1, <1>2, <1>3
  <2> QED
    BY <1>2, <1>3, <1>4, <2>1 DEF Within
<1> QED
  BY <1>5, <1>6, <1>7, NothingToDisable

(* Its report adds one check, and what the check found.                    *)
LEMMA ReportsStayWithin ==
  ASSUME NEW n \in Nat, NEW s, Without(s), Within(s, n), NEW checked \in BOOLEAN
  PROVE  Within(Reported(s, checked), n + 1)
<1> DEFINE t == [s EXCEPT !.checks = @ + 1]
<1>1. DOMAIN NewStats = {"checks", "aborts", "confirmed", "fps", "unknown", "consecutive", "disabled"}
  BY DEF NewStats
<1>2. /\ s.checks \in Nat /\ s.checks <= n /\ DOMAIN s = DOMAIN NewStats
      /\ \A f \in DOMAIN NewStats : s[f] \in Nat /\ s[f] <= s.checks
  BY <1>1 DEF Within
<1>3. /\ DOMAIN t = DOMAIN NewStats /\ t.checks = s.checks + 1
      /\ \A f \in DOMAIN NewStats : f # "checks" => t[f] = s[f]
  BY <1>1, <1>2
<1>4. Within(t, n + 1)
  <2>1. \A f \in DOMAIN NewStats : t[f] \in Nat /\ t[f] <= t.checks
    <3> HIDE DEF t
    <3> QED
      BY <1>2, <1>3
  <2>2. t = [f \in DOMAIN NewStats |-> t[f]]
    BY <1>2
  <2> HIDE DEF t
  <2> QED
    BY <1>2, <1>3, <2>1, <2>2 DEF Within
<1>5. Without(t)
  BY <1>1 DEF Without
<1>6. Calibrated(t) = t
  <2> HIDE DEF t
  <2> QED
    BY <1>5, NothingToDisable
<1>7. Within(s, n + 1)
  BY <1>2 DEF Within
<1> HIDE DEF t
<1>8. Reported(s, checked) = IF checked THEN Calibrated(t) ELSE s
  BY DEF Reported, t
<1> QED
  BY <1>4, <1>6, <1>7, <1>8

(* A guard's numbers are numbers of streams, whatever the store forgets.   *)
THEOREM GuardTypeCorrect == GuardSpec => []GuardTypeOK
<1>0. MaxStreams \in Nat /\ MaxEntries \in Nat /\ None \in Models
  BY BoundsAssumption, ProfilesAssumption DEF BoundsAssumption, ProfilesAssumption
<1>1. GuardInit => GuardCounts
  <2> SUFFICES ASSUME GuardInit PROVE GuardCounts
    OBVIOUS
  <2>1. /\ DOMAIN NewStats = {"checks", "aborts", "confirmed", "fps", "unknown", "consecutive", "disabled"}
        /\ NewStats \in [DOMAIN NewStats -> 0 .. MaxStreams] /\ Within(NewStats, 0)
    BY <1>0 DEF NewStats, Within
  <2>2. GuardInv
    BY DEF GuardInit, GuardInv, Without, NewStats
  <2>3. GuardTypeOK
    BY <1>0, <2>1 DEF GuardInit, GuardTypeOK, Closed
  <2> QED
    BY <2>1, <2>2, <2>3 DEF GuardCounts, GuardInit, Closed
<1>2. GuardCounts /\ [GuardNext]_guardVars => GuardCounts'
  <2> SUFFICES ASSUME GuardCounts, [GuardNext]_guardVars
               PROVE  GuardCounts'
    OBVIOUS
  <2> DEFINE Stream == [phase : {"closed", "open", "aborted"}, model : Models,
                        guarded : BOOLEAN, enabled : BOOLEAN, checked : BOOLEAN]
             left(c) == IF streams[c].phase = "open" THEN started - 1 ELSE started
  <2>1. /\ GuardInv /\ started \in 0 .. MaxStreams /\ started \in Nat
        /\ entries \in Seq(GuardChats) /\ Len(entries) <= MaxEntries
        /\ DOMAIN streams = GuardChats /\ DOMAIN stats = GuardChats
        /\ \A c \in GuardChats : streams[c] \in Stream /\ Without(stats[c])
    BY <1>0 DEF GuardCounts, GuardTypeOK, GuardInv
  <2>2. \A c \in GuardChats : Within(stats[c], left(c)) /\ left(c) \in Int
    BY <2>1 DEF GuardCounts
  <2>3. Without(NewStats)
    BY DEF NewStats, Without
  <2>4. ASSUME NEW c \in GuardChats
        PROVE  /\ left(c) \in Nat /\ Within(Found(c), left(c)) /\ Without(Found(c))
    <3>1. stats[c].checks \in Nat /\ stats[c].checks <= left(c)
      BY <2>2, <2>4 DEF Within, NewStats
    <3>2. left(c) \in Nat
      BY <2>2, <3>1
    <3>3. Within(NewStats, left(c))
      BY <3>2 DEF Within, NewStats
    <3> QED
      BY <2>1, <2>2, <2>3, <3>2, <3>3 DEF Found
  <2>5. \A c \in GuardChats : Touched(c) \in Seq(GuardChats) /\ Len(Touched(c)) <= MaxEntries
    BY <2>1, TouchingKeeps
  <2>6. ASSUME NEW c \in GuardChats, NEW r \in Stream, NEW s, NEW n \in 0 .. MaxStreams,
               started <= n, streams' = [streams EXCEPT ![c] = r],
               stats' = [stats EXCEPT ![c] = s] \/ (stats' = stats /\ s = stats[c]),
               Without(s), Within(s, IF r.phase = "open" THEN n - 1 ELSE n), started' = n,
               entries' \in {entries, Touched(c)}
        PROVE  GuardCounts'
    <3>1. DOMAIN stats' = GuardChats /\ stats'[c] = s /\ \A e \in GuardChats \ {c} : stats'[e] = stats[e]
      BY <2>1, <2>6
    <3>2. /\ DOMAIN streams' = GuardChats /\ streams'[c] = r
          /\ \A e \in GuardChats \ {c} : streams'[e] = streams[e]
      BY <2>1, <2>6
    <3>3. GuardInv'
      BY <2>1, <2>6, <3>1 DEF GuardInv
    <3>4. \A e \in GuardChats :
            Within(stats'[e], IF streams'[e].phase = "open" THEN started' - 1 ELSE started')
      <4> SUFFICES ASSUME NEW e \in GuardChats
                   PROVE  Within(stats'[e], IF streams'[e].phase = "open"
                                            THEN started' - 1 ELSE started')
        OBVIOUS
      <4>1. CASE e = c
        BY <2>6, <3>1, <3>2, <4>1
      <4>2. CASE e # c
        <5>1. stats'[e] = stats[e] /\ streams'[e] = streams[e]
          BY <3>1, <3>2, <4>2
        <5>2. stats[e].checks \in Nat /\ stats[e].checks <= left(e)
          BY <2>2 DEF Within, NewStats
        <5>3. stats[e].checks <= IF streams[e].phase = "open" THEN n - 1 ELSE n
          BY <2>1, <2>2, <2>6, <5>2
        <5> QED
          BY <2>2, <2>6, <5>1, <5>3 DEF Within
      <4> QED
        BY <4>1, <4>2
    <3>5. ASSUME NEW e \in GuardChats
          PROVE  stats'[e] \in [DOMAIN NewStats -> 0 .. MaxStreams]
      <4>1. PICK m \in {n - 1, n} : Within(stats'[e], m)
        BY <2>6, <3>4
      <4>2. \A f \in DOMAIN NewStats : stats'[e][f] \in Nat /\ stats'[e][f] <= m
        <5>1. "checks" \in DOMAIN NewStats
          BY DEF NewStats
        <5>2. \A a, b \in Nat : a <= b /\ b <= m => a <= m
          BY <1>0, <4>1
        <5> QED
          BY <4>1, <5>1, <5>2 DEF Within
      <4>3. \A a \in Nat : a <= m => a \in 0 .. MaxStreams
        BY <1>0, <4>1
      <4> QED
        BY <4>1, <4>2, <4>3 DEF Within
    <3>6. GuardTypeOK'
      <4>1. stats' \in [GuardChats -> [DOMAIN NewStats -> 0 .. MaxStreams]]
        <5>1. stats' = [e \in GuardChats |-> stats'[e]]
          <6>1. stats = [e \in GuardChats |-> stats[e]]
            BY DEF GuardCounts, GuardTypeOK
          <6>2. CASE stats' = stats
            BY <6>1, <6>2
          <6>3. CASE stats' = [stats EXCEPT ![c] = s]
            BY <2>1, <6>3
          <6> QED
            BY <2>6, <6>2, <6>3
        <5> QED
          BY <3>5, <5>1
      <4>2. streams' \in [GuardChats -> Stream]
        BY <2>1, <2>6
      <4>3. entries' \in Seq(GuardChats) /\ Len(entries') <= MaxEntries
        BY <2>1, <2>5, <2>6
      <4>4. NewStats' = NewStats
        BY DEF NewStats
      <4> QED
        BY <2>6, <4>1, <4>2, <4>3, <4>4 DEF GuardTypeOK
    <3> QED
      BY <3>3, <3>4, <3>6 DEF GuardCounts, Within, NewStats
  <2>7. ASSUME NEW c \in GuardChats, NEW model \in Models, StartStream(c, model)
        PROVE  GuardCounts'
    <3> DEFINE guarded == get_profile(model).guard
               r == [phase |-> "open", model |-> model, guarded |-> guarded,
                     enabled |-> guarded /\ ~should_disable(Found(c)), checked |-> FALSE]
               s == IF guarded THEN Found(c) ELSE stats[c]
    <3>1. guarded \in BOOLEAN
      BY ProfileExists
    <3>2. r \in Stream /\ r.phase = "open"
      <4>1. (guarded /\ ~should_disable(Found(c))) \in BOOLEAN
        OBVIOUS
      <4> HIDE DEF guarded
      <4> QED
        BY <3>1, <4>1
    <3>3. /\ streams[c].phase = "closed" /\ started < MaxStreams
          /\ streams' = [streams EXCEPT ![c] = r] /\ started' = started + 1
          /\ stats' = [stats EXCEPT ![c] = s] \/ (stats' = stats /\ s = stats[c])
          /\ entries' \in {entries, Touched(c)}
      BY <2>7 DEF StartStream
    <3>4. left(c) = started /\ started + 1 \in 0 .. MaxStreams /\ (started + 1) - 1 = started
          /\ started <= started + 1
      BY <1>0, <2>1, <3>3
    <3>5. Without(s) /\ Within(s, started)
      BY <2>1, <2>2, <2>4, <3>4
    <3> HIDE DEF r, s, left
    <3> QED
      BY <2>6, <3>2, <3>3, <3>4, <3>5
  <2>8. ASSUME NEW c \in GuardChats, NEW d \in Partials, check_early(c, d)
        PROVE  GuardCounts'
    <3>1. streams[c].phase = "open" /\ left(c) = started - 1 /\ left(c) \in Nat
      BY <2>4, <2>8 DEF check_early
    <3>2. started <= started /\ (started - 1) + 1 = started
      BY <2>1
    <3>3. CASE Aborts(d, Expected[c])
      <4> DEFINE s == apply_outcome(Found(c), classify_abort(d, Expected[c]))
                 r == [streams[c] EXCEPT !.checked = TRUE, !.phase = "aborted"]
      <4>1. classify_abort(d, Expected[c]) \in {"confirmed", "unknown"}
        BY <3>3, AbortsAreNoFalsePositives
      <4>2. Without(s) /\ Within(s, (started - 1) + 1)
        BY <2>4, <3>1, <4>1, OutcomesKeep, OutcomesStayWithin
      <4>3. r \in Stream /\ r.phase # "open"
        BY <2>1
      <4>4. /\ streams' = [streams EXCEPT ![c] = r] /\ stats' = [stats EXCEPT ![c] = s]
            /\ entries' = Touched(c) /\ started' = started
        BY <2>1, <2>8, <3>3 DEF check_early
      <4> HIDE DEF r, s, left
      <4> QED
        BY <2>1, <2>6, <3>2, <4>2, <4>3, <4>4
    <3>4. CASE ~Aborts(d, Expected[c])
      <4> DEFINE r == [streams[c] EXCEPT !.checked = TRUE]
      <4>1. r \in Stream /\ r.phase = "open"
        BY <2>1, <3>1
      <4>2. /\ streams' = [streams EXCEPT ![c] = r] /\ stats' = stats
            /\ entries' = entries /\ started' = started
        BY <2>1, <2>8, <3>4 DEF check_early
      <4>3. Without(stats[c]) /\ Within(stats[c], started - 1)
        BY <2>1, <2>2, <3>1
      <4> HIDE DEF r, left
      <4> QED
        BY <2>1, <2>6, <3>2, <4>1, <4>2, <4>3
    <3> QED
      BY <3>3, <3>4
  <2>9. Closed \in Stream /\ Closed.phase # "open"
    BY <1>0 DEF Closed
  <2>10. ASSUME NEW c \in GuardChats, NEW text \in Answers, EndStream(c, text)
         PROVE  GuardCounts'
    <3> DEFINE s == IF streams[c].guarded THEN Reported(Found(c), streams[c].checked) ELSE stats[c]
    <3>1. left(c) = started - 1 /\ left(c) \in Nat /\ started <= started /\ (started - 1) + 1 = started
      BY <2>1, <2>4, <2>10 DEF EndStream
    <3>2. /\ streams' = [streams EXCEPT ![c] = Closed] /\ started' = started
          /\ stats' = [stats EXCEPT ![c] = s] \/ (stats' = stats /\ s = stats[c])
          /\ entries' \in {entries, Touched(c)}
      BY <2>10 DEF EndStream
    <3>3. streams[c].checked \in BOOLEAN
      BY <2>1
    <3>4. Within(Reported(Found(c), streams[c].checked), (started - 1) + 1)
      BY <2>4, <3>1, <3>3, ReportsStayWithin
    <3>5. Within(stats[c], started)
      <4>1. Within(stats[c], started - 1)
        BY <2>2, <3>1
      <4>2. stats[c].checks \in Nat
        BY <4>1 DEF Within, NewStats
      <4> QED
        BY <2>1, <4>1, <4>2 DEF Within
    <3>6. GuardInv' => Without(s)
      BY <2>1, <3>2 DEF GuardInv
    <3>7. Without(Reported(Found(c), streams[c].checked))
      <4> DEFINE counted == [Found(c) EXCEPT !.checks = @ + 1]
      <4>1. Without(counted)
        BY <2>4 DEF Without, NewStats
      <4>2. Without(Calibrated(counted))
        <5> HIDE DEF counted
        <5> QED
          BY <4>1, NothingToDisable
      <4> QED
        BY <2>4, <4>2 DEF Reported
    <3>8. Without(s) /\ Within(s, started)
      BY <2>1, <3>1, <3>4, <3>5, <3>7
    <3> HIDE DEF s, left
    <3> QED
      BY <2>1, <2>6, <2>9, <3>1, <3>2, <3>8
  <2>11. ASSUME NEW c \in GuardChats, AnswerAnew(c)
         PROVE  GuardCounts'
    <3>1. left(c) = started /\ started <= started
      BY <2>1, <2>11 DEF AnswerAnew
    <3>2. /\ streams' = [streams EXCEPT ![c] = Closed] /\ stats' = stats
          /\ entries' = entries /\ started' = started
      BY <2>11 DEF AnswerAnew
    <3>3. Without(stats[c]) /\ Within(stats[c], started)
      BY <2>1, <2>2, <3>1
    <3> HIDE DEF left
    <3> QED
      BY <2>1, <2>6, <2>9, <3>1, <3>2, <3>3
  <2>12. CASE UNCHANGED guardVars
    BY <2>12 DEF guardVars, GuardCounts, GuardInv, GuardTypeOK, Within, Without
  <2> QED
    BY <2>7, <2>8, <2>10, <2>11, <2>12 DEF GuardNext
<1>3. GuardCounts => GuardTypeOK
  BY DEF GuardCounts
<1> QED
  BY <1>1, <1>2, <1>3, PTL DEF GuardSpec

-----------------------------------------------------------------------------
(* The rows of the users, their activity and their answers                 *)

SettingsRow == [exists : BOOLEAN, language : Supported \cup {None}, debate : Seq(DebateActive),
                profile : Profiles4, flags : SUBSET Flags, timezone : Zones \cup {"UTC"}]

(* A provider is in a user's list once at most: a button removes it or     *)
(* adds it.                                                                *)
SettingsTyped ==
    /\ SettingsInv
    /\ settings \in [SettingsUsers -> SettingsRow]
    /\ \A u \in SettingsUsers : IsInjective(settings[u].debate)

(* What is toggled twice is in the list once.                              *)
LEMMA TogglingKeeps ==
  ASSUME NEW S, NEW list \in Seq(S), IsInjective(list), NEW p \in S
  PROVE  Toggled(list, p) \in Seq(S) /\ IsInjective(Toggled(list, p))
<1>1. CASE p \in ToSet(list)
  <2>1. p \in Range(list)
    BY <1>1 DEF ToSet, Range
  <2> QED
    BY <1>1, <2>1, RemovingKeeps DEF Toggled
<1>2. CASE p \notin ToSet(list)
  <2> DEFINE new == Append(list, p)
  <2>1. Toggled(list, p) = new
    BY <1>2 DEF Toggled
  <2>2. /\ new \in Seq(S) /\ DOMAIN new = 1 .. Len(list) + 1 /\ Len(list) \in Nat
        /\ \A i \in 1 .. Len(list) + 1 : new[i] = IF i <= Len(list) THEN list[i] ELSE p
    OBVIOUS
  <2>3. \A i \in 1 .. Len(list) : list[i] # p
    BY <1>2 DEF ToSet
  <2>4. \A i, j \in 1 .. Len(list) : list[i] = list[j] => i = j
    BY DEF IsInjective
  <2> HIDE DEF new
  <2>5. ASSUME NEW i \in DOMAIN new, NEW j \in DOMAIN new, new[i] = new[j]
        PROVE  i = j
    <3>1. i \in 1 .. Len(list) \/ i = Len(list) + 1
      BY <2>2
    <3>2. j \in 1 .. Len(list) \/ j = Len(list) + 1
      BY <2>2
    <3> QED
      BY <2>2, <2>3, <2>4, <2>5, <3>1, <3>2
  <2> QED
    BY <2>1, <2>2, <2>5 DEF IsInjective
<1> QED
  BY <1>1, <1>2

(* No button, command or restart leaves a row the settings cannot hold.    *)
LEMMA SettingsTypedKeep == SettingsTyped /\ [SettingsNext]_settingsVars => SettingsTyped'
<1> SUFFICES ASSUME SettingsTyped, [SettingsNext]_settingsVars
             PROVE  SettingsTyped'
  OBVIOUS
<1>1. SettingsInv'
  BY SettingsKeep DEF SettingsTyped
<1>2. /\ settings \in [SettingsUsers -> SettingsRow]
      /\ \A u \in SettingsUsers : settings[u] \in SettingsRow /\ IsInjective(settings[u].debate)
  BY DEF SettingsTyped
<1>3. ASSUME settings' = settings
      PROVE  SettingsTyped'
  BY <1>1, <1>2, <1>3 DEF SettingsTyped, SettingsRow
<1>4. ASSUME NEW u \in SettingsUsers, NEW row \in SettingsRow, IsInjective(row.debate), Upsert(u, row)
      PROVE  SettingsTyped'
  <2>1. [row EXCEPT !.exists = TRUE] \in SettingsRow
    BY DEF SettingsRow
  <2>2. [row EXCEPT !.exists = TRUE].debate = row.debate
    BY DEF SettingsRow
  <2> QED
    BY <1>1, <1>2, <1>4, <2>1, <2>2 DEF Upsert, SettingsTyped, SettingsRow
<1>5. ASSUME NEW u \in SettingsUsers, NEW p \in DebateActive, toggle_debate_provider(u, p)
      PROVE  SettingsTyped'
  <2>1. settings[u].debate \in Seq(DebateActive) /\ IsInjective(settings[u].debate)
    BY <1>2 DEF SettingsRow
  <2> DEFINE list == Toggled(settings[u].debate, p)
  <2>2. list \in Seq(DebateActive) /\ IsInjective(list)
    BY <2>1, TogglingKeeps
  <2>3. Upsert(u, [settings[u] EXCEPT !.debate = list])
    BY <1>5 DEF toggle_debate_provider
  <2> HIDE DEF list
  <2>4. [settings[u] EXCEPT !.debate = list] \in SettingsRow
    BY <1>2, <2>2 DEF SettingsRow
  <2>5. [settings[u] EXCEPT !.debate = list].debate = list
    BY <1>2 DEF SettingsRow
  <2> QED
    BY <1>4, <2>2, <2>3, <2>4, <2>5
<1>6. ASSUME NEW u \in SettingsUsers, NEW profile \in Profiles4, set_rate_limit(u, profile)
      PROVE  SettingsTyped'
  <2>1. /\ [settings[u] EXCEPT !.profile = profile] \in SettingsRow
        /\ [settings[u] EXCEPT !.profile = profile].debate = settings[u].debate
    BY <1>2 DEF SettingsRow
  <2> QED
    BY <1>2, <1>4, <1>6, <2>1 DEF set_rate_limit
<1>7. ASSUME NEW u \in SettingsUsers, NEW flag \in Flags, toggle_personality(u, flag)
      PROVE  SettingsTyped'
  <2> DEFINE flags == IF flag \in settings[u].flags THEN settings[u].flags \ {flag}
                      ELSE settings[u].flags \cup {flag}
  <2>1. flags \in SUBSET Flags
    BY <1>2 DEF SettingsRow
  <2>2. Upsert(u, [settings[u] EXCEPT !.flags = flags])
    BY <1>7 DEF toggle_personality
  <2> HIDE DEF flags
  <2>3. /\ [settings[u] EXCEPT !.flags = flags] \in SettingsRow
        /\ [settings[u] EXCEPT !.flags = flags].debate = settings[u].debate
    BY <1>2, <2>1 DEF SettingsRow
  <2> QED
    BY <1>2, <1>4, <2>2, <2>3
<1>8. ASSUME NEW u \in SettingsUsers, NEW l \in Supported, set_settings_language(u, l)
      PROVE  SettingsTyped'
  <2>1. /\ [settings[u] EXCEPT !.language = l] \in SettingsRow
        /\ [settings[u] EXCEPT !.language = l].debate = settings[u].debate
    BY <1>2 DEF SettingsRow
  <2> QED
    BY <1>2, <1>4, <1>8, <2>1 DEF set_settings_language
<1>9. ASSUME NEW u \in SettingsUsers, NEW zone \in Zones, set_timezone(u, zone)
      PROVE  SettingsTyped'
  <2>1. /\ [settings[u] EXCEPT !.timezone = zone] \in SettingsRow
        /\ [settings[u] EXCEPT !.timezone = zone].debate = settings[u].debate
    BY <1>2 DEF SettingsRow
  <2> QED
    BY <1>2, <1>4, <1>9, <2>1 DEF set_timezone
<1>10. CASE UNCHANGED settingsVars
  BY <1>3, <1>10 DEF settingsVars
<1>11. ASSUME NEW u \in SettingsUsers,
              \/ handle_setmodel_command(u) \/ handle_resetmodel_command(u)
              \/ handle_settings_callback(u) \/ OpenModelMenu(u)
              \/ \E slot \in Slots : ResolveForMessage(u, slot)
       PROVE  SettingsTyped'
  BY <1>3, <1>11 DEF handle_setmodel_command, handle_resetmodel_command, handle_settings_callback,
     OpenModelMenu, OpenSlotMenu, ResolveForMessage, set_user_model, reset_user_model, reset_all_slots
<1> QED
  BY <1>5, <1>6, <1>7, <1>8, <1>9, <1>10, <1>11 DEF SettingsNext

Activity(t) == [stamps : Seq(0 .. t), pushes : 0 .. MAX_PROACTIVE_PER_DAY, day : Int,
                reactive : (0 .. t) \cup {Never}]

(* What is kept of a user's messages comes from the past, and as many of   *)
(* them as are remembered.                                                 *)
ActivityTyped ==
    /\ clock \in Nat
    /\ activity \in [TriggerUsers -> Activity(clock)]
    /\ \A u \in TriggerUsers : Len(activity[u].stamps) <= MaxTimestamps

(* A message and the remarks it brings leave a record.                     *)
LEMMA RemarkedIsTyped ==
  ASSUME clock \in Nat, NEW u, activity[u] \in Activity(clock),
         Len(activity[u].stamps) <= MaxTimestamps, NEW remembers, NEW dated
  PROVE  /\ Remarked(u, remembers, dated).record \in Activity(clock)
         /\ Len(Remarked(u, remembers, dated).record.stamps) <= MaxTimestamps
<1>0. MAX_PROACTIVE_PER_DAY \in Nat /\ MaxTimestamps \in Nat \ {0}
  BY TriggersAssumption DEF TriggersAssumption
<1> DEFINE Kept2(r) == r \in Activity(clock) /\ Len(r.stamps) <= MaxTimestamps
           r == record_activity(activity[u], clock)
           seen == check_triggers(r, clock)
           reactive == check_reactive_trigger(seen.record, clock, dated)
<1>1. Kept2(r)
  <2> DEFINE old == activity[u].stamps
             new == IF Len(old) < MaxTimestamps THEN Append(old, clock) ELSE Append(Tail(old), clock)
  <2>1. old \in Seq(0 .. clock) /\ Len(old) \in Nat /\ Len(old) <= MaxTimestamps /\ clock \in 0 .. clock
    BY DEF Activity
  <2>2. r = [activity[u] EXCEPT !.stamps = new]
    BY DEF record_activity
  <2> HIDE DEF old
  <2>3. new \in Seq(0 .. clock) /\ Len(new) <= MaxTimestamps
    <3>1. CASE Len(old) < MaxTimestamps
      BY <1>0, <2>1, <3>1
    <3>2. CASE ~ (Len(old) < MaxTimestamps)
      <4>1. old # <<>> /\ Len(old) = MaxTimestamps
        BY <1>0, <2>1, <3>2
      <4>2. Tail(old) \in Seq(0 .. clock) /\ Len(Tail(old)) = Len(old) - 1
        BY <2>1, <4>1
      <4> DEFINE rest == Tail(old)
      <4> HIDE DEF rest
      <4>3. Append(rest, clock) \in Seq(0 .. clock) /\ Len(Append(rest, clock)) = Len(rest) + 1
        BY <2>1, <4>2 DEF rest
      <4> QED
        BY <1>0, <2>1, <3>2, <4>1, <4>2, <4>3 DEF rest
    <3> QED
      BY <3>1, <3>2
  <2> HIDE DEF new, r
  <2> QED
    BY <2>2, <2>3 DEF Activity
<1>2. ASSUME NEW q, Kept2(q)
      PROVE  Kept2(Today(q, clock))
  <2>1. DayOf(clock) \in Int
    BY DEF DayOf
  <2>2. 0 \in 0 .. MAX_PROACTIVE_PER_DAY
    BY <1>0
  <2> QED
    BY <1>2, <2>1, <2>2 DEF Today, Activity
<1>3. ASSUME NEW q, Kept2(q), can_push_proactive(q, clock)
      PROVE  Kept2(mark_proactive_push(q, clock))
  <2>1. Kept2(Today(q, clock)) /\ Today(q, clock).pushes < MAX_PROACTIVE_PER_DAY
    BY <1>2, <1>3 DEF can_push_proactive
  <2>2. Today(q, clock).pushes + 1 \in 0 .. MAX_PROACTIVE_PER_DAY
    BY <1>0, <2>1 DEF Activity
  <2> QED
    BY <2>1, <2>2 DEF mark_proactive_push, Activity
<1>4. Kept2(seen.record)
  <2> HIDE DEF r
  <2>1. \/ seen.record = mark_proactive_push(r, clock) /\ can_push_proactive(r, clock)
        \/ seen.record = r
        \/ seen.record = Today(r, clock)
    BY DEF check_triggers
  <2> QED
    BY <1>1, <1>2, <1>3, <2>1
<1>5. Kept2(reactive.record)
  <2> DEFINE q == seen.record
  <2>1. reactive.record \in {q, [q EXCEPT !.reactive = clock]}
    BY DEF check_reactive_trigger
  <2> HIDE DEF q, seen, reactive
  <2>2. Kept2([q EXCEPT !.reactive = clock])
    BY <1>4 DEF Activity, q
  <2> QED
    BY <1>4, <2>1, <2>2 DEF q
<1>6. Remarked(u, remembers, dated).record \in {reactive.record, seen.record}
  BY DEF Remarked
<1> HIDE DEF reactive, seen
<1> QED
  BY <1>4, <1>5, <1>6

(* What a message brought, and from whom.                                  *)
Brought(d) == d # None => /\ d.kind \in {"answer", "error"}
                          /\ d.by \in Registered \cup {Streaming, None}

(* Each message adds no more than itself and its answer to the history.    *)
AnswerInv ==
    /\ SettingsTyped /\ ActivityTyped
    /\ DOMAIN delivered = TriggerUsers /\ \A u \in TriggerUsers : Brought(delivered[u])
    /\ requests \in 0 .. MaxRequests
    /\ turns \in [TriggerUsers -> 0 .. 2 * requests]

(* Who answers is registered.                                              *)
LEMMA AnswererIsRegistered ==
  ASSUME NEW slot, NEW m, NEW outcomes, fallback_resolve(slot, m, outcomes).outcome = "text"
  PROVE  fallback_resolve(slot, m, outcomes).by \in Registered
<1> DEFINE chain == get_fallback_chain(slot)
           ends == {i \in DOMAIN chain : OutcomeAt(chain, outcomes, i) # "failed"}
           i == Min(ends)
<1>1. ends # {} /\ OutcomeAt(chain, outcomes, i) # "raised"
  BY DEF fallback_resolve
<1>2. fallback_resolve(slot, m, outcomes).by = chain[i]
  BY <1>1 DEF fallback_resolve
<1>3. chain[i] \in Registered
  BY <1>1 DEF OutcomeAt
<1> QED
  BY <1>2, <1>3

(* What brings an answer is the provider that gave it, or an error.        *)
LEMMA DeliveryIsBrought ==
  ASSUME NEW r, r.by \in Registered \cup {Streaming}, NEW remark, NEW d \in Delivery(r, remark)
  PROVE  Brought(d)
BY DEF Delivery, Brought

(* A message that is handled, however it is answered.                      *)
LEMMA HandlingKeeps ==
  ASSUME AnswerInv, requests < MaxRequests, requests' = requests + 1, NEW u \in TriggerUsers,
         NEW slot, ResolveForMessage(u, slot), NEW remembers, NEW dated,
         activity' = [activity EXCEPT ![u] = Remarked(u, remembers, dated).record],
         NEW d, Brought(d), delivered' = [delivered EXCEPT ![u] = d],
         UNCHANGED turns \/ turns' = [turns EXCEPT ![u] = @ + 2],
         UNCHANGED clock
  PROVE  AnswerInv'
<1>0. MaxRequests \in Nat
  BY DatesAssumption DEF DatesAssumption
<1>1. SettingsTyped'
  <2>1. overrides \in [SettingsUsers -> [Keys -> StoredModels \cup {None}]]
    BY DEF AnswerInv, SettingsTyped, SettingsInv
  <2>2. overrides' \in [SettingsUsers -> [Keys -> StoredModels \cup {None}]]
    <3>1. overrides' = [overrides EXCEPT ![u] = Cleaned(@, ReadFor(u, slot))]
      BY DEF ResolveForMessage
    <3>2. CASE u \in SettingsUsers
      <4>1. Cleaned(overrides[u], ReadFor(u, slot)) \in [Keys -> StoredModels \cup {None}]
        BY <2>1, <3>2, CleaningKeeps DEF SettingsInv
      <4> QED
        BY <2>1, <3>1, <3>2, <4>1
    <3>3. CASE u \notin SettingsUsers
      BY <2>1, <3>1, <3>3
    <3> QED
      BY <3>2, <3>3
  <2>3. settings' = settings
    BY DEF ResolveForMessage
  <2> QED
    BY <2>2, <2>3 DEF AnswerInv, SettingsTyped, SettingsInv, SettingsRow
<1>2. ActivityTyped'
  <2>1. clock \in Nat /\ activity \in [TriggerUsers -> Activity(clock)]
        /\ \A v \in TriggerUsers : Len(activity[v].stamps) <= MaxTimestamps
    BY DEF AnswerInv, ActivityTyped
  <2>2. /\ Remarked(u, remembers, dated).record \in Activity(clock)
        /\ Len(Remarked(u, remembers, dated).record.stamps) <= MaxTimestamps
    BY <2>1, RemarkedIsTyped
  <2>3. Activity(clock)' = Activity(clock)
    BY DEF Activity
  <2> QED
    BY <2>1, <2>2, <2>3 DEF ActivityTyped
<1>3. /\ requests' \in 0 .. MaxRequests
      /\ turns' \in [TriggerUsers -> 0 .. 2 * requests']
  <2>1. requests \in Nat /\ requests' \in 0 .. MaxRequests
    BY <1>0 DEF AnswerInv
  <2>2. \A v \in TriggerUsers : turns[v] \in 0 .. 2 * requests
    BY DEF AnswerInv
  <2>3. ASSUME NEW n \in 0 .. 2 * requests
        PROVE  {n, n + 2} \subseteq 0 .. 2 * requests'
    BY <2>1, <2>3
  <2> QED
    BY <2>1, <2>2, <2>3 DEF AnswerInv
<1>4. DOMAIN delivered' = TriggerUsers /\ \A v \in TriggerUsers : Brought(delivered'[v])
  BY DEF AnswerInv
<1> QED
  BY <1>1, <1>2, <1>3, <1>4 DEF AnswerInv, Brought

(* Every message, answer and hour keeps the user's rows.                   *)
LEMMA StepAnswers ==
  ASSUME AnswerInv,
         [\/ AnswerNext
          \/ SettingsNext /\ UNCHANGED <<clock, activity, delivered, turns, requests>>]_answerVars
  PROVE  AnswerInv'
<1>0. Brought(Failure)
  BY DEF Brought, Failure
<1>1. ASSUME NEW u \in TriggerUsers, NEW question \in Questions, NEW remembers \in BOOLEAN,
             NEW dated \in BOOLEAN, NEW outcomes,
             process_user_message(u, question, remembers, dated, outcomes)
      PROVE  AnswerInv'
  <2> DEFINE slot == classify(question)
             r == fallback_resolve(slot, resolve_model(u, slot), outcomes)
             said == Remarked(u, remembers, dated)
  <2>1. /\ requests < MaxRequests /\ requests' = requests + 1 /\ ResolveForMessage(u, slot)
        /\ activity' = [activity EXCEPT ![u] = said.record] /\ UNCHANGED clock
    BY <1>1 DEF process_user_message
  <2>2. CASE r.outcome = "text"
    <3>1. PICK d \in Delivery(r, said.remark) : delivered' = [delivered EXCEPT ![u] = d]
      BY <1>1, <2>2 DEF process_user_message
    <3>2. turns' = [turns EXCEPT ![u] = @ + 2]
      BY <1>1, <2>2 DEF process_user_message
    <3>3. r.by \in Registered
      BY <2>2, AnswererIsRegistered
    <3>4. Brought(d)
      <4> HIDE DEF r, said
      <4> QED
        BY <3>1, <3>3, DeliveryIsBrought
    <3> HIDE DEF slot, r
    <3> QED
      BY <2>1, <3>1, <3>2, <3>4, HandlingKeeps
  <2>3. CASE r.outcome # "text"
    <3>1. delivered' = [delivered EXCEPT ![u] = Failure] /\ UNCHANGED turns
      BY <1>1, <2>3 DEF process_user_message
    <3> HIDE DEF slot, r
    <3> QED
      BY <1>0, <2>1, <3>1, HandlingKeeps
  <2> QED
    BY <2>2, <2>3
<1>2. ASSUME NEW u \in TriggerUsers, NEW question \in Questions, NEW remembers \in BOOLEAN,
             NEW dated \in BOOLEAN, NEW streamed \in BOOLEAN,
             process_user_message_streaming(u, question, remembers, dated, streamed)
      PROVE  AnswerInv'
  <2> DEFINE slot == classify(question)
             r == [by |-> Streaming, model |-> resolve_model(u, slot), notice |-> FALSE]
             said == Remarked(u, remembers, dated)
  <2>1. /\ requests < MaxRequests /\ requests' = requests + 1 /\ ResolveForMessage(u, slot)
        /\ activity' = [activity EXCEPT ![u] = said.record] /\ UNCHANGED clock
    BY <1>2 DEF process_user_message_streaming
  <2>2. CASE streamed
    <3>1. PICK d \in Delivery(r, "none") : delivered' = [delivered EXCEPT ![u] = d]
      BY <1>2, <2>2 DEF process_user_message_streaming
    <3>2. turns' = [turns EXCEPT ![u] = @ + 2]
      BY <1>2, <2>2 DEF process_user_message_streaming
    <3>3. r.by = Streaming
      OBVIOUS
    <3>4. Brought(d)
      <4> HIDE DEF r
      <4> QED
        BY <3>1, <3>3, DeliveryIsBrought
    <3> HIDE DEF slot, r
    <3> QED
      BY <2>1, <3>1, <3>2, <3>4, HandlingKeeps
  <2>3. CASE ~streamed
    <3>1. delivered' = [delivered EXCEPT ![u] = Failure] /\ UNCHANGED turns
      BY <1>2, <2>3 DEF process_user_message_streaming
    <3> HIDE DEF slot, r
    <3> QED
      BY <1>0, <2>1, <3>1, HandlingKeeps
  <2> QED
    BY <2>2, <2>3
<1>3. CASE TimePasses
  <2> DEFINE later == {i \in DOMAIN Dates : Dates[i] > clock}
  <2>1. later # {} /\ clock' = Dates[Min(later)]
        /\ UNCHANGED <<overrides, settings, activity, delivered, turns, requests>>
    BY <1>3 DEF TimePasses
  <2>2. later \in SUBSET Nat /\ \A i \in later : Dates[i] \in Nat /\ Dates[i] > clock
    BY DatesAssumption DEF DatesAssumption
  <2> HIDE DEF later
  <2>3. Min(later) \in later
    BY <2>1, <2>2, MinIs
  <2>4. clock' \in Nat /\ clock' > clock
    BY <2>1, <2>2, <2>3
  <2>5. clock \in Nat /\ activity \in [TriggerUsers -> Activity(clock)]
        /\ \A v \in TriggerUsers : Len(activity[v].stamps) <= MaxTimestamps
    BY DEF AnswerInv, ActivityTyped
  <2>6. ASSUME NEW v \in TriggerUsers
        PROVE  activity[v] \in Activity(clock')
    <3>1. 0 .. clock \subseteq 0 .. clock'
      BY <2>4, <2>5
    <3>2. activity[v].stamps \in Seq(0 .. clock')
      <4> DEFINE s == activity[v].stamps
                 Past == 0 .. clock
                 Now == 0 .. clock'
      <4>1. s \in Seq(Past)
        BY <2>5 DEF Activity
      <4>2. Past \subseteq Now
        BY <3>1
      <4> HIDE DEF s, Past, Now
      <4>3. s \in Seq(Now)
        BY <4>1, <4>2
      <4> QED
        BY <4>3 DEF s, Now
    <3>3. activity[v].reactive \in (0 .. clock') \cup {Never}
      BY <2>5, <3>1 DEF Activity
    <3> QED
      BY <2>5, <3>2, <3>3 DEF Activity
  <2>7. ActivityTyped'
    <3>1. activity' = activity /\ Activity(clock)' = Activity(clock')
      BY <2>1 DEF Activity
    <3> QED
      BY <2>4, <2>5, <2>6, <3>1 DEF ActivityTyped
  <2> QED
    BY <2>1, <2>7 DEF AnswerInv, SettingsTyped, SettingsInv, SettingsRow, Brought
<1>4. CASE RestartAnswering
  <2>1. UserActivityRecord \in Activity(clock) /\ Len(UserActivityRecord.stamps) <= MaxTimestamps
    <3>1. /\ 0 \in 0 .. MAX_PROACTIVE_PER_DAY /\ Len(<<>>) <= MaxTimestamps
          /\ Never \in Int /\ <<>> \in Seq(0 .. clock)
      BY TriggersAssumption DEF TriggersAssumption, Never
    <3> QED
      BY <3>1 DEF UserActivityRecord, Activity
  <2>2. ActivityTyped'
    <3>1. Activity(clock)' = Activity(clock) /\ clock' = clock
      BY <1>4 DEF RestartAnswering, Activity
    <3> QED
      BY <1>4, <2>1, <3>1 DEF RestartAnswering, ActivityTyped, AnswerInv
  <2> QED
    BY <1>4, <2>2 DEF RestartAnswering, AnswerInv, SettingsTyped, SettingsInv, SettingsRow, Brought
<1>5. ASSUME SettingsNext, UNCHANGED <<clock, activity, delivered, turns, requests>>
      PROVE  AnswerInv'
  <2>1. SettingsTyped'
    BY <1>5, SettingsTypedKeep DEF AnswerInv
  <2> QED
    BY <1>5, <2>1 DEF AnswerInv, ActivityTyped, Activity, Brought
<1>6. ASSUME UNCHANGED answerVars
      PROVE  AnswerInv'
  BY <1>6 DEF answerVars, AnswerInv, SettingsTyped, SettingsInv, SettingsRow, ActivityTyped, Activity, Brought
<1> QED
  BY <1>1, <1>2, <1>3, <1>4, <1>5, <1>6 DEF AnswerNext

(* Rows and records keep their shape, whatever is chosen between the       *)
(* messages and however long they are apart.                               *)
THEOREM AnswerTypeCorrect == AnswerSpec => []AnswerTypeOK
<1>1. AnswerInit => AnswerInv
  <2> SUFFICES ASSUME AnswerInit PROVE AnswerInv
    OBVIOUS
  <2>1. Dates[1] \in Nat /\ MaxRequests \in Nat
    BY DatesAssumption DEF DatesAssumption
  <2>2. UserActivityRecord \in Activity(clock) /\ Len(UserActivityRecord.stamps) <= MaxTimestamps
    <3>1. /\ 0 \in 0 .. MAX_PROACTIVE_PER_DAY /\ Len(<<>>) <= MaxTimestamps
          /\ Never \in Int /\ <<>> \in Seq(0 .. clock)
      BY TriggersAssumption DEF TriggersAssumption, Never
    <3> QED
      BY <3>1 DEF UserActivityRecord, Activity
  <2>3. ActivityTyped
    BY <2>1, <2>2 DEF AnswerInit, TriggerInit, ActivityTyped
  <2>4. DefaultRow \in SettingsRow /\ IsInjective(DefaultRow.debate)
    BY DefaultsAssumption DEF DefaultsAssumption, DefaultRow, SettingsRow, IsInjective
  <2>5. SettingsTyped
    BY <2>4 DEF AnswerInit, SettingsInit, SettingsTyped, SettingsInv
  <2> QED
    BY <2>1, <2>3, <2>5 DEF AnswerInit, AnswerInv, Brought
<1>2. AnswerInv => AnswerTypeOK
  <2> SUFFICES ASSUME AnswerInv PROVE AnswerTypeOK
    OBVIOUS
  <2>1. SettingsTypeOK
    <3>1. \A u \in SettingsUsers : /\ settings[u] \in SettingsRow /\ IsInjective(settings[u].debate)
      BY DEF AnswerInv, SettingsTyped
    <3>2. \A u \in SettingsUsers : ToSet(settings[u].debate) \subseteq DebateActive
      BY <3>1 DEF SettingsRow, ToSet
    <3> QED
      BY <3>1, <3>2 DEF SettingsTypeOK, SettingsRow, AnswerInv, SettingsTyped, SettingsInv
  <2>2. TriggerTypeOK
    BY DEF AnswerInv, ActivityTyped, Activity, TriggerTypeOK
  <2>3. turns \in [TriggerUsers -> 0 .. 2 * MaxRequests]
    <3>1. 0 .. 2 * requests \subseteq 0 .. 2 * MaxRequests
      BY DatesAssumption DEF DatesAssumption, AnswerInv
    <3> QED
      BY <3>1 DEF AnswerInv
  <2> QED
    BY <2>1, <2>2, <2>3 DEF AnswerTypeOK, AnswerInv, Brought
<1> QED
  BY <1>1, <1>2, StepAnswers, PTL DEF AnswerSpec

-----------------------------------------------------------------------------
(* What is recalled of it                                                  *)

(* The layers hold entries of the memory, whatever is imported.            *)
IsNote(line) == line.key \in Noted \cup {None}

NotesInv ==
  \A s \in Layers : /\ \A line \in ToSet(table[s]) : IsNote(line)
                    /\ \A line \in ToSet(LinesOf(s)) : IsNote(line)

(* An import brings no line of a layer but entries and lines without a key. *)
LEMMA StepNotes == ItemsInv /\ NotesInv /\ [ItemsNext]_itemVars => NotesInv'
<1> SUFFICES ASSUME ItemsInv, NotesInv, [ItemsNext]_itemVars
             PROVE  NotesInv'
  OBVIOUS
<1>0. Layers \subseteq Stores /\ "bookmarks" \notin Layers
  BY DEF Layers
<1>1. ASSUME UNCHANGED <<table, file>>
      PROVE  NotesInv'
  BY <1>1 DEF NotesInv, LinesOf
<1>2. ASSUME NEW s \in Stores, \A r \in Stores \ {s} : table'[r] = table[r] /\ file'[r] = file[r],
             s \in Layers => /\ \A line \in ToSet(table'[s]) : IsNote(line)
                             /\ \A line \in ToSet(LinesOf(s)') : IsNote(line)
      PROVE  NotesInv'
  BY <1>0, <1>2 DEF NotesInv, LinesOf
<1>3. ASSUME NEW mode, StartBot(mode)
      PROVE  NotesInv'
  <2>1. table' = table /\ \A r \in Stores \ {"bookmarks"} : file'[r] = file[r]
    BY <1>3 DEF StartBot
  <2> QED
    BY <1>0, <1>2, <2>1, StoresAre
<1>4. CASE ImportStore
  <2>1. PICK s : s = StoreOrder[boot.store]
    OBVIOUS
  <2>2. /\ s \in Stores /\ LinesOf(s) \in Seq(Lines)
    <3>1. boot.at = "import"
      BY <1>4 DEF ImportStore
    <3>2. boot \in [at : {"import", "rename"}, store : 1 .. 4]
      BY <3>1 DEF ItemsInv, Down, Running
    <3> QED
      BY <2>1, <3>2, StoresAre, WhereItIs
  <2>3. /\ file' = file
        /\ table' = table \/ table' = [table EXCEPT ![s] = Only(LinesOf(s), Sound)]
    BY <1>4, <2>1 DEF ImportStore
  <2>4. ToSet(Only(LinesOf(s), Sound)) \subseteq ToSet(LinesOf(s))
    <3>1. ToSet(Only(LinesOf(s), Sound)) = ToSet(LinesOf(s)) \cap Sound
      BY <2>2, OnlyKeeps
    <3> QED
      BY <3>1
  <2>5. CASE table' = [table EXCEPT ![s] = Only(LinesOf(s), Sound)]
    <3>1. table'[s] = Only(LinesOf(s), Sound) /\ \A r \in Stores \ {s} : table'[r] = table[r]
      BY <2>2, <2>5 DEF ItemsInv
    <3>2. LinesOf(s)' = LinesOf(s)
      BY <2>3 DEF LinesOf
    <3> QED
      BY <1>2, <2>2, <2>3, <2>4, <3>1, <3>2 DEF NotesInv
  <2> QED
    BY <1>1, <2>3, <2>5
<1>5. CASE RenameStore
  <2>1. PICK s : s = StoreOrder[boot.store]
    OBVIOUS
  <2>2. s \in Stores
    <3>1. boot.at = "rename"
      BY <1>5 DEF RenameStore
    <3>2. boot \in [at : {"import", "rename"}, store : 1 .. 4]
      BY <3>1 DEF ItemsInv, Down, Running
    <3> QED
      BY <2>1, <3>2, StoresAre
  <2>3. file' = [file EXCEPT ![s] = None] /\ table' = table
    BY <1>5, <2>1 DEF RenameStore
  <2>4. LinesOf(s)' = <<>> /\ \A r \in Stores \ {s} : file'[r] = file[r]
    BY <2>2, <2>3 DEF ItemsInv, LinesOf
  <2>5. ToSet(<<>>) = {}
    BY DEF ToSet
  <2> QED
    BY <1>2, <2>2, <2>3, <2>4, <2>5 DEF NotesInv
<1>6. CASE StopBot
  BY <1>1, <1>6 DEF StopBot
<1>7. ASSUME NEW u \in Keepers, NEW s \in Stores, NEW k \in Keys0, delete_entry(u, s, k)
      PROVE  NotesInv'
  <2> DEFINE kept == Lines \ {Entry(u, k)}
  <2>1. table[s] \in Seq(Lines) /\ LinesOf(s) \in Seq(Lines) /\ (file[s] # None => LinesOf(s) = file[s])
    <3>1. /\ table[s] \in Seq(Sound) /\ LinesOf(s) \in Seq(Lines)
          /\ (file[s] # None => LinesOf(s) = file[s])
      BY <1>7, WhereItIs
    <3>2. Sound \subseteq Lines
      BY DEF Sound, Parsable
    <3> QED
      BY <3>1, <3>2
  <2>2. /\ ToSet(Only(table[s], kept)) \subseteq ToSet(table[s])
        /\ ToSet(Only(LinesOf(s), kept)) \subseteq ToSet(LinesOf(s))
        /\ Only(LinesOf(s), kept) \in Seq(Lines)
    <3>1. Only(LinesOf(s), kept) \in Seq(Lines \cap kept)
      BY <2>1, OnlyKeeps
    <3> HIDE DEF kept
    <3> QED
      BY <2>1, <3>1, OnlyKeeps
  <2>3. /\ table' = table \/ table' = [table EXCEPT ![s] = Only(table[s], kept)]
        /\ file' = file \/ (file[s] # None /\ file' = [file EXCEPT ![s] = Only(file[s], kept)])
    BY <1>7 DEF delete_entry
  <2> HIDE DEF kept
  <2>4. \A r \in Stores \ {s} : table'[r] = table[r] /\ file'[r] = file[r]
    BY <2>3 DEF ItemsInv
  <2>5. ToSet(table'[s]) \subseteq ToSet(table[s])
    BY <1>7, <2>2, <2>3 DEF ItemsInv
  <2>6. ToSet(LinesOf(s)') \subseteq ToSet(LinesOf(s))
    <3>1. CASE file' = file
      BY <3>1 DEF LinesOf
    <3>2. CASE file[s] # None /\ file' = [file EXCEPT ![s] = Only(file[s], kept)]
      <4>1. file'[s] = Only(LinesOf(s), kept) /\ file'[s] # None
        BY <1>7, <2>1, <2>2, <3>2, ItemsAssumption DEF ItemsInv, ItemsAssumption
      <4> QED
        BY <2>2, <4>1 DEF LinesOf
    <3> QED
      BY <2>3, <3>1, <3>2
  <2> QED
    BY <1>2, <1>7, <2>4, <2>5, <2>6 DEF NotesInv
<1>8. ASSUME NEW u \in Keepers, NEW s \in Stores, NEW k \in Keys0, append_entry(u, s, k),
             s \in Layers => k \in Noted
      PROVE  NotesInv'
  <2> DEFINE e == Entry(u, k)
  <2>1. e \in Sound /\ Sound \subseteq Lines /\ (s \in Layers => IsNote(e))
        /\ table[s] \in Seq(Sound) /\ LinesOf(s) \in Seq(Lines)
    <3>1. e.key = k
      BY DEF Entry
    <3> QED
      BY <1>8, <3>1, WhereItIs DEF IsNote
  <2>2. /\ ToSet(Append(table[s], e)) = ToSet(table[s]) \cup {e}
        /\ ToSet(Append(LinesOf(s), e)) = ToSet(LinesOf(s)) \cup {e}
        /\ Append(LinesOf(s), e) \in Seq(Lines)
    <3>1. e \in Lines
      BY <2>1
    <3> HIDE DEF e
    <3> QED
      BY <2>1, <3>1, AppendedSet
  <2>3. \/ file' = file /\ table' = [table EXCEPT ![s] = Append(table[s], e)]
        \/ table' = table /\ file' = [file EXCEPT ![s] = Append(LinesOf(s), e)]
    BY <1>8 DEF append_entry
  <2> HIDE DEF e
  <2>4. \A r \in Stores \ {s} : table'[r] = table[r] /\ file'[r] = file[r]
    BY <2>3 DEF ItemsInv
  <2>5. ToSet(table'[s]) \subseteq ToSet(table[s]) \cup {e}
    BY <1>8, <2>2, <2>3 DEF ItemsInv
  <2>6. ToSet(LinesOf(s)') \subseteq ToSet(LinesOf(s)) \cup {e}
    <3>1. CASE file' = file
      BY <3>1 DEF LinesOf
    <3>2. CASE file' = [file EXCEPT ![s] = Append(LinesOf(s), e)]
      <4>1. file'[s] = Append(LinesOf(s), e) /\ file'[s] # None
        BY <1>8, <2>2, <3>2, ItemsAssumption DEF ItemsInv, ItemsAssumption
      <4> QED
        BY <2>2, <4>1 DEF LinesOf
    <3> QED
      BY <2>3, <3>1, <3>2
  <2> QED
    BY <1>2, <1>8, <2>1, <2>4, <2>5, <2>6 DEF NotesInv
<1>9. ASSUME NEW u \in Keepers, NEW m \in BotMessages,
             handle_save_command(u, m) \/ RemoveBookmark(u, m)
      PROVE  NotesInv'
  <2>1. m \in Keys0 /\ "bookmarks" \in Stores /\ "bookmarks" \notin Layers
    BY <1>0, StoresAre DEF Keys0
  <2> QED
    BY <1>7, <1>8, <1>9, <2>1 DEF handle_save_command, save_or_toggle_bookmark, RemoveBookmark
<1>10. ASSUME NEW u \in Keepers, NEW id \in NoteIds["episodic"], handle_remember_command(u, id)
       PROVE  NotesInv'
  <2>1. "episodic" \in Layers /\ "episodic" \in Stores /\ id \in Noted /\ id \in Keys0
    BY StoresAre DEF Layers, Noted, Keys0
  <2> QED
    BY <1>8, <1>10, <2>1 DEF handle_remember_command, remember_episodic
<1>11. ASSUME NEW u \in Keepers, NEW word \in DOMAIN NoteText, handle_forget_command(u, word)
       PROVE  NotesInv'
  <2>1. forget(u, word)
    BY <1>11 DEF handle_forget_command
  <2>2. PICK l \in Layers : word \in NoteIds[l] /\ layer_from_id(word) = l
    BY <2>1 DEF forget, layer_from_id
  <2>3. word \in Keys0 /\ l \in Stores
    BY <1>0, <2>2 DEF Keys0
  <2> QED
    BY <1>7, <2>1, <2>2, <2>3 DEF forget
<1>12. CASE UNCHANGED itemVars
  BY <1>1, <1>12 DEF itemVars
<1> QED
  BY <1>3, <1>4, <1>5, <1>6, <1>9, <1>10, <1>11, <1>12 DEF ItemsNext

(* Nothing else is ever in a layer.                                        *)
LEMMA NotesInvariant == ItemsSpec => []NotesInv
<1>1. ItemsInit => NotesInv
  <2> SUFFICES ASSUME ItemsInit, NEW s \in Layers
               PROVE  /\ \A line \in ToSet(table[s]) : IsNote(line)
                      /\ \A line \in ToSet(LinesOf(s)) : IsNote(line)
    BY DEF NotesInv
  <2>1. s \in Stores
    BY DEF Layers
  <2>2. ToSet(<<>>) = {} /\ table[s] = <<>>
    BY <2>1 DEF ToSet, ItemsInit
  <2>3. \A line \in ToSet(LinesOf(s)) : IsNote(line)
    BY <2>2, RecallAssumption DEF RecallAssumption, ItemsInit, LinesOf, ToSet, IsNote
  <2> QED
    BY <2>2, <2>3
<1>2. ItemsInv /\ NotesInv /\ [ItemsNext]_itemVars => NotesInv'
  BY StepNotes
<1> QED
  BY <1>1, <1>2, ItemsInvariant, PTL DEF ItemsSpec

(* A list of entries, each of them once.                                   *)
NotesOnce(ids) == ids \in Seq(Noted) /\ OnceIn(ids, Noted)

(* The beginning of a list.                                                *)
LEMMA FirstKeeps ==
  ASSUME NEW ids \in Seq(Noted), NEW n \in Nat
  PROVE  /\ First(ids, n) \in Seq(Noted)
         /\ NotesOnce(ids) => NotesOnce(First(ids, n))
<1> DEFINE m == Min({n, Len(ids)})
           r == SubSeq(ids, 1, m)
<1>1. Len(ids) \in Nat /\ DOMAIN ids = 1 .. Len(ids) /\ \A i \in 1 .. Len(ids) : ids[i] \in Noted
  OBVIOUS
<1>2. m \in Nat /\ m <= Len(ids)
  <2>1. {n, Len(ids)} \in SUBSET Nat /\ {n, Len(ids)} # {}
    BY <1>1
  <2> QED
    BY <2>1, MinIs
<1> HIDE DEF m
<1>3. r \in Seq(Noted) /\ Len(r) <= m /\ \A i \in 1 .. m : r[i] = ids[i]
  <2>1. \A i \in 1 .. m : ids[i] \in Noted
    BY <1>1, <1>2
  <2>2. /\ r \in Seq(Noted) /\ Len(r) = IF 1 <= m THEN m - 1 + 1 ELSE 0
        /\ \A i \in 1 .. m - 1 + 1 : r[i] = ids[1 + i - 1]
    BY <1>2, <2>1, SubSeqProperties
  <2> HIDE DEF r
  <2>3. m - 1 + 1 = m /\ \A i \in 1 .. m : 1 + i - 1 = i
    BY <1>2
  <2> QED
    BY <1>2, <2>2, <2>3
<1>4. First(ids, n) = r
  BY DEF First, m
<1> HIDE DEF r
<1>5. DOMAIN r \subseteq 1 .. m /\ 1 .. m \subseteq DOMAIN ids
  BY <1>1, <1>2, <1>3
<1>6. NotesOnce(ids) => OnceIn(r, Noted)
  BY <1>3, <1>5 DEF NotesOnce, OnceIn
<1> QED
  BY <1>3, <1>4, <1>6 DEF NotesOnce

(* What a user sees of a layer.                                            *)
LEMMA ListedNotes ==
  ASSUME ItemsInv, NotesInv, NEW u \in Keepers, NEW s \in Layers
  PROVE  NotesOnce(IdsOf(list_entries(u, s)))
<1> DEFINE x == IF backend = "sqlite" THEN table[s] ELSE LinesOf(s)
           mine == {Entry(u, k) : k \in Keys0}
           y == Only(x, mine)
           r == Reverse(y)
           n == Len(y)
<1>1. s \in Stores
  BY DEF Layers
<1>2. x \in Seq(Lines) /\ OnceIn(x, Sound) /\ \A line \in ToSet(x) : IsNote(line)
  <2>1. table[s] \in Seq(Sound) /\ LinesOf(s) \in Seq(Lines) /\ Sound \subseteq Lines
    BY <1>1, WhereItIs DEF Sound, Parsable
  <2> QED
    BY <1>1, <2>1 DEF NotesInv, ItemsInv, KeptOnce
<1>3. mine \subseteq Sound /\ \A e \in mine : e.owner = u /\ e.key # None /\ e = Entry(u, e.key)
  <2>1. \A k \in Keys0 : Entry(u, k) \in Sound
    BY <1>1, WhereItIs
  <2> QED
    BY <2>1, ItemsAssumption DEF Entry, ItemsAssumption
<1> HIDE DEF x, mine
<1>4. y \in Seq(Lines \cap mine) /\ ToSet(y) = ToSet(x) \cap mine /\ OnceIn(y, Sound)
  BY <1>2, OnlyKeeps
<1> HIDE DEF y
<1>5. n \in Nat /\ DOMAIN y = 1 .. n
      /\ \A i \in 1 .. n : y[i] \in mine /\ y[i] \in ToSet(x)
  BY <1>4 DEF ToSet
<1>6. r = [i \in 1 .. n |-> y[(n - i) + 1]]
  BY DEF Reverse
<1>7. list_entries(u, s) = r
  BY DEF list_entries, x, mine, y
<1> HIDE DEF r, n
<1> DEFINE ids == [i \in 1 .. n |-> y[(n - i) + 1].key]
<1>8. IdsOf(list_entries(u, s)) = ids
  BY <1>6, <1>7 DEF IdsOf
<1>9. \A i \in 1 .. n : (n - i) + 1 \in 1 .. n
  BY <1>5
<1>10. \A i \in 1 .. n : y[i].key \in Noted
  BY <1>2, <1>3, <1>5 DEF IsNote
<1>11. ids \in [1 .. n -> Noted]
  BY <1>9, <1>10
<1>12. ids \in Seq(Noted)
  <2> HIDE DEF ids
  <2> QED
    BY <1>5, <1>11, SeqDef
<1>13. ASSUME NEW i \in 1 .. n, NEW j \in 1 .. n, ids[i] = ids[j]
       PROVE  i = j
  <2>1. y[(n - i) + 1].key = y[(n - j) + 1].key
    BY <1>13
  <2>2. y[(n - i) + 1] = y[(n - j) + 1]
    BY <1>3, <1>5, <1>9, <2>1
  <2>3. (n - i) + 1 = (n - j) + 1
    BY <1>3, <1>4, <1>5, <1>9, <2>2 DEF OnceIn
  <2> QED
    BY <1>5, <2>3
<1>14. OnceIn(ids, Noted)
  BY <1>13 DEF OnceIn
<1> HIDE DEF ids
<1> QED
  BY <1>8, <1>12, <1>14 DEF NotesOnce

(* A search lists an entry once, whichever of its words finds it.          *)
LEMMA SearchedNotes ==
  ASSUME ItemsInv, NotesInv, NEW u \in Keepers, NEW s \in Layers, NEW word, NEW limit \in Nat
  PROVE  NotesOnce(search(u, s, word, limit))
<1>1. \A words : NotesOnce(Hits(u, s, word, words))
  <2> TAKE words
  <2> DEFINE kept == {id \in Noted : word \in words[NoteText[id]]}
             ids == IdsOf(list_entries(u, s))
  <2>1. ids \in Seq(Noted) /\ OnceIn(ids, Noted)
    BY ListedNotes DEF NotesOnce
  <2> HIDE DEF kept, ids
  <2>2. Only(ids, kept) \in Seq(Noted \cap kept) /\ OnceIn(Only(ids, kept), Noted)
    BY <2>1, OnlyKeeps
  <2>3. Hits(u, s, word, words) = Only(ids, kept)
    BY DEF Hits, kept, ids
  <2> DEFINE found == Only(ids, kept)
  <2> HIDE DEF found
  <2>4. found \in Seq(Noted)
    BY <2>2 DEF found
  <2> QED
    BY <2>2, <2>3, <2>4 DEF NotesOnce, found
<1>2. PICK hits : NotesOnce(hits) /\ search(u, s, word, limit) = First(hits, limit)
  BY <1>1 DEF search
<1> QED
  BY <1>2, FirstKeeps DEF NotesOnce

(* The entries that go into a prompt are entries of the memory.            *)
LEMMA ContextNotes ==
  ASSUME ItemsInv, NotesInv, NEW u \in Keepers, NEW words, NEW ids \in memory_ids(u, words)
  PROVE  ids \in Seq(Noted)
<1>1. {"episodic", "semantic", "procedural"} \subseteq Layers
  BY StoresAre DEF Layers
<1>2. \A s \in Layers : RecallLimit[s] \in Nat
  BY RecallAssumption DEF RecallAssumption
<1>3. ASSUME NEW w
      PROVE  recall(u, w) \in Seq(Noted)
  <2> DEFINE a == search(u, "episodic", w, RecallLimit["episodic"])
             b == search(u, "semantic", w, RecallLimit["semantic"])
             c == search(u, "procedural", w, RecallLimit["procedural"])
  <2>1. a \in Seq(Noted) /\ b \in Seq(Noted) /\ c \in Seq(Noted)
    BY <1>1, <1>2, SearchedNotes DEF NotesOnce
  <2>2. recall(u, w) = a \o b \o c
    BY DEF recall
  <2> HIDE DEF a, b, c
  <2>3. a \o b \in Seq(Noted)
    BY <2>1, ConcatProperties
  <2> DEFINE d == a \o b
  <2> HIDE DEF d
  <2>4. d \o c \in Seq(Noted)
    BY <2>1, <2>3, ConcatProperties DEF d
  <2> QED
    BY <2>2, <2>4 DEF d
<1>4. recent(u) \in Seq(Noted)
  <2> DEFINE a == First(IdsOf(list_entries(u, "episodic")), RecentLimit["episodic"])
             b == First(IdsOf(list_entries(u, "semantic")), RecentLimit["semantic"])
  <2>1. RecentLimit["episodic"] \in Nat /\ RecentLimit["semantic"] \in Nat
    BY RecallAssumption DEF RecallAssumption
  <2>2. a \in Seq(Noted) /\ b \in Seq(Noted)
    BY <1>1, <2>1, ListedNotes, FirstKeeps DEF NotesOnce
  <2>3. recent(u) = a \o b
    BY DEF recent
  <2> HIDE DEF a, b
  <2> QED
    BY <2>2, <2>3, ConcatProperties
<1>5. ids = recent(u) \/ \E w : ids = recall(u, w)
  BY DEF memory_ids
<1> QED
  BY <1>3, <1>4, <1>5

Tongues == Supported \cup {LanguageOf[NoteText[id]] : id \in Noted}

Translation == [key : Keepers \X Noted \X Supported, lang : Tongues]

RecallInv == cache \in Seq(Translation) /\ RecallTypeOK

(* What is missing in the cache is put there once, and its oldest part     *)
(* makes room for it.                                                      *)
LEMMA TranslatingKeeps ==
  ASSUME RecallInv, NEW u \in Keepers, NEW l \in Supported, NEW ids, NotesOnce(ids),
         translate_entries(u, ids, l)
  PROVE  RecallInv'
<1> DEFINE kept == {id \in Noted : Cached(u, id, l) = {} /\ LanguageOf[NoteText[id]] # l}
           todo == Only(ids, kept)
<1>1. todo \in Seq(Noted \cap kept) /\ OnceIn(todo, Noted)
  BY OnlyKeeps DEF NotesOnce
<1>2. \A id \in kept : id \in Noted /\ \A i \in DOMAIN cache : cache[i].key # <<u, id, l>>
  BY DEF Cached
<1>3. Missing(u, ids, l) = todo
  BY DEF Missing
<1> HIDE DEF kept, todo
<1>4. Len(todo) \in Nat /\ DOMAIN todo = 1 .. Len(todo)
      /\ \A i \in 1 .. Len(todo) : todo[i] \in Noted /\ todo[i] \in kept
  BY <1>1
<1>5. PICK done :
        LET fresh == [i \in DOMAIN todo |->
                [key |-> <<u, todo[i], l>>,
                 lang |-> batch_translate(todo[i], Batch(i) \in done, l)]]
            all == cache \o fresh
            Shown(id) == IF \E i \in DOMAIN todo : todo[i] = id
                         THEN fresh[CHOOSE i \in DOMAIN todo : todo[i] = id].lang
                         ELSE Known(u, id, l)
        IN  /\ cache' = SubSeq(all, Max({1, Len(all) - MaxCache + 1}), Len(all))
            /\ recalled' = Recalled(ids, {}, [i \in DOMAIN ids |-> Shown(ids[i])])
  BY <1>3 DEF translate_entries
<1> DEFINE fresh == [i \in DOMAIN todo |->
                [key |-> <<u, todo[i], l>>,
                 lang |-> batch_translate(todo[i], Batch(i) \in done, l)]]
           all == cache \o fresh
           n == Len(cache)
           k == Len(todo)
           from == Max({1, Len(all) - MaxCache + 1})
           new == SubSeq(all, from, Len(all))
<1>6. fresh \in Seq(Translation) /\ Len(fresh) = k
      /\ \A i \in 1 .. k : fresh[i].key = <<u, todo[i], l>>
  <2>1. \A i \in 1 .. k : batch_translate(todo[i], Batch(i) \in done, l) \in Tongues
    BY <1>4 DEF batch_translate, Tongues
  <2>2. \A i \in 1 .. k : <<u, todo[i], l>> \in Keepers \X Noted \X Supported
    BY <1>4
  <2>3. fresh \in [1 .. k -> Translation]
    BY <1>4, <2>1, <2>2 DEF Translation
  <2>4. \A i \in 1 .. k : fresh[i].key = <<u, todo[i], l>>
    BY <1>4
  <2> HIDE DEF fresh
  <2>5. fresh \in Seq(Translation) /\ Len(fresh) = k
    BY <1>4, <2>3
  <2> QED
    BY <2>4, <2>5
<1>7. /\ cache \in Seq(Translation) /\ n \in Nat /\ DOMAIN cache = 1 .. n
      /\ \A i, j \in 1 .. n : cache[i].key = cache[j].key => i = j
  BY DEF RecallInv, RecallTypeOK
<1>8. /\ cache' = new /\ recalled'.ids = ids /\ DOMAIN recalled'.langs = DOMAIN ids
      /\ recalled'.langs = [i \in DOMAIN ids |-> recalled'.langs[i]]
  BY <1>5 DEF Recalled
<1> HIDE DEF fresh
<1>9. /\ all \in Seq(Translation) /\ Len(all) = n + k
      /\ \A i \in 1 .. n + k : all[i] = IF i <= n THEN cache[i] ELSE fresh[i - n]
  <2>1. /\ all \in Seq(Translation) /\ Len(all) = Len(cache) + Len(fresh)
        /\ \A i \in 1 .. Len(cache) + Len(fresh) :
              all[i] = IF i <= Len(cache) THEN cache[i] ELSE fresh[i - Len(cache)]
    <3>1. cache \in Seq(Translation) /\ fresh \in Seq(Translation)
      BY <1>6, <1>7
    <3>2. \A S : \A s1, s2 \in Seq(S) :
            /\ s1 \o s2 \in Seq(S) /\ Len(s1 \o s2) = Len(s1) + Len(s2)
            /\ \A i \in 1 .. Len(s1) + Len(s2) :
                 (s1 \o s2)[i] = IF i <= Len(s1) THEN s1[i] ELSE s2[i - Len(s1)]
      BY ConcatProperties
    <3> QED
      BY <3>1, <3>2
  <2> HIDE DEF all
  <2> QED
    BY <1>6, <2>1
<1> HIDE DEF all
<1>10. ASSUME NEW i \in 1 .. n + k, NEW j \in 1 .. n + k, all[i].key = all[j].key
       PROVE  i = j
  <2>1. ASSUME NEW a \in 1 .. n, NEW b \in 1 .. k
        PROVE  cache[a].key # fresh[b].key
    BY <1>2, <1>4, <1>6, <1>7, <2>1
  <2>2. ASSUME NEW a \in 1 .. k, NEW b \in 1 .. k, fresh[a].key = fresh[b].key
        PROVE  a = b
    <3>1. todo[a] = todo[b]
      BY <1>6, <2>2
    <3> QED
      BY <1>1, <1>4, <3>1 DEF OnceIn
  <2>3. \A a \in 1 .. n + k : \/ a <= n /\ a \in 1 .. n
                              \/ ~ (a <= n) /\ a - n \in 1 .. k
    <3>1. n \in Int /\ k \in Int
      BY <1>4, <1>7
    <3> HIDE DEF n, k
    <3> TAKE a \in 1 .. n + k
    <3>2. a \in Int /\ 1 <= a /\ a <= n + k
      BY <3>1
    <3>3. CASE a <= n
      BY <3>1, <3>2, <3>3
    <3>4. CASE ~ (a <= n)
      <4>1. a - n \in Int /\ 1 <= a - n /\ a - n <= k
        BY <3>1, <3>2, <3>4
      <4> QED
        BY <3>1, <3>4, <4>1
    <3> QED
      BY <3>3, <3>4
  <2>4. CASE i <= n /\ j <= n
    BY <1>7, <1>9, <1>10, <2>3, <2>4
  <2>5. CASE i <= n /\ ~ (j <= n)
    BY <1>9, <1>10, <2>1, <2>3, <2>5
  <2>6. CASE ~ (i <= n) /\ j <= n
    BY <1>9, <1>10, <2>1, <2>3, <2>6
  <2>7. CASE ~ (i <= n) /\ ~ (j <= n)
    <3>1. i - n = j - n
      BY <1>9, <1>10, <2>2, <2>3, <2>7
    <3> QED
      BY <1>4, <1>7, <3>1
  <2> QED
    BY <2>4, <2>5, <2>6, <2>7
<1>11. MaxCache \in Nat
  BY RecallAssumption DEF RecallAssumption
<1>12. from \in Int /\ from >= 1 /\ from >= n + k - MaxCache + 1
  <2> DEFINE b == Len(all) - MaxCache + 1
  <2>1. b \in Int /\ b = n + k - MaxCache + 1
    BY <1>4, <1>7, <1>9, <1>11
  <2> HIDE DEF b
  <2>2. \E x \in {1, b} : \A y \in {1, b} : x >= y
    <3>1. CASE b <= 1
      BY <2>1, <3>1
    <3>2. CASE ~ (b <= 1)
      BY <2>1, <3>2
    <3> QED
      BY <3>1, <3>2
  <2>3. from \in {1, b} /\ \A y \in {1, b} : from >= y
    BY <2>2 DEF Max, b
  <2> HIDE DEF from
  <2> QED
    BY <2>1, <2>3
<1> HIDE DEF from
<1>13. /\ new \in Seq(Translation) /\ Len(new) <= MaxCache
       /\ \A i \in 1 .. Len(new) : from + i - 1 \in 1 .. n + k /\ new[i] = all[from + i - 1]
  <2>1. n + k \in Int /\ \A i \in from .. n + k : i \in 1 .. n + k
    BY <1>4, <1>7, <1>12
  <2>2. \A i \in from .. n + k : all[i] \in Translation
    <3>1. DOMAIN all = 1 .. n + k /\ \A i \in 1 .. n + k : all[i] \in Translation
      BY <1>9
    <3> QED
      BY <2>1, <3>1
  <2>3. /\ new \in Seq(Translation)
        /\ Len(new) = IF from <= n + k THEN n + k - from + 1 ELSE 0
        /\ \A i \in 1 .. n + k - from + 1 : new[i] = all[from + i - 1]
    BY <1>9, <1>12, <2>1, <2>2, SubSeqProperties
  <2> HIDE DEF new
  <2>4. Len(new) <= MaxCache
    BY <1>4, <1>7, <1>11, <1>12, <2>3
  <2>5. ASSUME NEW i \in 1 .. Len(new)
        PROVE  from + i - 1 \in 1 .. n + k /\ i \in 1 .. n + k - from + 1
    BY <1>4, <1>7, <1>12, <2>3
  <2> QED
    BY <2>3, <2>4, <2>5
<1> HIDE DEF new
<1>14. DOMAIN new = 1 .. Len(new) /\ \A i \in DOMAIN new : new[i] \in Translation
  BY <1>13
<1>15. ASSUME NEW i \in DOMAIN new, NEW j \in DOMAIN new, new[i].key = new[j].key
       PROVE  i = j
  <2>1. from + i - 1 = from + j - 1
    BY <1>10, <1>13, <1>14, <1>15
  <2> QED
    BY <1>12, <1>14, <2>1
<1>16. ToSet(ids) \subseteq Noted /\ Len(recalled'.langs) = Len(recalled'.ids)
  <2>1. ids \in Seq(Noted) /\ Len(ids) \in Nat /\ DOMAIN ids = 1 .. Len(ids)
    BY DEF NotesOnce
  <2> DEFINE langs == recalled'.langs
  <2>2. langs = [i \in 1 .. Len(ids) |-> langs[i]]
    BY <1>8, <2>1
  <2> HIDE DEF langs
  <2>3. Len(langs) = Len(ids)
    BY <2>1, <2>2
  <2> QED
    BY <1>8, <2>1, <2>3 DEF ToSet, langs
<1>17. RecallTypeOK'
  <2>1. \A i \in DOMAIN new : new[i].key \in Keepers \X Noted \X Supported
    BY <1>14 DEF Translation
  <2> QED
    BY <1>8, <1>13, <1>15, <1>16, <2>1 DEF RecallTypeOK
<1> QED
  BY <1>8, <1>13, <1>17 DEF RecallInv

(* A translation is cached once and the cache keeps its limit, with any    *)
(* limits and any order of lists, prompts, failing batches and restarts;   *)
(* what is recalled is of the memory.                                      *)
THEOREM RecallTypeCorrect == ItemsSpec /\ RecallSpec => []RecallTypeOK
<1>0. MaxCache \in Nat /\ ListLimit \in Nat /\ "episodic" \in Layers
  BY RecallAssumption, StoresAre DEF RecallAssumption, Layers
<1>1. RecallInit => RecallInv
  BY <1>0 DEF RecallInit, RecallInv, RecallTypeOK, Recalled, ToSet
<1>2. ItemsInv /\ NotesInv /\ RecallInv /\ [RecallNext]_recallVars => RecallInv'
  <2> SUFFICES ASSUME ItemsInv, NotesInv, RecallInv, [RecallNext]_recallVars
               PROVE  RecallInv'
    OBVIOUS
  <2>1. CASE UNCHANGED recallVars
    BY <2>1 DEF recallVars, RecallInv, RecallTypeOK
  <2>2. CASE RestartRecall
    BY <1>0, <2>2 DEF RestartRecall, RecallInv, RecallTypeOK, Recalled, ToSet
  <2>3. ASSUME NEW u \in Keepers, NEW message, NEW skill, build_memory_context(u, message, skill)
        PROVE  RecallInv'
    <3>1. PICK ids \in memory_ids(u, KeywordsOf[message]) :
            recalled' = Recalled(ids, {c \in detect_conflicts(ids) :
                                         is_conflict_relevant(c, skill, message)}, <<>>)
      BY <2>3 DEF build_memory_context
    <3>2. ids \in Seq(Noted)
      BY <3>1, ContextNotes
    <3>3. ToSet(ids) \subseteq Noted
      BY <3>2 DEF ToSet
    <3>4. cache' = cache /\ recalled'.ids = ids /\ recalled'.langs = <<>>
      BY <2>3, <3>1 DEF build_memory_context, Recalled
    <3> QED
      BY <3>3, <3>4 DEF RecallInv, RecallTypeOK
  <2>4. ASSUME NEW u \in Keepers, NEW l \in Supported, NEW word, handle_memory_command(u, l, word)
        PROVE  RecallInv'
    <3>1. PICK ids : translate_entries(u, ids, l)
                     /\ ids = IF word = None
                              THEN First(IdsOf(list_entries(u, "episodic")), ListLimit)
                              ELSE search(u, "episodic", word, ListLimit)
      BY <2>4 DEF handle_memory_command
    <3>2. NotesOnce(ids)
      <4>1. CASE word = None
        BY <1>0, <3>1, <4>1, ListedNotes, FirstKeeps DEF NotesOnce
      <4>2. CASE word # None
        BY <1>0, <3>1, <4>2, SearchedNotes
      <4> QED
        BY <4>1, <4>2
    <3> QED
      BY <3>1, <3>2, TranslatingKeeps
  <2> QED
    BY <2>1, <2>2, <2>3, <2>4 DEF RecallNext, recallVars
<1>3. RecallInv => RecallTypeOK
  BY DEF RecallInv
<1> QED
  BY <1>1, <1>2, <1>3, ItemsInvariant, NotesInvariant, PTL DEF RecallSpec

-----------------------------------------------------------------------------
(* What is kept of a pattern                                               *)

RowTyped(h) == /\ h.status \in ALLOWED_STATUSES \cup {"privacy_rejected"}
               /\ h.elo \in Ratings /\ h.version \in 1 .. MaxVersion

AllDays == {JudgeDays[n] : n \in Nat}

StateTyped(s) == /\ s.stability \in Stabilities
                 /\ s.history \in Seq(AllDays) /\ Len(s.history) <= MaxHistory

Audited(log) == \E S : log \in Seq(S) /\ Len(log) <= MaxAudit

LifeTyped ==
    /\ LifeInv
    /\ \A h \in hyps : RowTyped(h)
    /\ DOMAIN decay = Patterns /\ \A id \in Patterns : StateTyped(decay[id])
    /\ Audited(audit)
    /\ judgeDay \in Nat

(* The statuses a contract can have (schemas.py).                          *)
LEMMA StatusesAre ==
  ALLOWED_STATUSES = {"candidate", "suggested", "confirmed", "active", "needs_review",
                      "paused", "archived", "retired"}
BY DEF ALLOWED_STATUSES, ALLOWED_TRANSITIONS

(* What the judge recommends is a status.                                  *)
LEMMA EvaluationIsStatus ==
  ASSUME NEW h, h.status \in ALLOWED_STATUSES \cup {"privacy_rejected"}, NEW dated \in BOOLEAN
  PROVE  evaluate(h, dated) \in ALLOWED_STATUSES \cup {"privacy_rejected"}
<1>1. check_promotion(h, get_summary(h.id)) \in {"suggested", "active", h.status}
  BY DEF check_promotion
<1>2. CASE Archives(h, dated)
  BY <1>2, StatusesAre DEF evaluate
<1>3. CASE ~Archives(h, dated) /\ should_challenge(h)
  BY <1>3, StatusesAre DEF evaluate
<1>4. CASE ~Archives(h, dated) /\ ~should_challenge(h)
  BY <1>1, <1>4, StatusesAre DEF evaluate
<1> QED
  BY <1>2, <1>3, <1>4

(* Of the end of a sequence as much is left as is asked for.               *)
LEMMA EndOf ==
  ASSUME NEW S, NEW s \in Seq(S), NEW m \in Nat \ {0}, m <= Len(s)
  PROVE  SubSeq(s, m, Len(s)) \in Seq(S) /\ Len(SubSeq(s, m, Len(s))) = Len(s) - m + 1
<1>1. m \in Int /\ Len(s) \in Int /\ \A i \in m .. Len(s) : s[i] \in S
  OBVIOUS
<1> QED
  BY <1>1, SubSeqProperties

(* The log of the rejections keeps its limit.                              *)
LEMMA AuditingKeeps ==
  ASSUME Audited(audit), NEW claim, Checked(claim)
  PROVE  Audited(audit')
<1>0. MaxAudit \in Nat \ {0, 1}
  BY EstimatesAssumption DEF EstimatesAssumption
<1>1. PICK f : audit' = audit \/ audit' = add_rejection(f)
  BY DEF Checked
<1>2. PICK S : audit \in Seq(S) /\ Len(audit) <= MaxAudit
  BY DEF Audited
<1> DEFINE T == S \cup {f}
           all == Append(audit, f)
           half == MaxAudit \div 2
<1>3. all \in Seq(T) /\ Len(all) = Len(audit) + 1 /\ Len(audit) \in Nat
  BY <1>2
<1>4. half \in Nat \ {0} /\ half + 1 <= MaxAudit /\ half + 1 \in Nat \ {0}
  BY <1>0
<1>5. add_rejection(f) = IF Len(all) > MaxAudit THEN SubSeq(all, half + 1, Len(all)) ELSE all
  BY DEF add_rejection
<1> HIDE DEF all, half, T
<1>6. CASE Len(all) > MaxAudit
  <2>1. half + 1 <= Len(all)
    BY <1>0, <1>3, <1>4, <1>6
  <2>2. /\ SubSeq(all, half + 1, Len(all)) \in Seq(T)
        /\ Len(SubSeq(all, half + 1, Len(all))) = Len(all) - (half + 1) + 1
    BY <1>3, <1>4, <2>1, EndOf
  <2>3. Len(all) - (half + 1) + 1 <= MaxAudit
    BY <1>0, <1>2, <1>3, <1>4
  <2>4. Audited(add_rejection(f))
    BY <1>5, <1>6, <2>2, <2>3 DEF Audited
  <2> QED
    BY <1>1, <2>4
<1>7. CASE ~ (Len(all) > MaxAudit)
  <2>1. Audited(all)
    BY <1>0, <1>3, <1>7 DEF Audited
  <2> QED
    BY <1>1, <1>5, <1>7, <2>1
<1> QED
  BY <1>6, <1>7

(* A review leaves a state that may be computed, with the latest reviews.  *)
LEMMA ReviewKeeps ==
  ASSUME NEW s, StateTyped(s), NEW rating \in 1 .. 4, NEW day \in AllDays,
         NEW t \in update_fsrs(s, rating, day)
  PROVE  StateTyped(t)
<1>0. MaxHistory \in Nat \ {0} /\ \A r \in 1 .. 4 : initial_stability(r) \in Stabilities
  BY EstimatesAssumption DEF EstimatesAssumption
<1>1. Clamped(rating, 1, 4) \in 1 .. 4
  BY DEF Clamped
<1>2. t.stability \in Stabilities
  BY <1>0, <1>1 DEF update_fsrs, stability_after_failure, stability_after_success
<1>3. t.history = Reviewed(s.history, day)
  BY DEF update_fsrs
<1> DEFINE h == s.history
           all == Append(h, day)
           from == Len(all) - MaxHistory + 1
<1>4. Len(h) <= MaxHistory /\ h \in Seq(AllDays)
  BY DEF StateTyped
<1>5. Reviewed(h, day) = IF Len(all) > MaxHistory THEN SubSeq(all, from, Len(all)) ELSE all
  BY DEF Reviewed
<1> HIDE DEF h
<1>6. all \in Seq(AllDays) /\ Len(all) \in Nat
  BY <1>4
<1> HIDE DEF all
<1>7. Reviewed(h, day) \in Seq(AllDays) /\ Len(Reviewed(h, day)) <= MaxHistory
  <2>1. CASE Len(all) > MaxHistory
    <3>1. from \in Nat \ {0} /\ from <= Len(all) /\ Len(all) - from + 1 = MaxHistory
      BY <1>0, <1>6, <2>1
    <3> HIDE DEF from
    <3> QED
      BY <1>0, <1>5, <1>6, <2>1, <3>1, EndOf
  <2>2. CASE ~ (Len(all) > MaxHistory)
    BY <1>0, <1>5, <1>6, <2>2
  <2> QED
    BY <2>1, <2>2
<1> QED
  BY <1>2, <1>3, <1>7 DEF StateTyped, h

(* The states a pattern starts with.                                       *)
LEMMA StartIsRemembered ==
  ASSUME NEW day \in AllDays
  PROVE  StateTyped(DefaultState) /\ StateTyped(create_initial_fsrs_state(3, day))
<1>0. /\ MaxHistory \in Nat \ {0} /\ DefaultState.stability \in Stabilities
      /\ initial_stability(3) \in Stabilities
  BY EstimatesAssumption DEF EstimatesAssumption
<1>1. <<>> \in Seq(AllDays) /\ Len(<<>>) = 0 /\ <<day>> \in Seq(AllDays) /\ Len(<<day>>) = 1
  OBVIOUS
<1>2. StateTyped(DefaultState)
  BY <1>0, <1>1 DEF DefaultState, StateTyped
<1> DEFINE t == create_initial_fsrs_state(3, day)
<1>3. t.stability = initial_stability(3) /\ t.history = <<day>>
  BY DEF create_initial_fsrs_state, DefaultState
<1> HIDE DEF t
<1>4. StateTyped(t)
  BY <1>0, <1>1, <1>3 DEF StateTyped
<1> QED
  BY <1>2, <1>4 DEF t

(* No step of the judge, the reviews or the store leaves what they hold.    *)
LEMMA StepTyped == LifeTyped /\ LifeInv' /\ [LifeNext]_lifeVars => LifeTyped'
<1> SUFFICES ASSUME LifeTyped, LifeInv', [LifeNext]_lifeVars
             PROVE  LifeTyped'
  OBVIOUS
<1>0. /\ INITIAL_RATING \in Ratings /\ 1 \in 1 .. MaxVersion /\ MaxVersion \in Nat
      /\ Day \in AllDays /\ Audited(<<>>)
  <2>1. MaxAudit \in Nat /\ Len(<<>>) = 0 /\ <<>> \in Seq({})
    BY EstimatesAssumption DEF EstimatesAssumption
  <2>2. Audited(<<>>)
    BY <2>1 DEF Audited
  <2> QED
    BY <2>2, EstimatesAssumption DEF EstimatesAssumption, LifeTyped, Day, AllDays
<1>1. ASSUME \A h \in hyps' : RowTyped(h), UNCHANGED <<decay, audit, judgeDay>>
      PROVE  LifeTyped'
  BY <1>1 DEF LifeTyped, RowTyped, StateTyped, Audited, AllDays
<1>2. ASSUME UNCHANGED <<hyps, decay, audit, judgeDay>>
      PROVE  LifeTyped'
  BY <1>1, <1>2 DEF LifeTyped
<1>3. ASSUME NEW id, NEW type, NEW scope, NEW claim,
             NEW status \in ALLOWED_STATUSES, NEW immune
      PROVE  RowTyped(NewRow(id, type, scope, claim, status, immune))
  BY <1>0 DEF NewRow, RowTyped
<1>4. ASSUME NEW id, NEW status \in ALLOWED_STATUSES \cup {"privacy_rejected"},
             update_hypothesis_status(id, status)
      PROVE  \A h \in hyps' : RowTyped(h)
  <2>1. \A h \in hyps : DOMAIN h = RowFields /\ RowTyped(h)
    BY DEF LifeTyped, LifeInv
  <2>2. \A h \in hyps : RowTyped([h EXCEPT !.status = status])
    BY <2>1 DEF RowTyped, RowFields
  <2> QED
    BY <1>4, <2>1, <2>2 DEF update_hypothesis_status
<1>5. CASE DayPasses
  <2>1. judgeDay' \in Nat
    BY <1>5 DEF DayPasses, LifeTyped
  <2> QED
    BY <1>5, <2>1 DEF DayPasses, LifeTyped, RowTyped, StateTyped, Audited, AllDays
<1>6. CASE RestartLife
  <2>1. StateTyped(DefaultState)
    BY <1>0, StartIsRemembered
  <2>2. /\ decay' = [id \in Patterns |-> DefaultState] /\ audit' = <<>>
        /\ UNCHANGED <<hyps, judgeDay>>
    BY <1>6 DEF RestartLife
  <2>3. DOMAIN decay' = Patterns /\ \A id \in Patterns : StateTyped(decay'[id])
    BY <2>1, <2>2
  <2> QED
    BY <1>0, <2>2, <2>3 DEF LifeTyped, RowTyped, StateTyped, Audited, AllDays
<1>7. ASSUME NEW claim, Checked(claim)
      PROVE  Audited(audit')
  BY <1>7, AuditingKeeps DEF LifeTyped
<1>8. ASSUME NEW id \in Patterns, NEW claim \in Claims, learn(id, claim)
      PROVE  LifeTyped'
  <2>1. Audited(audit') /\ UNCHANGED <<decay, judgeDay>>
    BY <1>7, <1>8 DEF learn
  <2>2. \A h \in hyps' : RowTyped(h)
    <3>1. RowTyped(NewRow(id, "preference", [client |-> FALSE, project |-> FALSE, tags |-> 0],
                          claim, "confirmed", TRUE))
      BY <1>3, StatusesAre
    <3> QED
      BY <1>8, <3>1 DEF learn, LifeTyped
  <2> QED
    BY <2>1, <2>2 DEF LifeTyped, RowTyped, StateTyped, Audited, AllDays
<1>9. ASSUME NEW id \in Patterns, NEW type \in Types, NEW scope \in Scopes, NEW claim \in Claims,
             Find(id, type, scope, claim)
      PROVE  LifeTyped'
  <2>1. UNCHANGED <<audit, judgeDay>>
    BY <1>9 DEF Find
  <2>2. \A h \in hyps' : RowTyped(h)
    <3>1. RowTyped(NewRow(id, type, scope, claim, "candidate", FALSE))
      BY <1>3, StatusesAre
    <3> QED
      BY <1>9, <3>1 DEF Find, LifeTyped
  <2>3. PICK s \in {DefaultState, create_initial_fsrs_state(3, Day)} :
          decay' = [decay EXCEPT ![id] = s]
    BY <1>9 DEF Find
  <2>4. StateTyped(s)
    BY <1>0, <2>3, StartIsRemembered
  <2>5. DOMAIN decay' = Patterns /\ \A x \in Patterns : StateTyped(decay'[x])
    BY <2>3, <2>4 DEF LifeTyped
  <2> QED
    BY <2>1, <2>2, <2>5 DEF LifeTyped, RowTyped, StateTyped, Audited, AllDays
<1>10. ASSUME NEW id \in Patterns, NEW rating \in 1 .. 4, Review(id, rating)
       PROVE  LifeTyped'
  <2>1. PICK s \in update_fsrs(decay[id], rating, Day) : decay' = [decay EXCEPT ![id] = s]
    BY <1>10 DEF Review
  <2>2. StateTyped(s)
    BY <1>0, <2>1, ReviewKeeps DEF LifeTyped
  <2>3. DOMAIN decay' = Patterns /\ \A x \in Patterns : StateTyped(decay'[x])
    BY <2>1, <2>2 DEF LifeTyped
  <2>4. UNCHANGED <<hyps, audit, judgeDay>>
    BY <1>10 DEF Review
  <2> QED
    BY <2>3, <2>4 DEF LifeTyped, RowTyped, StateTyped, Audited, AllDays
<1>11. ASSUME NEW id \in Patterns, Judge(id)
       PROVE  LifeTyped'
  <2>1. PICK h \in get_hypothesis(id), dated \in BOOLEAN :
           /\ update_hypothesis_status(id, evaluate(h, dated))
           /\ audit' = audit \/ Checked(h.pattern)
    BY <1>11 DEF Judge
  <2>2. RowTyped(h)
    BY <2>1 DEF LifeTyped, get_hypothesis
  <2>3. evaluate(h, dated) \in ALLOWED_STATUSES \cup {"privacy_rejected"}
    BY <2>2, EvaluationIsStatus DEF RowTyped
  <2>4. \A g \in hyps' : RowTyped(g)
    BY <1>4, <2>1, <2>3
  <2>5. Audited(audit') /\ UNCHANGED <<decay, judgeDay>>
    BY <1>7, <1>11, <2>1 DEF Judge, LifeTyped
  <2> QED
    BY <2>4, <2>5 DEF LifeTyped, RowTyped, StateTyped, Audited, AllDays
<1>12. ASSUME NEW id \in Patterns,
              \/ Confirm(id) \/ AnswerYesOnce(id) \/ PausePattern(id)
              \/ ResumePattern(id) \/ execute_forget(id)
       PROVE  LifeTyped'
  <2>1. PICK status \in {"confirmed", "active", "paused", "retired"} :
          update_hypothesis_status(id, status)
    BY <1>12 DEF Confirm, AnswerYesOnce, PausePattern, ResumePattern, execute_forget
  <2>2. UNCHANGED <<decay, audit, judgeDay>>
    BY <1>12 DEF Confirm, AnswerYesOnce, PausePattern, ResumePattern, execute_forget
  <2>3. status \in ALLOWED_STATUSES
    BY StatusesAre
  <2> QED
    BY <1>1, <1>4, <2>1, <2>2, <2>3
<1>13. ASSUME NEW id \in Patterns, NEW outcome, update_hypothesis_elo(id, outcome)
       PROVE  LifeTyped'
  <2>1. PICK r \in Ratings : SetColumns(id, LAMBDA g : [g EXCEPT !.elo = r])
    BY <1>13 DEF update_hypothesis_elo
  <2>2. hyps' = {IF h.id = id THEN [h EXCEPT !.elo = r] ELSE h : h \in hyps}
    BY <2>1 DEF SetColumns
  <2>3. \A h \in hyps : DOMAIN h = RowFields /\ RowTyped(h)
    BY DEF LifeTyped, LifeInv
  <2>4. \A h \in hyps : RowTyped([h EXCEPT !.elo = r])
    BY <2>3 DEF RowTyped, RowFields
  <2>5. UNCHANGED <<decay, audit, judgeDay>>
    BY <1>13 DEF update_hypothesis_elo
  <2> QED
    BY <1>1, <2>2, <2>3, <2>4, <2>5
<1>14. ASSUME NEW id \in Patterns, NEW claim \in Claims, create_new_version(id, claim)
       PROVE  LifeTyped'
  <2> DEFINE renewed(h) == [h EXCEPT !.pattern = claim, !.version = @ + 1,
                                     !.elo = INITIAL_RATING, !.status = "suggested"]
  <2>1. hyps' = {IF h.id = id THEN renewed(h) ELSE h : h \in hyps}
    BY <1>14 DEF create_new_version, SetColumns
  <2>2. \A h \in hyps : DOMAIN h = RowFields /\ RowTyped(h)
    BY DEF LifeTyped, LifeInv
  <2>3. \A h \in hyps : h.id = id => h.version < MaxVersion
    BY <1>14 DEF create_new_version, get_hypothesis, LifeTyped, LifeInv
  <2>4. ASSUME NEW h \in hyps, h.id = id
        PROVE  RowTyped(renewed(h))
    <3>1. /\ renewed(h).status = "suggested" /\ renewed(h).elo = INITIAL_RATING
          /\ renewed(h).version = h.version + 1
      BY <2>2 DEF RowFields
    <3>2. h.version + 1 \in 1 .. MaxVersion
      BY <1>0, <2>2, <2>3, <2>4 DEF RowTyped
    <3> HIDE DEF renewed
    <3> QED
      BY <1>0, <3>1, <3>2, StatusesAre DEF RowTyped
  <2>5. UNCHANGED <<decay, audit, judgeDay>>
    BY <1>14 DEF create_new_version
  <2> HIDE DEF renewed
  <2> QED
    BY <1>1, <2>1, <2>2, <2>4, <2>5
<1>15. ASSUME NEW id \in Patterns, NEW signal,
              add_evidence(id, signal) \/ clear_hypothesis(id)
       PROVE  LifeTyped'
  BY <1>2, <1>15 DEF add_evidence, clear_hypothesis
<1>16. CASE UNCHANGED lifeVars
  BY <1>2, <1>16 DEF lifeVars
<1> QED
  BY <1>5, <1>6, <1>8, <1>9, <1>10, <1>11, <1>12, <1>13, <1>14, <1>15, <1>16 DEF LifeNext

(* The judge's log, the reviews and the versions keep their limits, every  *)
(* status is one the store or the judge knows and no pattern has two rows. *)
THEOREM LifeTypeCorrect == LifeSpec => []LifeTypeOK
<1>1. LifeInit /\ LifeInv => LifeTyped
  <2> SUFFICES ASSUME LifeInit, LifeInv PROVE LifeTyped
    OBVIOUS
  <2>1. judgeDay \in Nat /\ hyps = {} /\ decay = [id \in Patterns |-> DefaultState] /\ audit = <<>>
    BY DEF LifeInit
  <2>2. StateTyped(DefaultState)
    <3>1. JudgeDays[1] \in AllDays
      BY DEF AllDays
    <3> QED
      BY <3>1, StartIsRemembered
  <2>3. Audited(<<>>)
    <3>1. MaxAudit \in Nat /\ Len(<<>>) = 0 /\ <<>> \in Seq({})
      BY EstimatesAssumption DEF EstimatesAssumption
    <3> QED
      BY <3>1 DEF Audited
  <2> QED
    BY <2>1, <2>2, <2>3 DEF LifeTyped
<1>2. LifeTyped /\ BeliefInv => LifeTypeOK
  <2> SUFFICES ASSUME LifeTyped, BeliefInv PROVE LifeTypeOK
    OBVIOUS
  <2>1. ASSUME NEW id \in Patterns
        PROVE  Cardinality(get_hypothesis(id)) <= 1
    <3>1. CASE get_hypothesis(id) = {}
      BY <3>1, FS_EmptySet
    <3>2. CASE get_hypothesis(id) # {}
      <4>1. PICK h : h \in get_hypothesis(id)
        BY <3>2
      <4>2. get_hypothesis(id) = {h}
        BY <4>1 DEF get_hypothesis, LifeTyped, LifeInv
      <4>3. Cardinality({h}) = 1
        BY FS_Singleton
      <4> QED
        BY <4>2, <4>3
    <3> QED
      BY <3>1, <3>2
  <2>2. \A h \in hyps : /\ h.status \in ALLOWED_STATUSES \cup {"privacy_rejected"}
                        /\ h.elo \in Ratings /\ h.version \in 1 .. MaxVersion
    BY DEF LifeTyped, RowTyped
  <2>3. \A id \in Patterns : /\ decay[id].stability \in Stabilities
                             /\ Len(decay[id].history) <= MaxHistory
    BY DEF LifeTyped, StateTyped
  <2>4. \A id \in Patterns : beliefs[id] \in LowestBelief .. 9990
    BY DEF BeliefInv, Beliefs
  <2>5. Len(audit) <= MaxAudit
    BY DEF LifeTyped, Audited
  <2> QED
    BY <2>1, <2>2, <2>3, <2>4, <2>5 DEF LifeTypeOK
<1> QED
  BY <1>1, <1>2, StepTyped, LifeInvariant, BeliefInvariant, PTL DEF LifeSpec

-----------------------------------------------------------------------------
(* Every service's variables hold what the code can hold, whichever of the *)
(* services run beside each other: the user's rows (settings_service.py),  *)
(* the streams' statistics, the remarks of a day, the debate, the tables,  *)
(* the translations, the judge's log and the database's file.              *)
THEOREM ServicesTypeCorrect ==
  /\ LanguageSpec /\ GuardSpec /\ AnswerSpec /\ DebateSpec
  /\ ItemsSpec /\ RecallSpec /\ LifeSpec /\ DatabaseSpec
  => []TypeOK
<1>1. /\ LanguageTypeOK /\ GuardTypeOK /\ AnswerTypeOK /\ DebateTypeOK
      /\ ItemsTypeOK /\ RecallTypeOK /\ LifeTypeOK /\ DatabaseTypeOK
      => TypeOK
  BY DEF TypeOK
<1> QED
  BY <1>1, LanguageTypeCorrect, GuardTypeCorrect, AnswerTypeCorrect, DebateTypeCorrect,
     ItemsTypeCorrect, RecallTypeCorrect, LifeTypeCorrect, DatabaseTypeCorrect, PTL

-----------------------------------------------------------------------------
(* The order of a debate                                                   *)

Position(p) == CHOOSE i \in DOMAIN Order : Order[i] = p

(* Providers are earlier or later by their positions, and no two have the  *)
(* same.                                                                   *)
LEMMA Positions ==
  /\ \A p \in ToSet(Order) : Position(p) \in 1 .. Len(Order) /\ Order[Position(p)] = p
  /\ Len(Order) \in Nat
  /\ \A p, q \in ToSet(Order) : Earlier(p, q) <=> Position(p) < Position(q)
<1>1. Order \in Seq(ToSet(Order)) /\ IsInjective(Order)
  BY DebateAssumption DEF DebateAssumption, Order
<1>2. Len(Order) \in Nat /\ DOMAIN Order = 1 .. Len(Order)
  BY <1>1, LenProperties
<1> HIDE DEF Order
<1>3. \A p \in ToSet(Order) : Position(p) \in 1 .. Len(Order) /\ Order[Position(p)] = p
  <2> SUFFICES ASSUME NEW p \in ToSet(Order)
               PROVE  Position(p) \in 1 .. Len(Order) /\ Order[Position(p)] = p
    OBVIOUS
  <2>1. \E i \in DOMAIN Order : Order[i] = p
    BY DEF ToSet
  <2> QED
    BY <1>2, <2>1, Zenon DEF Position
<1>4. \A i \in DOMAIN Order : Position(Order[i]) = i
  <2> SUFFICES ASSUME NEW i \in DOMAIN Order
               PROVE  Position(Order[i]) = i
    OBVIOUS
  <2>1. Order[i] \in ToSet(Order)
    BY DEF ToSet
  <2>2. Position(Order[i]) \in DOMAIN Order /\ Order[Position(Order[i])] = Order[i]
    BY <1>2, <1>3, <2>1
  <2> QED
    BY <1>1, <2>2 DEF IsInjective
<1>5. ASSUME NEW p \in ToSet(Order), NEW q \in ToSet(Order), Position(p) < Position(q)
      PROVE  Earlier(p, q)
  <2>1. Position(p) \in 1 .. Position(q) - 1
    BY <1>2, <1>3, <1>5
  <2> QED
    BY <1>2, <1>3, <2>1 DEF Earlier
<1>6. ASSUME NEW p \in ToSet(Order), NEW q \in ToSet(Order), Earlier(p, q)
      PROVE  Position(p) < Position(q)
  <2>1. PICK j \in DOMAIN Order : \E i \in 1 .. j - 1 : Order[i] = p /\ Order[j] = q
    BY <1>6 DEF Earlier
  <2>2. PICK i \in 1 .. j - 1 : Order[i] = p /\ Order[j] = q
    BY <2>1
  <2>3. i \in DOMAIN Order /\ i < j
    BY <1>2
  <2> QED
    BY <1>4, <2>2, <2>3
<1> QED
  BY <1>2, <1>3, <1>5, <1>6

(* Some providers have a first one and a last one.                         *)
LEMMA OrderHasEnds ==
  ASSUME NEW S, S \in SUBSET ToSet(Order), S # {}
  PROVE  /\ \E p \in S : \A q \in S : ~ Earlier(q, p)
         /\ \E p \in S : \A q \in S : ~ Earlier(p, q)
<1>1. \A p \in S : Position(p) \in Nat /\ Position(p) <= Len(Order) /\ Len(Order) \in Nat
  BY Positions
<1>2. \A p, q \in S : Earlier(p, q) <=> Position(p) < Position(q)
  BY Positions
<1> HIDE DEF Position, Earlier
<1>3. \E p \in S : \A q \in S : ~ Earlier(q, p)
  <2> DEFINE places == {Position(p) : p \in S}
  <2>1. places \in SUBSET Nat /\ places # {}
    BY <1>1
  <2>2. PICK n \in places : \A m \in places : n <= m
    <3> HIDE DEF places
    <3> QED
      BY <2>1, LeastExists
  <2>3. PICK p \in S : n = Position(p)
    BY <2>2
  <2>4. \A q \in S : Position(p) <= Position(q)
    BY <2>2, <2>3
  <2> QED
    BY <1>1, <1>2, <2>4
<1>4. \E p \in S : \A q \in S : ~ Earlier(p, q)
  <2> DEFINE behind == {Len(Order) - Position(p) : p \in S}
  <2>1. behind \in SUBSET Nat /\ behind # {}
    BY <1>1
  <2>2. PICK n \in behind : \A m \in behind : n <= m
    <3> HIDE DEF behind
    <3> QED
      BY <2>1, LeastExists
  <2>3. PICK p \in S : n = Len(Order) - Position(p)
    BY <2>2
  <2>4. \A q \in S : Len(Order) - Position(p) <= Len(Order) - Position(q)
    BY <2>2, <2>3
  <2> QED
    BY <1>1, <1>2, <2>4
<1> QED
  BY <1>3, <1>4

(* Two providers of which neither is earlier are one.                      *)
LEMMA OrderIsTotal ==
  ASSUME NEW p \in ToSet(Order), NEW q \in ToSet(Order), ~ Earlier(p, q), ~ Earlier(q, p)
  PROVE  p = q
<1>1. /\ Position(p) \in Nat /\ Order[Position(p)] = p
      /\ Position(q) \in Nat /\ Order[Position(q)] = q
      /\ ~ (Position(p) < Position(q)) /\ ~ (Position(q) < Position(p))
  BY Positions
<1> QED
  BY <1>1

(* A debate asks every available provider that stands for itself, and of   *)
(* each group that has an available one exactly one: two answers that are  *)
(* weighed never come from the same model (debate_orchestrator.py:83-122). *)
THEOREM OneVoicePerGroup ==
  ASSUME NEW available
  PROVE  LET usable == available \cap ToSet(Order)
             chosen == select_providers(available)
             inGroups == DOMAIN PROVIDER_GROUPS
         IN  /\ chosen \subseteq usable /\ usable \ inGroups \subseteq chosen
             /\ \A p \in usable \cap inGroups :
                  \E q \in chosen \cap inGroups : PROVIDER_GROUPS[q] = PROVIDER_GROUPS[p]
             /\ \A p, q \in chosen \cap inGroups :
                  PROVIDER_GROUPS[p] = PROVIDER_GROUPS[q] => p = q
<1> DEFINE usable == available \cap ToSet(Order)
           chosen == select_providers(available)
           inGroups == DOMAIN PROVIDER_GROUPS
<1>1. /\ chosen \subseteq usable
      /\ \A p \in usable : p \in chosen <=>
           (p \in inGroups => \A q \in usable \cap inGroups :
              Earlier(q, p) => PROVIDER_GROUPS[q] # PROVIDER_GROUPS[p])
  BY DEF select_providers, deduplicate_providers
<1>0. usable \subseteq ToSet(Order)
  OBVIOUS
<1> HIDE DEF chosen, usable
<1>2. ASSUME NEW p \in usable \cap inGroups
      PROVE  \E q \in chosen \cap inGroups : PROVIDER_GROUPS[q] = PROVIDER_GROUPS[p]
  <2> DEFINE group == {q \in usable \cap inGroups : PROVIDER_GROUPS[q] = PROVIDER_GROUPS[p]}
  <2>1. group \in SUBSET ToSet(Order) /\ group # {}
    BY <1>0, <1>2
  <2>2. PICK q \in group : \A r \in group : ~ Earlier(r, q)
    <3> HIDE DEF group
    <3> QED
      BY <2>1, OrderHasEnds
  <2>3. q \in chosen
    BY <1>1, <2>2
  <2> QED
    BY <2>2, <2>3
<1>3. ASSUME NEW p \in chosen \cap inGroups, NEW q \in chosen \cap inGroups,
             PROVIDER_GROUPS[p] = PROVIDER_GROUPS[q]
      PROVE  p = q
  <2>1. p \in usable \cap inGroups /\ q \in usable \cap inGroups
    BY <1>1
  <2>2. ~ Earlier(p, q) /\ ~ Earlier(q, p)
    BY <1>1, <1>3, <2>1
  <2> QED
    BY <1>0, <2>1, <2>2, OrderIsTotal
<1> QED
  BY <1>1, <1>2, <1>3 DEF chosen, usable

-----------------------------------------------------------------------------
(* What the check of the language leaves                                   *)

DebateSettled ==
    /\ debate.queried \subseteq ToSet(Order)
    /\ debate.phase \in {"reviewing", "done"} => debate.waiting = {}
    /\ \A p \in debate.queried :
         /\ p \in debate.waiting => p \notin debate.errors /\ ~Answered(p)
         /\ p \in debate.errors => ~Answered(p)
         /\ p \in debate.waiting \/ p \in debate.errors \/ Answered(p)
    /\ \A q, r \in debate.responses : q.from = r.from => q = r

(* The invariant holds in every state of DebateSpec.                       *)
THEOREM DebateSettles == DebateSpec => []DebateSettled
<1>1. DebateInit => DebateSettled
  BY DEF DebateInit, DebateSettled, NoDebate, Answered
<1>2. DebateInv /\ DebateTypeOK /\ DebateSettled /\ [DebateNext]_debateVars => DebateSettled'
  <2> SUFFICES ASSUME DebateInv, DebateTypeOK, DebateSettled, [DebateNext]_debateVars
               PROVE  DebateSettled'
    OBVIOUS
  <2>0. DOMAIN debate = DOMAIN NoDebate
    BY DEF DebateInv
  <2>1. CASE UNCHANGED debate
    BY <2>1 DEF DebateSettled, Answered
  <2>2. ASSUME NEW available \in SUBSET Providers, StartDebate(available)
        PROVE  DebateSettled'
    <3> DEFINE ps == select_providers(available)
    <3>1. ps \subseteq ToSet(Order)
      BY DEF select_providers, deduplicate_providers
    <3>2. CASE ps = {}
      BY <2>2, <3>2 DEF StartDebate, DebateSettled, NoDebate, Answered
    <3>3. CASE ps # {}
      <4>1. debate' = [NoDebate EXCEPT !.phase = "querying", !.queried = ps, !.waiting = ps]
        BY <2>2, <3>3 DEF StartDebate
      <4> HIDE DEF ps
      <4> QED
        BY <3>1, <4>1 DEF DebateSettled, NoDebate, Answered
    <3> QED
      BY <3>2, <3>3
  <2>3. ASSUME NEW p \in Providers, NEW fits \in BOOLEAN, ProviderAnswers(p, fits)
        PROVE  DebateSettled'
    <3>1. /\ debate'.phase = debate.phase /\ debate'.queried = debate.queried
          /\ debate'.waiting = debate.waiting \ {p} /\ debate'.errors = debate.errors
          /\ debate'.responses = debate.responses \cup {Response(p, fits)}
          /\ p \in debate.waiting
      BY <2>0, <2>3 DEF ProviderAnswers, NoDebate
    <3>2. Response(p, fits).from = p
      BY DEF Response
    <3>3. p \in debate.queried /\ ~ Answered(p) /\ p \notin debate.errors
      BY <3>1 DEF DebateTypeOK, DebateSettled
    <3>4. \A q : Answered(q)' <=> Answered(q) \/ q = p
      BY <3>1, <3>2 DEF Answered
    <3>5. \A q, r \in debate'.responses : q.from = r.from => q = r
      BY <3>1, <3>2, <3>3 DEF Answered, DebateSettled
    <3> HIDE DEF Answered
    <3> QED
      BY <3>1, <3>3, <3>4, <3>5 DEF DebateSettled
  <2>4. ASSUME NEW p \in Providers, ProviderFails(p)
        PROVE  DebateSettled'
    <3>1. /\ debate'.phase = debate.phase /\ debate'.queried = debate.queried
          /\ debate'.waiting = debate.waiting \ {p} /\ debate'.errors = debate.errors \cup {p}
          /\ debate'.responses = debate.responses
          /\ p \in debate.waiting
      BY <2>0, <2>4 DEF ProviderFails, NoDebate
    <3> QED
      BY <3>1 DEF DebateSettled, DebateTypeOK, Answered
  <2>5. CASE ExcludeAndCompare
    <3> DEFINE out == Excluded(debate.responses)
    <3>1. out \subseteq debate.responses
      BY DEF Excluded
    <3>2. /\ debate'.queried = debate.queried /\ debate'.waiting = debate.waiting
          /\ debate'.errors = debate.errors \cup {r.from : r \in out}
          /\ debate'.responses = debate.responses \ out
          /\ debate.waiting = {}
      BY <2>0, <2>5 DEF ExcludeAndCompare, NoDebate
    <3> HIDE DEF out
    <3>3. \A q, r \in debate.responses : q.from = r.from => q = r
      BY DEF DebateSettled
    <3>4. \A p : Answered(p)' <=> Answered(p) /\ p \notin {r.from : r \in out}
      BY <3>1, <3>2, <3>3 DEF Answered
    <3>5. \A p \in {r.from : r \in out} : Answered(p)
      BY <3>1 DEF Answered
    <3>6. \A q, r \in debate'.responses : q.from = r.from => q = r
      BY <3>2, <3>3
    <3> HIDE DEF Answered
    <3> QED
      BY <3>2, <3>4, <3>5, <3>6 DEF DebateSettled
  <2>6. ASSUME NEW available \in SUBSET Providers, Conclude(available)
        PROVE  DebateSettled'
    <3>1. /\ debate'.queried = debate.queried /\ debate'.waiting = debate.waiting
          /\ debate'.errors = debate.errors /\ debate'.responses = debate.responses
          /\ debate.phase = "reviewing"
      BY <2>0, <2>6 DEF Conclude, NoDebate
    <3> QED
      BY <3>1 DEF DebateSettled, Answered
  <2> QED
    BY <2>1, <2>2, <2>3, <2>4, <2>5, <2>6 DEF DebateNext, debateVars, PoolDropsIdle
<1> QED
  BY <1>1, <1>2, DebateInvariant, DebateTypeCorrect, PTL DEF DebateSpec

(* Every provider that was asked is heard or named among the failures.     *)
THEOREM NobodyIsForgotten == DebateSpec => []QueriesAreSettled
<1>1. DebateTypeOK /\ DebateSettled => QueriesAreSettled
  BY DEF QueriesAreSettled, DebateSettled
<1> QED
  BY <1>1, DebateSettles, DebateTypeCorrect, PTL

(* The check of the language takes out every answer in a wrong language    *)
(* but never the last answer there is.                                     *)
THEOREM LanguageSparesAnAnswer == DebateSpec => AnAnswerStays
<1>1. ASSUME DebateInv, DebateTypeOK, DebateSettled, [DebateNext]_debateVars,
             debate.phase = "querying", debate'.phase = "reviewing"
      PROVE  LET fitting == {r \in debate.responses : r.fits}
             IN  IF fitting # {} \/ debate.responses = {}
                 THEN debate'.responses = fitting
                 ELSE \E r \in debate.responses : debate'.responses = {r}
  <2> DEFINE fitting == {r \in debate.responses : r.fits}
  <2>0. DOMAIN debate = DOMAIN NoDebate
    BY <1>1 DEF DebateInv
  <2>1. ExcludeAndCompare
    <3>1. ~ (\E available \in SUBSET Providers : StartDebate(available) \/ Conclude(available))
      BY <1>1 DEF StartDebate, Conclude
    <3>2. ~ (\E p \in Providers, fits \in BOOLEAN : ProviderAnswers(p, fits))
      BY <1>1, <2>0 DEF ProviderAnswers, NoDebate
    <3>3. ~ (\E p \in Providers : ProviderFails(p))
      BY <1>1, <2>0 DEF ProviderFails, NoDebate
    <3>4. debate' # debate
      BY <1>1
    <3> QED
      BY <1>1, <3>1, <3>2, <3>3, <3>4 DEF DebateNext, debateVars, PoolDropsIdle
  <2>2. debate'.responses = debate.responses \ Excluded(debate.responses)
    BY <2>0, <2>1 DEF ExcludeAndCompare, NoDebate
  <2>3. \A r \in debate.responses :
          /\ r.from \in debate.queried /\ r.from \in ToSet(Order) /\ r.fits \in BOOLEAN
          /\ r = [from |-> r.from, fits |-> r.fits]
    BY <1>1 DEF DebateTypeOK, DebateSettled
  <2>4. CASE fitting # {}
    <3>1. Excluded(debate.responses) = {r \in debate.responses : ~ r.fits}
      BY <2>4 DEF Excluded
    <3> QED
      BY <2>2, <2>4, <3>1
  <2>5. CASE debate.responses = {}
    BY <2>2, <2>5
  <2>6. CASE fitting = {} /\ debate.responses # {}
    <3> DEFINE froms == {r.from : r \in debate.responses}
    <3>1. froms \in SUBSET ToSet(Order) /\ froms # {}
      BY <2>3, <2>6
    <3>2. PICK p \in froms : \A q \in froms : ~ Earlier(p, q)
      <4> HIDE DEF froms
      <4> QED
        BY <3>1, OrderHasEnds
    <3>3. PICK r \in debate.responses : r.from = p
      BY <3>2
    <3>4. Excluded(debate.responses) =
            {q \in debate.responses : \E s \in debate.responses : Earlier(q.from, s.from)}
      BY <2>6 DEF Excluded
    <3>5. r \notin Excluded(debate.responses)
      BY <3>2, <3>3, <3>4
    <3>6. ASSUME NEW q \in debate.responses, q \notin Excluded(debate.responses)
          PROVE  q = r
      <4>1. ~ Earlier(q.from, r.from) /\ ~ Earlier(r.from, q.from)
        BY <3>3, <3>4, <3>5, <3>6
      <4>2. q.from = r.from
        BY <2>3, <4>1, OrderIsTotal
      <4> QED
        BY <1>1, <4>2 DEF DebateSettled
    <3>7. debate'.responses = {r}
      BY <2>2, <3>3, <3>5, <3>6
    <3> QED
      BY <2>6, <3>3, <3>7
  <2> QED
    BY <2>4, <2>5, <2>6
<1> QED
  BY <1>1, DebateInvariant, DebateTypeCorrect, DebateSettles, PTL DEF DebateSpec, AnAnswerStays
================================================================================
