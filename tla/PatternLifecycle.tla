--------------------------- MODULE PatternLifecycle ---------------------------
(***************************************************************************)
(* The life of a learned pattern: found or taught, observed in the         *)
(* evidence ledger, rated, judged, confirmed by the user, reworded and     *)
(* forgotten.                                                              *)
(*                                                                         *)
(* Nothing in production calls the judge, the ledger or the estimators     *)
(* yet.  They are composed here the way the judge's docstring and          *)
(* test_full_pipeline.py compose them: its caller keeps the estimates in   *)
(* memory, passes them in and stores the recommended status unchecked.     *)
(* Aliases and the counters of support, which no decision reads, are left  *)
(* out.                                                                    *)
(***************************************************************************)
EXTENDS HypothesisStore, PatternConfidence

CONSTANTS
    Patterns,       \* identifiers of hypotheses
    Teacher,        \* the user who owns them
    Claims,         \* wordings
    Blocking,       \* wording -> the privacy filters that reject it
    Scopes,         \* [client, project, tags]
    Types,          \* "negative", "preference", "procedural" or another
    Signals,        \* evidence: [positive, weight, episodes], none or one episode
    Ratings,        \* Elo ratings that may be computed
    Difficulty,     \* wording -> rating of the requests it meets
    JudgeDays,      \* the days things happen on, in order
    RecentLimit3,   \* how far back contradictions are counted
    MaxRecords, MaxReviews, MaxVersion, MaxAudit   \* bounds; only the audit's is the code's

ASSUME SignalsAssumption ==
    \A signal \in Signals : signal.positive \in BOOLEAN /\ signal.weight \in Int

\* What a new pattern starts with is among the values that may be computed.
ASSUME EstimatesAssumption ==
    /\ INITIAL_RATING \in Ratings
    /\ DefaultState.stability \in Stabilities
    /\ \A rating \in 1 .. 4 : initial_stability(rating) \in Stabilities
    /\ MaxHistory \in Nat \ {0} /\ MaxVersion \in Nat \ {0} /\ MaxAudit \in Nat \ {0, 1}

VARIABLES
    ledger,         \* evidence of every pattern, in memory
    beliefs,        \* its BKT state, in memory
    decay,          \* its FSRS state, kept by the caller
    archive,        \* the versions that were replaced: [id, version]
    audit,          \* the filters of the rejections, newest last
    judgeDay,       \* how many of the days have come
    approved        \* pattern -> the version its user last agreed to

lifeVars == <<hyps, tombs, ledger, beliefs, decay, archive, audit, judgeDay, approved>>

Day == JudgeDays[judgeDay]

NewRow(id, type, scope, claim, status, immune) ==
    [id |-> id, owner |-> Teacher, status |-> status, pattern |-> claim, type |-> type,
     scope |-> scope, version |-> 1, elo |-> INITIAL_RATING, immune |-> immune]

SetColumns(id, row(_)) == hyps' = {IF h.id = id THEN row(h) ELSE h : h \in hyps}

-----------------------------------------------------------------------------
(* The privacy pipeline                                                    *)

\* Fail-fast: the first filter that objects is the one that is recorded.
check(claim) ==
    LET objections == SelectSeq(<<"healthcare", "secret", "nudge">>, LAMBDA f : f \in Blocking[claim])
    IN IF objections = <<>> THEN {} ELSE {objections[1]}

\* A full log keeps its newest half, and one more.
add_rejection(filter) ==
    LET all == Append(audit, filter)
    IN IF Len(all) > MaxAudit THEN SubSeq(all, MaxAudit \div 2 + 1, Len(all)) ELSE all

Checked(claim) ==
    audit' = IF check(claim) = {} THEN audit ELSE add_rejection(CHOOSE f \in check(claim) : TRUE)

-----------------------------------------------------------------------------
(* The evidence ledger                                                     *)

Count(records, Is(_)) == Len(SelectSeq(records, Is))

get_summary(id) ==
    [positive |-> Count(ledger[id], LAMBDA r : r.positive),
     total |-> Len(ledger[id]),
     sessions |-> Cardinality(UNION {r.episodes : r \in ToSet(ledger[id])}),
     belief |-> beliefs[id]]

get_recent_contradictions(id) ==
    LET older == Len(ledger[id]) - RecentLimit3
        recent == IF older > 0 THEN SubSeq(ledger[id], older + 1, Len(ledger[id])) ELSE ledger[id]
    IN Count(recent, LAMBDA r : ~r.positive)

-----------------------------------------------------------------------------
(* The judge                                                               *)

SUGGEST_MIN_EVIDENCE == 3
SUGGEST_MIN_SESSIONS == 2
CONTRADICTION_THRESHOLD == 3

Threshold(confirmations, elo, sessions, belief) ==
    [confirmations |-> confirmations, elo |-> elo, sessions |-> sessions, belief |-> belief]

THRESHOLDS ==
    [negative_specific |-> Threshold(2, 1650, 2, 6500),
     negative_domain |-> Threshold(4, 1700, 2, 7000),
     negative_global |-> Threshold(6, 1750, 3, 7500),
     preference |-> Threshold(5, 1700, 2, 7000),
     procedural |-> Threshold(8, 1800, 3, 8000),
     default |-> Threshold(5, 1700, 2, 7000)]

scope_specificity(scope) ==
    (IF scope.client THEN 2 ELSE 0) + (IF scope.project THEN 1 ELSE 0)
      + (IF scope.tags < 3 THEN scope.tags ELSE 3)

threshold_key(h) ==
    CASE h.type = "negative" ->
           (CASE scope_specificity(h.scope) >= 2 -> "negative_specific"
              [] scope_specificity(h.scope) = 1 -> "negative_domain"
              [] OTHER -> "negative_global")
      [] h.type \in {"preference", "procedural"} -> h.type
      [] OTHER -> "default"

\* What a hypothesis still lacks before it is applied unasked.
Deficits(h, evidence) ==
    LET t == THRESHOLDS[threshold_key(h)]
    IN {x \in {"confirmations", "elo", "sessions", "belief"} :
          CASE x = "confirmations" -> evidence.positive < t.confirmations
            [] x = "elo" -> h.elo < t.elo
            [] x = "sessions" -> evidence.sessions < t.sessions
            [] x = "belief" -> evidence.belief < t.belief}

meets_auto_apply_threshold(h, evidence) == Deficits(h, evidence) = {}

check_archive(h, day) ==
    /\ ~h.immune
    /\ is_archive_candidate(apply_seasonal_boost(decay[h.id]), day)

should_challenge(h) ==
    /\ h.status \in {"confirmed", "active"}
    /\ get_recent_contradictions(h.id) >= CONTRADICTION_THRESHOLD

\* The next stage, or the same one; only the user makes it confirmed.
check_promotion(h, evidence) ==
    CASE /\ h.status = "candidate"
         /\ evidence.total >= SUGGEST_MIN_EVIDENCE
         /\ evidence.sessions >= SUGGEST_MIN_SESSIONS -> "suggested"
      [] h.status = "confirmed" /\ meets_auto_apply_threshold(h, evidence) -> "active"
      [] OTHER -> h.status

\* Without a date nothing is archived.
Archives(h, dated) ==
    dated /\ h.status \notin {"paused", "archived", "retired"} /\ check_archive(h, Day)

evaluate(h, dated) ==
    CASE Archives(h, dated) -> "archived"
      [] ~Archives(h, dated) /\ should_challenge(h) -> "needs_review"
      [] ~Archives(h, dated) /\ ~should_challenge(h) ->
           IF check(h.pattern) # {} THEN "privacy_rejected" ELSE check_promotion(h, get_summary(h.id))

-----------------------------------------------------------------------------
(* Actions                                                                 *)

LifeInit ==
    /\ hyps = {} /\ tombs = {}
    /\ ledger = [id \in Patterns |-> <<>>]
    /\ beliefs = [id \in Patterns |-> DEFAULT_P_INIT]
    /\ decay = [id \in Patterns |-> DefaultState]
    /\ archive = {} /\ audit = <<>>
    /\ judgeDay = 1
    /\ approved = [id \in Patterns |-> 0]

\* /learn and an import: all filters first, then a row that never decays.
learn(id, claim) ==
    /\ get_hypothesis(id) = {}
    /\ Checked(claim)
    /\ IF check(claim) # {} THEN UNCHANGED <<hyps, approved>>
       ELSE /\ hyps' = hyps \cup {NewRow(id, "preference",
                                         [client |-> FALSE, project |-> FALSE, tags |-> 0],
                                         claim, "confirmed", TRUE)}
            /\ approved' = [approved EXCEPT ![id] = 1]
    /\ UNCHANGED <<tombs, ledger, beliefs, decay, archive, judgeDay>>

\* A candidate found in the chats is inserted without a filter.
Find(id, type, scope, claim) ==
    /\ get_hypothesis(id) = {}
    /\ hyps' = hyps \cup {NewRow(id, type, scope, claim, "candidate", FALSE)}
    /\ decay' \in {[decay EXCEPT ![id] = s] : s \in {DefaultState, create_initial_fsrs_state(3, Day)}}
    /\ UNCHANGED <<tombs, ledger, beliefs, archive, audit, judgeDay, approved>>

\* Every call moves the belief, also when the hypothesis is gone.
add_evidence(id, signal) ==
    /\ Len(ledger[id]) < MaxRecords
    /\ ledger' = [ledger EXCEPT ![id] = Append(@, signal)]
    /\ beliefs' = [beliefs EXCEPT ![id] = update_bkt_weighted(@, signal.positive, signal.weight)]
    /\ UNCHANGED <<hyps, tombs, decay, archive, audit, judgeDay, approved>>

\* A match between the pattern and a request, and the new rating's row.
update_hypothesis_elo(id, outcome) ==
    /\ \E h \in get_hypothesis(id) :
         \E r \in update_elo(h.elo, Difficulty[h.pattern], outcome) \cap Ratings :
           SetColumns(id, LAMBDA g : [g EXCEPT !.elo = r])
    /\ UNCHANGED <<tombs, ledger, beliefs, decay, archive, audit, judgeDay, approved>>

Review(id, rating) ==
    /\ decay[id].reps + decay[id].lapses < MaxReviews
    /\ \E s \in update_fsrs(decay[id], rating, Day) : decay' = [decay EXCEPT ![id] = s]
    /\ UNCHANGED <<hyps, tombs, ledger, beliefs, archive, audit, judgeDay, approved>>

Judge(id) ==
    /\ \E h \in get_hypothesis(id), dated \in BOOLEAN :
         /\ update_hypothesis_status(id, evaluate(h, dated))
         /\ IF Archives(h, dated) \/ should_challenge(h) THEN UNCHANGED audit ELSE Checked(h.pattern)
    /\ UNCHANGED <<tombs, ledger, beliefs, decay, archive, judgeDay, approved>>

Agreed(id) == approved' = [approved EXCEPT ![id] = (CHOOSE h \in get_hypothesis(id) : TRUE).version]

\* The user agrees to what is suggested or under review.
Confirm(id) ==
    /\ \E h \in get_hypothesis(id) : h.status \in {"suggested", "needs_review"}
    /\ update_hypothesis_status(id, "confirmed")
    /\ Agreed(id)
    /\ UNCHANGED <<tombs, ledger, beliefs, decay, archive, audit, judgeDay>>

\* "Yes" to the question before a use makes it active at once.
AnswerYesOnce(id) ==
    /\ \E h \in get_hypothesis(id) : h.status = "confirmed"
    /\ update_hypothesis_status(id, "active")
    /\ Agreed(id)
    /\ UNCHANGED <<tombs, ledger, beliefs, decay, archive, audit, judgeDay>>

\* The buttons of /skill: to pause works in every status, to resume from
\* every status agrees to it.
PausePattern(id) ==
    /\ get_hypothesis(id) # {}
    /\ update_hypothesis_status(id, "paused")
    /\ UNCHANGED <<tombs, ledger, beliefs, decay, archive, audit, judgeDay, approved>>

ResumePattern(id) ==
    /\ \E h \in get_hypothesis(id) : h.status = "paused"
    /\ update_hypothesis_status(id, "confirmed")
    /\ Agreed(id)
    /\ UNCHANGED <<tombs, ledger, beliefs, decay, archive, audit, judgeDay>>

\* Neither the ledger nor the reviews are told.
execute_forget(id) ==
    /\ get_hypothesis(id) # {}
    /\ update_hypothesis_status(id, "retired")
    /\ insert_tombstone(id)
    /\ UNCHANGED <<ledger, beliefs, decay, archive, audit, judgeDay, approved>>

\* For a hypothesis that is retired; only tests call it.
clear_hypothesis(id) ==
    /\ \E h \in get_hypothesis(id) : h.status = "retired"
    /\ ledger' = [ledger EXCEPT ![id] = <<>>]
    /\ beliefs' = [beliefs EXCEPT ![id] = DEFAULT_P_INIT]
    /\ UNCHANGED <<hyps, tombs, decay, archive, audit, judgeDay, approved>>

\* Mutant: a new wording keeps the status.
create_new_version_kept(id, claim) ==
    /\ \E h \in get_hypothesis(id) : h.version < MaxVersion
    /\ SetColumns(id, LAMBDA h : [h EXCEPT !.pattern = claim, !.version = @ + 1])
    /\ UNCHANGED <<tombs, ledger, beliefs, decay, archive, audit, judgeDay, approved>>

\* A new wording starts as a suggestion with the initial rating, whatever
\* the status was; the ledger is not told.
create_new_version(id, claim) ==
    /\ \E h \in get_hypothesis(id) :
         /\ h.version < MaxVersion
         /\ archive' = archive \cup {[id |-> id, version |-> h.version]}
    /\ SetColumns(id, LAMBDA h : [h EXCEPT !.pattern = claim, !.version = @ + 1,
                                           !.elo = INITIAL_RATING, !.status = "suggested"])
    /\ UNCHANGED <<tombs, ledger, beliefs, decay, audit, judgeDay, approved>>

DayPasses ==
    /\ judgeDay < Len(JudgeDays)
    /\ judgeDay' = judgeDay + 1
    /\ UNCHANGED <<hyps, tombs, ledger, beliefs, decay, archive, audit, approved>>

\* The tables survive; what is in memory does not.
RestartLife ==
    /\ ledger' = [id \in Patterns |-> <<>>]
    /\ beliefs' = [id \in Patterns |-> DEFAULT_P_INIT]
    /\ decay' = [id \in Patterns |-> DefaultState]
    /\ audit' = <<>>
    /\ UNCHANGED <<hyps, tombs, archive, judgeDay, approved>>

LifeNext ==
    \/ DayPasses
    \/ RestartLife
    \/ \E id \in Patterns :
         \/ \E claim \in Claims : learn(id, claim) \/ create_new_version(id, claim)
         \/ \E type \in Types, scope \in Scopes, claim \in Claims : Find(id, type, scope, claim)
         \/ \E signal \in Signals : add_evidence(id, signal)
         \/ \E outcome \in {"wins", "loses", "draw"} : update_hypothesis_elo(id, outcome)
         \/ \E rating \in 1 .. 4 : Review(id, rating)
         \/ Judge(id)
         \/ Confirm(id)
         \/ AnswerYesOnce(id)
         \/ PausePattern(id)
         \/ ResumePattern(id)
         \/ execute_forget(id)
         \/ clear_hypothesis(id)

LifeSpec == LifeInit /\ [][LifeNext]_lifeVars

\* Where contradictions lead a belief and the learning transition holds it.
LowestBelief == 1142

LifeTypeOK ==
    /\ \A h \in hyps : /\ h.status \in ALLOWED_STATUSES \cup {"privacy_rejected"}
                       /\ h.elo \in Ratings /\ h.version \in 1 .. MaxVersion
    /\ \A id \in Patterns : /\ Cardinality(get_hypothesis(id)) <= 1
                            /\ beliefs[id] \in LowestBelief .. 9990
                            /\ decay[id].stability \in Stabilities
                            /\ Len(decay[id].history) <= MaxHistory
    /\ Len(audit) <= MaxAudit
=============================================================================
