----------------------------- MODULE SkillMatcher -----------------------------
(***************************************************************************)
(* Which skill a message calls for: a contract whose phrase is the whole   *)
(* message, else a hypothesis with an alias that is the whole message,     *)
(* else the hypotheses similar enough to it, of which the most specific    *)
(* one wins.  Hypotheses that a usable contract has replaced are passed    *)
(* over.                                                                   *)
(*                                                                         *)
(* Similarities and ratings are numbers compared with a threshold; Alias   *)
(* and Similar hold the pairs above it.  The order of rows of equal rank   *)
(* is a choice, so match() is the set of its possible results.             *)
(***************************************************************************)
EXTENDS ContractStore, HypothesisStore

CONSTANTS
    Alias,          \* pairs <<hypothesis, text>>
    Similar,        \* pairs <<hypothesis, text>>
    ScopeOf         \* hypothesis -> has its scope a client, a project, how many tags

\* A contract without a hypothesis of its own goes by its own identifier.
FromContract(c) == [key |-> IF c.hypothesis # None THEN c.hypothesis ELSE c.id,
                    status |-> c.status, contract |-> c]

FromHypothesis(h) == [key |-> h.id, status |-> h.status, contract |-> None]

ExactPhrase(u, text, status) ==
    {c \in get_by_user(u, status) : c.mode = "exact_phrase" /\ c.trigger = text}

try_contract_match(u, text) ==
    {FromContract(c) : c \in IF ExactPhrase(u, text, "confirmed") # {}
                             THEN ExactPhrase(u, text, "confirmed")
                             ELSE ExactPhrase(u, text, "active")}

CoveredByContract(u) ==
    {c.hypothesis : c \in UNION {get_by_user(u, s) : s \in Matchable}} \ {None}

MatchableHypotheses(u) == UNION {get_hypotheses_by_user(u, s) : s \in Matchable}

try_alias_match(u, text) == {h \in MatchableHypotheses(u) : <<h.id, text>> \in Alias}

try_fingerprint_match(u, text) == {h \in MatchableHypotheses(u) : <<h.id, text>> \in Similar}

compute_specificity(scope) ==
    (IF scope.client THEN 2 ELSE 0) + (IF scope.project THEN 1 ELSE 0)
      + (IF scope.tags > 3 THEN 3 ELSE scope.tags)

\* HC-SC-11: the most specific candidate; on a tie the user is to decide.
resolve(candidates) ==
    LET specificity(h) == compute_specificity(ScopeOf[h.id])
        top == {h \in candidates : \A g \in candidates : specificity(h) >= specificity(g)}
    IN  [winner |-> IF Cardinality(top) = 1 THEN top ELSE {}, candidates |-> top]

\* On a tie the user is not asked: the most similar candidate of all is
\* taken, which may be any.
resolve_collision(candidates) ==
    IF resolve(candidates).winner # {} THEN resolve(candidates).winner ELSE candidates

\* An alias of a replaced hypothesis is dropped only after it was picked, so
\* it hides the other aliases.
match(u, text) ==
    LET replaced == CoveredByContract(u)
        usable(candidates) == {h \in candidates : h.id \notin replaced}
        aliased == try_alias_match(u, text)
        similar == resolve_collision(usable(try_fingerprint_match(u, text)))
        fallback == IF similar = {} THEN {None} ELSE {FromHypothesis(h) : h \in similar}
    IN  IF try_contract_match(u, text) # {} THEN try_contract_match(u, text)
        ELSE IF aliased = {} THEN fallback
        ELSE {FromHypothesis(h) : h \in usable(aliased)} \cup
             (IF aliased = usable(aliased) THEN {} ELSE fallback)

\* HC-SC-10: a confirmed skill is asked about, an active one is not.
should_ask_user(m) == m.status # "active"

\* What reaches a prompt: the permission gate judges contracts only.
match_skills_for_prompt(u, text) ==
    {IF m = None THEN None
     ELSE IF m.contract = None THEN m
     ELSE IF check_execution_allowed(m.contract) THEN m ELSE None : m \in match(u, text)}
=============================================================================
