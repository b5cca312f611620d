--------------------------- MODULE HypothesisStore ---------------------------
(***************************************************************************)
(* The table of skill hypotheses, the older kind of skill: learned or      *)
(* imported patterns with a status that decides whether they may be used.  *)
(* Calls run without an await and are operators here, as in ContractStore. *)
(*                                                                         *)
(* The evidence rows and the counters of support, contradiction and use    *)
(* are left out: they are statistics, shown by /skills and /explain, and   *)
(* no decision modelled here reads them.                                   *)
(***************************************************************************)
EXTENDS FiniteSets, Naturals

VARIABLES
    hyps,       \* rows: [id, owner, status, pattern]
    tombs       \* identifiers of hypotheses that have a tombstone

ALLOWED_TRANSITIONS ==
    [s \in {"candidate", "suggested", "confirmed", "active", "needs_review",
            "paused", "archived", "retired"} |->
       CASE s = "candidate"    -> {"suggested", "archived", "retired"}
         [] s = "suggested"    -> {"confirmed", "archived", "needs_review"}
         [] s = "confirmed"    -> {"active", "paused", "needs_review", "archived"}
         [] s = "active"       -> {"paused", "needs_review"}
         [] s = "needs_review" -> {"confirmed", "archived", "retired"}
         [] s = "paused"       -> {"active", "archived", "retired"}
         [] s = "archived"     -> {"retired"}
         [] s = "retired"      -> {}]

ALLOWED_STATUSES == DOMAIN ALLOWED_TRANSITIONS

get_hypothesis(id) == {h \in hyps : h.id = id}

get_hypotheses_by_user(u, status) == {h \in hyps : h.owner = u /\ h.status = status}

\* The unchecked update; it changes nothing when the row is gone.
update_hypothesis_status(id, status) ==
    hyps' = {IF h.id = id THEN [h EXCEPT !.status = status] ELSE h : h \in hyps}

\* The checked one raises for an unknown row and for a step the matrix forbids.
TransitionAllowed(id, status) ==
    \E h \in get_hypothesis(id) : status \in ALLOWED_TRANSITIONS[h.status]

\* Whether it is permanent and when it expires is left out: nothing asks
\* check_tombstone.
insert_tombstone(id) == tombs' = tombs \cup {id}

\* Deleting a row takes with it what refers to it by a foreign key, which a
\* tombstone does not.
RowsDeleted(ids) == hyps' = {h \in hyps : h.id \notin ids}
=============================================================================
