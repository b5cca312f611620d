---------------------------- MODULE ContractStore ----------------------------
(***************************************************************************)
(* The table of skill contracts, one row per contract.  Every call runs    *)
(* without an await, so it is one step of whoever makes it; the operators  *)
(* below are the calls, and the modules that use the store conjoin them    *)
(* with their own changes.                                                 *)
(***************************************************************************)
EXTENDS SkillContract, FiniteSets

CONSTANT Users

ASSUME UsersAssumption == None \notin Users

VARIABLE contracts      \* rows: [owner, contract]

RowsOf(u) == {r \in contracts : r.owner = u}

\* The secure load path: a row whose checksum does not cover its content is
\* an error for a single read and is skipped by the reads of many.
Intact(r) == r.contract.checksum = compute_checksum(r.contract)

get_by_user(u, status) == {r.contract : r \in {s \in RowsOf(u) : /\ s.contract.status = status
                                                                  /\ Intact(s)}}

exists_by_name(u, name) == \E r \in RowsOf(u) : r.contract.name = name

HasHypothesis(rows, h) == h # None /\ \E r \in rows : r.contract.hypothesis = h

\* What persist raises, in the order of its checks; the last two are the
\* table's own constraints.
persist_error(u, c) ==
    LET final == finalize_security_metadata(c)
    IN  CASE exists_by_name(u, final.name) -> "duplicate_name"
          [] ~exists_by_name(u, final.name) /\ ~validate(final, None) -> "invalid"
          [] OTHER ->
               IF HasHypothesis(contracts, final.hypothesis) THEN "duplicate_hypothesis"
               ELSE IF \E r \in contracts : r.contract.id = final.id THEN "constraint"
               ELSE "none"

persist(u, c) ==
    contracts' = IF persist_error(u, c) = "none"
                 THEN contracts \cup {[owner |-> u,
                                       contract |-> finalize_security_metadata(c)]}
                 ELSE contracts

\* update(): expected is the version the caller read, or None.
NextVersion(old, c) ==
    finalize_security_metadata([c EXCEPT !.version = old.contract.version + 1])

Stale_Newer(old, expected) == expected # None /\ expected > old.contract.version
Stale(old, expected) == expected # None /\ expected # old.contract.version

update_error(u, c, expected) ==
    LET known == {r \in RowsOf(u) : r.contract.id = c.id}
    IN  IF known = {} THEN "not_found"
        ELSE LET old == CHOOSE r \in known : TRUE
                 new == NextVersion(old, c)
                 others == contracts \ {old}
             IN  IF Stale(old, expected) THEN "stale"
                 ELSE IF \E r \in others : r.owner = u /\ r.contract.name = new.name
                      THEN "duplicate_name"
                 ELSE IF ~validate(new, old.contract.version) THEN "invalid"
                 ELSE IF HasHypothesis(others, new.hypothesis) THEN "duplicate_hypothesis"
                 ELSE "none"

update(u, c, expected) ==
    contracts' = IF update_error(u, c, expected) # "none" THEN contracts
                 ELSE LET old == CHOOSE r \in RowsOf(u) : r.contract.id = c.id
                      IN  (contracts \ {old}) \cup
                          {[owner |-> u, contract |-> NextVersion(old, c)]}

delete(u, id) == contracts' = {r \in contracts : ~(r.owner = u /\ r.contract.id = id)}

\* What the table's unique indexes and the rules promise of every row.
StoreConsistent ==
    /\ \A r, s \in contracts : \/ r = s
                               \/ /\ r.contract.id # s.contract.id
                                  /\ ~(r.owner = s.owner /\ r.contract.name = s.contract.name)
                                  /\ \/ r.contract.hypothesis = None
                                     \/ r.contract.hypothesis # s.contract.hypothesis
    /\ \A r \in contracts : Intact(r) => validate(r.contract, None)
=============================================================================
