---------------------------- MODULE Skills_proofs ----------------------------
(***************************************************************************)
(* Proofs about the skills: the drafts of /learn and what they may hold,   *)
(* the questions before a skill is used, imports with their undo, and the  *)
(* table of contracts that all of them write.                              *)
(***************************************************************************)
EXTENDS SkillProps, TLAPS

(* The fields of a contract that drafting, editing and saving touch.       *)
Fields == {"id", "name", "trigger", "instruction", "status", "permissions",
           "hypothesis", "package", "risk", "checksum"}

DraftFields == {"id", "user", "contract", "edits", "left"}

Contractual(c) == Fields \subseteq DOMAIN c

(* Deriving the metadata changes neither the identifier nor the texts.     *)
LEMMA FinalizingKeeps ==
  ASSUME NEW c, Contractual(c)
  PROVE  LET f == finalize_security_metadata(c)
         IN  f.id = c.id /\ f.trigger = c.trigger /\ f.instruction = c.instruction
BY DEF finalize_security_metadata, Contractual, Fields

(* So does confirming.                                                     *)
LEMMA ConfirmingKeeps ==
  ASSUME NEW c, Contractual(c)
  PROVE  /\ Contractual(Confirmed(c))
         /\ Confirmed(c).id = c.id
         /\ Confirmed(c).trigger = c.trigger
         /\ Confirmed(c).instruction = c.instruction
BY DEF Confirmed, Contractual, Fields

(* An edit keeps the identifier.                                           *)
LEMMA EditingKeeps ==
  ASSUME NEW d, Contractual(d.contract), NEW action, NEW text
  PROVE  /\ Contractual(Edited(d, action, text))
         /\ Edited(d, action, text).id = d.contract.id
BY DEF Edited, apply_trigger_edit, apply_instruction_edit, Contractual, Fields

(* A text becomes a contract with the identifier it is given.              *)
LEMMA BuildingGives ==
  ASSUME NEW id, NEW text
  PROVE  Contractual(build(id, text)) /\ build(id, text).id = id
BY DEF build, NewContract, Contractual, Fields

(* What persisting adds is the contract it was given, and safe as that.    *)
LEMMA PersistedIsSafe ==
  ASSUME NEW u, NEW c, Contractual(c), IsSafe(c), persist(u, Confirmed(c))
  PROVE  \A r \in contracts' : r \in contracts \/ (r.contract.id = c.id /\ IsSafe(r.contract))
<1>1. LET f == finalize_security_metadata(Confirmed(c))
      IN  f.id = c.id /\ f.trigger = c.trigger /\ f.instruction = c.instruction
  BY ConfirmingKeeps, FinalizingKeeps
<1>2. IsSafe(finalize_security_metadata(Confirmed(c)))
  BY <1>1 DEF IsSafe, iter_user_text_fields
<1> QED
  BY <1>1, <1>2 DEF persist

-----------------------------------------------------------------------------
(* A draft has an identifier that was given out, and holds a safe contract *)
(* of that identifier.                                                     *)
SoundDraft(d, n) ==
  /\ DOMAIN d = DraftFields
  /\ d.user \in Users
  /\ d.id \in 1 .. n
  /\ Contractual(d.contract)
  /\ d.contract.id = d.id
  /\ IsSafe(d.contract)

(* The inductive invariant: DraftsConsistent speaks of identifiers, so it  *)
(* needs that none is given out twice, to drafts or to stored contracts.   *)
LearnInv ==
  /\ built \in Nat
  /\ active \in [Users -> Nat \cup {None}]
  /\ \A p \in screen : p.user \in Users
  /\ \A d \in drafts : SoundDraft(d, built)
  /\ \A d, e \in drafts : d.id = e.id => d = e
  /\ \A r \in contracts : r.contract.id \in 1 .. built /\ IsSafe(r.contract)
  /\ DraftsConsistent

(* Removing all drafts of one user, and only those, keeps the invariant.   *)
LEMMA RemovingKeeps ==
  ASSUME LearnInv, NEW u \in Users, NEW id, NEW gone \in SUBSET DraftOf(u, id),
         gone # {}, gone = DraftOf(u, id),
         drafts' = drafts \ gone,
         owners' = owners \ {<<u, id>>},
         active' = [active EXCEPT ![u] = None],
         UNCHANGED <<screen, built>>,
         \A r \in contracts' : r \in contracts
            \/ (r.contract.id = id /\ IsSafe(r.contract))
  PROVE  LearnInv'
<1>1. PICK g \in drafts : g.user = u /\ g.id = id /\ g \in gone
  BY DEF DraftOf
<1>2. active[u] = id /\ id \in 1 .. built
  BY <1>1 DEF LearnInv, DraftsConsistent, SoundDraft
<1>3. \A d \in drafts : d \in drafts' <=> d.user # u
  BY <1>1, <1>2 DEF LearnInv, DraftsConsistent, DraftOf
<1>4. \A d \in drafts : d.id = id => d = g
  BY <1>1 DEF LearnInv
<1>5. owners' = {<<d.user, d.id>> : d \in drafts'}
  BY <1>1, <1>3, <1>4 DEF LearnInv, DraftsConsistent
<1>6. \A d \in drafts' : active'[d.user] = d.id
  BY <1>3 DEF LearnInv, DraftsConsistent, SoundDraft
<1>7. \A v \in Users : active'[v] # None => DraftOf(v, active[v])' # {}
  BY <1>3 DEF LearnInv, DraftsConsistent, DraftOf
<1>8. \A d \in drafts', r \in contracts' : r.contract.id # d.id
  BY <1>1, <1>3, <1>4 DEF LearnInv, DraftsConsistent
<1>9. DraftsConsistent'
  BY <1>5, <1>6, <1>7, <1>8 DEF DraftsConsistent
<1>10. \A r \in contracts' : r.contract.id \in 1 .. built' /\ IsSafe(r.contract)
  BY <1>2 DEF LearnInv
<1> QED
  BY <1>9, <1>10 DEF LearnInv

(* A step that leaves the drafts alone, and makes no contract unsafe.      *)
LEMMA LeavingKeeps ==
  ASSUME LearnInv, UNCHANGED <<drafts, active, owners>>,
         built' \in Nat, built' >= built,
         \A p \in screen' : p.user \in Users,
         \A r \in contracts' : r \in contracts
            \/ (r.contract.id \in (built + 1) .. built' /\ IsSafe(r.contract))
  PROVE  LearnInv'
<1>1. \A d \in drafts' : SoundDraft(d, built') /\ d.id \in 1 .. built
  BY DEF LearnInv, SoundDraft
<1>2. \A r \in contracts' : r.contract.id \in 1 .. built' /\ IsSafe(r.contract)
  BY DEF LearnInv
<1>3. \A d \in drafts', r \in contracts' : r.contract.id # d.id
  BY <1>1 DEF LearnInv, DraftsConsistent
<1>4. DraftsConsistent'
  BY <1>3 DEF LearnInv, DraftsConsistent, DraftOf
<1> QED
  BY <1>1, <1>2, <1>4 DEF LearnInv

(* A new draft takes the place of its user's active one.                   *)
LEMMA CreatingKeeps ==
  ASSUME LearnInv, NEW u \in Users, NEW c, Contractual(c), c.id = built + 1, IsSafe(c),
         create_draft(u, c), built' = built + 1, UNCHANGED contracts,
         \A p \in screen' : p.user \in Users
  PROVE  LearnInv'
<1> DEFINE new == [id |-> c.id, user |-> u, contract |-> c, edits |-> 0, left |-> DraftTTL]
           live == Live(drafts)
           kept == {d \in live : ~(d.user = u /\ d.id = active[u])}
<1>1. built \in Nat /\ \A d \in drafts : SoundDraft(d, built)
  BY DEF LearnInv
<1>2. \A d \in drafts : d.id # c.id
  BY <1>1 DEF SoundDraft
<1>3. kept \subseteq drafts /\ \A d \in kept : d.user # u /\ d \in live
  BY DEF Live, LearnInv, DraftsConsistent
<1>4. drafts' = kept \cup {new}
  BY DEF create_draft
<1>5. SoundDraft(new, built')
  BY <1>1 DEF SoundDraft, DraftFields
<1>6. \A d \in drafts' : SoundDraft(d, built')
  BY <1>1, <1>3, <1>4, <1>5 DEF SoundDraft
<1>7. \A d, e \in drafts' : d.id = e.id => d = e
  BY <1>2, <1>3, <1>4 DEF LearnInv
<1>8. owners' = {<<d.user, d.id>> : d \in drafts'}
  BY <1>4 DEF create_draft
<1>9. active' = [v \in Users |->
                   IF v = u THEN c.id
                   ELSE IF \E d \in drafts \ live : d.user = v /\ d.id = active[v]
                   THEN None ELSE active[v]]
  BY DEF create_draft
<1>10. active' \in [Users -> Nat \cup {None}]
  BY <1>1, <1>9 DEF LearnInv
<1>11. \A d \in drafts' : active'[d.user] = d.id
  <2>1. SUFFICES ASSUME NEW d \in kept PROVE active'[d.user] = d.id
    BY <1>4, <1>9
  <2>2. d.user \in Users /\ d.user # u /\ active[d.user] = d.id /\ d \in live
    BY <1>1, <1>3 DEF SoundDraft, LearnInv, DraftsConsistent
  <2>3. ~ \E e \in drafts \ live : e.user = d.user /\ e.id = active[d.user]
    BY <1>3, <2>2 DEF LearnInv
  <2> QED
    BY <1>9, <2>2, <2>3
<1>12. \A v \in Users : active'[v] # None => DraftOf(v, active[v])' # {}
  <2>1. ASSUME NEW v \in Users, active'[v] # None
        PROVE  \E d \in drafts' : d.user = v /\ d.id = active'[v]
    <3>1. CASE v = u
      <4>1. new \in drafts' /\ new.user = v /\ new.id = c.id
        BY <1>4, <3>1
      <4>2. active'[v] = c.id
        BY <1>9, <3>1
      <4> HIDE DEF new
      <4> QED
        BY <4>1, <4>2
    <3>2. CASE v # u
      <4>1. active'[v] = active[v] /\ ~ \E d \in drafts \ live : d.user = v /\ d.id = active[v]
        BY <1>9, <2>1, <3>2
      <4>2. PICK d \in drafts : d.user = v /\ d.id = active[v]
        BY <2>1, <4>1 DEF LearnInv, DraftsConsistent, DraftOf
      <4>3. d \in kept
        BY <3>2, <4>1, <4>2
      <4> QED
        BY <1>4, <4>1, <4>2, <4>3
    <3> QED
      BY <3>1, <3>2
  <2>2. ASSUME NEW v \in Users, active'[v] # None
        PROVE  DraftOf(v, active[v])' # {}
    <3>1. PICK d \in drafts' : d.user = v /\ d.id = active'[v]
      BY <2>1, <2>2
    <3>2. d \in DraftOf(v, active[v])'
      BY <3>1 DEF DraftOf
    <3> QED
      BY <3>2
  <2> QED
    BY <2>2
<1>13. \A r \in contracts : r.contract.id \in 1 .. built
  BY DEF LearnInv
<1>14. \A d \in drafts', r \in contracts' : r.contract.id # d.id
  <2>1. \A r \in contracts : r.contract.id # c.id
    BY <1>1, <1>13
  <2> QED
    BY <1>3, <1>4, <2>1 DEF LearnInv, DraftsConsistent
<1>15. DraftsConsistent'
  BY <1>8, <1>11, <1>12, <1>14 DEF DraftsConsistent
<1>16. \A r \in contracts' : r.contract.id \in 1 .. built' /\ IsSafe(r.contract)
  BY <1>1, <1>13 DEF LearnInv
<1> QED
  BY <1>1, <1>6, <1>7, <1>10, <1>15, <1>16 DEF LearnInv

(* Finding a draft expired, when none of that identifier is alive.         *)
LEMMA ExpiringKeeps ==
  ASSUME LearnInv, NEW u \in Users, NEW id, Found(u, id) = {}, DropExpired(u, id),
         UNCHANGED <<screen, built, contracts>>
  PROVE  LearnInv'
<1>1. CASE DraftOf(u, id) = {}
  <2>1. UNCHANGED <<drafts, active, owners>>
    BY <1>1 DEF DropExpired
  <2> QED
    BY <2>1, LeavingKeeps DEF LearnInv
<1>2. CASE DraftOf(u, id) # {}
  <2>1. DraftOf(u, id) \ Found(u, id) = DraftOf(u, id)
    OBVIOUS
  <2>2. {<<d.user, d.id>> : d \in DraftOf(u, id)} = {<<u, id>>}
    BY <1>2 DEF DraftOf
  <2>3. /\ drafts' = drafts \ DraftOf(u, id)
        /\ owners' = owners \ {<<u, id>>}
        /\ active' = [active EXCEPT ![u] = None]
    BY <1>2, <2>1, <2>2 DEF DropExpired
  <2> QED
    BY <1>2, <2>3, RemovingKeeps
<1> QED
  BY <1>1, <1>2

(* Deleting a draft, also one that is not there.                           *)
LEMMA DeletingKeeps ==
  ASSUME LearnInv, NEW u \in Users, NEW id, delete_draft(u, id),
         UNCHANGED <<screen, built, contracts>>
  PROVE  LearnInv'
<1>1. CASE DraftOf(u, id) = {}
  BY <1>1, LeavingKeeps DEF delete_draft, LearnInv
<1>2. CASE DraftOf(u, id) # {}
  BY <1>2, RemovingKeeps DEF delete_draft
<1> QED
  BY <1>1, <1>2
-----------------------------------------------------------------------------
(* A text, typed or forced, keeps the invariant.                         *)
LEMMA LearnKeeps ==
  ASSUME LearnInv, NEW u \in Users, NEW text \in Learnable, NEW quick \in BOOLEAN,
         Learn(u, text, quick)
  PROVE  LearnInv'
<1> DEFINE c == build(built + 1, text)
<1>1. built \in Nat /\ built' = built + 1 /\ \A p \in screen : p.user \in Users
  BY DEF LearnInv, Learn
<1>2. Contractual(c) /\ c.id = built + 1
  BY BuildingGives
<1>3. CASE UNCHANGED <<drafts, active, owners, screen, contracts>>
  BY <1>1, <1>3, LeavingKeeps
<1>4. CASE IsSafe(c) /\ create_draft(u, c) /\ UNCHANGED <<screen, contracts>>
  <2> HIDE DEF c
  <2> QED
    BY <1>1, <1>2, <1>4, CreatingKeeps
<1>5. CASE /\ IsSafe(c) /\ persist(u, Confirmed(c))
           /\ UNCHANGED <<drafts, active, owners, screen>>
  <2>1. \A r \in contracts' : r \in contracts \/ (r.contract.id = c.id /\ IsSafe(r.contract))
    BY <1>2, <1>5, PersistedIsSafe
  <2> QED
    BY <1>1, <1>2, <1>5, <2>1, LeavingKeeps
<1>6. CASE /\ IsSafe(c) /\ create_draft(u, c) /\ UNCHANGED contracts
           /\ screen' = screen \cup {Preview(u, [id |-> built + 1, edits |-> 0, contract |-> c])}
  <2>1. \A p \in screen' : p.user \in Users
    BY <1>1, <1>6 DEF Preview
  <2> HIDE DEF c
  <2> QED
    BY <1>1, <1>2, <1>6, <2>1, CreatingKeeps
<1> QED
  BY <1>3, <1>4, <1>5, <1>6 DEF Learn

(* So does pressing "Save", whatever the outcome.                        *)
LEMMA SaveKeeps ==
  ASSUME LearnInv, NEW p \in screen, SaveDraft(p)
  PROVE  LearnInv'
<1>1. p.user \in Users /\ UNCHANGED <<screen, built>>
  BY DEF LearnInv, SaveDraft
<1>2. CASE /\ Found(p.user, p.draft) = {}
           /\ DropExpired(p.user, p.draft)
           /\ UNCHANGED contracts
  BY <1>1, <1>2, ExpiringKeeps
<1>3. CASE UNCHANGED <<drafts, active, owners, contracts>>
  BY <1>1, <1>3, LeavingKeeps DEF LearnInv
<1>4. CASE \E d \in Found(p.user, p.draft) : /\ persist(p.user, Confirmed(d.contract))
                                              /\ delete_draft(p.user, p.draft)
  <2>1. PICK d \in Found(p.user, p.draft) : /\ persist(p.user, Confirmed(d.contract))
                                            /\ delete_draft(p.user, p.draft)
    BY <1>4
  <2>2. d \in drafts /\ d \in DraftOf(p.user, p.draft) /\ d.id = p.draft
    BY DEF Found, Live, DraftOf
  <2>3. Contractual(d.contract) /\ IsSafe(d.contract) /\ d.contract.id = p.draft
    BY <2>2 DEF LearnInv, SoundDraft
  <2>4. \A r \in contracts' : r \in contracts
                                \/ (r.contract.id = p.draft /\ IsSafe(r.contract))
    BY <2>1, <2>3, PersistedIsSafe
  <2>5. /\ drafts' = drafts \ DraftOf(p.user, p.draft)
        /\ owners' = owners \ {<<p.user, p.draft>>}
        /\ active' = [active EXCEPT ![p.user] = None]
        /\ DraftOf(p.user, p.draft) # {}
    BY <2>1, <2>2 DEF delete_draft
  <2> QED
    BY <1>1, <2>4, <2>5, RemovingKeeps
<1> QED
  BY <1>2, <1>3, <1>4 DEF SaveDraft

(* So does the follow-up message that carries an edit.                   *)
LEMMA FollowUpKeeps ==
  ASSUME LearnInv, NEW u \in Users, NEW text \in Replies, FollowUp(u, text)
  PROVE  LearnInv'
<1> DEFINE state == PendingNow(u)
           new(d) == [d EXCEPT !.contract = Edited(d, state.action, text), !.edits = @ + 1]
<1>1. UNCHANGED <<built, contracts>>
  BY DEF FollowUp
<1>2. CASE Found(u, state.draft) = {} /\ DropExpired(u, state.draft) /\ UNCHANGED screen
  BY <1>1, <1>2, ExpiringKeeps
<1>3. CASE UNCHANGED <<drafts, active, owners, screen>>
  BY <1>1, <1>3, LeavingKeeps DEF LearnInv
<1>4. CASE \E d \in Found(u, state.draft) :
              /\ IsSafe(new(d).contract)
              /\ drafts' = (drafts \ {d}) \cup {new(d)}
              /\ screen' = screen \cup {Preview(u, new(d))}
              /\ UNCHANGED <<active, owners>>
  <2>1. PICK d \in Found(u, state.draft) :
              /\ IsSafe(new(d).contract)
              /\ drafts' = (drafts \ {d}) \cup {new(d)}
              /\ screen' = screen \cup {Preview(u, new(d))}
              /\ UNCHANGED <<active, owners>>
    BY <1>4
  <2>2. d \in drafts /\ SoundDraft(d, built)
    BY DEF Found, Live, DraftOf, LearnInv
  <2>3. /\ DOMAIN new(d) = DOMAIN d
        /\ new(d).id = d.id /\ new(d).user = d.user
        /\ new(d).contract = Edited(d, state.action, text)
    BY <2>2 DEF SoundDraft, DraftFields
  <2>4. Contractual(new(d).contract) /\ new(d).contract.id = d.id
    BY <2>2, <2>3, EditingKeeps DEF SoundDraft
  <2>5. SoundDraft(new(d), built)
    BY <2>1, <2>2, <2>3, <2>4 DEF SoundDraft
  <2> HIDE DEF new
  <2>6. \A e \in drafts' : SoundDraft(e, built')
    BY <1>1, <2>1, <2>5 DEF LearnInv
  <2>7. \A e, f \in drafts' : e.id = f.id => e = f
    BY <2>1, <2>2, <2>3 DEF LearnInv
  <2>8. {<<e.user, e.id>> : e \in drafts'} = {<<e.user, e.id>> : e \in drafts}
    BY <2>1, <2>2, <2>3
  <2>9. \A e \in drafts' : \E f \in drafts : f.id = e.id /\ f.user = e.user
    BY <2>1, <2>2, <2>3
  <2>10. \A e \in drafts : \E f \in drafts' : f.id = e.id /\ f.user = e.user
    BY <2>1, <2>2, <2>3
  <2>11. ASSUME NEW v \in Users, active[v] # None
         PROVE  DraftOf(v, active[v])' # {}
    <3>1. PICK e \in drafts : e.user = v /\ e.id = active[v]
      BY <2>11 DEF LearnInv, DraftsConsistent, DraftOf
    <3>2. PICK f \in drafts' : f.id = e.id /\ f.user = e.user
      BY <2>10
    <3>3. f \in DraftOf(v, active[v])'
      BY <2>1, <3>1, <3>2 DEF DraftOf
    <3> QED
      BY <3>3
  <2>12. DraftsConsistent'
    BY <1>1, <2>1, <2>8, <2>9, <2>11 DEF LearnInv, DraftsConsistent
  <2>13. \A p \in screen' : p.user \in Users
    BY <2>1 DEF LearnInv, Preview
  <2> QED
    BY <1>1, <2>1, <2>6, <2>7, <2>12, <2>13 DEF LearnInv
<1> QED
  BY <1>2, <1>3, <1>4 DEF FollowUp

(* So does time: drafts and edits only get older and go.                 *)
LEMMA TickKeeps ==
  ASSUME LearnInv, Tick
  PROVE  LearnInv'
<1>1. drafts' = {Aged(d) : d \in drafts}
      /\ UNCHANGED <<built, active, owners, screen, contracts>>
  BY DEF Tick
<1>2. \A d \in drafts : SoundDraft(d, built)
  BY DEF LearnInv
<1>3. \A d \in drafts : /\ DOMAIN Aged(d) = DOMAIN d
                        /\ Aged(d).id = d.id /\ Aged(d).user = d.user
                        /\ Aged(d).contract = d.contract
  BY <1>2 DEF Aged, SoundDraft, DraftFields
<1>4. \A d \in drafts : SoundDraft(Aged(d), built)
  BY <1>2, <1>3 DEF SoundDraft
<1>5. \A d \in drafts' : SoundDraft(d, built')
  BY <1>1, <1>4
<1>6. \A d, e \in drafts' : d.id = e.id => d = e
  BY <1>1, <1>3 DEF LearnInv
<1>7. {<<d.user, d.id>> : d \in drafts'} = {<<d.user, d.id>> : d \in drafts}
  BY <1>1, <1>3
<1>8. \A d \in drafts' : \E e \in drafts : e.id = d.id /\ e.user = d.user
  BY <1>1, <1>3
<1>9. \A d \in drafts : \E e \in drafts' : e.id = d.id /\ e.user = d.user
  BY <1>1, <1>3
<1>10. ASSUME NEW v \in Users, active[v] # None
       PROVE  DraftOf(v, active[v])' # {}
  <2>1. PICK d \in drafts : d.user = v /\ d.id = active[v]
    BY <1>10 DEF LearnInv, DraftsConsistent, DraftOf
  <2>2. PICK e \in drafts' : e.id = d.id /\ e.user = d.user
    BY <1>9
  <2>3. e \in DraftOf(v, active[v])'
    BY <1>1, <2>1, <2>2 DEF DraftOf
  <2> QED
    BY <2>3
<1>11. DraftsConsistent'
  BY <1>1, <1>7, <1>8, <1>10 DEF LearnInv, DraftsConsistent
<1> QED
  BY <1>1, <1>5, <1>6, <1>11 DEF LearnInv

(* Every step of /learn keeps the invariant.                              *)
LEMMA LearnStep == LearnInv /\ [LearnNext]_learnVars => LearnInv'
<1> SUFFICES ASSUME LearnInv, [LearnNext]_learnVars
             PROVE  LearnInv'
  OBVIOUS
<1>1. ASSUME NEW u \in Users, NEW text \in Learnable, NEW quick \in BOOLEAN,
             Learn(u, text, quick)
      PROVE  LearnInv'
  BY <1>1, LearnKeeps
<1>2. ASSUME NEW p \in screen, SaveDraft(p)
      PROVE  LearnInv'
  BY <1>2, SaveKeeps
<1>3. ASSUME NEW p \in screen, NEW action \in {"trigger", "instruction"},
             ChooseEdit(p, action)
      PROVE  LearnInv'
  BY <1>3, LeavingKeeps DEF ChooseEdit, LearnInv
<1>4. ASSUME NEW p \in screen, CancelDraft(p)
      PROVE  LearnInv'
  BY <1>4, DeletingKeeps DEF CancelDraft, LearnInv
<1>5. ASSUME NEW u \in Users, NEW text \in Replies, FollowUp(u, text)
      PROVE  LearnInv'
  BY <1>5, FollowUpKeeps
<1>6. ASSUME NEW u \in Users, ToChat(u)
      PROVE  LearnInv'
  BY <1>6, LeavingKeeps DEF ToChat, LearnInv
<1>7. CASE Tick
  BY <1>7, TickKeeps
<1>8. CASE RestartLearn
  BY <1>8 DEF RestartLearn, LearnInv, DraftsConsistent
<1>9. CASE UNCHANGED learnVars
  BY <1>9, LeavingKeeps DEF learnVars, LearnInv
<1> QED
  BY <1>1, <1>2, <1>3, <1>4, <1>5, <1>6, <1>7, <1>8, <1>9 DEF LearnNext

(* The invariant holds in every state of LearnSpec.                        *)
THEOREM LearnInvariant == LearnSpec => []LearnInv
<1>1. LearnInit => LearnInv
  BY DEF LearnInit, LearnInv, DraftsConsistent
<1> QED
  BY <1>1, LearnStep, PTL DEF LearnSpec

(* The maps of the draft store stay in step (draft_store.py), and a draft  *)
(* that was saved is gone, for any number of users, drafts and edits.      *)
THEOREM DraftsStayConsistent == LearnSpec => []DraftsConsistent
<1>1. LearnInv => DraftsConsistent
  BY DEF LearnInv
<1> QED
  BY <1>1, LearnInvariant, PTL

(* Nothing the privacy pipeline rejects is drafted or stored, whichever    *)
(* way it came in.                                                         *)
THEOREM NothingUnsafeIsKept == LearnSpec => []NothingUnsafe
<1>1. LearnInv => NothingUnsafe
  BY DEF LearnInv, SoundDraft, NothingUnsafe, IsSafe, iter_user_text_fields
<1> QED
  BY <1>1, LearnInvariant, PTL
-----------------------------------------------------------------------------
(* What a preview on the screen says of a draft still in memory: it shows  *)
(* an earlier stage of it, and the present one if the etags agree.         *)
ShownInv ==
  /\ \A d \in drafts : d.edits \in Nat
  /\ \A p \in screen : p.etag \in Nat /\ p.draft \in 1 .. built
  /\ \A p \in screen, d \in drafts :
        p.user = d.user /\ p.draft = d.id =>
          p.etag <= d.edits /\ (p.etag = d.edits => p.contract = d.contract)

(* A step that shows nothing and makes or changes no draft.                *)
LEMMA ShowingNothingKeeps ==
  ASSUME LearnInv, ShownInv, drafts' \subseteq drafts, UNCHANGED <<screen, built>>
  PROVE  ShownInv'
BY DEF ShownInv

(* A new draft has an identifier no preview shows; its own preview shows   *)
(* all there is.                                                           *)
LEMMA CreatingShows ==
  ASSUME LearnInv, ShownInv, NEW u \in Users, NEW c, c.id = built + 1,
         create_draft(u, c), built' = built + 1,
         \/ UNCHANGED screen
         \/ screen' = screen \cup
               {[user |-> u, draft |-> c.id, etag |-> 0, contract |-> c]}
  PROVE  ShownInv'
<1> DEFINE new == [id |-> c.id, user |-> u, contract |-> c, edits |-> 0, left |-> DraftTTL]
           shown == [user |-> u, draft |-> c.id, etag |-> 0, contract |-> c]
<1>1. built \in Nat /\ \A d \in drafts : d.id \in 1 .. built
  BY DEF LearnInv, SoundDraft
<1>2. drafts' \subseteq drafts \cup {new}
  BY DEF create_draft, Live
<1>3. screen' \subseteq screen \cup {shown}
  OBVIOUS
<1>4. /\ new.id = c.id /\ new.user = u /\ new.edits = 0 /\ new.contract = c
      /\ shown.draft = c.id /\ shown.user = u /\ shown.etag = 0 /\ shown.contract = c
  OBVIOUS
<1> HIDE DEF new, shown
<1>5. \A d \in drafts' : d.edits \in Nat
  BY <1>2, <1>4 DEF ShownInv
<1>6. \A p \in screen' : p.etag \in Nat /\ p.draft \in 1 .. built'
  BY <1>1, <1>3, <1>4 DEF ShownInv
<1>7. ASSUME NEW p \in screen', NEW d \in drafts', p.user = d.user, p.draft = d.id
      PROVE  p.etag <= d.edits /\ (p.etag = d.edits => p.contract = d.contract)
  <2>1. CASE p \in screen /\ d \in drafts
    BY <1>7, <2>1 DEF ShownInv
  <2>2. p \in screen => p.draft # c.id
    BY <1>1 DEF ShownInv
  <2>3. d \in drafts => d.id # c.id
    BY <1>1
  <2>4. CASE p = shown /\ d = new
    BY <1>4, <2>4
  <2> QED
    BY <1>2, <1>3, <1>4, <1>7, <2>1, <2>2, <2>3, <2>4
<1> QED
  BY <1>5, <1>6, <1>7 DEF ShownInv

(* An edit moves the draft past every preview of it but its own.           *)
LEMMA EditingShows ==
  ASSUME LearnInv, ShownInv, NEW u \in Users, NEW text \in Replies, FollowUp(u, text)
  PROVE  ShownInv'
<1> DEFINE state == PendingNow(u)
           new(d) == [d EXCEPT !.contract = Edited(d, state.action, text), !.edits = @ + 1]
<1>1. CASE drafts' \subseteq drafts /\ UNCHANGED <<screen, built>>
  BY <1>1, ShowingNothingKeeps
<1>2. CASE \E d \in Found(u, state.draft) :
              /\ drafts' = (drafts \ {d}) \cup {new(d)}
              /\ screen' = screen \cup {Preview(u, new(d))}
  <2>1. PICK d \in Found(u, state.draft) :
              /\ drafts' = (drafts \ {d}) \cup {new(d)}
              /\ screen' = screen \cup {Preview(u, new(d))}
    BY <1>2
  <2>2. d \in drafts /\ SoundDraft(d, built) /\ d.user = u /\ d.edits \in Nat
    BY DEF Found, Live, DraftOf, LearnInv, ShownInv
  <2> DEFINE e == new(d)
             shown == Preview(u, e)
  <2>3. e.id = d.id /\ e.user = u /\ e.edits = d.edits + 1
    BY <2>2 DEF SoundDraft, DraftFields
  <2>4. /\ shown.user = u /\ shown.draft = e.id
        /\ shown.etag = e.edits /\ shown.contract = e.contract
    BY DEF Preview
  <2>5. drafts' = (drafts \ {d}) \cup {e} /\ screen' = screen \cup {shown}
    BY <2>1
  <2>6. built' = built
    BY DEF FollowUp
  <2> HIDE DEF e, shown, new, state
  <2>7. \A x \in drafts' : x.edits \in Nat
    BY <2>2, <2>3, <2>5 DEF ShownInv
  <2>8. \A p \in screen' : p.etag \in Nat /\ p.draft \in 1 .. built'
    BY <2>2, <2>3, <2>4, <2>5, <2>6 DEF ShownInv, SoundDraft
  <2>9. ASSUME NEW p \in screen', NEW x \in drafts', p.user = x.user, p.draft = x.id
        PROVE  p.etag <= x.edits /\ (p.etag = x.edits => p.contract = x.contract)
    <3>1. CASE p \in screen /\ x \in drafts
      BY <2>9, <3>1 DEF ShownInv
    <3>2. CASE p \in screen /\ x = e
      <4>1. p.etag \in Nat /\ p.etag <= d.edits
        BY <2>2, <2>3, <2>9, <3>2 DEF ShownInv
      <4> QED
        BY <2>2, <2>3, <3>2, <4>1
    <3>3. CASE p = shown /\ x = e
      BY <2>2, <2>3, <2>4, <3>3
    <3>4. CASE p = shown /\ x \in drafts \ {d}
      BY <2>2, <2>3, <2>4, <2>9, <3>4 DEF LearnInv
    <3> QED
      BY <2>5, <3>1, <3>2, <3>3, <3>4
  <2> QED
    BY <2>7, <2>8, <2>9 DEF ShownInv
<1> QED
  BY <1>1, <1>2 DEF FollowUp, DropExpired

(* Time changes neither what a draft holds nor how often it was edited.    *)
LEMMA TickShows ==
  ASSUME LearnInv, ShownInv, Tick
  PROVE  ShownInv'
<1>1. \A d \in drafts : /\ Aged(d).id = d.id /\ Aged(d).user = d.user
                        /\ Aged(d).edits = d.edits /\ Aged(d).contract = d.contract
  BY DEF LearnInv, SoundDraft, DraftFields, Aged
<1>2. \A e \in drafts' : \E d \in drafts : /\ e.id = d.id /\ e.user = d.user
                                           /\ e.edits = d.edits /\ e.contract = d.contract
  BY <1>1 DEF Tick
<1> QED
  BY <1>2 DEF ShownInv, Tick

(* Buttons delete drafts and change none.                                  *)
LEMMA ButtonsShow ==
  ASSUME LearnInv, ShownInv, NEW p \in screen, SaveDraft(p) \/ CancelDraft(p)
  PROVE  ShownInv'
<1>1. drafts' \subseteq drafts /\ UNCHANGED <<screen, built>>
  BY DEF SaveDraft, CancelDraft, DropExpired, delete_draft
<1> QED
  BY <1>1, ShowingNothingKeeps

(* So the previews are right in every state.                               *)
LEMMA PreviewsAreRight == LearnSpec => [](LearnInv /\ ShownInv)
<1>1. LearnInit => ShownInv
  BY DEF LearnInit, ShownInv
<1>2. LearnInv /\ ShownInv /\ [LearnNext]_learnVars => ShownInv'
  <2> SUFFICES ASSUME LearnInv, ShownInv, [LearnNext]_learnVars
               PROVE  ShownInv'
    OBVIOUS
  <2>1. ASSUME NEW u \in Users, NEW text \in Learnable, NEW quick \in BOOLEAN,
               Learn(u, text, quick)
        PROVE  ShownInv'
    <3> DEFINE c == build(built + 1, text)
    <3>1. built \in Nat /\ built' = built + 1 /\ c.id = built + 1
      BY <2>1, BuildingGives DEF LearnInv, Learn
    <3>2. CASE UNCHANGED <<drafts, screen>>
      BY <3>1, <3>2 DEF ShownInv
    <3>3. CASE /\ create_draft(u, c)
               /\ \/ UNCHANGED screen
                  \/ screen' = screen \cup
                       {Preview(u, [id |-> built + 1, edits |-> 0, contract |-> c])}
      <4>1. Preview(u, [id |-> built + 1, edits |-> 0, contract |-> c])
              = [user |-> u, draft |-> c.id, etag |-> 0, contract |-> c]
        BY <3>1 DEF Preview
      <4> HIDE DEF c
      <4> QED
        BY <3>1, <3>3, <4>1, CreatingShows
    <3> QED
      BY <2>1, <3>2, <3>3 DEF Learn
  <2>2. ASSUME NEW p \in screen, SaveDraft(p) \/ CancelDraft(p)
        PROVE  ShownInv'
    BY <2>2, ButtonsShow
  <2>3. ASSUME NEW p \in screen, NEW action \in {"trigger", "instruction"},
               ChooseEdit(p, action)
        PROVE  ShownInv'
    BY <2>3, ShowingNothingKeeps DEF ChooseEdit
  <2>4. ASSUME NEW u \in Users, NEW text \in Replies, FollowUp(u, text)
        PROVE  ShownInv'
    BY <2>4, EditingShows
  <2>5. ASSUME NEW u \in Users, ToChat(u)
        PROVE  ShownInv'
    BY <2>5, ShowingNothingKeeps DEF ToChat
  <2>6. CASE Tick
    BY <2>6, TickShows
  <2>7. CASE RestartLearn
    BY <2>7, ShowingNothingKeeps DEF RestartLearn
  <2>8. CASE UNCHANGED learnVars
    BY <2>8, ShowingNothingKeeps DEF learnVars
  <2> QED
    BY <2>1, <2>2, <2>3, <2>4, <2>5, <2>6, <2>7, <2>8 DEF LearnNext
<1> QED
  BY <1>1, <1>2, LearnInvariant, PTL DEF LearnSpec

(* Saving under a shown preview stores what it shows.                      *)
LEMMA SavingStoresTheShown ==
  ASSUME LearnInv, ShownInv, NEW p \in screen, SaveDraft(p),
         contracts' # contracts, reply'.what = "saved"
  PROVE  \E r \in contracts' \ contracts :
            /\ r.owner = reply'.preview.user
            /\ r.contract.id = reply'.preview.draft
            /\ r.contract.trigger = reply'.preview.contract.trigger
            /\ r.contract.instruction = reply'.preview.contract.instruction
<1>1. PICK d \in Found(p.user, p.draft) :
            /\ SaveOutcome(p.user, d, p.etag) = "saved"
            /\ Answer(p.user, "saved", p)
            /\ persist(p.user, Confirmed(d.contract))
  BY DEF SaveDraft
<1>2. d \in drafts /\ d.user = p.user /\ d.id = p.draft /\ d.edits = p.etag
  BY <1>1 DEF SaveOutcome, Found, Live, DraftOf
<1>3. p.contract = d.contract
  BY <1>2 DEF ShownInv
<1>4. Contractual(d.contract) /\ d.contract.id = p.draft
  BY <1>2 DEF LearnInv, SoundDraft
<1> DEFINE f == finalize_security_metadata(Confirmed(d.contract))
           r == [owner |-> p.user, contract |-> f]
<1>5. /\ f.id = p.draft
      /\ f.trigger = p.contract.trigger
      /\ f.instruction = p.contract.instruction
  BY <1>3, <1>4, ConfirmingKeeps, FinalizingKeeps
<1>6. contracts' = contracts \cup {r}
  BY <1>1 DEF persist
<1>7. r.owner = p.user /\ r.contract = f
  OBVIOUS
<1>8. reply'.preview = p
  BY <1>1 DEF Answer
<1> HIDE DEF f, r
<1>9. r \in contracts' \ contracts
  BY <1>6
<1> QED
  BY <1>5, <1>7, <1>8, <1>9

(* What "Save" stores is what the preview above the button showed, however *)
(* many drafts, edits and old buttons there are (learn_flow_service.py).   *)
THEOREM SavedAsItWasShown == LearnSpec => SavedAsShown
<1>1. LearnInv /\ ShownInv /\ [LearnNext]_learnVars =>
        [contracts' # contracts /\ reply'.what = "saved" =>
           \E r \in contracts' \ contracts :
              /\ r.owner = reply'.preview.user
              /\ r.contract.id = reply'.preview.draft
              /\ r.contract.trigger = reply'.preview.contract.trigger
              /\ r.contract.instruction = reply'.preview.contract.instruction]_learnVars
  <2> SUFFICES ASSUME LearnInv, ShownInv, LearnNext,
                      contracts' # contracts, reply'.what = "saved"
               PROVE  \E r \in contracts' \ contracts :
                        /\ r.owner = reply'.preview.user
                        /\ r.contract.id = reply'.preview.draft
                        /\ r.contract.trigger = reply'.preview.contract.trigger
                        /\ r.contract.instruction = reply'.preview.contract.instruction
    OBVIOUS
  <2>1. \A u \in Users, text \in Learnable, quick \in BOOLEAN : ~Learn(u, text, quick)
    BY DEF Learn, Answer
  <2>2. \E p \in screen : SaveDraft(p)
    BY <2>1 DEF LearnNext, ChooseEdit, CancelDraft, FollowUp, ToChat, Tick, RestartLearn
  <2> QED
    BY <2>2, SavingStoresTheShown
<1> QED
  BY <1>1, PreviewsAreRight, PTL DEF LearnSpec, SavedAsShown
-----------------------------------------------------------------------------
(* Questions and messages                                                  *)

AskFields == {"user", "key", "text", "msg", "left"}

(* The inductive invariant: a message somebody is asked about has not been *)
(* handed on, and no two questions are about one message.                  *)
AskInv ==
  /\ sent \in 0 .. MaxMessages
  /\ started \in [Messages -> Nat]
  /\ AnsweredAtMostOnce
  /\ \A m \in Messages : m > sent => started[m] = 0
  /\ \A a \in asks : /\ DOMAIN a = AskFields
                     /\ a.msg \in 1 .. sent
                     /\ started[a.msg] = 0
  /\ \A a, b \in asks : a.msg = b.msg => a = b

(* Questions that go away, and messages that stay where they are.          *)
LEMMA FewerAsks ==
  ASSUME AskInv, asks' \subseteq asks, UNCHANGED <<started, sent>>
  PROVE  AskInv'
BY DEF AskInv, AnsweredAtMostOnce

(* A new message is asked about or handed on, never both.                *)
LEMMA MessageKeepsAsks ==
  ASSUME AskInv, NEW u \in Users, NEW text \in Texts, HandleMessage(u, text)
  PROVE  AskInv'
<1>1. /\ sent' = sent + 1 /\ sent \in Nat /\ MaxMessages \in Nat
      /\ sent' \in 0 .. MaxMessages /\ sent' \in Messages
      /\ started[sent'] = 0
  BY SkillUseAssumption DEF AskInv, HandleMessage, Messages, SkillUseAssumption
<1>2. CASE asks' \subseteq asks /\ UNCHANGED started
  BY <1>1, <1>2 DEF AskInv, AnsweredAtMostOnce
<1>3. CASE asks' = asks /\ started' = [started EXCEPT ![sent'] = @ + 1]
  BY <1>1, <1>3 DEF AskInv, AnsweredAtMostOnce
<1>4. CASE UNCHANGED started /\ \E key : asks' = (asks \ AsksOf(u, key)) \cup
            {[user |-> u, key |-> key, text |-> text, msg |-> sent', left |-> ConfirmTTL]}
  <2>1. PICK key : asks' = (asks \ AsksOf(u, key)) \cup
            {[user |-> u, key |-> key, text |-> text, msg |-> sent', left |-> ConfirmTTL]}
    BY <1>4
  <2> DEFINE new == [user |-> u, key |-> key, text |-> text, msg |-> sent', left |-> ConfirmTTL]
  <2>2. DOMAIN new = AskFields /\ new.msg = sent'
    BY DEF AskFields
  <2>3. asks' \subseteq asks \cup {new}
    BY <2>1
  <2> HIDE DEF new
  <2> QED
    BY <1>1, <1>4, <2>2, <2>3 DEF AskInv, AnsweredAtMostOnce
<1>5. PICK m \in match_skills_for_prompt(u, text) :
          \/ ~MustAsk(m) /\ Start(u, sent', text, "message") /\ UNCHANGED asks
          \/ /\ MustAsk(m)
             /\ \/ asks' = (asks \ AsksOf(u, m.key)) \cup
                              {[user |-> u, key |-> m.key, text |-> text,
                                msg |-> sent', left |-> ConfirmTTL]}
                \/ asks' = asks \ AsksOf(u, m.key)
             /\ UNCHANGED started
  BY DEF HandleMessage
<1> QED
  BY <1>2, <1>3, <1>4, <1>5 DEF Start

(* A question answered with yes is settled before its message goes on.   *)
LEMMA YesKeepsAsks ==
  ASSUME AskInv, NEW u \in Users, NEW a \in asks, AnswerYes(u, a)
  PROVE  AskInv'
<1>1. CASE asks' \subseteq asks /\ UNCHANGED started
  BY <1>1, FewerAsks DEF AnswerYes
<1>2. CASE asks' = asks \ {a} /\ started' = [started EXCEPT ![a.msg] = @ + 1]
  <2>1. a.msg \in Messages /\ started[a.msg] = 0 /\ a.msg <= sent /\ UNCHANGED sent
    BY SkillUseAssumption DEF AskInv, Messages, SkillUseAssumption, AnswerYes
  <2>2. \A b \in asks' : b.msg # a.msg
    BY <1>2 DEF AskInv
  <2> QED
    BY <1>2, <2>1, <2>2 DEF AskInv, AnsweredAtMostOnce
<1> QED
  BY <1>1, <1>2 DEF AnswerYes, Start, Settled

(* Time only ages the questions, also those nobody may answer any more.    *)
LEMMA TickKeepsAsks ==
  ASSUME AskInv, ConfirmTick
  PROVE  AskInv'
<1> DEFINE aged(a) == [a EXCEPT !.left = IF @ = 0 THEN 0 ELSE @ - 1]
<1>1. asks' = {aged(a) : a \in asks} /\ UNCHANGED <<started, sent>>
  BY DEF ConfirmTick
<1>2. \A a \in asks : DOMAIN aged(a) = AskFields /\ aged(a).msg = a.msg
  BY DEF AskInv, AskFields
<1> HIDE DEF aged
<1> QED
  BY <1>1, <1>2 DEF AskInv, AnsweredAtMostOnce

(* The invariant holds in every state of SkillSpec.                        *)
THEOREM AskInvariant == SkillSpec => []AskInv
<1>1. SkillInit => AskInv
  BY SkillUseAssumption
     DEF SkillInit, UseInit, AskInv, AnsweredAtMostOnce, SkillUseAssumption, Messages
<1>2. AskInv /\ [SkillNext]_skillVars => AskInv'
  <2> SUFFICES ASSUME AskInv, [SkillNext]_skillVars
               PROVE  AskInv'
    OBVIOUS
  <2>1. CASE UNCHANGED <<asks, started, sent>>
    BY <2>1, FewerAsks
  <2>2. CASE AskNext
    <3>1. ASSUME NEW u \in Users, NEW text \in Texts, HandleMessage(u, text)
          PROVE  AskInv'
      BY <3>1, MessageKeepsAsks
    <3>2. ASSUME NEW u \in Users, NEW a \in asks,
                 AnswerExpired(u, a) \/ AnswerNo(u, a) \/ AnswerNever(u, a)
          PROVE  AskInv'
      BY <3>2, FewerAsks DEF AnswerExpired, AnswerNo, AnswerNever, Settled
    <3>3. ASSUME NEW u \in Users, NEW a \in asks, AnswerYes(u, a)
          PROVE  AskInv'
      BY <3>3, YesKeepsAsks
    <3>4. CASE ConfirmTick
      BY <3>4, TickKeepsAsks
    <3>5. ASSUME NEW u \in Users, NEW h \in hyps,
                 ShowSkill(u, h.id) \/ PauseSkill(u, h.id) \/ ResumeSkill(u, h.id)
                   \/ ForgetSkill(u, h.id)
          PROVE  AskInv'
      BY <2>1, <3>5 DEF ShowSkill, PauseSkill, ResumeSkill, ForgetSkill
    <3>6. ASSUME NEW u \in Users, BuildPrompt(u)
          PROVE  AskInv'
      BY <2>1, <3>6 DEF BuildPrompt
    <3> QED
      BY <2>2, <3>1, <3>2, <3>3, <3>4, <3>5, <3>6 DEF AskNext
  <2>3. CASE StoreNext
    BY <2>1, <2>3 DEF StoreNext, LearnSkill, InstallSkill, MigrateSkill
  <2>4. CASE RestartUse
    BY <2>4, FewerAsks DEF RestartUse
  <2>5. CASE UNCHANGED useVars
    BY <2>1, <2>5 DEF useVars
  <2>6. CASE UNCHANGED skillVars
    BY <2>1, <2>6 DEF skillVars, useVars
  <2> QED
    BY <2>2, <2>3, <2>4, <2>5, <2>6 DEF SkillNext, UseNext
<1> QED
  BY <1>1, <1>2, PTL DEF SkillSpec

(* A message is handed to the model at most once, whatever buttons are     *)
(* pressed (skill_commands.py, the answers to the question).               *)
THEOREM MessagesAreAnsweredOnce == SkillSpec => []AnsweredAtMostOnce
<1>1. AskInv => AnsweredAtMostOnce
  BY DEF AskInv
<1> QED
  BY <1>1, AskInvariant, PTL
-----------------------------------------------------------------------------
(* Hypotheses: statuses, approval, imports                                 *)

RowFields == {"id", "owner", "status", "pattern"}

(* The inductive invariant is the two properties and the shape of rows.    *)
HypInv ==
  /\ \A h \in hyps : DOMAIN h = RowFields
  /\ ActiveMeansApproved
  /\ ImportsConsistent

(* Setting a status keeps it, when the approval goes the same way and the  *)
(* status is not that of a fresh import.                                   *)
LEMMA UpdatingKeeps ==
  ASSUME HypInv, NEW key, NEW status, status # "suggested",
         update_hypothesis_status(key, status),
         \A id \in approved : id # key => id \in approved',
         status = "active" => key \in approved',
         UNCHANGED <<sources, imap>>
  PROVE  HypInv'
<1> DEFINE row(h) == IF h.id = key THEN [h EXCEPT !.status = status] ELSE h
<1>1. hyps' = {row(h) : h \in hyps}
  BY DEF update_hypothesis_status
<1>2. \A h \in hyps : /\ DOMAIN row(h) = RowFields
                      /\ row(h).id = h.id
                      /\ row(h).owner = h.owner
                      /\ row(h).pattern = h.pattern
                      /\ h.id = key => row(h).status = status
                      /\ h.id # key => row(h) = h
  BY DEF HypInv, RowFields
<1> HIDE DEF row
<1>3. \A h \in hyps' : DOMAIN h = RowFields
  BY <1>1, <1>2
<1>4. ActiveMeansApproved'
  BY <1>1, <1>2 DEF HypInv, ActiveMeansApproved
<1>5. \A g, h \in hyps' : g.owner = h.owner /\ g.pattern = h.pattern => g = h
  BY <1>1, <1>2 DEF HypInv, ImportsConsistent
<1>6. \A r \in imap' : /\ \E x \in sources' : x.id = r[1]
                       /\ \E h \in hyps' : h.id = r[2]
  BY <1>1, <1>2 DEF HypInv, ImportsConsistent
<1>7. \A h \in hyps' \ Legacy : h.status = "suggested" => \E x \in sources' : <<x.id, h.id>> \in imap'
  BY <1>1, <1>2 DEF HypInv, ImportsConsistent
<1> QED
  BY <1>3, <1>4, <1>5, <1>6, <1>7 DEF HypInv, ImportsConsistent

(* "Never" pauses whatever is in use: the matrix allows that step.         *)
LEMMA NeverKeepsRows ==
  ASSUME HypInv, NEW u \in Users, NEW a \in asks, AnswerNever(u, a),
         UNCHANGED <<sources, imap>>
  PROVE  HypInv'
<1>1. approved' = approved \ {a.key}
  BY DEF AnswerNever
<1>2. CASE TransitionAllowed(a.key, "paused")
  <2>1. update_hypothesis_status(a.key, "paused")
    BY <1>2 DEF AnswerNever, pause_after_never
  <2> QED
    BY <1>1, <2>1, UpdatingKeeps
<1>3. CASE ~TransitionAllowed(a.key, "paused")
  <2>1. UNCHANGED hyps
    BY <1>3 DEF AnswerNever, pause_after_never
  <2>2. "paused" \in ALLOWED_TRANSITIONS["active"]
    BY DEF ALLOWED_TRANSITIONS
  <2>3. \A h \in hyps : h.status = "active" => h.id # a.key
    BY <1>3, <2>2 DEF TransitionAllowed, get_hypothesis
  <2>4. ActiveMeansApproved'
    BY <1>1, <2>1, <2>3 DEF HypInv, ActiveMeansApproved
  <2> QED
    BY <2>1, <2>4 DEF HypInv, ImportsConsistent
<1> QED
  BY <1>2, <1>3

(* What an import adds for a pattern is a row of its own.                  *)
LEMMA SuggestedRow ==
  ASSUME NEW u, NEW i, NEW p
  PROVE  LET h == Suggested(u, i, p)
         IN  /\ DOMAIN h = RowFields
             /\ h.id = HypId[<<i, p>>] /\ h.owner = u
             /\ h.pattern = p /\ h.status = "suggested"
BY DEF Suggested, RowFields

(* It is new to the user.                                                  *)
LEMMA NewToUser ==
  ASSUME NEW u, NEW folder, NEW p \in NewPatterns(u, folder), NEW h \in hyps, h.owner = u
  PROVE  h.pattern # p
<1>1. h.pattern \in KnownPatterns(u)
  BY DEF KnownPatterns
<1> QED
  BY <1>1 DEF NewPatterns

(* An import adds rows to be asked about, one for each new pattern.      *)
LEMMA RunKeepsRows ==
  ASSUME HypInv, NEW u \in Users, RunImport(u), UNCHANGED approved
  PROVE  HypInv'
<1> DEFINE i == imports + 1
           found == NewPatterns(u, pendingImport[u])
<1>1. CASE UNCHANGED <<hyps, imap, sources>>
  BY <1>1 DEF HypInv, ActiveMeansApproved, ImportsConsistent
<1>2. CASE /\ hyps' = hyps \cup {Suggested(u, i, p) : p \in found}
           /\ imap' = imap \cup {<<i, HypId[<<i, p>>]>> : p \in found}
           /\ sources' = sources \cup {[id |-> i, owner |-> u, created |-> Cardinality(found)]}
  <2>1. \A p : /\ DOMAIN Suggested(u, i, p) = RowFields
               /\ Suggested(u, i, p).id = HypId[<<i, p>>]
               /\ Suggested(u, i, p).owner = u
               /\ Suggested(u, i, p).pattern = p
               /\ Suggested(u, i, p).status = "suggested"
    BY SuggestedRow
  <2>2. \A p \in found : \A h \in hyps : h.owner = u => h.pattern # p
    BY NewToUser
  <2>3. \E s \in sources' : s.id = i
    <3> DEFINE new == [id |-> i, owner |-> u, created |-> Cardinality(found)]
    <3>1. new \in sources' /\ new.id = i
      BY <1>2
    <3> HIDE DEF new
    <3> QED
      BY <3>1
  <2> HIDE DEF i, found
  <2>4. \A h \in hyps' : DOMAIN h = RowFields
    BY <1>2, <2>1 DEF HypInv
  <2>5. ActiveMeansApproved'
    BY <1>2, <2>1 DEF HypInv, ActiveMeansApproved
  <2>6. \A g, h \in hyps' : g.owner = h.owner /\ g.pattern = h.pattern => g = h
    BY <1>2, <2>1, <2>2 DEF HypInv, ImportsConsistent
  <2>7. \A r \in imap' : /\ \E s \in sources' : s.id = r[1]
                         /\ \E h \in hyps' : h.id = r[2]
    <3>1. ASSUME NEW r \in imap
          PROVE  /\ \E s \in sources' : s.id = r[1]
                 /\ \E h \in hyps' : h.id = r[2]
      BY <1>2 DEF HypInv, ImportsConsistent
    <3>2. ASSUME NEW p \in found
          PROVE  /\ \E s \in sources' : s.id = <<i, HypId[<<i, p>>]>>[1]
                 /\ \E h \in hyps' : h.id = <<i, HypId[<<i, p>>]>>[2]
      <4>1. Suggested(u, i, p) \in hyps'
        BY <1>2
      <4>2. Suggested(u, i, p).id = HypId[<<i, p>>]
        BY <2>1
      <4> QED
        BY <2>3, <4>1, <4>2
    <3> QED
      BY <1>2, <3>1, <3>2
  <2>8. \A h \in hyps' \ Legacy : h.status = "suggested" =>
            \E s \in sources' : <<s.id, h.id>> \in imap'
    <3>1. ASSUME NEW h \in hyps' \ Legacy, h.status = "suggested"
          PROVE  \E s \in sources' : <<s.id, h.id>> \in imap'
      <4>1. CASE h \in hyps
        BY <1>2, <3>1, <4>1 DEF HypInv, ImportsConsistent
      <4>2. CASE \E p \in found : h = Suggested(u, i, p)
        BY <1>2, <2>1, <2>3, <4>2
      <4> QED
        BY <1>2, <4>1, <4>2
    <3> QED
      BY <3>1
  <2> QED
    BY <2>4, <2>5, <2>6, <2>7, <2>8 DEF HypInv, ImportsConsistent
<1> QED
  BY <1>1, <1>2 DEF RunImport

(* Taking an import back removes its rows and no others.                 *)
LEMMA UndoKeepsRows ==
  ASSUME HypInv, NEW i \in undo, UndoImport(i), UNCHANGED approved
  PROVE  HypInv'
<1>1. /\ hyps' = {h \in hyps : h.id \notin ImportedBy(i)}
      /\ imap' = {r \in imap : r[1] # i /\ r[2] \notin ImportedBy(i)}
      /\ sources' = {s \in sources : s.id # i}
  BY DEF UndoImport, delete_from_source, RowsDeleted
<1>2. \A h \in hyps' \ Legacy : h.status = "suggested" =>
          \E s \in sources' : <<s.id, h.id>> \in imap'
  <2>1. ASSUME NEW h \in hyps' \ Legacy, h.status = "suggested"
        PROVE  \E s \in sources' : <<s.id, h.id>> \in imap'
    <3>1. PICK s \in sources : <<s.id, h.id>> \in imap
      BY <1>1, <2>1 DEF HypInv, ImportsConsistent
    <3>2. s.id # i
      BY <1>1, <3>1 DEF ImportedBy
    <3> QED
      BY <1>1, <3>1, <3>2
  <2> QED
    BY <2>1
<1>3. \A r \in imap' : /\ \E s \in sources' : s.id = r[1]
                       /\ \E h \in hyps' : h.id = r[2]
  BY <1>1 DEF HypInv, ImportsConsistent
<1> QED
  BY <1>1, <1>2, <1>3 DEF HypInv, ActiveMeansApproved, ImportsConsistent

(* The invariant holds in every state of SkillSpec.                        *)
THEOREM HypothesisInvariant == SkillSpec => []HypInv
<1>1. SkillInit => HypInv
  BY LegacyAssumption
     DEF SkillInit, UseInit, ImportInit, HypInv, ActiveMeansApproved, ImportsConsistent,
         RowFields, LegacyAssumption
<1>2. HypInv /\ [SkillNext]_skillVars => HypInv'
  <2> SUFFICES ASSUME HypInv, [SkillNext]_skillVars
               PROVE  HypInv'
    OBVIOUS
  <2>1. CASE UNCHANGED <<hyps, approved, sources, imap>>
    BY <2>1 DEF HypInv, ActiveMeansApproved, ImportsConsistent
  <2>2. CASE AskNext /\ UNCHANGED importVars
    <3>1. UNCHANGED <<sources, imap>>
      BY <2>2 DEF importVars
    <3>2. ASSUME NEW u \in Users, NEW text \in Texts, HandleMessage(u, text)
          PROVE  HypInv'
      BY <2>1, <3>1, <3>2 DEF HandleMessage
    <3>3. ASSUME NEW u \in Users, BuildPrompt(u)
          PROVE  HypInv'
      BY <2>1, <3>1, <3>3 DEF BuildPrompt
    <3>4. ASSUME NEW u \in Users, NEW a \in asks, AnswerExpired(u, a) \/ AnswerNo(u, a)
          PROVE  HypInv'
      BY <2>1, <3>1, <3>4 DEF AnswerExpired, AnswerNo
    <3>5. ASSUME NEW u \in Users, NEW a \in asks, AnswerYes(u, a)
          PROVE  HypInv'
      BY <3>1, <3>5, UpdatingKeeps DEF AnswerYes, promote
    <3>6. ASSUME NEW u \in Users, NEW a \in asks, AnswerNever(u, a)
          PROVE  HypInv'
      BY <3>1, <3>6, NeverKeepsRows
    <3>7. ASSUME NEW u \in Users, NEW h \in hyps, ShowSkill(u, h.id)
          PROVE  HypInv'
      BY <2>1, <3>1, <3>7 DEF ShowSkill
    <3>8. ASSUME NEW u \in Users, NEW h \in hyps,
                 PauseSkill(u, h.id) \/ ResumeSkill(u, h.id) \/ ForgetSkill(u, h.id)
          PROVE  HypInv'
      BY <3>1, <3>8, UpdatingKeeps DEF PauseSkill, ResumeSkill, ForgetSkill
    <3>9. CASE ConfirmTick
      BY <2>1, <3>1, <3>9 DEF ConfirmTick
    <3> QED
      BY <2>2, <3>2, <3>3, <3>4, <3>5, <3>6, <3>7, <3>8, <3>9 DEF AskNext
  <2>3. CASE StoreNext /\ UNCHANGED importVars
    BY <2>1, <2>3 DEF StoreNext, LearnSkill, InstallSkill, MigrateSkill, importVars
  <2>4. CASE ImportNext /\ UNCHANGED useVars
    <3>1. UNCHANGED approved
      BY <2>4 DEF useVars
    <3>2. ASSUME NEW u \in Users, NEW folder \in DOMAIN Folders, PreviewImport(u, folder)
          PROVE  HypInv'
      BY <2>1, <3>1, <3>2 DEF PreviewImport
    <3>3. ASSUME NEW u \in Users, CancelImport(u)
          PROVE  HypInv'
      BY <2>1, <3>1, <3>3 DEF CancelImport
    <3>4. ASSUME NEW u \in Users, RunImport(u)
          PROVE  HypInv'
      BY <3>1, <3>4, RunKeepsRows
    <3>5. ASSUME NEW i \in undo, UndoImport(i)
          PROVE  HypInv'
      BY <3>1, <3>5, UndoKeepsRows
    <3> QED
      BY <2>4, <3>2, <3>3, <3>4, <3>5 DEF ImportNext
  <2>5. CASE RestartUse /\ RestartImport
    BY <2>1, <2>5 DEF RestartUse, RestartImport
  <2>6. CASE UNCHANGED skillVars
    BY <2>1, <2>6 DEF skillVars, useVars, importVars
  <2> QED
    BY <2>2, <2>3, <2>4, <2>5, <2>6 DEF SkillNext, UseNext
<1> QED
  BY <1>1, <1>2, PTL DEF SkillSpec

(* Whatever buttons, imports and restarts do, a skill is used without a    *)
(* question only if its user said yes and has not taken that back.         *)
THEOREM ActiveSkillsAreApproved == SkillSpec => []ActiveMeansApproved
<1>1. HypInv => ActiveMeansApproved
  BY DEF HypInv
<1> QED
  BY <1>1, HypothesisInvariant, PTL

(* Imports and their undo keep one hypothesis per pattern, and what an     *)
(* import brought can be undone with it (conversation_import/orchestrator.py). *)
THEOREM ImportsStayConsistent == SkillSpec => []ImportsConsistent
<1>1. HypInv => ImportsConsistent
  BY DEF HypInv
<1> QED
  BY <1>1, HypothesisInvariant, PTL
-----------------------------------------------------------------------------
(* Editors of one contract                                                 *)

Versioned(c, n) ==
  /\ Contractual(c) /\ {"version", "allowTools"} \subseteq DOMAIN c
  /\ c.id \in 1 .. n
  /\ c.version \in Nat

(* What an editor holds is no newer than the stored row of its identifier, *)
(* and is that very row if it is as new.                                   *)
NotAhead(h, s) ==
  s.contract.id = h.contract.id =>
    /\ h.contract.version <= s.contract.version
    /\ h.contract.version = s.contract.version => h = s

(* The inductive invariant: the version stands for the content.            *)
EditInv ==
  /\ rows \in Nat
  /\ \A r \in contracts : Versioned(r.contract, rows)
  /\ \A r, s \in contracts : r.contract.id = s.contract.id => r = s
  /\ DOMAIN held = Editors
  /\ \A e \in Editors : held[e] # None =>
       /\ Versioned(held[e].contract, rows)
       /\ \A s \in contracts : NotAhead(held[e], s)

(* Deriving the metadata leaves the version alone.                       *)
LEMMA FinalizingKeepsVersion ==
  ASSUME NEW c, NEW n, Versioned(c, n)
  PROVE  LET f == finalize_security_metadata(c)
         IN  /\ Versioned(f, n) /\ f.id = c.id /\ f.version = c.version
BY DEF finalize_security_metadata, Versioned, Contractual, Fields

(* A contract created under a free identifier starts its own versions.   *)
LEMMA CreateKeepsVersions ==
  ASSUME EditInv, NEW u \in Users, NEW text \in Learnable, CreateContract(u, text)
  PROVE  EditInv'
<1> DEFINE c == Confirmed(build(rows', text))
           new == [owner |-> u, contract |-> finalize_security_metadata(c)]
<1>1. rows \in Nat /\ rows' = rows + 1 /\ UNCHANGED held
  BY DEF EditInv, CreateContract
<1>2. Versioned(build(rows', text), rows') /\ build(rows', text).id = rows'
  BY <1>1 DEF build, NewContract, Versioned, Contractual, Fields
<1>3. Versioned(c, rows') /\ c.id = rows'
  BY <1>2 DEF Confirmed, Versioned, Contractual, Fields
<1>4. Versioned(new.contract, rows') /\ new.contract.id = rows'
  BY <1>3, FinalizingKeepsVersion
<1>5. contracts' = contracts \/ contracts' = contracts \cup {new}
  BY DEF CreateContract, persist
<1> HIDE DEF new
<1>6. \A k, n \in Nat : k \in 1 .. rows => k \in 1 .. rows' /\ k # rows'
  BY <1>1
<1>7. \A d : Versioned(d, rows) => Versioned(d, rows') /\ d.id # rows'
  BY <1>1 DEF Versioned
<1>8. \A r \in contracts : Versioned(r.contract, rows') /\ r.contract.id # rows'
  BY <1>7 DEF EditInv
<1>9. \A e \in Editors : held[e] # None =>
        Versioned(held[e].contract, rows') /\ held[e].contract.id # rows'
  BY <1>7 DEF EditInv
<1>10. \A e \in Editors : held[e] # None => \A s \in contracts' : NotAhead(held[e], s)
  BY <1>4, <1>5, <1>9 DEF EditInv, NotAhead
<1> QED
  BY <1>1, <1>4, <1>5, <1>8, <1>9, <1>10 DEF EditInv

(* An editor that loads holds exactly what is stored.                    *)
LEMMA LoadKeepsVersions ==
  ASSUME EditInv, NEW e \in Editors, NEW r \in contracts, LoadContract(e, r)
  PROVE  EditInv'
<1>1. held' = [held EXCEPT ![e] = r] /\ UNCHANGED <<rows, contracts>>
  BY DEF LoadContract
<1>2. Versioned(r.contract, rows) /\ \A s \in contracts : NotAhead(r, s)
  BY DEF EditInv, NotAhead, Versioned
<1>3. \A f \in Editors : held'[f] = IF f = e THEN r ELSE held[f]
  BY <1>1 DEF EditInv
<1> QED
  BY <1>1, <1>2, <1>3 DEF EditInv

(* What update() does when it raises no error.                             *)
LEMMA UpdateReplaces ==
  ASSUME EditInv, NEW u, NEW c, Contractual(c), NEW expected,
         update(u, c, expected), update_error(u, c, expected) = "none"
  PROVE  \E old \in contracts :
           /\ old.contract.id = c.id
           /\ ~Stale(old, expected)
           /\ contracts' = (contracts \ {old}) \cup
                             {[owner |-> u, contract |-> NextVersion(old, c)]}
<1> DEFINE known == {r \in RowsOf(u) : r.contract.id = c.id}
           old == CHOOSE r \in known : TRUE
           old2 == CHOOSE r \in RowsOf(u) : r.contract.id = c.id
<1>1. known # {}
  BY DEF update_error
<1>2. old \in known
  BY <1>1
<1>3. old2 \in known
  BY <1>1
<1>4. known \subseteq contracts /\ \A r \in known : r.contract.id = c.id
  BY DEF RowsOf
<1>5. old2 = old
  BY <1>2, <1>3, <1>4 DEF EditInv
<1>6. ~Stale(old, expected)
  BY <1>1 DEF update_error
<1>7. contracts' = (contracts \ {old2}) \cup {[owner |-> u, contract |-> NextVersion(old2, c)]}
  BY DEF update
<1> QED
  BY <1>2, <1>4, <1>5, <1>6, <1>7

(* A save either changes no contract, or replaces the one row of its       *)
(* identifier by a newer version.                                          *)
LEMMA SaveReplaces ==
  ASSUME EditInv, NEW e \in Editors, NEW tools, NEW i, NEW allow, NEW checked \in BOOLEAN,
         SaveContract(e, tools, i, allow, checked)
  PROVE  \/ UNCHANGED contracts
         \/ \E old \in contracts, new \in contracts' :
              /\ contracts' = (contracts \ {old}) \cup {new}
              /\ old.contract.id = held[e].contract.id
              /\ new.contract.id = old.contract.id
              /\ new.contract.version = old.contract.version + 1
              /\ Versioned(new.contract, rows)
              /\ checked => held[e].contract.version = old.contract.version
<1> DEFINE r == held[e]
           c == [Changed(r.contract, tools, i) EXCEPT !.allowTools = allow]
           expected == IF checked THEN r.contract.version ELSE None
<1>1. r # None /\ update(r.owner, c, expected)
  BY DEF SaveContract
<1>2. Versioned(r.contract, rows)
  BY <1>1 DEF EditInv
<1>3. Versioned(Changed(r.contract, tools, i), rows)
      /\ Changed(r.contract, tools, i).id = r.contract.id
  BY <1>2 DEF Changed, Versioned, Contractual, Fields
<1>4. Versioned(c, rows) /\ c.id = r.contract.id
  BY <1>3 DEF Versioned, Contractual, Fields
<1>5. CASE update_error(r.owner, c, expected) # "none"
  BY <1>1, <1>5 DEF update
<1>6. CASE update_error(r.owner, c, expected) = "none"
  <2>1. PICK old \in contracts :
           /\ old.contract.id = c.id
           /\ ~Stale(old, expected)
           /\ contracts' = (contracts \ {old}) \cup
                             {[owner |-> r.owner, contract |-> NextVersion(old, c)]}
    <3>1. Contractual(c)
      BY <1>4 DEF Versioned
    <3> HIDE DEF c, expected, r
    <3> QED
      BY <1>1, <1>6, <3>1, UpdateReplaces
  <2> DEFINE new == [owner |-> r.owner, contract |-> NextVersion(old, c)]
             raised == [c EXCEPT !.version = old.contract.version + 1]
  <2>2. Versioned(old.contract, rows)
    BY DEF EditInv
  <2>3. Versioned(raised, rows) /\ raised.id = c.id /\ raised.version = old.contract.version + 1
    <3> HIDE DEF c
    <3> QED
      BY <1>4, <2>2 DEF Versioned, Contractual, Fields
  <2>4. /\ Versioned(new.contract, rows)
        /\ new.contract.id = c.id
        /\ new.contract.version = old.contract.version + 1
    <3>1. new.contract = finalize_security_metadata(raised)
      BY DEF NextVersion
    <3> HIDE DEF new, raised, c
    <3> QED
      BY <2>3, <3>1, FinalizingKeepsVersion
  <2>5. checked => r.contract.version = old.contract.version
    <3>1. r.contract.version # None
      BY <1>2, NoneAssumption DEF Versioned
    <3> QED
      BY <2>1, <3>1 DEF Stale
  <2> HIDE DEF c, expected
  <2> QED
    BY <1>4, <2>1, <2>4, <2>5
<1> QED
  BY <1>5, <1>6

(* A save that goes through makes the version of its content the newest. *)
LEMMA SaveKeepsVersions ==
  ASSUME EditInv, NEW e \in Editors, NEW tools, NEW i, NEW allow, NEW checked \in BOOLEAN,
         SaveContract(e, tools, i, allow, checked)
  PROVE  EditInv'
<1>1. rows' = rows /\ held' \in {held, [held EXCEPT ![e] = None]}
  BY DEF SaveContract
<1>2. \A f \in Editors : held'[f] # None => held'[f] = held[f]
  BY <1>1 DEF EditInv
<1>3. CASE UNCHANGED contracts
  BY <1>1, <1>2, <1>3 DEF EditInv
<1>4. CASE \E old \in contracts, new \in contracts' :
              /\ contracts' = (contracts \ {old}) \cup {new}
              /\ new.contract.id = old.contract.id
              /\ new.contract.version = old.contract.version + 1
              /\ Versioned(new.contract, rows)
  <2>1. PICK old \in contracts, new \in contracts' :
              /\ contracts' = (contracts \ {old}) \cup {new}
              /\ new.contract.id = old.contract.id
              /\ new.contract.version = old.contract.version + 1
              /\ Versioned(new.contract, rows)
    BY <1>4
  <2>2. \A r \in contracts' : Versioned(r.contract, rows)
    BY <2>1 DEF EditInv
  <2>3. \A r, s \in contracts' : r.contract.id = s.contract.id => r = s
    BY <2>1 DEF EditInv
  <2>4. old.contract.version \in Nat
    BY DEF EditInv, Versioned
  <2>5. \A f \in Editors : held[f] # None => NotAhead(held[f], new)
    <3>1. ASSUME NEW f \in Editors, held[f] # None, held[f].contract.id = new.contract.id
          PROVE  held[f].contract.version < new.contract.version
      <4>1. held[f].contract.version \in Nat
        BY <3>1 DEF EditInv, Versioned
      <4>2. held[f].contract.version <= old.contract.version
        BY <2>1, <3>1 DEF EditInv, NotAhead
      <4> QED
        BY <2>1, <2>4, <4>1, <4>2
    <3>2. \A f \in Editors : held[f] # None => held[f].contract.version \in Nat
      BY DEF EditInv, Versioned
    <3> QED
      BY <2>1, <2>4, <3>1, <3>2 DEF NotAhead
  <2>6. \A f \in Editors : held[f] # None => \A s \in contracts' : NotAhead(held[f], s)
    BY <2>1, <2>5 DEF EditInv
  <2> QED
    BY <1>1, <1>2, <2>2, <2>3, <2>6 DEF EditInv
<1> QED
  BY <1>3, <1>4, SaveReplaces

(* Fewer contracts keep the invariant.                                   *)
LEMMA DeleteKeepsVersions ==
  ASSUME EditInv, NEW r \in contracts, DeleteContract(r)
  PROVE  EditInv'
<1>1. contracts' \subseteq contracts /\ UNCHANGED <<held, rows>>
  BY DEF DeleteContract, delete
<1> QED
  BY <1>1 DEF EditInv

(* Every step of the editors keeps the invariant.                          *)
LEMMA EditStep == EditInv /\ [EditNext]_<<contracts, editVars>> => EditInv'
<1> SUFFICES ASSUME EditInv, [EditNext]_<<contracts, editVars>>
             PROVE  EditInv'
  OBVIOUS
<1>1. ASSUME NEW u \in Users, NEW text \in Learnable, CreateContract(u, text)
      PROVE  EditInv'
  BY <1>1, CreateKeepsVersions
<1>2. ASSUME NEW e \in Editors, NEW r \in contracts, LoadContract(e, r)
      PROVE  EditInv'
  BY <1>2, LoadKeepsVersions
<1>3. ASSUME NEW e \in Editors, NEW tools \in Grants, NEW text \in Learnable,
             NEW allow \in BOOLEAN, NEW checked \in BOOLEAN,
             SaveContract(e, tools, text.instruction, allow, checked)
      PROVE  EditInv'
  BY <1>3, SaveKeepsVersions
<1>4. ASSUME NEW r \in contracts, DeleteContract(r)
      PROVE  EditInv'
  BY <1>4, DeleteKeepsVersions
<1>5. CASE UNCHANGED <<contracts, editVars>>
  BY <1>5 DEF editVars, EditInv
<1> QED
  BY <1>1, <1>2, <1>3, <1>4, <1>5 DEF EditNext

(* The invariant holds in every state of EditSpec.                         *)
THEOREM EditInvariant == EditSpec => []EditInv
<1>1. contracts = {} /\ EditInit => EditInv
  BY DEF EditInit, EditInv
<1> QED
  BY <1>1, EditStep, PTL DEF EditSpec

(* A write that names the version it read replaces the contract it read,   *)
(* for any number of editors (contract_store.py, update).                  *)
THEOREM NothingIsOverwrittenUnseen == EditSpec => NothingOverwrittenUnseen
<1>1. EditInv /\ [EditNext]_<<contracts, editVars>> =>
        [lastSave' # lastSave /\ lastSave'.checked /\ contracts' # contracts =>
           lastSave'.basis \in contracts \ contracts']_<<contracts, editVars>>
  <2> SUFFICES ASSUME EditInv, EditNext, lastSave' # lastSave, lastSave'.checked,
                      contracts' # contracts
               PROVE  lastSave'.basis \in contracts \ contracts'
    OBVIOUS
  <2>1. PICK e \in Editors, tools \in Grants, text \in Learnable,
             allow \in BOOLEAN, checked \in BOOLEAN :
               SaveContract(e, tools, text.instruction, allow, checked)
    BY DEF EditNext, CreateContract, LoadContract, DeleteContract
  <2>2. lastSave'.basis = held[e] /\ lastSave'.checked = checked /\ held[e] # None
    BY <2>1 DEF SaveContract
  <2>3. PICK old \in contracts, new \in contracts' :
              /\ contracts' = (contracts \ {old}) \cup {new}
              /\ old.contract.id = held[e].contract.id
              /\ new.contract.version = old.contract.version + 1
              /\ held[e].contract.version = old.contract.version
    BY <2>1, <2>2, SaveReplaces
  <2>4. held[e] = old
    BY <2>2, <2>3 DEF EditInv, NotAhead
  <2>5. old.contract.version \in Nat
    BY DEF EditInv, Versioned
  <2>6. new # old
    BY <2>3, <2>5
  <2> QED
    BY <2>2, <2>3, <2>4, <2>6
<1> QED
  BY <1>1, EditInvariant, PTL DEF EditSpec, NothingOverwrittenUnseen

-----------------------------------------------------------------------------
(* The table of contracts, whoever writes it, and the types               *)

(* A contract that persist adds passed its checks.                         *)
LEMMA PersistKeepsStore ==
  ASSUME StoreConsistent, NEW u, NEW c, persist(u, c)
  PROVE  StoreConsistent'
<1> DEFINE final == finalize_security_metadata(c)
           new == [owner |-> u, contract |-> final]
<1>1. CASE persist_error(u, c) # "none"
  BY <1>1 DEF persist, StoreConsistent, Intact
<1>2. CASE persist_error(u, c) = "none"
  <2>1. /\ ~exists_by_name(u, final.name)
        /\ validate(final, None)
        /\ ~HasHypothesis(contracts, final.hypothesis)
        /\ \A r \in contracts : r.contract.id # final.id
    BY <1>2 DEF persist_error
  <2>2. contracts' = contracts \cup {new}
    BY <1>2 DEF persist
  <2>3. new.owner = u /\ new.contract = final
    OBVIOUS
  <2>4. ASSUME NEW r \in contracts
        PROVE  /\ r.contract.id # final.id
               /\ ~(r.owner = u /\ r.contract.name = final.name)
               /\ final.hypothesis = None \/ r.contract.hypothesis # final.hypothesis
    BY <2>1 DEF exists_by_name, HasHypothesis, RowsOf
  <2> HIDE DEF final, new
  <2> QED
    BY <2>1, <2>2, <2>3, <2>4 DEF StoreConsistent, Intact
<1> QED
  BY <1>1, <1>2

(* So did one that update puts in another's place.                         *)
LEMMA UpdateKeepsStore ==
  ASSUME StoreConsistent, NEW u, NEW c, Contractual(c), "version" \in DOMAIN c,
         NEW expected, update(u, c, expected)
  PROVE  StoreConsistent'
<1> DEFINE known == {r \in RowsOf(u) : r.contract.id = c.id}
           old == CHOOSE r \in known : TRUE
           old2 == CHOOSE r \in RowsOf(u) : r.contract.id = c.id
           final == NextVersion(old, c)
           new == [owner |-> u, contract |-> final]
<1>1. CASE update_error(u, c, expected) # "none"
  BY <1>1 DEF update, StoreConsistent, Intact
<1>2. CASE update_error(u, c, expected) = "none"
  <2>1. known # {}
    BY <1>2 DEF update_error
  <2>2. old \in known /\ old2 \in known
    BY <2>1
  <2>3. known \subseteq contracts /\ \A r \in known : r.contract.id = c.id
    BY DEF RowsOf
  <2>4. old2 = old
    BY <2>2, <2>3 DEF StoreConsistent
  <2>5. /\ ~ \E r \in contracts \ {old} : r.owner = u /\ r.contract.name = final.name
        /\ validate(final, old.contract.version)
        /\ ~HasHypothesis(contracts \ {old}, final.hypothesis)
    BY <1>2, <2>1 DEF update_error
  <2>6. contracts' = (contracts \ {old}) \cup {new}
    BY <1>2, <2>4 DEF update
  <2>7. new.owner = u /\ new.contract = final
    OBVIOUS
  <2>8. final.id = c.id
    <3> DEFINE raised == [c EXCEPT !.version = old.contract.version + 1]
    <3>1. Contractual(raised) /\ raised.id = c.id
      BY DEF Contractual, Fields
    <3> HIDE DEF raised
    <3>2. finalize_security_metadata(raised).id = raised.id
      BY <3>1, FinalizingKeeps
    <3> USE DEF raised
    <3> QED
      BY <3>1, <3>2 DEF NextVersion
  <2>9. validate(final, None)
    BY <2>5 DEF validate, V3
  <2>10. \A r \in contracts \ {old} : r.contract.id # final.id
    BY <2>2, <2>3, <2>8 DEF StoreConsistent
  <2>11. ASSUME NEW r \in contracts \ {old}
         PROVE  final.hypothesis = None \/ r.contract.hypothesis # final.hypothesis
    BY <2>5 DEF HasHypothesis
  <2> HIDE DEF final, new, old
  <2> QED
    BY <2>5, <2>6, <2>7, <2>9, <2>10, <2>11 DEF StoreConsistent, Intact
<1> QED
  BY <1>1, <1>2

(* What is left of a table after a deletion is consistent.                 *)
LEMMA FewerKeepStore ==
  ASSUME StoreConsistent, contracts' \subseteq contracts
  PROVE  StoreConsistent'
BY DEF StoreConsistent, Intact

-----------------------------------------------------------------------------
(* A draft has the fields the store gives it, and their types.             *)
TypedDraft(d) ==
  /\ d.id \in DraftIds
  /\ d.user \in Users
  /\ d.edits \in Edits
  /\ d.left \in 0 .. DraftTTL
  /\ d.contract.id = d.id
  /\ d.contract.status \in Unfinished

(* A text becomes an unfinished contract.                                  *)
LEMMA BuiltIsUnfinished ==
  ASSUME NEW id, NEW text
  PROVE  build(id, text).status \in Unfinished
BY DEF build, NewContract, Unfinished

(* An edit finishes none.                                                  *)
LEMMA EditingIsUnfinished ==
  ASSUME NEW d, Contractual(d.contract), NEW action, NEW text
  PROVE  Edited(d, action, text).status = d.contract.status
BY DEF Edited, apply_trigger_edit, apply_instruction_edit, Contractual, Fields

(* Which edits are pending is typed, whatever is set or cleared.           *)
PendingTyped ==
  pending \in [Users -> {None} \cup [draft : DraftIds, etag : Edits,
                                     action : {"trigger", "instruction"},
                                     left : 0 .. PendingTTL]]

LEMMA SettingPending ==
  ASSUME PendingTyped, NEW u \in Users, NEW id \in DraftIds, NEW etag \in Edits,
         NEW action \in {"trigger", "instruction"}, set_pending(u, id, etag, action)
  PROVE  PendingTyped'
BY LearnAssumption DEF PendingTyped, set_pending, PendingNow, LearnAssumption

LEMMA ClearingPending ==
  ASSUME PendingTyped, NEW u \in Users, clear_pending(u)
  PROVE  PendingTyped'
BY DEF PendingTyped, clear_pending

(* Removing drafts, by whatever way, leaves what is left typed.            *)
LEMMA RemovingTypes ==
  ASSUME LearnTypeOK, NEW u \in Users, NEW id,
         delete_draft(u, id) \/ DropExpired(u, id)
         \/ UNCHANGED <<drafts, active, owners>>
  PROVE  /\ \A d \in drafts' : TypedDraft(d)
         /\ active' \in [Users -> DraftIds \cup {None}]
         /\ owners' \subseteq Users \X DraftIds
<1>1. drafts' \subseteq drafts /\ owners' \subseteq owners
  BY DEF delete_draft, DropExpired
<1>2. active' \in {active, [active EXCEPT ![u] = None]}
  BY DEF delete_draft, DropExpired
<1> QED
  BY <1>1, <1>2 DEF LearnTypeOK, TypedDraft

(* A new draft is typed, and so is what it leaves of the others.           *)
LEMMA CreatingTypes ==
  ASSUME LearnTypeOK, NEW u \in Users, NEW c, c.id \in DraftIds, c.status \in Unfinished,
         create_draft(u, c)
  PROVE  /\ \A d \in drafts' : TypedDraft(d)
         /\ active' \in [Users -> DraftIds \cup {None}]
         /\ owners' \subseteq Users \X DraftIds
<1> DEFINE new == [id |-> c.id, user |-> u, contract |-> c, edits |-> 0, left |-> DraftTTL]
           kept == {d \in Live(drafts) : ~(d.user = u /\ d.id = active[u])}
<1>1. kept \subseteq drafts /\ drafts' = kept \cup {new}
  BY DEF create_draft, Live
<1>2. TypedDraft(new)
  BY LearnAssumption DEF TypedDraft, LearnAssumption, Edits
<1> HIDE DEF new, kept
<1>3. \A d \in drafts' : TypedDraft(d)
  BY <1>1, <1>2 DEF LearnTypeOK, TypedDraft
<1>4. active' \in [Users -> DraftIds \cup {None}]
  BY DEF create_draft, LearnTypeOK
<1>5. owners' = {<<d.user, d.id>> : d \in drafts'}
  BY DEF create_draft
<1>6. owners' \subseteq Users \X DraftIds
  BY <1>3, <1>5 DEF TypedDraft
<1> QED
  BY <1>3, <1>4, <1>6

(* Every step of /learn keeps the types.                                   *)
LEMMA LearnTypes ==
  ASSUME LearnInv, LearnTypeOK, [LearnNext]_learnVars
  PROVE  LearnTypeOK'
<1>1. /\ \A d \in drafts : TypedDraft(d) /\ DOMAIN d = DraftFields /\ Contractual(d.contract)
      /\ PendingTyped
      /\ active \in [Users -> DraftIds \cup {None}]
      /\ owners \subseteq Users \X DraftIds
      /\ \A p \in screen : p.user \in Users /\ p.draft \in DraftIds /\ p.etag \in Edits
      /\ built \in 0 .. MaxDrafts
  BY DEF LearnInv, LearnTypeOK, TypedDraft, PendingTyped, SoundDraft
<1> DEFINE Kept == /\ \A d \in drafts' : TypedDraft(d)
                   /\ active' \in [Users -> DraftIds \cup {None}]
                   /\ owners' \subseteq Users \X DraftIds
           Shown == \A p \in screen' : p.user \in Users /\ p.draft \in DraftIds /\ p.etag \in Edits
<1>2. SUFFICES Kept /\ Shown /\ PendingTyped' /\ built' \in 0 .. MaxDrafts
  BY DEF LearnTypeOK, TypedDraft, PendingTyped
<1>3. UNCHANGED <<drafts, active, owners>> => Kept
  BY <1>1
<1>4. UNCHANGED screen => Shown
  BY <1>1
<1>5. UNCHANGED pending => PendingTyped'
  BY <1>1 DEF PendingTyped
<1>6. UNCHANGED built => built' \in 0 .. MaxDrafts
  BY <1>1
<1>7. ASSUME NEW u \in Users, NEW text \in Learnable, NEW quick \in BOOLEAN,
             Learn(u, text, quick)
      PROVE  Kept /\ Shown /\ PendingTyped' /\ built' \in 0 .. MaxDrafts
  <2> DEFINE c == build(built + 1, text)
  <2>1. /\ built' = built + 1 /\ built' \in 0 .. MaxDrafts
        /\ built + 1 \in DraftIds /\ 0 \in Edits
    BY <1>1, <1>7, LearnAssumption DEF Learn, DraftIds, LearnAssumption, Edits
  <2>2. c.id = built + 1 /\ c.status \in Unfinished
    BY BuildingGives, BuiltIsUnfinished
  <2>3. create_draft(u, c) => Kept
    <3> HIDE DEF c
    <3> QED
      BY <2>1, <2>2, CreatingTypes
  <2>4. set_pending(u, built + 1, 0, "trigger") => PendingTyped'
    BY <1>1, <2>1, SettingPending
  <2>5. screen' = screen \cup {Preview(u, [id |-> built + 1, edits |-> 0, contract |-> c])} => Shown
    BY <1>1, <2>1 DEF Preview
  <2>6. \/ UNCHANGED <<drafts, active, owners, pending, screen>>
        \/ create_draft(u, c) /\ set_pending(u, built + 1, 0, "trigger") /\ UNCHANGED screen
        \/ /\ create_draft(u, c) /\ UNCHANGED pending
           /\ screen' = screen \cup {Preview(u, [id |-> built + 1, edits |-> 0, contract |-> c])}
    BY <1>7 DEF Learn
  <2> HIDE DEF c, Kept, Shown
  <2> QED
    BY <1>3, <1>4, <1>5, <2>1, <2>3, <2>4, <2>5, <2>6
<1>8. ASSUME NEW p \in screen, SaveDraft(p)
      PROVE  Kept /\ Shown /\ PendingTyped' /\ built' \in 0 .. MaxDrafts
  <2>1. p.user \in Users /\ UNCHANGED <<screen, built>>
    BY <1>1, <1>8 DEF SaveDraft
  <2>2. \/ DropExpired(p.user, p.draft) /\ UNCHANGED pending
        \/ delete_draft(p.user, p.draft) /\ clear_pending(p.user)
        \/ UNCHANGED <<drafts, active, owners, pending>>
    BY <1>8 DEF SaveDraft
  <2>3. Kept
    BY <2>1, <2>2, RemovingTypes
  <2>4. PendingTyped'
    BY <1>1, <1>5, <2>1, <2>2, ClearingPending
  <2> HIDE DEF Kept, Shown
  <2> QED
    BY <1>4, <1>6, <2>1, <2>3, <2>4
<1>9. ASSUME NEW p \in screen, NEW action \in {"trigger", "instruction"}, ChooseEdit(p, action)
      PROVE  Kept /\ Shown /\ PendingTyped' /\ built' \in 0 .. MaxDrafts
  <2>1. PendingTyped'
    BY <1>1, <1>9, SettingPending DEF ChooseEdit
  <2> HIDE DEF Kept, Shown
  <2> QED
    BY <1>3, <1>4, <1>6, <1>9, <2>1 DEF ChooseEdit
<1>10. ASSUME NEW p \in screen, CancelDraft(p)
       PROVE  Kept /\ Shown /\ PendingTyped' /\ built' \in 0 .. MaxDrafts
  <2>1. p.user \in Users
    BY <1>1
  <2>2. Kept
    BY <1>10, <2>1, RemovingTypes DEF CancelDraft
  <2>3. PendingTyped'
    BY <1>1, <1>10, <2>1, ClearingPending DEF CancelDraft
  <2> HIDE DEF Kept, Shown
  <2> QED
    BY <1>4, <1>6, <1>10, <2>2, <2>3 DEF CancelDraft
<1>11. ASSUME NEW u \in Users, NEW text \in Replies, FollowUp(u, text)
       PROVE  Kept /\ Shown /\ PendingTyped' /\ built' \in 0 .. MaxDrafts
  <2> DEFINE state == PendingNow(u)
             new(d) == [d EXCEPT !.contract = Edited(d, state.action, text), !.edits = @ + 1]
  <2>1. UNCHANGED built
    BY <1>11 DEF FollowUp
  <2>2. CASE DropExpired(u, state.draft) /\ clear_pending(u) /\ UNCHANGED screen
    <3>1. Kept
      BY <2>2, RemovingTypes
    <3>2. PendingTyped'
      BY <1>1, <2>2, ClearingPending
    <3> HIDE DEF Kept, Shown
    <3> QED
      BY <1>4, <1>6, <2>1, <2>2, <3>1, <3>2
  <2>3. CASE UNCHANGED <<drafts, active, owners, pending, screen>>
    <3> HIDE DEF Kept, Shown
    <3> QED
      BY <1>3, <1>4, <1>5, <1>6, <2>1, <2>3
  <2>4. CASE \E d \in Found(u, state.draft) :
               /\ d.edits < MaxEdits
               /\ drafts' = (drafts \ {d}) \cup {new(d)}
               /\ clear_pending(u)
               /\ screen' = screen \cup {Preview(u, new(d))}
               /\ UNCHANGED <<active, owners>>
    <3>1. PICK d \in Found(u, state.draft) :
               /\ d.edits < MaxEdits
               /\ drafts' = (drafts \ {d}) \cup {new(d)}
               /\ clear_pending(u)
               /\ screen' = screen \cup {Preview(u, new(d))}
               /\ UNCHANGED <<active, owners>>
      BY <2>4
    <3>2. d \in drafts
      BY DEF Found, Live, DraftOf
    <3>3. TypedDraft(d) /\ DOMAIN d = DraftFields /\ Contractual(d.contract)
      BY <1>1, <3>2
    <3>4. /\ new(d).id = d.id /\ new(d).user = d.user /\ new(d).left = d.left
          /\ new(d).edits = d.edits + 1
          /\ new(d).contract = Edited(d, state.action, text)
      BY <3>3 DEF DraftFields
    <3>5. TypedDraft(new(d))
      <4>1. d.edits + 1 \in Edits
        BY <3>1, <3>3, LearnAssumption DEF TypedDraft, Edits, LearnAssumption
      <4>2. /\ Edited(d, state.action, text).id = d.id
            /\ Edited(d, state.action, text).status \in Unfinished
        BY <3>3, EditingKeeps, EditingIsUnfinished DEF TypedDraft
      <4> HIDE DEF new, state
      <4> QED
        BY <3>3, <3>4, <4>1, <4>2 DEF TypedDraft
    <3> HIDE DEF new, state
    <3>6. Kept
      BY <1>1, <3>1, <3>5
    <3>7. Shown
      BY <1>1, <3>1, <3>4, <3>5 DEF TypedDraft, Preview
    <3>8. PendingTyped'
      BY <1>1, <3>1, ClearingPending
    <3> HIDE DEF Kept, Shown
    <3> QED
      BY <1>6, <2>1, <3>6, <3>7, <3>8
  <2> QED
    BY <1>11, <2>2, <2>3, <2>4 DEF FollowUp
<1>12. ASSUME NEW u \in Users, ToChat(u)
       PROVE  Kept /\ Shown /\ PendingTyped' /\ built' \in 0 .. MaxDrafts
  <2>1. PendingTyped'
    BY <1>1, <1>12, ClearingPending DEF ToChat
  <2> HIDE DEF Kept, Shown
  <2> QED
    BY <1>3, <1>4, <1>6, <1>12, <2>1 DEF ToChat
<1>13. CASE Tick
  <2>1. \A n \in Nat : \A x \in 0 .. n : (IF x = 0 THEN 0 ELSE x - 1) \in 0 .. n
    OBVIOUS
  <2>2. \A d \in drafts : TypedDraft(Aged(d))
    <3> SUFFICES ASSUME NEW d \in drafts PROVE TypedDraft(Aged(d))
      OBVIOUS
    <3>1. /\ Aged(d).id = d.id /\ Aged(d).user = d.user /\ Aged(d).edits = d.edits
          /\ Aged(d).contract = d.contract
          /\ Aged(d).left = IF d.left = 0 THEN 0 ELSE d.left - 1
      BY <1>1 DEF Aged, DraftFields
    <3>2. Aged(d).left \in 0 .. DraftTTL
      BY <1>1, <2>1, <3>1, LearnAssumption DEF TypedDraft, LearnAssumption
    <3> QED
      BY <1>1, <3>1, <3>2 DEF TypedDraft
  <2>3. Kept
    BY <1>1, <1>13, <2>2 DEF Tick
  <2>4. PendingTyped'
    <3> DEFINE Edit == [draft : DraftIds, etag : Edits, action : {"trigger", "instruction"},
                        left : 0 .. PendingTTL]
    <3>1. \A x \in Edit : Aged(x) \in Edit
      BY <2>1, LearnAssumption DEF Aged, LearnAssumption
    <3>2. pending' = [u \in Users |-> IF pending[u] = None THEN None ELSE Aged(pending[u])]
      BY <1>13 DEF Tick
    <3>3. pending \in [Users -> {None} \cup Edit]
      BY <1>1 DEF PendingTyped
    <3> HIDE DEF Edit
    <3>4. pending' \in [Users -> {None} \cup Edit]
      BY <3>1, <3>2, <3>3
    <3> USE DEF Edit
    <3> QED
      BY <3>4 DEF PendingTyped
  <2> HIDE DEF Kept, Shown
  <2> QED
    BY <1>4, <1>6, <1>13, <2>3, <2>4 DEF Tick
<1>14. CASE RestartLearn
  BY <1>1, <1>14 DEF RestartLearn, PendingTyped
<1>15. CASE UNCHANGED learnVars
  BY <1>3, <1>4, <1>5, <1>6, <1>15 DEF learnVars
<1> HIDE DEF Kept, Shown
<1> QED
  BY <1>7, <1>8, <1>9, <1>10, <1>11, <1>12, <1>13, <1>14, <1>15 DEF LearnNext

-----------------------------------------------------------------------------
TasksUpTo(n) == [msg : 1 .. n, text : Texts, by : {"message", "confirm"}]

(* What the uses of skills keep of their types, with the shape of rows.    *)
UseTyped ==
  /\ \A h \in hyps : DOMAIN h = RowFields
  /\ \A a \in asks : DOMAIN a = AskFields
  /\ SkillTypeOK

(* The rows of a table stay typed when a status is set.                    *)
TypedRows(hs) ==
  \A h \in hs : /\ DOMAIN h = RowFields
                /\ h.id \in HypothesisIds
                /\ h.owner \in Users
                /\ h.status \in ALLOWED_STATUSES

LEMMA UpdatingTypes ==
  ASSUME TypedRows(hyps), NEW key, NEW status \in ALLOWED_STATUSES,
         update_hypothesis_status(key, status)
  PROVE  TypedRows(hyps')
<1> DEFINE row(h) == IF h.id = key THEN [h EXCEPT !.status = status] ELSE h
<1>1. hyps' = {row(h) : h \in hyps}
  BY DEF update_hypothesis_status
<1>2. \A h \in hyps : /\ DOMAIN row(h) = RowFields
                      /\ row(h).id = h.id
                      /\ row(h).owner = h.owner
                      /\ row(h).status \in ALLOWED_STATUSES
  BY DEF TypedRows, RowFields
<1> HIDE DEF row
<1> QED
  BY <1>1, <1>2 DEF TypedRows

(* Questions and queues stay typed as messages are counted.                *)
TypedAsks(as, n) ==
  \A a \in as : /\ DOMAIN a = AskFields
                /\ a.user \in Users
                /\ a.text \in Texts
                /\ a.msg \in 1 .. n
                /\ a.left \in 0 .. ConfirmTTL

LEMMA MoreTasks ==
  ASSUME NEW n \in Nat, NEW s \in Seq(TasksUpTo(n))
  PROVE  s \in Seq(TasksUpTo(n + 1))
<1>1. TasksUpTo(n) \subseteq TasksUpTo(n + 1)
  <2>1. 1 .. n \subseteq 1 .. n + 1
    OBVIOUS
  <2> QED
    BY <2>1 DEF TasksUpTo
<1> QED
  BY <1>1

LEMMA StartingTypes ==
  ASSUME NEW n \in Nat, queue \in [Users -> Seq(TasksUpTo(n))], NEW u \in Users,
         NEW msg \in 1 .. n, NEW text \in Texts, NEW by \in {"message", "confirm"},
         queue' = [queue EXCEPT ![u] = Append(@, Task(msg, text, by))]
  PROVE  queue' \in [Users -> Seq(TasksUpTo(n))]
<1>1. Task(msg, text, by) \in TasksUpTo(n)
  BY DEF Task, TasksUpTo
<1>2. Append(queue[u], Task(msg, text, by)) \in Seq(TasksUpTo(n))
  BY <1>1
<1> HIDE DEF Task, TasksUpTo
<1> QED
  BY <1>2

(* A new message is asked about, or waits in its user's queue.             *)
LEMMA MessageTypes ==
  ASSUME UseTyped, NEW u \in Users, NEW text \in Texts, HandleMessage(u, text)
  PROVE  /\ TypedAsks(asks', sent')
         /\ queue' \in [Users -> Seq(TasksUpTo(sent'))]
         /\ sent' \in 0 .. MaxMessages
<1>1. /\ sent \in Nat /\ sent' = sent + 1 /\ sent' \in 0 .. MaxMessages
      /\ sent' \in 1 .. sent'
  BY SkillUseAssumption DEF UseTyped, SkillTypeOK, HandleMessage, SkillUseAssumption
<1>2. TypedAsks(asks, sent')
  BY <1>1 DEF UseTyped, SkillTypeOK, TypedAsks
<1>3. queue \in [Users -> Seq(TasksUpTo(sent'))]
  <2>1. queue \in [Users -> Seq(TasksUpTo(sent))]
    BY DEF UseTyped, SkillTypeOK, TasksUpTo
  <2>2. \A v \in Users : queue[v] \in Seq(TasksUpTo(sent'))
    BY <1>1, <2>1, MoreTasks
  <2> QED
    BY <2>1, <2>2
<1>4. TypedAsks(asks', sent')
  <2>1. PICK key : asks' \subseteq asks \cup {[user |-> u, key |-> key, text |-> text,
                                             msg |-> sent', left |-> ConfirmTTL]}
    BY DEF HandleMessage, Start
  <2> DEFINE new == [user |-> u, key |-> key, text |-> text, msg |-> sent', left |-> ConfirmTTL]
  <2>2. TypedAsks({new}, sent')
    BY <1>1, SkillUseAssumption DEF TypedAsks, AskFields, SkillUseAssumption
  <2> HIDE DEF new
  <2>3. asks' \subseteq asks \cup {new}
    BY <2>1 DEF new
  <2> QED
    BY <1>2, <2>2, <2>3 DEF TypedAsks
<1>5. queue' \in [Users -> Seq(TasksUpTo(sent'))]
  <2>1. \/ UNCHANGED queue
        \/ queue' = [queue EXCEPT ![u] = Append(@, Task(sent', text, "message"))]
    BY DEF HandleMessage, Start
  <2>2. sent' \in Nat
    BY <1>1
  <2> QED
    BY <1>1, <1>3, <2>1, <2>2, StartingTypes
<1> QED
  BY <1>1, <1>4, <1>5

(* An answer, a handled task, time and a restart keep what waits typed.    *)
LEMMA WaitingTypes ==
  ASSUME UseTyped, UNCHANGED sent,
         \/ \E u \in Users : BuildPrompt(u)
         \/ \E u \in Users, a \in asks :
              AnswerExpired(u, a) \/ AnswerYes(u, a) \/ AnswerNo(u, a) \/ AnswerNever(u, a)
         \/ ConfirmTick
         \/ RestartUse
         \/ UNCHANGED <<asks, queue>>
  PROVE  /\ TypedAsks(asks', sent')
         /\ queue' \in [Users -> Seq(TasksUpTo(sent'))]
<1>1. /\ TypedAsks(asks, sent)
      /\ sent \in 0 .. MaxMessages
      /\ queue \in [Users -> Seq(TasksUpTo(sent))]
  BY DEF UseTyped, SkillTypeOK, TypedAsks, TasksUpTo
<1> sent \in Nat
  BY <1>1, SkillUseAssumption DEF SkillUseAssumption
<1>2. CASE asks' \subseteq asks /\ UNCHANGED queue
  BY <1>1, <1>2 DEF TypedAsks
<1>3. ASSUME NEW u \in Users, BuildPrompt(u)
      PROVE  /\ TypedAsks(asks', sent')
             /\ queue' \in [Users -> Seq(TasksUpTo(sent'))]
  <2>1. /\ UNCHANGED asks
        /\ queue[u] # <<>>
        /\ queue' = [queue EXCEPT ![u] = Tail(@)]
    BY <1>3 DEF BuildPrompt
  <2>2. Tail(queue[u]) \in Seq(TasksUpTo(sent))
    BY <1>1, <2>1
  <2> QED
    BY <1>1, <2>1, <2>2
<1>4. ASSUME NEW u \in Users, NEW a \in asks, AnswerYes(u, a)
      PROVE  /\ TypedAsks(asks', sent')
             /\ queue' \in [Users -> Seq(TasksUpTo(sent'))]
  <2>1. asks' \subseteq asks
    BY <1>4 DEF AnswerYes, Settled
  <2>2. a.msg \in 1 .. sent /\ a.text \in Texts
    BY <1>1 DEF TypedAsks
  <2>3. \/ UNCHANGED queue
        \/ queue' = [queue EXCEPT ![u] = Append(@, Task(a.msg, a.text, "confirm"))]
    BY <1>4 DEF AnswerYes, Start
  <2>4. queue' \in [Users -> Seq(TasksUpTo(sent))]
    BY <1>1, <2>2, <2>3, StartingTypes
  <2> QED
    BY <1>1, <2>1, <2>4 DEF TypedAsks
<1>5. CASE ConfirmTick
  <2> DEFINE aged(a) == [a EXCEPT !.left = IF @ = 0 THEN 0 ELSE @ - 1]
  <2>1. asks' = {aged(a) : a \in asks} /\ UNCHANGED queue
    BY <1>5 DEF ConfirmTick
  <2>2. \A x \in 0 .. ConfirmTTL : (IF x = 0 THEN 0 ELSE x - 1) \in 0 .. ConfirmTTL
    BY SkillUseAssumption DEF SkillUseAssumption
  <2>3. \A a \in asks : /\ DOMAIN aged(a) = AskFields /\ aged(a).user = a.user
                        /\ aged(a).text = a.text /\ aged(a).msg = a.msg
                        /\ aged(a).left = IF a.left = 0 THEN 0 ELSE a.left - 1
    BY <1>1 DEF TypedAsks, AskFields
  <2> HIDE DEF aged
  <2>4. ASSUME NEW b \in asks'
        PROVE  /\ DOMAIN b = AskFields /\ b.user \in Users /\ b.text \in Texts
               /\ b.msg \in 1 .. sent /\ b.left \in 0 .. ConfirmTTL
    <3>1. PICK a \in asks : b = aged(a)
      BY <2>1
    <3>2. /\ a.user \in Users /\ a.text \in Texts /\ a.msg \in 1 .. sent
          /\ a.left \in 0 .. ConfirmTTL
      BY <1>1 DEF TypedAsks
    <3>3. b.left \in 0 .. ConfirmTTL
      BY <2>2, <2>3, <3>1, <3>2
    <3> QED
      BY <2>3, <3>1, <3>2, <3>3
  <2>5. TypedAsks(asks', sent)
    BY <2>4 DEF TypedAsks
  <2> QED
    BY <1>1, <2>1, <2>5
<1>6. CASE RestartUse
  <2>1. asks' = {} /\ queue' = [u \in Users |-> <<>>]
    BY <1>6 DEF RestartUse
  <2> QED
    BY <2>1 DEF TypedAsks
<1> QED
  BY <1>2, <1>3, <1>4, <1>5, <1>6 DEF AnswerExpired, AnswerNo, AnswerNever, Settled

(* Every step of the uses and the imports keeps the types.                 *)
LEMMA UseTypes ==
  ASSUME UseTyped, [SkillNext]_skillVars
  PROVE  UseTyped'
<1>1. /\ TypedRows(hyps)
      /\ TypedAsks(asks, sent)
      /\ queue \in [Users -> Seq(TasksUpTo(sent))]
      /\ sent \in 0 .. MaxMessages
      /\ tombs \subseteq HypothesisIds
      /\ stored \in 0 .. MaxContracts
      /\ pendingImport \in [Users -> DOMAIN Folders \cup {None}]
      /\ imports \in 0 .. MaxImports
  BY DEF UseTyped, SkillTypeOK, TypedRows, TypedAsks, TasksUpTo
<1> DEFINE Waiting == /\ TypedAsks(asks', sent')
                      /\ queue' \in [Users -> Seq(TasksUpTo(sent'))]
                      /\ sent' \in 0 .. MaxMessages
           Stored == /\ TypedRows(hyps')
                     /\ tombs' \subseteq HypothesisIds
           Bounds == /\ stored' \in 0 .. MaxContracts
                     /\ pendingImport' \in [Users -> DOMAIN Folders \cup {None}]
                     /\ imports' \in 0 .. MaxImports
<1>2. SUFFICES Waiting /\ Stored /\ Bounds
  BY DEF UseTyped, SkillTypeOK, TypedRows, TypedAsks, TasksUpTo
<1>3. UNCHANGED <<asks, queue, sent>> => Waiting
  BY <1>1
<1>4. UNCHANGED <<hyps, tombs>> => Stored
  BY <1>1
<1>5. UNCHANGED <<stored, pendingImport, imports>> => Bounds
  BY <1>1
<1>6. \A key, status : status \in {"active", "paused", "confirmed", "retired"}
        /\ update_hypothesis_status(key, status) => TypedRows(hyps')
  BY <1>1, UpdatingTypes DEF ALLOWED_STATUSES, ALLOWED_TRANSITIONS
<1>7. CASE AskNext /\ UNCHANGED importVars
  <2>1. UNCHANGED stored
    BY <1>7 DEF AskNext, HandleMessage, BuildPrompt, AnswerExpired, AnswerYes, AnswerNo, AnswerNever,
                ShowSkill, PauseSkill, ResumeSkill, ForgetSkill, ConfirmTick
  <2>2. Bounds
    BY <1>1, <1>7, <2>1 DEF importVars
  <2>3. ASSUME NEW u \in Users, NEW text \in Texts, HandleMessage(u, text)
        PROVE  Waiting /\ Stored
    BY <1>4, <2>3, MessageTypes DEF HandleMessage
  <2>4. ASSUME NEW u \in Users, BuildPrompt(u)
        PROVE  Waiting /\ Stored
    <3>1. UNCHANGED <<sent, hyps, tombs>>
      BY <2>4 DEF BuildPrompt
    <3> QED
      BY <1>1, <1>4, <2>4, <3>1, WaitingTypes
  <2>5. ASSUME NEW u \in Users, NEW a \in asks, AnswerExpired(u, a) \/ AnswerNo(u, a)
        PROVE  Waiting /\ Stored
    <3>1. UNCHANGED <<sent, hyps, tombs>>
      BY <2>5 DEF AnswerExpired, AnswerNo
    <3> QED
      BY <1>1, <1>4, <2>5, <3>1, WaitingTypes
  <2>6. ASSUME NEW u \in Users, NEW a \in asks, AnswerYes(u, a)
        PROVE  Waiting /\ Stored
    <3>1. UNCHANGED <<sent, tombs>> /\ update_hypothesis_status(a.key, "active")
      BY <2>6 DEF AnswerYes, promote
    <3> QED
      BY <1>1, <1>6, <2>6, <3>1, WaitingTypes
  <2>7. ASSUME NEW u \in Users, NEW a \in asks, AnswerNever(u, a)
        PROVE  Waiting /\ Stored
    <3>1. /\ UNCHANGED <<sent, tombs>>
          /\ update_hypothesis_status(a.key, "paused") \/ UNCHANGED hyps
      BY <2>7 DEF AnswerNever, pause_after_never
    <3> QED
      BY <1>1, <1>6, <2>7, <3>1, WaitingTypes
  <2>8. ASSUME NEW u \in Users, NEW h \in hyps, ShowSkill(u, h.id)
        PROVE  Waiting /\ Stored
    BY <1>3, <1>4, <2>8 DEF ShowSkill
  <2>9. ASSUME NEW u \in Users, NEW h \in hyps, PauseSkill(u, h.id) \/ ResumeSkill(u, h.id)
        PROVE  Waiting /\ Stored
    BY <1>1, <1>3, <1>6, <2>9 DEF PauseSkill, ResumeSkill
  <2>10. ASSUME NEW u \in Users, NEW h \in hyps, ForgetSkill(u, h.id)
         PROVE  Waiting /\ Stored
    <3>1. h.id \in HypothesisIds
      BY <1>1 DEF TypedRows
    <3> QED
      BY <1>1, <1>3, <1>6, <2>10, <3>1 DEF ForgetSkill, insert_tombstone
  <2>11. CASE ConfirmTick
    <3>1. UNCHANGED <<sent, hyps, tombs>>
      BY <2>11 DEF ConfirmTick
    <3> QED
      BY <1>1, <1>4, <2>2, <2>11, <3>1, WaitingTypes
  <2> HIDE DEF Waiting, Stored, Bounds
  <2> QED
    BY <1>7, <2>2, <2>3, <2>4, <2>5, <2>6, <2>7, <2>8, <2>9, <2>10, <2>11 DEF AskNext
<1>8. CASE StoreNext /\ UNCHANGED importVars
  <2>1. /\ UNCHANGED <<asks, queue, sent, hyps, tombs>>
        /\ stored < MaxContracts /\ stored' = stored + 1
    BY <1>8 DEF StoreNext, LearnSkill, InstallSkill, MigrateSkill
  <2>2. stored' \in 0 .. MaxContracts
    BY <1>1, <2>1, SkillUseAssumption DEF SkillUseAssumption
  <2>3. Bounds
    BY <1>1, <1>8, <2>2 DEF importVars
  <2> HIDE DEF Waiting, Stored, Bounds
  <2> QED
    BY <1>3, <1>4, <2>1, <2>3
<1>9. CASE ImportNext /\ UNCHANGED useVars
  <2>1. Waiting /\ UNCHANGED stored
    BY <1>3, <1>9 DEF useVars
  <2>2. ASSUME NEW u \in Users, NEW folder \in DOMAIN Folders, PreviewImport(u, folder)
        PROVE  Stored /\ Bounds
    BY <1>1, <2>1, <2>2 DEF PreviewImport
  <2>3. ASSUME NEW u \in Users, CancelImport(u)
        PROVE  Stored /\ Bounds
    BY <1>1, <2>1, <2>3 DEF CancelImport
  <2>4. ASSUME NEW u \in Users, RunImport(u)
        PROVE  Stored /\ Bounds
    <3> DEFINE i == imports + 1
               folder == pendingImport[u]
               found == NewPatterns(u, folder)
    <3>1. /\ imports' = i /\ imports' \in 0 .. MaxImports /\ i \in 1 .. MaxImports
          /\ folder \in DOMAIN Folders
          /\ pendingImport' = [pendingImport EXCEPT ![u] = None]
          /\ UNCHANGED tombs
      BY <1>1, <2>4, ImportAssumption DEF RunImport, ImportAssumption
    <3>2. Bounds
      BY <1>1, <2>1, <3>1
    <3>3. \/ UNCHANGED hyps
          \/ hyps' = hyps \cup {Suggested(u, i, p) : p \in found}
      BY <2>4 DEF RunImport
    <3>4. ASSUME NEW p \in found
          PROVE  TypedRows({Suggested(u, i, p)})
      <4>1. <<i, p>> \in DOMAIN HypId
        BY <3>1, ImportAssumption DEF NewPatterns, ImportAssumption
      <4>2. HypId[<<i, p>>] \in HypothesisIds
        BY <4>1 DEF HypothesisIds
      <4> HIDE DEF i
      <4> QED
        BY <4>2, SuggestedRow DEF TypedRows, ALLOWED_STATUSES, ALLOWED_TRANSITIONS
    <3> HIDE DEF i, found
    <3>5. TypedRows(hyps')
      BY <1>1, <3>3, <3>4 DEF TypedRows
    <3> QED
      BY <1>1, <3>1, <3>2, <3>5
  <2>5. ASSUME NEW i \in undo, UndoImport(i)
        PROVE  Stored /\ Bounds
    <3>1. hyps' \subseteq hyps /\ UNCHANGED <<pendingImport, imports, tombs>>
      BY <2>5 DEF UndoImport, delete_from_source, RowsDeleted
    <3> QED
      BY <1>1, <2>1, <3>1 DEF TypedRows
  <2> HIDE DEF Waiting, Stored, Bounds
  <2> QED
    BY <1>9, <2>1, <2>2, <2>3, <2>4, <2>5 DEF ImportNext
<1>10. CASE RestartUse /\ RestartImport
  <2>1. /\ UNCHANGED <<sent, stored, hyps, tombs, imports>>
        /\ pendingImport' = [u \in Users |-> None]
    BY <1>10 DEF RestartUse, RestartImport
  <2>2. Waiting
    BY <1>1, <1>10, <2>1, WaitingTypes
  <2> QED
    BY <1>1, <1>4, <2>1, <2>2
<1>11. CASE UNCHANGED skillVars
  BY <1>3, <1>4, <1>5, <1>11 DEF skillVars, useVars, importVars
<1> HIDE DEF Waiting, Stored, Bounds
<1> QED
  BY <1>7, <1>8, <1>9, <1>10, <1>11 DEF SkillNext, UseNext

-----------------------------------------------------------------------------
(* The uses of skills change the table of contracts by persist alone.      *)
LEMMA UseKeepsStore ==
  ASSUME StoreConsistent, [SkillNext]_skillVars
  PROVE  StoreConsistent'
<1>1. \/ UNCHANGED contracts
      \/ \E u, c : persist(u, c)
  <2>1. CASE AskNext
    BY <2>1 DEF AskNext, HandleMessage, BuildPrompt, AnswerExpired, AnswerYes, AnswerNo,
                AnswerNever, ShowSkill, PauseSkill, ResumeSkill, ForgetSkill, ConfirmTick
  <2>2. CASE StoreNext
    BY <2>2 DEF StoreNext, LearnSkill, InstallSkill, MigrateSkill
  <2> QED
    BY <2>1, <2>2 DEF SkillNext, UseNext, RestartUse, skillVars
<1> QED
  BY <1>1, PersistKeepsStore, FewerKeepStore

(* So does /learn.                                                         *)
LEMMA LearnKeepsStore ==
  ASSUME StoreConsistent, [LearnNext]_learnVars
  PROVE  StoreConsistent'
<1>1. \/ UNCHANGED contracts
      \/ \E u, c : persist(u, c)
  BY DEF LearnNext, Learn, SaveDraft, ChooseEdit, CancelDraft, FollowUp, ToChat, Tick,
         RestartLearn, learnVars
<1> QED
  BY <1>1, PersistKeepsStore, FewerKeepStore

(* Editors update and delete as well.                                      *)
LEMMA EditKeepsStore ==
  ASSUME EditInv, StoreConsistent, [EditNext]_<<contracts, editVars>>
  PROVE  StoreConsistent'
<1>1. ASSUME NEW u \in Users, NEW text \in Learnable, CreateContract(u, text)
      PROVE  StoreConsistent'
  BY <1>1, PersistKeepsStore DEF CreateContract
<1>2. ASSUME NEW e \in Editors, NEW tools \in Grants, NEW i, NEW allow \in BOOLEAN,
             NEW checked \in BOOLEAN, SaveContract(e, tools, i, allow, checked)
      PROVE  StoreConsistent'
  <2> DEFINE r == held[e]
             c == [Changed(r.contract, tools, i) EXCEPT !.allowTools = allow]
             expected == IF checked THEN r.contract.version ELSE None
  <2>1. r # None /\ update(r.owner, c, expected)
    BY <1>2 DEF SaveContract
  <2>2. Versioned(r.contract, rows)
    BY <2>1 DEF EditInv
  <2>3. Contractual(c) /\ "version" \in DOMAIN c
    BY <2>2 DEF Changed, Versioned, Contractual, Fields
  <2> HIDE DEF c, expected, r
  <2> QED
    BY <2>1, <2>3, UpdateKeepsStore
<1>3. ASSUME NEW r \in contracts, DeleteContract(r)
      PROVE  StoreConsistent'
  BY <1>3, FewerKeepStore DEF DeleteContract, delete
<1>4. CASE UNCHANGED contracts
  BY <1>4, FewerKeepStore
<1> QED
  BY <1>1, <1>2, <1>3, <1>4 DEF EditNext, LoadContract, editVars

(* The modules side by side: each keeps its own invariant while it takes   *)
(* steps, and the others' variables stay as they are.                      *)
SkillsInv ==
  /\ TypeOK
  /\ UseTyped
  /\ part = "learn" => LearnInv
  /\ part = "edit" => EditInv

(* The values of every component's variables, and the table of contracts:  *)
(* whichever of /learn, its edits, uploads, the migration, updates and     *)
(* deletions write it (contract_store.py), no two rows share an            *)
(* identifier, a hypothesis or a user's name, and every row that can be    *)
(* read satisfies the rules (contract_validator.py).                       *)
THEOREM SkillsTypeCorrect == SkillsSpec => []TypeOK
<1>1. SkillsInit => SkillsInv
  <2> SUFFICES ASSUME SkillsInit PROVE SkillsInv
    OBVIOUS
  <2>1. contracts = {} /\ EditInv /\ LearnInv
    BY DEF SkillsInit, LearnInit, EditInit, EditInv, LearnInv, DraftsConsistent
  <2>2. StoreConsistent
    BY <2>1 DEF StoreConsistent
  <2>3. LearnTypeOK
    BY LearnAssumption DEF SkillsInit, LearnInit, LearnTypeOK, LearnAssumption
  <2>4. UseTyped
    <3>1. \A h \in hyps : /\ DOMAIN h = RowFields /\ h.owner \in Users
                          /\ h.status \in ALLOWED_STATUSES /\ h.id \in HypothesisIds
      BY LegacyAssumption
         DEF SkillsInit, SkillInit, UseInit, RowFields, HypothesisIds, LegacyAssumption
    <3>2. /\ tombs = {} /\ asks = {} /\ sent = 0 /\ stored = 0 /\ imports = 0
          /\ queue = [u \in Users |-> <<>>]
          /\ pendingImport = [u \in Users |-> None]
      BY DEF SkillsInit, SkillInit, UseInit, ImportInit
    <3>3. queue \in [Users -> Seq([msg : 1 .. sent, text : Texts, by : {"message", "confirm"}])]
      BY <3>2
    <3> QED
      BY <3>1, <3>2, <3>3, SkillUseAssumption, ImportAssumption
         DEF UseTyped, SkillTypeOK, SkillUseAssumption, ImportAssumption
  <2> QED
    BY <2>1, <2>2, <2>3, <2>4 DEF SkillsInv, TypeOK, UseTyped
<1>2. SkillsInv /\ [SkillsNext]_<<part, learnVars, skillOnly, editVars>> => SkillsInv'
  <2> SUFFICES ASSUME SkillsInv, [SkillsNext]_<<part, learnVars, skillOnly, editVars>>
               PROVE  SkillsInv'
    OBVIOUS
  <2>1. UseTyped /\ LearnTypeOK /\ StoreConsistent
    BY DEF SkillsInv, TypeOK
  <2>2. UNCHANGED part
    BY DEF SkillsNext
  <2>3. UNCHANGED learnOnly => LearnTypeOK'
    BY <2>1 DEF learnOnly, LearnTypeOK
  <2>4. UNCHANGED skillOnly => UseTyped'
    BY <2>1 DEF skillOnly, useVars, importVars, UseTyped, SkillTypeOK
  <2>5. SUFFICES /\ LearnTypeOK' /\ UseTyped' /\ StoreConsistent'
                 /\ part = "learn" => LearnInv'
                 /\ part = "edit" => EditInv'
    BY <2>2 DEF SkillsInv, TypeOK, UseTyped
  <2>6. CASE part = "learn" /\ LearnNext /\ UNCHANGED <<skillOnly, editVars>>
    <3>1. LearnInv
      BY <2>6 DEF SkillsInv
    <3> QED
      BY <2>1, <2>4, <2>6, <3>1, LearnStep, LearnTypes, LearnKeepsStore
  <2>7. CASE part \in {"use", "import"} /\ SkillNext /\ UNCHANGED <<learnOnly, editVars>>
    BY <2>1, <2>3, <2>7, UseTypes, UseKeepsStore
  <2>8. CASE part = "edit" /\ EditNext /\ UNCHANGED <<learnOnly, skillOnly>>
    <3>1. EditInv
      BY <2>8 DEF SkillsInv
    <3> QED
      BY <2>1, <2>3, <2>4, <2>8, <3>1, EditStep, EditKeepsStore
  <2>9. CASE UNCHANGED <<part, learnVars, skillOnly, editVars>>
    <3>1. UNCHANGED <<learnOnly, contracts>> /\ UNCHANGED learnVars
      BY <2>9 DEF learnOnly, learnVars
    <3>2. part = "learn" => LearnInv'
      BY <3>1, LearnStep DEF SkillsInv
    <3>3. part = "edit" => EditInv'
      BY <2>9, <3>1, EditStep DEF SkillsInv
    <3> QED
      BY <2>1, <2>3, <2>4, <2>9, <3>1, <3>2, <3>3, FewerKeepStore
  <2> QED
    BY <2>6, <2>7, <2>8, <2>9 DEF SkillsNext
<1>3. SkillsInv => TypeOK
  BY DEF SkillsInv
<1> QED
  BY <1>1, <1>2, <1>3, PTL DEF SkillsSpec
=============================================================================
