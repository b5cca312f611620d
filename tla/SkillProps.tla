------------------------------ MODULE SkillProps ------------------------------
(***************************************************************************)
(* What must hold of skills from their learning to their use, and claims   *)
(* of the source that do not hold.                                         *)
(***************************************************************************)
EXTENDS LearnFlow, ConversationImport, ContractEdits

LearnTypeOK ==
    /\ \A d \in drafts : /\ d.id \in DraftIds
                         /\ d.user \in Users
                         /\ d.edits \in Edits
                         /\ d.left \in 0 .. DraftTTL
                         /\ d.contract.id = d.id
                         /\ d.contract.status \in Unfinished
    /\ active \in [Users -> DraftIds \cup {None}]
    /\ owners \subseteq Users \X DraftIds
    /\ pending \in [Users -> {None} \cup [draft : DraftIds, etag : Edits,
                                         action : {"trigger", "instruction"},
                                         left : 0 .. PendingTTL]]
    /\ \A p \in screen : p.user \in Users /\ p.draft \in DraftIds /\ p.etag \in Edits
    /\ built \in 0 .. MaxDrafts

\* The draft store keeps three maps in step through creation, replacement,
\* expiry, deletion and restart: a user has at most one draft, it is the
\* active one, the ownership index names exactly the drafts there are, and a
\* draft whose contract has been stored is gone (a second click on Save finds
\* nothing to save).
DraftsConsistent ==
    /\ owners = {<<d.user, d.id>> : d \in drafts}
    /\ \A d \in drafts : active[d.user] = d.id
    /\ \A u \in Users : active[u] # None => DraftOf(u, active[u]) # {}
    /\ \A d \in drafts, r \in contracts : r.contract.id # d.id

\* Whatever the privacy pipeline rejects is never kept, not even in a draft
\* that only waits for its trigger, and never stored, whichever of /learn,
\* --quick, an edit or Save it came through.
NothingUnsafe ==
    \A c \in {d.contract : d \in drafts} \cup {r.contract : r \in contracts} :
       c.trigger \notin Unsafe /\ c.instruction \notin Unsafe

\* Save stores what the preview showed above the pressed button: not a version
\* edited since, and not another draft's.
SavedAsShown ==
    [][contracts' # contracts /\ reply'.what = "saved" =>
         \E r \in contracts' \ contracts :
            /\ r.owner = reply'.preview.user
            /\ r.contract.id = reply'.preview.draft
            /\ r.contract.trigger = reply'.preview.contract.trigger
            /\ r.contract.instruction = reply'.preview.contract.instruction]_learnVars

-----------------------------------------------------------------------------

HypothesisIds == {h.id : h \in Legacy} \cup {HypId[x] : x \in DOMAIN HypId}

SkillTypeOK ==
    /\ \A h \in hyps : /\ h.id \in HypothesisIds
                       /\ h.owner \in Users
                       /\ h.status \in ALLOWED_STATUSES
    /\ tombs \subseteq HypothesisIds
    /\ \A a \in asks : /\ a.user \in Users
                       /\ a.text \in Texts
                       /\ a.msg \in 1 .. sent
                       /\ a.left \in 0 .. ConfirmTTL
    /\ queue \in [Users -> Seq([msg : 1 .. sent, text : Texts, by : {"message", "confirm"}])]
    /\ sent \in 0 .. MaxMessages
    /\ stored \in 0 .. MaxContracts
    /\ pendingImport \in [Users -> DOMAIN Folders \cup {None}]
    /\ imports \in 0 .. MaxImports

\* A message is handed to the model at most once, however often the buttons
\* of the questions about it, and of later questions about the same skill,
\* are pressed.
AnsweredAtMostOnce == \A m \in Messages : started[m] <= 1

\* Only the user's yes makes a hypothesis one that is used without asking,
\* and pausing, resuming, forgetting or "never" takes the yes back: nothing a
\* button left on the screen, an import or a migration does replaces it.
ActiveMeansApproved == \A h \in hyps : h.status = "active" => h.id \in approved

\* Importing, undoing and importing again keeps one hypothesis per pattern and
\* user, whatever became of it meanwhile, and every one of an import can
\* still be undone with it.
ImportsConsistent ==
    /\ \A g, h \in hyps : g.owner = h.owner /\ g.pattern = h.pattern => g = h
    /\ \A r \in imap : /\ \E s \in sources : s.id = r[1]
                       /\ \E h \in hyps : h.id = r[2]
    /\ \A h \in hyps \ Legacy : h.status = "suggested" => \E s \in sources : <<s.id, h.id>> \in imap

-----------------------------------------------------------------------------
(* Claims of the source that the code does not keep                        *)

\* skill_matcher: "Status 'confirmed': ALWAYS ask".  A skill that is only
\* confirmed gets into a prompt only when the message was asked about.
AlwaysAsked == applied # None => ~(applied.status = "confirmed" /\ applied.by = "message")

\* The text shown after "never": "Skill paused. It will not be suggested
\* again."  Once it was answered, no message calls for that skill.
NeverIsFinal ==
    [][\A u \in Users, a \in asks :
         AnswerNever(u, a) =>
            \A text \in Texts :
               \A m \in match_skills_for_prompt(u, text)' : m = None \/ m.key # a.key]_skillVars

-----------------------------------------------------------------------------
(* The modules side by side: part, chosen at the start, says which of them *)
(* takes steps.  They share the table of contracts.                        *)

VARIABLE part

learnOnly == <<drafts, active, owners, pending, screen, built, reply>>

skillOnly == <<hyps, tombs, useVars, importVars>>

SkillsInit == LearnInit /\ SkillInit /\ EditInit /\ part \in {"learn", "use", "import", "edit"}

SkillsNext == /\ UNCHANGED part
              /\ \/ part = "learn" /\ LearnNext /\ UNCHANGED <<skillOnly, editVars>>
                 \/ part \in {"use", "import"} /\ SkillNext /\ UNCHANGED <<learnOnly, editVars>>
                 \/ part = "edit" /\ EditNext /\ UNCHANGED <<learnOnly, skillOnly>>

SkillsSpec == SkillsInit /\ [][SkillsNext]_<<part, learnVars, skillOnly, editVars>>

\* The values of every component's variables, and what the table of contracts
\* promises of its rows, whoever writes them.
TypeOK == LearnTypeOK /\ SkillTypeOK /\ StoreConsistent
=============================================================================
