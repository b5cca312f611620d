------------------------------ MODULE LearnFlow ------------------------------
(***************************************************************************)
(* /learn: a text becomes a draft, the draft is previewed with buttons,    *)
(* edited by follow-up messages, and saved as a contract or cancelled.     *)
(* Drafts and pending edits live in memory with a time to live; buttons    *)
(* stay on the user's screen for ever and carry the draft's identifier     *)
(* and etag.  The commands are private-chat only, so a user stands for a   *)
(* (user, chat) pair and a draft of another user is simply not found.      *)
(*                                                                         *)
(* The etag is a hash of the contract with its identifier and time of      *)
(* change: within one draft it is determined by the number of edits.       *)
(***************************************************************************)
EXTENDS ContractStore

CONSTANTS
    Replies,         \* what a follow-up message may say
    DraftTTL, PendingTTL,     \* in ticks
    MaxDrafts, MaxEdits       \* bounds of the instance

ASSUME LearnAssumption == /\ DraftTTL \in Nat \ {0}
                          /\ PendingTTL \in Nat \ {0}
                          /\ MaxDrafts \in Nat
                          /\ MaxEdits \in Nat

VARIABLES
    drafts,     \* drafts in memory: [id, user, contract, edits, left]
    active,     \* user -> draft identifier or None
    owners,     \* the index (user, draft identifier)
    pending,    \* user -> [draft, etag, action, left] or None
    screen,     \* previews shown: [user, draft, etag, contract]
    built,      \* drafts made so far
    reply       \* the last answer: [to, what, preview]

learnVars == <<drafts, active, owners, pending, screen, built, reply, contracts>>

Edits == 0 .. MaxEdits

DraftIds == 1 .. MaxDrafts

Answer(u, what, preview) == reply' = [to |-> u, what |-> what, preview |-> preview]

LearnInit == /\ contracts = {}
             /\ drafts = {}
             /\ active = [u \in Users |-> None]
             /\ owners = {}
             /\ pending = [u \in Users |-> None]
             /\ screen = {}
             /\ built = 0
             /\ reply = [to |-> None, what |-> "none", preview |-> None]

-----------------------------------------------------------------------------
(* DraftStore and PendingEditStore *)

Live(ds) == {d \in ds : d.left > 0}

DraftOf(u, id) == {d \in drafts : d.user = u /\ d.id = id}

\* get(): a draft found expired is removed, and with it the user's active one.
Found(u, id) == Live(DraftOf(u, id))

DropExpired(u, id) ==
    LET gone == DraftOf(u, id) \ Found(u, id)
    IN  /\ drafts' = drafts \ gone
        /\ owners' = owners \ {<<d.user, d.id>> : d \in gone}
        /\ active' = IF gone = {} THEN active ELSE [active EXCEPT ![u] = None]

\* create(): clears what has expired, then replaces the user's active draft.
create_draft(u, c) ==
    LET live == Live(drafts)
        kept == {d \in live : ~(d.user = u /\ d.id = active[u])}
        new == [id |-> c.id, user |-> u, contract |-> c, edits |-> 0, left |-> DraftTTL]
    IN  /\ drafts' = kept \cup {new}
        /\ owners' = {<<d.user, d.id>> : d \in kept \cup {new}}
        /\ active' = [v \in Users |->
                        IF v = u THEN c.id
                        ELSE IF \E d \in drafts \ live : d.user = v /\ d.id = active[v]
                        THEN None ELSE active[v]]

delete_draft_KeepsActive(u, id) ==
    /\ drafts' = drafts \ DraftOf(u, id)
    /\ owners' = owners \ {<<u, id>>}
    /\ UNCHANGED active
delete_draft(u, id) ==
    IF DraftOf(u, id) = {} THEN UNCHANGED <<drafts, active, owners>>
    ELSE /\ drafts' = drafts \ DraftOf(u, id)
         /\ owners' = owners \ {<<u, id>>}
         /\ active' = [active EXCEPT ![u] = None]

PendingNow(u) == IF pending[u] # None /\ pending[u].left = 0 THEN None ELSE pending[u]

clear_pending(u) == pending' = [pending EXCEPT ![u] = None]

set_pending(u, id, etag, action) ==
    pending' = [v \in Users |->
                  IF v = u THEN [draft |-> id, etag |-> etag, action |-> action,
                                 left |-> PendingTTL]
                  ELSE PendingNow(v)]

Preview(u, d) == [user |-> u, draft |-> d.id, etag |-> d.edits, contract |-> d.contract]

-----------------------------------------------------------------------------
(* The handlers *)

\* _contract_preflight followed by persist: they test the same conditions.
SaveError(u, c) == persist_error(u, Confirmed(c))

\* /learn <text>: rejected by the safety gate, or a draft that waits for its
\* trigger, or a preview, or with --quick stored at once.
Learn(u, text, quick) ==
    LET id == built + 1
        c == build(id, text)
    IN  /\ built < MaxDrafts
        /\ built' = id
        /\ \/ /\ ~IsSafe(c)
              /\ Answer(u, "rejected", None)
              /\ UNCHANGED <<drafts, active, owners, pending, screen, contracts>>
           \/ /\ IsSafe(c)
              /\ NeedsInput(text)
              /\ create_draft(u, c)
              /\ set_pending(u, id, 0, "trigger")
              /\ Answer(u, "needs_trigger", None)
              /\ UNCHANGED <<screen, contracts>>
           \/ /\ IsSafe(c)
              /\ ~NeedsInput(text)
              /\ quick
              /\ persist(u, Confirmed(c))
              /\ Answer(u, IF SaveError(u, c) = "none" THEN "quick_saved" ELSE "rejected", None)
              /\ UNCHANGED <<drafts, active, owners, pending, screen>>
           \/ /\ IsSafe(c)
              /\ ~NeedsInput(text)
              /\ ~quick
              /\ create_draft(u, c)
              /\ screen' = screen \cup {Preview(u, [id |-> id, edits |-> 0, contract |-> c])}
              /\ Answer(u, "preview", None)
              /\ UNCHANGED <<pending, contracts>>

\* save_draft() on a draft that is still there.
SaveOutcome_NoEtag(u, d, etag) == IF ~IsSafe(d.contract) THEN "rejected"
                                  ELSE IF SaveError(u, d.contract) # "none" THEN "invalid"
                                  ELSE "saved"
SaveOutcome(u, d, etag) == IF d.edits # etag THEN "stale"
                           ELSE IF ~IsSafe(d.contract) THEN "rejected"
                           ELSE IF SaveError(u, d.contract) # "none" THEN "invalid"
                           ELSE "saved"

\* The save button of a preview.
SaveDraft(p) ==
    LET u == p.user
        found == Found(u, p.draft)
    IN  /\ p \in screen
        /\ \/ /\ found = {}
              /\ DropExpired(u, p.draft)
              /\ Answer(u, "already_saved", p)
              /\ UNCHANGED <<pending, contracts>>
           \/ \E d \in found :
                 LET outcome == SaveOutcome(u, d, p.etag)
                 IN  /\ Answer(u, outcome, p)
                     /\ IF outcome = "saved"
                        THEN /\ persist(u, Confirmed(d.contract))
                             /\ delete_draft(u, p.draft)
                             /\ clear_pending(u)
                        ELSE UNCHANGED <<drafts, active, owners, pending, contracts>>
        /\ UNCHANGED <<screen, built>>

\* The edit button and then the choice of what to edit: the next message is
\* the new text.  Nothing checks that the draft is still there.
ChooseEdit(p, action) ==
    /\ p \in screen
    /\ set_pending(p.user, p.draft, p.etag, action)
    /\ Answer(p.user, "edit_prompt", p)
    /\ UNCHANGED <<drafts, active, owners, screen, built, contracts>>

CancelDraft(p) ==
    /\ p \in screen
    /\ delete_draft(p.user, p.draft)
    /\ clear_pending(p.user)
    /\ Answer(p.user, "cancelled", p)
    /\ UNCHANGED <<screen, built, contracts>>

\* The outcome of applying a follow-up text to the draft it was meant for.
EditAccepted(action, text) == action = "trigger" => validate_trigger(text)

Edited(d, action, text) == IF action = "trigger" THEN apply_trigger_edit(d.contract, text)
                           ELSE apply_instruction_edit(d.contract, text)

\* A text message while an edit is pending is taken as the new text and never
\* reaches the chat.  A pending edit survives a rejected text and a stale etag.
FollowUp(u, text) ==
    LET state == PendingNow(u)
    IN  /\ state # None
        /\ \/ /\ Found(u, state.draft) = {}
              /\ DropExpired(u, state.draft)
              /\ clear_pending(u)
              /\ Answer(u, "edit_failed", None)
              /\ UNCHANGED screen
           \/ \E d \in Found(u, state.draft) :
                 LET new == [d EXCEPT !.contract = Edited(d, state.action, text),
                                      !.edits = @ + 1]
                     rejected == \/ ~EditAccepted(state.action, text)
                                 \/ ~IsSafe(new.contract)
                 IN  \/ /\ rejected \/ d.edits # state.etag
                        /\ Answer(u, IF rejected THEN "edit_rejected" ELSE "edit_stale", None)
                        /\ UNCHANGED <<drafts, active, owners, pending, screen>>
                     \/ /\ ~rejected
                        /\ d.edits = state.etag
                        /\ d.edits < MaxEdits
                        /\ drafts' = (drafts \ {d}) \cup {new}
                        /\ clear_pending(u)
                        /\ screen' = screen \cup {Preview(u, new)}
                        /\ Answer(u, "preview", None)
                        /\ UNCHANGED <<active, owners>>
        /\ UNCHANGED <<built, contracts>>

\* The same message with no edit pending goes on to the chat; reading the
\* pending state removes it when it has expired.
ToChat(u) ==
    /\ pending[u] # None
    /\ PendingNow(u) = None
    /\ clear_pending(u)
    /\ Answer(u, "chat", None)
    /\ UNCHANGED <<drafts, active, owners, screen, built, contracts>>

-----------------------------------------------------------------------------
Aged_Unclamped(x) == [x EXCEPT !.left = @ - 1]
Aged(x) == [x EXCEPT !.left = IF @ = 0 THEN 0 ELSE @ - 1]

Tick == /\ drafts' = {Aged(d) : d \in drafts}
        /\ pending' = [u \in Users |-> IF pending[u] = None THEN None ELSE Aged(pending[u])]
        /\ UNCHANGED <<active, owners, screen, built, reply, contracts>>

\* The process restarts: memory is gone, the table and the buttons are not.
RestartLearn == /\ drafts' = {}
                /\ active' = [u \in Users |-> None]
                /\ owners' = {}
                /\ pending' = [u \in Users |-> None]
                /\ UNCHANGED <<screen, built, reply, contracts>>

LearnNext ==
    \/ \E u \in Users, text \in Learnable, quick \in BOOLEAN : Learn(u, text, quick)
    \/ \E p \in screen : SaveDraft(p)
    \/ \E p \in screen, action \in {"trigger", "instruction"} : ChooseEdit(p, action)
    \/ \E p \in screen : CancelDraft(p)
    \/ \E u \in Users, text \in Replies : FollowUp(u, text)
    \/ \E u \in Users : ToChat(u)
    \/ Tick
    \/ RestartLearn

LearnSpec == LearnInit /\ [][LearnNext]_learnVars
=============================================================================
