------------------------------- MODULE SkillUse -------------------------------
(***************************************************************************)
(* From a message to a prompt with a skill in it.  handle_message looks    *)
(* for a skill first: one that is only confirmed is asked about, with      *)
(* three buttons, and the message waits; otherwise a background task is    *)
(* started, which waits for the user's lock and then looks for a skill     *)
(* again, without asking.  In between, the other handlers run: /skill and  *)
(* its buttons, /forget, /learn, /installskill, the migration script.      *)
(*                                                                         *)
(* Handlers run one after another, the tasks of one user too; the table    *)
(* calls have no await.  Private chats only, so a user stands for a        *)
(* (user, chat) pair.                                                      *)
(***************************************************************************)
EXTENDS SkillMatcher, Sequences

CONSTANTS
    Texts,           \* messages
    Legacy,          \* the hypotheses at the start
    Claims,          \* hypothesis -> what the migration reads in its claim
    Uploads,         \* uploaded files: a contract, one of its fields and the kind it has
    ConfirmTTL,      \* SKILL_CONFIRM_TIMEOUT_SECONDS, in ticks
    MaxSkills,       \* 50 in the code
    MaxMessages, MaxContracts      \* bounds of the instance

ASSUME SkillUseAssumption == /\ ConfirmTTL \in Nat \ {0}
                             /\ MaxSkills \in Nat
                             /\ MaxMessages \in Nat
                             /\ MaxContracts \in Nat

\* A user has one hypothesis for a pattern, when the bot starts.
ASSUME LegacyAssumption ==
    \A g, h \in Legacy : /\ DOMAIN g = {"id", "owner", "status", "pattern"}
                         /\ g.owner \in Users /\ g.status \in ALLOWED_STATUSES
                         /\ g.owner = h.owner /\ g.pattern = h.pattern => g = h

VARIABLES
    asks,       \* waiting for an answer: [user, key, text, msg, left]
    buttons,    \* on the users' screens for ever: [user, kind, key]
    queue,      \* user -> the background tasks in the order of the lock
    started,    \* message -> tasks started for it
    applied,    \* the skill in the last prompt: [key, status, by], or None
    approved,   \* skills whose user said yes, and did not stop them since
    sent, stored       \* messages and contracts so far

useVars == <<asks, buttons, queue, started, applied, approved, sent, stored>>

Messages == 1 .. MaxMessages

Task(msg, text, by) == [msg |-> msg, text |-> text, by |-> by]

UseInit == /\ hyps = Legacy
           /\ tombs = {}
           /\ contracts = {}
           /\ approved = {h.id : h \in {g \in Legacy : g.status = "active"}}
           /\ asks = {}
           /\ buttons = {}
           /\ queue = [u \in Users |-> <<>>]
           /\ started = [m \in Messages |-> 0]
           /\ applied = None
           /\ sent = 0
           /\ stored = 0

-----------------------------------------------------------------------------
AsksOf(u, key) == {a \in asks : a.user = u /\ a.key = key}

Start(u, msg, text, by) == /\ queue' = [queue EXCEPT ![u] = Append(@, Task(msg, text, by))]
                           /\ started' = [started EXCEPT ![msg] = @ + 1]

MustAsk(m) == IF m = None THEN FALSE ELSE should_ask_user(m)

\* A text message.  One question is kept per skill, a second message takes
\* the place of the first; when no keyboard can be sent the question is
\* dropped and the message with it.
HandleMessage(u, text) ==
    /\ sent < MaxMessages
    /\ sent' = sent + 1
    /\ \E m \in match_skills_for_prompt(u, text) :
          \/ /\ ~MustAsk(m)
             /\ Start(u, sent', text, "message")
             /\ UNCHANGED <<asks, buttons>>
          \/ /\ MustAsk(m)
             /\ \/ /\ asks' = (asks \ AsksOf(u, m.key)) \cup
                              {[user |-> u, key |-> m.key, text |-> text,
                                msg |-> sent', left |-> ConfirmTTL]}
                   /\ buttons' = buttons \cup {[user |-> u, kind |-> "confirm", key |-> m.key]}
                \/ /\ asks' = asks \ AsksOf(u, m.key)
                   /\ UNCHANGED buttons
             /\ UNCHANGED <<queue, started>>
    /\ UNCHANGED <<applied, approved, stored, hyps, tombs, contracts>>

\* The head of the queue has the lock: the prompt is put together.
BuildPrompt(u) ==
    /\ queue[u] # <<>>
    /\ queue' = [queue EXCEPT ![u] = Tail(@)]
    /\ \E m \in match_skills_for_prompt(u, Head(queue[u]).text) :
          applied' = IF m = None THEN None
                     ELSE [key |-> m.key, status |-> m.status, by |-> Head(queue[u]).by]
    /\ UNCHANGED <<asks, buttons, started, approved, sent, stored, hyps, tombs, contracts>>

-----------------------------------------------------------------------------
(* The answer to a question.  A button may be pressed at any time and more *)
(* than once.                                                              *)

Pressed(u, kind, key) == [user |-> u, kind |-> kind, key |-> key] \in buttons

\* Promotion falls back on the unchecked update, so every status yields.
promote(key) == update_hypothesis_status(key, "active")

\* A step the matrix forbids is logged and dropped.
pause_after_never_Skipped(key) == UNCHANGED hyps
pause_after_never(key) == IF TransitionAllowed(key, "paused")
                          THEN update_hypothesis_status(key, "paused")
                          ELSE UNCHANGED hyps

\* The question is taken out of the store, when nothing failed before.
Settled_Keeps(a) == asks' = asks
Settled(a) == asks' = asks \ {a}

AnswerExpired(u, a) ==
    /\ a \in asks
    /\ a.left = 0
    /\ Pressed(u, "confirm", a.key)
    /\ a.user = u
    /\ Settled(a)
    /\ UNCHANGED <<buttons, queue, started, applied, approved, sent, stored,
                   hyps, tombs, contracts>>

\* Without a streaming provider the skill is confirmed and nothing is sent.
\* The row changes before the question's message is edited: when that edit
\* fails the handler ends there and the question stays open.
AnswerYes(u, a) ==
    /\ a \in asks
    /\ a.left > 0
    /\ a.user = u
    /\ Pressed(u, "confirm", a.key)
    /\ promote(a.key)
    /\ approved' = approved \cup {a.key}
    /\ \/ Start(u, a.msg, a.text, "confirm") /\ Settled(a)
       \/ UNCHANGED <<queue, started>> /\ (Settled(a) \/ UNCHANGED asks)
    /\ UNCHANGED <<buttons, applied, sent, stored, tombs, contracts>>

AnswerNo(u, a) ==
    /\ a \in asks
    /\ a.left > 0
    /\ a.user = u
    /\ Pressed(u, "confirm", a.key)
    /\ Settled(a)
    /\ UNCHANGED <<buttons, queue, started, applied, approved, sent, stored,
                   hyps, tombs, contracts>>

AnswerNever(u, a) ==
    /\ a \in asks
    /\ a.left > 0
    /\ a.user = u
    /\ Pressed(u, "confirm", a.key)
    /\ pause_after_never(a.key)
    /\ approved' = approved \ {a.key}
    /\ Settled(a) \/ UNCHANGED asks
    /\ UNCHANGED <<buttons, queue, started, applied, sent, stored, tombs, contracts>>

-----------------------------------------------------------------------------
(* /skill, /forget and the buttons of a skill's page *)

Owned(u, key) == {h \in get_hypothesis(key) : h.owner = u}

\* Named by its identifier a hypothesis of any status is shown.
ShowSkill(u, key) ==
    /\ \E h \in Owned(u, key) :
          buttons' = buttons \cup
             {[user |-> u, kind |-> k, key |-> key] :
                 k \in {IF h.status = "paused" THEN "resume" ELSE "pause"}}
    /\ UNCHANGED <<asks, queue, started, applied, approved, sent, stored,
                   hyps, tombs, contracts>>

\* Both fall back on the unchecked update, whatever the status is.
PauseSkill(u, key) ==
    /\ Pressed(u, "pause", key)
    /\ Owned(u, key) # {}
    /\ update_hypothesis_status(key, "paused")
    /\ approved' = approved \ {key}
    /\ UNCHANGED <<asks, buttons, queue, started, applied, sent, stored, tombs, contracts>>

ResumeSkill(u, key) ==
    /\ Pressed(u, "resume", key)
    /\ Owned(u, key) # {}
    /\ update_hypothesis_status(key, "confirmed")
    /\ approved' = approved \ {key}
    /\ UNCHANGED <<asks, buttons, queue, started, applied, sent, stored, tombs, contracts>>

\* From /forget, with or without --permanent, or from a button.
ForgetSkill(u, key) ==
    /\ Owned(u, key) # {}
    /\ update_hypothesis_status(key, "retired")
    /\ insert_tombstone(key)
    /\ approved' = approved \ {key}
    /\ UNCHANGED <<asks, buttons, queue, started, applied, sent, stored, contracts>>

-----------------------------------------------------------------------------
(* Where contracts come from *)

SkillLimitReached(u) == Cardinality(MatchableHypotheses(u)) >= MaxSkills

\* /learn --quick, or a draft saved (module LearnFlow).
LearnSkill(u, text) ==
    /\ stored < MaxContracts
    /\ stored' = stored + 1
    /\ ~SkillLimitReached(u)
    /\ ~NeedsInput(text)
    /\ IsSafe(build(stored', text))
    /\ persist(u, Confirmed(build(stored', text)))
    /\ UNCHANGED <<asks, buttons, queue, started, applied, approved, sent, hyps, tombs>>

\* /installskill: the origin is overwritten, everything else is the file's.
Installed(file) == [from_dict(file) EXCEPT !.origin = "manual_install"]

InstallSkill(u, file) ==
    /\ stored < MaxContracts
    /\ Readable(file)
    /\ stored' = stored + 1
    /\ Installed(file).instruction # None
    /\ IsSafe(Installed(file))
    /\ persist(u, Installed(file))
    /\ UNCHANGED <<asks, buttons, queue, started, applied, approved, sent, hyps, tombs>>

\* One hypothesis of the migration script.  A claim in which no trigger is
\* recognised becomes a contract for review, which matches nothing.
Migrated(id, h) ==
    LET claim == Claims[h.id]
    IN  IF claim.trigger # None
        THEN [NewContract(id, <<claim.trigger>>, claim.trigger, claim.instruction, h.status)
                 EXCEPT !.hypothesis = h.id, !.origin = "migrated"]
        ELSE [NewContract(id, <<"review", h.id>>, None, claim.instruction, "needs_review")
                 EXCEPT !.hypothesis = h.id, !.origin = "migrated",
                        !.mode = "intent_match", !.review = "flagged"]

MigrateSkill(h) ==
    /\ stored < MaxContracts
    /\ stored' = stored + 1
    /\ h \in hyps
    /\ h.status \in Matchable
    /\ ~HasHypothesis(contracts, h.id)
    /\ persist(h.owner, Migrated(stored', h))
    /\ UNCHANGED <<asks, buttons, queue, started, applied, approved, sent, hyps, tombs>>

-----------------------------------------------------------------------------
ConfirmTick == /\ asks' = {[a EXCEPT !.left = IF @ = 0 THEN 0 ELSE @ - 1] : a \in asks}
               /\ UNCHANGED <<buttons, queue, started, applied, approved, sent, stored,
                              hyps, tombs, contracts>>

RestartUse == /\ asks' = {}
              /\ queue' = [u \in Users |-> <<>>]
              /\ UNCHANGED <<buttons, started, applied, approved, sent, stored,
                             hyps, tombs, contracts>>

AskNext ==
    \/ \E u \in Users, text \in Texts : HandleMessage(u, text)
    \/ \E u \in Users : BuildPrompt(u)
    \/ \E u \in Users, a \in asks : \/ AnswerExpired(u, a)
                                    \/ AnswerYes(u, a)
                                    \/ AnswerNo(u, a)
                                    \/ AnswerNever(u, a)
    \/ \E u \in Users, h \in hyps : \/ ShowSkill(u, h.id)
                                    \/ PauseSkill(u, h.id)
                                    \/ ResumeSkill(u, h.id)
                                    \/ ForgetSkill(u, h.id)
    \/ ConfirmTick

StoreNext ==
    \/ \E u \in Users, text \in Learnable : LearnSkill(u, text)
    \/ \E u \in Users, file \in Uploads : InstallSkill(u, file)
    \/ \E h \in hyps : MigrateSkill(h)

UseNext == AskNext \/ StoreNext
=============================================================================
