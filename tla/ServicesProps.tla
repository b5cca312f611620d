---------------------------- MODULE ServicesProps ----------------------------
(***************************************************************************)
(* What the services around an answer promise: the settings, the guard of  *)
(* its language, /debate, what users keep and what is learned from them.   *)
(***************************************************************************)
EXTENDS Answering, UserLanguage, LanguageGuard, Debate, MemoryRecall, PatternLifecycle,
        EncryptedDatabase

(* The values of every component's variables, with what must fit together: *)
(* the guard's statistics stay within the store's limit and no stream is   *)
(* counted twice (stream_guard.py:559-574), a day brings no more remarks   *)
(* than allowed (proactive_trigger_service.py), a translation is cached    *)
(* once and the cache keeps its limit, as do the judge's log and reviews.  *)
TypeOK == /\ LanguageTypeOK
          /\ GuardTypeOK
          /\ AnswerTypeOK
          /\ DebateTypeOK
          /\ ItemsTypeOK
          /\ RecallTypeOK
          /\ LifeTypeOK
          /\ DatabaseTypeOK

(* Whatever a bot without SQLite, a crash between two steps of an import   *)
(* or an old button does (sqlite_storage.py:1249-1330), an item that was   *)
(* saved and not removed is in its table or still in its file.             *)
ItemsKept == \A item \in wanted : item[2] \in ToSet(table[item[1]]) \cup ToSet(LinesOf(item[1]))

(* No row of the database is lost by its encryption, with libraries that   *)
(* come and go and files that earlier attempts left behind, unless a       *)
(* migration ends between its two renamings (crypto_storage.py:489-495).   *)
RowsKept == ~torn => committed \subseteq Stored(IF migration.step = "aside" THEN "temp" ELSE "main")

(* What was stored is kept, whatever is migrated: the old files into       *)
(* SQLite and SQLite into the encrypted database.                          *)
NothingLost == ItemsKept /\ RowsKept

(* A choice that is accepted decides the model of the next message, also   *)
(* when it is stored as no override at all (model_service.py, implicit     *)
(* reset): a slot's choice for its slot, a global one for every slot       *)
(* without a usable choice of its own.  The other slots keep their models. *)
ChosenIsUsed ==
    [][\A u \in SettingsUsers, k \in Keys, input \in Inputs :
         set_user_model(u, k, input) =>
           \A slot \in Slots :
             resolve_model(u, slot)' =
               IF slot = k \/ (k = Global /\ get_user_model(u, slot) = None)
               THEN resolve_alias[input] ELSE resolve_model(u, slot)]_settingsVars

(* A stream that is aborted is never a false positive by the guard's own   *)
(* measure (stream_guard.py): the abort threshold leaves the expected      *)
(* language too little for it, so no guard is ever disabled.               *)
GuardStaysOn ==
    \A c \in GuardChats : stats[c].fps = 0 /\ ~should_disable(stats[c])

(* Providers that answer, fail or lose their subprocess in any order: when *)
(* the debate is over none of its queries keeps a subprocess               *)
(* (debate_orchestrator.py, _cleanup_debate_subprocesses).                 *)
QueriesLeaveNothing ==
    debate.phase \in {"idle", "done"} =>
        \A p \in Providers : <<p, "query">> \notin subprocesses

(* Once they are weighed, every provider that was asked has answered or    *)
(* failed, and none both; an answer in the wrong language that was taken   *)
(* out counts as a failure (debate_orchestrator.py:949-954).               *)
Answered(p) == \E r \in debate.responses : r.from = p

QueriesAreSettled ==
    debate.phase \in {"reviewing", "done"} =>
        /\ debate.waiting = {}
        /\ \A p \in debate.queried : p \in debate.errors <=> ~Answered(p)
        /\ \A q, r \in debate.responses : q.from = r.from => q = r

(* Of the answers those in the right language stay, and only those; if     *)
(* there is none, the last one stays ("Last provider standing",            *)
(* debate_orchestrator.py:919-947), so nobody's question is left without   *)
(* an answer by the check of its language.                                 *)
AnAnswerStays ==
    [][debate.phase = "querying" /\ debate'.phase = "reviewing" =>
         LET fitting == {r \in debate.responses : r.fits}
         IN  IF fitting # {} \/ debate.responses = {}
             THEN debate'.responses = fitting
             ELSE \E r \in debate.responses : debate'.responses = {r}]_debateVars

(* "Positive signals increase hypothesis confidence", "Negative signals    *)
(* decrease hypothesis confidence" (evidence_ledger.py:45-58): although the *)
(* learning transition lifts every belief, and lifts one below its fixed   *)
(* point even after a contradiction, no sequence of signals, restarts and  *)
(* versions brings a belief to where a signal would move it the wrong way. *)
EvidenceMovesConfidence ==
    [][\A id \in Patterns, signal \in Signals :
         add_evidence(id, signal) =>
           IF signal.positive THEN beliefs'[id] >= beliefs[id]
           ELSE beliefs'[id] <= beliefs[id]]_lifeVars

(* "Ask Before Applying" (HC-SC-10) with new versions (HC-SC-12): whatever *)
(* the judge, old buttons and new wordings do in which order, the wording  *)
(* that is applied is one its user has agreed to, not an earlier version.  *)
ActiveWordingWasConfirmed ==
    \A h \in hyps : h.status \in {"confirmed", "active"} => approved[h.id] = h.version

-----------------------------------------------------------------------------
(* Claims of the source that the code does not keep                        *)

(* "Same logic as resolve() but NEVER writes to storage" (resolver.py:343, *)
(* of resolve_readonly): a message is answered in the language the         *)
(* read-only resolution gives for it.                                      *)
ReadonlyAgrees ==
    [][\A u \in Speakers, text \in Messages :
         Message(u, text) /\ spoken'[u] # spoken[u] =>
           spoken'[u] = resolve_readonly(detect(text), languages[u])]_languageVars

(* "(idempotent)" (sqlite_storage.py, migrate_jsonl_to_sqlite): what a     *)
(* user removed does not come back.                                        *)
RemovedStaysRemoved ==
    \A s \in Stores : \A i \in DOMAIN table[s] : <<s, table[s][i]>> \in wanted

(* "If anything fails, the original file is untouched"                     *)
(* (crypto_storage.py:389): between two migrations every stored row is in  *)
(* the database.                                                           *)
OriginalUntouched ==
    migration.step = "none" => committed \subseteq Stored("main")

(* "for all active overrides" (model_service.py:134, what the menu and     *)
(* /models show): a slot shows the model its next message uses.            *)
MenuShowsTheModel ==
    \A u \in SettingsUsers, slot \in Slots :
        resolve_model(u, slot) # None => ShownModel(u, slot) = resolve_model(u, slot)

(* "Toggle a debate provider on or off" (settings_service.py:221): the     *)
(* button turns the mark that is shown beside it.                          *)
ToggleTurnsTheMark ==
    [][\A u \in SettingsUsers, p \in DebateActive :
         toggle_debate_provider(u, p) =>
           (p \in DebateProviders(u)' <=> p \notin DebateProviders(u))]_settingsVars

(* "New version starts fresh with no evidence" (hypothesis_storage.py:700, *)
(* create_new_version).                                                    *)
NewVersionStartsFresh ==
    [][\A id \in Patterns, claim \in Claims :
         create_new_version(id, claim) => ledger'[id] = <<>>]_lifeVars

(* "active - auto-apply threshold reached, applied without asking"         *)
(* (pattern_judge.py:19).                                                  *)
AutoApplyOnlyAfterThresholds ==
    [][\A h \in hyps :
         h.status # "active" /\ (\E g \in hyps' : g.id = h.id /\ g.status = "active")
           => meets_auto_apply_threshold(h, get_summary(h.id))]_lifeVars
=============================================================================
