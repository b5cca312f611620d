# TLA+ models of axolent

axolent is a Telegram bot that bridges chats to locally installed AI command
line tools.  It is one Python process around one asyncio event loop, a handful
of SQLite files and a pool of CLI subprocesses.  What can go wrong is therefore
seldom a data race between threads but a *suspension point* — a coroutine reads
some state, awaits, and acts on what it read — or a *death between two writes*,
or an outside partner (Telegram, a subprocess) that refuses, stalls or answers
late.  This directory models the parts of the program where that matters, checks
them with TLC and proves their central properties with TLAPS.

All paths below are relative to `src/bridge/` unless they start with `docs/`.

## 1. Inventory

### 1.1 What the program is made of

| Part | Where | State it keeps | Operations |
|---|---|---|---|
| Claude subprocess pool | `infrastructure/claude_process_pool.py`, `infrastructure/providers/claude_persistent.py` | registry key → subprocess, creation locks, keys in init, per-subprocess lock, ready and dirty flags, last use | `get_or_create`, `send_message`, `_evict_if_needed`, `_cleanup_expired`, `terminate_session`, `shutdown` |
| Rate limiter | `application/rate_limiter.py`, its tables in `infrastructure/sqlite_storage.py`, start-up in `main.py` | counters per user and window, profiles, both in memory and in tables, a legacy JSONL file | `check_and_consume`, rollback, `set_user_profile`, `get_usage`, eviction, restore, migration |
| Chat session | `presentation/handlers.py`, `application/chat_service.py` | active streaming sessions, background tasks, user locks, global permits, the handler's own wait | message, `/stop`, `/reset`, streaming task, guard abort and repair, save, legacy path |
| Conversation storage | `infrastructure/conversation_storage.py` | turns per user and chat, sticky languages | `save_turn`, `get_history`, `reset_conversation` |
| Answer delivery | `application/streaming_handler.py`, `presentation/handlers.py` | one session per answer: current part, closed parts, live message, flood-control pause, throttle | `process_streaming_edit`, rollover, `finalize_streaming`, split, retry, `abort_streaming` |
| Answering, provider routing and fallback | `application/chat_service.py`, `task_router.py`, `provider_router.py`, `fallback_resolver.py` | none of its own between calls | classify, `resolve` over a chain, complete, enforce the language, save; the streaming variant |
| Debate orchestrator | `application/debate_orchestrator.py` | per-debate answers and subprocesses | concurrent queries, exclusion, synthesis, final review, cleanup |
| Languages | `application/language/*`, `application/language_resolver.py`, `domain/language.py`, `presentation/onboarding_callbacks.py` | sticky languages, wizard rows, guard statistics | detect, resolve, `/lang`, wizard, guard a stream, verify, repair |
| Skill contracts | `application/skill_compression/skill_contract.py`, `contract_store.py`, `contract_validator.py`, `permission_gate.py` … | one row per contract, with version and checksum | install, save, load, check, gate |
| Learning flow | `learn_flow_service.py`, `draft_store.py`, `contract_builder.py` | drafts, pending edits, buttons on screens | `/learn`, preview, edit, save, cancel, expire |
| Skill selection and use | `skill_matcher.py`, `collision_detector.py`, `hypothesis_storage.py`, `presentation/skill_commands.py`, `handlers.py` | hypotheses with a status, questions that wait for an answer | match, ask, yes / no / never, `/skill`, `/forget`, `/installskill`, migrate |
| Conversation import | `application/skill_compression/conversation_import/`, `/import` | pending previews, sources, mappings | preview, confirm, import, undo |
| Pattern judge and its estimators | `pattern_judge.py`, `evidence_ledger.py`, `bkt.py`, `elo_rating.py`, `fsrs_decay.py`, `privacy/privacy_pipeline.py` | ledger, beliefs, ratings, reviews | observe, rate, judge, reword, forget |
| Settings and models | `application/settings_service.py`, `model_service.py`, their storages | overrides per slot, one settings row per user | menus, `/model`, `/resetmodel` |
| Bookmarks and memory | `bookmark_service.py`, `memory_service.py`, `memory_translation_service.py`, their storages, migration in `sqlite_storage.py` | a table or a JSONL file per store, a cache of translations | toggle, `/remember`, `/forget`, search, recall, `/memory`, migrate |
| Encrypted database | `infrastructure/crypto_storage.py` | the key, the files, a cached connection | connect, migrate a plain database |
| Proactive triggers | `application/proactive_trigger_service.py` | activity and counts in memory | record, evaluate |
| Execution kernel, text guard, security filters, prompts, rendering, i18n, audit | `application/execution/`, `domain/text_guard/`, `application/security/`, `prompt_composer.py`, `presentation/render.py`, `i18n/`, `infrastructure/audit_log.py` | none that is read back | pure functions over text and append-only output |

### 1.2 How the parts interact

```
 Telegram ──updates, one at a time──▶ presentation/handlers.py
                                        │  creates one background task per message
                                        ▼
        Rate limiter ◀─check── streaming task ──history──▶ Conversation storage
                                        │  holds: user lock, then global permit
                                        ▼
                               ChatService.process_user_message_streaming
                                        │  events (init, delta, result, error)
                                        ▼
                               persistent provider ──▶ Claude subprocess pool ──▶ CLI
                                        │
                                        ▼
                               streaming_handler ──edits, sends──▶ Telegram
```

The task asks, before the prompt is built: the language of the chat (sticky or
detected), the skill the message calls for, the memories that fit it, the model
chosen for its slot; and, after the answer, the guard of its language, the
proactive remark and the history.

* The update handler is not concurrent (`concurrent_updates` is not set), so two
  commands never interleave with each other; they interleave with the
  background tasks, which is what `/stop` and `/reset` are for.
* A task shares with the handlers: `_active_streaming_sessions`,
  `_background_streaming_tasks`, the session's `cancel_event`, the user's
  history.
* Two tasks share: the user's lock, the four permits, the pool.
* The pool shares with its callers only the answer; the pool's own tasks
  (cleanup loop, shutdown) share the registry and the subprocess locks.
* Telegram answers each call with success, "flood control, wait", or an error.

### 1.3 What is hard, and what makes each part correct

*Pool.*  Calls wait at five places while others act: for a creation lock, for a
victim's death, for the spawn, for init, for the subprocess's lock.  It is correct
if no live subprocess is ever outside the registry, if an idle clean subprocess
has no unread output, if every caller gets the answer to its own request or none,
if all locks come back and every call and a shutdown end.

*Rate limiter.*  A check runs without suspension, but saves three rows in three
transactions, and the bot may die or a write may fail between any two; windows
turn over between a check and its rollback.  It is correct if counters stay
within capacity, a denial costs nothing, a restart restores what was in force,
and no interval sees more than the fixed-window bound.

*Chat session.*  Tasks start in order but suspend everywhere; `/stop`, `/reset`
and the stream guard race with the end of the stream, with the save and with each
other.  It is correct if one task per user works at a time, in order of arrival;
if the active stream is the one commands find; if each answered message enters the
history once, in order, and was prompted with everything before it; if a stopped
stream leaves nothing; if every update ends.

*Delivery.*  The text grows while edits are refused; a message must be closed
and another begun in the middle; the final text may differ from the streamed one.
It is correct if parts and messages tile the text, no message outgrows the limit,
nothing is lost or doubled unless a call was given up, closed messages stay, and
delivery ends.

*Skills.*  A draft's buttons stay on the screen for ever, drafts and pending edits
expire and die with the process, and a skill is looked up when a message arrives
and again when its task runs; pausing, forgetting, installing, migrating and
importing come in between.  Correct: what is saved is what was shown above the
button; nothing the privacy pipeline rejects is kept; a message is answered once;
a skill used without asking is one its user agreed to; an import can be undone and
repeated; no editor overwrites a version it has not seen.

*Services.*  Menus outlive the choices they show; stores come in two kinds and the
bot migrates between them, with a crash at any step; a guard may abort a healthy
stream; a debate's queries end in any order; a learned pattern's belief is moved by
signals, time, restarts and new wordings.  Correct: an accepted choice decides the
next message; nothing saved is lost; the guard does not disable itself; a debate
leaves no query's subprocess behind; evidence moves a belief in its own direction;
a wording that is applied was agreed to.

## 2. Modules

| Module | Role |
|---|---|
| `ProcessPool` | the pool: calls, locks, kills, eviction, cleanup task, `terminate_session`, shutdown, crashes of subprocesses |
| `AnswerService` | abstract: what the pool promises its callers |
| `ProcessPoolProps` | its properties, the inductive invariant, and claims the code does not keep |
| `RateLimiter` | the limiter with its tables, crashes, failing writes, restart and migration |
| `RateLimiterProps` | its state properties and claims |
| `RateLimiterHistory` | the limiter plus an observer: requests served per tick, warnings given, rows a failed save left out |
| `ConversationStorage` | the turns of a conversation and `save_turn` |
| `ConversationLog` | abstract: what a user may rely on about a conversation |
| `ChatSession` | background tasks, locks, permits, commands, repair, save; the legacy path |
| `ChatSessionProps`, `ChatSessionClaims` | properties and invariant; claims not kept |
| `StreamDelivery` | the delivery of one answer |
| `StreamDeliveryProps` | its properties; claims not kept |
| `SkillContract` | values: derived metadata, risk, validation, reading a file's contract, permission gate, capability broker, checksum; from a text to a contract, with the safety gate all entrances share |
| `ContractStore` | the table of contracts |
| `LearnFlow` | `/learn` with drafts, previews, edits, expiry, restart |
| `HypothesisStore`, `SkillMatcher` | the older kind of skill; which skill a message calls for |
| `SkillUse` | asking before use, the three answers, background tasks, `/skill`, `/forget`, `/installskill`, migration |
| `ConversationImport` | `/import`, its transaction and its undo |
| `ContractEdits` | editors of one contract under the optimistic lock |
| `SkillProps`, `MCSkills` | properties, claims and the parts side by side; the instance |
| `LanguageDetection`, `UserLanguage` | detectors and their weighing; a chat's language and the wizard |
| `LanguageGuard` | the guard of a running stream, verification, repair |
| `UserSettings`, `Answering`, `ProactiveTriggers` | choices; an answer over a chain of providers or streamed; unasked remarks |
| `Debate` | `/debate` |
| `SavedItems`, `MemoryRecall` | bookmarks and memories in both storages, migration; recall, contradictions, translations |
| `PatternConfidence`, `PatternLifecycle` | estimators; ledger, judge, versions, privacy pipeline |
| `EncryptedDatabase` | key, connection, migration of a plain database |
| `ServicesProps`, `MCServices` | properties and claims; the instance |
| `MC…` | instances for TLC: which calls share a key, which windows, which users own which chats |
| `…_proofs` | theorems and their proofs |

### 2.1 `ProcessPool`

One action is the code between two awaits that really suspend.  Every body under
`_pool_lock` is free of awaits, so that lock is never contended and needs no
variable; the creation lock and the subprocess lock are variables.  A call goes
`new → want_creation → (killing_old | evicting) → spawning → init → want_lock →
streaming → done`, or `failed` from anywhere; `breaking` is the kill after a
broken pipe.  A subprocess is `unborn → alive → dying → dead`; `pipe[p]` holds
the requests written to it whose final event nobody has read.  The dirty flag is
a variable because its meaning — "there may be unread output" — is the point.
`Crash` is the CLI's own death, `Cancelled` the cancellation of a caller at any
await, `InitConflict` two readers of one stream (asyncio raises).

### 2.2 `RateLimiter`

A handler runs to its end without suspending, so a check is one action that
computes the new counters and queues the rows to be saved in `writes`; `SaveRow`
writes them one by one, `SaveFails` loses one and ends the save, `Crash` may come
between any two.  `serving` and `reply` remember the request that is waiting for
the save.  Time is `now`, one clock for `time.monotonic()` and `time.time()`.

### 2.3 `ChatSession`

Messages are numbered as they arrive.  `asyncio.Lock` is fair and tasks start in
creation order, so "who holds the user's lock" is a definition, `HoldsLock` (the
oldest unfinished message), not a variable; likewise the permit count.
`stage[m]` is the task's place: `waiting` for lock and permit, `opening` the
placeholder, `streaming`, `closing` the generator, `completing` without a result,
`enforcing` the language contract before the save, `asking` the repair or the
legacy answer, `leaving` its `finally`.  `Verdict` is the decision after the
stream: discard, repair, complete or save.  The handler is one record: which
command is being handled and what it waits for.  `context[m]` is the history
the prompt was built from, taken when the stream begins (handlers.py:1034) and long
before the save.

### 2.4 `StreamDelivery`

A text is measured in units; a content is a piece `[text, from, to]` of the raw,
fixed, repaired or checked text.  Markup, part markers and whitespace trimmed at
a cut are left out; where a cut is possible depends on the words, so every cut
the search bounds allow is a choice.  `phase` is what the handler waits for.
`previous`, `current`, `offset`, `live`, `lastEdit`, `paused` are the session's
fields; `messages` is what Telegram shows.  `resent` and `givenUp` record which
message was replaced by a fallback message and which contents' last call failed;
they only serve the properties.  The throttle's value is a choice (an edit may
always be left out).  `STREAMING_MODE = "telegram"`, the default, is modelled;
the local mode ignores the pause.

### 2.5 Skills

`contracts` (a set of rows) and `hyps` are the two tables; their calls have no
await, so they are operators conjoined with the changes of whoever calls.  A text
is what the patterns extract from it; what the privacy pipeline rejects is a set of
texts.  `LearnFlow` keeps `drafts`, `active`, `owners` and `pending` as the code's
four maps, and `screen`, the buttons ever shown; the etag is the number of edits.
`SkillUse` gives a message two lookups: `handle_message` (asks or queues) and the
task in `queue` that matches again; `asks` are the open questions, `buttons` the
keyboards of `/skill`.  `Start(m)` counts in `started`, which only the properties read.
A contract file is a contract with one field missing, emptied or of the wrong
type, since the reader treats every field by itself; what it then admits, defaults
or refuses is `from_dict`.  Matching returns the *set* of possible results: rows of
equal rank come in any order.  `LearnFlow`, `SkillUse` with `ConversationImport`,
and `ContractEdits` share no step, so `SkillsSpec` (in `SkillProps`) chooses one of
them at the start (`part`) and their state spaces add up instead of multiplying.

### 2.6 Services

* *Languages.*  Confidences are whole percents, a message is what the detectors
  read of it.  `UserLanguage` has one action per message, button and command;
  storage failures are a choice.  `LanguageGuard` follows streams one partial text
  at a time: the guard decides once, at the first partial long enough.
* *Settings and answers.*  `overrides` are the raw rows, also those of an earlier
  registry; `resolve_model` and `ShownModel` are the two readers.  An answer is one
  action — its handler owns the loop's attention between the choice of a model and
  the saved turn, and what the model reads is not changed by others — with the
  outcome of every provider chosen.
* *Debate.*  Queries end in any order, fail or are late; `subprocesses` are the
  pooled ones a debate's chats hold.  Providers and responses are sets: the router's
  or the configured order (`Order`, `Earlier`) decides which of a group is asked and
  which of several responses in the wrong language stays.
* *Saved items.*  `table[s]` and `file[s]` per store; a start imports store after
  store, each in three steps (import, rename, clear), with a crash between any two.
  `wanted` is what was saved and not removed.  `MemoryRecall` reads them.
* *Patterns.*  Probabilities are ten-thousandths; where the code takes a power or an
  exponential the result is any value within the bounds the code enforces.  Nothing
  in production calls judge, ledger or estimators; they are composed as the judge's
  docstring and `test_full_pipeline.py` compose them.
* *Encrypted database.*  A file is its key, whether it has tables, and its rows;
  the migration is one action per step with `Crash` between any two, and libraries
  may be installed or removed between starts.

`MCServices` chooses a `part` in the same way; the theorem about its type invariant
is about all services beside each other.

## 3. Abstract specifications

* `AnswerService` — every request is sent at most once and ends answered or
  failed; an answer handed out was produced for a request of the caller's own
  routing key, is handed out once, and belongs to the caller or to a request that
  has already ended.  `ProcessPool` implements it (`ServiceSpec`, refinement
  mapping `Service` in `ProcessPoolProps`): checked.  It is deliberately weaker
  than "own answer": `PoolStaleAnswer` shows why.
* `ConversationLog` — messages are taken up in order of arrival, an answered one
  adds question and answer as one piece, once; resets clear; the bot's own notes
  may come at any time.  `ChatSession` implements it (`ConversationSpec`):
  checked, and proved for every value of the constants.

## 4. Runs

Twelve runs; `tlc -config X.cfg M` reproduces each.

| Run | Question | Instance and why it is enough |
|---|---|---|
| `PoolSafety` | no process lost, pipes clean, nothing left held, pool implements the service | 3 calls, two on one key, one on another; 3 subprocesses; room for 1: so a creation race, an eviction of a used key and of one in init, a kill and a respawn all occur; cleanup at any time |
| `PoolLiveness` | every call ends, a shutdown completes | 2 calls on one key, `terminate_session`, cleanup and shutdown |
| `PoolStaleAnswer` | *violated*: is the answer the caller's own? | 3 calls on one key: one leaves the stream dirty while another already waits for the lock |
| `RateLimits` | counters, restart, denial | one user, a limited and the unlimited profile, windows 1/1/3, crash and failing write at every row |
| `RateQuota` | at most twice the capacity in any interval of one window | windows 1/2/5 with the eviction time of one hour's window; the clock passes every boundary |
| `RateDayQuota` | *violated*: the same for the day | a day longer than the eviction time |
| `ChatSession` | order, discard, refinement, liveness | 3 messages, 2 users, 1 permit they compete for, history of 3 turns, all commands on one chat |
| `ChatStreams` | sessions, exclusion, prompts, refinement | 3 messages, 2 users, 2 chats of one of them, 2 permits, history of 2 turns: streams of the two users run side by side, and only the user's lock keeps messages of one user apart |
| `ChatReset` | *violated*: is a reset final? | 2 messages on one chat |
| `StreamDelivery` | tiling, limits, delivery, closed parts, termination | answer of 4 units, threshold 2, part limit 2, message limit 3, 1 retry: two rollovers, a part that outgrows a message without a safe cut, a split, exhausted retries and the fallback message, replaced texts shorter and longer |
| `Skills` | is what is saved what was shown; nothing unsafe, nothing answered twice, nothing used without a yes; imports and edits | one user; two drafts, one edit each, lifetimes of 2 and 1 ticks; two messages, a contract, two hypotheses of which one is in use, an upload with a field missing, emptied or malformed; two imports of one folder with two patterns; two editors, four versions, two rows |
| `Services` | choices decide, nothing is lost, the guard stays on, debates clean up, evidence has its direction, applied wordings were agreed to | two registered languages and one that is not; two guarded chats with one statistics entry; two slots, overrides of old registries; chains with an unregistered provider; three requests on five dates; two debates with three providers, two of one group; four stores with old files of every kind; two wordings, two versions, three records and reviews; two rows, one key |

Bounds: `MaxNow` bounds the clocks (guard of `Tick`), `MessageCount` the arrivals,
`Calls`/`Procs` the requests and spawns, `AnswerLength` the units.  All other state
is finite by itself, apart from the `Max…` constants of the instances, each of which
bounds the guard of one action.  `CHECK_DEADLOCK FALSE` where all messages, calls or the one
answer can be finished and the system rests.  The windows of the rate limiter
keep the order 60 s < 1 h = eviction time < 24 h, which is what its behaviour
depends on.  Symmetry is used for subprocess identities in a safety run only.

Larger instances were used while the models were written, among them
`StreamDelivery` with an answer of five units; they found nothing more.

### 4.1 What the violated runs show

1. `PoolStaleAnswer` — a call that is already waiting for a subprocess's lock when
   the previous stream leaves it dirty still uses it: the dirty flag is only read
   in `get_or_create`, before the wait, and the caller is handed the rest of the
   previous answer.
2. `RateDayQuota` — counters idle for an hour are evicted, and with them the day's
   count: the daily quota starts anew for a user who pauses.
3. `ChatReset` — `/reset` waits only for a registered session.  A task that waits for
   the user's lock or a permit, or is sending its placeholder, is not seen, and its
   turns appear in the cleared history.
### 4.2 Claims the code does not keep, without a run

They are stated beside the others, in the `Props` and `Claims` modules; added
to a configuration as INVARIANT or PROPERTY, TLC shows the counterexample.

| Definition | Claim | What happens |
|---|---|---|
| `InitIsProtected` | keys in init are excluded from eviction | the second of two calls in one init removes the protection of both |
| `PoolSizeBound` | at most one more than the maximum | several keys may be created at once |
| `CleanupSparesStreams` | the cleanup never kills an active stream | the lock is read before a kill of another key is awaited |
| `ShutdownLeavesNone` | all subprocesses are terminated | a spawn that suspends across the shutdown's snapshot survives it |
| `SwitchKeepsUsage` | a profile switch keeps the usage | a user who passes through the unlimited profile, whose capacity is 0, comes back with fresh counters |
| `WarnedOncePerWindow` | one warning per window | holds in `UndisturbedSpec`; a restart forgets the warning flags |
| `MigrationIsComplete` | one-time, idempotent migration | one that was interrupted half-way is taken for finished by the next start |
| `StoredProfileInForce` | the stored profile is in force | the limiter reads the table before the migration fills it |
| `SettingsOverride` | the choice in the settings menu overrides the profile | it is stored in a column nobody reads |
| `FailureIsTold` | a language correction that fails is told to the user | the repair call reports failure in its result, not by an exception; the handler shows the empty response without looking |
| `TasksAreHeld` | the registry holds every unfinished task | a second message of a key overwrites the first |
| `LastPartOnly` | only the last part is finalized | a cut at the very end leaves an empty last part, and everything is sent again |
| `HistoryIsWhole` | the whole answer is saved (`_full_accumulated_text`, streaming_handler.py:139) | without a result event the handler takes the text of the current part only (handlers.py:1221) |
| `CheckedIsShown` | the checked text replaces the shown one (handlers.py:1247) | only the live message is edited; earlier messages keep the rejected text |
| `AlwaysAsked` | a confirmed skill is always asked about (skill_matcher.py:120) | the task looks it up a second time and does not ask |
| `NeverIsFinal` | "It will not be suggested again" (en.json:1638) | "never" pauses the hypothesis; a contract with the same phrase is still matched |
| `ReadonlyAgrees` | "same logic as resolve()" (resolver.py:343) | the resolver stores the default but answers in the detection's own code (line 274) |
| `RemovedStaysRemoved` | "(idempotent)" (sqlite_storage.py:1252) | a crash between import and rename, then the removal of every row: the next start imports the file again |
| `OriginalUntouched` | "the original file is untouched" (crypto_storage.py:389) | between the two renamings there is no database; the next start creates an empty one, and a later attempt overwrites the backup |
| `MenuShowsTheModel` | the menu shows all active overrides (model_service.py:134) | it shows raw rows; requests discard the unusable ones |
| `ToggleTurnsTheMark` | toggles a debate provider (settings_service.py:221) | the toggle acts on the stored empty list, not on the default that is shown |
| `NewVersionStartsFresh` | "starts fresh with no evidence" (hypothesis_storage.py:700) | the ledger is keyed by the identifier and never cleared |
| `AutoApplyOnlyAfterThresholds` | "auto-apply threshold reached" (pattern_judge.py:19) | one "yes" makes a confirmed hypothesis active |
| `ResponseIsSeen` | the user must see the finished response | a rollover whose closing edit is refused truncates the old message for good |

### 4.3 Other observations

Met while the modules were written and visible in their definitions; none is a
property of a run.

* *Skills.*  Tombstones are written and never read, so a forgotten pattern comes back
  with the next import.  `/forget` and pausing do not reach the contract a
  hypothesis was migrated to; contracts without a hypothesis cannot be listed,
  paused or forgotten, and do not count towards the limit of 50.  An installed file
  keeps its own status, so one that says "active" is used without a question.  A
  "yes" for such a contract updates no row, so it asks each time.  A late "yes" or an old
  button leads out of "retired".  The branch of `learn_flow_service.py:814-823` that refreshes a
  stale preview cannot be reached.  An old pending edit takes the next chat
  message; cancelling an old draft clears the newer one's pending edit.  A second
  preview of `/import` makes the first one's button import the newer folder.
  Optimistic versions do not survive deletion and reinstallation.
* *Patterns.*  The judge recommends transitions the checked matrix forbids, and a
  status the table does not allow.  A restart loses ledger, beliefs and reviews while
  statuses persist.  "180+ days unused" in fact depends on the stability.
  `create_new_version` revives retired rows.
* *Languages and answers.*  A false positive of the guard needs at least 30 % of the
  expected language, and an abort leaves at most 15 %: the self-calibration cannot
  trigger.  An unregistered name in a chain raises and ends the chain.  An empty text
  brings no fallback.  Messages are normalised and keywords are not, so several
  keywords of the task router never match.  A first detection may store an
  unregistered code.
* *Settings, debates, triggers.*  `/resetmodel` removes the global choice only.
  `debate_providers`, `language` and `rate_limit_profile` of the settings row are not
  read.  The judge's subprocess outlives a debate.  Repair of a debate's answer runs
  in the user's own chat and its result is dropped.  Proactive counts live in memory, so a
  restart allows a second remark on one day; a counted remark is lost when its
  request fails.
* *Memory and storage.*  Originals of a failed translation batch are cached as if
  translated.  Entries saved while the bot ran without SQLite stay in their file when the
  table is not empty.  A filled `.enc.tmp` makes the next migration fail once.

## 5. Fairness

* *Pool* — weak fairness of each call's steps, of kills, of a death that has been
  ordered and of the shutdown's snapshot: every await has a deadline (init, 120 s
  read timeout, SIGKILL after 3 s) and asyncio's locks are FIFO.  Nothing is
  assumed of cancellation, crashes, the clock or the cleanup's start.
* *Chat* — weak fairness of each task and of the handler's own steps: the event loop
  runs what is ready, Telegram and the provider answer or time out, and both waits
  of `/reset` are bounded.  Nothing is assumed of users.
* *Delivery* — weak fairness of the task as a whole.  `asyncio.sleep(retry_after)`
  ends.  Which answer Telegram gives is never assumed: delivery ends under
  any sequence of refusals, because retries are counted.
* *Rate limiter* — none; its properties are safety properties.  *Skills and services* — none either:
  users decide when to answer, and no property says that something must happen.

## 6. Proofs

Assumptions are the named ASSUMEs of the modules (types of the constants, `None`
outside the sets it is the absence of, capacity 0 for the unlimited profile, the
order of the limits) and are evaluated by TLC in every run.  Those of the services
say what is read of a text (`LanguagesAssumption`, `MessagesAssumption`: counts are
numbers, what a detector names is a language), that the family of every model has
its profile and the fall-back has one (`ProfilesAssumption`), that the files found at
the first start hold lines of their store, each sound one once (`ItemsAssumption`,
`RecallAssumption`), what a default row holds (`DefaultsAssumption`) and that limits
and dates are numbers (`BoundsAssumption`, `TriggersAssumption`, `DatesAssumption`,
`EstimatesAssumption`).  `DebateAssumption` also says that neither the router nor
`DEBATE_PROVIDERS` names a provider twice: the first is a dictionary, the second a setting
that would have such a provider asked twice, which the sets of `Debate` leave out.

| Theorem | Statement | Argument |
|---|---|---|
| `ProcessPool_proofs!NoProcessIsLost`, `IdlePipesAreClean`, `CleanStreams`, `TypeCorrect` | `NoLostProcess`, `CleanPipe`, `CleanStreamReadsOwnAnswer`, `TypeOK` | `PoolInv`: who creates holds the key's creation lock (`CreationHeld`) and meanwhile the slot is empty (`SlotReserved`), so a registration never overwrites; who streams holds the subprocess's lock (`StreamHoldsLock`), so what a clean subprocess owes is at most the reader's own answer (`OwnAnswerPending`) |
| `ProcessPool_proofs!NothingStaysHeld` | `NothingLeftHeld` | `PoolInv` for the locks; `InitProtects`: a protected key is that of a call in its init phase |
| `ProcessPool_proofs!PoolImplementsService` | `Spec => ServiceSpec`, the refinement of `AnswerService` | `ServiceInv`: a call's subprocess has its key (`OwnKey`), an unread answer waits in one place and was handed to nobody (`AnswersUnread`), a result's request has ended (`ResultsGiven`); with the reader's lock from `PoolInv`, the oldest answer is the reader's own or that of an ended call.  Each step is then a `Send`, `Deliver`, `Fail` or a stutter |
| `ProcessPool_proofs!NoVainWait`, `CallsNeverGoBack`, `SweepsShrink` | `NobodyWaitsInVain`, `CallsAdvance`, `SweepsAdvance` | `PoolInv` for the locks, whose holders wait for processes only; `VictimsEnd`: what is killed was registered, hence alive or dead (`RegistrySound`), and what is dying only dies.  A call's place has a number every step raises; a sweep's keys only get fewer |
| `RateLimiter_proofs!CountersAreSound`, `DenialIsFree`, `TypeCorrect` | `CountersSound` (`WithinCapacity` and `BucketsFollowProfile`), `DeniedConsumesNothing`, `TypeOK` | `RateInv`; capacity must be stated of memory, of rows waiting to be written and of rows on disk together, since each is made from another |
| `RateLimiter_proofs!RestartsAreFaithful` | `RestartIsFaithful`, of `HSpec` | `RestartInv`: for every user whose save has not failed, the counters in memory, the rows still to be saved and the tables agree.  Two hypotheses: `PositiveCaps`, and `PlainLegacy`, which leaves out the migration that fills the tables after the limiter has read them |
| `RateLimiter_proofs!QuotaIsKept` | `QuotaKept`, of `QuotaSpec` | `QuotaInv`: every count — in memory, in a row still to be saved, in a table — covers what was served since some moment, and what the window before that moment saw was within the capacity; a count that is evicted or lost by a crash is older than the window.  Hypothesis `OneProfile`, which the run satisfies: a switch to a smaller profile and back loses counts |
| `ChatSession_proofs!ActiveStreams`, `HistoryOrder`, `MutualExclusion`, `AnswersBuild`, `StopDiscards`, `TypeCorrect` | the properties of the two runs | `ChatInv`: messages arrive in order and work in order (`TakenInOrder`), only finished ones have turns (`TurnsAreClosed`), and the prompt of a task at work covers the history (`ContextCovers`), because nobody else of the user may save meanwhile |
| `ChatSession_proofs!Conversation` | `Spec => ConversationSpec` | initial states map to initial states, each action to a step of the log or to a stutter |
| `ChatSession_proofs!NoDeadlock`, `TasksNeverGoBack` | `NobodyIsStuck`, `TasksAdvance` | the oldest unfinished message of a user holds the user's lock (`OldestHoldsLock`, a least counterexample), has arrived (`ArrivedInOrder`), and finds a permit if nobody works.  A task's stage and how much of its final text there is make a number every step raises |
| `StreamDelivery_proofs!PartsCover`, `MessagesFit`, `ClosedPartsStay`, `TypeCorrect` | `PartsCoverText`, `WithinLimit`, `EarlierPartsStay`, `TypeOK` | `IInv` adds `Shape`: what each phase says of the pending piece (it is a cut of the current part, or fits into a message) and how many messages there are for the closed parts |
| `StreamDelivery_proofs!AnswersAreDelivered` | `Delivered` | `Delivery`: while the last part goes out, what has been seen and the piece in hand tile the text up to the end of that piece; `ShownIsSeen` discounts a message that was sent again after its edit was given up |
| `StreamDelivery_proofs!DeliveryAdvances` | `EveryStepDelivers` | what is left is a triple, ordered lexicographically: rounds to go, text of the round not yet delivered, calls that may still be repeated.  `IInv` keeps its parts natural numbers; a split shrinks the piece in hand (`SplitsShrink`) |
| `Skills_proofs!DraftsStayConsistent`, `NothingUnsafeIsKept` | `DraftsConsistent`, `NothingUnsafe`, of `LearnSpec` | `LearnInv`: an identifier is never given out twice, so a button of an old draft cannot meet a new one; lemmas on what creating, expiring, deleting and persisting do to the four maps |
| `Skills_proofs!SavedAsItWasShown` | `SavedAsShown`, of `LearnSpec` | `ShownInv`: a preview shows an earlier stage of its draft, and the present one if the etags agree; an edit moves the draft past all previews but its own |
| `Skills_proofs!MessagesAreAnsweredOnce`, `ActiveSkillsAreApproved`, `ImportsStayConsistent` | `AnsweredAtMostOnce`, `ActiveMeansApproved`, `ImportsConsistent`, of `SkillSpec` | `AskInv`: a message with an open question has not been handed on; `HypInv`: the two properties with the shape of rows, the import's links and its sources, which an undo takes apart again |
| `Skills_proofs!NothingIsOverwrittenUnseen` | `NothingOverwrittenUnseen`, of `EditSpec` | `EditInv`: what an editor holds is never ahead of the stored row, and equal versions mean equal contents; so a save whose version matches replaces what its editor has read |
| `Skills_proofs!SkillsTypeCorrect` | `TypeOK`, of `SkillsSpec` | each part keeps the types of what it writes and leaves the rest alone; `StoreConsistent` (no two rows share an identifier, a name of one owner or a hypothesis, and a row whose checksum fits is valid) must hold of the table whichever part writes to it |
| `Services_proofs!NoGuardIsDisabled` | `GuardStaysOn`, of `GuardSpec` | no statistics hold a false positive: a language with 85 % of a text leaves the expected one less than the 30 % that would count as one (`AbortsAreNoFalsePositives`) |
| `Services_proofs!ChoicesAreUsed` | `ChosenIsUsed`, of `SettingsSpec` | the type of the rows suffices; cases of the implicit reset and of the key that is asked for |
| `Services_proofs!DebatesLeaveNothing` | `QueriesLeaveNothing`, of `DebateSpec` | `DebateInv`: a query's subprocess belongs to a provider asked by the debate under way |
| `Services_proofs!OneVoicePerGroup` | what `select_providers` returns | providers have positions in the order (`Positions`), so any set of them has a first and a last one (`OrderHasEnds`) |
| `Services_proofs!NobodyIsForgotten`, `LanguageSparesAnAnswer` | `QueriesAreSettled`, `AnAnswerStays`, of `DebateSpec` | `DebateSettled`: a provider that was asked is waited for, has failed or has answered once, and only one of them; if no answer fits, the one that stays is that of the last provider in the order (`OrderHasEnds`) |
| `Services_proofs!RowsAreKept` | `RowsKept`, the database half of `NothingLost`, of `DatabaseSpec` | `DatabaseInv`: nothing is open during a migration, so until the swap the dump is all the database holds (`Copied`), and what is moved aside has been copied |
| `Services_proofs!NothingIsLost`, `ItemsTypeCorrect` | `NothingLost`, of `ItemsSpec` and `DatabaseSpec`; `ItemsTypeOK` | `ItemsInv`: a file is renamed only when every sound line of it is in the table (`TakenOver`), and an item is in a table or file once (`KeptOnce`, part of the type invariant), so that removing it removes what was wanted; `OnlyKeeps` says which lines the filter of a list leaves |
| `Services_proofs!ServicesTypeCorrect` | `TypeOK`, of the eight specifications together | part by part: counts of the guard are covered by the streams started (`GuardCounts`), a remark is made while the day's count is below the limit (`ActivityTyped`), only what is missing in the cache is translated (`TranslatingKeeps`), a log is cut when it is written (`AuditingKeeps`, `ReviewKeeps`).  Choices of a best element rest on `GreatestExists`, sequences that are filtered on `RemovingKeeps` |
| `Services_proofs!WordingsInUseWereConfirmed` | `ActiveWordingWasConfirmed`, of `LifeSpec` | `LifeInv` adds that identifiers are unique; the judge puts nothing into use that was not (`JudgePutsNothingIntoUse`) |
| `Services_proofs!SignalsAreHeeded` | `EvidenceMovesConfidence`, of `LifeSpec` | `BeliefInv`: no history of signals leads below 1142 of 10000, and from there on a contradiction weighs more than the learning transition (two quadratic inequalities over the quotients of Bayes' theorem); below it the property would be false, so the invariant is needed |

`MutualExclusion` includes a bound on a cardinality and rests on the
library's theorems about finite sets.

### 6.1 Only model-checked

Liveness (`CallsEnd`, `ShutdownEnds`, `UpdatesEnd`, `DeliveryEnds`) and everything
that needs ENABLED is out of the prover's reach and stays with TLC.  Their safety halves are theorems
all the same: nobody waits in a circle or for a death that does not come (`NoDeadlock`,
`NoVainWait`), and every step is progress nobody undoes (`TasksNeverGoBack`,
`CallsNeverGoBack`, `SweepsShrink`, `DeliveryAdvances`).  What is left to TLC is that a
step that can be taken is taken.  No run checks these six properties, nor those of
`NobodyIsForgotten` and `LanguageSparesAnAnswer`: what they say of the code is proved,
and they hold on the instances of the runs as well.

Every other property of a passing run is a theorem.  Induction over data is out of reach too,
since the library's induction theorems take an operator; where a proof needs what a
fold or a recursive function computes (the filter of a sequence, the greatest element
of a set), it argues by a least counterexample (`LeastExists`).

The theorems of `Skills_proofs` and `Services_proofs` are about the parts one by one
(`LearnSpec`, `SkillSpec`, `EditSpec`, `GuardSpec`, `DatabaseSpec`, ...), each of which
is a part of its run, apart from the two type invariants, which are about all parts.

## 7. Properties and the code they guard

Each property's comment names the lines it is about.  Every property of a passing
run has a mutant: a definition of the module, written the way a plausible mistake
would look (`_OffByOne`, `_Never`, `_UntilStreamEnds`, …), with which the property
fails in its own run.  The mutated forms stand beside the definition they replace
and are used nowhere else.

## 8. What is not modelled

Within the modelled parts: prompts (abstracted to the history, the skill and the
memories they are built from), the throttle's numbers, the hour-long lifetime of
user locks, the JSONL-only mode of the rate limiter, the wording of messages, the
expansion of markdown to HTML, statistics and counters no decision reads, search and
paging of bookmarks, metrics of providers.

Parts that stay outside, and why:

| Part | Reason |
|---|---|
| Text guard, security filters, privacy rules, secret scanning | patterns over text; their verdict is a choice or an oracle where a module asks for it |
| Text statistics, explanations, similarity | floating-point measures of texts; `SkillMatcher` takes which texts are similar as a relation |
| Importers of conversations, safe JSON, encoding | parsers; an import takes the patterns a folder yields as a set |
| Execution kernel, prompts, personality, style, language registry, model registry, domain data | pure values and tables |
| i18n, rendering, audit, status, logging | output nobody reads back |
| Providers other than the pool | one request and one answer; their outcomes are choices |
| Memory consolidator | nothing in the program calls it |
| Start-up and scripts | wiring; the parts with an order that matters (migration before limiter, shutdown of the pool) are in their modules |

What would be worth adding: a composition of `SkillUse` with `ChatSession`, so that
the second lookup of a skill meets locks and `/stop`; an abstract specification of the
saved items over a change of storage.
