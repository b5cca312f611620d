----------------------------- MODULE ChatSession -----------------------------
(***************************************************************************)
(* How chat messages are served (handlers.py, chat_service.py).            *)
(*                                                                         *)
(* Telegram updates are handled one at a time.  A chat message becomes a   *)
(* background task, so that /stop and /reset can be handled while it       *)
(* streams; the task takes the user's lock, then one of the global         *)
(* permits, streams the answer into a placeholder message and saves it to  *)
(* the history.  Without a streaming provider the handler answers itself   *)
(* and keeps the update queue waiting (the legacy path).                   *)
(*                                                                         *)
(* Messages are numbered as they arrive.  asyncio.Lock is fair and tasks   *)
(* start in the order they were created, so the user's lock is held by the *)
(* oldest unfinished message of the user.  One action is the code between  *)
(* two suspensions of a task.                                              *)
(***************************************************************************)
EXTENDS ConversationStorage, FiniteSets

CONSTANTS
  Keys,          (* pairs of a user and a chat *)
  CommandKeys,   (* the keys on which commands are sent *)
  UserOf,        (* the user of a key *)
  Permits,       (* size of GLOBAL_CLAUDE_SEMAPHORE *)
  None

ASSUME CommandAssumption == CommandKeys \subseteq Keys
ASSUME PermitsAssumption == Permits \in Nat \ {0}
ASSUME NoneAssumption == None \notin Keys \cup Messages

VARIABLES
  key,           (* message -> the key it arrived on *)
  stage,         (* message -> where its task is *)
  final,         (* message -> its final_text: "none", "partial" or "whole" *)
  shown,         (* message -> what its Telegram message shows, until its *)
                 (* task ends *)
  context,       (* message -> the history its prompt was built from *)
  session,       (* _active_streaming_sessions: key -> message *)
  cancelled,     (* messages whose cancel_event is set *)
  guarded,       (* messages with task_meta["_guard_abort"] *)
  failed,        (* messages with had_error *)
  tasks,         (* _background_streaming_tasks: key -> message *)
  history,       (* _histories: key -> turns *)
  handler        (* the update being handled *)

stream == <<final, shown, cancelled, guarded, failed>>
vars == <<key, stage, stream, context, session, tasks, history, handler>>

Idle == [op |-> "idle", key |-> None, target |-> None]

Handling(op, k, m) == [op |-> op, key |-> k, target |-> m]

User(m) == UserOf[key[m]]

Inside == {m \in Messages : stage[m] \notin {"absent", "waiting", "done"}}

SetStage(m, s) == stage' = [stage EXCEPT ![m] = s]

Show(m, what) == shown' = [shown EXCEPT ![m] = what]

-----------------------------------------------------------------------------
(* Arrival                                                                 *)

Arrives(m, k) ==
  /\ handler = Idle
  /\ stage[m] = "absent"
  /\ \A n \in Messages : n < m => stage[n] # "absent"
  /\ key' = [key EXCEPT ![m] = k]
  /\ SetStage(m, "waiting")
  /\ UNCHANGED <<stream, context, session, history>>

(* handle_message, and reprocess_after_skill_confirmation: the task is     *)
(* created and registered, and the handler returns.                        *)
ReceiveStreaming(m, k) ==
  /\ Arrives(m, k)
  /\ tasks' = [tasks EXCEPT ![k] = m]
  /\ UNCHANGED handler

(* The provider cannot stream: the handler serves the message itself.      *)
ReceiveLegacy(m, k) ==
  /\ Arrives(m, k)
  /\ handler' = Handling("legacy", k, m)
  /\ UNCHANGED tasks

Legacy(m) == handler.op = "legacy" /\ handler.target = m

-----------------------------------------------------------------------------
(* A background task                                                       *)

(* The user's lock, then a permit: both are given back when the task ends. *)
HasPermit_WaitersCount(m) ==
  Cardinality({n \in Messages : stage[n] \notin {"absent", "done"}}) <= Permits
HasPermit(m) == Cardinality(Inside) < Permits

HoldsLock_Never(m) == TRUE
HoldsLock_UntilStreamEnds(m) ==
  \A n \in Messages : n < m /\ User(n) = User(m) =>
    stage[n] \in {"completing", "enforcing", "leaving", "done"}
HoldsLock(m) ==
  \A n \in Messages : n < m /\ User(n) = User(m) => stage[n] = "done"

Enter(m) ==
  /\ stage[m] = "waiting" /\ HoldsLock(m) /\ HasPermit(m)
  /\ IF Legacy(m)
     THEN SetStage(m, "asking")
          /\ context' = [context EXCEPT ![m] = history[key[m]]]
     ELSE SetStage(m, "opening") /\ UNCHANGED context
  /\ UNCHANGED <<key, stream, session, tasks, history, handler>>

(* The placeholder is sent: the session is registered and the prompt is    *)
(* built from the history, without a suspension in between.                *)
ContextTaken(m) == history[key[m]]

Open(m) ==
  /\ stage[m] = "opening"
  /\ SetStage(m, "streaming")
  /\ Show(m, "placeholder")
  /\ session' = [session EXCEPT ![key[m]] = m]
  /\ context' = [context EXCEPT ![m] = ContextTaken(m)]
  /\ UNCHANGED <<key, final, cancelled, guarded, failed, tasks, history,
                 handler>>

OpenFails(m) ==
  /\ stage[m] = "opening"
  /\ SetStage(m, "leaving")
  /\ Show(m, "error")
  /\ UNCHANGED <<key, final, cancelled, guarded, failed, context, session,
                 tasks, history, handler>>

Streaming(m) == stage[m] = "streaming" /\ m \notin cancelled

(* content_delta: the text so far is shown.                                *)
Token(m) ==
  /\ Streaming(m) /\ final[m] = "none"
  /\ final' = [final EXCEPT ![m] = "partial"]
  /\ Show(m, "partial")
  /\ UNCHANGED <<key, stage, cancelled, guarded, failed, context, session,
                 tasks, history, handler>>

Result(m) ==
  /\ Streaming(m) /\ final[m] # "whole"
  /\ final' = [final EXCEPT ![m] = "whole"]
  /\ Show(m, "answer")
  /\ UNCHANGED <<key, stage, cancelled, guarded, failed, context, session,
                 tasks, history, handler>>

(* An error event, or a RuntimeError of the provider.                      *)
ProviderFails(m) ==
  /\ stage[m] = "streaming"
  /\ SetStage(m, "closing")
  /\ failed' = failed \cup {m}
  /\ Show(m, "error")
  /\ UNCHANGED <<key, final, cancelled, guarded, context, session, tasks,
                 history, handler>>

(* The StreamGuard sees a drift in the next delta and sets the cancel      *)
(* event, whether or not the user has already done so.                     *)
GuardAborts(m) ==
  /\ stage[m] = "streaming" /\ final[m] # "whole"
  /\ SetStage(m, "closing")
  /\ guarded' = guarded \cup {m}
  /\ cancelled' = cancelled \cup {m}
  /\ UNCHANGED <<key, final, shown, failed, context, session, tasks, history,
                 handler>>

(* The stream is exhausted, or the loop sees the cancellation.             *)
StreamEnds(m) ==
  /\ stage[m] = "streaming"
  /\ SetStage(m, "closing")
  /\ UNCHANGED <<key, stream, context, session, tasks, history, handler>>

(* What is to be done once the stream is closed.                           *)
Verdict_StopIgnored(m) ==
  IF m \in guarded THEN "repair"
  ELSE IF m \in failed \/ final[m] = "none" THEN "discard"
  ELSE IF final[m] = "partial" THEN "complete" ELSE "save"
Verdict(m) ==
  IF m \in cancelled THEN IF m \in guarded THEN "repair" ELSE "discard"
  ELSE IF m \in failed \/ final[m] = "none" THEN "discard"
  ELSE IF final[m] = "partial" THEN "complete" ELSE "save"

(* Hard discard of a stopped stream, or nothing to save.                   *)
Discard(m) ==
  /\ stage[m] = "closing" /\ Verdict(m) = "discard"
  /\ SetStage(m, "leaving")
  /\ UNCHANGED <<key, stream, context, session, tasks, history, handler>>

(* After a guard abort the message is sent again, without streaming.       *)
Repair(m) ==
  /\ stage[m] = "closing" /\ Verdict(m) = "repair"
  /\ SetStage(m, "asking")
  /\ context' = [context EXCEPT ![m] = ContextTaken(m)]
  /\ UNCHANGED <<key, stream, session, tasks, history, handler>>

(* No result event: what has accumulated becomes the answer.               *)
Complete(m) ==
  /\ stage[m] = "closing" /\ Verdict(m) = "complete"
  /\ SetStage(m, "completing")
  /\ final' = [final EXCEPT ![m] = "whole"]
  /\ Show(m, "answer")
  /\ UNCHANGED <<key, cancelled, guarded, failed, context, session, tasks,
                 history, handler>>

Unsaved(m) ==
  \/ stage[m] = "closing" /\ Verdict(m) = "save"
  \/ stage[m] = "completing"

(* save_streaming_result: the language enforcement asks the provider for   *)
(* a repair.                                                               *)
Enforce(m) ==
  /\ Unsaved(m)
  /\ SetStage(m, "enforcing")
  /\ UNCHANGED <<key, stream, context, session, tasks, history, handler>>

AddToHistory_AnswerOnly(m) ==
  history' = [history EXCEPT ![key[m]] = SaveTurn(@, Turn(m, "assistant"))]
AddToHistory(m) == history' = [history EXCEPT ![key[m]] = SavePair(@, m)]

Save(m) ==
  /\ Unsaved(m) \/ stage[m] = "enforcing"
  /\ SetStage(m, "leaving")
  /\ AddToHistory(m)
  /\ UNCHANGED <<key, stream, context, session, tasks, handler>>

(* process_user_message, on the legacy path and in a repair.  It turns     *)
(* every exception into an unsuccessful result; the repair shows the       *)
(* result's response, which is then empty, and the legacy path its error.  *)
AfterAnswer_FallsThrough(m) == IF Legacy(m) THEN "leaving" ELSE "enforcing"
AfterAnswer(m) == "leaving"

Answered(m) ==
  /\ stage[m] = "asking"
  /\ SetStage(m, AfterAnswer(m))
  /\ AddToHistory(m)
  /\ Show(m, "answer")
  /\ UNCHANGED <<key, final, cancelled, guarded, failed, context, session,
                 tasks, handler>>

NotAnswered(m) ==
  /\ stage[m] = "asking"
  /\ SetStage(m, "leaving")
  /\ Show(m, IF Legacy(m) THEN "error" ELSE "placeholder")
  /\ UNCHANGED <<key, final, cancelled, guarded, failed, context, session,
                 tasks, history, handler>>

(* Any other exception: the user is told and nothing is saved.             *)
Raise(m) ==
  /\ stage[m] \in {"streaming", "completing", "enforcing"}
  /\ SetStage(m, "leaving")
  /\ Show(m, "error")
  /\ UNCHANGED <<key, final, cancelled, guarded, failed, context, session,
                 tasks, history, handler>>

(* The last edits are sent; the session, the permit, the lock and the task *)
(* entry of the key are given up, and with the task its locals go.         *)
Leave(m) ==
  /\ stage[m] = "leaving"
  /\ SetStage(m, "done")
  /\ final' = [final EXCEPT ![m] = "none"]
  /\ Show(m, "nothing")
  /\ context' = [context EXCEPT ![m] = <<>>]
  /\ cancelled' = cancelled \ {m}
  /\ guarded' = guarded \ {m}
  /\ failed' = failed \ {m}
  /\ session' = IF Legacy(m) THEN session
                ELSE [session EXCEPT ![key[m]] = None]
  /\ tasks' = IF Legacy(m) THEN tasks ELSE [tasks EXCEPT ![key[m]] = None]
  /\ handler' = IF Legacy(m) THEN Idle ELSE handler
  /\ UNCHANGED <<key, history>>

TaskStep(m) ==
  \/ Enter(m) \/ Open(m) \/ OpenFails(m)
  \/ Token(m) \/ Result(m) \/ ProviderFails(m) \/ GuardAborts(m)
  \/ StreamEnds(m) \/ Discard(m) \/ Repair(m) \/ Complete(m)
  \/ Enforce(m) \/ Save(m) \/ Answered(m) \/ NotAnswered(m)
  \/ Raise(m) \/ Leave(m)

-----------------------------------------------------------------------------
(* Commands                                                                *)

(* /stop with a stream: it is cancelled.  The handler then waits up to 2 s *)
(* and replies, without another effect.                                    *)
Stop(k) ==
  /\ handler = Idle /\ session[k] # None
  /\ cancelled' = cancelled \cup {session[k]}
  /\ UNCHANGED <<key, stage, final, shown, guarded, failed, context, session,
                 tasks, history, handler>>

Wipe(k) ==
  /\ history' = [history EXCEPT ![k] = <<>>]
  /\ handler' = Handling("reset_reply", k, None)

(* /reset waits for the active stream, if there is one.                    *)
Reset(k) ==
  /\ handler = Idle
  /\ IF session[k] = None
     THEN Wipe(k)
     ELSE handler' = Handling("reset_wait", k, session[k]) /\ UNCHANGED history
  /\ UNCHANGED <<key, stage, stream, context, session, tasks>>

ResetStreamGone ==
  /\ handler.op = "reset_wait" /\ session[handler.key] = None
  /\ Wipe(handler.key)
  /\ UNCHANGED <<key, stage, stream, context, session, tasks>>

(* 30 s have passed: the stream is cancelled and gets another second.      *)
ResetTimesOut ==
  /\ handler.op = "reset_wait"
  /\ cancelled' = IF stage[handler.target] = "done" THEN cancelled
                  ELSE cancelled \cup {handler.target}
  /\ handler' = [handler EXCEPT !.op = "reset_grace"]
  /\ UNCHANGED <<key, stage, final, shown, guarded, failed, context, session,
                 tasks, history>>

ResetForced ==
  /\ handler.op = "reset_grace"
  /\ Wipe(handler.key)
  /\ UNCHANGED <<key, stage, stream, context, session, tasks>>

(* The confirmation is sent and saved; if sending fails, it is not saved.  *)
ResetReplied ==
  /\ handler.op = "reset_reply"
  /\ handler' = Idle
  /\ \/ history' = [history EXCEPT
            ![handler.key] = SaveTurn(@, Turn(0, "assistant"))]
     \/ UNCHANGED history
  /\ UNCHANGED <<key, stage, stream, context, session, tasks>>

(* /start, /help, /lang: the reply is saved.                               *)
Announce(k) ==
  /\ handler = Idle
  /\ history' = [history EXCEPT ![k] = SaveTurn(@, Turn(0, "assistant"))]
  /\ UNCHANGED <<key, stage, stream, context, session, tasks, handler>>

(* /debate saves its question and synthesis, without the user's lock.      *)
Debate(k) ==
  /\ handler = Idle
  /\ history' = [history EXCEPT ![k] = SavePair(@, 0)]
  /\ UNCHANGED <<key, stage, stream, context, session, tasks, handler>>

HandlerStep ==
  ResetStreamGone \/ ResetTimesOut \/ ResetForced \/ ResetReplied

-----------------------------------------------------------------------------

Init ==
  /\ key = [m \in Messages |-> None]
  /\ stage = [m \in Messages |-> "absent"]
  /\ final = [m \in Messages |-> "none"]
  /\ shown = [m \in Messages |-> "nothing"]
  /\ context = [m \in Messages |-> <<>>]
  /\ session = [k \in Keys |-> None]
  /\ cancelled = {} /\ guarded = {} /\ failed = {}
  /\ tasks = [k \in Keys |-> None]
  /\ history = [k \in Keys |-> <<>>]
  /\ handler = Idle

Next ==
  \/ \E m \in Messages :
       \/ TaskStep(m)
       \/ \E k \in Keys : ReceiveStreaming(m, k) \/ ReceiveLegacy(m, k)
  \/ \E k \in CommandKeys : Stop(k) \/ Reset(k) \/ Announce(k) \/ Debate(k)
  \/ HandlerStep

Spec == Init /\ [][Next]_vars

(* The event loop runs every task; Telegram and the provider answer or     *)
(* time out; the waits of /reset are bounded.                              *)
FairSpec ==
  /\ Spec
  /\ \A m \in Messages : WF_vars(TaskStep(m))
  /\ WF_vars(HandlerStep)
=============================================================================
