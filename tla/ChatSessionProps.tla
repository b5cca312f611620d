--------------------------- MODULE ChatSessionProps ---------------------------
(***************************************************************************)
(* What must hold of the chat session.                                     *)
(***************************************************************************)
EXTENDS ChatSession

Stages ==
  {"absent", "waiting", "opening", "streaming", "closing", "completing",
   "enforcing", "asking", "leaving", "done"}

HandlerOps ==
  {"idle", "legacy", "reset_wait", "reset_grace", "reset_reply"}

(* Every variable has its type; no history is longer than the limit        *)
(* (conversation_storage.py:61-63).                                        *)
TypeOK ==
  /\ key \in [Messages -> Keys \cup {None}]
  /\ stage \in [Messages -> Stages]
  /\ final \in [Messages -> {"none", "partial", "whole"}]
  /\ shown \in [Messages ->
                  {"nothing", "placeholder", "partial", "answer", "error"}]
  /\ context \in [Messages -> Seq(Turns)]
  /\ \A m \in Messages : Len(context[m]) <= MaxTurns
  /\ session \in [Keys -> Messages \cup {None}]
  /\ cancelled \in SUBSET Messages
  /\ guarded \in SUBSET Messages
  /\ failed \in SUBSET Messages
  /\ tasks \in [Keys -> Messages \cup {None}]
  /\ history \in [Keys -> Seq(Turns)]
  /\ \A k \in Keys : Len(history[k]) <= MaxTurns
  /\ handler \in [op : HandlerOps, key : Keys \cup {None},
                  target : Messages \cup {None}]

(* A task that may be streaming is the one /stop and /reset find under its *)
(* key, until it leaves, and nothing else is found there: no task          *)
(* overwrites or pops the session of another (handlers.py:966-968 and      *)
(* 1312-1315).                                                             *)
InSession(m) ==
  \/ stage[m] \in {"streaming", "closing", "completing", "enforcing"}
  \/ stage[m] = "asking" /\ ~Legacy(m)

ActiveStreamIsReachable ==
  /\ \A m \in Messages : InSession(m) => session[key[m]] = m
  /\ \A k \in Keys, m \in Messages : session[k] = m =>
       /\ key[m] = k
       /\ InSession(m) \/ stage[m] = "leaving"

(* Two tasks of one user never work at the same time, and no more than the *)
(* semaphore admits work at all.                                           *)
Exclusive ==
  /\ \A m, n \in Inside : User(m) = User(n) => m = n
  /\ Cardinality(Inside) <= Permits

(* In a history the turns of the messages stand in the order of their      *)
(* arrival, each message at most once, its answer right after its question *)
(* (a question may have fallen to the limit).  A second save of a repaired *)
(* message (the comment at handlers.py:1192-1193) would break it.          *)
InOrder(h) ==
  \A i, j \in DOMAIN h :
    i < j /\ h[i].of # 0 /\ h[j].of # 0 =>
      \/ h[i].of < h[j].of
      \/ /\ h[i].of = h[j].of /\ j = i + 1
         /\ h[i].role = "user" /\ h[j].role = "assistant"

HistoryInOrder == \A k \in Keys : InOrder(history[k])

(* An answer builds on what stands before it: when a message is added to a *)
(* history, its model was shown every earlier message's turn found there.  *)
AnswersBuildOnHistory ==
  [][\A m \in Messages :
       /\ stage[m] # "absent" /\ stage'[m] # stage[m]
       /\ history'[key[m]] # history[key[m]]
       => \A i \in DOMAIN history[key[m]] :
            history[key[m]][i].of # 0 =>
              \E n \in DOMAIN context[m] :
                context[m][n] = history[key[m]][i]]_vars

(* A stream that was stopped before it closed, and that the guard did not  *)
(* abort, leaves nothing in the history ("hard discard", 1195-1217).       *)
StoppedIsDiscarded ==
  [][\A m \in Messages :
       /\ stage[m] = "closing" /\ m \in cancelled /\ m \notin guarded
       => /\ UNCHANGED history \/ stage'[m] = "closing"
          /\ stage'[m] \in {"closing", "leaving"}]_vars

(* The history is the one ConversationLog allows.                          *)
Log == INSTANCE ConversationLog WITH
  log <- history,
  owner <- key,
  open <- {m \in Messages : stage[m] \notin {"absent", "leaving", "done"}}

ConversationSpec == Log!LSpec

(* Every message and every command ends: the waits of tasks for the user's *)
(* lock and a permit, of the handler for a task it serves itself or resets *)
(* never form a circle.                                                    *)
UpdatesEnd ==
  /\ \A m \in Messages : stage[m] = "waiting" ~> stage[m] = "done"
  /\ handler # Idle ~> handler = Idle

(* Nobody waits for somebody who waits for him: the lock of a waiting task *)
(* is held by an older message of the user, or by itself, that works or    *)
(* finds a permit, unless other tasks work; and what the handler serves    *)
(* itself is such a task (handlers.py:734-736, 769-771).                   *)
NobodyIsStuck ==
  /\ \A m \in Messages : stage[m] = "waiting" =>
       \E n \in Messages :
         /\ n <= m /\ User(n) = User(m) /\ HoldsLock(n)
         /\ \/ n \in Inside
            \/ /\ stage[n] = "waiting"
               /\ HasPermit(n) \/ Inside # {}
  /\ handler.op = "legacy" =>
       handler.target \in Inside \/ stage[handler.target] = "waiting"

(* How far the task of a message is.                                       *)
StageNumber ==
  [s \in Stages |->
     CASE s = "absent" -> 0 [] s = "waiting" -> 1 [] s = "opening" -> 2
       [] s = "streaming" -> 3 [] s = "closing" -> 4 [] s = "completing" -> 5
       [] s \in {"enforcing", "asking"} -> 6 [] s = "leaving" -> 7
       [] s = "done" -> 8]

FinalNumber == [none |-> 0, partial |-> 1, whole |-> 2]

Progress(m) == 3 * StageNumber[stage[m]] + FinalNumber[final[m]]

(* No task goes back, and each of its steps brings it closer to its end:   *)
(* no failure, stop, abort or repair makes it start over (handlers.py:     *)
(* 1138-1217), so it takes no more than 24 steps.                          *)
TasksAdvance ==
  [][\A m \in Messages : /\ Progress(m) <= Progress(m)'
                         /\ TaskStep(m) => Progress(m) < Progress(m)']_vars

-----------------------------------------------------------------------------
(* The inductive invariant                                                 *)

(* A message has a key once it has arrived, and they arrive in order.      *)
ArrivedInOrder ==
  \A m \in Messages :
    /\ stage[m] = "absent" => key[m] = None
    /\ stage[m] # "absent" =>
         /\ key[m] \in Keys
         /\ \A n \in Messages : n < m => stage[n] # "absent"

(* A task that has taken its user's lock comes after all older messages of *)
(* the user.                                                               *)
Started == {m \in Messages : stage[m] \notin {"absent", "waiting"}}

TakenInOrder ==
  \A m \in Started : \A n \in Messages :
    n < m /\ User(n) = User(m) => stage[n] = "done"

(* The message the handler serves itself is waiting, answered or leaving,  *)
(* and has no session; the handler of a reset knows its key.               *)
HandlerSound ==
  /\ handler.op = "legacy" =>
       /\ handler.target \in Messages
       /\ stage[handler.target] \in {"waiting", "asking", "leaving"}
       /\ \A k \in Keys : session[k] # handler.target
  /\ handler.op \in {"reset_wait", "reset_grace"} =>
       handler.target \in Messages
  /\ handler.op \in {"reset_wait", "reset_grace", "reset_reply"} =>
       handler.key \in Keys

(* Only finished messages have turns in a history, and only in their own.  *)
TurnsAreClosed ==
  \A k \in Keys : \A i \in DOMAIN history[k] :
    LET m == history[k][i].of IN
    m # 0 => key[m] = k /\ stage[m] \in {"leaving", "done"}

(* What the prompt of a task at work was built from covers the history.    *)
AtWork(m) ==
  stage[m] \in {"streaming", "closing", "completing", "enforcing", "asking"}

ContextCovers ==
  \A m \in Messages : AtWork(m) =>
    \A i \in DOMAIN history[key[m]] :
      history[key[m]][i].of # 0 =>
        \E n \in DOMAIN context[m] : context[m][n] = history[key[m]][i]

ChatInv ==
  /\ TypeOK /\ ArrivedInOrder /\ TakenInOrder /\ HandlerSound
  /\ TurnsAreClosed /\ ContextCovers
  /\ ActiveStreamIsReachable /\ HistoryInOrder
=============================================================================
