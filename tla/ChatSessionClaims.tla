-------------------------- MODULE ChatSessionClaims --------------------------
(***************************************************************************)
(* Claims of the source about the chat session that the code does not keep.*)
(***************************************************************************)
EXTENDS MCChatSession

(* wiped[k]: how many messages had arrived when k was last reset.          *)
VARIABLE wiped

Arrived == {m \in Messages : stage[m] # "absent"}

WipedSpec ==
  /\ Init /\ wiped = [k \in Keys |-> 0]
  /\ [][/\ Next
        /\ wiped' = [k \in Keys |->
             IF handler'.op = "reset_reply" /\ handler.op # "reset_reply"
                /\ handler'.key = k
             THEN Cardinality(Arrived) ELSE wiped[k]]]_<<vars, wiped>>

(* "/reset now waits for in-flight LLM responses to complete before        *)
(* clearing history" (1393-1394): what a history holds after a reset       *)
(* belongs to messages that arrived after it.                              *)
ResetIsFinal ==
  \A k \in Keys : \A i \in DOMAIN history[k] :
    history[k][i].of # 0 => history[k][i].of > wiped[k]

(* "Prevents GC of streaming tasks and enables cleanup on shutdown"        *)
(* (82-83): the registry holds every unfinished background task.           *)
TasksAreHeld ==
  \A m \in Messages :
    stage[m] \notin {"absent", "done"} /\ ~Legacy(m) => tasks[key[m]] = m

(* "Language correction failed. Please try again." (1188-1191): a message  *)
(* the guard aborted, and that nobody answers, leaves an error message.    *)
FailureIsTold ==
  \A m \in Messages :
    stage[m] = "leaving" /\ m \in guarded => shown[m] \in {"answer", "error"}
=============================================================================
