---------------------------- MODULE AnswerService ----------------------------
(***************************************************************************)
(* What the process pool promises to its callers, without subprocesses,    *)
(* locks or kills: every request is sent at most once and ends answered or *)
(* failed; the result a caller is handed was produced for a request of its *)
(* own routing key, is handed out only once, and, when it is not the       *)
(* caller's own, belongs to a request that has already ended.              *)
(***************************************************************************)
CONSTANTS Calls, CallKey, None

VARIABLES state, answer

avars == <<state, answer>>

Delivered == {answer[e] : e \in Calls} \ {None}

Send(c) ==
  /\ state[c] = "open"
  /\ state' = [state EXCEPT ![c] = "sent"]
  /\ UNCHANGED answer

Deliver(c, d) ==
  /\ state[c] = "sent"
  /\ CallKey[d] = CallKey[c]
  /\ d \notin Delivered
  /\ d = c \/ state[d] \in {"answered", "failed"}
  /\ state' = [state EXCEPT ![c] = "answered"]
  /\ answer' = [answer EXCEPT ![c] = d]

Fail(c) ==
  /\ state[c] \in {"open", "sent"}
  /\ state' = [state EXCEPT ![c] = "failed"]
  /\ UNCHANGED answer

AInit ==
  /\ state = [c \in Calls |-> "open"]
  /\ answer = [c \in Calls |-> None]

ANext == \E c \in Calls : Send(c) \/ Fail(c) \/ \E d \in Calls : Deliver(c, d)

ASpec == AInit /\ [][ANext]_avars
=============================================================================
