---------------------------- MODULE MCChatSession ----------------------------
(* Instances of the chat session for TLC.                                  *)
EXTENDS ChatSessionProps, TLC

CONSTANTS k1, k2, k3, u1, u2

(* k1 and k2 are two chats of one user, k3 is another user's.              *)
MCUserOf == [k \in Keys |-> IF k = k3 THEN u2 ELSE u1]
=============================================================================
