------------------------- MODULE ConversationStorage -------------------------
(***************************************************************************)
(* conversation_storage.py: the turns of one conversation.  The module's   *)
(* asyncio.Lock is never held across a suspension, so saving a pair of     *)
(* turns is one step.                                                      *)
(***************************************************************************)
EXTENDS Naturals, Sequences

CONSTANTS
  MessageCount,
  MaxTurns       (* turns kept of a conversation *)

ASSUME CountAssumption == MessageCount \in Nat
ASSUME MaxTurnsAssumption == MaxTurns \in Nat \ {0}

(* Messages are numbered as they arrive.                                   *)
Messages == 1..MessageCount

Turn(m, role) == [of |-> m, role |-> role]

(* Turns of the bot's own belong to message 0.                             *)
Turns == [of : Messages \cup {0}, role : {"user", "assistant"}]

(* save_turn: append, then keep the last MaxTurns.                         *)
SaveTurn_Untrimmed(h, turn) == Append(h, turn)
SaveTurn(h, turn) ==
  LET all == Append(h, turn) IN
  IF Len(all) > MaxTurns THEN Tail(all) ELSE all

SavePair(h, m) == SaveTurn(SaveTurn(h, Turn(m, "user")), Turn(m, "assistant"))
=============================================================================
