--------------------------- MODULE ConversationLog ---------------------------
(***************************************************************************)
(* What a user may rely on about the conversation the model is shown:      *)
(* messages are taken up in the order they arrive, an answered message     *)
(* adds its question and its answer as one piece, and adds them once.      *)
(***************************************************************************)
EXTENDS ConversationStorage

CONSTANTS
  Keys,          (* pairs of a user and a chat *)
  UserOf,        (* the user of a key *)
  None

VARIABLES
  log,           (* key -> its turns, oldest first *)
  owner,         (* message -> the key it arrived on *)
  open           (* messages still being worked on *)

lvars == <<log, owner, open>>

LInit ==
  /\ log = [k \in Keys |-> <<>>]
  /\ owner = [m \in Messages |-> None]
  /\ open = {}

Accept(m, k) ==
  /\ owner[m] = None
  /\ \A n \in Messages : n < m => owner[n] # None
  /\ owner' = [owner EXCEPT ![m] = k]
  /\ open' = open \cup {m}
  /\ UNCHANGED log

(* The oldest open message of a user is the one worked on.                 *)
Oldest(m) ==
  /\ m \in open
  /\ \A n \in open : UserOf[owner[n]] = UserOf[owner[m]] => m <= n

Answer(m) ==
  /\ Oldest(m)
  /\ open' = open \ {m}
  /\ log' = [log EXCEPT ![owner[m]] = SavePair(@, m)]
  /\ UNCHANGED owner

Drop(m) ==
  /\ Oldest(m)
  /\ open' = open \ {m}
  /\ UNCHANGED <<log, owner>>

Clear(k) ==
  /\ log' = [log EXCEPT ![k] = <<>>]
  /\ UNCHANGED <<owner, open>>

(* A turn, or a pair of turns, of the bot's own.                           *)
Note(k) ==
  /\ log' \in {[log EXCEPT ![k] = SaveTurn(@, Turn(0, "assistant"))],
               [log EXCEPT ![k] = SavePair(@, 0)]}
  /\ UNCHANGED <<owner, open>>

LNext ==
  \/ \E m \in Messages : Answer(m) \/ Drop(m) \/ \E k \in Keys : Accept(m, k)
  \/ \E k \in Keys : Clear(k) \/ Note(k)

LSpec == LInit /\ [][LNext]_lvars
=============================================================================
