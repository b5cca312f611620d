-------------------------- MODULE StreamDeliveryProps --------------------------
(***************************************************************************)
(* What must hold of the delivery of an answer, and claims of its source   *)
(* that do not hold.                                                       *)
(***************************************************************************)
EXTENDS StreamDelivery, FiniteSets

Phases ==
  {"streaming", "editing", "rolling", "closing", "final_edit", "final_send",
   "fallback", "saving", "aborting", "done"}

(* Every variable has its type: what is left of a text never ends before   *)
(* it begins (streaming_handler.py:421-422, 487-489), and the message to   *)
(* edit is one of the answer's.                                            *)
TypeOK ==
  /\ phase \in Phases
  /\ received \in 0..AnswerLength
  /\ current \in Contents /\ piece \in Contents /\ rest \in Contents
  /\ offset \in Nat
  /\ previous \in Seq(Contents) /\ messages \in Seq(Contents)
  /\ live \in 1..Len(messages)
  /\ lastEdit \in Contents \cup {None}
  /\ paused \in BOOLEAN /\ cancelled \in BOOLEAN
  /\ final \in Contents \cup {None} /\ saved \in Contents \cup {None}
  /\ attempt \in 0..Retries
  /\ after \in {"streaming", "saving", "done"}
  /\ resent \subseteq 1..Len(messages)
  /\ givenUp \subseteq Contents

(* The contents follow one another without a gap or an overlap from the    *)
(* beginning of the text to its end.                                       *)
Tiles(contents, whole) ==
  /\ contents # <<>>
  /\ \A i \in DOMAIN contents :
       /\ contents[i].text = whole.text
       /\ contents[i].from = IF i = 1 THEN whole.from ELSE contents[i - 1].to
  /\ contents[Len(contents)].to = whole.to

(* While the model writes, the closed parts and the part being written are *)
(* together the text received, the latter beginning at                     *)
(* current_part_offset (448-453), and each closed part has a message of    *)
(* its own, which shows it unless the edit that should do so failed.       *)
PartsCoverText ==
  /\ final = None /\ current # ErrorText =>
       /\ Tiles(Append(previous, current), Text("raw", received))
       /\ current.from = offset
  /\ live = Len(previous) + 1
  /\ \A i \in DOMAIN previous :
       messages[i] = previous[i] \/ previous[i] \in givenUp

(* No message is ever longer than Telegram allows, however the text grows  *)
(* between two edits (916-966, 1074-1081, 495-519).                        *)
WithinLimit ==
  \A i \in DOMAIN messages : Length(messages[i]) <= Limit

(* The messages of the answer, those left out that were sent once more.    *)
Shown ==
  LET kept == {i \in DOMAIN messages : i \notin resent}
      place(n) == CHOOSE i \in kept :
                    Cardinality({j \in kept : j < i}) = n - 1
  IN [n \in 1..Cardinality(kept) |-> messages[place(n)]]

(* Once the answer is saved and no call was given up, the messages show    *)
(* the whole of it, in order and without repetition: rollover, splitting,  *)
(* retries and the fallback message neither lose nor double a piece        *)
(* (487-519, 541-560, 582-622).                                            *)
Delivered ==
  phase = "done" /\ saved # None /\ givenUp = {}
  /\ \/ saved = Text("raw", received) /\ offset < received
     \/ saved.text \in {"fixed", "repaired"} /\ previous = <<>>
  => Tiles(Shown, saved)

(* "Previous parts are already finalized in-place" (466-467): the message  *)
(* of a closed part is never changed again.                                *)
EarlierPartsStay ==
  [][\A i \in DOMAIN previous : messages'[i] = messages[i]]_vars

(* A final text is delivered, and a stopped stream ends, whatever Telegram *)
(* refuses: no retry goes on forever (582-622, 641-679, 1157-1206).        *)
DeliveryEnds == (final # None \/ cancelled) ~> (phase = "done")

(* What is still to be done: how often the answer may yet be delivered, a  *)
(* second time if its checks replaced it; what of the text is missing; and *)
(* the calls left for the piece in hand.                                   *)
Delivering == {"final_edit", "final_send", "fallback"}

Round == CASE phase = "done" -> 0
           [] phase = "aborting" -> 1
           [] phase \in Delivering -> IF after = "done" THEN 2 ELSE 4
           [] phase \notin Delivering \cup {"done", "aborting"} ->
                IF final # None THEN 3 ELSE 5

Missing == IF phase \in Delivering THEN Length(rest) ELSE AnswerLength - received

CallsLeft == CASE phase = "editing" -> 3
               [] phase = "rolling" -> 2
               [] phase = "closing" -> 1
               [] phase \in {"final_edit", "final_send"} -> 1 + (Retries - attempt)
               [] OTHER -> 0

ToDo == <<Round, Missing, CallsLeft>>

(* Less in the first place in which they differ.                           *)
Before(a, b) == \/ a[1] < b[1]
                \/ a[1] = b[1] /\ a[2] < b[2]
                \/ a[1] = b[1] /\ a[2] = b[2] /\ a[3] < b[3]

(* Nothing but the clock and the user lets the delivery stand still, and   *)
(* nothing sets it back: every event of the stream, every answer and every *)
(* refusal of Telegram leaves less to do (582-622, 641-679), so the task   *)
(* ends after finitely many of them.                                       *)
EveryStepDelivers ==
  [][\/ Before(ToDo', ToDo)
     \/ (PauseEnds \/ Cancel) /\ UNCHANGED ToDo]_vars

-----------------------------------------------------------------------------
(* Claims of the source that the code does not keep                        *)

(* "_full_accumulated_text: Complete text across ALL parts (for            *)
(* history/audit)" (139): an answer saved as it was streamed is whole.     *)
HistoryIsWhole ==
  saved # None =>
    (saved.text = "raw" => saved = Text("raw", received))

(* "C-3: If leakage detected, final edit with refusal" (handlers.py:1247): *)
(* once the checks have replaced the answer, no message shows a piece of   *)
(* the answer they rejected.                                               *)
CheckedIsShown ==
  phase = "done" /\ saved # None /\ givenUp = {} /\ resent = {} =>
    (saved.text = "checked" =>
       \A i \in DOMAIN messages : messages[i].text # "raw")

(* "If rollover already happened, only finalizes the LAST (current) part"  *)
(* (466): what the last message shows begins where the closed parts end.   *)
LastPartOnly ==
  phase = "final_edit" /\ previous # <<>> /\ final = Text("raw", received) =>
    piece.from = offset

(* "The user MUST see the finished response" (1146): of an answer saved as *)
(* it was streamed, no piece is missing.                                   *)
ResponseIsSeen ==
  phase = "done" /\ saved = Text("raw", received) =>
    \A n \in 0..(received - 1) : \E i \in DOMAIN messages :
      /\ messages[i].text = "raw"
      /\ messages[i].from <= n /\ n < messages[i].to
=============================================================================
