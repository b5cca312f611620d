---------------------------- MODULE StreamDelivery ----------------------------
(***************************************************************************)
(* How an answer reaches the chat (streaming_handler.py, and the part of   *)
(* _handle_message_streaming in handlers.py that drives it).               *)
(*                                                                         *)
(* While the model writes, the text is edited into a Telegram message; a   *)
(* part that grows past the threshold is closed and a new message begins.  *)
(* At the end the complete text is delivered by final edits and sends that *)
(* are retried when Telegram asks to wait.  One action is the code between *)
(* two answers of Telegram or two events of the stream.                    *)
(*                                                                         *)
(* A text is measured in units.  A content is a piece of a text; its       *)
(* markup, its part markers and the whitespace trimmed at a cut are left   *)
(* out.  Where the text's words decide (a safe place to cut), every choice *)
(* is allowed; whether enough time has passed for an edit is a choice, too.*)
(***************************************************************************)
EXTENDS Naturals, Sequences

CONSTANTS
  AnswerLength,  (* units the model may write *)
  Threshold,     (* _ROLLOVER_THRESHOLD *)
  PartLimit,     (* TELEGRAM_MAX_LENGTH - _SPLIT_SAFETY_MARGIN *)
  Limit,         (* TELEGRAM_MAX_LENGTH *)
  Retries,       (* FINAL_EDIT_MAX_RETRIES *)
  OtherLengths,  (* units of a text that replaces the one received *)
  None

ASSUME LengthAssumption == AnswerLength \in Nat
ASSUME LimitAssumption ==
  /\ Threshold \in Nat \ {0, 1} /\ PartLimit \in Nat /\ Limit \in Nat
  /\ Threshold <= PartLimit /\ PartLimit <= Limit
ASSUME RetriesAssumption == Retries \in Nat
ASSUME OtherLengthsAssumption == OtherLengths \subseteq Nat \ {0}

VARIABLES
  phase,         (* what the handler waits for *)
  received,      (* units of _full_accumulated_text *)
  current,       (* accumulated_text: the content of the part being written *)
  previous,      (* previous_parts *)
  offset,        (* current_part_offset: their length together *)
  messages,      (* what the messages of this answer show, in the chat's order *)
  live,          (* session.message: its place in messages *)
  lastEdit,      (* _last_edit_html *)
  paused,        (* _paused_until lies in the future *)
  cancelled,     (* cancel_event *)
  final,         (* final_text, None before there is one *)
  piece,         (* the content a call is to bring about *)
  rest,          (* what is still to be delivered after it *)
  attempt,       (* calls for it that met flood control *)
  after,         (* where the handler goes on after a delivery *)
  saved,         (* the answer saved to the history, None before *)
  resent,        (* messages whose content was sent again in a new one *)
  givenUp        (* contents whose last call failed *)

session == <<received, current, previous, offset, live, lastEdit>>
delivery == <<final, piece, rest, attempt, after, saved>>
failures == <<resent, givenUp>>
vars == <<phase, session, messages, paused, cancelled, delivery, failures>>

-----------------------------------------------------------------------------
(* Contents                                                                *)

Kinds == {"raw", "fixed", "repaired", "checked", "error", "dots"}

Contents ==
  {c \in [text : Kinds, from : Nat, to : Nat] : c.from <= c.to}

ASSUME NoneAssumption == None \notin Contents

Content(text, from, to) == [text |-> text, from |-> from, to |-> to]

Dots == Content("dots", 0, 0)
ErrorText == Content("error", 0, 1)

Length(c) == c.to - c.from

(* The first n units, and what follows them.                               *)
First(c, n) == [c EXCEPT !.to = c.from + n]
After(c, n) == [c EXCEPT !.from = c.from + n]

Least(a, b) == IF a <= b THEN a ELSE b

(* What an intermediate edit shows: an open markdown token at the end may  *)
(* be trimmed, and the text is truncated to the limit.                     *)
Visible_Untruncated(c) ==
  IF Length(c) = 0 THEN {Dots} ELSE {c}
Visible(c) ==
  IF Length(c) = 0 THEN {Dots}
  ELSE {First(c, Least(n, Limit)) : n \in {Length(c), Length(c) - 1} \ {0}}

(* Where a part may be cut when it rolls over, and when it is split.       *)
RolloverCuts_Beyond == {n \in 1..(Threshold + 1) : n > Threshold \div 2}
RolloverCuts == {n \in 1..Threshold : n > Threshold \div 2}
SplitSizes(c) ==
  IF Length(c) <= PartLimit THEN {Length(c)}
  ELSE {n \in 1..PartLimit : n > PartLimit \div 3}

-----------------------------------------------------------------------------
(* The stream                                                              *)

Streaming == phase = "streaming" /\ ~cancelled /\ final = None

(* A content_delta; the edit is left out during a flood control pause and  *)
(* before its time has come.                                               *)
Delta ==
  /\ Streaming
  /\ \E n \in (received + 1)..Least(received + 2, AnswerLength) :
       /\ received' = n
       /\ current' = [current EXCEPT !.to = n]
  /\ \/ phase' = "streaming"
     \/ phase' = "editing" /\ ~paused
  /\ UNCHANGED <<previous, offset, live, lastEdit, messages, paused, cancelled,
                 delivery, failures>>

ShowIn(i, c) == messages' = [messages EXCEPT ![i] = c]

(* _check_live_rollover: a long part with a safe place to cut rolls over.  *)
CheckRollover ==
  \/ /\ Length(current) >= Threshold
     /\ \E n \in RolloverCuts :
          piece' = First(current, n) /\ rest' = After(current, n)
     /\ phase' = "rolling"
  \/ phase' = "streaming" /\ UNCHANGED <<piece, rest>>

Edit ==
  /\ phase = "editing"
  /\ \E c \in Visible(current) :
       \/ c # lastEdit /\ ShowIn(live, c) /\ lastEdit' = c
       \/ c = lastEdit /\ UNCHANGED <<messages, lastEdit>>
  /\ CheckRollover
  /\ UNCHANGED <<received, current, previous, offset, live, paused, cancelled,
                 final, attempt, after, saved, failures>>

(* Flood control pauses the edits; another error is only logged.           *)
Refused == paused' \in {paused, TRUE}

EditFails ==
  /\ phase = "editing"
  /\ \E c \in Visible(current) : c # lastEdit
  /\ Refused
  /\ CheckRollover
  /\ UNCHANGED <<session, messages, cancelled, final, attempt, after, saved,
                 failures>>

PauseEnds ==
  /\ paused /\ paused' = FALSE
  /\ UNCHANGED <<phase, session, messages, cancelled, delivery, failures>>

(* /stop, or /reset after its wait.                                        *)
Cancel ==
  /\ phase # "done"
  /\ cancelled' = TRUE
  /\ UNCHANGED <<phase, session, messages, paused, delivery, failures>>

-----------------------------------------------------------------------------
(* Rollover: the next message is sent, then the old one gets its text.     *)

NewPart ==
  /\ phase = "rolling"
  /\ messages' = Append(messages, Dots)
  /\ phase' = "closing"
  /\ UNCHANGED <<session, paused, cancelled, delivery, failures>>

NewPartFails ==
  /\ phase = "rolling"
  /\ phase' = "streaming"
  /\ UNCHANGED <<session, messages, paused, cancelled, delivery, failures>>

Continued_Whole == current
Continued == rest

NextMessage_Same == live
NextMessage == Len(messages)

SwitchPart ==
  /\ phase = "closing"
  /\ previous' = Append(previous, piece)
  /\ offset' = offset + Length(piece)
  /\ current' = Continued
  /\ live' = NextMessage
  /\ lastEdit' = None
  /\ phase' = "streaming"
  /\ UNCHANGED <<received, cancelled, delivery, resent>>

ClosePart ==
  /\ SwitchPart
  /\ ShowIn(live, piece)
  /\ UNCHANGED <<paused, givenUp>>

(* The edit fails: the session goes on with the new message nevertheless.  *)
ClosePartFails ==
  /\ SwitchPart
  /\ Refused
  /\ givenUp' = givenUp \cup {piece}
  /\ UNCHANGED messages

-----------------------------------------------------------------------------
(* finalize_streaming                                                      *)

(* After a rollover only the part after the previous ones is delivered,    *)
(* or, if the text is not longer than they are, what there is.  The code   *)
(* sums the lengths of previous_parts, which offset is.                    *)
FinalPart_Everything(text) == text
FinalPart(text) ==
  IF previous = <<>> THEN text
  ELSE IF offset < Length(text) THEN After(text, offset)
  ELSE IF Length(current) > 0 THEN current ELSE text

(* The pieces are split off as they are needed.                            *)
Take(c, sizes) ==
  \E n \in sizes : piece' = First(c, n) /\ rest' = After(c, n)

Finalize(text, then) ==
  LET part == FinalPart(text) IN
  /\ final' = text
  /\ current' = part
  /\ Take(part, IF Length(part) <= Limit THEN {Length(part)}
                ELSE SplitSizes(part))
  /\ phase' = "final_edit"
  /\ attempt' = 0
  /\ after' = then
  /\ UNCHANGED <<received, previous, offset, live, lastEdit, messages, paused,
                 cancelled, failures>>

NextPiece ==
  IF Length(rest) = 0
  THEN phase' = after /\ UNCHANGED <<piece, rest, attempt>>
  ELSE Take(rest, SplitSizes(rest)) /\ phase' = "final_send" /\ attempt' = 0

FinalEdit ==
  /\ phase = "final_edit"
  /\ ShowIn(live, piece)
  /\ NextPiece
  /\ UNCHANGED <<session, paused, cancelled, final, after, saved, failures>>

FinalSend ==
  /\ phase = "final_send"
  /\ messages' = Append(messages, piece)
  /\ NextPiece
  /\ UNCHANGED <<session, paused, cancelled, final, after, saved, failures>>

(* Flood control: the call is repeated after the time Telegram asks for.   *)
MayRetry_Always == TRUE
MayRetry == attempt < Retries

Retry ==
  /\ phase \in {"final_edit", "final_send"} /\ MayRetry
  /\ paused' = TRUE
  /\ attempt' = Least(attempt + 1, Retries)
  /\ UNCHANGED <<phase, session, messages, cancelled, final, piece, rest,
                 after, saved, failures>>

(* Once more flood control: an edit is given up for a new message.         *)
EditAbandoned ==
  /\ phase = "final_edit" /\ ~MayRetry
  /\ Refused
  /\ phase' = "fallback"
  /\ UNCHANGED <<session, messages, cancelled, delivery, failures>>

Fallback ==
  /\ phase = "fallback"
  /\ messages' = Append(messages, piece)
  /\ resent' = resent \cup {live}
  /\ NextPiece
  /\ UNCHANGED <<session, paused, cancelled, final, after, saved, givenUp>>

(* Another error; for a send and for the fallback, flood control, too.     *)
PieceLost ==
  /\ phase \in {"final_edit", "final_send", "fallback"}
  /\ givenUp' = givenUp \cup {piece}
  /\ NextPiece
  /\ UNCHANGED <<session, messages, paused, cancelled, final, after, saved,
                 resent>>

-----------------------------------------------------------------------------
(* The end of the stream                                                   *)

Text(kind, n) == Content(kind, 0, n)

(* The text guard may change a text.                                       *)
Fixed(text) == {text} \cup {Text("fixed", n) : n \in OtherLengths}

(* The result event brings the whole text that was streamed.               *)
Result ==
  /\ Streaming /\ received > 0
  /\ \E text \in Fixed(Text("raw", received)) : Finalize(text, "streaming")
  /\ UNCHANGED saved

(* The stream has ended without a result: the accumulated text is taken.   *)
NoResult ==
  /\ Streaming /\ Length(current) > 0
  /\ \E text \in Fixed(current) : Finalize(text, "saving")
  /\ UNCHANGED saved

(* The guard aborts the stream; the question is asked again, and the new   *)
(* answer is saved at once.                                                *)
Repaired ==
  /\ phase = "streaming" /\ final = None
  /\ \E n \in OtherLengths :
       Finalize(Text("repaired", n), "done") /\ saved' = Text("repaired", n)

(* The stream was stopped, or has brought nothing.                         *)
Discard ==
  /\ phase = "streaming"
  /\ cancelled \/ (final = None /\ Length(current) = 0)
  /\ phase' = "done"
  /\ UNCHANGED <<session, messages, paused, cancelled, delivery, failures>>

(* save_streaming_result returns the text, or what its checks made of it,  *)
(* which is then delivered.                                                *)
Saving ==
  \/ phase = "streaming" /\ final # None /\ ~cancelled
  \/ phase = "saving"

Save ==
  /\ Saving
  /\ saved' = final
  /\ phase' = "done"
  /\ UNCHANGED <<session, messages, paused, cancelled, final, piece, rest,
                 attempt, after, failures>>

SaveChecked ==
  /\ Saving
  /\ \E n \in OtherLengths :
       Finalize(Text("checked", n), "done") /\ saved' = Text("checked", n)

(* An error event or an exception: one edit tells the user, or fails to.   *)
Fails ==
  /\ phase = "streaming" \/ Saving
  /\ current' = ErrorText
  /\ phase' = "aborting"
  /\ UNCHANGED <<received, previous, offset, live, lastEdit, messages, paused,
                 cancelled, delivery, failures>>

Abort ==
  /\ phase = "aborting"
  /\ phase' = "done"
  /\ \/ ShowIn(live, current) /\ lastEdit' = current /\ UNCHANGED paused
     \/ Refused /\ UNCHANGED <<messages, lastEdit>>
  /\ UNCHANGED <<received, current, previous, offset, live, cancelled,
                 delivery, failures>>

-----------------------------------------------------------------------------

(* The placeholder has been sent.                                          *)
Init ==
  /\ phase = "streaming"
  /\ received = 0 /\ current = Text("raw", 0) /\ previous = <<>> /\ offset = 0
  /\ messages = <<Dots>> /\ live = 1 /\ lastEdit = None
  /\ paused = FALSE /\ cancelled = FALSE
  /\ final = None /\ piece = Dots /\ rest = Dots /\ attempt = 0
  /\ after = "streaming" /\ saved = None
  /\ resent = {} /\ givenUp = {}

(* The steps of the task; the others are the clock's and the user's.       *)
TaskStep ==
  \/ Delta \/ Edit \/ EditFails
  \/ NewPart \/ NewPartFails \/ ClosePart \/ ClosePartFails
  \/ FinalEdit \/ FinalSend \/ Retry \/ EditAbandoned \/ Fallback \/ PieceLost
  \/ Result \/ NoResult \/ Repaired \/ Discard \/ Save \/ SaveChecked
  \/ Fails \/ Abort

Next == TaskStep \/ PauseEnds \/ Cancel

Spec == Init /\ [][Next]_vars

(* The event loop runs the task; Telegram and the provider answer.         *)
FairSpec == Spec /\ WF_vars(TaskStep)
=============================================================================
