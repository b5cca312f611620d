-------------------------- MODULE ChatSession_proofs --------------------------
(***************************************************************************)
(* Proofs about the chat session, for any number of messages, any users    *)
(* and chats, any number of permits and any length of the history.         *)
(***************************************************************************)
EXTENDS ChatSessionProps, FiniteSetTheorems, WellFoundedInduction, TLAPS

-----------------------------------------------------------------------------
(* The history of one conversation                                         *)

(* Saving a turn appends it and drops the oldest turn or none.             *)
LEMMA SaveTurnShift ==
  ASSUME NEW h \in Seq(Turns), Len(h) <= MaxTurns, NEW t \in Turns
  PROVE  LET s == SaveTurn(h, t) IN
         /\ s \in Seq(Turns) /\ Len(s) <= MaxTurns /\ Len(s) >= 1
         /\ s[Len(s)] = t
         /\ \E d \in {0, 1} :
              /\ Len(s) = Len(h) + 1 - d
              /\ \A i \in 1..(Len(s) - 1) : i + d \in 1..Len(h) /\ s[i] = h[i + d]
<1> DEFINE all == Append(h, t)
<1>1. /\ all \in Seq(Turns) /\ Len(all) = Len(h) + 1 /\ all[Len(h) + 1] = t
      /\ \A i \in 1..Len(h) : all[i] = h[i]
  OBVIOUS
<1>2. MaxTurns \in Nat \ {0}
  BY MaxTurnsAssumption
<1>3. CASE Len(all) > MaxTurns
  <2>1. /\ Tail(all) \in Seq(Turns) /\ Len(Tail(all)) = Len(h)
        /\ \A i \in 1..Len(h) : Tail(all)[i] = all[i + 1]
    BY <1>1
  <2>2. SaveTurn(h, t) = Tail(all)
    BY <1>3 DEF SaveTurn
  <2>3. Len(h) >= 1
    BY <1>1, <1>2, <1>3
  <2>4. Tail(all)[Len(h)] = t
    BY <1>1, <2>1, <2>3
  <2>5. \A i \in 1..(Len(h) - 1) : i + 1 \in 1..Len(h) /\ Tail(all)[i] = h[i + 1]
    BY <1>1, <2>1
  <2>6. QED
    BY <2>1, <2>2, <2>3, <2>4, <2>5
<1>4. CASE ~(Len(all) > MaxTurns)
  <2>1. SaveTurn(h, t) = all
    BY <1>4 DEF SaveTurn
  <2>2. QED
    BY <1>1, <1>2, <1>4, <2>1
<1>5. QED
  BY <1>3, <1>4

LEMMA SaveTurnShifted ==
  ASSUME NEW h \in Seq(Turns), Len(h) <= MaxTurns, NEW t \in Turns
  PROVE  \E d \in {0, 1} :
           /\ Len(SaveTurn(h, t)) = Len(h) + 1 - d
           /\ \A n \in 1..(Len(SaveTurn(h, t)) - 1) :
                n + d \in 1..Len(h) /\ SaveTurn(h, t)[n] = h[n + d]
BY SaveTurnShift

LEMMA SaveTurnType ==
  ASSUME NEW h \in Seq(Turns), Len(h) <= MaxTurns, NEW t \in Turns
  PROVE  SaveTurn(h, t) \in Seq(Turns) /\ Len(SaveTurn(h, t)) <= MaxTurns
BY SaveTurnShift

LEMMA TurnType ==
  ASSUME NEW m \in Messages \cup {0}
  PROVE  Turn(m, "user") \in Turns /\ Turn(m, "assistant") \in Turns
BY DEF Turn, Turns

LEMMA SavePairType ==
  ASSUME NEW h \in Seq(Turns), Len(h) <= MaxTurns, NEW m \in Messages \cup {0}
  PROVE  SavePair(h, m) \in Seq(Turns) /\ Len(SavePair(h, m)) <= MaxTurns
BY SaveTurnType, TurnType DEF SavePair

(* Every turn found after saving was there before, or is the one saved.    *)
LEMMA SaveTurnElements ==
  ASSUME NEW h \in Seq(Turns), Len(h) <= MaxTurns, NEW t \in Turns,
         NEW i \in DOMAIN SaveTurn(h, t)
  PROVE  \/ SaveTurn(h, t)[i] = t
         \/ \E j \in DOMAIN h : SaveTurn(h, t)[i] = h[j]
<1> DEFINE s == SaveTurn(h, t)
<1>1. s \in Seq(Turns) /\ i \in 1..Len(s)
  <2>1. s \in Seq(Turns)
    BY SaveTurnType
  <2>2. QED
    BY <2>1
<1>2. CASE i = Len(s)
  BY <1>2, SaveTurnShift
<1>3. CASE i # Len(s)
  <2>1. PICK d \in {0, 1} :
          \A n \in 1..(Len(s) - 1) : n + d \in 1..Len(h) /\ s[n] = h[n + d]
    BY SaveTurnShifted
  <2>2. i \in 1..(Len(s) - 1)
    BY <1>1, <1>3
  <2>3. QED
    BY <2>1, <2>2
<1>4. QED
  BY <1>2, <1>3

LEMMA SavePairElements ==
  ASSUME NEW h \in Seq(Turns), Len(h) <= MaxTurns, NEW m \in Messages \cup {0},
         NEW i \in DOMAIN SavePair(h, m)
  PROVE  \/ SavePair(h, m)[i].of = m
         \/ \E j \in DOMAIN h : SavePair(h, m)[i] = h[j]
<1> DEFINE s == SaveTurn(h, Turn(m, "user"))
<1>1. /\ Turn(m, "user") \in Turns /\ Turn(m, "assistant") \in Turns
      /\ Turn(m, "user").of = m /\ Turn(m, "assistant").of = m
  BY TurnType DEF Turn
<1>2. s \in Seq(Turns) /\ Len(s) <= MaxTurns
  BY <1>1, SaveTurnType
<1>3. SavePair(h, m) = SaveTurn(s, Turn(m, "assistant"))
  BY DEF SavePair
<1>4. \/ SavePair(h, m)[i] = Turn(m, "assistant")
      \/ \E j \in DOMAIN s : SavePair(h, m)[i] = s[j]
  BY <1>1, <1>2, <1>3, SaveTurnElements
<1>5. \A j \in DOMAIN s :
        s[j] = Turn(m, "user") \/ \E n \in DOMAIN h : s[j] = h[n]
  BY <1>1, SaveTurnElements
<1>6. QED
  BY <1>1, <1>4, <1>5

(* A turn of the bot's own does not disturb the order.                     *)
LEMMA NoteKeepsOrder ==
  ASSUME NEW h \in Seq(Turns), Len(h) <= MaxTurns, InOrder(h),
         NEW t \in Turns, t.of = 0
  PROVE  InOrder(SaveTurn(h, t))
<1> DEFINE s == SaveTurn(h, t)
<1>1. s \in Seq(Turns) /\ s[Len(s)] = t /\ DOMAIN s = 1..Len(s)
  <2>1. s \in Seq(Turns) /\ s[Len(s)] = t
    BY SaveTurnShift
  <2>2. QED
    BY <2>1
<1>2. PICK d \in {0, 1} :
        \A n \in 1..(Len(s) - 1) : n + d \in 1..Len(h) /\ s[n] = h[n + d]
  BY SaveTurnShifted
<1>3. ASSUME NEW i \in DOMAIN s, NEW j \in DOMAIN s,
             i < j, s[i].of # 0, s[j].of # 0
      PROVE  \/ s[i].of < s[j].of
             \/ /\ s[i].of = s[j].of /\ j = i + 1
                /\ s[i].role = "user" /\ s[j].role = "assistant"
  <2>1. j # Len(s)
    BY <1>1, <1>3
  <2>2. i \in 1..(Len(s) - 1) /\ j \in 1..(Len(s) - 1)
    BY <1>1, <1>3, <2>1
  <2>3. /\ i + d \in DOMAIN h /\ j + d \in DOMAIN h /\ i + d < j + d
        /\ s[i] = h[i + d] /\ s[j] = h[j + d]
    BY <1>2, <1>3, <2>2
  <2>4. \/ h[i + d].of < h[j + d].of
        \/ /\ h[i + d].of = h[j + d].of /\ j + d = (i + d) + 1
           /\ h[i + d].role = "user" /\ h[j + d].role = "assistant"
    BY <1>3, <2>3 DEF InOrder
  <2>5. QED
    BY <2>2, <2>3, <2>4
<1>4. QED
  BY <1>3 DEF InOrder

(* Nor does a turn of a later message, nor the answer right after its      *)
(* question.                                                               *)
Follows(h, t) ==
  \A i \in DOMAIN h : h[i].of # 0 =>
    \/ h[i].of < t.of
    \/ /\ i = Len(h) /\ h[i].of = t.of
       /\ h[i].role = "user" /\ t.role = "assistant"

LEMMA FollowingKeepsOrder ==
  ASSUME NEW h \in Seq(Turns), Len(h) <= MaxTurns, InOrder(h),
         NEW t \in Turns, Follows(h, t)
  PROVE  InOrder(SaveTurn(h, t))
<1> DEFINE s == SaveTurn(h, t)
<1>1. s \in Seq(Turns) /\ s[Len(s)] = t /\ DOMAIN s = 1..Len(s)
  <2>1. s \in Seq(Turns) /\ s[Len(s)] = t
    BY SaveTurnShift
  <2>2. QED
    BY <2>1
<1>2. PICK d \in {0, 1} :
        /\ Len(s) = Len(h) + 1 - d
        /\ \A n \in 1..(Len(s) - 1) : n + d \in 1..Len(h) /\ s[n] = h[n + d]
  BY SaveTurnShifted
<1>3. ASSUME NEW i \in DOMAIN s, NEW j \in DOMAIN s,
             i < j, s[i].of # 0, s[j].of # 0
      PROVE  \/ s[i].of < s[j].of
             \/ /\ s[i].of = s[j].of /\ j = i + 1
                /\ s[i].role = "user" /\ s[j].role = "assistant"
  <2>1. i \in 1..(Len(s) - 1)
    BY <1>1, <1>3
  <2>2. i + d \in DOMAIN h /\ s[i] = h[i + d]
    BY <1>2, <2>1
  <2>3. CASE j = Len(s)
    <3>1. \/ h[i + d].of < t.of
          \/ /\ i + d = Len(h) /\ h[i + d].of = t.of
             /\ h[i + d].role = "user" /\ t.role = "assistant"
      BY <1>3, <2>2 DEF Follows
    <3>2. i + d = Len(h) => j = i + 1
      BY <1>2, <2>1, <2>3
    <3>3. QED
      BY <1>1, <2>2, <2>3, <3>1, <3>2
  <2>4. CASE j # Len(s)
    <3>1. j \in 1..(Len(s) - 1)
      BY <1>1, <2>4
    <3>2. j + d \in DOMAIN h /\ i + d < j + d /\ s[j] = h[j + d]
      BY <1>2, <1>3, <2>1, <3>1
    <3>3. \/ h[i + d].of < h[j + d].of
          \/ /\ h[i + d].of = h[j + d].of /\ j + d = (i + d) + 1
             /\ h[i + d].role = "user" /\ h[j + d].role = "assistant"
      BY <1>3, <2>2, <3>2 DEF InOrder
    <3>4. QED
      BY <2>1, <2>2, <3>1, <3>2, <3>3
  <2>5. QED
    BY <2>3, <2>4
<1>4. QED
  BY <1>3 DEF InOrder

LEMMA PairKeepsOrder ==
  ASSUME NEW h \in Seq(Turns), Len(h) <= MaxTurns, InOrder(h),
         NEW m \in Messages,
         \A i \in DOMAIN h : h[i].of # 0 => h[i].of < m
  PROVE  InOrder(SavePair(h, m))
<1> DEFINE u == Turn(m, "user")
           a == Turn(m, "assistant")
           s == SaveTurn(h, u)
<1>1. u \in Turns /\ a \in Turns /\ u.of = m /\ a.of = m
      /\ u.role = "user" /\ a.role = "assistant" /\ m # 0
  BY TurnType, CountAssumption DEF Turn, Messages
<1>2. InOrder(s)
  <2>1. Follows(h, u)
    BY <1>1 DEF Follows
  <2>2. QED
    BY <1>1, <2>1, FollowingKeepsOrder
<1>3. s \in Seq(Turns) /\ Len(s) <= MaxTurns /\ s[Len(s)] = u
  BY <1>1, SaveTurnShift
<1>4. Follows(s, a)
  <2>1. ASSUME NEW i \in DOMAIN s, s[i].of # 0, i # Len(s)
        PROVE  s[i].of < m
    <3>1. PICK d \in {0, 1} :
            \A n \in 1..(Len(s) - 1) : n + d \in 1..Len(h) /\ s[n] = h[n + d]
      BY <1>1, SaveTurnShifted
    <3>2. i \in 1..(Len(s) - 1)
      BY <1>3, <2>1
    <3>3. i + d \in DOMAIN h /\ s[i] = h[i + d]
      BY <3>1, <3>2
    <3>4. QED
      BY <2>1, <3>3
  <2>2. QED
    BY <1>1, <1>3, <2>1 DEF Follows
<1>5. SavePair(h, m) = SaveTurn(s, a)
  BY DEF SavePair
<1>6. QED
  BY <1>1, <1>2, <1>3, <1>4, <1>5, FollowingKeepsOrder

LEMMA OwnPairKeepsOrder ==
  ASSUME NEW h \in Seq(Turns), Len(h) <= MaxTurns, InOrder(h)
  PROVE  InOrder(SavePair(h, 0))
<1>1. /\ Turn(0, "user") \in Turns /\ Turn(0, "assistant") \in Turns
      /\ Turn(0, "user").of = 0 /\ Turn(0, "assistant").of = 0
  BY TurnType DEF Turn
<1>2. QED
  BY <1>1, SaveTurnType, NoteKeepsOrder DEF SavePair

-----------------------------------------------------------------------------
(* Type correctness                                                        *)

LEMMA EmptyType == <<>> \in Seq(Turns) /\ Len(<<>>) <= MaxTurns
BY MaxTurnsAssumption

LEMMA WipeType ==
  ASSUME TypeOK, NEW k \in Keys, Wipe(k)
  PROVE  /\ history' \in [Keys -> Seq(Turns)]
         /\ \A n \in Keys : Len(history'[n]) <= MaxTurns
         /\ handler' \in [op : HandlerOps, key : Keys \cup {None},
                          target : Messages \cup {None}]
<1>1. /\ history' \in [Keys -> Seq(Turns)]
      /\ \A n \in Keys : Len(history'[n]) <= MaxTurns
  BY EmptyType DEF Wipe, TypeOK
<1>2. QED
  BY <1>1 DEF Wipe, Handling, HandlerOps

LEMMA NoteType ==
  ASSUME TypeOK, NEW k \in Keys
  PROVE  LET note == SaveTurn(history[k], Turn(0, "assistant"))
             pair == SavePair(history[k], 0) IN
         /\ note \in Seq(Turns) /\ Len(note) <= MaxTurns
         /\ pair \in Seq(Turns) /\ Len(pair) <= MaxTurns
<1>1. history[k] \in Seq(Turns) /\ Len(history[k]) <= MaxTurns
  BY DEF TypeOK
<1>2. QED
  BY <1>1, SaveTurnType, SavePairType, TurnType

LEMMA TypeStep ==
  ASSUME TypeOK, ArrivedInOrder, HandlerSound, [Next]_vars
  PROVE  TypeOK'
<1>1. CASE UNCHANGED vars
  BY <1>1 DEF vars, stream, TypeOK
<1>2. ASSUME NEW m \in Messages, TaskStep(m)
      PROVE  TypeOK'
  <2>1. CASE Enter(m)
    <3>1. key[m] \in Keys
      BY <1>2, <2>1 DEF Enter, ArrivedInOrder
    <3>2. stage' \in [Messages -> Stages]
      <4>1. \/ stage' = [stage EXCEPT ![m] = "asking"]
            \/ stage' = [stage EXCEPT ![m] = "opening"]
        BY <2>1 DEF Enter, SetStage
      <4>2. stage \in [Messages -> Stages] /\ {"asking", "opening"} \subseteq Stages
        BY DEF TypeOK, Stages
      <4>3. QED
        BY <4>1, <4>2
    <3>3. /\ context' \in [Messages -> Seq(Turns)]
          /\ \A n \in Messages : Len(context'[n]) <= MaxTurns
      <4>1. /\ history[key[m]] \in Seq(Turns) /\ Len(history[key[m]]) <= MaxTurns
            /\ context \in [Messages -> Seq(Turns)]
            /\ \A n \in Messages : Len(context[n]) <= MaxTurns
        BY <3>1 DEF TypeOK
      <4>2. \/ context' = context
            \/ context' = [context EXCEPT ![m] = history[key[m]]]
        BY <2>1 DEF Enter
      <4>3. QED
        BY <4>1, <4>2
    <3>4. QED
      BY <2>1, <3>2, <3>3 DEF Enter, TypeOK, stream
  <2>2. CASE Open(m)
    <3>1. key[m] \in Keys
      BY <1>2, <2>2 DEF Open, ArrivedInOrder
    <3>2. QED
      BY <2>2, <3>1 DEF Open, TypeOK, Stages, SetStage, Show, stream,
         ContextTaken
  <2>3. CASE OpenFails(m)
    BY <2>3 DEF OpenFails, TypeOK, Stages, SetStage, Show, stream
  <2>4. CASE Token(m)
    BY <2>4 DEF Token, TypeOK, Stages, SetStage, Show, stream
  <2>5. CASE Result(m)
    BY <2>5 DEF Result, TypeOK, Stages, SetStage, Show, stream
  <2>6. CASE ProviderFails(m)
    BY <2>6 DEF ProviderFails, TypeOK, Stages, SetStage, Show, stream
  <2>7. CASE GuardAborts(m)
    BY <2>7 DEF GuardAborts, TypeOK, Stages, SetStage, Show, stream
  <2>8. CASE StreamEnds(m)
    BY <2>8 DEF StreamEnds, TypeOK, Stages, SetStage, Show, stream
  <2>9. CASE Discard(m)
    BY <2>9 DEF Discard, TypeOK, Stages, SetStage, Show, stream, Verdict
  <2>10. CASE Repair(m)
    <3>1. key[m] \in Keys
      BY <1>2, <2>10 DEF Repair, ArrivedInOrder
    <3>2. QED
      BY <2>10, <3>1 DEF Repair, TypeOK, Stages, SetStage, Show, stream,
         ContextTaken
  <2>11. CASE Complete(m)
    BY <2>11 DEF Complete, TypeOK, Stages, SetStage, Show, stream, Verdict
  <2>12. CASE Enforce(m)
    BY <2>12 DEF Enforce, TypeOK, Stages, SetStage, Show, stream
  <2>13. CASE Save(m)
    <3>1. key[m] \in Keys
      BY <1>2, <2>13 DEF Save, ArrivedInOrder, Unsaved
    <3>2. /\ SavePair(history[key[m]], m) \in Seq(Turns)
          /\ Len(SavePair(history[key[m]], m)) <= MaxTurns
      BY <3>1, SavePairType DEF TypeOK
    <3>3. /\ history' \in [Keys -> Seq(Turns)]
          /\ \A k \in Keys : Len(history'[k]) <= MaxTurns
      BY <2>13, <3>1, <3>2 DEF Save, AddToHistory, TypeOK
    <3>4. QED
      BY <2>13, <3>3 DEF Save, TypeOK, Stages, SetStage, Show, stream,
         AfterAnswer
  <2>14. CASE Answered(m)
    <3>1. key[m] \in Keys
      BY <1>2, <2>14 DEF Answered, ArrivedInOrder
    <3>2. /\ SavePair(history[key[m]], m) \in Seq(Turns)
          /\ Len(SavePair(history[key[m]], m)) <= MaxTurns
      BY <3>1, SavePairType DEF TypeOK
    <3>3. /\ history' \in [Keys -> Seq(Turns)]
          /\ \A k \in Keys : Len(history'[k]) <= MaxTurns
      BY <2>14, <3>1, <3>2 DEF Answered, AddToHistory, TypeOK
    <3>4. QED
      BY <2>14, <3>3 DEF Answered, TypeOK, Stages, SetStage, Show,
         stream, AfterAnswer
  <2>15. CASE NotAnswered(m)
    BY <2>15 DEF NotAnswered, TypeOK, Stages, SetStage, Show, stream, Legacy
  <2>16. CASE Raise(m)
    BY <2>16 DEF Raise, TypeOK, Stages, SetStage, Show, stream
  <2>17. CASE Leave(m)
    <3>1. /\ stage' \in [Messages -> Stages]
          /\ session' \in [Keys -> Messages \cup {None}]
          /\ tasks' \in [Keys -> Messages \cup {None}]
          /\ handler' \in [op : HandlerOps, key : Keys \cup {None},
                           target : Messages \cup {None}]
      BY <2>17 DEF Leave, TypeOK, Stages, SetStage, Idle, HandlerOps
    <3>2. /\ context' \in [Messages -> Seq(Turns)]
          /\ \A n \in Messages : Len(context'[n]) <= MaxTurns
      BY <2>17, EmptyType DEF Leave, TypeOK
    <3>3. /\ final' \in [Messages -> {"none", "partial", "whole"}]
          /\ shown' \in [Messages ->
               {"nothing", "placeholder", "partial", "answer", "error"}]
      BY <2>17 DEF Leave, TypeOK, Show
    <3>4. QED
      BY <2>17, <3>1, <3>2, <3>3 DEF Leave, TypeOK
  <2>18. QED
    BY <1>2, <2>1, <2>2, <2>3, <2>4, <2>5, <2>6, <2>7, <2>8, <2>9, <2>10,
       <2>11, <2>12, <2>13, <2>14, <2>15, <2>16, <2>17 DEF TaskStep
<1>3. ASSUME NEW m \in Messages, NEW k \in Keys, ReceiveStreaming(m, k)
      PROVE  TypeOK'
  BY <1>3 DEF ReceiveStreaming, Arrives, SetStage, TypeOK, Stages, stream
<1>4. ASSUME NEW m \in Messages, NEW k \in Keys, ReceiveLegacy(m, k)
      PROVE  TypeOK'
  BY <1>4 DEF ReceiveLegacy, Arrives, SetStage, TypeOK, Stages, stream,
              Handling, HandlerOps
<1>5. ASSUME NEW k \in Keys, Stop(k)
      PROVE  TypeOK'
  BY <1>5 DEF Stop, TypeOK
<1>6. ASSUME NEW k \in Keys, Reset(k)
      PROVE  TypeOK'
  <2>1. CASE session[k] = None
    <3>1. Wipe(k)
      BY <1>6, <2>1 DEF Reset
    <3>2. QED
      BY <1>6, <3>1, WipeType DEF Reset, TypeOK, stream
  <2>2. CASE session[k] # None
    <3>1. session[k] \in Messages
      BY <2>2 DEF TypeOK
    <3>2. QED
      BY <1>6, <2>2, <3>1 DEF Reset, Handling, HandlerOps, TypeOK, stream
  <2>3. QED
    BY <2>1, <2>2
<1>7. ASSUME NEW k \in Keys, Announce(k) \/ Debate(k)
      PROVE  TypeOK'
  <2>1. ASSUME NEW h \in Seq(Turns), Len(h) <= MaxTurns,
               history' = [history EXCEPT ![k] = h]
        PROVE  /\ history' \in [Keys -> Seq(Turns)]
               /\ \A n \in Keys : Len(history'[n]) <= MaxTurns
    BY <2>1 DEF TypeOK
  <2>2. /\ history' \in [Keys -> Seq(Turns)]
        /\ \A n \in Keys : Len(history'[n]) <= MaxTurns
    <3>1. CASE Announce(k)
      BY <3>1, <2>1, NoteType DEF Announce
    <3>2. CASE Debate(k)
      BY <3>2, <2>1, NoteType DEF Debate
    <3>3. QED
      BY <1>7, <3>1, <3>2
  <2>3. QED
    BY <1>7, <2>2 DEF Announce, Debate, TypeOK, stream
<1>8. CASE HandlerStep
  <2>1. CASE ResetStreamGone \/ ResetForced
    <3>1. handler.key \in Keys /\ Wipe(handler.key)
      BY <2>1 DEF ResetStreamGone, ResetForced, HandlerSound
    <3>2. QED
      BY <2>1, <3>1, WipeType DEF ResetStreamGone, ResetForced, TypeOK, stream
  <2>2. CASE ResetTimesOut
    BY <2>2 DEF ResetTimesOut, HandlerSound, HandlerOps, TypeOK
  <2>3. CASE ResetReplied
    <3>1. handler.key \in Keys
      BY <2>3 DEF ResetReplied, HandlerSound
    <3>2. /\ history' \in [Keys -> Seq(Turns)]
          /\ \A n \in Keys : Len(history'[n]) <= MaxTurns
      <4>1. CASE UNCHANGED history
        BY <4>1 DEF TypeOK
      <4>2. CASE history' = [history EXCEPT
                   ![handler.key] = SaveTurn(@, Turn(0, "assistant"))]
        BY <4>2, <3>1, NoteType DEF TypeOK
      <4>3. QED
        BY <2>3, <4>1, <4>2 DEF ResetReplied
    <3>3. QED
      BY <2>3, <3>2 DEF ResetReplied, Idle, HandlerOps, TypeOK, stream
  <2>4. QED
    BY <1>8, <2>1, <2>2, <2>3 DEF HandlerStep
<1>9. QED
  BY CommandAssumption, <1>1, <1>2, <1>3, <1>4, <1>5, <1>6, <1>7, <1>8 DEF Next

-----------------------------------------------------------------------------
(* What a step may do                                                     *)

(* A task at work moves on, and from its last edits only to its end.       *)
Advances(m) ==
  /\ stage[m] \in Stages \ {"absent", "waiting", "done"}
  /\ key' = key
  /\ \E s \in Stages \ {"absent", "waiting"} :
       /\ stage' = [stage EXCEPT ![m] = s]
       /\ stage[m] = "leaving" => s = "done"

LEMMA TaskAdvances ==
  ASSUME TypeOK, NEW m \in Messages, TaskStep(m)
  PROVE  Enter(m) \/ Advances(m) \/ UNCHANGED <<key, stage>>
<1>1. CASE Enter(m)
  BY <1>1
<1>2. CASE Open(m)
  BY <1>2 DEF Open, Advances, SetStage, Stages
<1>3. CASE OpenFails(m)
  BY <1>3 DEF OpenFails, Advances, SetStage, Stages
<1>4. CASE Token(m)
  BY <1>4 DEF Token
<1>5. CASE Result(m)
  BY <1>5 DEF Result
<1>6. CASE ProviderFails(m)
  BY <1>6 DEF ProviderFails, Advances, SetStage, Stages
<1>7. CASE GuardAborts(m)
  BY <1>7 DEF GuardAborts, Advances, SetStage, Stages
<1>8. CASE StreamEnds(m)
  BY <1>8 DEF StreamEnds, Advances, SetStage, Stages
<1>9. CASE Discard(m)
  BY <1>9 DEF Discard, Advances, SetStage, Stages
<1>10. CASE Repair(m)
  BY <1>10 DEF Repair, Advances, SetStage, Stages
<1>11. CASE Complete(m)
  BY <1>11 DEF Complete, Advances, SetStage, Stages
<1>12. CASE Enforce(m)
  BY <1>12 DEF Enforce, Advances, SetStage, Stages, Unsaved
<1>13. CASE Save(m)
  BY <1>13 DEF Save, Advances, SetStage, Stages, Unsaved
<1>14. CASE Answered(m)
  BY <1>14 DEF Answered, Advances, SetStage, Stages, AfterAnswer
<1>15. CASE NotAnswered(m)
  BY <1>15 DEF NotAnswered, Advances, SetStage, Stages
<1>16. CASE Raise(m)
  BY <1>16 DEF Raise, Advances, SetStage, Stages
<1>17. CASE Leave(m)
  BY <1>17 DEF Leave, Advances, SetStage, Stages
<1>18. QED
  BY <1>1, <1>2, <1>3, <1>4, <1>5, <1>6, <1>7, <1>8, <1>9, <1>10, <1>11,
     <1>12, <1>13, <1>14, <1>15, <1>16, <1>17 DEF TaskStep

LEMMA StageStep ==
  ASSUME TypeOK, [Next]_vars
  PROVE  \/ UNCHANGED <<key, stage>>
         \/ \E m \in Messages, k \in Keys : Arrives(m, k)
         \/ \E m \in Messages : Enter(m) \/ Advances(m)
<1>1. CASE UNCHANGED vars
  BY <1>1 DEF vars
<1>2. CASE \E m \in Messages : TaskStep(m)
  BY <1>2, TaskAdvances
<1>3. CASE \E m \in Messages, k \in Keys :
             ReceiveStreaming(m, k) \/ ReceiveLegacy(m, k)
  BY <1>3 DEF ReceiveStreaming, ReceiveLegacy
<1>4. CASE \E k \in CommandKeys : Stop(k) \/ Reset(k) \/ Announce(k) \/ Debate(k)
  BY <1>4 DEF Stop, Reset, Announce, Debate
<1>5. CASE HandlerStep
  BY <1>5 DEF HandlerStep, ResetStreamGone, ResetTimesOut, ResetForced,
              ResetReplied
<1>6. QED
  BY <1>1, <1>2, <1>3, <1>4, <1>5 DEF Next

LEMMA ArrivalStep ==
  ASSUME TypeOK, ArrivedInOrder, [Next]_vars
  PROVE  ArrivedInOrder'
<1>1. CASE UNCHANGED <<key, stage>>
  BY <1>1 DEF ArrivedInOrder
<1>2. ASSUME NEW m \in Messages, NEW k \in Keys, Arrives(m, k)
      PROVE  ArrivedInOrder'
  BY <1>2 DEF Arrives, SetStage, ArrivedInOrder, TypeOK
<1>3. ASSUME NEW m \in Messages, Enter(m) \/ Advances(m)
      PROVE  ArrivedInOrder'
  <2>1. /\ key' = key /\ stage[m] # "absent"
        /\ \E s \in Stages \ {"absent"} : stage' = [stage EXCEPT ![m] = s]
    BY <1>3 DEF Enter, Advances, SetStage, Stages
  <2>2. QED
    BY <2>1 DEF ArrivedInOrder, TypeOK
<1>4. QED
  BY <1>1, <1>2, <1>3, StageStep

LEMMA TakingStep ==
  ASSUME TypeOK, ArrivedInOrder, TakenInOrder, [Next]_vars
  PROVE  TakenInOrder'
<1>1. CASE UNCHANGED <<key, stage>>
  BY <1>1 DEF TakenInOrder, Started, User
<1>2. ASSUME NEW m \in Messages, NEW k \in Keys, Arrives(m, k)
      PROVE  TakenInOrder'
  <2>1. ASSUME NEW x \in Messages, x \in Started', NEW n \in Messages,
               n < x, User(n)' = User(x)'
        PROVE  stage'[n] = "done"
    <3>1. x # m /\ x \in Started /\ User(x)' = User(x)
      BY <1>2, <2>1 DEF Arrives, SetStage, Started, TypeOK, User
    <3>2. n # m
      BY <1>2, <2>1, <3>1 DEF Arrives, Started, ArrivedInOrder
    <3>3. User(n)' = User(n)
      BY <1>2, <3>2 DEF Arrives, User, TypeOK
    <3>4. stage[n] = "done"
      BY <2>1, <3>1, <3>3 DEF TakenInOrder
    <3>5. QED
      BY <1>2, <3>2, <3>4 DEF Arrives, SetStage, TypeOK
  <2>2. QED
    BY <2>1 DEF TakenInOrder, Started
<1>3. ASSUME NEW m \in Messages, Enter(m) \/ Advances(m)
      PROVE  TakenInOrder'
  <2>1. /\ key' = key /\ stage[m] # "done"
        /\ \E s \in Stages \ {"absent"} : stage' = [stage EXCEPT ![m] = s]
    BY <1>3 DEF Enter, Advances, SetStage, Stages
  <2>2. \A n \in Messages : User(n)' = User(n)
    BY <2>1 DEF User
  <2>3. \A n \in Messages : stage[n] = "done" => stage'[n] = "done"
    BY <2>1 DEF TypeOK
  <2>4. \A n \in Messages : n < m /\ User(n) = User(m) => stage[n] = "done"
    BY <1>3 DEF Enter, HoldsLock, Advances, TakenInOrder, Started
  <2>5. ASSUME NEW x \in Messages, x \in Started', NEW n \in Messages,
               n < x, User(n) = User(x)
        PROVE  stage[n] = "done"
    <3>1. x = m \/ x \in Started
      BY <2>1, <2>5 DEF Started, TypeOK
    <3>2. QED
      BY <2>4, <2>5, <3>1 DEF TakenInOrder
  <2>6. QED
    BY <2>2, <2>3, <2>5 DEF TakenInOrder, Started
<1>4. QED
  BY <1>1, <1>2, <1>3, StageStep

(* The history changes by a save, by a reset, or by a reply of the bot.    *)
Saves(m) ==
  /\ AtWork(m)
  /\ AddToHistory(m)
  /\ stage' = [stage EXCEPT ![m] = "leaving"]
  /\ UNCHANGED <<key, context>>

Notes(k) ==
  /\ \/ history' = [history EXCEPT ![k] = <<>>]
     \/ history' = [history EXCEPT ![k] = SaveTurn(@, Turn(0, "assistant"))]
     \/ history' = [history EXCEPT ![k] = SavePair(@, 0)]
  /\ UNCHANGED <<key, stage, context>>

LEMMA HistoryStep ==
  ASSUME HandlerSound, [Next]_vars
  PROVE  \/ UNCHANGED history
         \/ \E m \in Messages : Saves(m)
         \/ \E k \in Keys : Notes(k)
<1>1. CASE UNCHANGED vars
  BY <1>1 DEF vars
<1>2. ASSUME NEW m \in Messages, TaskStep(m)
      PROVE  UNCHANGED history \/ Saves(m)
  <2>1. CASE Enter(m)
    BY <2>1 DEF Enter
  <2>2. CASE Open(m)
    BY <2>2 DEF Open
  <2>3. CASE OpenFails(m)
    BY <2>3 DEF OpenFails
  <2>4. CASE Token(m)
    BY <2>4 DEF Token
  <2>5. CASE Result(m)
    BY <2>5 DEF Result
  <2>6. CASE ProviderFails(m)
    BY <2>6 DEF ProviderFails
  <2>7. CASE GuardAborts(m)
    BY <2>7 DEF GuardAborts
  <2>8. CASE StreamEnds(m)
    BY <2>8 DEF StreamEnds
  <2>9. CASE Discard(m)
    BY <2>9 DEF Discard
  <2>10. CASE Repair(m)
    BY <2>10 DEF Repair
  <2>11. CASE Complete(m)
    BY <2>11 DEF Complete
  <2>12. CASE Enforce(m)
    BY <2>12 DEF Enforce
  <2>13. CASE Save(m)
    BY <2>13 DEF Save, Saves, Unsaved, AtWork, SetStage
  <2>14. CASE Answered(m)
    BY <2>14 DEF Answered, Saves, AtWork, SetStage, AfterAnswer
  <2>15. CASE NotAnswered(m)
    BY <2>15 DEF NotAnswered
  <2>16. CASE Raise(m)
    BY <2>16 DEF Raise
  <2>17. CASE Leave(m)
    BY <2>17 DEF Leave
  <2>18. QED
    BY <1>2, <2>1, <2>2, <2>3, <2>4, <2>5, <2>6, <2>7, <2>8, <2>9, <2>10,
       <2>11, <2>12, <2>13, <2>14, <2>15, <2>16, <2>17 DEF TaskStep
<1>3. CASE \E m \in Messages, k \in Keys :
             ReceiveStreaming(m, k) \/ ReceiveLegacy(m, k)
  BY <1>3 DEF ReceiveStreaming, ReceiveLegacy, Arrives
<1>4. ASSUME NEW k \in Keys, Stop(k) \/ Reset(k) \/ Announce(k) \/ Debate(k)
      PROVE  UNCHANGED history \/ Notes(k)
  BY <1>4 DEF Stop, Reset, Wipe, Announce, Debate, Notes
<1>5. CASE HandlerStep
  <2>1. CASE ResetTimesOut
    BY <2>1 DEF ResetTimesOut
  <2>2. CASE ResetStreamGone \/ ResetForced \/ ResetReplied
    <3>1. handler.key \in Keys
      BY <2>2 DEF ResetStreamGone, ResetForced, ResetReplied, HandlerSound
    <3>2. UNCHANGED history \/ Notes(handler.key)
      BY <2>2 DEF ResetStreamGone, ResetForced, ResetReplied, Wipe, Notes
    <3>3. QED
      BY <3>1, <3>2
  <2>3. QED
    BY <1>5, <2>1, <2>2 DEF HandlerStep
<1>6. QED
  BY CommandAssumption, <1>1, <1>2, <1>3, <1>4, <1>5 DEF Next

-----------------------------------------------------------------------------
(* Tasks at work and the handler                                           *)

(* Two tasks at work are not the same user's.                              *)
LEMMA OneAtWork ==
  ASSUME TakenInOrder, NEW x \in Inside, NEW y \in Inside, User(x) = User(y)
  PROVE  x = y
<1>1. /\ x \in Started /\ y \in Started /\ stage[x] # "done"
      /\ stage[y] # "done" /\ x \in Messages /\ y \in Messages
  BY DEF Inside, Started
<1>2. ~(x < y) /\ ~(y < x)
  BY <1>1 DEF TakenInOrder
<1>3. QED
  BY <1>1, <1>2, CountAssumption DEF Messages

(* Only a task's end frees the handler that serves it, and only a          *)
(* background task registers a session.                                    *)
LEMMA HandlerTask ==
  ASSUME TypeOK, HandlerSound, NEW m \in Messages, TaskStep(m), ~Leave(m)
  PROVE  /\ handler' = handler
         /\ \A x \in Messages : x # m => stage'[x] = stage[x]
         /\ Legacy(m) => stage'[m] \in {"asking", "leaving"}
         /\ session' = session \/ (Open(m) /\ ~Legacy(m))
<1>1. Legacy(m) => stage[m] \in {"waiting", "asking", "leaving"}
  BY DEF Legacy, HandlerSound
<1>2. CASE Enter(m)
  BY <1>1, <1>2 DEF Enter, SetStage, TypeOK, Stages, AfterAnswer, Unsaved,
     Streaming
<1>3. CASE Open(m)
  BY <1>1, <1>3 DEF Open, SetStage, TypeOK, Stages, AfterAnswer, Unsaved,
     Streaming
<1>4. CASE OpenFails(m)
  BY <1>1, <1>4 DEF OpenFails, SetStage, TypeOK, Stages, AfterAnswer,
     Unsaved, Streaming
<1>5. CASE Token(m)
  BY <1>1, <1>5 DEF Token, SetStage, TypeOK, Stages, AfterAnswer, Unsaved,
     Streaming
<1>6. CASE Result(m)
  BY <1>1, <1>6 DEF Result, SetStage, TypeOK, Stages, AfterAnswer, Unsaved,
     Streaming
<1>7. CASE ProviderFails(m)
  BY <1>1, <1>7 DEF ProviderFails, SetStage, TypeOK, Stages, AfterAnswer,
     Unsaved, Streaming
<1>8. CASE GuardAborts(m)
  BY <1>1, <1>8 DEF GuardAborts, SetStage, TypeOK, Stages, AfterAnswer,
     Unsaved, Streaming
<1>9. CASE StreamEnds(m)
  BY <1>1, <1>9 DEF StreamEnds, SetStage, TypeOK, Stages, AfterAnswer,
     Unsaved, Streaming
<1>10. CASE Discard(m)
  BY <1>1, <1>10 DEF Discard, SetStage, TypeOK, Stages, AfterAnswer, Unsaved,
     Streaming
<1>11. CASE Repair(m)
  BY <1>1, <1>11 DEF Repair, SetStage, TypeOK, Stages, AfterAnswer, Unsaved,
     Streaming
<1>12. CASE Complete(m)
  BY <1>1, <1>12 DEF Complete, SetStage, TypeOK, Stages, AfterAnswer,
     Unsaved, Streaming
<1>13. CASE Enforce(m)
  BY <1>1, <1>13 DEF Enforce, SetStage, TypeOK, Stages, AfterAnswer, Unsaved,
     Streaming
<1>14. CASE Save(m)
  BY <1>1, <1>14 DEF Save, SetStage, TypeOK, Stages, AfterAnswer, Unsaved,
     Streaming
<1>15. CASE Answered(m)
  BY <1>1, <1>15 DEF Answered, SetStage, TypeOK, Stages, AfterAnswer,
     Unsaved, Streaming
<1>16. CASE NotAnswered(m)
  BY <1>1, <1>16 DEF NotAnswered, SetStage, TypeOK, Stages, AfterAnswer,
     Unsaved, Streaming
<1>17. CASE Raise(m)
  BY <1>1, <1>17 DEF Raise, SetStage, TypeOK, Stages, AfterAnswer, Unsaved,
     Streaming
<1>18. QED
  BY <1>2, <1>3, <1>4, <1>5, <1>6, <1>7, <1>8, <1>9, <1>10, <1>11,
     <1>12, <1>13, <1>14, <1>15, <1>16, <1>17 DEF TaskStep

LEMMA HandlerInv ==
  ASSUME TypeOK, HandlerSound, ActiveStreamIsReachable, [Next]_vars
  PROVE  HandlerSound'
<1>1. CASE UNCHANGED vars
  BY <1>1 DEF vars, HandlerSound
<1>2. ASSUME NEW m \in Messages, TaskStep(m), ~Leave(m)
      PROVE  HandlerSound'
  <2>1. /\ handler' = handler
        /\ \A x \in Messages : x # m => stage'[x] = stage[x]
        /\ Legacy(m) => stage'[m] \in {"asking", "leaving"}
        /\ session' = session \/ (Open(m) /\ ~Legacy(m))
    BY <1>2, HandlerTask
  <2>2. handler.op = "legacy" =>
          \A k \in Keys : session'[k] # handler.target
    <3>1. CASE session' = session
      BY <3>1 DEF HandlerSound
    <3>2. CASE Open(m) /\ ~Legacy(m)
      BY <3>2 DEF HandlerSound, Open, Legacy, TypeOK
    <3>3. QED
      BY <2>1, <3>1, <3>2
  <2>3. handler.op = "legacy" =>
          stage'[handler.target] \in {"waiting", "asking", "leaving"}
    BY <2>1 DEF HandlerSound, Legacy
  <2>4. QED
    BY <2>1, <2>2, <2>3 DEF HandlerSound
<1>3. ASSUME NEW m \in Messages, Leave(m)
      PROVE  HandlerSound'
  <2>1. CASE Legacy(m)
    BY <1>3, <2>1 DEF Leave, Idle, HandlerSound
  <2>2. CASE ~Legacy(m)
    <3>1. handler' = handler
      BY <1>3, <2>2 DEF Leave
    <3>2. \A x \in Messages : x # m => stage'[x] = stage[x]
      BY <1>3 DEF Leave, SetStage, TypeOK
    <3>3. \A k \in Keys : session'[k] \in {session[k], None}
      BY <1>3, <2>2 DEF Leave, TypeOK
    <3>4. QED
      BY <2>2, <3>1, <3>2, <3>3, NoneAssumption DEF HandlerSound, Legacy
  <2>3. QED
    BY <2>1, <2>2
<1>4. ASSUME NEW m \in Messages, NEW k \in Keys, ReceiveStreaming(m, k)
      PROVE  HandlerSound'
  BY <1>4 DEF ReceiveStreaming, Arrives, Idle, HandlerSound
<1>5. ASSUME NEW m \in Messages, NEW k \in Keys, ReceiveLegacy(m, k)
      PROVE  HandlerSound'
  <2>1. \A x \in Keys : session[x] # m
    <3>1. m # None /\ stage[m] = "absent"
      BY <1>5, NoneAssumption DEF ReceiveLegacy, Arrives
    <3>2. ~InSession(m) /\ stage[m] # "leaving"
      BY <3>1 DEF InSession
    <3>3. QED
      BY <3>1, <3>2 DEF ActiveStreamIsReachable
  <2>2. /\ handler' = Handling("legacy", k, m) /\ session' = session
        /\ stage'[m] = "waiting"
    BY <1>5 DEF ReceiveLegacy, Arrives, SetStage, TypeOK
  <2>3. QED
    BY <2>1, <2>2 DEF Handling, HandlerSound
<1>6. ASSUME NEW k \in Keys, Stop(k) \/ Announce(k) \/ Debate(k)
      PROVE  HandlerSound'
  BY <1>6 DEF Stop, Announce, Debate, HandlerSound, Idle
<1>7. ASSUME NEW k \in Keys, Reset(k)
      PROVE  HandlerSound'
  <2>1. session[k] # None => session[k] \in Messages
    BY DEF TypeOK
  <2>2. QED
    BY <1>7, <2>1 DEF Reset, Wipe, Handling, HandlerSound
<1>8. CASE HandlerStep
  <2>1. CASE ResetStreamGone \/ ResetForced
    BY <2>1 DEF ResetStreamGone, ResetForced, Wipe, Handling, HandlerSound
  <2>2. CASE ResetTimesOut
    BY <2>2 DEF ResetTimesOut, HandlerSound, TypeOK
  <2>3. CASE ResetReplied
    BY <2>3 DEF ResetReplied, Idle, HandlerSound
  <2>4. QED
    BY <1>8, <2>1, <2>2, <2>3 DEF HandlerStep
<1>9. QED
  BY CommandAssumption, <1>1, <1>2, <1>3, <1>4, <1>5, <1>6, <1>7, <1>8 DEF Next

-----------------------------------------------------------------------------
(* Sessions                                                                *)

(* A task keeps the path it is served on until it ends.                    *)
LEMMA LegacyStable ==
  ASSUME TypeOK, HandlerSound, [Next]_vars, NEW m \in Messages,
         stage[m] # "absent", stage'[m] # "done"
  PROVE  Legacy(m)' = Legacy(m)
<1>1. CASE UNCHANGED vars
  BY <1>1 DEF vars, Legacy
<1>2. ASSUME NEW n \in Messages, TaskStep(n), ~Leave(n)
      PROVE  Legacy(m)' = Legacy(m)
  <2>1. handler' = handler
    BY <1>2, HandlerTask
  <2>2. QED
    BY <2>1 DEF Legacy
<1>3. ASSUME NEW n \in Messages, Leave(n)
      PROVE  Legacy(m)' = Legacy(m)
  <2>1. m # n
    BY <1>3 DEF Leave, SetStage, TypeOK
  <2>2. QED
    BY <1>3, <2>1 DEF Leave, Legacy, Idle
<1>4. ASSUME NEW n \in Messages, NEW k \in Keys,
             ReceiveStreaming(n, k) \/ ReceiveLegacy(n, k)
      PROVE  Legacy(m)' = Legacy(m)
  BY <1>4 DEF ReceiveStreaming, ReceiveLegacy, Arrives, Legacy, Handling, Idle
<1>5. ASSUME NEW k \in Keys, Stop(k) \/ Reset(k) \/ Announce(k) \/ Debate(k)
      PROVE  Legacy(m)' = Legacy(m)
  BY <1>5 DEF Stop, Reset, Wipe, Announce, Debate, Legacy, Handling, Idle
<1>6. CASE HandlerStep
  <2>1. handler.op # "legacy"
    BY <1>6 DEF HandlerStep, ResetStreamGone, ResetTimesOut, ResetForced,
       ResetReplied
  <2>2. handler'.op # "legacy"
    BY <1>6 DEF HandlerStep, ResetStreamGone, ResetTimesOut, ResetForced,
       ResetReplied, Wipe, Handling, Idle, TypeOK
  <2>3. QED
    BY <2>1, <2>2 DEF Legacy
<1>7. QED
  BY CommandAssumption, <1>1, <1>2, <1>3, <1>4, <1>5, <1>6 DEF Next

(* What has a session, or had one and is leaving.                          *)
Registered(m) == ~Legacy(m) /\ (InSession(m) \/ stage[m] = "leaving")

LEMMA SessionTask ==
  ASSUME TypeOK, HandlerSound, NEW m \in Messages, TaskStep(m),
         ~Open(m), ~Leave(m)
  PROVE  /\ session' = session /\ key' = key
         /\ InSession(m)' => InSession(m)
         /\ Registered(m) => Registered(m)'
<1>1. /\ handler' = handler
      /\ Legacy(m) => stage[m] \in {"waiting", "asking", "leaving"}
  BY HandlerTask DEF Legacy, HandlerSound
<1>2. Legacy(m)' = Legacy(m)
  BY <1>1 DEF Legacy
<1>3. CASE Enter(m)
  BY <1>1, <1>2, <1>3 DEF Enter, SetStage, TypeOK, Unsaved, AfterAnswer,
     InSession, Registered
<1>4. CASE OpenFails(m)
  BY <1>1, <1>2, <1>4 DEF OpenFails, SetStage, TypeOK, Unsaved, AfterAnswer,
     InSession, Registered
<1>5. CASE Token(m)
  BY <1>1, <1>2, <1>5 DEF Token, SetStage, TypeOK, Unsaved, AfterAnswer,
     InSession, Registered
<1>6. CASE Result(m)
  BY <1>1, <1>2, <1>6 DEF Result, SetStage, TypeOK, Unsaved, AfterAnswer,
     InSession, Registered
<1>7. CASE ProviderFails(m)
  BY <1>1, <1>2, <1>7 DEF ProviderFails, SetStage, TypeOK, Unsaved,
     AfterAnswer, InSession, Registered
<1>8. CASE GuardAborts(m)
  BY <1>1, <1>2, <1>8 DEF GuardAborts, SetStage, TypeOK, Unsaved,
     AfterAnswer, InSession, Registered
<1>9. CASE StreamEnds(m)
  BY <1>1, <1>2, <1>9 DEF StreamEnds, SetStage, TypeOK, Unsaved, AfterAnswer,
     InSession, Registered
<1>10. CASE Discard(m)
  BY <1>1, <1>2, <1>10 DEF Discard, SetStage, TypeOK, Unsaved, AfterAnswer,
     InSession, Registered
<1>11. CASE Repair(m)
  BY <1>1, <1>2, <1>11 DEF Repair, SetStage, TypeOK, Unsaved, AfterAnswer,
     InSession, Registered
<1>12. CASE Complete(m)
  BY <1>1, <1>2, <1>12 DEF Complete, SetStage, TypeOK, Unsaved, AfterAnswer,
     InSession, Registered
<1>13. CASE Enforce(m)
  BY <1>1, <1>2, <1>13 DEF Enforce, SetStage, TypeOK, Unsaved, AfterAnswer,
     InSession, Registered
<1>14. CASE Save(m)
  BY <1>1, <1>2, <1>14 DEF Save, SetStage, TypeOK, Unsaved, AfterAnswer,
     InSession, Registered
<1>15. CASE Answered(m)
  BY <1>1, <1>2, <1>15 DEF Answered, SetStage, TypeOK, Unsaved, AfterAnswer,
     InSession, Registered
<1>16. CASE NotAnswered(m)
  BY <1>1, <1>2, <1>16 DEF NotAnswered, SetStage, TypeOK, Unsaved,
     AfterAnswer, InSession, Registered
<1>17. CASE Raise(m)
  BY <1>1, <1>2, <1>17 DEF Raise, SetStage, TypeOK, Unsaved, AfterAnswer,
     InSession, Registered
<1>18. QED
  BY <1>3, <1>4, <1>5, <1>6, <1>7, <1>8, <1>9, <1>10, <1>11, <1>12,
     <1>13, <1>14, <1>15, <1>16, <1>17 DEF TaskStep

(* Every step but opening and leaving keeps the sessions.                  *)
LEMMA SessionStep ==
  ASSUME TypeOK, HandlerSound, [Next]_vars
  PROVE  \/ \E m \in Messages : Open(m) \/ Leave(m)
         \/ /\ session' = session
            /\ \A m \in Messages : stage[m] # "absent" => key'[m] = key[m]
            /\ \A m \in Messages : InSession(m)' => InSession(m)
            /\ \A m \in Messages : Registered(m) => Registered(m)'
<1>1. ASSUME UNCHANGED <<key, stage, session>>
      PROVE  /\ session' = session
             /\ \A m \in Messages : stage[m] # "absent" => key'[m] = key[m]
             /\ \A m \in Messages : InSession(m)' => InSession(m)
             /\ \A m \in Messages : Registered(m) => Registered(m)'
  BY <1>1, LegacyStable DEF InSession, Registered
<1>2. ASSUME NEW m \in Messages, TaskStep(m), ~Open(m), ~Leave(m)
      PROVE  /\ session' = session
             /\ \A x \in Messages : stage[x] # "absent" => key'[x] = key[x]
             /\ \A x \in Messages : InSession(x)' => InSession(x)
             /\ \A x \in Messages : Registered(x) => Registered(x)'
  <2>1. /\ session' = session /\ key' = key
        /\ InSession(m)' => InSession(m)
        /\ Registered(m) => Registered(m)'
    BY <1>2, SessionTask
  <2>2. handler' = handler /\ \A x \in Messages : x # m => stage'[x] = stage[x]
    BY <1>2, HandlerTask
  <2>3. \A x \in Messages :
          x # m => (InSession(x)' = InSession(x) /\ Registered(x)' = Registered(x))
    BY <2>2 DEF InSession, Registered, Legacy
  <2>4. QED
    BY <2>1, <2>3
<1>3. ASSUME NEW m \in Messages, NEW k \in Keys,
             ReceiveStreaming(m, k) \/ ReceiveLegacy(m, k)
      PROVE  /\ session' = session
             /\ \A x \in Messages : stage[x] # "absent" => key'[x] = key[x]
             /\ \A x \in Messages : InSession(x)' => InSession(x)
             /\ \A x \in Messages : Registered(x) => Registered(x)'
  <2>1. /\ session' = session /\ key' = [key EXCEPT ![m] = k]
        /\ stage' = [stage EXCEPT ![m] = "waiting"] /\ stage[m] = "absent"
    BY <1>3 DEF ReceiveStreaming, ReceiveLegacy, Arrives, SetStage
  <2>2. \A x \in Messages : stage[x] # "absent" =>
          key'[x] = key[x] /\ stage'[x] = stage[x]
    BY <2>1 DEF TypeOK
  <2>3. ~InSession(m)' /\ ~Registered(m) /\ ~InSession(m)
    BY <2>1 DEF TypeOK, InSession, Registered
  <2>4. ASSUME NEW x \in Messages, x # m
        PROVE  (InSession(x)' => InSession(x)) /\ (Registered(x) => Registered(x)')
    <3>1. stage'[x] = stage[x]
      BY <2>1, <2>4 DEF TypeOK
    <3>2. stage[x] \notin {"absent", "done"} => Legacy(x)' = Legacy(x)
      BY <3>1, LegacyStable
    <3>3. QED
      BY <3>1, <3>2 DEF InSession, Registered
  <2>5. QED
    BY <2>1, <2>2, <2>3, <2>4
<1>4. CASE UNCHANGED vars
  BY <1>1, <1>4 DEF vars
<1>5. CASE \E k \in CommandKeys : Stop(k) \/ Reset(k) \/ Announce(k) \/ Debate(k)
  <2>1. UNCHANGED <<key, stage, session>>
    BY <1>5 DEF Stop, Reset, Announce, Debate
  <2>2. QED
    BY <1>1, <2>1
<1>6. CASE HandlerStep
  <2>1. UNCHANGED <<key, stage, session>>
    BY <1>6 DEF HandlerStep, ResetStreamGone, ResetTimesOut, ResetForced,
       ResetReplied
  <2>2. QED
    BY <1>1, <2>1
<1>7. QED
  BY <1>2, <1>3, <1>4, <1>5, <1>6 DEF Next

LEMMA SessionInv ==
  ASSUME TypeOK, ArrivedInOrder, TakenInOrder, HandlerSound,
         ActiveStreamIsReachable, [Next]_vars
  PROVE  ActiveStreamIsReachable'
<1>1. \A k \in Keys, m \in Messages : session[k] = m => Registered(m)
  BY DEF HandlerSound, Legacy, ActiveStreamIsReachable, Registered
<1>2. \A m \in Messages : InSession(m) \/ Registered(m) =>
        m \in Inside /\ stage[m] # "absent" /\ key[m] \in Keys
  BY DEF InSession, Registered, Inside, ArrivedInOrder
<1>3. CASE /\ session' = session
           /\ \A m \in Messages : stage[m] # "absent" => key'[m] = key[m]
           /\ \A m \in Messages : InSession(m)' => InSession(m)
           /\ \A m \in Messages : Registered(m) => Registered(m)'
  <2>1. ASSUME NEW m \in Messages, InSession(m)'
        PROVE  session'[key'[m]] = m
    BY <1>2, <1>3, <2>1 DEF ActiveStreamIsReachable
  <2>2. ASSUME NEW k \in Keys, NEW m \in Messages, session'[k] = m
        PROVE  key'[m] = k /\ (InSession(m)' \/ stage'[m] = "leaving")
    <3>1. key[m] = k /\ Registered(m)
      BY <1>1, <1>3, <2>2 DEF ActiveStreamIsReachable
    <3>2. key'[m] = k /\ Registered(m)'
      BY <1>2, <1>3, <3>1
    <3>3. QED
      BY <3>2 DEF Registered
  <2>3. QED
    BY <2>1, <2>2 DEF ActiveStreamIsReachable
<1>4. ASSUME NEW m \in Messages, Open(m)
      PROVE  ActiveStreamIsReachable'
  <2>1. /\ key' = key /\ handler' = handler
        /\ key[m] \in Keys /\ m \in Inside /\ stage[m] = "opening"
        /\ stage' = [stage EXCEPT ![m] = "streaming"]
        /\ session' = [session EXCEPT ![key[m]] = m]
    BY <1>4 DEF Open, SetStage, ArrivedInOrder, Inside
  <2>2. \A x \in Messages :
          x # m => InSession(x)' = InSession(x) /\ stage'[x] = stage[x]
    BY <2>1 DEF TypeOK, InSession, Legacy
  <2>3. InSession(m)' /\ ~InSession(m) /\ m # None
    BY <2>1, NoneAssumption DEF TypeOK, InSession
  <2>4. ASSUME NEW x \in Messages, x # m, InSession(x)
        PROVE  key[x] # key[m]
    BY <1>2, <2>1, <2>4, OneAtWork DEF User
  <2>5. ASSUME NEW x \in Messages, InSession(x)'
        PROVE  session'[key'[x]] = x
    <3>1. CASE x = m
      BY <2>1, <3>1 DEF TypeOK
    <3>2. CASE x # m
      <4>1. InSession(x) /\ key[x] # key[m] /\ key[x] \in Keys
        BY <1>2, <2>2, <2>4, <2>5, <3>2
      <4>2. QED
        BY <2>1, <4>1 DEF TypeOK, ActiveStreamIsReachable
    <3>3. QED
      BY <3>1, <3>2
  <2>6. ASSUME NEW k \in Keys, NEW x \in Messages, session'[k] = x
        PROVE  key'[x] = k /\ (InSession(x)' \/ stage'[x] = "leaving")
    <3>1. CASE k = key[m]
      BY <2>1, <2>3, <2>6, <3>1 DEF TypeOK
    <3>2. CASE k # key[m]
      <4>1. session[k] = x
        BY <2>1, <2>6, <3>2 DEF TypeOK
      <4>2. key[x] = k /\ x # m /\ (InSession(x) \/ stage[x] = "leaving")
        BY <3>2, <4>1 DEF ActiveStreamIsReachable
      <4>3. QED
        BY <2>1, <2>2, <4>2
    <3>3. QED
      BY <3>1, <3>2
  <2>7. QED
    BY <2>5, <2>6 DEF ActiveStreamIsReachable
<1>5. ASSUME NEW m \in Messages, Leave(m)
      PROVE  ActiveStreamIsReachable'
  <2>1. /\ key' = key /\ key[m] \in Keys /\ m \in Inside
        /\ stage[m] = "leaving" /\ stage' = [stage EXCEPT ![m] = "done"]
    BY <1>5 DEF Leave, SetStage, ArrivedInOrder, Inside
  <2>2. \A x \in Messages : x # m => stage'[x] = stage[x]
    BY <2>1 DEF TypeOK
  <2>3. \A x \in Messages : x # m /\ stage[x] \notin {"absent", "done"} =>
          Legacy(x)' = Legacy(x)
    <3>1. [Next]_vars
      OBVIOUS
    <3>2. QED
      BY <2>2, <3>1, LegacyStable
  <2>4. \A x \in Messages : x # m => InSession(x)' = InSession(x)
    BY <2>2, <2>3 DEF InSession
  <2>5. ~InSession(m)'
    BY <2>1 DEF TypeOK, InSession
  <2>6. ASSUME NEW x \in Messages, x # m, InSession(x)
        PROVE  key[x] # key[m]
    BY <1>2, <2>1, <2>6, OneAtWork DEF User
  <2>7. \A k \in Keys : session[k] = m => k = key[m] /\ ~Legacy(m)
    BY <2>1, NoneAssumption DEF ActiveStreamIsReachable, HandlerSound, Legacy
  <2>8. \A k \in Keys : session'[k] # m /\ session'[k] \in {session[k], None}
    <3>1. m # None
      BY NoneAssumption
    <3>2. CASE Legacy(m)
      BY <1>5, <2>7, <3>2 DEF Leave
    <3>3. CASE ~Legacy(m)
      BY <1>5, <2>7, <3>1, <3>3 DEF Leave, TypeOK
    <3>4. QED
      BY <3>2, <3>3
  <2>9. \A k \in Keys : k # key[m] => session'[k] = session[k]
    BY <1>5 DEF Leave, TypeOK
  <2>10. ASSUME NEW x \in Messages, InSession(x)'
         PROVE  session'[key'[x]] = x
    <3>1. x # m /\ InSession(x) /\ key[x] # key[m] /\ key[x] \in Keys
      BY <1>2, <2>4, <2>5, <2>6, <2>10
    <3>2. QED
      BY <2>1, <2>9, <3>1 DEF ActiveStreamIsReachable
  <2>11. ASSUME NEW k \in Keys, NEW x \in Messages, session'[k] = x
         PROVE  key'[x] = k /\ (InSession(x)' \/ stage'[x] = "leaving")
    <3>1. session[k] = x /\ x # m
      BY <2>8, <2>11, NoneAssumption
    <3>2. key[x] = k /\ (InSession(x) \/ stage[x] = "leaving")
      BY <3>1 DEF ActiveStreamIsReachable
    <3>3. QED
      BY <2>1, <2>2, <2>4, <3>1, <3>2
  <2>12. QED
    BY <2>10, <2>11 DEF ActiveStreamIsReachable
<1>6. QED
  BY <1>3, <1>4, <1>5, SessionStep

-----------------------------------------------------------------------------
(* Turns of finished messages                                              *)

(* A turn found after a step was there before or is of the message saved.  *)
LEMMA HistoryElements ==
  ASSUME TypeOK, HandlerSound, [Next]_vars,
         NEW k \in Keys, NEW i \in DOMAIN history'[k], history'[k][i].of # 0
  PROVE  \/ \E j \in DOMAIN history[k] : history'[k][i] = history[k][j]
         \/ \E m \in Messages :
              Saves(m) /\ key[m] = k /\ history'[k][i].of = m
<1>1. history[k] \in Seq(Turns) /\ Len(history[k]) <= MaxTurns
  BY DEF TypeOK
<1>2. CASE UNCHANGED history
  BY <1>2
<1>3. ASSUME NEW m \in Messages, Saves(m)
      PROVE  \/ \E j \in DOMAIN history[k] : history'[k][i] = history[k][j]
             \/ key[m] = k /\ history'[k][i].of = m
  <2>1. CASE key[m] # k
    BY <1>3, <2>1 DEF Saves, AddToHistory, TypeOK
  <2>2. CASE key[m] = k
    <3>1. history'[k] = SavePair(history[k], m)
      BY <1>3, <2>2 DEF Saves, AddToHistory, TypeOK
    <3>2. QED
      BY <1>1, <2>2, <3>1, SavePairElements
  <2>3. QED
    BY <2>1, <2>2
<1>4. ASSUME NEW n \in Keys, Notes(n)
      PROVE  \E j \in DOMAIN history[k] : history'[k][i] = history[k][j]
  <2>1. CASE n # k
    BY <1>4, <2>1 DEF Notes, TypeOK
  <2>2. CASE history'[k] = <<>>
    BY <2>2
  <2>3. CASE history'[k] = SaveTurn(history[k], Turn(0, "assistant"))
    <3>1. Turn(0, "assistant") \in Turns /\ Turn(0, "assistant").of = 0
      BY TurnType DEF Turn
    <3>2. QED
      BY <1>1, <2>3, <3>1, SaveTurnElements
  <2>4. CASE history'[k] = SavePair(history[k], 0)
    BY <1>1, <2>4, SavePairElements
  <2>5. QED
    BY <1>4, <2>1, <2>2, <2>3, <2>4 DEF Notes, TypeOK
<1>5. QED
  BY <1>2, <1>3, <1>4, HistoryStep

LEMMA ClosedStays ==
  ASSUME TypeOK, [Next]_vars, NEW m \in Messages,
         stage[m] \in {"leaving", "done"}
  PROVE  stage'[m] \in {"leaving", "done"} /\ key'[m] = key[m]
<1>1. ASSUME NEW n \in Messages, NEW k \in Keys, Arrives(n, k)
      PROVE  stage'[m] = stage[m] /\ key'[m] = key[m]
  BY <1>1 DEF Arrives, SetStage, TypeOK
<1>2. ASSUME NEW n \in Messages, Enter(n)
      PROVE  stage'[m] = stage[m] /\ key'[m] = key[m]
  BY <1>2 DEF Enter, SetStage, TypeOK
<1>3. ASSUME NEW n \in Messages, Advances(n)
      PROVE  stage'[m] \in {"leaving", "done"} /\ key'[m] = key[m]
  BY <1>3 DEF Advances, TypeOK
<1>4. QED
  BY <1>1, <1>2, <1>3, StageStep

LEMMA TurnsInv ==
  ASSUME TypeOK, HandlerSound, TurnsAreClosed, [Next]_vars
  PROVE  TurnsAreClosed'
<1> SUFFICES ASSUME NEW k \in Keys, NEW i \in DOMAIN history'[k],
                    NEW m, m = history'[k][i].of, m # 0
             PROVE  key'[m] = k /\ stage'[m] \in {"leaving", "done"}
  BY DEF TurnsAreClosed
<1>1. ASSUME NEW j \in DOMAIN history[k], history'[k][i] = history[k][j]
      PROVE  key'[m] = k /\ stage'[m] \in {"leaving", "done"}
  <2>1. key[m] = k /\ stage[m] \in {"leaving", "done"}
    BY <1>1 DEF TurnsAreClosed
  <2>2. m \in Messages
    <3>1. history[k] \in Seq(Turns)
      BY DEF TypeOK
    <3>2. history[k][j] \in Turns
      BY <3>1
    <3>3. QED
      BY <1>1, <3>2 DEF Turns
  <2>3. QED
    BY <2>1, <2>2, ClosedStays
<1>2. ASSUME NEW x \in Messages, Saves(x), key[x] = k, history'[k][i].of = x
      PROVE  key'[m] = k /\ stage'[m] \in {"leaving", "done"}
  BY <1>2 DEF Saves, TypeOK
<1>3. QED
  BY <1>1, <1>2, HistoryElements

-----------------------------------------------------------------------------
(* The prompt covers the history                                           *)

(* A task at work has just read the history or keeps what it has read.     *)
Reads(m) ==
  /\ context'[m] = history[key[m]] /\ history' = history /\ key' = key

Remembers(m) == AtWork(m) /\ context'[m] = context[m] /\ key'[m] = key[m]

LEMMA ContextTask ==
  ASSUME TypeOK, NEW m \in Messages, TaskStep(m), AtWork(m)'
  PROVE  Reads(m) \/ Remembers(m)
<1>1. CASE Enter(m)
  BY <1>1 DEF Enter, SetStage, TypeOK, AtWork, Reads, Remembers,
     ContextTaken, Unsaved, AfterAnswer
<1>2. CASE Open(m)
  BY <1>2 DEF Open, SetStage, TypeOK, AtWork, Reads, Remembers, ContextTaken,
     Unsaved, AfterAnswer
<1>3. CASE OpenFails(m)
  BY <1>3 DEF OpenFails, SetStage, TypeOK, AtWork, Reads, Remembers,
     ContextTaken, Unsaved, AfterAnswer
<1>4. CASE Token(m)
  BY <1>4 DEF Token, SetStage, TypeOK, AtWork, Reads, Remembers,
     ContextTaken, Unsaved, AfterAnswer
<1>5. CASE Result(m)
  BY <1>5 DEF Result, SetStage, TypeOK, AtWork, Reads, Remembers,
     ContextTaken, Unsaved, AfterAnswer
<1>6. CASE ProviderFails(m)
  BY <1>6 DEF ProviderFails, SetStage, TypeOK, AtWork, Reads, Remembers,
     ContextTaken, Unsaved, AfterAnswer
<1>7. CASE GuardAborts(m)
  BY <1>7 DEF GuardAborts, SetStage, TypeOK, AtWork, Reads, Remembers,
     ContextTaken, Unsaved, AfterAnswer
<1>8. CASE StreamEnds(m)
  BY <1>8 DEF StreamEnds, SetStage, TypeOK, AtWork, Reads, Remembers,
     ContextTaken, Unsaved, AfterAnswer
<1>9. CASE Discard(m)
  BY <1>9 DEF Discard, SetStage, TypeOK, AtWork, Reads, Remembers,
     ContextTaken, Unsaved, AfterAnswer
<1>10. CASE Repair(m)
  BY <1>10 DEF Repair, SetStage, TypeOK, AtWork, Reads, Remembers,
     ContextTaken, Unsaved, AfterAnswer
<1>11. CASE Complete(m)
  BY <1>11 DEF Complete, SetStage, TypeOK, AtWork, Reads, Remembers,
     ContextTaken, Unsaved, AfterAnswer
<1>12. CASE Enforce(m)
  BY <1>12 DEF Enforce, SetStage, TypeOK, AtWork, Reads, Remembers,
     ContextTaken, Unsaved, AfterAnswer
<1>13. CASE Save(m)
  BY <1>13 DEF Save, SetStage, TypeOK, AtWork, Reads, Remembers,
     ContextTaken, Unsaved, AfterAnswer
<1>14. CASE Answered(m)
  BY <1>14 DEF Answered, SetStage, TypeOK, AtWork, Reads, Remembers,
     ContextTaken, Unsaved, AfterAnswer
<1>15. CASE NotAnswered(m)
  BY <1>15 DEF NotAnswered, SetStage, TypeOK, AtWork, Reads, Remembers,
     ContextTaken, Unsaved, AfterAnswer
<1>16. CASE Raise(m)
  BY <1>16 DEF Raise, SetStage, TypeOK, AtWork, Reads, Remembers,
     ContextTaken, Unsaved, AfterAnswer
<1>17. CASE Leave(m)
  BY <1>17 DEF Leave, SetStage, TypeOK, AtWork, Reads, Remembers,
     ContextTaken, Unsaved, AfterAnswer
<1>18. QED
  BY <1>1, <1>2, <1>3, <1>4, <1>5, <1>6, <1>7, <1>8, <1>9, <1>10,
     <1>11, <1>12, <1>13, <1>14, <1>15, <1>16, <1>17 DEF TaskStep

LEMMA ContextOthers ==
  ASSUME TypeOK, NEW m \in Messages, TaskStep(m)
  PROVE  /\ key' = key
         /\ \A x \in Messages : x # m =>
              stage'[x] = stage[x] /\ context'[x] = context[x]
<1>1. CASE Enter(m)
  BY <1>1 DEF Enter, SetStage, TypeOK
<1>2. CASE Open(m)
  BY <1>2 DEF Open, SetStage, TypeOK
<1>3. CASE OpenFails(m)
  BY <1>3 DEF OpenFails, SetStage, TypeOK
<1>4. CASE Token(m)
  BY <1>4 DEF Token, SetStage, TypeOK
<1>5. CASE Result(m)
  BY <1>5 DEF Result, SetStage, TypeOK
<1>6. CASE ProviderFails(m)
  BY <1>6 DEF ProviderFails, SetStage, TypeOK
<1>7. CASE GuardAborts(m)
  BY <1>7 DEF GuardAborts, SetStage, TypeOK
<1>8. CASE StreamEnds(m)
  BY <1>8 DEF StreamEnds, SetStage, TypeOK
<1>9. CASE Discard(m)
  BY <1>9 DEF Discard, SetStage, TypeOK
<1>10. CASE Repair(m)
  BY <1>10 DEF Repair, SetStage, TypeOK
<1>11. CASE Complete(m)
  BY <1>11 DEF Complete, SetStage, TypeOK
<1>12. CASE Enforce(m)
  BY <1>12 DEF Enforce, SetStage, TypeOK
<1>13. CASE Save(m)
  BY <1>13 DEF Save, SetStage, TypeOK
<1>14. CASE Answered(m)
  BY <1>14 DEF Answered, SetStage, TypeOK
<1>15. CASE NotAnswered(m)
  BY <1>15 DEF NotAnswered, SetStage, TypeOK
<1>16. CASE Raise(m)
  BY <1>16 DEF Raise, SetStage, TypeOK
<1>17. CASE Leave(m)
  BY <1>17 DEF Leave, SetStage, TypeOK
<1>18. QED
  BY <1>1, <1>2, <1>3, <1>4, <1>5, <1>6, <1>7, <1>8, <1>9, <1>10,
     <1>11, <1>12, <1>13, <1>14, <1>15, <1>16, <1>17 DEF TaskStep

LEMMA ContextStep ==
  ASSUME TypeOK, [Next]_vars, NEW m \in Messages, AtWork(m)'
  PROVE  Reads(m) \/ Remembers(m)
<1>1. CASE TaskStep(m)
  BY <1>1, ContextTask
<1>2. ASSUME NEW x \in Messages, TaskStep(x), x # m
      PROVE  Remembers(m)
  BY <1>2, ContextOthers DEF AtWork, Remembers
<1>3. ASSUME NEW x \in Messages, NEW k \in Keys,
             ReceiveStreaming(x, k) \/ ReceiveLegacy(x, k)
      PROVE  Remembers(m)
  BY <1>3 DEF ReceiveStreaming, ReceiveLegacy, Arrives, SetStage, TypeOK,
     AtWork, Remembers
<1>4. ASSUME UNCHANGED <<key, stage, context>>
      PROVE  Remembers(m)
  BY <1>4 DEF AtWork, Remembers
<1>5. CASE \E k \in CommandKeys : Stop(k) \/ Reset(k) \/ Announce(k) \/ Debate(k)
  BY <1>4, <1>5 DEF Stop, Reset, Announce, Debate
<1>6. CASE HandlerStep
  BY <1>4, <1>6 DEF HandlerStep, ResetStreamGone, ResetTimesOut, ResetForced,
     ResetReplied
<1>7. CASE UNCHANGED vars
  BY <1>4, <1>7 DEF vars
<1>8. QED
  BY <1>1, <1>2, <1>3, <1>5, <1>6, <1>7 DEF Next

LEMMA WorkIsInside ==
  ASSUME ArrivedInOrder, NEW m \in Messages, AtWork(m)
  PROVE  m \in Inside /\ key[m] \in Keys
BY DEF AtWork, Inside, ArrivedInOrder

LEMMA ContextInv ==
  ASSUME TypeOK, ArrivedInOrder, TakenInOrder, HandlerSound, ContextCovers,
         [Next]_vars
  PROVE  ContextCovers'
<1> SUFFICES ASSUME NEW m \in Messages, AtWork(m)',
                    NEW i \in DOMAIN history'[key'[m]],
                    history'[key'[m]][i].of # 0
             PROVE  \E n \in DOMAIN context'[m] :
                      context'[m][n] = history'[key'[m]][i]
  BY DEF ContextCovers
<1>1. CASE Reads(m)
  BY <1>1 DEF Reads
<1>2. CASE Remembers(m)
  <2>1. key'[m] = key[m] /\ key[m] \in Keys /\ m \in Inside
    BY <1>2, WorkIsInside DEF Remembers
  <2>2. ASSUME NEW x \in Messages, Saves(x), key[x] = key[m]
        PROVE  FALSE
    <3>1. x \in Inside
      BY <2>2, WorkIsInside DEF Saves
    <3>2. x = m
      BY <2>1, <2>2, <3>1, OneAtWork DEF User
    <3>3. QED
      BY <2>2, <3>2 DEF Saves, AtWork, TypeOK
  <2>3. \E j \in DOMAIN history[key[m]] :
          history'[key[m]][i] = history[key[m]][j]
    BY <2>1, <2>2, HistoryElements
  <2>4. QED
    BY <1>2, <2>1, <2>3 DEF Remembers, ContextCovers
<1>3. QED
  BY <1>1, <1>2, ContextStep

-----------------------------------------------------------------------------
(* The order of the history                                                *)

LEMMA OrderInv ==
  ASSUME TypeOK, ArrivedInOrder, TakenInOrder, HandlerSound, TurnsAreClosed,
         HistoryInOrder, [Next]_vars
  PROVE  HistoryInOrder'
<1> SUFFICES ASSUME NEW k \in Keys
             PROVE  InOrder(history'[k])
  BY DEF HistoryInOrder, InOrder
<1>1. /\ history[k] \in Seq(Turns) /\ Len(history[k]) <= MaxTurns
      /\ InOrder(history[k])
  BY DEF TypeOK, HistoryInOrder
<1>2. CASE history'[k] = history[k]
  BY <1>1, <1>2
<1>3. ASSUME NEW m \in Messages, Saves(m), key[m] = k
      PROVE  InOrder(history'[k])
  <2>1. m \in Inside /\ m \in Started
    BY <1>3, WorkIsInside DEF Saves, Inside, Started
  <2>2. ASSUME NEW i \in DOMAIN history[k], history[k][i].of # 0
        PROVE  history[k][i].of < m
    <3> DEFINE n == history[k][i].of
    <3>1. n \in Messages
      <4>1. history[k][i] \in Turns
        BY <1>1
      <4>2. QED
        BY <2>2, <4>1 DEF Turns
    <3>2. key[n] = k /\ stage[n] \in {"leaving", "done"}
      BY <2>2 DEF TurnsAreClosed
    <3>3. n # m
      BY <1>3, <3>2 DEF Saves, AtWork
    <3>4. n \in Started
      BY <3>1, <3>2 DEF Started
    <3>5. ~(m < n)
      <4>1. m < n => stage[m] = "done"
        BY <1>3, <3>2, <3>4 DEF TakenInOrder, User
      <4>2. QED
        BY <1>3, <4>1 DEF Saves, AtWork
    <3>6. QED
      BY <3>1, <3>3, <3>5, CountAssumption DEF Messages
  <2>3. history'[k] = SavePair(history[k], m)
    BY <1>3 DEF Saves, AddToHistory, TypeOK
  <2>4. QED
    BY <1>1, <2>2, <2>3, PairKeepsOrder
<1>4. ASSUME NEW n \in Keys, Notes(n), history'[k] # history[k]
      PROVE  InOrder(history'[k])
  <2>1. n = k
    BY <1>4 DEF Notes, TypeOK
  <2>2. CASE history'[k] = <<>>
    BY <2>2 DEF InOrder
  <2>3. CASE history'[k] = SaveTurn(history[k], Turn(0, "assistant"))
    <3>1. Turn(0, "assistant") \in Turns /\ Turn(0, "assistant").of = 0
      BY TurnType DEF Turn
    <3>2. QED
      BY <1>1, <2>3, <3>1, NoteKeepsOrder
  <2>4. CASE history'[k] = SavePair(history[k], 0)
    BY <1>1, <2>4, OwnPairKeepsOrder
  <2>5. QED
    BY <1>4, <2>1, <2>2, <2>3, <2>4 DEF Notes, TypeOK
<1>5. ASSUME NEW m \in Messages, Saves(m), key[m] # k
      PROVE  history'[k] = history[k]
  BY <1>5 DEF Saves, AddToHistory, TypeOK
<1>6. QED
  BY <1>2, <1>3, <1>4, <1>5, HistoryStep

-----------------------------------------------------------------------------
(* The invariant and what follows from it                                  *)

LEMMA ChatInit == Init => ChatInv
<1> SUFFICES ASSUME Init PROVE ChatInv
  OBVIOUS
<1>1. TypeOK
  BY EmptyType DEF Init, TypeOK, Stages, HandlerOps, Idle
<1>2. ArrivedInOrder /\ TakenInOrder
  BY DEF Init, ArrivedInOrder, TakenInOrder, Started
<1>3. HandlerSound /\ ActiveStreamIsReachable
  BY NoneAssumption
     DEF Init, HandlerSound, Idle, ActiveStreamIsReachable, InSession
<1>4. TurnsAreClosed /\ ContextCovers /\ HistoryInOrder
  BY DEF Init, TurnsAreClosed, ContextCovers, AtWork, HistoryInOrder, InOrder
<1>5. QED
  BY <1>1, <1>2, <1>3, <1>4 DEF ChatInv

LEMMA ChatStep ==
  ASSUME ChatInv, [Next]_vars
  PROVE  ChatInv'
<1>1. TypeOK' /\ ArrivedInOrder' /\ TakenInOrder'
  BY TypeStep, ArrivalStep, TakingStep DEF ChatInv
<1>2. HandlerSound' /\ ActiveStreamIsReachable'
  BY HandlerInv, SessionInv DEF ChatInv
<1>3. TurnsAreClosed' /\ ContextCovers' /\ HistoryInOrder'
  BY TurnsInv, ContextInv, OrderInv DEF ChatInv
<1>4. QED
  BY <1>1, <1>2, <1>3 DEF ChatInv

(* The inductive invariant of the chat session.                            *)
THEOREM Invariance == Spec => []ChatInv
BY ChatInit, ChatStep, PTL DEF Spec

(* Every variable keeps its type, and no history outgrows MaxTurns.        *)
THEOREM TypeCorrect == Spec => []TypeOK
<1>1. ChatInv => TypeOK
  BY DEF ChatInv
<1>2. QED
  BY <1>1, Invariance, PTL

(* /stop and /reset find the task that is streaming under a key.           *)
THEOREM ActiveStreams == Spec => []ActiveStreamIsReachable
<1>1. ChatInv => ActiveStreamIsReachable
  BY DEF ChatInv
<1>2. QED
  BY <1>1, Invariance, PTL

(* Histories keep the order in which the messages arrived.                 *)
THEOREM HistoryOrder == Spec => []HistoryInOrder
<1>1. ChatInv => HistoryInOrder
  BY DEF ChatInv
<1>2. QED
  BY <1>1, Invariance, PTL

-----------------------------------------------------------------------------
(* What an answer builds on, and what /stop discards                       *)

LEMMA AnswerStep ==
  ASSUME ChatInv, [Next]_vars, NEW m \in Messages,
         stage[m] # "absent", stage'[m] # stage[m],
         history'[key[m]] # history[key[m]]
  PROVE  \A i \in DOMAIN history[key[m]] :
           history[key[m]][i].of # 0 =>
             \E n \in DOMAIN context[m] : context[m][n] = history[key[m]][i]
<1>1. TypeOK /\ HandlerSound /\ ContextCovers
  BY DEF ChatInv
<1>2. PICK x \in Messages : Saves(x)
  <2>1. history' # history
    OBVIOUS
  <2>2. \A k \in Keys : ~Notes(k)
    BY DEF Notes
  <2>3. QED
    BY <1>1, <2>1, <2>2, HistoryStep
<1>3. x = m
  BY <1>1, <1>2 DEF Saves, TypeOK
<1>4. AtWork(m)
  BY <1>2, <1>3 DEF Saves
<1>5. QED
  BY <1>1, <1>4 DEF ContextCovers

(* When a message is added to a history, its model was shown every earlier *)
(* message's turn that stands there.                                       *)
THEOREM AnswersBuild == Spec => AnswersBuildOnHistory
<1>1. ChatInv /\ [Next]_vars =>
        [\A m \in Messages :
           /\ stage[m] # "absent" /\ stage'[m] # stage[m]
           /\ history'[key[m]] # history[key[m]]
           => \A i \in DOMAIN history[key[m]] :
                history[key[m]][i].of # 0 =>
                  \E n \in DOMAIN context[m] :
                    context[m][n] = history[key[m]][i]]_vars
  BY AnswerStep
<1>2. QED
  BY <1>1, Invariance, PTL DEF Spec, AnswersBuildOnHistory

LEMMA StopTask ==
  ASSUME TypeOK, NEW m \in Messages, TaskStep(m),
         stage[m] = "closing", m \in cancelled, m \notin guarded
  PROVE  history' = history /\ stage'[m] = "leaving"
<1>1. CASE Enter(m)
  BY <1>1 DEF Enter, SetStage, TypeOK, Verdict, Unsaved, Streaming
<1>2. CASE Open(m)
  BY <1>2 DEF Open, SetStage, TypeOK, Verdict, Unsaved, Streaming
<1>3. CASE OpenFails(m)
  BY <1>3 DEF OpenFails, SetStage, TypeOK, Verdict, Unsaved, Streaming
<1>4. CASE Token(m)
  BY <1>4 DEF Token, SetStage, TypeOK, Verdict, Unsaved, Streaming
<1>5. CASE Result(m)
  BY <1>5 DEF Result, SetStage, TypeOK, Verdict, Unsaved, Streaming
<1>6. CASE ProviderFails(m)
  BY <1>6 DEF ProviderFails, SetStage, TypeOK, Verdict, Unsaved, Streaming
<1>7. CASE GuardAborts(m)
  BY <1>7 DEF GuardAborts, SetStage, TypeOK, Verdict, Unsaved, Streaming
<1>8. CASE StreamEnds(m)
  BY <1>8 DEF StreamEnds, SetStage, TypeOK, Verdict, Unsaved, Streaming
<1>9. CASE Discard(m)
  BY <1>9 DEF Discard, SetStage, TypeOK, Verdict, Unsaved, Streaming
<1>10. CASE Repair(m)
  BY <1>10 DEF Repair, SetStage, TypeOK, Verdict, Unsaved, Streaming
<1>11. CASE Complete(m)
  BY <1>11 DEF Complete, SetStage, TypeOK, Verdict, Unsaved, Streaming
<1>12. CASE Enforce(m)
  BY <1>12 DEF Enforce, SetStage, TypeOK, Verdict, Unsaved, Streaming
<1>13. CASE Save(m)
  BY <1>13 DEF Save, SetStage, TypeOK, Verdict, Unsaved, Streaming
<1>14. CASE Answered(m)
  BY <1>14 DEF Answered, SetStage, TypeOK, Verdict, Unsaved, Streaming
<1>15. CASE NotAnswered(m)
  BY <1>15 DEF NotAnswered, SetStage, TypeOK, Verdict, Unsaved, Streaming
<1>16. CASE Raise(m)
  BY <1>16 DEF Raise, SetStage, TypeOK, Verdict, Unsaved, Streaming
<1>17. CASE Leave(m)
  BY <1>17 DEF Leave, SetStage, TypeOK, Verdict, Unsaved, Streaming
<1>18. QED
  BY <1>1, <1>2, <1>3, <1>4, <1>5, <1>6, <1>7, <1>8, <1>9, <1>10,
     <1>11, <1>12, <1>13, <1>14, <1>15, <1>16, <1>17 DEF TaskStep

LEMMA StopStep ==
  ASSUME TypeOK, [Next]_vars, NEW m \in Messages,
         stage[m] = "closing", m \in cancelled, m \notin guarded
  PROVE  /\ UNCHANGED history \/ stage'[m] = "closing"
         /\ stage'[m] \in {"closing", "leaving"}
<1>1. CASE TaskStep(m)
  BY <1>1, StopTask
<1>2. ASSUME NEW x \in Messages, TaskStep(x), x # m
      PROVE  stage'[m] = "closing"
  BY <1>2, ContextOthers
<1>3. ASSUME NEW x \in Messages, NEW k \in Keys,
             ReceiveStreaming(x, k) \/ ReceiveLegacy(x, k)
      PROVE  stage'[m] = "closing"
  BY <1>3 DEF ReceiveStreaming, ReceiveLegacy, Arrives, SetStage, TypeOK
<1>4. CASE \E k \in CommandKeys : Stop(k) \/ Reset(k) \/ Announce(k) \/ Debate(k)
  BY <1>4 DEF Stop, Reset, Announce, Debate
<1>5. CASE HandlerStep
  BY <1>5 DEF HandlerStep, ResetStreamGone, ResetTimesOut, ResetForced,
     ResetReplied
<1>6. CASE UNCHANGED vars
  BY <1>6 DEF vars
<1>7. QED
  BY <1>1, <1>2, <1>3, <1>4, <1>5, <1>6 DEF Next

(* A stopped stream leaves nothing in the history.                         *)
THEOREM StopDiscards == Spec => StoppedIsDiscarded
<1>1. TypeOK /\ [Next]_vars =>
        [\A m \in Messages :
           /\ stage[m] = "closing" /\ m \in cancelled /\ m \notin guarded
           => /\ UNCHANGED history \/ stage'[m] = "closing"
              /\ stage'[m] \in {"closing", "leaving"}]_vars
  BY StopStep
<1>2. QED
  BY <1>1, TypeCorrect, PTL DEF Spec, StoppedIsDiscarded

-----------------------------------------------------------------------------
(* Mutual exclusion                                                        *)

LEMMA MessagesFinite == IsFiniteSet(Messages)
BY CountAssumption, FS_Interval DEF Messages

LEMMA InsideStep ==
  ASSUME TypeOK, [Next]_vars
  PROVE  \/ Inside' \subseteq Inside
         \/ \E m \in Messages : HasPermit(m) /\ Inside' \subseteq Inside \cup {m}
<1>1. CASE UNCHANGED <<key, stage>>
  BY <1>1 DEF Inside
<1>2. ASSUME NEW m \in Messages, NEW k \in Keys, Arrives(m, k)
      PROVE  Inside' \subseteq Inside
  BY <1>2 DEF Arrives, SetStage, Inside, TypeOK
<1>3. ASSUME NEW m \in Messages, Enter(m)
      PROVE  HasPermit(m) /\ Inside' \subseteq Inside \cup {m}
  BY <1>3 DEF Enter, SetStage, Inside, TypeOK
<1>4. ASSUME NEW m \in Messages, Advances(m)
      PROVE  Inside' \subseteq Inside
  BY <1>4 DEF Advances, Inside, TypeOK
<1>5. QED
  BY <1>1, <1>2, <1>3, <1>4, StageStep

LEMMA PermitsStep ==
  ASSUME TypeOK, Cardinality(Inside) <= Permits, [Next]_vars
  PROVE  (Cardinality(Inside) <= Permits)'
<1>1. /\ IsFiniteSet(Inside) /\ IsFiniteSet(Inside')
      /\ Cardinality(Inside) \in Nat /\ Cardinality(Inside') \in Nat
  <2>1. Inside \subseteq Messages /\ Inside' \subseteq Messages
    BY DEF Inside
  <2>2. QED
    BY <2>1, MessagesFinite, FS_Subset, FS_CardinalityType
<1>2. CASE Inside' \subseteq Inside
  <2>1. Cardinality(Inside') <= Cardinality(Inside)
    BY <1>1, <1>2, FS_Subset
  <2>2. QED
    BY <1>1, <2>1, PermitsAssumption
<1>3. ASSUME NEW m \in Messages, HasPermit(m), Inside' \subseteq Inside \cup {m}
      PROVE  Cardinality(Inside') <= Permits
  <2>1. /\ IsFiniteSet(Inside \cup {m})
        /\ Cardinality(Inside \cup {m}) <= Cardinality(Inside) + 1
        /\ Cardinality(Inside \cup {m}) \in Nat
    <3>1. /\ IsFiniteSet(Inside \cup {m})
          /\ \/ Cardinality(Inside \cup {m}) = Cardinality(Inside) + 1
             \/ Inside \cup {m} = Inside
      BY <1>1, FS_AddElement
    <3>2. CASE Inside \cup {m} = Inside
      <4>1. Cardinality(Inside \cup {m}) = Cardinality(Inside)
        BY <3>2
      <4>2. QED
        BY <1>1, <3>1, <4>1
    <3>3. CASE Cardinality(Inside \cup {m}) = Cardinality(Inside) + 1
      BY <1>1, <3>1, <3>3
    <3>4. QED
      BY <3>1, <3>2, <3>3
  <2>2. Cardinality(Inside') <= Cardinality(Inside \cup {m})
    BY <1>3, <2>1, FS_Subset
  <2>3. QED
    BY <1>1, <1>3, <2>1, <2>2, PermitsAssumption DEF HasPermit
<1>4. QED
  BY <1>2, <1>3, InsideStep

(* Two tasks of one user never work at the same time, and no more tasks    *)
(* work than the semaphore admits.                                         *)
THEOREM MutualExclusion == Spec => []Exclusive
<1>1. Init => Cardinality(Inside) <= Permits
  <2>1. Init => Inside = {}
    BY DEF Init, Inside
  <2>2. QED
    BY <2>1, FS_EmptySet, PermitsAssumption
<1>2. TypeOK /\ Cardinality(Inside) <= Permits /\ [Next]_vars
        => (Cardinality(Inside) <= Permits)'
  BY PermitsStep
<1>3. ChatInv /\ Cardinality(Inside) <= Permits => Exclusive
  BY OneAtWork DEF ChatInv, Exclusive
<1>4. QED
  BY <1>1, <1>2, <1>3, Invariance, TypeCorrect, PTL DEF Spec

-----------------------------------------------------------------------------
(* The session implements the conversation log                             *)

LEMMA AcceptStep ==
  ASSUME ChatInv, NEW m \in Messages, NEW k \in Keys,
         ReceiveStreaming(m, k) \/ ReceiveLegacy(m, k)
  PROVE  Log!Accept(m, k)
<1>1. /\ stage[m] = "absent" /\ key[m] = None /\ history' = history
      /\ key' = [key EXCEPT ![m] = k]
      /\ stage' = [stage EXCEPT ![m] = "waiting"]
  BY DEF ReceiveStreaming, ReceiveLegacy, Arrives, SetStage, ChatInv,
     ArrivedInOrder
<1>2. \A n \in Messages : n < m => key[n] # None
  BY NoneAssumption DEF ReceiveStreaming, ReceiveLegacy, Arrives, ChatInv,
     ArrivedInOrder
<1>3. {n \in Messages : stage'[n] \notin {"absent", "leaving", "done"}}
      = {n \in Messages : stage[n] \notin {"absent", "leaving", "done"}} \cup {m}
  BY <1>1 DEF ChatInv, TypeOK
<1>4. QED
  BY <1>1, <1>2, <1>3 DEF Log!Accept, Log!Messages, Messages

LEMMA WorkIsOldest ==
  ASSUME ChatInv, NEW m \in Messages, m \in Started,
         stage[m] \notin {"leaving", "done"}
  PROVE  Log!Oldest(m)
<1>1. ASSUME NEW n \in Messages, stage[n] \notin {"absent", "leaving", "done"},
             UserOf[key[n]] = UserOf[key[m]]
      PROVE  m <= n
  <2>1. ~(n < m)
    BY <1>1 DEF ChatInv, TakenInOrder, User
  <2>2. QED
    BY <2>1, CountAssumption DEF Messages
<1>2. QED
  BY <1>1 DEF Log!Oldest, Started

LEMMA SaveStep ==
  ASSUME ChatInv, NEW m \in Messages, Saves(m)
  PROVE  Log!Answer(m)
<1>1. Log!Oldest(m)
  BY WorkIsOldest DEF Saves, AtWork, Started
<1>2. {n \in Messages : stage'[n] \notin {"absent", "leaving", "done"}}
      = {n \in Messages : stage[n] \notin {"absent", "leaving", "done"}} \ {m}
  BY DEF Saves, ChatInv, TypeOK
<1>3. key' = key /\ history' = [history EXCEPT ![key[m]] = SavePair(@, m)]
  BY DEF Saves, AddToHistory
<1>4. Log!SavePair(history[key[m]], m) = SavePair(history[key[m]], m)
  BY DEF Log!SavePair, SavePair, Log!SaveTurn, SaveTurn, Log!Turn, Turn
<1>5. QED
  BY <1>1, <1>2, <1>3, <1>4 DEF Log!Answer

LEMMA NoteStep ==
  ASSUME NEW k \in Keys, Notes(k)
  PROVE  Log!Clear(k) \/ Log!Note(k)
<1>1. {n \in Messages : stage'[n] \notin {"absent", "leaving", "done"}}
      = {n \in Messages : stage[n] \notin {"absent", "leaving", "done"}}
  BY DEF Notes
<1>2. /\ Log!SavePair(history[k], 0) = SavePair(history[k], 0)
      /\ Log!SaveTurn(history[k], Log!Turn(0, "assistant"))
         = SaveTurn(history[k], Turn(0, "assistant"))
  BY DEF Log!SavePair, SavePair, Log!SaveTurn, SaveTurn, Log!Turn, Turn
<1>3. QED
  BY <1>1, <1>2 DEF Notes, Log!Clear, Log!Note

(* A step that keeps the history and is not an arrival gives a message up, *)
(* or is not seen in the log.                                              *)
LEMMA QuietStep ==
  ASSUME ChatInv, history' = history,
         \/ UNCHANGED <<key, stage>>
         \/ \E m \in Messages : Enter(m) \/ Advances(m)
  PROVE  (\E m \in Log!Messages : Log!Drop(m)) \/ UNCHANGED Log!lvars
<1>1. CASE UNCHANGED <<key, stage>>
  BY <1>1 DEF Log!lvars
<1>2. ASSUME NEW m \in Messages, Enter(m)
      PROVE  UNCHANGED Log!lvars
  <2>1. {n \in Messages : stage'[n] \notin {"absent", "leaving", "done"}}
        = {n \in Messages : stage[n] \notin {"absent", "leaving", "done"}}
    BY <1>2 DEF Enter, SetStage, ChatInv, TypeOK
  <2>2. QED
    BY <1>2, <2>1 DEF Enter, Log!lvars
<1>3. ASSUME NEW m \in Messages, Advances(m)
      PROVE  (\E n \in Log!Messages : Log!Drop(n)) \/ UNCHANGED Log!lvars
  <2>1. key' = key /\ m \in Started /\ stage[m] \in Stages \ {"absent", "waiting", "done"}
    BY <1>3 DEF Advances, Started
  <2>2. PICK s \in Stages \ {"absent", "waiting"} :
          /\ stage' = [stage EXCEPT ![m] = s]
          /\ stage[m] = "leaving" => s = "done"
    BY <1>3 DEF Advances
  <2>3. CASE stage[m] = "leaving" \/ s \notin {"leaving", "done"}
    <3>1. {n \in Messages : stage'[n] \notin {"absent", "leaving", "done"}}
          = {n \in Messages : stage[n] \notin {"absent", "leaving", "done"}}
      BY <2>1, <2>2, <2>3 DEF ChatInv, TypeOK
    <3>2. QED
      BY <2>1, <3>1 DEF Log!lvars
  <2>4. CASE stage[m] # "leaving" /\ s \in {"leaving", "done"}
    <3>1. {n \in Messages : stage'[n] \notin {"absent", "leaving", "done"}}
          = {n \in Messages : stage[n] \notin {"absent", "leaving", "done"}}
            \ {m}
      BY <2>1, <2>2, <2>4 DEF ChatInv, TypeOK
    <3>2. Log!Oldest(m)
      BY <2>1, <2>4, WorkIsOldest
    <3>3. Log!Drop(m)
      BY <2>1, <3>1, <3>2 DEF Log!Drop
    <3>4. QED
      BY <3>3 DEF Log!Messages, Messages
  <2>5. QED
    BY <2>3, <2>4
<1>4. QED
  BY <1>1, <1>2, <1>3

(* What steps other than arrivals do to the stages.                        *)
LEMMA QuietKinds ==
  ASSUME TypeOK, [Next]_vars,
         ~ \E m \in Messages, k \in Keys :
             ReceiveStreaming(m, k) \/ ReceiveLegacy(m, k)
  PROVE  \/ UNCHANGED <<key, stage>>
         \/ \E m \in Messages : Enter(m) \/ Advances(m)
<1>1. CASE UNCHANGED vars
  BY <1>1 DEF vars
<1>2. CASE \E m \in Messages : TaskStep(m)
  BY <1>2, TaskAdvances
<1>3. CASE \E k \in CommandKeys : Stop(k) \/ Reset(k) \/ Announce(k) \/ Debate(k)
  BY <1>3 DEF Stop, Reset, Announce, Debate
<1>4. CASE HandlerStep
  BY <1>4 DEF HandlerStep, ResetStreamGone, ResetTimesOut, ResetForced,
              ResetReplied
<1>5. QED
  BY <1>1, <1>2, <1>3, <1>4 DEF Next

LEMMA LogStep ==
  ASSUME ChatInv, [Next]_vars
  PROVE  [Log!LNext]_(Log!lvars)
<1>1. ASSUME NEW m \in Messages, NEW k \in Keys,
             ReceiveStreaming(m, k) \/ ReceiveLegacy(m, k)
      PROVE  Log!LNext
  BY <1>1, AcceptStep DEF Log!LNext, Log!Messages, Messages
<1>2. ASSUME NEW m \in Messages, Saves(m)
      PROVE  Log!LNext
  BY <1>2, SaveStep DEF Log!LNext, Log!Messages, Messages
<1>3. ASSUME NEW k \in Keys, Notes(k)
      PROVE  Log!LNext
  BY <1>3, NoteStep DEF Log!LNext
<1>4. ASSUME history' = history,
             ~ \E m \in Messages, k \in Keys :
                 ReceiveStreaming(m, k) \/ ReceiveLegacy(m, k)
      PROVE  [Log!LNext]_(Log!lvars)
  <2>1. \/ UNCHANGED <<key, stage>>
        \/ \E m \in Messages : Enter(m) \/ Advances(m)
    BY <1>4, QuietKinds DEF ChatInv
  <2>2. QED
    BY <1>4, <2>1, QuietStep DEF Log!LNext
<1>5. QED
  BY <1>1, <1>2, <1>3, <1>4, HistoryStep DEF ChatInv

(* The histories are a conversation log: messages are taken up in order,   *)
(* and an answer adds its pair of turns in one piece, once.                *)
THEOREM Conversation == Spec => ConversationSpec
<1>1. Init => Log!LInit
  BY DEF Init, Log!LInit, Log!Messages, Messages
<1>2. ChatInv /\ [Next]_vars => [Log!LNext]_(Log!lvars)
  BY LogStep
<1>3. QED
  BY <1>1, <1>2, Invariance, PTL DEF Spec, ConversationSpec, Log!LSpec

-----------------------------------------------------------------------------
(* Nobody waits for ever for what another holds                            *)

(* Of the messages a task waits for, the oldest holds the user's lock.     *)
LEMMA OldestHoldsLock ==
  ASSUME ChatInv, NEW m \in Messages, stage[m] = "waiting"
  PROVE  \E n \in Messages : /\ n <= m /\ User(n) = User(m) /\ HoldsLock(n)
                             /\ stage[n] # "done"
<1> DEFINE open == {n \in Messages : n <= m /\ User(n) = User(m) /\ stage[n] # "done"}
<1>1. Messages \subseteq Nat
  BY CountAssumption DEF Messages
<1>2. m \in open
  BY <1>1
<1>3. PICK n \in open : \A o \in open : ~ (<<o, n>> \in OpToRel(<, Nat))
  <2>1. open \subseteq Nat
    BY <1>1
  <2> HIDE DEF open
  <2>2. QED
    BY <1>2, <2>1, NatLessThanWellFounded, WFMin
<1>4. OpToRel(<, Nat) = {ss \in Nat \X Nat : ss[1] < ss[2]}
  BY Zenon DEF OpToRel
<1>5. ASSUME NEW o \in Messages, o < n, User(o) = User(n)
      PROVE  stage[o] = "done"
  <2>1. o \in Nat /\ n \in Nat /\ m \in Nat /\ n <= m
    BY <1>1, <1>3
  <2>2. o \notin open
    <3>1. <<o, n>> \in {ss \in Nat \X Nat : ss[1] < ss[2]}
      BY <1>5, <2>1
    <3>2. QED
      BY <1>3, <1>4, <3>1
  <2>3. o <= m
    <3>1. \A a, b, c \in Nat : a < b /\ b <= c => a <= c
      OBVIOUS
    <3>2. QED
      BY <1>5, <2>1, <3>1
  <2>4. User(o) = User(m)
    BY <1>3, <1>5
  <2>5. QED
    BY <1>5, <2>2, <2>3, <2>4
<1>6. QED
  BY <1>3, <1>5 DEF HoldsLock

(* No wait of a task for a lock or a permit, and none of the handler for a *)
(* task, is part of a circle.                                              *)
THEOREM NoDeadlock == Spec => []NobodyIsStuck
<1>1. ASSUME ChatInv
      PROVE  NobodyIsStuck
  <2>1. ASSUME NEW m \in Messages, stage[m] = "waiting"
        PROVE  \E n \in Messages :
                 /\ n <= m /\ User(n) = User(m) /\ HoldsLock(n)
                 /\ \/ n \in Inside
                    \/ /\ stage[n] = "waiting"
                       /\ HasPermit(n) \/ Inside # {}
    <3>1. PICK n \in Messages : /\ n <= m /\ User(n) = User(m) /\ HoldsLock(n)
                                /\ stage[n] # "done"
      BY <1>1, <2>1, OldestHoldsLock
    <3>2. stage[n] # "absent"
      <4>1. n = m \/ n < m
        BY <3>1, CountAssumption DEF Messages
      <4>2. QED
        BY <1>1, <2>1, <4>1 DEF ChatInv, ArrivedInOrder
    <3>3. n \in Inside \/ stage[n] = "waiting"
      BY <3>1, <3>2 DEF Inside
    <3>4. Inside = {} => HasPermit(n)
      BY FS_EmptySet, PermitsAssumption DEF HasPermit
    <3>5. QED
      BY <3>1, <3>3, <3>4
  <2>2. handler.op = "legacy" =>
          handler.target \in Inside \/ stage[handler.target] = "waiting"
    BY <1>1 DEF ChatInv, HandlerSound, Inside
  <2>3. QED
    BY <2>1, <2>2 DEF NobodyIsStuck
<1>2. QED
  BY <1>1, Invariance, PTL

-----------------------------------------------------------------------------
(* No task goes back                                                       *)

Further(m) ==
  \/ StageNumber[stage[m]] < StageNumber[stage'[m]]
  \/ /\ stage'[m] = stage[m]
     /\ FinalNumber[final[m]] < FinalNumber[final'[m]]

(* A later stage, or in the same stage more of the final text, is progress. *)
LEMMA FurtherIsProgress ==
  ASSUME TypeOK, TypeOK', NEW m \in Messages, Further(m)
  PROVE  Progress(m) < Progress(m)'
<1>1. /\ stage[m] \in Stages /\ stage'[m] \in Stages
      /\ final[m] \in DOMAIN FinalNumber /\ final'[m] \in DOMAIN FinalNumber
  BY DEF TypeOK, FinalNumber
<1>2. /\ StageNumber[stage[m]] \in 0 .. 8 /\ StageNumber[stage'[m]] \in 0 .. 8
      /\ FinalNumber[final[m]] \in 0 .. 2 /\ FinalNumber[final'[m]] \in 0 .. 2
  BY <1>1 DEF StageNumber, FinalNumber, Stages
<1>3. \A a, b \in 0 .. 8 : \A f, g \in 0 .. 2 :
        a < b \/ (a = b /\ f < g) => 3 * a + f < 3 * b + g
  OBVIOUS
<1>4. QED
  BY <1>2, <1>3 DEF Further, Progress

(* Every step of a task leads on.                                          *)
LEMMA StepsLeadOn ==
  ASSUME TypeOK, NEW m \in Messages, TaskStep(m)
  PROVE  Further(m)
<1> USE DEF SetStage, StageNumber, FinalNumber, Stages, Further
<1>0. /\ stage \in [Messages -> Stages]
      /\ final \in [Messages -> {"none", "partial", "whole"}]
  BY DEF TypeOK
<1>1. CASE Enter(m)
  BY <1>0, <1>1 DEF Enter
<1>2. CASE Open(m)
  BY <1>0, <1>2 DEF Open
<1>3. CASE OpenFails(m)
  BY <1>0, <1>3 DEF OpenFails
<1>4. CASE Token(m)
  BY <1>0, <1>4 DEF Token, Streaming
<1>5. CASE Result(m)
  BY <1>0, <1>5 DEF Result, Streaming
<1>6. CASE ProviderFails(m)
  BY <1>0, <1>6 DEF ProviderFails
<1>7. CASE GuardAborts(m)
  BY <1>0, <1>7 DEF GuardAborts
<1>8. CASE StreamEnds(m)
  BY <1>0, <1>8 DEF StreamEnds
<1>9. CASE Discard(m)
  BY <1>0, <1>9 DEF Discard
<1>10. CASE Repair(m)
  BY <1>0, <1>10 DEF Repair
<1>11. CASE Complete(m)
  BY <1>0, <1>11 DEF Complete
<1>12. CASE Enforce(m)
  BY <1>0, <1>12 DEF Enforce, Unsaved
<1>13. CASE Save(m)
  BY <1>0, <1>13 DEF Save, Unsaved
<1>14. CASE Answered(m)
  BY <1>0, <1>14 DEF Answered, AfterAnswer
<1>15. CASE NotAnswered(m)
  BY <1>0, <1>15 DEF NotAnswered
<1>16. CASE Raise(m)
  BY <1>0, <1>16 DEF Raise
<1>17. CASE Leave(m)
  BY <1>0, <1>17 DEF Leave
<1>18. QED
  BY <1>1, <1>2, <1>3, <1>4, <1>5, <1>6, <1>7, <1>8, <1>9, <1>10, <1>11, <1>12, <1>13, <1>14,
     <1>15, <1>16, <1>17 DEF TaskStep

(* A step of another task, or of the handler, leaves a task where it is;   *)
(* an arrival lets it begin.                                               *)
LEMMA OthersKeepProgress ==
  ASSUME TypeOK, TypeOK', [Next]_vars, NEW m \in Messages, ~ TaskStep(m)
  PROVE  Progress(m) <= Progress(m)'
<1>0. /\ Progress(m) \in Nat /\ stage \in [Messages -> Stages]
      /\ final \in [Messages -> {"none", "partial", "whole"}]
  <2>1. stage[m] \in Stages /\ final[m] \in DOMAIN FinalNumber
    BY DEF TypeOK, FinalNumber
  <2>2. StageNumber[stage[m]] \in 0 .. 8 /\ FinalNumber[final[m]] \in 0 .. 2
    BY <2>1 DEF StageNumber, FinalNumber, Stages
  <2>3. Progress(m) \in Nat
    BY <2>2 DEF Progress
  <2>4. QED
    BY <2>3 DEF TypeOK
<1>1. ASSUME stage'[m] = stage[m], final'[m] = final[m]
      PROVE  Progress(m) <= Progress(m)'
  <2>1. Progress(m)' = Progress(m)
    BY <1>1 DEF Progress
  <2>2. QED
    BY <1>0, <2>1
<1>2. CASE UNCHANGED vars
  BY <1>1, <1>2 DEF vars, stream
<1>3. ASSUME NEW n \in Messages, TaskStep(n)
      PROVE  stage'[m] = stage[m] /\ final'[m] = final[m]
  <2>1. n # m
    BY <1>3
  <2>2. /\ \/ stage' = stage
           \/ \E s : stage' = [stage EXCEPT ![n] = s]
        /\ \/ final' = final
           \/ \E f : final' = [final EXCEPT ![n] = f]
    BY <1>3 DEF TaskStep, Enter, Open, OpenFails, Token, Result, ProviderFails, GuardAborts,
                StreamEnds, Discard, Repair, Complete, Enforce, Save, Answered, NotAnswered,
                Raise, Leave, SetStage, stream
  <2>3. QED
    BY <1>0, <2>1, <2>2
<1>4. ASSUME NEW n \in Messages, NEW k \in Keys, ReceiveStreaming(n, k) \/ ReceiveLegacy(n, k)
      PROVE  Progress(m) <= Progress(m)'
  <2>1. stage' = [stage EXCEPT ![n] = "waiting"] /\ final' = final /\ stage[n] = "absent"
    BY <1>4 DEF ReceiveStreaming, ReceiveLegacy, Arrives, SetStage, stream
  <2>2. CASE n # m
    BY <1>0, <1>1, <2>1, <2>2
  <2>3. CASE n = m
    <3>1. Further(m)
      BY <1>0, <2>1, <2>3 DEF Further, StageNumber, Stages
    <3>2. Progress(m) < Progress(m)' /\ Progress(m)' \in Nat
      <4>1. stage'[m] \in Stages /\ final'[m] \in DOMAIN FinalNumber
        BY DEF TypeOK, FinalNumber
      <4>2. StageNumber[stage'[m]] \in 0 .. 8 /\ FinalNumber[final'[m]] \in 0 .. 2
        BY <4>1 DEF StageNumber, FinalNumber, Stages
      <4>3. QED
        BY <3>1, <4>2, FurtherIsProgress DEF Progress
    <3>3. QED
      BY <1>0, <3>2
  <2>4. QED
    BY <2>2, <2>3
<1>5. CASE \/ \E k \in CommandKeys : Stop(k) \/ Reset(k) \/ Announce(k) \/ Debate(k)
           \/ HandlerStep
  <2>1. UNCHANGED <<stage, final>>
    BY <1>5 DEF Stop, Reset, Announce, Debate, HandlerStep, ResetStreamGone, ResetTimesOut,
                ResetForced, ResetReplied, stream
  <2>2. QED
    BY <1>1, <2>1
<1>6. QED
  BY <1>1, <1>2, <1>3, <1>4, <1>5 DEF Next

(* Each of its at most 24 steps brings a task closer to its end, and       *)
(* nobody sets it back.                                                    *)
THEOREM TasksNeverGoBack == Spec => TasksAdvance
<1>1. TypeOK /\ TypeOK' /\ [Next]_vars
        => \A m \in Messages : /\ Progress(m) <= Progress(m)'
                               /\ TaskStep(m) => Progress(m) < Progress(m)'
  <2> SUFFICES ASSUME TypeOK, TypeOK', [Next]_vars, NEW m \in Messages
               PROVE  /\ Progress(m) <= Progress(m)'
                      /\ TaskStep(m) => Progress(m) < Progress(m)'
    OBVIOUS
  <2>1. CASE TaskStep(m)
    <3>1. Progress(m) < Progress(m)'
      BY <2>1, StepsLeadOn, FurtherIsProgress
    <3>2. Progress(m) \in Nat /\ Progress(m)' \in Nat
      <4>1. /\ stage[m] \in Stages /\ final[m] \in DOMAIN FinalNumber
            /\ stage'[m] \in Stages /\ final'[m] \in DOMAIN FinalNumber
        BY DEF TypeOK, FinalNumber
      <4>2. /\ StageNumber[stage[m]] \in 0 .. 8 /\ FinalNumber[final[m]] \in 0 .. 2
            /\ StageNumber[stage'[m]] \in 0 .. 8 /\ FinalNumber[final'[m]] \in 0 .. 2
        BY <4>1 DEF StageNumber, FinalNumber, Stages
      <4>3. QED
        BY <4>2 DEF Progress
    <3>3. QED
      BY <3>1, <3>2
  <2>2. CASE ~ TaskStep(m)
    BY <2>2, OthersKeepProgress
  <2>3. QED
    BY <2>1, <2>2
<1>2. QED
  BY <1>1, TypeCorrect, PTL DEF TasksAdvance, Spec
=============================================================================
