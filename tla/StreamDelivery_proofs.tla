------------------------- MODULE StreamDelivery_proofs -------------------------
(***************************************************************************)
(* Proofs about the delivery of an answer, for an answer of any length and *)
(* any limits.                                                             *)
(***************************************************************************)
EXTENDS StreamDeliveryProps, FiniteSetTheorems, SequenceTheorems, TLAPS

-----------------------------------------------------------------------------
(* Contents                                                                *)

LEMMA Limits ==
  /\ Threshold \in Nat /\ PartLimit \in Nat /\ Limit \in Nat /\ Retries \in Nat
  /\ 2 <= Threshold /\ Threshold <= PartLimit /\ PartLimit <= Limit
  /\ AnswerLength \in Nat
BY LimitAssumption, RetriesAssumption, LengthAssumption

LEMMA ContentType ==
  ASSUME NEW kind \in Kinds, NEW n \in Nat
  PROVE  /\ Text(kind, n) \in Contents
         /\ Text(kind, n).text = kind
         /\ Text(kind, n).from = 0 /\ Text(kind, n).to = n
         /\ Length(Text(kind, n)) = n
BY DEF Text, Content, Contents, Length

LEMMA FixedContents ==
  /\ Dots \in Contents /\ Length(Dots) = 0 /\ Dots.text = "dots"
  /\ ErrorText \in Contents /\ Length(ErrorText) = 1 /\ ErrorText.text = "error"
BY DEF Dots, ErrorText, Content, Contents, Length, Kinds

(* A content is cut into two that follow one another.                      *)
LEMMA Cut ==
  ASSUME NEW c \in Contents, NEW n \in Nat, n <= Length(c)
  PROVE  /\ First(c, n) \in Contents /\ Length(First(c, n)) = n
         /\ First(c, n).text = c.text /\ First(c, n).from = c.from
         /\ After(c, n) \in Contents /\ Length(After(c, n)) = Length(c) - n
         /\ After(c, n).text = c.text /\ After(c, n).to = c.to
         /\ After(c, n).from = First(c, n).to
         /\ First(c, n).to = c.from + n
BY DEF First, After, Contents, Length

LEMMA LengthType ==
  ASSUME NEW c \in Contents
  PROVE  Length(c) \in Nat
BY DEF Contents, Length

LEMMA WholeCut ==
  ASSUME NEW c \in Contents
  PROVE  First(c, Length(c)) = c
<1>1. c.from + Length(c) = c.to
  BY DEF Contents, Length
<1>2. QED
  BY <1>1 DEF First, Contents

(* What an edit shows fits into a message.                                 *)
LEMMA VisibleType ==
  ASSUME NEW c \in Contents, NEW v \in Visible(c)
  PROVE  v \in Contents /\ Length(v) <= Limit
<1>1. Length(c) \in Nat
  BY LengthType
<1>2. CASE Length(c) = 0
  BY <1>2, FixedContents, Limits DEF Visible
<1>3. CASE Length(c) # 0
  <2>1. PICK n \in {Length(c), Length(c) - 1} \ {0} : v = First(c, Least(n, Limit))
    BY <1>3 DEF Visible
  <2>2. n \in Nat /\ n <= Length(c)
    BY <1>1, <1>3, <2>1
  <2>3. Least(n, Limit) \in Nat /\ Least(n, Limit) <= Length(c)
        /\ Least(n, Limit) <= Limit
    BY <1>1, <2>2, Limits DEF Least
  <2>4. QED
    BY <2>1, <2>3, Cut
<1>4. QED
  BY <1>2, <1>3

(* Pieces taken for delivery fit into a message.                           *)
LEMMA SplitSizesType ==
  ASSUME NEW c \in Contents, NEW n \in SplitSizes(c)
  PROVE  n \in Nat /\ n <= Length(c) /\ n <= Limit
<1>1. Length(c) \in Nat
  BY LengthType
<1>2. QED
  BY <1>1, Limits DEF SplitSizes

(* The sizes finalize_streaming takes its first piece in.                  *)
FirstSizes(part) ==
  IF Length(part) <= Limit THEN {Length(part)} ELSE SplitSizes(part)

LEMMA FirstSizesType ==
  ASSUME NEW c \in Contents, NEW n \in FirstSizes(c)
  PROVE  n \in Nat /\ n <= Length(c) /\ n <= Limit
BY LengthType, SplitSizesType DEF FirstSizes

LEMMA FixedType ==
  ASSUME NEW c \in Contents, NEW d \in Fixed(c)
  PROVE  d \in Contents
<1>1. OtherLengths \subseteq Nat /\ "fixed" \in Kinds
  BY OtherLengthsAssumption DEF Kinds
<1>2. QED
  BY <1>1, ContentType DEF Fixed

LEMMA FinalPartType ==
  ASSUME TypeOK, NEW text \in Contents
  PROVE  FinalPart(text) \in Contents
<1>1. CASE previous # <<>> /\ offset < Length(text)
  <2>1. offset \in Nat /\ Length(text) \in Nat
    BY LengthType DEF TypeOK
  <2>2. After(text, offset) \in Contents
    BY <1>1, <2>1, Cut
  <2>3. QED
    BY <1>1, <2>2 DEF FinalPart
<1>2. CASE previous = <<>> \/ ~(offset < Length(text))
  BY <1>2 DEF FinalPart, TypeOK
<1>3. QED
  BY <1>1, <1>2

-----------------------------------------------------------------------------
(* The invariant                                                           *)

(* What a phase says of the rest: the text is complete or not yet, the     *)
(* piece fits into a message, and during a rollover there is one message   *)
(* more than parts.                                                        *)
Writing == {"streaming", "editing", "rolling", "closing"}

Rolls ==
  /\ Threshold <= Length(current)
  /\ \E n \in RolloverCuts : piece = First(current, n) /\ rest = After(current, n)

Shape ==
  /\ phase \in {"editing", "rolling", "closing"} => final = None
  /\ phase \in {"rolling", "closing"} => Rolls
  /\ phase \in Writing /\ final = None =>
       /\ current.text = "raw"
       /\ Len(messages) = live + (IF phase = "closing" THEN 1 ELSE 0)
  /\ phase \in Delivering => Length(piece) <= Limit
  /\ phase \in Delivering \cup {"saving"} => final # None
  /\ phase = "aborting" => current = ErrorText

IInv == TypeOK /\ PartsCoverText /\ WithinLimit /\ Shape

-----------------------------------------------------------------------------
(* Parts of steps                                                          *)

(* An edit of the live message changes no other one.                       *)
LEMMA EditedMessages ==
  ASSUME TypeOK, WithinLimit, NEW c \in Contents, Length(c) <= Limit,
         ShowIn(live, c)
  PROVE  /\ messages' \in Seq(Contents) /\ Len(messages') = Len(messages)
         /\ WithinLimit'
         /\ messages'[live] = c
         /\ \A i \in DOMAIN messages : i # live => messages'[i] = messages[i]
<1>1. messages \in Seq(Contents) /\ live \in 1..Len(messages)
  BY DEF TypeOK
<1>2. messages' = [messages EXCEPT ![live] = c]
  BY DEF ShowIn
<1>3. /\ messages' \in Seq(Contents) /\ Len(messages') = Len(messages)
      /\ messages'[live] = c
      /\ \A i \in DOMAIN messages : i # live => messages'[i] = messages[i]
  BY <1>1, <1>2
<1>4. WithinLimit'
  BY <1>1, <1>3 DEF WithinLimit
<1>5. QED
  BY <1>3, <1>4

(* A message that is sent comes last.                                      *)
LEMMA SentMessages ==
  ASSUME TypeOK, WithinLimit, NEW c \in Contents, Length(c) <= Limit,
         messages' = Append(messages, c)
  PROVE  /\ messages' \in Seq(Contents) /\ Len(messages') = Len(messages) + 1
         /\ WithinLimit'
         /\ \A i \in DOMAIN messages : messages'[i] = messages[i]
<1>1. messages \in Seq(Contents)
  BY DEF TypeOK
<1>2. /\ messages' \in Seq(Contents) /\ Len(messages') = Len(messages) + 1
      /\ \A i \in DOMAIN messages : messages'[i] = messages[i]
      /\ messages'[Len(messages) + 1] = c
  BY <1>1
<1>3. WithinLimit'
  BY <1>1, <1>2 DEF WithinLimit
<1>4. QED
  BY <1>2, <1>3

LEMMA Taken ==
  ASSUME NEW c \in Contents, NEW sizes,
         \A n \in sizes : n \in Nat /\ n <= Length(c) /\ n <= Limit,
         Take(c, sizes)
  PROVE  piece' \in Contents /\ Length(piece)' <= Limit /\ rest' \in Contents
<1>1. PICK n \in sizes : piece' = First(c, n) /\ rest' = After(c, n)
  BY DEF Take
<1>2. Length(piece)' = Length(First(c, n))
  BY <1>1 DEF Length
<1>3. QED
  BY <1>1, <1>2, Cut

(* After a piece comes the next one, or the handler goes on.               *)
LEMMA NextPieceStep ==
  ASSUME TypeOK, NextPiece
  PROVE  /\ piece' \in Contents /\ rest' \in Contents /\ attempt' \in 0..Retries
         /\ \/ phase' = after
            \/ phase' = "final_send" /\ Length(piece)' <= Limit
<1>1. CASE Length(rest) = 0
  BY <1>1 DEF NextPiece, TypeOK
<1>2. CASE Length(rest) # 0
  <2>1. rest \in Contents
    BY DEF TypeOK
  <2>2. Take(rest, SplitSizes(rest)) /\ phase' = "final_send" /\ attempt' = 0
    BY <1>2 DEF NextPiece
  <2>3. piece' \in Contents /\ Length(piece)' <= Limit /\ rest' \in Contents
    BY <2>1, <2>2, SplitSizesType, Taken
  <2>4. QED
    BY <2>2, <2>3, Limits
<1>3. QED
  BY <1>1, <1>2

LEMMA FinalizeStep ==
  ASSUME IInv, NEW text \in Contents, NEW then \in {"streaming", "saving", "done"},
         Finalize(text, then), saved' \in Contents \cup {None}
  PROVE  IInv'
<1> DEFINE part == FinalPart(text)
<1>1. TypeOK /\ part \in Contents
  BY FinalPartType DEF IInv
<1>2. Take(part, FirstSizes(part))
  BY DEF Finalize, FirstSizes
<1>3. piece' \in Contents /\ Length(piece)' <= Limit /\ rest' \in Contents
  BY <1>1, <1>2, FirstSizesType, Taken
<1>4. /\ final' = text /\ final' # None /\ current' = part
      /\ phase' = "final_edit" /\ attempt' = 0 /\ after' = then
      /\ UNCHANGED <<received, previous, offset, live, lastEdit, messages,
                     paused, cancelled, failures>>
  BY NoneAssumption DEF Finalize
<1>5. TypeOK'
  BY <1>1, <1>3, <1>4, Limits DEF TypeOK, failures, Phases
<1>6. PartsCoverText'
  BY <1>4 DEF IInv, PartsCoverText, failures
<1>7. WithinLimit'
  BY <1>4 DEF IInv, WithinLimit
<1>8. Shape'
  BY <1>3, <1>4 DEF Shape, Writing, Delivering
<1>9. QED
  BY <1>5, <1>6, <1>7, <1>8 DEF IInv

(* The steps that carry a complete text on: one piece is shown, sent or    *)
(* given up, and the session stays as it is.                               *)
LEMMA PieceStep ==
  ASSUME IInv, phase \in Delivering, NextPiece,
         UNCHANGED <<session, paused, cancelled, final, after, saved>>,
         messages' \in Seq(Contents), Len(messages') >= Len(messages),
         WithinLimit',
         \A i \in DOMAIN previous : messages'[i] = messages[i],
         resent' \subseteq 1..Len(messages'),
         givenUp' \subseteq Contents, givenUp \subseteq givenUp'
  PROVE  IInv'
<1>1. TypeOK /\ PartsCoverText /\ Shape
  BY DEF IInv
<1>2. /\ piece' \in Contents /\ rest' \in Contents /\ attempt' \in 0..Retries
      /\ \/ phase' = after
         \/ phase' = "final_send" /\ Length(piece)' <= Limit
  BY <1>1, NextPieceStep
<1>3. final' # None
  BY <1>1 DEF Shape
<1>4. live \in 1..Len(messages')
  BY <1>1 DEF TypeOK
<1>5. TypeOK'
  BY <1>1, <1>2, <1>4 DEF TypeOK, session, Phases
<1>6. PartsCoverText'
  BY <1>1, <1>3 DEF PartsCoverText, session
<1>7. Shape'
  BY <1>1, <1>2, <1>3 DEF Shape, Writing, Delivering, TypeOK
<1>8. QED
  BY <1>5, <1>6, <1>7 DEF IInv

(* The rest of a step that ends an intermediate edit.                      *)
LEMMA AfterEdit ==
  ASSUME IInv, phase = "editing", CheckRollover,
         UNCHANGED <<received, current, previous, offset, live, cancelled,
                     final, attempt, after, saved, failures>>,
         paused' \in BOOLEAN,
         lastEdit' \in Contents \cup {None},
         messages' \in Seq(Contents), Len(messages') = Len(messages),
         WithinLimit',
         \A i \in DOMAIN previous : messages'[i] = messages[i]
  PROVE  IInv'
<1>1. TypeOK /\ PartsCoverText /\ Shape
  BY DEF IInv
<1>2. final = None /\ current \in Contents /\ Length(current) \in Nat
  BY <1>1, LengthType DEF Shape, TypeOK
<1>3. \/ Rolls' /\ piece' \in Contents /\ rest' \in Contents /\ phase' = "rolling"
      \/ phase' = "streaming" /\ UNCHANGED <<piece, rest>>
  <2>1. CASE phase' = "streaming" /\ UNCHANGED <<piece, rest>>
    BY <2>1
  <2>2. CASE /\ Length(current) >= Threshold
             /\ \E n \in RolloverCuts :
                  piece' = First(current, n) /\ rest' = After(current, n)
             /\ phase' = "rolling"
    <3>1. PICK n \in RolloverCuts :
            piece' = First(current, n) /\ rest' = After(current, n)
      BY <2>2
    <3>2. n \in Nat /\ n <= Length(current)
      BY <1>2, <2>2, Limits DEF RolloverCuts
    <3>3. piece' \in Contents /\ rest' \in Contents
      BY <1>2, <3>1, <3>2, Cut
    <3>4. Rolls'
      BY <1>2, <2>2, <3>1, Limits DEF Rolls, First, After, Length, RolloverCuts
    <3>5. QED
      BY <2>2, <3>3, <3>4
  <2>3. QED
    BY <2>1, <2>2 DEF CheckRollover
<1>4. TypeOK'
  BY <1>1, <1>3 DEF TypeOK, Phases, failures
<1>5. PartsCoverText'
  BY <1>1 DEF PartsCoverText, failures
<1>6. Shape'
  BY <1>1, <1>2, <1>3 DEF Shape, Writing, Delivering
<1>7. QED
  BY <1>4, <1>5, <1>6 DEF IInv

(* The last content of a sequence is extended, or cut into two.            *)
LEMMA TilesExtended ==
  ASSUME NEW s \in Seq(Contents), NEW c \in Contents, NEW m \in Nat, NEW n \in Nat,
         Tiles(Append(s, c), Text("raw", m))
  PROVE  Tiles(Append(s, [c EXCEPT !.to = n]), Text("raw", n))
<1> DEFINE d == [c EXCEPT !.to = n]
           a == Append(s, c)
           b == Append(s, d)
<1>1. d.text = c.text /\ d.from = c.from /\ d.to = n
  BY DEF Contents
<1>2. /\ Len(a) = Len(s) + 1 /\ Len(b) = Len(s) + 1
      /\ DOMAIN a = 1..(Len(s) + 1) /\ DOMAIN b = 1..(Len(s) + 1)
      /\ a[Len(s) + 1] = c /\ b[Len(s) + 1] = d
      /\ \A i \in 1..Len(s) : a[i] = b[i]
  OBVIOUS
<1>3. /\ Text("raw", n).text = Text("raw", m).text
      /\ Text("raw", n).from = Text("raw", m).from
      /\ Text("raw", n).to = n
  BY DEF Text, Content
<1>4. \A i \in DOMAIN b :
        /\ b[i].text = Text("raw", n).text
        /\ b[i].from = IF i = 1 THEN Text("raw", n).from ELSE b[i - 1].to
  <2>1. SUFFICES ASSUME NEW i \in DOMAIN b
                 PROVE /\ b[i].text = Text("raw", n).text
                       /\ b[i].from = IF i = 1 THEN Text("raw", n).from
                                      ELSE b[i - 1].to
    OBVIOUS
  <2>2. /\ a[i].text = Text("raw", m).text
        /\ a[i].from = IF i = 1 THEN Text("raw", m).from ELSE a[i - 1].to
    BY <1>2 DEF Tiles
  <2>3. b[i].text = a[i].text /\ b[i].from = a[i].from
    BY <1>1, <1>2
  <2>4. i # 1 => b[i - 1] = a[i - 1]
    BY <1>2
  <2>5. QED
    BY <1>3, <2>2, <2>3, <2>4
<1>5. b # <<>> /\ b[Len(b)].to = Text("raw", n).to
  BY <1>1, <1>2, <1>3
<1>6. QED
  BY <1>4, <1>5 DEF Tiles

LEMMA TilesCut ==
  ASSUME NEW s \in Seq(Contents), NEW c \in Contents, NEW whole \in Contents,
         NEW n \in Nat, n <= Length(c), Tiles(Append(s, c), whole)
  PROVE  Tiles(Append(Append(s, First(c, n)), After(c, n)), whole)
<1> DEFINE a == Append(s, c)
           b == Append(Append(s, First(c, n)), After(c, n))
           l == Len(s)
<1>1. /\ First(c, n).text = c.text /\ First(c, n).from = c.from
      /\ After(c, n).text = c.text /\ After(c, n).to = c.to
      /\ After(c, n).from = First(c, n).to
  BY Cut
<1>2. /\ l \in Nat /\ Len(a) = l + 1 /\ Len(b) = l + 2
      /\ DOMAIN a = 1..(l + 1) /\ DOMAIN b = 1..(l + 2)
      /\ a[l + 1] = c /\ b[l + 1] = First(c, n) /\ b[l + 2] = After(c, n)
      /\ \A i \in 1..l : a[i] = b[i]
  OBVIOUS
<1>3. \A i \in 1..(l + 1) :
        /\ a[i].text = whole.text
        /\ a[i].from = IF i = 1 THEN whole.from ELSE a[i - 1].to
  BY <1>2 DEF Tiles
<1>4. \A i \in DOMAIN b :
        /\ b[i].text = whole.text
        /\ b[i].from = IF i = 1 THEN whole.from ELSE b[i - 1].to
  <2>1. SUFFICES ASSUME NEW i \in 1..(l + 2)
                 PROVE /\ b[i].text = whole.text
                       /\ b[i].from = IF i = 1 THEN whole.from ELSE b[i - 1].to
    BY <1>2
  <2>2. CASE i = l + 2
    <3>1. b[i].text = whole.text
      BY <1>1, <1>2, <1>3, <2>2
    <3>2. i # 1 /\ b[i].from = b[i - 1].to
      BY <1>1, <1>2, <2>2
    <3>3. QED
      BY <3>1, <3>2
  <2>3. CASE i # l + 2
    <3>1. i \in 1..(l + 1)
      BY <1>2, <2>3
    <3>2. b[i].text = a[i].text /\ b[i].from = a[i].from
      BY <1>1, <1>2, <3>1
    <3>3. i # 1 => b[i - 1] = a[i - 1]
      BY <1>2, <3>1
    <3>4. QED
      BY <1>3, <3>1, <3>2, <3>3
  <2>4. QED
    BY <2>2, <2>3
<1>5. b # <<>> /\ b[Len(b)].to = whole.to
  <2>1. a[Len(a)].to = whole.to
    BY DEF Tiles
  <2>2. b[Len(b)].to = c.to /\ a[Len(a)] = c
    BY <1>1, <1>2
  <2>3. b # <<>>
    BY <1>2
  <2>4. QED
    BY <2>1, <2>2, <2>3
<1>6. QED
  BY <1>4, <1>5 DEF Tiles

-----------------------------------------------------------------------------
(* The invariant is inductive                                              *)

LEMMA Initial == Init => IInv
<1> SUFFICES ASSUME Init PROVE IInv
  OBVIOUS
<1> DEFINE t == Text("raw", 0)
<1>1. /\ t \in Contents /\ t.text = "raw" /\ t.from = 0 /\ t.to = 0
      /\ Length(t) = 0
  BY ContentType DEF Kinds
<1>2. /\ phase = "streaming" /\ received = 0 /\ current = t /\ previous = <<>>
      /\ offset = 0 /\ messages = <<Dots>> /\ live = 1 /\ lastEdit = None
      /\ paused = FALSE /\ cancelled = FALSE /\ final = None /\ piece = Dots
      /\ rest = Dots /\ attempt = 0 /\ after = "streaming" /\ saved = None
      /\ resent = {} /\ givenUp = {}
  BY DEF Init
<1>3. TypeOK
  <2>1. /\ messages \in Seq(Contents) /\ previous \in Seq(Contents)
        /\ Len(messages) = 1
    BY <1>2, FixedContents
  <2>2. live \in 1..Len(messages)
    BY <1>2, <2>1
  <2>3. /\ received \in 0..AnswerLength /\ attempt \in 0..Retries /\ offset \in Nat
        /\ phase \in Phases
    BY <1>2, Limits DEF Phases
  <2>4. QED
    BY <1>1, <1>2, <2>1, <2>2, <2>3, FixedContents DEF TypeOK
<1>4. PartsCoverText
  <2>1. Append(previous, current) = <<t>>
    BY <1>2
  <2>2. Tiles(<<t>>, t)
    BY <1>1 DEF Tiles
  <2>3. QED
    BY <1>1, <1>2, <2>1, <2>2 DEF PartsCoverText
<1>5. WithinLimit
  BY <1>2, FixedContents, Limits DEF WithinLimit
<1>6. Shape
  BY <1>1, <1>2 DEF Shape, Writing, Delivering
<1>7. QED
  BY <1>3, <1>4, <1>5, <1>6 DEF IInv

LEMMA DeltaStep == IInv /\ Delta => IInv'
<1> SUFFICES ASSUME IInv, Delta PROVE IInv'
  OBVIOUS
<1>1. TypeOK /\ PartsCoverText /\ WithinLimit /\ Shape
  BY DEF IInv
<1>2. PICK n \in (received + 1)..Least(received + 2, AnswerLength) :
        received' = n /\ current' = [current EXCEPT !.to = n]
  BY DEF Delta
<1>3. /\ phase = "streaming" /\ final = None
      /\ phase' \in {"streaming", "editing"}
      /\ UNCHANGED <<previous, offset, live, lastEdit, messages, paused,
                     cancelled, delivery, failures>>
  BY DEF Delta, Streaming
<1>4. received \in Nat /\ n \in Nat /\ n \in 0..AnswerLength /\ received < n
  BY <1>1, Limits DEF TypeOK, Least
<1>5. current.text = "raw" /\ current \in Contents /\ current # ErrorText
  BY <1>1, <1>3, FixedContents DEF Shape, TypeOK, Writing
<1>6. Tiles(Append(previous, current), Text("raw", received)) /\ current.from = offset
  BY <1>1, <1>3, <1>5 DEF PartsCoverText
<1>7. current.to = received
  <2>1. previous \in Seq(Contents)
    BY <1>1 DEF TypeOK
  <2>2. Append(previous, current)[Len(Append(previous, current))] = current
    BY <1>5, <2>1
  <2>3. QED
    BY <1>6, <2>2 DEF Tiles, Text, Content
<1>8. /\ current' \in Contents /\ current'.text = "raw"
      /\ current'.from = current.from
  BY <1>2, <1>4, <1>5, <1>7 DEF Contents
<1>9. TypeOK'
  BY <1>1, <1>2, <1>3, <1>4, <1>8 DEF TypeOK, Phases, delivery, failures
<1>10. PartsCoverText'
  <2>1. previous \in Seq(Contents)
    BY <1>1 DEF TypeOK
  <2>2. Tiles(Append(previous, current'), Text("raw", n))
    BY <1>2, <1>4, <1>5, <1>6, <2>1, TilesExtended
  <2>3. previous' = previous /\ live' = live /\ messages' = messages
        /\ givenUp' = givenUp /\ offset' = offset
    BY <1>3 DEF failures
  <2>4. Tiles(Append(previous, current), Text("raw", received))'
    BY <1>2, <2>2, <2>3 DEF Tiles, Text, Content
  <2>5. QED
    BY <1>1, <1>6, <1>8, <2>3, <2>4 DEF PartsCoverText
<1>11. WithinLimit'
  BY <1>1, <1>3 DEF WithinLimit
<1>12. Shape'
  BY <1>1, <1>3, <1>8 DEF Shape, Writing, Delivering, delivery
<1>13. QED
  BY <1>9, <1>10, <1>11, <1>12 DEF IInv

LEMMA EditStep == IInv /\ Edit => IInv'
<1> SUFFICES ASSUME IInv, Edit PROVE IInv'
  OBVIOUS
<1>1. TypeOK /\ PartsCoverText /\ WithinLimit
  BY DEF IInv
<1>2. /\ phase = "editing" /\ CheckRollover
      /\ UNCHANGED <<received, current, previous, offset, live, paused,
                     cancelled, final, attempt, after, saved, failures>>
  BY DEF Edit
<1>3. PICK c \in Visible(current) :
        \/ ShowIn(live, c) /\ lastEdit' = c
        \/ UNCHANGED <<messages, lastEdit>>
  BY DEF Edit
<1>4. c \in Contents /\ Length(c) <= Limit
  BY <1>1, VisibleType DEF TypeOK
<1>5. /\ live = Len(previous) + 1 /\ previous \in Seq(Contents)
      /\ messages \in Seq(Contents) /\ live \in 1..Len(messages)
      /\ lastEdit \in Contents \cup {None} /\ paused \in BOOLEAN
  BY <1>1 DEF TypeOK, PartsCoverText
<1>6. \A i \in DOMAIN previous : i \in DOMAIN messages /\ i # live
  BY <1>5
<1>7. CASE ShowIn(live, c) /\ lastEdit' = c
  <2>1. /\ messages' \in Seq(Contents) /\ Len(messages') = Len(messages)
        /\ WithinLimit'
        /\ \A i \in DOMAIN messages : i # live => messages'[i] = messages[i]
    BY <1>1, <1>4, <1>7, EditedMessages
  <2>2. QED
    BY <1>2, <1>4, <1>5, <1>6, <1>7, <2>1, AfterEdit
<1>8. CASE UNCHANGED <<messages, lastEdit>>
  <2>1. WithinLimit'
    BY <1>1, <1>8 DEF WithinLimit
  <2>2. QED
    BY <1>2, <1>5, <1>8, <2>1, AfterEdit
<1>9. QED
  BY <1>3, <1>7, <1>8

LEMMA EditFailsStep == IInv /\ EditFails => IInv'
<1> SUFFICES ASSUME IInv, EditFails PROVE IInv'
  OBVIOUS
<1>1. TypeOK /\ WithinLimit
  BY DEF IInv
<1>2. /\ phase = "editing" /\ CheckRollover /\ Refused
      /\ UNCHANGED <<session, messages, cancelled, final, attempt, after,
                     saved, failures>>
  BY DEF EditFails
<1>3. /\ paused' \in BOOLEAN /\ messages \in Seq(Contents)
      /\ lastEdit \in Contents \cup {None}
  BY <1>1, <1>2 DEF TypeOK, Refused
<1>4. WithinLimit'
  BY <1>1, <1>2 DEF WithinLimit
<1>5. QED
  BY <1>2, <1>3, <1>4, AfterEdit DEF session

(* Steps that leave the session, the messages and the texts alone.         *)
LEMMA QuietStep ==
  ASSUME IInv,
         UNCHANGED <<session, messages, final, piece, rest, after, failures>>,
         paused' \in BOOLEAN, cancelled' \in BOOLEAN, attempt' \in 0..Retries,
         saved' \in Contents \cup {None},
         \/ phase' = phase
         \/ phase = "rolling" /\ phase' = "streaming"
         \/ phase = "final_edit" /\ phase' = "fallback"
         \/ phase' = "done"
  PROVE  IInv'
<1>1. TypeOK /\ PartsCoverText /\ WithinLimit /\ Shape
  BY DEF IInv
<1>2. TypeOK'
  BY <1>1 DEF TypeOK, Phases, session, failures
<1>3. PartsCoverText'
  BY <1>1 DEF PartsCoverText, session, failures
<1>4. WithinLimit'
  BY <1>1 DEF WithinLimit
<1>5. Rolls => Rolls'
  BY DEF Rolls, session
<1>6. Shape'
  BY <1>1, <1>5 DEF Shape, Writing, Delivering, session
<1>7. QED
  BY <1>2, <1>3, <1>4, <1>6 DEF IInv

LEMMA NewPartStep == IInv /\ NewPart => IInv'
<1> SUFFICES ASSUME IInv, NewPart PROVE IInv'
  OBVIOUS
<1>1. TypeOK /\ PartsCoverText /\ WithinLimit /\ Shape
  BY DEF IInv
<1>2. /\ phase = "rolling" /\ phase' = "closing"
      /\ messages' = Append(messages, Dots)
      /\ UNCHANGED <<session, paused, cancelled, delivery, failures>>
  BY DEF NewPart
<1>3. /\ messages' \in Seq(Contents) /\ Len(messages') = Len(messages) + 1
      /\ WithinLimit'
      /\ \A i \in DOMAIN messages : messages'[i] = messages[i]
  BY <1>1, <1>2, FixedContents, Limits, SentMessages
<1>4. /\ previous \in Seq(Contents) /\ messages \in Seq(Contents)
      /\ live \in 1..Len(messages) /\ live = Len(previous) + 1
  BY <1>1 DEF TypeOK, PartsCoverText
<1>5. \A i \in DOMAIN previous : messages'[i] = messages[i]
  BY <1>3, <1>4
<1>6. TypeOK'
  BY <1>1, <1>2, <1>3 DEF TypeOK, Phases, session, delivery, failures
<1>7. PartsCoverText'
  BY <1>1, <1>2, <1>5 DEF PartsCoverText, session, delivery, failures
<1>8. Rolls'
  BY <1>1, <1>2 DEF Shape, Rolls, session, delivery
<1>9. Shape'
  BY <1>1, <1>2, <1>3, <1>4, <1>8
  DEF Shape, Writing, Delivering, session, delivery
<1>10. QED
  BY <1>3, <1>6, <1>7, <1>9 DEF IInv

LEMMA SwitchPartStep ==
  ASSUME IInv, SwitchPart, paused' \in BOOLEAN,
         \/ ShowIn(live, piece) /\ givenUp' = givenUp
         \/ messages' = messages /\ givenUp' = givenUp \cup {piece}
  PROVE  IInv'
<1>1. TypeOK /\ PartsCoverText /\ WithinLimit /\ Shape
  BY DEF IInv
<1>2. /\ phase = "closing" /\ phase' = "streaming"
      /\ previous' = Append(previous, piece) /\ offset' = offset + Length(piece)
      /\ current' = rest /\ live' = Len(messages) /\ lastEdit' = None
      /\ UNCHANGED <<received, cancelled, final, piece, rest, attempt, after,
                     saved, resent>>
  BY DEF SwitchPart, Continued, NextMessage, delivery
<1>3. /\ final = None /\ current.text = "raw" /\ Len(messages) = live + 1
      /\ Rolls
  BY <1>1, <1>2 DEF Shape, Writing
<1>4. /\ current \in Contents /\ previous \in Seq(Contents)
      /\ messages \in Seq(Contents) /\ live \in 1..Len(messages)
      /\ received \in Nat /\ live = Len(previous) + 1 /\ offset \in Nat
  BY <1>1, Limits DEF TypeOK, PartsCoverText
<1>5. PICK n \in RolloverCuts : piece = First(current, n) /\ rest = After(current, n)
  BY <1>3 DEF Rolls
<1>6. n \in Nat /\ n <= Length(current) /\ n <= Limit
  BY <1>3, <1>4, LengthType, Limits DEF RolloverCuts, Rolls
<1>7. /\ piece \in Contents /\ rest \in Contents /\ rest.text = "raw"
      /\ Length(piece) = n /\ piece.from = current.from
      /\ rest.from = current.from + n
  BY <1>3, <1>4, <1>5, <1>6, Cut
<1>8. /\ messages' \in Seq(Contents) /\ Len(messages') = Len(messages)
      /\ WithinLimit'
      /\ \A i \in DOMAIN messages : i # live => messages'[i] = messages[i]
      /\ messages'[live] = piece \/ piece \in givenUp'
  <2>1. CASE ShowIn(live, piece) /\ givenUp' = givenUp
    BY <1>1, <1>6, <1>7, <2>1, EditedMessages
  <2>2. CASE messages' = messages /\ givenUp' = givenUp \cup {piece}
    BY <1>1, <1>4, <2>2 DEF WithinLimit
  <2>3. QED
    BY <2>1, <2>2
<1>9. givenUp \subseteq givenUp' /\ givenUp' \subseteq givenUp \cup {piece}
  OBVIOUS
<1>10. TypeOK'
  <2>1. givenUp' \subseteq Contents /\ live' \in 1..Len(messages')
    BY <1>1, <1>2, <1>3, <1>4, <1>7, <1>8, <1>9 DEF TypeOK
  <2>2. previous' \in Seq(Contents) /\ offset' \in Nat
    BY <1>2, <1>4, <1>6, <1>7
  <2>3. QED
    BY <1>1, <1>2, <1>7, <1>8, <2>1, <2>2 DEF TypeOK, Phases
<1>11. PartsCoverText'
  <2>1. current # ErrorText
    BY <1>3, FixedContents
  <2>2. Tiles(Append(previous, current), Text("raw", received)) /\ current.from = offset
    BY <1>1, <1>3, <2>1 DEF PartsCoverText
  <2>3. Text("raw", received) \in Contents
    BY <1>4, ContentType DEF Kinds
  <2>4. Tiles(Append(Append(previous, piece), rest), Text("raw", received))
    BY <1>4, <1>5, <1>6, <2>2, <2>3, TilesCut
  <2>5. Tiles(Append(previous, current), Text("raw", received))'
    BY <1>2, <2>4 DEF Tiles, Text, Content
  <2>6. current'.from = offset'
    BY <1>2, <1>7, <2>2
  <2>7. live' = Len(previous') + 1
    BY <1>2, <1>3, <1>4, <1>7
  <2>8. \A i \in DOMAIN previous' :
          messages'[i] = previous'[i] \/ previous'[i] \in givenUp'
    <3>1. SUFFICES ASSUME NEW i \in DOMAIN previous'
                   PROVE messages'[i] = previous'[i] \/ previous'[i] \in givenUp'
      OBVIOUS
    <3>2. CASE i \in DOMAIN previous
      <4>1. previous'[i] = previous[i] /\ i # live /\ i \in DOMAIN messages
        BY <1>2, <1>4, <1>7, <3>2
      <4>2. messages'[i] = messages[i]
        BY <1>8, <4>1
      <4>3. QED
        BY <1>1, <1>9, <3>2, <4>1, <4>2 DEF PartsCoverText
    <3>3. CASE i \notin DOMAIN previous
      <4>1. i = live /\ previous'[i] = piece
        BY <1>2, <1>4, <1>7, <3>1, <3>3
      <4>2. QED
        BY <1>8, <4>1
    <3>4. QED
      BY <3>2, <3>3
  <2>9. QED
    BY <2>5, <2>6, <2>7, <2>8 DEF PartsCoverText
<1>12. Shape'
  BY <1>2, <1>3, <1>7, <1>8 DEF Shape, Writing, Delivering
<1>13. QED
  BY <1>8, <1>10, <1>11, <1>12 DEF IInv

LEMMA FinalEditStep == IInv /\ FinalEdit => IInv'
<1> SUFFICES ASSUME IInv, FinalEdit PROVE IInv'
  OBVIOUS
<1>1. TypeOK /\ PartsCoverText /\ WithinLimit /\ Shape
  BY DEF IInv
<1>2. /\ phase \in Delivering /\ ShowIn(live, piece) /\ NextPiece
      /\ UNCHANGED <<session, paused, cancelled, final, after, saved, failures>>
  BY DEF FinalEdit, Delivering
<1>3. piece \in Contents /\ Length(piece) <= Limit
  BY <1>1, <1>2 DEF TypeOK, Shape
<1>4. /\ messages' \in Seq(Contents) /\ Len(messages') = Len(messages)
      /\ WithinLimit'
      /\ \A i \in DOMAIN messages : i # live => messages'[i] = messages[i]
  BY <1>1, <1>2, <1>3, EditedMessages
<1>5. /\ live = Len(previous) + 1 /\ previous \in Seq(Contents)
      /\ messages \in Seq(Contents) /\ live \in 1..Len(messages)
      /\ resent \subseteq 1..Len(messages) /\ givenUp \subseteq Contents
  BY <1>1 DEF TypeOK, PartsCoverText
<1>6. \A i \in DOMAIN previous : messages'[i] = messages[i]
  BY <1>4, <1>5
<1>7. QED
  BY <1>2, <1>4, <1>5, <1>6, PieceStep DEF failures

(* A piece goes out in a new message, the old one being given up or not.   *)
LEMMA SendStep ==
  ASSUME IInv, phase \in Delivering, NextPiece,
         messages' = Append(messages, piece),
         UNCHANGED <<session, paused, cancelled, final, after, saved, givenUp>>,
         resent' \in {resent, resent \cup {live}}
  PROVE  IInv'
<1>1. TypeOK /\ PartsCoverText /\ WithinLimit /\ Shape
  BY DEF IInv
<1>2. piece \in Contents /\ Length(piece) <= Limit
  BY <1>1 DEF TypeOK, Shape
<1>3. /\ messages' \in Seq(Contents) /\ Len(messages') = Len(messages) + 1
      /\ WithinLimit'
      /\ \A i \in DOMAIN messages : messages'[i] = messages[i]
  BY <1>1, <1>2, SentMessages
<1>4. /\ live = Len(previous) + 1 /\ previous \in Seq(Contents)
      /\ messages \in Seq(Contents) /\ live \in 1..Len(messages)
      /\ resent \subseteq 1..Len(messages) /\ givenUp \subseteq Contents
  BY <1>1 DEF TypeOK, PartsCoverText
<1>5. \A i \in DOMAIN previous : messages'[i] = messages[i]
  BY <1>3, <1>4
<1>6. resent' \subseteq 1..Len(messages') /\ Len(messages') >= Len(messages)
  BY <1>3, <1>4
<1>7. QED
  BY <1>3, <1>4, <1>5, <1>6, PieceStep

LEMMA PieceLostStep == IInv /\ PieceLost => IInv'
<1> SUFFICES ASSUME IInv, PieceLost PROVE IInv'
  OBVIOUS
<1>1. TypeOK /\ WithinLimit
  BY DEF IInv
<1>2. /\ phase \in Delivering /\ NextPiece
      /\ givenUp' = givenUp \cup {piece}
      /\ UNCHANGED <<session, messages, paused, cancelled, final, after, saved,
                     resent>>
  BY DEF PieceLost, Delivering
<1>3. /\ messages \in Seq(Contents) /\ piece \in Contents
      /\ resent \subseteq 1..Len(messages) /\ givenUp \subseteq Contents
  BY <1>1 DEF TypeOK
<1>4. WithinLimit'
  BY <1>1, <1>2 DEF WithinLimit
<1>5. QED
  BY <1>2, <1>3, <1>4, PieceStep

LEMMA FinalizeSteps ==
  IInv /\ (Result \/ NoResult \/ Repaired \/ SaveChecked) => IInv'
<1> SUFFICES ASSUME IInv, Result \/ NoResult \/ Repaired \/ SaveChecked
             PROVE IInv'
  OBVIOUS
<1>1. /\ received \in Nat /\ current \in Contents
      /\ saved \in Contents \cup {None}
      /\ OtherLengths \subseteq Nat
      /\ {"raw", "repaired", "checked"} \subseteq Kinds
  BY Limits, OtherLengthsAssumption DEF IInv, TypeOK, Kinds
<1>2. CASE Result
  <2>1. PICK text \in Fixed(Text("raw", received)) : Finalize(text, "streaming")
    BY <1>2 DEF Result
  <2>2. text \in Contents
    BY <1>1, ContentType, FixedType
  <2>3. saved' \in Contents \cup {None}
    BY <1>1, <1>2 DEF Result
  <2>4. QED
    BY <2>1, <2>2, <2>3, FinalizeStep
<1>3. CASE NoResult
  <2>1. PICK text \in Fixed(current) : Finalize(text, "saving")
    BY <1>3 DEF NoResult
  <2>2. text \in Contents
    BY <1>1, FixedType
  <2>3. saved' \in Contents \cup {None}
    BY <1>1, <1>3 DEF NoResult
  <2>4. QED
    BY <2>1, <2>2, <2>3, FinalizeStep
<1>4. CASE Repaired
  <2>1. PICK n \in OtherLengths :
          Finalize(Text("repaired", n), "done") /\ saved' = Text("repaired", n)
    BY <1>4 DEF Repaired
  <2>2. Text("repaired", n) \in Contents
    BY <1>1, ContentType
  <2>3. QED
    BY <2>1, <2>2, FinalizeStep
<1>5. CASE SaveChecked
  <2>1. PICK n \in OtherLengths :
          Finalize(Text("checked", n), "done") /\ saved' = Text("checked", n)
    BY <1>5 DEF SaveChecked
  <2>2. Text("checked", n) \in Contents
    BY <1>1, ContentType
  <2>3. QED
    BY <2>1, <2>2, FinalizeStep
<1>6. QED
  BY <1>2, <1>3, <1>4, <1>5

LEMMA FailsStep == IInv /\ Fails => IInv'
<1> SUFFICES ASSUME IInv, Fails PROVE IInv'
  OBVIOUS
<1>1. TypeOK /\ PartsCoverText /\ WithinLimit
  BY DEF IInv
<1>2. /\ current' = ErrorText /\ phase' = "aborting"
      /\ UNCHANGED <<received, previous, offset, live, lastEdit, messages,
                     paused, cancelled, delivery, failures>>
  BY DEF Fails
<1>3. TypeOK'
  BY <1>1, <1>2, FixedContents DEF TypeOK, Phases, delivery, failures
<1>4. PartsCoverText'
  BY <1>1, <1>2 DEF PartsCoverText, failures, delivery, ErrorText, Content
<1>5. WithinLimit'
  BY <1>1, <1>2 DEF WithinLimit
<1>6. Shape'
  BY <1>2 DEF Shape, Writing, Delivering, ErrorText, Content
<1>7. QED
  BY <1>3, <1>4, <1>5, <1>6 DEF IInv

LEMMA AbortStep == IInv /\ Abort => IInv'
<1> SUFFICES ASSUME IInv, Abort PROVE IInv'
  OBVIOUS
<1>1. TypeOK /\ PartsCoverText /\ WithinLimit /\ Shape
  BY DEF IInv
<1>2. /\ phase = "aborting" /\ phase' = "done"
      /\ UNCHANGED <<received, current, previous, offset, live, cancelled,
                     delivery, failures>>
  BY DEF Abort
<1>3. current = ErrorText
  BY <1>1, <1>2 DEF Shape
<1>4. /\ live = Len(previous) + 1 /\ previous \in Seq(Contents)
      /\ messages \in Seq(Contents) /\ live \in 1..Len(messages)
  BY <1>1 DEF TypeOK, PartsCoverText
<1>5. /\ messages' \in Seq(Contents) /\ Len(messages') = Len(messages)
      /\ WithinLimit' /\ lastEdit' \in Contents \cup {None} /\ paused' \in BOOLEAN
      /\ \A i \in DOMAIN previous : messages'[i] = messages[i]
  <2>1. CASE ShowIn(live, current) /\ lastEdit' = current /\ UNCHANGED paused
    <3>1. current \in Contents /\ Length(current) <= Limit
      BY <1>3, FixedContents, Limits
    <3>2. /\ messages' \in Seq(Contents) /\ Len(messages') = Len(messages)
          /\ WithinLimit'
          /\ \A i \in DOMAIN messages : i # live => messages'[i] = messages[i]
      BY <1>1, <2>1, <3>1, EditedMessages
    <3>3. \A i \in DOMAIN previous : messages'[i] = messages[i]
      BY <1>4, <3>2
    <3>4. QED
      BY <1>1, <2>1, <3>1, <3>2, <3>3 DEF TypeOK
  <2>2. CASE Refused /\ UNCHANGED <<messages, lastEdit>>
    BY <1>1, <1>4, <2>2 DEF Refused, TypeOK, WithinLimit
  <2>3. QED
    BY <2>1, <2>2 DEF Abort
<1>6. TypeOK'
  BY <1>1, <1>2, <1>4, <1>5 DEF TypeOK, Phases, delivery, failures
<1>7. PartsCoverText'
  BY <1>1, <1>2, <1>5 DEF PartsCoverText, delivery, failures
<1>8. Shape'
  BY <1>2 DEF Shape, Writing, Delivering
<1>9. QED
  BY <1>5, <1>6, <1>7, <1>8 DEF IInv

LEMMA Inductive == IInv /\ [Next]_vars => IInv'
<1> SUFFICES ASSUME IInv, [Next]_vars PROVE IInv'
  OBVIOUS
<1>1. TypeOK
  BY DEF IInv
<1>2. CASE Delta \/ Edit \/ EditFails
  BY <1>2, DeltaStep, EditStep, EditFailsStep
<1>3. CASE NewPart
  BY <1>3, NewPartStep
<1>4. CASE NewPartFails
  BY <1>1, <1>4, QuietStep DEF NewPartFails, delivery, TypeOK
<1>5. CASE ClosePart
  <2>1. paused' \in BOOLEAN
    BY <1>1, <1>5 DEF ClosePart, TypeOK
  <2>2. QED
    BY <1>5, <2>1, SwitchPartStep DEF ClosePart
<1>6. CASE ClosePartFails
  <2>1. paused' \in BOOLEAN
    BY <1>1, <1>6 DEF ClosePartFails, Refused, TypeOK
  <2>2. QED
    BY <1>6, <2>1, SwitchPartStep DEF ClosePartFails
<1>7. CASE FinalEdit
  BY <1>7, FinalEditStep
<1>8. CASE FinalSend
  <2>1. phase \in Delivering
    BY <1>8 DEF FinalSend, Delivering
  <2>2. QED
    BY <1>8, <2>1, SendStep DEF FinalSend, failures
<1>9. CASE Fallback
  <2>1. phase \in Delivering
    BY <1>9 DEF Fallback, Delivering
  <2>2. QED
    BY <1>9, <2>1, SendStep DEF Fallback
<1>10. CASE PieceLost
  BY <1>10, PieceLostStep
<1>11. CASE Retry
  <2>1. Least(attempt + 1, Retries) \in 0..Retries
    BY <1>1, Limits DEF TypeOK, Least
  <2>2. QED
    BY <1>1, <1>11, <2>1, QuietStep DEF Retry, TypeOK
<1>12. CASE EditAbandoned
  BY <1>1, <1>12, QuietStep DEF EditAbandoned, Refused, delivery, TypeOK
<1>13. CASE Result \/ NoResult \/ Repaired \/ SaveChecked
  BY <1>13, FinalizeSteps
<1>14. CASE Discard
  BY <1>1, <1>14, QuietStep DEF Discard, delivery, TypeOK
<1>15. CASE Save
  BY <1>1, <1>15, QuietStep DEF Save, TypeOK
<1>16. CASE Fails
  BY <1>16, FailsStep
<1>17. CASE Abort
  BY <1>17, AbortStep
<1>18. CASE PauseEnds
  BY <1>1, <1>18, QuietStep DEF PauseEnds, delivery, TypeOK
<1>19. CASE Cancel
  BY <1>1, <1>19, QuietStep DEF Cancel, delivery, TypeOK
<1>20. CASE UNCHANGED vars
  BY <1>1, <1>20, QuietStep DEF vars, delivery, TypeOK
<1>21. QED
  BY <1>2, <1>3, <1>4, <1>5, <1>6, <1>7, <1>8, <1>9, <1>10, <1>11, <1>12,
     <1>13, <1>14, <1>15, <1>16, <1>17, <1>18, <1>19, <1>20
  DEF Next, TaskStep

-----------------------------------------------------------------------------
(* What is proved                                                          *)

(* The invariant holds of every state the handler reaches                  *)
(* (handlers.py:1050-1311 and the session of streaming_handler.py).        *)
THEOREM Invariance == Spec => []IInv
<1>1. QED
  BY Initial, Inductive, PTL DEF Spec

(* Every reachable state of the session is well typed: no cut leaves a     *)
(* piece that ends before it begins (streaming_handler.py:421-422, 489).   *)
THEOREM TypeCorrect == Spec => []TypeOK
<1>1. IInv => TypeOK
  BY DEF IInv
<1>2. QED
  BY <1>1, Invariance, PTL

(* The parts of an answer are the text received, without gap or overlap,   *)
(* each in a message of its own (streaming_handler.py:448-453).            *)
THEOREM PartsCover == Spec => []PartsCoverText
<1>1. IInv => PartsCoverText
  BY DEF IInv
<1>2. QED
  BY <1>1, Invariance, PTL

(* No message outgrows Telegram's limit (streaming_handler.py:1074-1081,   *)
(* 496-518).                                                               *)
THEOREM MessagesFit == Spec => []WithinLimit
<1>1. IInv => WithinLimit
  BY DEF IInv
<1>2. QED
  BY <1>1, Invariance, PTL

(* Every edit goes to the live message, which comes after those of the     *)
(* closed parts.                                                           *)
LEMMA EarlierPartsStep ==
  IInv /\ [Next]_vars => [\A i \in DOMAIN previous : messages'[i] = messages[i]]_vars
<1> SUFFICES ASSUME IInv, [Next]_vars, NEW i \in DOMAIN previous
             PROVE messages'[i] = messages[i] \/ UNCHANGED vars
  OBVIOUS
<1>1. /\ live = Len(previous) + 1 /\ previous \in Seq(Contents)
      /\ messages \in Seq(Contents) /\ live \in 1..Len(messages)
  BY DEF IInv, TypeOK, PartsCoverText
<1>2. i \in DOMAIN messages /\ i # live
  BY <1>1
<1>3. \/ UNCHANGED messages
      \/ \E c : messages' = Append(messages, c)
      \/ \E c : messages' = [messages EXCEPT ![live] = c]
  <2>1. CASE TaskStep
    BY <2>1 DEF TaskStep, Delta, Edit, EditFails, NewPart, NewPartFails,
       ClosePart, ClosePartFails, FinalEdit, FinalSend, Retry, EditAbandoned,
       Fallback, PieceLost, Result, NoResult, Repaired, Discard, Save,
       SaveChecked, Fails, Abort, Finalize, ShowIn
  <2>2. CASE PauseEnds \/ Cancel \/ UNCHANGED vars
    BY <2>2 DEF PauseEnds, Cancel, vars
  <2>3. QED
    BY <2>1, <2>2 DEF Next
<1>4. QED
  BY <1>1, <1>2, <1>3

(* The message of a closed part is never touched again                     *)
(* (streaming_handler.py:450, 466-467).                                    *)
THEOREM ClosedPartsStay == Spec => EarlierPartsStay
<1>1. QED
  BY Invariance, EarlierPartsStep, PTL DEF Spec, EarlierPartsStay

-----------------------------------------------------------------------------
(* A delivered answer is shown whole: the invariant Delivery follows the   *)
(* messages of the answer from the first piece of the final text to its    *)
(* end, through retries and the fallback message.                          *)

(* The messages of the answer but the one resent, counted out.             *)
Count == IF resent = {} THEN Len(messages) ELSE Len(messages) - 1
At(n) == IF resent = {} \/ n < live THEN n ELSE n + 1
Seen == [n \in 1..Count |-> messages[At(n)]]

(* The beginning of the final text f.                                      *)
Upto(f, n) == Content(f.text, 0, n)

(* What is still to be delivered, r, follows the piece p.                  *)
Follows(f, p, r) == r.text = f.text /\ r.from = p.to /\ r.to = f.to

(* A delivery whose outcome Delivered is about.                            *)
Counts ==
  /\ givenUp = {} /\ final # None
  /\ \/ final = Text("raw", received) /\ offset < received
     \/ final.text \in {"fixed", "repaired"} /\ previous = <<>>

Progress ==
  /\ phase \in {"final_edit", "fallback"} => resent = {} /\ Len(messages) = live
  /\ phase \in Delivering =>
       /\ Tiles(Append(IF phase = "final_send" THEN Seen ELSE previous, piece),
                Upto(final, piece.to))
       /\ Follows(final, piece, rest)
  /\ phase \in {"streaming", "saving"} \/ (phase = "done" /\ saved # None) =>
       Tiles(Seen, final)
  /\ resent \in {{}, {live}}

Delivery ==
  /\ final = None => resent = {}
  /\ final # None /\ final.text \in {"fixed", "repaired"} => final.from = 0
  /\ saved # None =>
       saved = final /\ (phase = "done" \/ (phase \in Delivering /\ after = "done"))
  /\ Counts /\ phase # "aborting" /\ (phase = "done" => saved # None) => Progress

DInv == IInv /\ Delivery

-----------------------------------------------------------------------------
(* From the invariant to the property                                      *)

LEMMA Interval ==
  ASSUME NEW k \in Nat
  PROVE  /\ IsFiniteSet(1..k) /\ Cardinality(1..k) = k
         /\ \A x \in 1..k : Cardinality((1..k) \ {x}) = k - 1
<1>1. 1 \in Int /\ k \in Int
  OBVIOUS
<1>2. IsFiniteSet(1..k) /\ Cardinality(1..k) = IF 1 > k THEN 0 ELSE k - 1 + 1
  BY <1>1, FS_Interval
<1>3. Cardinality(1..k) = k
  BY <1>2
<1> DEFINE S == 1..k
<1> HIDE DEF S
<1>4. \A x \in S : Cardinality(S \ {x}) = Cardinality(S) - 1
  BY <1>2, FS_RemoveElement DEF S
<1> QED
  BY <1>2, <1>3, <1>4 DEF S

LEMMA ShownIsSeen ==
  ASSUME TypeOK, resent \in {{}, {live}}
  PROVE  Shown = Seen
<1> DEFINE kept == {i \in DOMAIN messages : i \notin resent}
           below(i) == {j \in kept : j < i}
           place(n) == CHOOSE i \in kept : Cardinality(below(i)) = n - 1
           N == Len(messages)
<1>1. N \in Nat /\ DOMAIN messages = 1..N /\ live \in 1..N
  BY DEF TypeOK
<1>2. ASSUME NEW i \in kept
      PROVE  Cardinality(below(i)) = IF resent = {} \/ i < live THEN i - 1 ELSE i - 2
  <2> DEFINE k == i - 1
  <2>1. i \in 1..N /\ k \in Nat /\ i = k + 1
    BY <1>1
  <2>2. CASE resent = {} \/ i < live
    <3>1. below(i) = 1..k
      BY <1>1, <2>1, <2>2
    <3> HIDE DEF k, below, kept
    <3>2. Cardinality(below(i)) = k
      BY <2>1, <3>1, Interval
    <3> QED
      BY <2>1, <2>2, <3>2
  <2>3. CASE ~(resent = {} \/ i < live)
    <3>1. resent = {live} /\ live \in 1..k
      BY <1>1, <2>1, <2>3
    <3>2. below(i) = (1..k) \ {live}
      BY <1>1, <2>1, <3>1
    <3> HIDE DEF k, below, kept
    <3>3. Cardinality(below(i)) = k - 1
      BY <2>1, <3>1, <3>2, Interval
    <3> QED
      BY <2>1, <2>3, <3>3
  <2> QED
    BY <2>2, <2>3
<1>3. Cardinality(kept) = Count
  <2>1. CASE resent = {}
    <3>1. kept = 1..N
      BY <1>1, <2>1
    <3> QED
      BY <1>1, <2>1, <3>1, Interval DEF Count
  <2>2. CASE resent = {live}
    <3>1. kept = (1..N) \ {live}
      BY <1>1, <2>2
    <3> HIDE DEF N, kept
    <3>2. Cardinality(kept) = N - 1
      BY <1>1, <3>1, Interval
    <3> QED
      BY <2>2, <3>2 DEF Count, N
  <2> QED
    BY <2>1, <2>2
<1>4. ASSUME NEW n \in 1..Count
      PROVE  place(n) = At(n)
  <2>1. At(n) \in kept
    BY <1>1 DEF Count, At
  <2>2. n \in Nat
    BY <1>1 DEF Count
  <2>3. \A i \in kept : i \in Nat /\ (resent = {live} => i # live)
    BY <1>1
  <2>4. ASSUME NEW i \in kept
        PROVE  Cardinality(below(i)) = n - 1 <=> i = At(n)
    <3>1. Cardinality(below(i)) = IF resent = {} \/ i < live THEN i - 1 ELSE i - 2
      BY <1>2
    <3>2. i \in Nat /\ (resent = {live} => i # live) /\ live \in Nat
      BY <1>1, <2>3
    <3> HIDE DEF below, kept
    <3> QED
      BY <2>2, <3>1, <3>2 DEF At
  <2> HIDE DEF below, kept
  <2> QED
    BY <2>1, <2>4
<1>5. Shown = [n \in 1..Cardinality(kept) |-> messages[place(n)]]
  BY DEF Shown
<1> HIDE DEF kept, below, place
<1> QED
  BY <1>3, <1>4, <1>5 DEF Seen

LEMMA DeliveredOfInv == DInv => Delivered
<1> SUFFICES ASSUME DInv, phase = "done", saved # None, givenUp = {},
                    \/ saved = Text("raw", received) /\ offset < received
                    \/ saved.text \in {"fixed", "repaired"} /\ previous = <<>>
             PROVE  Tiles(Shown, saved)
  BY DEF Delivered
<1>1. saved = final
  BY DEF DInv, Delivery
<1>2. Counts
  BY <1>1 DEF Counts
<1>3. Progress
  BY <1>2 DEF DInv, Delivery
<1>4. Shown = Seen
  BY <1>3, ShownIsSeen DEF Progress, DInv, IInv
<1> QED
  BY <1>1, <1>3, <1>4 DEF Progress

-----------------------------------------------------------------------------
(* Sequences of contents                                                   *)

(* A content that follows the others is added to them.                     *)
LEMMA TilesAdded ==
  ASSUME NEW s \in Seq(Contents), NEW c \in Contents, NEW t, NEW m,
         Tiles(s, Content(t, 0, m)), c.text = t, c.from = m
  PROVE  Tiles(Append(s, c), Content(t, 0, c.to))
<1> DEFINE b == Append(s, c)
           l == Len(s)
<1>1. /\ l \in Nat /\ l # 0 /\ Len(b) = l + 1 /\ DOMAIN b = 1..(l + 1)
      /\ b[l + 1] = c /\ \A i \in 1..l : b[i] = s[i]
  BY DEF Tiles
<1>2. /\ \A i \in 1..l : s[i].text = t /\ s[i].from = IF i = 1 THEN 0 ELSE s[i - 1].to
      /\ s[l].to = m
  BY <1>1 DEF Tiles, Content
<1> HIDE DEF b, l
<1>3. ASSUME NEW i \in 1..(l + 1)
      PROVE  b[i].text = t /\ b[i].from = IF i = 1 THEN 0 ELSE b[i - 1].to
  <2>1. CASE i = l + 1
    <3>1. b[i] = c /\ b[i - 1] = s[l] /\ i # 1
      BY <1>1, <2>1
    <3> QED
      BY <1>2, <3>1
  <2>2. CASE i # l + 1
    <3>1. i \in 1..l
      BY <1>1, <2>2
    <3>2. b[i] = s[i] /\ (i # 1 => b[i - 1] = s[i - 1])
      BY <1>1, <3>1
    <3> QED
      BY <1>2, <3>1, <3>2
  <2> QED
    BY <2>1, <2>2
<1>4. b # <<>> /\ b[Len(b)].to = c.to
  BY <1>1
<1> QED
  BY <1>1, <1>3, <1>4 DEF Tiles, Content, b

(* The last content is replaced by one that begins where it began.         *)
LEMMA TilesReplaced ==
  ASSUME NEW s \in Seq(Contents), NEW c \in Contents, NEW d \in Contents,
         NEW t, NEW m, Tiles(Append(s, c), Content(t, 0, m)),
         d.text = t, d.from = c.from
  PROVE  Tiles(Append(s, d), Content(t, 0, d.to))
<1> DEFINE a == Append(s, c)
           b == Append(s, d)
           l == Len(s)
<1>1. /\ l \in Nat /\ Len(b) = l + 1 /\ DOMAIN b = 1..(l + 1)
      /\ DOMAIN a = 1..(l + 1) /\ a[l + 1] = c /\ b[l + 1] = d
      /\ \A i \in 1..l : b[i] = a[i]
  OBVIOUS
<1>2. \A i \in 1..(l + 1) :
        a[i].text = t /\ a[i].from = IF i = 1 THEN 0 ELSE a[i - 1].to
  BY <1>1 DEF Tiles, Content
<1> HIDE DEF a, b, l
<1>3. ASSUME NEW i \in 1..(l + 1)
      PROVE  b[i].text = t /\ b[i].from = IF i = 1 THEN 0 ELSE b[i - 1].to
  <2>1. b[i].text = t /\ b[i].from = a[i].from
    BY <1>1, <1>2
  <2>2. i # 1 => b[i - 1] = a[i - 1]
    BY <1>1
  <2> QED
    BY <1>2, <2>1, <2>2
<1>4. b # <<>> /\ b[Len(b)].to = d.to
  BY <1>1
<1> QED
  BY <1>1, <1>3, <1>4 DEF Tiles, Content, b

LEMMA TilesOne ==
  ASSUME NEW c \in Contents, c.from = 0
  PROVE  Tiles(Append(<<>>, c), Content(c.text, 0, c.to))
<1> DEFINE b == Append(<<>>, c)
<1>1. b = <<c>>
  OBVIOUS
<1> HIDE DEF b
<1>2. Len(b) = 1 /\ DOMAIN b = 1..1 /\ b[1] = c /\ b # <<>>
  BY <1>1
<1> QED
  BY <1>2 DEF Tiles, Content, b

-----------------------------------------------------------------------------
(* The steps                                                               *)

(* After a piece has been shown comes the next one, or all is shown.       *)
LEMMA AfterPiece ==
  ASSUME TypeOK, final # None, final.from = 0, NextPiece,
         Follows(final, piece, rest), NEW s \in Seq(Contents),
         Tiles(s, Upto(final, piece.to))
  PROVE  \/ phase' = after /\ Tiles(s, final)
         \/ /\ phase' = "final_send" /\ Follows(final, piece', rest')
            /\ Tiles(Append(s, piece'), Upto(final, piece'.to))
<1>1. rest \in Contents /\ piece \in Contents /\ final \in Contents
  BY DEF TypeOK
<1>2. CASE Length(rest) = 0
  <2>1. piece.to = final.to
    BY <1>1, <1>2 DEF Follows, Length, Contents
  <2>2. Upto(final, final.to) = final
    BY <1>1 DEF Upto, Content, Contents
  <2> QED
    BY <1>2, <2>1, <2>2 DEF NextPiece
<1>3. CASE Length(rest) # 0
  <2>1. PICK n \in SplitSizes(rest) : piece' = First(rest, n) /\ rest' = After(rest, n)
    BY <1>3 DEF NextPiece, Take
  <2>2. n \in Nat /\ n <= Length(rest)
    BY <1>1, SplitSizesType
  <2>3. /\ piece' \in Contents /\ piece'.text = rest.text /\ piece'.from = rest.from
        /\ rest'.text = rest.text /\ rest'.to = rest.to /\ rest'.from = piece'.to
    BY <1>1, <2>1, <2>2, Cut
  <2>4. Follows(final, piece', rest')
    BY <2>3 DEF Follows
  <2>5. Tiles(Append(s, piece'), Upto(final, piece'.to))
    BY <2>3, TilesAdded DEF Follows, Upto
  <2> QED
    BY <1>3, <2>4, <2>5 DEF NextPiece
<1> QED
  BY <1>2, <1>3

(* The messages a step leaves.                                             *)
LEMMA SeenType ==
  ASSUME TypeOK, resent \in {{}, {live}}
  PROVE  Seen \in Seq(Contents) /\ Len(Seen) = Count /\ Count \in Nat
<1>1. /\ messages \in Seq(Contents) /\ Len(messages) \in Nat
      /\ live \in 1..Len(messages)
  BY DEF TypeOK
<1>2. Count \in Nat /\ \A n \in 1..Count : At(n) \in 1..Len(messages)
  BY <1>1 DEF Count, At
<1>3. Seen \in [1..Count -> Contents]
  BY <1>1, <1>2 DEF Seen
<1> QED
  BY <1>2, <1>3

(* A sequence is the function of its elements.                             *)
LEMMA AppendIsFunction ==
  ASSUME NEW s \in Seq(Contents), NEW c \in Contents
  PROVE  /\ Append(s, c) = [n \in 1..(Len(s) + 1) |-> Append(s, c)[n]]
         /\ Append(s, c)[Len(s) + 1] = c
         /\ \A i \in 1..Len(s) : Append(s, c)[i] = s[i]
<1> DEFINE a == Append(s, c)
<1>1. a \in Seq(Contents) /\ Len(a) = Len(s) + 1
  OBVIOUS
<1>2. a \in [1..Len(a) -> Contents]
  BY <1>1, LenProperties
<1>3. a[Len(s) + 1] = c /\ \A i \in 1..Len(s) : a[i] = s[i]
  OBVIOUS
<1> HIDE DEF a
<1>4. a = [n \in 1..(Len(s) + 1) |-> a[n]]
  BY <1>1, <1>2
<1> QED
  BY <1>3, <1>4 DEF a

LEMMA FinalEditSeen ==
  ASSUME IInv, givenUp = {}, resent = {}, resent' = resent, live' = live,
         Len(messages) = live, ShowIn(live, piece)
  PROVE  Seen' = Append(previous, piece)
<1>1. /\ live = Len(previous) + 1 /\ previous \in Seq(Contents)
      /\ messages \in Seq(Contents) /\ Len(messages) = Len(previous) + 1
      /\ \A i \in DOMAIN previous : messages[i] = previous[i]
  BY DEF IInv, TypeOK, PartsCoverText
<1> DEFINE l == Len(previous)
           a == Append(previous, piece)
<1>2. messages' = [messages EXCEPT ![l + 1] = piece]
  BY <1>1 DEF ShowIn
<1>3. /\ Len(messages') = l + 1 /\ messages'[l + 1] = piece
      /\ \A i \in 1..l : messages'[i] = previous[i]
  BY <1>1, <1>2
<1>4. Seen' = [n \in 1..(l + 1) |-> messages'[n]]
  BY <1>3 DEF Seen, Count, At
<1>5. /\ l \in Nat /\ a = [n \in 1..(l + 1) |-> a[n]]
      /\ a[l + 1] = piece /\ \A i \in 1..l : a[i] = previous[i]
  BY <1>1, AppendIsFunction DEF IInv, TypeOK
<1> HIDE DEF l, a
<1>6. \A n \in 1..(l + 1) : messages'[n] = a[n]
  BY <1>3, <1>5
<1> QED
  BY <1>4, <1>5, <1>6 DEF a

LEMMA FallbackSeen ==
  ASSUME IInv, givenUp = {}, resent' = {live}, live' = live,
         Len(messages) = live, messages' = Append(messages, piece)
  PROVE  Seen' = Append(previous, piece)
<1>1. /\ live = Len(previous) + 1 /\ previous \in Seq(Contents)
      /\ messages \in Seq(Contents) /\ Len(messages) = Len(previous) + 1
      /\ \A i \in DOMAIN previous : messages[i] = previous[i]
  BY DEF IInv, TypeOK, PartsCoverText
<1> DEFINE l == Len(previous)
           a == Append(previous, piece)
<1>3. /\ Len(messages') = l + 2 /\ messages'[l + 2] = piece /\ l \in Nat
      /\ \A i \in 1..l : messages'[i] = previous[i]
  BY <1>1
<1>4. Seen' = [n \in 1..(l + 1) |-> messages'[IF n < l + 1 THEN n ELSE n + 1]]
  BY <1>1, <1>3 DEF Seen, Count, At
<1>5. /\ a = [n \in 1..(l + 1) |-> a[n]]
      /\ a[l + 1] = piece /\ \A i \in 1..l : a[i] = previous[i]
  BY <1>1, AppendIsFunction DEF IInv, TypeOK
<1> HIDE DEF l, a
<1>6. \A n \in 1..(l + 1) : messages'[IF n < l + 1 THEN n ELSE n + 1] = a[n]
  BY <1>3, <1>5
<1> QED
  BY <1>4, <1>5, <1>6 DEF a

LEMMA SendSeen ==
  ASSUME TypeOK, resent \in {{}, {live}}, resent' = resent, live' = live,
         messages' = Append(messages, piece)
  PROVE  Seen' = Append(Seen, piece)
<1>1. /\ messages \in Seq(Contents) /\ live \in 1..Len(messages)
      /\ Len(messages') = Len(messages) + 1
      /\ messages'[Len(messages) + 1] = piece
      /\ \A i \in 1..Len(messages) : messages'[i] = messages[i]
  BY DEF TypeOK
<1>2. Seen \in Seq(Contents) /\ Len(Seen) = Count /\ Count \in Nat
  BY SeenType
<1> DEFINE a == Append(Seen, piece)
<1>3. /\ a = [n \in 1..(Count + 1) |-> a[n]] /\ a[Count + 1] = piece
      /\ \A n \in 1..Count : a[n] = Seen[n]
  BY <1>2, AppendIsFunction DEF TypeOK
<1>4. \A n : At(n)' = At(n)
  BY DEF At
<1>5. Count' = Count + 1
  BY <1>1 DEF Count
<1>6. /\ At(Count + 1) = Len(messages) + 1
      /\ \A n \in 1..Count : At(n) \in 1..Len(messages)
  BY <1>1 DEF At, Count
<1>7. Seen' = [n \in 1..(Count + 1) |-> messages'[At(n)]]
  BY <1>4, <1>5 DEF Seen
<1>8. \A n \in 1..Count : Seen[n] = messages[At(n)]
  BY DEF Seen
<1> HIDE DEF a
<1>9. \A n \in 1..(Count + 1) : messages'[At(n)] = a[n]
  <2>1. ASSUME NEW n \in 1..(Count + 1)
        PROVE  messages'[At(n)] = a[n]
    <3>1. CASE n = Count + 1
      BY <1>1, <1>3, <1>6, <3>1
    <3>2. CASE n # Count + 1
      <4>1. n \in 1..Count
        BY <1>2, <3>2
      <4> QED
        BY <1>1, <1>3, <1>6, <1>8, <4>1
    <3> QED
      BY <3>1, <3>2
  <2> QED
    BY <2>1
<1> QED
  BY <1>3, <1>7, <1>9 DEF a

LEMMA InitDelivery == Init => Delivery
BY NoneAssumption DEF Init, Delivery, Counts

(* Before there is a final text, nothing is resent and nothing saved.      *)
LEMMA WritingStep ==
  ASSUME DInv, final = None, final' = None, resent' = resent, saved' = saved
  PROVE  Delivery'
BY DEF DInv, Delivery, Counts

(* A step that leaves the delivery as it is.                               *)
LEMMA WaitingStep ==
  ASSUME DInv, UNCHANGED <<received, previous, offset, live, messages, final,
                           piece, rest, after, saved, resent, givenUp>>,
         \/ phase' = phase
         \/ phase = "final_edit" /\ phase' = "fallback"
  PROVE  Delivery'
<1>1. Delivery
  BY DEF DInv
<1>2. Seen' = Seen
  BY DEF Seen, Count, At
<1>3. Counts' <=> Counts
  BY DEF Counts, Text, Content
<1>4. CASE Counts /\ phase' # "aborting" /\ (phase' = "done" => saved # None)
  <2>1. Progress
    BY <1>1, <1>4 DEF Delivery
  <2>2. Progress'
    BY <1>2, <2>1 DEF Progress, Delivering, Tiles, Upto, Follows, Content
  <2> QED
    BY <1>1, <2>2 DEF Delivery, Delivering
<1>5. CASE ~(Counts /\ phase' # "aborting" /\ (phase' = "done" => saved # None))
  BY <1>1, <1>3, <1>5 DEF Delivery, Delivering
<1> QED
  BY <1>4, <1>5

(* A stream that ends without saving has nothing to show.                  *)
LEMMA EndingStep ==
  ASSUME DInv, UNCHANGED <<final, saved, resent>>,
         phase \in {"streaming", "saving", "aborting"},
         phase' \in {"aborting", "done"}
  PROVE  Delivery'
<1>1. saved = None
  BY DEF DInv, Delivery, Delivering
<1> QED
  BY <1>1 DEF DInv, Delivery

LEMMA SaveStep ==
  ASSUME DInv, Save
  PROVE  Delivery'
<1>1. /\ phase \in {"streaming", "saving"} /\ phase' = "done" /\ saved' = final
      /\ final # None /\ saved = None
      /\ UNCHANGED <<session, messages, final, piece, rest, failures>>
  BY DEF Save, Saving, DInv, IInv, Shape, Delivery, Delivering
<1>2. /\ UNCHANGED <<received, previous, offset, live, resent, givenUp>>
      /\ messages' = messages /\ final' = final
  BY <1>1 DEF session, failures
<1>3. Seen' = Seen /\ (Counts' <=> Counts)
  BY <1>2 DEF Seen, Count, At, Counts, Text, Content
<1>4. Counts => Progress
  BY <1>1 DEF DInv, Delivery
<1>5. Counts => Progress'
  BY <1>1, <1>2, <1>3, <1>4 DEF Progress, Delivering, Tiles
<1> QED
  BY <1>1, <1>2, <1>3, <1>5 DEF DInv, Delivery

(* The first piece of a final text follows the parts that are closed.      *)
LEMMA FinalizeDelivery ==
  ASSUME DInv, phase = "streaming", final = None, NEW text \in Contents,
         NEW then, Finalize(text, then),
         text.text \in {"fixed", "repaired"} => text.from = 0,
         \/ saved' = saved
         \/ saved' = text /\ then = "done"
  PROVE  Delivery'
<1> DEFINE part == FinalPart(text)
<1>1. /\ TypeOK /\ PartsCoverText /\ Shape /\ part \in Contents
      /\ resent = {} /\ saved = None
  BY FinalPartType DEF DInv, IInv, Delivery
<1>2. /\ final' = text /\ text # None /\ phase' = "final_edit" /\ after' = then
      /\ UNCHANGED <<received, previous, offset, live, messages, failures>>
  BY NoneAssumption DEF Finalize
<1>3. PICK n \in FirstSizes(part) : piece' = First(part, n) /\ rest' = After(part, n)
  BY DEF Finalize, FirstSizes, Take
<1>4. /\ piece' \in Contents /\ piece'.text = part.text /\ piece'.from = part.from
      /\ rest'.text = part.text /\ rest'.to = part.to /\ rest'.from = piece'.to
  BY <1>1, <1>3, FirstSizesType, Cut
<1>5. Len(messages) = live /\ current.text = "raw" /\ current # ErrorText
  <2>1. live \in Nat
    BY <1>1 DEF TypeOK
  <2> QED
    BY <1>1, <2>1, FixedContents DEF Shape, Writing
<1>6. ASSUME Counts'
      PROVE  Progress'
  <2>1. \/ text = Text("raw", received) /\ offset < received
        \/ text.text \in {"fixed", "repaired"} /\ previous = <<>>
    BY <1>2, <1>6 DEF Counts, Text, Content
  <2>2. text.from = 0
    BY <2>1 DEF Text, Content
  <2>3. CASE previous = <<>>
    <3>1. part = text
      BY <2>3 DEF FinalPart
    <3>2. Tiles(Append(previous, piece'), Upto(text, piece'.to))
      BY <1>4, <2>2, <2>3, <3>1, TilesOne DEF Upto
    <3> QED
      BY <1>1, <1>2, <1>4, <1>5, <3>1, <3>2
      DEF Progress, Follows, failures, Tiles, Upto, Content
  <2>4. CASE previous # <<>>
    <3>1. /\ text = Text("raw", received) /\ offset < received
          /\ received \in Nat /\ previous \in Seq(Contents) /\ offset \in Nat
          /\ current \in Contents
      BY <1>1, <2>1, <2>4, Limits DEF TypeOK
    <3>2. /\ text.text = "raw" /\ text.from = 0 /\ text.to = received
          /\ Length(text) = received
      BY <3>1 DEF Text, Content, Length
    <3>3. part = After(text, offset)
      BY <2>4, <3>1, <3>2 DEF FinalPart
    <3>4. part.from = offset /\ part.text = "raw" /\ part.to = text.to
      BY <3>1, <3>2, <3>3 DEF After, Contents
    <3>5. /\ Tiles(Append(previous, current), Content("raw", 0, received))
          /\ current.from = offset
      BY <1>1, <1>5 DEF PartsCoverText, Text
    <3>6. Tiles(Append(previous, piece'), Content("raw", 0, piece'.to))
      BY <1>4, <3>1, <3>4, <3>5, TilesReplaced
    <3>7. Tiles(Append(previous, piece'), Upto(text, piece'.to))
      BY <3>2, <3>6 DEF Upto
    <3> QED
      BY <1>1, <1>2, <1>4, <1>5, <3>2, <3>4, <3>7
      DEF Progress, Follows, failures, Tiles, Upto, Content
  <2> QED
    BY <2>3, <2>4
<1> QED
  BY <1>1, <1>2, <1>6 DEF Delivery, Delivering

(* A text the checks have replaced is not one Delivered is about.          *)
LEMMA CheckedStep ==
  ASSUME DInv, SaveChecked
  PROVE  Delivery'
<1>1. PICK n \in OtherLengths :
        Finalize(Text("checked", n), "done") /\ saved' = Text("checked", n)
  BY DEF SaveChecked
<1>2. Text("checked", n) # None /\ Text("checked", n).text = "checked"
  BY OtherLengthsAssumption, ContentType, NoneAssumption DEF Kinds
<1>3. /\ final' = Text("checked", n) /\ phase' = "final_edit" /\ after' = "done"
  BY <1>1 DEF Finalize
<1>4. ~Counts'
  BY <1>2, <1>3 DEF Counts, Text, Content
<1> QED
  BY <1>1, <1>2, <1>3, <1>4 DEF Delivery, Delivering

(* A piece is shown after what was shown before it.                        *)
LEMMA ShownStep ==
  ASSUME DInv, phase \in Delivering, NextPiece,
         UNCHANGED <<session, final, after, saved, givenUp>>,
         Counts => Progress /\ resent' \in {{}, {live}} /\
           Seen' = Append(IF phase = "final_send" THEN Seen ELSE previous, piece)
  PROVE  Delivery'
<1>1. /\ TypeOK /\ final # None /\ Delivery
      /\ piece' \in Contents /\ rest' \in Contents
      /\ phase' \in {after, "final_send"}
  BY NextPieceStep DEF DInv, IInv, Shape
<1>2. /\ final' = final /\ saved' = saved /\ after' = after /\ live' = live
      /\ previous' = previous /\ (Counts' <=> Counts)
  BY DEF session, Counts, Text, Content
<1>3. saved # None => saved = final /\ after = "done"
  BY <1>1 DEF Delivery, Delivering
<1>4. ASSUME Counts
      PROVE  Progress'
  <2>0. Progress /\ resent' \in {{}, {live}}
    BY <1>4
  <2> DEFINE before == IF phase = "final_send" THEN Seen ELSE previous
             s == Append(before, piece)
  <2>1. Seen' = s
    BY <1>4
  <2>2. Tiles(s, Upto(final, piece.to)) /\ Follows(final, piece, rest)
    BY <2>0 DEF Progress
  <2>3. s \in Seq(Contents)
    BY <1>1, <2>0, SeenType DEF Progress, TypeOK
  <2>4. final.from = 0
    BY <1>1, <1>4 DEF Counts, Delivery, Text, Content
  <2> HIDE DEF s
  <2>5. \/ phase' = after /\ Tiles(s, final)
        \/ /\ phase' = "final_send" /\ Follows(final, piece', rest')
           /\ Tiles(Append(s, piece'), Upto(final, piece'.to))
    BY <1>1, <2>2, <2>3, <2>4, AfterPiece
  <2>6. after \in {"streaming", "saving", "done"}
    BY <1>1 DEF TypeOK
  <2>7. CASE phase' = after /\ Tiles(s, final)
    BY <1>2, <2>0, <2>1, <2>6, <2>7 DEF Progress, Delivering, Tiles
  <2>8. CASE /\ phase' = "final_send" /\ Follows(final, piece', rest')
             /\ Tiles(Append(s, piece'), Upto(final, piece'.to))
    BY <1>2, <2>0, <2>1, <2>8 DEF Progress, Delivering, Tiles, Follows, Upto, Content
  <2> QED
    BY <2>5, <2>7, <2>8
<1> QED
  BY <1>1, <1>2, <1>3, <1>4 DEF Delivery, Delivering

LEMMA PiecesStep ==
  ASSUME DInv, FinalEdit \/ FinalSend \/ Fallback
  PROVE  Delivery'
<1>1. /\ TypeOK /\ IInv /\ Delivery
      /\ phase \in Delivering /\ NextPiece
      /\ UNCHANGED <<session, final, after, saved, givenUp>>
      /\ live' = live
  BY DEF DInv, IInv, FinalEdit, FinalSend, Fallback, Delivering, failures, session
<1>2. ASSUME Counts
      PROVE  /\ Progress /\ resent' \in {{}, {live}}
             /\ Seen' = Append(IF phase = "final_send" THEN Seen ELSE previous, piece)
  <2>1. Progress /\ givenUp = {}
    BY <1>1, <1>2 DEF Delivery, Delivering, Counts
  <2>2. CASE FinalEdit
    <3>1. /\ phase = "final_edit" /\ ShowIn(live, piece) /\ resent' = resent
          /\ resent = {} /\ Len(messages) = live
      BY <2>1, <2>2 DEF FinalEdit, failures, Progress
    <3> QED
      BY <1>1, <2>1, <3>1, FinalEditSeen
  <2>3. CASE FinalSend
    <3>1. /\ phase = "final_send" /\ messages' = Append(messages, piece)
          /\ resent' = resent /\ resent \in {{}, {live}}
      BY <2>1, <2>3 DEF FinalSend, failures, Progress
    <3> QED
      BY <1>1, <2>1, <3>1, SendSeen
  <2>4. CASE Fallback
    <3>1. /\ phase = "fallback" /\ messages' = Append(messages, piece)
          /\ resent' = {live} /\ Len(messages) = live
      BY <2>1, <2>4 DEF Fallback, Progress
    <3> QED
      BY <1>1, <2>1, <3>1, FallbackSeen
  <2> QED
    BY <2>2, <2>3, <2>4
<1> QED
  BY <1>1, <1>2, ShownStep

LEMMA LostStep ==
  ASSUME DInv, PieceLost
  PROVE  Delivery'
<1>1. ~Counts'
  BY DEF PieceLost, Counts
<1>2. /\ TypeOK /\ final # None /\ Delivery /\ NextPiece /\ phase \in Delivering
      /\ UNCHANGED <<final, after, saved, resent>> /\ phase' \in {after, "final_send"}
  BY NextPieceStep DEF DInv, IInv, Shape, PieceLost, Delivering
<1> QED
  BY <1>1, <1>2 DEF Delivery, Delivering

LEMMA DeliverySteps == DInv /\ [Next]_vars => DInv'
<1> SUFFICES ASSUME DInv, [Next]_vars
             PROVE  Delivery'
  BY Inductive DEF DInv
<1>1. TypeOK /\ Shape
  BY DEF DInv, IInv
<1>2. CASE Delta \/ Edit \/ EditFails \/ NewPart \/ NewPartFails \/ ClosePart
           \/ ClosePartFails
  <2>1. final = None
    BY <1>1, <1>2 DEF Shape, Delta, Streaming, Edit, EditFails, NewPart,
       NewPartFails, ClosePart, ClosePartFails, SwitchPart
  <2>2. UNCHANGED <<final, resent, saved>>
    BY <1>2 DEF Delta, Edit, EditFails, NewPart, NewPartFails, ClosePart,
       ClosePartFails, SwitchPart, delivery, failures
  <2> QED
    BY <2>1, <2>2, WritingStep
<1>3. CASE FinalEdit \/ FinalSend \/ Fallback
  BY <1>3, PiecesStep
<1>4. CASE PieceLost
  BY <1>4, LostStep
<1>5. CASE Retry \/ EditAbandoned \/ PauseEnds \/ Cancel \/ UNCHANGED vars
  BY <1>5, WaitingStep DEF Retry, EditAbandoned, PauseEnds, Cancel, vars,
     session, delivery, failures
<1>6. CASE Result
  <2>1. PICK text \in Fixed(Text("raw", received)) : Finalize(text, "streaming")
    BY <1>6 DEF Result
  <2>2. Text("raw", received) \in Contents /\ Text("raw", received).from = 0
    BY <1>1, ContentType, Limits DEF TypeOK, Kinds
  <2>3. text \in Contents
    BY <2>2, FixedType
  <2>4. text.from = 0
    BY <2>1, <2>2 DEF Fixed, Text, Content
  <2>5. phase = "streaming" /\ final = None /\ saved' = saved
    BY <1>6 DEF Result, Streaming
  <2> QED
    BY <2>1, <2>3, <2>4, <2>5, FinalizeDelivery
<1>7. CASE NoResult
  <2>1. PICK text \in Fixed(current) : Finalize(text, "saving")
    BY <1>7 DEF NoResult
  <2>2. phase = "streaming" /\ final = None /\ saved' = saved
    BY <1>7 DEF NoResult, Streaming
  <2>3. current \in Contents /\ current.text = "raw"
    BY <1>1, <2>2 DEF TypeOK, Shape, Writing
  <2>4. text \in Contents
    BY <2>3, FixedType
  <2>5. text.text \in {"fixed", "repaired"} => text.from = 0
    BY <2>1, <2>3 DEF Fixed, Text, Content
  <2> QED
    BY <2>1, <2>2, <2>4, <2>5, FinalizeDelivery
<1>8. CASE Repaired
  <2>1. PICK n \in OtherLengths :
          Finalize(Text("repaired", n), "done") /\ saved' = Text("repaired", n)
    BY <1>8 DEF Repaired
  <2>2. Text("repaired", n) \in Contents /\ Text("repaired", n).from = 0
    BY OtherLengthsAssumption, ContentType DEF Kinds
  <2>3. phase = "streaming" /\ final = None
    BY <1>8 DEF Repaired
  <2> QED
    BY <2>1, <2>2, <2>3, FinalizeDelivery
<1>9. CASE SaveChecked
  BY <1>9, CheckedStep
<1>10. CASE Discard
  BY <1>10, EndingStep DEF Discard, delivery, failures
<1>11. CASE Save
  BY <1>11, SaveStep
<1>12. CASE Fails
  BY <1>12, EndingStep DEF Fails, Saving, delivery, failures
<1>13. CASE Abort
  BY <1>13, EndingStep DEF Abort, delivery, failures
<1> QED
  BY <1>2, <1>3, <1>4, <1>5, <1>6, <1>7, <1>8, <1>9, <1>10, <1>11, <1>12, <1>13
  DEF Next, TaskStep

(* Once an answer is saved and no call was given up, its messages show the *)
(* whole of it, in order and without repetition, for any lengths and       *)
(* limits (streaming_handler.py:487-519, 541-560, 582-622).                *)
THEOREM AnswersAreDelivered == Spec => []Delivered
<1>1. Init => DInv
  BY Initial, InitDelivery DEF DInv
<1> QED
  BY <1>1, DeliverySteps, DeliveredOfInv, PTL DEF Spec

-----------------------------------------------------------------------------
(* Every step of the task leaves less to do                                *)

(* A text that is split is taken in pieces of at least one unit.           *)
LEMMA SplitsShrink ==
  ASSUME NEW c \in Contents, Length(c) # 0, NEW n \in SplitSizes(c)
  PROVE  n > 0
<1>1. Length(c) \in Nat
  BY LengthType
<1>2. PartLimit \div 3 \in Nat
  BY Limits
<1>3. QED
  BY <1>1, <1>2, Limits DEF SplitSizes

(* What is to be done is counted in natural numbers.                       *)
LEMMA ToDoType ==
  ASSUME IInv
  PROVE  ToDo \in Nat \X Nat \X Nat
<1>1. TypeOK /\ Length(rest) \in Nat
  BY LengthType DEF IInv, TypeOK
<1>2. Round \in Nat
  BY <1>1 DEF Round, TypeOK
<1>3. Missing \in Nat
  BY <1>1, Limits DEF Missing, TypeOK
<1>4. CallsLeft \in Nat
  BY <1>1, Limits DEF CallsLeft, TypeOK
<1>5. QED
  BY <1>2, <1>3, <1>4 DEF ToDo

(* A step with fewer rounds to go.                                         *)
LEMMA FewerRounds ==
  ASSUME Round' < Round
  PROVE  Before(ToDo', ToDo)
BY DEF Before, ToDo

(* In the same round, a step with less of the text missing.                *)
LEMMA FewerUnits ==
  ASSUME Round' = Round, Missing' < Missing
  PROVE  Before(ToDo', ToDo)
BY DEF Before, ToDo

(* With the same text missing, a step with fewer calls left.               *)
LEMMA FewerCalls ==
  ASSUME Round' = Round, Missing' = Missing, CallsLeft' < CallsLeft
  PROVE  Before(ToDo', ToDo)
BY DEF Before, ToDo

(* A delta brings more of the answer; an edit and what follows it are done *)
(* one after the other.                                                    *)
LEMMA WritingAdvances ==
  ASSUME IInv, Delta \/ Edit \/ EditFails \/ NewPart \/ NewPartFails \/ SwitchPart
  PROVE  Before(ToDo', ToDo)
<1> USE DEF Delivering
<1>1. TypeOK /\ Shape
  BY DEF IInv
<1>2. phase \in Writing /\ final = None /\ Round = 5 /\ Missing = AnswerLength - received
  BY <1>1 DEF Delta, Streaming, Edit, EditFails, NewPart, NewPartFails, SwitchPart, Shape,
              Writing, Round, Missing
<1>3. phase' \in Writing /\ final' = None
  BY <1>2 DEF Delta, Edit, EditFails, NewPart, NewPartFails, SwitchPart, CheckRollover, Writing,
              delivery
<1>4. Round' = 5 /\ Missing' = AnswerLength - received'
  BY <1>3 DEF Round, Missing, Writing
<1>5. CASE Delta
  <2>1. received \in Nat /\ received' \in Nat /\ received' > received /\ received' <= AnswerLength
    BY <1>1, <1>5, Limits DEF Delta, Least, TypeOK
  <2>2. Missing' < Missing
    <3>1. AnswerLength \in Nat
      BY Limits
    <3>2. \A a, b, n \in Nat : b > a => n - b < n - a
      OBVIOUS
    <3>3. AnswerLength - received' < AnswerLength - received
      BY <2>1, <3>1, <3>2
    <3>4. QED
      BY <1>2, <1>4, <3>3
  <2>3. QED
    BY <1>2, <1>4, <2>2, FewerUnits
<1>6. CASE ~ Delta
  <2>1. received' = received
    BY <1>6 DEF Edit, EditFails, NewPart, NewPartFails, SwitchPart, session
  <2>2. CallsLeft' < CallsLeft
    BY <1>6 DEF Edit, EditFails, NewPart, NewPartFails, SwitchPart, CheckRollover, CallsLeft
  <2>3. QED
    BY <1>2, <1>4, <2>1, <2>2, FewerCalls
<1>7. QED
  BY <1>5, <1>6

(* After a piece, less of the text is left, or its delivery is over.       *)
LEMMA PiecesAdvance ==
  ASSUME IInv, phase \in Delivering, NextPiece, UNCHANGED <<final, after>>
  PROVE  Before(ToDo', ToDo)
<1>1. TypeOK /\ Shape /\ rest \in Contents /\ Length(rest) \in Nat /\ final # None
  BY LengthType DEF IInv, TypeOK, Shape
<1>2. Round = (IF after = "done" THEN 2 ELSE 4) /\ Missing = Length(rest)
  BY DEF Round, Missing, Delivering
<1>3. CASE Length(rest) = 0
  <2>1. phase' = after /\ after \in {"streaming", "saving", "done"}
    BY <1>1, <1>3 DEF NextPiece, TypeOK
  <2>2. Round' < Round
    BY <1>1, <1>2, <2>1 DEF Round, Delivering
  <2>3. QED
    BY <2>2, FewerRounds
<1>4. CASE Length(rest) # 0
  <2>1. Take(rest, SplitSizes(rest)) /\ phase' = "final_send"
    BY <1>4 DEF NextPiece
  <2>2. PICK n \in SplitSizes(rest) : rest' = After(rest, n)
    BY <2>1 DEF Take
  <2>3. Length(rest') < Length(rest)
    <3>1. n \in Nat /\ n <= Length(rest) /\ n > 0
      BY <1>1, <1>4, SplitSizesType, SplitsShrink
    <3>2. Length(rest') = Length(rest) - n
      BY <1>1, <2>2, <3>1, Cut
    <3>3. QED
      BY <1>1, <3>1, <3>2
  <2>4. Missing' = Length(rest') /\ Round' = Round
    BY <1>2, <2>1 DEF Missing, Round, Delivering, Length
  <2>5. QED
    BY <1>2, <2>3, <2>4, FewerUnits
<1>5. QED
  BY <1>3, <1>4

(* Flood control is answered a limited number of times, then the edit is   *)
(* given up for the fallback message.                                      *)
LEMMA RetriesAdvance ==
  ASSUME IInv, Retry \/ EditAbandoned
  PROVE  Before(ToDo', ToDo)
<1>1. attempt \in 0..Retries
  BY DEF IInv, TypeOK
<1>2. phase \in Delivering /\ phase' \in Delivering /\ UNCHANGED <<rest, after>>
  BY DEF Retry, EditAbandoned, delivery, Delivering
<1>3. Round' = Round /\ Missing' = Missing
  BY <1>2 DEF Round, Missing, Delivering, Length
<1>4. CallsLeft' < CallsLeft
  <2>1. CASE Retry
    <3>1. attempt < Retries /\ attempt' = attempt + 1 /\ phase' = phase
          /\ phase \in {"final_edit", "final_send"}
      BY <1>1, <2>1, Limits DEF Retry, MayRetry, Least
    <3>2. CallsLeft = 1 + (Retries - attempt) /\ CallsLeft' = 1 + (Retries - attempt')
      BY <3>1 DEF CallsLeft
    <3>3. QED
      BY <1>1, <3>1, <3>2, Limits
  <2>2. CASE EditAbandoned
    <3>1. CallsLeft' = 0 /\ CallsLeft = 1 + (Retries - attempt)
      BY <2>2 DEF EditAbandoned, CallsLeft
    <3>2. QED
      BY <1>1, <3>1, Limits
  <2>3. QED
    BY <2>1, <2>2
<1>5. QED
  BY <1>3, <1>4, FewerCalls

(* The text is complete, replaced or given up: a later round begins.       *)
LEMMA EndingsAdvance ==
  ASSUME IInv,
         Result \/ NoResult \/ Repaired \/ Discard \/ Save \/ SaveChecked \/ Fails \/ Abort
  PROVE  Before(ToDo', ToDo)
<1> USE DEF Delivering
<1>1. TypeOK /\ Shape
  BY DEF IInv
<1>2. CASE \/ \E text : Result /\ Finalize(text, "streaming")
           \/ \E text : NoResult /\ Finalize(text, "saving")
           \/ \E text : Repaired /\ Finalize(text, "done")
  <2>1. phase = "streaming" /\ final = None /\ phase' = "final_edit"
    BY <1>2 DEF Result, NoResult, Streaming, Repaired, Finalize
  <2>2. Round = 5 /\ Round' \in {2, 4}
    BY <2>1 DEF Round
  <2>3. QED
    BY <2>2, FewerRounds
<1>3. CASE SaveChecked
  <2>1. phase \in {"streaming", "saving"} /\ final # None /\ phase' = "final_edit" /\ after' = "done"
    BY <1>1, <1>3 DEF SaveChecked, Saving, Finalize, Shape
  <2>2. Round = 3 /\ Round' = 2
    BY <2>1 DEF Round
  <2>3. QED
    BY <2>2, FewerRounds
<1>4. CASE Discard \/ Save \/ Fails \/ Abort
  <2>1. phase \in {"streaming", "saving", "aborting"} /\ phase' \in {"done", "aborting"}
        /\ (phase = "aborting" => phase' = "done")
    BY <1>4 DEF Discard, Save, Saving, Fails, Abort
  <2>2. Round' < Round
    BY <2>1 DEF Round
  <2>3. QED
    BY <2>2, FewerRounds
<1>5. QED
  BY <1>2, <1>3, <1>4 DEF Result, NoResult, Repaired

(* Nothing but the clock and the user lets the delivery stand still, and   *)
(* nothing sets it back.                                                   *)
THEOREM DeliveryAdvances == Spec => EveryStepDelivers
<1>1. IInv /\ [Next]_vars
        => [\/ Before(ToDo', ToDo)
            \/ (PauseEnds \/ Cancel) /\ UNCHANGED ToDo]_vars
  <2> SUFFICES ASSUME IInv, Next
               PROVE  \/ Before(ToDo', ToDo)
                      \/ (PauseEnds \/ Cancel) /\ UNCHANGED ToDo
    OBVIOUS
  <2>1. CASE PauseEnds \/ Cancel
    BY <2>1 DEF PauseEnds, Cancel, ToDo, Round, Missing, CallsLeft, session, delivery, Length
  <2>2. CASE Delta \/ Edit \/ EditFails \/ NewPart \/ NewPartFails \/ ClosePart \/ ClosePartFails
    BY <2>2, WritingAdvances DEF ClosePart, ClosePartFails
  <2>3. CASE FinalEdit \/ FinalSend \/ Fallback \/ PieceLost
    BY <2>3, PiecesAdvance DEF FinalEdit, FinalSend, Fallback, PieceLost, Delivering
  <2>4. CASE Retry \/ EditAbandoned
    BY <2>4, RetriesAdvance
  <2>5. CASE Result \/ NoResult \/ Repaired \/ Discard \/ Save \/ SaveChecked \/ Fails \/ Abort
    BY <2>5, EndingsAdvance
  <2>6. QED
    BY <2>1, <2>2, <2>3, <2>4, <2>5 DEF Next, TaskStep
<1>2. QED
  BY <1>1, Invariance, PTL DEF Spec, EveryStepDelivers
=============================================================================
