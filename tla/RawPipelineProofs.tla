------------------------- MODULE RawPipelineProofs -------------------------
(***************************************************************************)
(* Proofs about RawPipeline, for any buffer, any lines and any groups.     *)
(*                                                                         *)
(* LineInv says where a scanned line is: among those sent, in the hand of  *)
(* process or on the stream, each of which has room for one, and in this   *)
(* order.  OrderInv continues the order over the sockets and the proxy to  *)
(* the writer: at every moment the lines at one place come before those    *)
(* at the places before it.  NumbersInv says which number the next         *)
(* multicast line gets.                                                    *)
(***************************************************************************)
EXTENDS RawPipeline, Integers, TLAPS, SequenceTheorems

Slices == [line : Int, cell : Nat, torn : Nat]
LineMessages == [connector : {"line"}, line : Int]
HttpMessages == [connector : {"http"}]

HandLine == hand["line"]
StreamLine == stream["line"]

SourceShape ==
  /\ stream = [c \in Connectors |-> stream[c]]
  /\ hand = [c \in Connectors |-> hand[c]]

SourceType ==
  /\ SourceShape
  /\ StreamLine \in Seq(Slices) /\ Len(StreamLine) <= 1
  /\ HandLine \in Seq(Slices) /\ Len(HandLine) <= 1

LineType ==
  /\ read \in Nat /\ filled \in Nat
  /\ next \in Nat \ {0} /\ next <= filled + 1
  /\ scanned \in Seq(Int)
  /\ sent \in Seq([line : Int, torn : Nat])

(* Line number i was overwritten when it was one of the last two scanned. *)
TornLate(i, torn) == torn # 0 => i \in {torn - 1, torn}

Counted == Len(scanned) = Len(sent) + Len(HandLine) + Len(StreamLine)

SentOK ==
  \A i \in 1 .. Len(sent) :
    sent[i].line = scanned[i] /\ TornLate(i, sent[i].torn)

HandOK ==
  Len(HandLine) = 1 =>
    /\ HandLine[1].line = scanned[Len(sent) + 1]
    /\ TornLate(Len(sent) + 1, HandLine[1].torn)

StreamOK ==
  Len(StreamLine) = 1 =>
    /\ StreamLine[1].line = scanned[Len(scanned)]
    /\ StreamLine[1].torn \in {0, Len(scanned), Len(scanned) + 1}

LineInv == SourceType /\ LineType /\ Counted /\ SentOK /\ HandOK /\ StreamOK

LEMMA LineInvInit == Init => LineInv
<1> SUFFICES ASSUME Init PROVE LineInv
  OBVIOUS
<1> QED
  BY DEF Init, SourceInit, LineInit, LineInv, Counted, SentOK, HandOK, StreamOK, SourceType, SourceShape, LineType, HandLine,
         StreamLine, Connectors, Slices

LEMMA EmptyLen == Len(<<>>) = 0
OBVIOUS

LEMMA One ==
  ASSUME NEW S, NEW x \in S
  PROVE  <<x>> \in Seq(S) /\ Len(<<x>>) = 1 /\ <<x>>[1] = x
OBVIOUS

LEMMA JustOne ==
  ASSUME NEW S, NEW s \in Seq(S), s # <<>>, Len(s) <= 1
  PROVE  Len(s) = 1 /\ s[1] \in S
<1>1. Len(s) \in Nat \ {0}
  BY EmptySeq
<1>2. Len(s) = 1
  BY <1>1
<1> QED
  BY <1>2, ElementOfSeq

(* Overwriting and releasing slices changes neither their number nor their *)
(* lines; what gets torn is torn now.                                      *)
LEMMA TornSlices ==
  ASSUME NEW cells, NEW slices \in Seq(Slices), Len(scanned) \in Nat
  PROVE  /\ Torn(cells, slices) \in Seq(Slices)
         /\ Len(Torn(cells, slices)) = Len(slices)
         /\ \A i \in 1 .. Len(slices) :
              /\ Torn(cells, slices)[i].line = slices[i].line
              /\ \/ Torn(cells, slices)[i].torn = slices[i].torn
                 \/ Torn(cells, slices)[i].torn = Len(scanned)
<1> DEFINE n == Len(slices)
           t == Torn(cells, slices)
<1>1. n \in Nat /\ DOMAIN slices = 1 .. n /\ \A i \in 1 .. n : slices[i] \in Slices
  OBVIOUS
<1>2. DOMAIN t = 1 .. n /\ \A i \in 1 .. n : t[i] =
        [slices[i] EXCEPT !.torn =
           IF @ = 0 /\ slices[i].cell \in cells THEN Len(scanned) ELSE @]
  BY <1>1 DEF Torn
<1>3. \A i \in 1 .. n :
        /\ t[i] \in Slices /\ t[i].line = slices[i].line
        /\ t[i].torn = slices[i].torn \/ t[i].torn = Len(scanned)
  BY <1>1, <1>2, SMTT(60) DEF Slices
<1>4. t \in [1 .. n -> Slices]
  BY <1>2, <1>3 DEF Torn
<1>5. t \in Seq(Slices) /\ Len(t) = n
  BY <1>1, <1>4, SeqDef, LenProperties
<1> QED
  BY <1>3, <1>5

LEMMA ReleasedSlices ==
  ASSUME NEW slices \in Seq(Slices)
  PROVE  /\ Released(slices) \in Seq(Slices)
         /\ Len(Released(slices)) = Len(slices)
         /\ \A i \in 1 .. Len(slices) :
              /\ Released(slices)[i].line = slices[i].line
              /\ Released(slices)[i].torn = slices[i].torn
<1> DEFINE n == Len(slices)
           t == Released(slices)
<1>1. n \in Nat /\ DOMAIN slices = 1 .. n /\ \A i \in 1 .. n : slices[i] \in Slices
  OBVIOUS
<1>2. DOMAIN t = 1 .. n /\ \A i \in 1 .. n : t[i] = [slices[i] EXCEPT !.cell = 0]
  BY <1>1 DEF Released
<1>3. \A i \in 1 .. n : /\ t[i] \in Slices /\ t[i].line = slices[i].line
                        /\ t[i].torn = slices[i].torn
  BY <1>1, <1>2 DEF Slices
<1>4. t \in [1 .. n -> Slices]
  BY <1>2, <1>3 DEF Released
<1>5. t \in Seq(Slices) /\ Len(t) = n
  BY <1>1, <1>4, SeqDef, LenProperties
<1> QED
  BY <1>3, <1>5

(* A read from the front of the buffer leaves every slice where it is. *)
LEMMA LineInvOverwrite ==
  ASSUME LineInv, NEW cells, Overwrite(cells), UNCHANGED <<scanned, sent>>,
         LineType'
  PROVE  LineInv'
<1>1. Len(scanned) \in Nat /\ HandLine \in Seq(Slices) /\ StreamLine \in Seq(Slices)
  BY DEF LineInv, SourceType, LineType
<1>2. /\ HandLine' = Torn(cells, HandLine)
      /\ StreamLine' = Torn(cells, StreamLine)
      /\ SourceShape'
  BY DEF Overwrite, LineInv, SourceType, SourceShape,
     HandLine, StreamLine, Connectors
<1>3. /\ HandLine' \in Seq(Slices) /\ Len(HandLine') = Len(HandLine)
      /\ \A i \in 1 .. Len(HandLine) :
           /\ HandLine'[i].line = HandLine[i].line
           /\ \/ HandLine'[i].torn = HandLine[i].torn
              \/ HandLine'[i].torn = Len(scanned)
  BY <1>1, <1>2, TornSlices
<1>4. /\ StreamLine' \in Seq(Slices) /\ Len(StreamLine') = Len(StreamLine)
      /\ \A i \in 1 .. Len(StreamLine) :
           /\ StreamLine'[i].line = StreamLine[i].line
           /\ \/ StreamLine'[i].torn = StreamLine[i].torn
              \/ StreamLine'[i].torn = Len(scanned)
  BY <1>1, <1>2, TornSlices
<1>5. Len(sent) \in Nat /\ Len(HandLine) \in Nat /\ Len(StreamLine) \in Nat
  BY <1>1 DEF LineInv, LineType
<1>6. SourceType'
  BY <1>2, <1>3, <1>4 DEF LineInv, SourceType
<1>7. Len(HandLine) = 1 => TornLate(Len(sent) + 1, HandLine'[1].torn)
  BY <1>1, <1>3, <1>5 DEF LineInv, SourceType, TornLate, Counted, HandOK
<1>8. /\ Len(HandLine') = 1 => HandLine'[1].line = HandLine[1].line
      /\ Len(StreamLine') = 1 => StreamLine'[1].line = StreamLine[1].line
  BY <1>3, <1>4
<1>9. Len(StreamLine') = 1 => StreamLine'[1].torn \in {0, Len(scanned), Len(scanned) + 1}
  BY <1>4 DEF LineInv, StreamOK
<1> QED
  BY <1>3, <1>4, <1>6, <1>7, <1>8, <1>9
  DEF LineInv, Counted, SentOK, HandOK, StreamOK

LEMMA LineInvRescan ==
  ASSUME LineInv, Rescan PROVE LineInv'
<1>1. HandLine \in Seq(Slices) /\ StreamLine \in Seq(Slices)
  BY DEF LineInv, SourceType
<1>2. /\ HandLine' = Released(HandLine)
      /\ StreamLine' = Released(StreamLine)
      /\ SourceShape'
  BY DEF Rescan, LineInv, SourceType, SourceShape,
     HandLine, StreamLine, Connectors
<1>3. /\ HandLine' \in Seq(Slices) /\ Len(HandLine') = Len(HandLine)
      /\ \A i \in 1 .. Len(HandLine) :
           /\ HandLine'[i].line = HandLine[i].line
           /\ HandLine'[i].torn = HandLine[i].torn
  BY <1>1, <1>2, ReleasedSlices
<1>4. /\ StreamLine' \in Seq(Slices) /\ Len(StreamLine') = Len(StreamLine)
      /\ \A i \in 1 .. Len(StreamLine) :
           /\ StreamLine'[i].line = StreamLine[i].line
           /\ StreamLine'[i].torn = StreamLine[i].torn
  BY <1>1, <1>2, ReleasedSlices
<1>5. SourceType' /\ LineType'
  BY <1>2, <1>3, <1>4 DEF LineInv, SourceType, LineType, Rescan
<1>6. UNCHANGED <<scanned, sent>>
  BY DEF Rescan
<1>7. /\ Len(HandLine') = 1 => /\ HandLine'[1].line = HandLine[1].line
                               /\ HandLine'[1].torn = HandLine[1].torn
      /\ Len(StreamLine') = 1 => /\ StreamLine'[1].line = StreamLine[1].line
                                 /\ StreamLine'[1].torn = StreamLine[1].torn
  BY <1>3, <1>4
<1> QED
  BY <1>3, <1>4, <1>5, <1>6, <1>7
  DEF LineInv, Counted, SentOK, HandOK, StreamOK

LEMMA LineInvScan ==
  ASSUME LineInv, Scan PROVE LineInv'
<1> DEFINE line == read - (filled - next)
<1>1. /\ stream["line"] = <<>> \/ Len(stream["line"]) < 1
      /\ stream' = [stream EXCEPT !["line"] =
           Append(@, [line |-> line, cell |-> next, torn |-> 0])]
      /\ next <= filled /\ next' = next + 1
      /\ scanned' = Append(scanned, line)
      /\ UNCHANGED <<hand, read, filled, sent>>
  BY DEF Scan, Put, StreamCapacity, AtEnd, LineInv, LineType
<1>2. line \in Int
  BY DEF LineInv, LineType
<1> DEFINE slice == [line |-> line, cell |-> next, torn |-> 0]
<1>3. StreamLine = <<>> /\ StreamLine' = <<slice>>
  <2>1. StreamLine' = Append(StreamLine, slice)
    BY <1>1 DEF LineInv, SourceType, SourceShape, StreamLine, Connectors
  <2>2. StreamLine \in Seq(Slices) /\ (StreamLine = <<>> \/ Len(StreamLine) < 1)
    BY <1>1 DEF LineInv, SourceType, StreamLine
  <2>3. StreamLine = <<>>
    BY <2>2, EmptySeq
  <2> QED
    BY <2>1, <2>3
<1>4. [line |-> line, cell |-> next, torn |-> 0] \in Slices
  BY <1>2 DEF LineInv, LineType, Slices
<1>5. SourceType'
  <2>1. SourceShape' /\ HandLine' = HandLine
    BY <1>1 DEF LineInv, SourceType, SourceShape, HandLine, Connectors
  <2>2. StreamLine' \in Seq(Slices) /\ Len(StreamLine') = 1
    BY <1>3, <1>4, One
  <2> QED
    BY <2>1, <2>2 DEF LineInv, SourceType
<1>6. LineType'
  BY <1>1, <1>2 DEF LineInv, LineType
<1>7. /\ Len(scanned') = Len(scanned) + 1
      /\ scanned'[Len(scanned) + 1] = line
      /\ \A i \in 1 .. Len(scanned) : scanned'[i] = scanned[i]
  BY <1>1, <1>2 DEF LineInv, LineType
<1>8. Len(sent) \in Nat /\ Len(HandLine) \in Nat /\ Len(scanned) \in Nat
  BY DEF LineInv, LineType, SourceType
<1>9. HandLine' = HandLine /\ sent' = sent
  BY <1>1 DEF HandLine
<1>10. Len(StreamLine) = 0 /\ Len(StreamLine') = 1
       /\ StreamLine'[1].line = line /\ StreamLine'[1].torn = 0
  BY <1>3
<1>11. Len(scanned) = Len(sent) + Len(HandLine)
  BY <1>8, <1>10 DEF LineInv, Counted
<1>12. Counted'
  BY <1>7, <1>8, <1>9, <1>10, <1>11 DEF Counted
<1>13. SentOK'
  BY <1>7, <1>8, <1>9, <1>11 DEF LineInv, SentOK
<1>14. HandOK'
  BY <1>7, <1>8, <1>9, <1>11 DEF LineInv, HandOK
<1>15. StreamOK'
  BY <1>7, <1>8, <1>10 DEF StreamOK
<1> QED
  BY <1>5, <1>6, <1>12, <1>13, <1>14, <1>15 DEF LineInv

LEMMA LineInvTake ==
  ASSUME LineInv, TakeLine PROVE LineInv'
<1>1. HandLine = <<>> /\ StreamLine # <<>> /\ SourceShape' /\ UNCHANGED lineVars
  BY DEF TakeLine, Take, LineInv, SourceType, SourceShape, HandLine, StreamLine, Connectors
<1>2. HandLine' = <<Head(StreamLine)>> /\ StreamLine' = Tail(StreamLine)
  BY DEF TakeLine, Take, LineInv, SourceType, SourceShape, HandLine, StreamLine, Connectors
<1>3. StreamLine \in Seq(Slices)
  BY DEF LineInv, SourceType
<1>4. Len(StreamLine) = 1 /\ StreamLine[1] \in Slices
  <2>1. Len(StreamLine) <= 1
    BY DEF LineInv, SourceType
  <2> QED
    BY <1>1, <1>3, <2>1, JustOne
<1>5. Head(StreamLine) = StreamLine[1]
      /\ Tail(StreamLine) \in Seq(Slices) /\ Len(Tail(StreamLine)) = 0
  BY <1>1, <1>3, <1>4, HeadTailProperties
<1>6. StreamLine' \in Seq(Slices) /\ Len(StreamLine') = 0
  BY <1>2, <1>5
<1>7. HandLine' \in Seq(Slices) /\ Len(HandLine') = 1 /\ HandLine'[1] = StreamLine[1]
  BY <1>2, <1>4, <1>5, One
<1>8. SourceType' /\ LineType'
  BY <1>1, <1>6, <1>7 DEF SourceType, LineInv, LineType, lineVars
<1>9. Len(HandLine) = 0
  BY <1>1, EmptyLen
<1>10. Len(sent) \in Nat /\ Len(scanned) = Len(sent) + 1
  BY <1>4, <1>9 DEF LineInv, LineType, Counted
<1>11. UNCHANGED <<sent, scanned>>
  BY <1>1 DEF lineVars
<1>12. Counted'
  BY <1>6, <1>7, <1>10, <1>11 DEF Counted
<1>13. SentOK'
  BY <1>11 DEF LineInv, SentOK
<1>14. HandOK'
  BY <1>4, <1>7, <1>10, <1>11 DEF LineInv, HandOK, StreamOK, TornLate, Slices
<1>15. StreamOK'
  BY <1>6 DEF StreamOK
<1> QED
  BY <1>8, <1>12, <1>13, <1>14, <1>15 DEF LineInv

LEMMA LineInvPublish ==
  ASSUME LineInv, PublishLine PROVE LineInv'
<1> DEFINE slice == HandLine[1]
           made == [line |-> slice.line, torn |-> slice.torn]
<1>1. HandLine # <<>> /\ HandLine' = <<>> /\ StreamLine' = StreamLine /\ SourceShape'
  BY DEF PublishLine, Publish, LineInv, SourceType, SourceShape, HandLine,
         StreamLine, Connectors
<1>2. sent' = Append(sent, made) /\ UNCHANGED <<read, next, filled, scanned>>
  BY DEF PublishLine, HandLine
<1>3. HandLine \in Seq(Slices)
  BY DEF LineInv, SourceType
<1>4. Len(HandLine) = 1 /\ slice \in Slices
  <2>1. Len(HandLine) <= 1
    BY DEF LineInv, SourceType
  <2> QED
    BY <1>1, <1>3, <2>1, JustOne
<1>5. made \in [line : Int, torn : Nat]
  BY <1>4 DEF Slices
<1>6. HandLine' \in Seq(Slices) /\ Len(HandLine') = 0
  BY <1>1, EmptySeq
<1>7. /\ Len(sent) \in Nat /\ Len(sent') = Len(sent) + 1
      /\ sent' \in Seq([line : Int, torn : Nat])
      /\ sent'[Len(sent) + 1] = made
      /\ \A i \in 1 .. Len(sent) : sent'[i] = sent[i]
  BY <1>2, <1>5 DEF LineInv, LineType
<1>8. SourceType' /\ LineType'
  BY <1>1, <1>2, <1>6, <1>7 DEF LineInv, SourceType, LineType
<1>9. SentOK'
  <2> SUFFICES ASSUME NEW i \in 1 .. Len(sent')
               PROVE  sent'[i].line = scanned[i] /\ TornLate(i, sent'[i].torn)
    BY <1>2 DEF SentOK
  <2>1. CASE i \in 1 .. Len(sent)
    BY <2>1, <1>7 DEF LineInv, SentOK
  <2>2. CASE i = Len(sent) + 1
    BY <2>2, <1>4, <1>7 DEF LineInv, HandOK
  <2> QED
    BY <1>7, <2>1, <2>2
<1>10. Len(StreamLine) \in Nat
  BY DEF LineInv, SourceType
<1>11. Counted'
  BY <1>1, <1>2, <1>4, <1>6, <1>7, <1>10 DEF LineInv, Counted
<1>12. HandOK'
  BY <1>6 DEF HandOK
<1>13. StreamOK'
  BY <1>1, <1>2 DEF LineInv, StreamOK
<1> QED
  BY <1>8, <1>9, <1>11, <1>12, <1>13 DEF LineInv

LEMMA LineInvStep == LineInv /\ [Next]_vars => LineInv'
<1> SUFFICES ASSUME LineInv, [Next]_vars PROVE LineInv'
  OBVIOUS
<1> DEFINE same == UNCHANGED <<HandLine, StreamLine, read, next, filled, scanned, sent>>
<1>1. ASSUME same, SourceShape' PROVE LineInv'
  BY <1>1
  DEF LineInv, SourceType, LineType, Counted, SentOK, HandOK, StreamOK
<1>2. CASE Connect \/ Line \/ Close
  BY <1>1, <1>2 DEF Connect, Line, Close, sourceVars, HandLine, StreamLine, LineInv,
                    SourceType, SourceShape
<1>3. CASE Read
  <2>1. PICK base \in Nat, n \in Nat :
          /\ n >= 1 /\ read' = read + n /\ next' = base + 1 /\ filled' = base + n
          /\ Overwrite(base + 1 .. base + n)
    <3> DEFINE front == next > 1 /\ (filled = BufferLines \/ 2 * (next - 1) > BufferLines)
               base == IF front THEN 0 ELSE filled
    <3>1. base \in Nat
      BY DEF LineInv, LineType
    <3>2. \E n \in 1 .. BufferLines - base :
            /\ read' = read + n /\ next' = base + 1 /\ filled' = base + n
            /\ Overwrite(base + 1 .. base + n)
      BY <1>3 DEF Read
    <3> QED
      BY <3>1, <3>2, LineAssumption
  <2>2. UNCHANGED <<scanned, sent>>
    BY <1>3 DEF Read
  <2>3. LineType'
    BY <2>1, <2>2 DEF LineInv, LineType
  <2> QED
    BY <2>1, <2>2, <2>3, LineInvOverwrite
<1>4. CASE TooLong \/ EndOfFile
  BY <1>4, LineInvRescan DEF TooLong, EndOfFile
<1>5. CASE Scan
  BY <1>5, LineInvScan
<1>6. CASE TakeLine
  BY <1>6, LineInvTake
<1>7. CASE PublishLine
  BY <1>7, LineInvPublish
<1>8. CASE HttpNext /\ UNCHANGED <<lineVars, lweVars>>
  <2>1. SourceShape' /\ HandLine' = HandLine /\ StreamLine' = StreamLine
    BY <1>8 DEF HttpNext, Fetch, FetchFails, Deliver, TakeAnswer, PublishAnswer,
                Put, Take, Publish, sourceVars, HandLine, StreamLine, LineInv,
                SourceType, SourceShape, Connectors
  <2> QED
    BY <2>1, <1>1, <1>8 DEF lineVars
<1>9. CASE \E c \in Connectors : Forward(c) /\ UNCHANGED <<lineVars, poller>>
  BY <1>1, <1>9 DEF Forward, lineVars, HandLine, StreamLine, LineInv, SourceType,
                    SourceShape
<1>10. CASE UNCHANGED <<sourceVars, lineVars>>
  BY <1>1, <1>10 DEF sourceVars, lineVars, HandLine, StreamLine, LineInv, SourceType,
                     SourceShape
<1> QED
  BY <1>2, <1>3, <1>4, <1>5, <1>6, <1>7, <1>8, <1>9, <1>10
  DEF Next, LineNext, LWENext, vars

(* Of the messages made of scanned lines, whatever the scanner overwrites, *)
(* none is missing and only those of the two lines scanned last are torn.  *)
THEOREM OnlyTheLastTwoTear == Spec => []TornBound
<1>1. LineInv => TornBound
  <2> SUFFICES ASSUME LineInv, NEW i \in DOMAIN sent
               PROVE  /\ i \in DOMAIN scanned /\ sent[i].line = scanned[i]
                      /\ sent[i].torn # 0 => i \in {sent[i].torn - 1, sent[i].torn}
    BY DEF TornBound
  <2>1. i \in 1 .. Len(sent) /\ Len(sent) \in Nat /\ DOMAIN scanned = 1 .. Len(scanned)
    BY DEF LineInv, LineType
  <2>2. Len(sent) <= Len(scanned)
    BY <2>1 DEF LineInv, SourceType, LineType, Counted
  <2> QED
    BY <2>1, <2>2 DEF LineInv, LineType, SentOK, TornLate
<1> QED
  BY <1>1, LineInvInit, LineInvStep, PTL DEF Spec

-----------------------------------------------------------------------------
(* The order of the lines, from the buffer to the writer. *)

Messages == LineMessages \cup HttpMessages
IsLine(m) == m.connector = "line"

LinesOf(s) == {s[i].line : i \in {j \in DOMAIN s : IsLine(s[j])}}

Increasing(s) ==
  \A i, j \in DOMAIN s :
    (i < j /\ IsLine(s[i]) /\ IsLine(s[j])) => s[i].line < s[j].line

Below(a, b) == \A x \in a, y \in b : x < y

LEMMA LinesAreNumbers ==
  ASSUME NEW s \in Seq(Messages)
  PROVE  LinesOf(s) \subseteq Int
BY DEF Messages, LineMessages, HttpMessages, LinesOf, IsLine

LEMMA AppendLines ==
  ASSUME NEW s \in Seq(Messages), NEW m \in Messages
  PROVE  /\ Append(s, m) \in Seq(Messages)
         /\ LinesOf(Append(s, m)) = LinesOf(s) \cup {x.line : x \in {y \in {m} : IsLine(y)}}
         /\ (Increasing(s) /\ (IsLine(m) => Below(LinesOf(s), {m.line})))
              => Increasing(Append(s, m))
<1> DEFINE n == Len(s)
           t == Append(s, m)
<1>1. /\ n \in Nat /\ DOMAIN s = 1 .. n /\ DOMAIN t = 1 .. n + 1
      /\ t[n + 1] = m /\ \A i \in 1 .. n : t[i] = s[i]
  OBVIOUS
<1>2. LinesOf(t) = LinesOf(s) \cup {x.line : x \in {y \in {m} : IsLine(y)}}
  <2>1. ASSUME NEW x \in LinesOf(t)
        PROVE  x \in LinesOf(s) \/ (IsLine(m) /\ x = m.line)
    <3>1. PICK i \in 1 .. n + 1 : IsLine(t[i]) /\ x = t[i].line
      BY <1>1, <2>1 DEF LinesOf
    <3>2. CASE i = n + 1
      BY <1>1, <3>1, <3>2
    <3>3. CASE i \in 1 .. n
      BY <1>1, <3>1, <3>3 DEF LinesOf
    <3> QED
      BY <1>1, <3>2, <3>3
  <2>2. ASSUME NEW x \in LinesOf(s) PROVE x \in LinesOf(t)
    BY <1>1, <2>2 DEF LinesOf
  <2>3. IsLine(m) => m.line \in LinesOf(t)
    BY <1>1 DEF LinesOf
  <2> QED
    BY <2>1, <2>2, <2>3
<1>3. ASSUME Increasing(s), IsLine(m) => Below(LinesOf(s), {m.line})
      PROVE  Increasing(t)
  <2> SUFFICES ASSUME NEW i \in 1 .. n + 1, NEW j \in 1 .. n + 1, i < j,
                      IsLine(t[i]), IsLine(t[j])
               PROVE  t[i].line < t[j].line
    BY <1>1 DEF Increasing
  <2>1. i \in 1 .. n /\ t[i] = s[i]
    BY <1>1
  <2>2. CASE j \in 1 .. n
    BY <1>1, <1>3, <2>1, <2>2 DEF Increasing
  <2>3. CASE j = n + 1
    BY <1>1, <1>3, <2>1, <2>3 DEF LinesOf, Below
  <2> QED
    BY <1>1, <2>2, <2>3
<1> QED
  BY <1>2, <1>3

LEMMA TailLines ==
  ASSUME NEW s \in Seq(Messages), s # <<>>
  PROVE  /\ Tail(s) \in Seq(Messages) /\ Head(s) \in Messages
         /\ LinesOf(Tail(s)) \subseteq LinesOf(s)
         /\ IsLine(Head(s)) => Head(s).line \in LinesOf(s)
         /\ Increasing(s) =>
              /\ Increasing(Tail(s))
              /\ IsLine(Head(s)) => Below({Head(s).line}, LinesOf(Tail(s)))
<1> DEFINE n == Len(s)
           t == Tail(s)
<1>1. /\ n \in Nat \ {0} /\ DOMAIN s = 1 .. n /\ DOMAIN t = 1 .. n - 1
      /\ t \in Seq(Messages) /\ Head(s) = s[1] /\ s[1] \in Messages
      /\ \A i \in 1 .. n - 1 : t[i] = s[i + 1] /\ i + 1 \in 1 .. n
  <2>1. n \in Nat \ {0}
    BY EmptySeq
  <2> QED
    BY <2>1
<1>2. LinesOf(t) \subseteq LinesOf(s)
  BY <1>1 DEF LinesOf
<1>3. IsLine(Head(s)) => Head(s).line \in LinesOf(s)
  BY <1>1 DEF LinesOf
<1>4. ASSUME Increasing(s) PROVE Increasing(t)
  BY <1>1, <1>4 DEF Increasing
<1>5. ASSUME Increasing(s), IsLine(Head(s))
      PROVE  Below({Head(s).line}, LinesOf(t))
  BY <1>1, <1>5 DEF Increasing, Below, LinesOf
<1> QED
  BY <1>1, <1>2, <1>3, <1>4, <1>5

(* The line that Scan returns next. *)
Upcoming == read - (filled - next)

SlicesOf(s) == {s[i].line : i \in DOMAIN s}

LEMMA SliceLines ==
  ASSUME NEW s \in Seq(Slices)
  PROVE  SlicesOf(s) \subseteq Int
<1> SUFFICES ASSUME NEW i \in 1 .. Len(s) PROVE s[i].line \in Int
  BY LenProperties DEF SlicesOf
<1>1. s[i] \in Slices
  BY ElementOfSeq
<1> QED
  BY <1>1 DEF Slices

OrderType ==
  /\ socket = [c \in Connectors |-> socket[c]]
  /\ socket["line"] \in Seq(LineMessages)
  /\ socket["http"] \in Seq(HttpMessages)
  /\ inbox \in Seq(Messages)
  /\ received \in Seq(Messages)

Ordered(there, in, out, now, soon, later) ==
  /\ Below(there, in \cup out \cup now \cup soon \cup later)
  /\ Below(in, out \cup now \cup soon \cup later)
  /\ Below(out, now \cup soon \cup later)
  /\ Below(now, soon \cup later)
  /\ Below(soon, later)

OrderInv ==
  /\ OrderType
  /\ Increasing(received) /\ Increasing(inbox) /\ Increasing(socket["line"])
  /\ Ordered(LinesOf(received), LinesOf(inbox), LinesOf(socket["line"]),
             SlicesOf(HandLine), SlicesOf(StreamLine), {Upcoming})

LEMMA OrderInvInit == Init => OrderInv
<1> SUFFICES ASSUME Init PROVE OrderInv
  OBVIOUS
<1>1. OrderType
  BY DEF Init, SourceInit, LWEInit, OrderType, Connectors, Messages
<1>2. /\ received = <<>> /\ inbox = <<>> /\ socket["line"] = <<>>
      /\ HandLine = <<>> /\ StreamLine = <<>>
  BY DEF Init, SourceInit, LWEInit, Connectors, HandLine, StreamLine
<1>3. LinesOf(<<>>) = {} /\ SlicesOf(<<>>) = {} /\ Increasing(<<>>)
  BY DEF LinesOf, SlicesOf, Increasing
<1> QED
  BY <1>1, <1>2, <1>3 DEF OrderInv, Ordered, Below

(* What stays where it is, or moves on by one place, stays in order. *)
LEMMA OrderInvSame ==
  ASSUME OrderInv, OrderType',
         UNCHANGED <<received, inbox, socket["line"]>>,
         Ordered(LinesOf(received), LinesOf(inbox), LinesOf(socket["line"]),
                 SlicesOf(HandLine)', SlicesOf(StreamLine)', {Upcoming'})
  PROVE  OrderInv'
BY DEF OrderInv, LinesOf

LEMMA OrderInvUnchanged ==
  ASSUME OrderInv, UNCHANGED <<socket, inbox, received>>,
         SlicesOf(HandLine)' = SlicesOf(HandLine),
         SlicesOf(StreamLine)' = SlicesOf(StreamLine),
         Upcoming' = Upcoming
  PROVE  OrderInv'
<1>1. OrderType'
  BY DEF OrderInv, OrderType
<1> QED
  BY <1>1, OrderInvSame DEF OrderInv

LEMMA OrderInvOverwrite ==
  ASSUME LineInv, OrderInv, NEW cells, Overwrite(cells),
         UNCHANGED <<socket, inbox, received>>, Upcoming' = Upcoming
  PROVE  OrderInv'
<1>1. Len(scanned) \in Nat /\ HandLine \in Seq(Slices) /\ StreamLine \in Seq(Slices)
  BY DEF LineInv, SourceType, LineType
<1>2. HandLine' = Torn(cells, HandLine) /\ StreamLine' = Torn(cells, StreamLine)
  BY DEF Overwrite, LineInv, SourceType, SourceShape, HandLine, StreamLine, Connectors
<1>3. ASSUME NEW s \in Seq(Slices) PROVE SlicesOf(Torn(cells, s)) = SlicesOf(s)
  <2>1. DOMAIN Torn(cells, s) = DOMAIN s /\ DOMAIN s = 1 .. Len(s)
    BY DEF Torn
  <2>2. \A i \in 1 .. Len(s) : Torn(cells, s)[i].line = s[i].line
    BY <1>1, TornSlices
  <2> QED
    BY <2>1, <2>2 DEF SlicesOf
<1>4. SlicesOf(HandLine') = SlicesOf(HandLine) /\ SlicesOf(StreamLine') = SlicesOf(StreamLine)
  BY <1>1, <1>2, <1>3
<1> QED
  BY <1>4, OrderInvUnchanged DEF SlicesOf

LEMMA OrderInvRescan ==
  ASSUME LineInv, OrderInv, Rescan, AtEnd, UNCHANGED <<inbox, received>>
  PROVE  OrderInv'
<1>1. HandLine \in Seq(Slices) /\ StreamLine \in Seq(Slices)
  BY DEF LineInv, SourceType
<1>2. HandLine' = Released(HandLine) /\ StreamLine' = Released(StreamLine)
  BY DEF Rescan, LineInv, SourceType, SourceShape, HandLine, StreamLine, Connectors
<1>3. ASSUME NEW s \in Seq(Slices) PROVE SlicesOf(Released(s)) = SlicesOf(s)
  <2>1. DOMAIN Released(s) = DOMAIN s /\ DOMAIN s = 1 .. Len(s)
    BY DEF Released
  <2> QED
    BY <2>1, ReleasedSlices DEF SlicesOf
<1>4. SlicesOf(HandLine') = SlicesOf(HandLine) /\ SlicesOf(StreamLine') = SlicesOf(StreamLine)
  BY <1>1, <1>2, <1>3
<1>5. Upcoming' = Upcoming /\ UNCHANGED socket
  BY DEF Upcoming, Rescan, AtEnd, LineInv, LineType
<1> QED
  BY <1>4, <1>5, OrderInvUnchanged DEF SlicesOf

LEMMA OrderInvScan ==
  ASSUME LineInv, OrderInv, Scan, UNCHANGED <<inbox, received>>
  PROVE  OrderInv'
<1> DEFINE slice == [line |-> Upcoming, cell |-> next, torn |-> 0]
<1>1. Len(StreamLine) < 1 /\ StreamLine \in Seq(Slices)
  BY DEF Scan, Put, StreamCapacity, LineInv, SourceType, StreamLine
<1>2. StreamLine = <<>>
  BY <1>1, EmptySeq
<1>3. StreamLine' = Append(StreamLine, slice)
  BY DEF Scan, Put, Upcoming, LineInv, SourceType, SourceShape, StreamLine, Connectors
<1>4. SlicesOf(StreamLine') = {Upcoming}
  BY <1>2, <1>3 DEF SlicesOf
<1>5. HandLine' = HandLine /\ UNCHANGED socket
  BY DEF Scan, HandLine
<1>6. Upcoming \in Int /\ Upcoming' = Upcoming + 1
  BY DEF Upcoming, Scan, LineInv, LineType
<1>7. /\ LinesOf(received) \subseteq Int /\ LinesOf(inbox) \subseteq Int
      /\ LinesOf(socket["line"]) \subseteq Int
  BY LinesAreNumbers, SeqMonotonic DEF OrderInv, OrderType, Messages
<1>8. SlicesOf(HandLine) \subseteq Int
  <2>1. HandLine \in Seq(Slices)
    BY DEF LineInv, SourceType
  <2> QED
    BY <2>1, SliceLines
<1>9. Ordered(LinesOf(received), LinesOf(inbox), LinesOf(socket["line"]),
              SlicesOf(HandLine), {Upcoming}, {Upcoming'})
  <2>1. ASSUME NEW A \in SUBSET Int, Below(A, {Upcoming})
        PROVE  Below(A, {Upcoming'})
    BY <1>6, <2>1 DEF Below
  <2>2. /\ Below(LinesOf(received), {Upcoming'}) /\ Below(LinesOf(inbox), {Upcoming'})
        /\ Below(LinesOf(socket["line"]), {Upcoming'})
        /\ Below(SlicesOf(HandLine), {Upcoming'})
    <3>1. /\ Below(LinesOf(received), {Upcoming}) /\ Below(LinesOf(inbox), {Upcoming})
          /\ Below(LinesOf(socket["line"]), {Upcoming})
          /\ Below(SlicesOf(HandLine), {Upcoming})
      BY DEF OrderInv, Ordered, Below
    <3> QED
      BY <1>7, <1>8, <2>1, <3>1
  <2>3. Below({Upcoming}, {Upcoming'})
    BY <1>6 DEF Below
  <2> QED
    BY <2>2, <2>3 DEF OrderInv, Ordered, Below
<1>10. OrderType'
  BY <1>5 DEF OrderInv, OrderType
<1> QED
  BY <1>4, <1>5, <1>9, <1>10, OrderInvSame

LEMMA OrderInvTake ==
  ASSUME LineInv, OrderInv, TakeLine, UNCHANGED <<inbox, received>>
  PROVE  OrderInv'
<1>1. HandLine = <<>> /\ StreamLine # <<>> /\ UNCHANGED socket /\ Upcoming' = Upcoming
  BY DEF TakeLine, Take, HandLine, StreamLine, lineVars, Upcoming
<1>2. HandLine' = <<Head(StreamLine)>> /\ StreamLine' = Tail(StreamLine)
  BY DEF TakeLine, Take, LineInv, SourceType, SourceShape, HandLine, StreamLine, Connectors
<1>3. StreamLine \in Seq(Slices) /\ Len(StreamLine) <= 1
  BY DEF LineInv, SourceType
<1>4. Len(StreamLine) = 1
  BY <1>1, <1>3, JustOne
<1>5. Head(StreamLine) = StreamLine[1] /\ Tail(StreamLine) = <<>>
  <2>1. Tail(StreamLine) \in Seq(Slices) /\ Len(Tail(StreamLine)) = 0
    BY <1>1, <1>3, <1>4, HeadTailProperties
  <2> QED
    BY <1>1, <1>3, <2>1, EmptySeq, HeadTailProperties
<1>6. SlicesOf(HandLine') = SlicesOf(StreamLine) /\ SlicesOf(StreamLine') = {}
  <2>1. SlicesOf(<<StreamLine[1]>>) = {StreamLine[1].line} /\ SlicesOf(<<>>) = {}
    BY DEF SlicesOf
  <2>2. SlicesOf(StreamLine) = {StreamLine[1].line}
    BY <1>3, <1>4 DEF SlicesOf
  <2> QED
    BY <1>2, <1>5, <2>1, <2>2
<1>7. Ordered(LinesOf(received), LinesOf(inbox), LinesOf(socket["line"]),
              SlicesOf(StreamLine), {}, {Upcoming})
  BY DEF OrderInv, Ordered, Below
<1>8. OrderType'
  BY <1>1 DEF OrderInv, OrderType
<1> QED
  BY <1>1, <1>6, <1>7, <1>8, OrderInvSame

LEMMA OrderInvPublish ==
  ASSUME LineInv, OrderInv, PublishLine, UNCHANGED <<inbox, received>>
  PROVE  OrderInv'
<1> DEFINE m == [connector |-> "line", line |-> HandLine[1].line]
           queue == socket["line"]
<1>1. HandLine # <<>> /\ StreamLine' = StreamLine /\ Upcoming' = Upcoming
  BY DEF PublishLine, Publish, HandLine, StreamLine, Upcoming
<1>2. HandLine' = <<>>
  BY DEF PublishLine, Publish, LineInv, SourceType, SourceShape, HandLine, Connectors
<1>3. HandLine \in Seq(Slices) /\ Len(HandLine) <= 1
  BY DEF LineInv, SourceType
<1>4. HandLine[1] \in Slices /\ HandLine[1].line \in SlicesOf(HandLine)
  <2>1. Len(HandLine) = 1 /\ HandLine[1] \in Slices
    BY <1>1, <1>3, JustOne
  <2> QED
    BY <1>3, <2>1 DEF SlicesOf
<1>5. m \in LineMessages /\ IsLine(m)
  BY <1>4 DEF Slices, LineMessages, IsLine
<1>6. PICK q \in {queue, Append(queue, m)} : socket' = [socket EXCEPT !["line"] = q]
  BY DEF PublishLine, Publish, Sent, HandLine
<1>7. queue \in Seq(LineMessages) /\ queue \in Seq(Messages) /\ m \in Messages
  BY <1>5, SeqMonotonic DEF OrderInv, OrderType, Messages
<1>8. /\ socket' = [c \in Connectors |-> socket'[c]]
      /\ socket'["line"] = q /\ socket'["http"] = socket["http"]
  BY <1>6 DEF OrderInv, OrderType, Connectors
<1>9. OrderType'
  <2>1. Append(queue, m) \in Seq(LineMessages)
    BY <1>5, <1>7
  <2> QED
    BY <1>6, <1>7, <1>8, <2>1 DEF OrderInv, OrderType
<1>10. Below(LinesOf(queue), {m.line})
  BY <1>4 DEF OrderInv, Ordered, Below
<1>11. Increasing(q) /\ LinesOf(q) \subseteq LinesOf(queue) \cup SlicesOf(HandLine)
  <2>1. Increasing(Append(queue, m)) /\ LinesOf(Append(queue, m)) = LinesOf(queue) \cup {m.line}
    BY <1>5, <1>7, <1>10, AppendLines DEF OrderInv
  <2> QED
    BY <1>4, <1>6, <2>1 DEF OrderInv
<1>12. SlicesOf(HandLine') = {}
  BY <1>2 DEF SlicesOf
<1>13. Ordered(LinesOf(received), LinesOf(inbox), LinesOf(q), {},
               SlicesOf(StreamLine), {Upcoming})
  BY <1>11 DEF OrderInv, Ordered, Below
<1> QED
  BY <1>1, <1>8, <1>9, <1>11, <1>12, <1>13, ZenonT(60) DEF OrderInv, SlicesOf

(* Deliver, PublishAnswer: the other connector touches no line. *)
LEMMA OrderInvHttp ==
  ASSUME LineInv, OrderInv, HttpNext, UNCHANGED <<lineVars, inbox, received>>
  PROVE  OrderInv'
<1>1. HandLine' = HandLine /\ StreamLine' = StreamLine
  BY DEF HttpNext, Fetch, FetchFails, Deliver, TakeAnswer, PublishAnswer,
         Put, Take, Publish, sourceVars, HandLine, StreamLine, LineInv,
         SourceType, SourceShape, Connectors
<1>2. Upcoming' = Upcoming
  BY DEF Upcoming, lineVars
<1>3. CASE PublishAnswer
  <2> DEFINE m == [connector |-> "http"]
             queue == socket["http"]
  <2>1. PICK q \in {queue, Append(queue, m)} : socket' = [socket EXCEPT !["http"] = q]
    BY <1>3 DEF PublishAnswer, Publish, Sent
  <2>2. q \in Seq(HttpMessages)
    <3>1. m \in HttpMessages /\ queue \in Seq(HttpMessages)
      BY DEF HttpMessages, OrderInv, OrderType
    <3>2. Append(queue, m) \in Seq(HttpMessages)
      BY <3>1
    <3> QED
      BY <2>1, <3>1, <3>2
  <2>3. /\ socket' = [c \in Connectors |-> socket'[c]]
        /\ socket'["http"] = q /\ socket'["line"] = socket["line"]
    BY <2>1 DEF OrderInv, OrderType, Connectors
  <2>4. OrderType'
    BY <2>2, <2>3 DEF OrderInv, OrderType
  <2> QED
    BY <1>1, <1>2, <2>3, <2>4, OrderInvSame DEF OrderInv, SlicesOf
<1>4. CASE UNCHANGED socket
  BY <1>1, <1>2, <1>4, OrderInvUnchanged DEF SlicesOf
<1> QED
  BY <1>3, <1>4 DEF HttpNext, Fetch, FetchFails, Deliver, TakeAnswer, Put, Take, sourceVars

LEMMA OrderInvForward ==
  ASSUME OrderInv, NEW c \in Connectors, Forward(c), UNCHANGED lineVars
  PROVE  OrderInv'
<1> DEFINE m == Head(socket[c])
<1>1. /\ socket[c] # <<>> /\ UNCHANGED <<received, stream, hand>>
      /\ socket' = [socket EXCEPT ![c] = Tail(@)]
  BY DEF Forward
<1>2. PICK q \in {inbox, Append(inbox, m)} : inbox' = q
  BY DEF Forward, Sent
<1>3. /\ socket["line"] \in Seq(Messages) /\ socket["http"] \in Seq(Messages)
      /\ inbox \in Seq(Messages)
  BY SeqMonotonic DEF OrderInv, OrderType, Messages
<1>4. m \in Messages
  BY <1>1, <1>3, TailLines DEF Connectors
<1>5. /\ socket' = [d \in Connectors |-> socket'[d]]
      /\ socket'[c] = Tail(socket[c])
      /\ \A d \in Connectors \ {c} : socket'[d] = socket[d]
  BY <1>1 DEF OrderInv, OrderType
<1>6. q \in Seq(Messages)
  BY <1>2, <1>3, <1>4, AppendLines
<1>7. OrderType'
  <2>1. Tail(socket[c]) \in Seq(IF c = "line" THEN LineMessages ELSE HttpMessages)
    BY <1>1, HeadTailProperties DEF OrderInv, OrderType, Connectors
  <2> QED
    BY <1>1, <1>2, <1>5, <1>6, <2>1 DEF OrderInv, OrderType, Connectors
<1>8. SlicesOf(HandLine)' = SlicesOf(HandLine) /\ SlicesOf(StreamLine)' = SlicesOf(StreamLine)
      /\ Upcoming' = Upcoming
  BY <1>1 DEF SlicesOf, HandLine, StreamLine, Upcoming, lineVars
<1>9. CASE c = "line"
  <2> DEFINE rest == Tail(socket["line"])
  <2>1. IsLine(m) => m.line \in LinesOf(socket["line"])
    BY <1>1, <1>3, <1>9, TailLines
  <2>2. /\ Increasing(rest) /\ LinesOf(rest) \subseteq LinesOf(socket["line"])
        /\ IsLine(m) => Below({m.line}, LinesOf(rest))
    BY <1>1, <1>3, <1>9, TailLines DEF OrderInv
  <2>3. IsLine(m) => Below(LinesOf(inbox), {m.line})
    BY <2>1 DEF OrderInv, Ordered, Below
  <2>4. Increasing(q) /\ LinesOf(q) \subseteq
          LinesOf(inbox) \cup {x.line : x \in {y \in {m} : IsLine(y)}}
    BY <1>2, <1>3, <1>4, <2>3, AppendLines DEF OrderInv
  <2>5. Ordered(LinesOf(received), LinesOf(q), LinesOf(rest),
                SlicesOf(HandLine), SlicesOf(StreamLine), {Upcoming})
    BY <2>1, <2>2, <2>4 DEF OrderInv, Ordered, Below
  <2>6. socket'["line"] = rest
    BY <1>5, <1>9
  <2> QED
    BY <1>1, <1>2, <1>7, <1>8, <2>2, <2>4, <2>5, <2>6 DEF OrderInv
<1>10. CASE c = "http"
  <2>1. ~IsLine(m)
    <3>1. socket["http"] \in Seq(HttpMessages)
      BY DEF OrderInv, OrderType
    <3>2. m \in HttpMessages
      BY <1>1, <1>10, <3>1, HeadTailProperties
    <3> QED
      BY <3>2 DEF HttpMessages, IsLine
  <2>2. Increasing(q) /\ LinesOf(q) = LinesOf(inbox)
    <3>1. {x.line : x \in {y \in {m} : IsLine(y)}} = {}
      BY <2>1
    <3>2. /\ Increasing(Append(inbox, m))
          /\ LinesOf(Append(inbox, m)) = LinesOf(inbox) \cup {}
      BY <1>3, <1>4, <2>1, <3>1, AppendLines DEF OrderInv
    <3> QED
      BY <1>2, <3>2 DEF OrderInv
  <2>3. socket'["line"] = socket["line"]
    BY <1>5, <1>10 DEF Connectors
  <2> QED
    BY <1>1, <1>2, <1>7, <1>8, <2>2, <2>3 DEF OrderInv
<1> QED
  BY <1>9, <1>10 DEF Connectors

LEMMA OrderInvWriteRaw ==
  ASSUME OrderInv, WriteRaw, UNCHANGED <<sourceVars, lineVars>>
  PROVE  OrderInv'
<1> DEFINE m == Head(inbox)
<1>1. inbox # <<>> /\ inbox' = Tail(inbox)
  BY DEF WriteRaw
<1>2. PICK r \in {received, Append(received, m)} : received' = r
  BY DEF WriteRaw
<1>3. inbox \in Seq(Messages) /\ received \in Seq(Messages)
  BY DEF OrderInv, OrderType
<1>4. /\ Tail(inbox) \in Seq(Messages) /\ m \in Messages
      /\ LinesOf(Tail(inbox)) \subseteq LinesOf(inbox)
      /\ IsLine(m) => m.line \in LinesOf(inbox)
      /\ Increasing(Tail(inbox))
      /\ IsLine(m) => Below({m.line}, LinesOf(Tail(inbox)))
  BY <1>1, <1>3, TailLines DEF OrderInv
<1>5. IsLine(m) => Below(LinesOf(received), {m.line})
  BY <1>4 DEF OrderInv, Ordered, Below
<1>6. /\ r \in Seq(Messages) /\ Increasing(r)
      /\ LinesOf(r) \subseteq
           LinesOf(received) \cup {x.line : x \in {y \in {m} : IsLine(y)}}
  BY <1>2, <1>3, <1>4, <1>5, AppendLines DEF OrderInv
<1>7. /\ SlicesOf(HandLine)' = SlicesOf(HandLine)
      /\ SlicesOf(StreamLine)' = SlicesOf(StreamLine)
      /\ Upcoming' = Upcoming /\ socket' = socket
  BY DEF sourceVars, lineVars, SlicesOf, HandLine, StreamLine, Upcoming
<1>8. Ordered(LinesOf(r), LinesOf(Tail(inbox)), LinesOf(socket["line"]),
              SlicesOf(HandLine), SlicesOf(StreamLine), {Upcoming})
  BY <1>4, <1>6 DEF OrderInv, Ordered, Below
<1>9. OrderType'
  BY <1>1, <1>2, <1>4, <1>6, <1>7 DEF OrderInv, OrderType
<1> QED
  BY <1>1, <1>2, <1>4, <1>6, <1>7, <1>8, <1>9 DEF OrderInv

LEMMA OrderInvStep == LineInv /\ OrderInv /\ [Next]_vars => OrderInv'
<1> SUFFICES ASSUME LineInv, OrderInv, [Next]_vars PROVE OrderInv'
  OBVIOUS
<1> DEFINE same == UNCHANGED <<sourceVars, read, next, filled, inbox, received>>
<1>1. ASSUME same PROVE OrderInv'
  BY <1>1, OrderInvUnchanged DEF sourceVars, SlicesOf, HandLine, StreamLine, Upcoming
<1>2. CASE LineNext /\ UNCHANGED <<poller, lweVars>>
  <2>1. UNCHANGED <<inbox, received>>
    BY <1>2 DEF lweVars
  <2>2. CASE Connect \/ Line \/ Close
    BY <1>1, <2>1, <2>2 DEF Connect, Line, Close
  <2>3. CASE Read
    <3> DEFINE front == next > 1 /\ (filled = BufferLines \/ 2 * (next - 1) > BufferLines)
               base == IF front THEN 0 ELSE filled
    <3>1. PICK n \in 1 .. BufferLines - base :
            /\ read' = read + n /\ next' = base + 1 /\ filled' = base + n
            /\ Overwrite(base + 1 .. base + n)
      BY <2>3 DEF Read
    <3>2. next = filled + 1 /\ UNCHANGED socket
      BY <2>3 DEF Read, AtEnd, LineInv, LineType
    <3>3. base \in Nat /\ n \in Nat
      BY LineAssumption DEF LineInv, LineType
    <3>4. Upcoming' = Upcoming
      BY <3>1, <3>2, <3>3 DEF Upcoming, LineInv, LineType
    <3> QED
      BY <2>1, <3>1, <3>2, <3>4, OrderInvOverwrite
  <2>4. CASE TooLong \/ EndOfFile
    BY <2>1, <2>4, OrderInvRescan DEF TooLong, EndOfFile
  <2>5. CASE Scan \/ TakeLine \/ PublishLine
    BY <2>1, <2>5, OrderInvScan, OrderInvTake, OrderInvPublish
  <2> QED
    BY <1>2, <2>2, <2>3, <2>4, <2>5 DEF LineNext
<1>3. CASE HttpNext /\ UNCHANGED <<lineVars, lweVars>>
  BY <1>3, OrderInvHttp DEF lweVars
<1>4. CASE \E c \in Connectors : Forward(c) /\ UNCHANGED <<lineVars, poller>>
  BY <1>4, OrderInvForward
<1>5. CASE LWENext /\ UNCHANGED <<sourceVars, lineVars, poller>>
  <2>1. CASE WriteRaw
    BY <1>5, <2>1, OrderInvWriteRaw
  <2>2. CASE \E m \in multicasts : DialFails(m) \/ Multicast(m)
    BY <1>1, <1>5, <2>2 DEF DialFails, Multicast, lineVars
  <2> QED
    BY <1>5, <2>1, <2>2 DEF LWENext
<1>6. CASE UNCHANGED vars
  BY <1>1, <1>6 DEF vars, lineVars, lweVars
<1> QED
  BY <1>2, <1>3, <1>4, <1>5, <1>6 DEF Next

(* No line reaches the writer twice or after a later one, whatever the     *)
(* sockets lose and whatever else the proxy forwards.                      *)
THEOREM LinesKeepTheirOrder == Spec => []LinesInOrder
<1>1. OrderInv => LinesInOrder
  BY DEF OrderInv, Increasing, IsLine, LinesInOrder
<1> QED
  BY <1>1, LineInvInit, LineInvStep, OrderInvInit, OrderInvStep, PTL DEF Spec

-----------------------------------------------------------------------------
(* The line numbers. *)

LEMMA DivMod ==
  ASSUME NEW L \in Nat \ {0}, NEW x \in Int
  PROVE  x \div L \in Int /\ x % L \in 0 .. L - 1 /\ x = L * (x \div L) + (x % L)
BY SMT

LEMMA NoMultiple ==
  ASSUME NEW L \in Nat \ {0}, NEW q \in Int, L * q > -L, L * q < L
  PROVE  q = 0
BY SMT

LEMMA ModUnique ==
  ASSUME NEW L \in Nat \ {0}, NEW q \in Int, NEW r \in 0 .. L - 1
  PROVE  (L * q + r) % L = r
<1> DEFINE x == L * q + r
<1>1. x \in Int
  BY SMT
<1> HIDE DEF x
<1>2. /\ x \div L \in Int /\ x % L \in 0 .. L - 1
      /\ x = L * (x \div L) + (x % L)
  BY <1>1, DivMod
<1>3. PICK p \in Int, s \in 0 .. L - 1 : p = x \div L /\ s = x % L
  BY <1>2
<1>4. x = L * p + s
  BY <1>2, <1>3
<1>5. L * (q - p) = s - r
  BY <1>4, SMT DEF x
<1>6. q - p = 0
  BY <1>5, NoMultiple, SMT
<1>7. s = r
  BY <1>5, <1>6, SMT
<1> QED
  BY <1>3, <1>7 DEF x

(* Counting on takes the remainder to the next one, or to 0. *)
LEMMA NextRemainder ==
  ASSUME NEW L \in Nat \ {0}, NEW n \in Nat
  PROVE  (n + 1) % L = IF (n % L) + 1 >= L THEN 0 ELSE (n % L) + 1
<1>0. n \in Int
  OBVIOUS
<1>1. PICK q \in Int, r \in 0 .. L - 1 : n = L * q + r /\ n % L = r
  BY <1>0, DivMod, Zenon
<1>2. CASE r + 1 >= L
  <2>1. n + 1 = L * (q + 1) + 0
    BY <1>1, <1>2, SMT
  <2>2. q + 1 \in Int /\ 0 \in 0 .. L - 1
    OBVIOUS
  <2> QED
    BY <1>1, <1>2, <2>1, <2>2, ModUnique
<1>3. CASE ~(r + 1 >= L)
  <2>1. n + 1 = L * q + (r + 1) /\ r + 1 \in 0 .. L - 1
    BY <1>1, <1>3, SMT
  <2> QED
    BY <1>1, <1>3, <2>1, ModUnique
<1> QED
  BY <1>2, <1>3

LEMMA SameRemainder ==
  ASSUME NEW L \in Nat \ {0}, NEW a \in Nat, NEW b \in Nat
  PROVE  (a % L = b % L) <=> ((b - a) % L = 0)
<1>0. a \in Int /\ b \in Int /\ b - a \in Int
  OBVIOUS
<1>1. PICK p \in Int, s \in 0 .. L - 1 : a = L * p + s /\ a % L = s
  BY <1>0, DivMod, Zenon
<1>2. PICK q \in Int, t \in 0 .. L - 1 : b = L * q + t /\ b % L = t
  BY <1>0, DivMod, Zenon
<1>3. ASSUME s = t PROVE (b - a) % L = 0
  <2>1. b - a = L * (q - p) + 0
    BY <1>1, <1>2, <1>3, SMT
  <2>2. q - p \in Int /\ 0 \in 0 .. L - 1
    OBVIOUS
  <2> QED
    BY <2>1, <2>2, ModUnique
<1>4. ASSUME (b - a) % L = 0 PROVE s = t
  <2>0. PICK m \in Int : b - a = L * m + 0
    BY <1>0, <1>4, DivMod, Zenon
  <2>1. b - a = L * m
    BY <2>0, SMT
  <2>2. L * (q - p - m) = s - t
    BY <1>1, <1>2, <2>1, SMT
  <2>3. q - p - m = 0
    BY <2>2, NoMultiple, SMT
  <2> QED
    BY <2>2, <2>3, SMT
<1> QED
  BY <1>1, <1>2, <1>3, <1>4

(* The numbers taken so far count up from 0 modulo LineNumbers. *)
NumbersInv ==
  /\ numbered \in Seq(Int) /\ lineCount \in Nat
  /\ \A i \in 1 .. Len(numbered) : numbered[i] = (i - 1) % LineNumbers
  /\ NextLineCount(lineCount) = Len(numbered) % LineNumbers

LEMMA NumbersInvMulticast ==
  ASSUME NumbersInv, NEW m, Multicast(m), IncludeLineCount
  PROVE  NumbersInv'
<1> DEFINE n == Len(numbered)
           k == n % LineNumbers
<1>1. /\ numbered' = Append(numbered, k) /\ lineCount' = k + 1
      /\ numbered \in Seq(Int) /\ n \in Nat
  BY DEF Multicast, NumbersInv
<1>2. k \in 0 .. LineNumbers - 1
  <2>1. n \in Int
    BY <1>1
  <2> QED
    BY <2>1, LineNumberAssumption, DivMod, Zenon
<1> HIDE DEF k
<1>3. /\ numbered' \in Seq(Int) /\ Len(numbered') = n + 1
      /\ numbered'[n + 1] = k /\ \A i \in 1 .. n : numbered'[i] = numbered[i]
  BY <1>1, <1>2, LineNumberAssumption
<1>4. NextLineCount(lineCount') = (n + 1) % LineNumbers
  BY <1>1, NextRemainder, LineNumberAssumption DEF NextLineCount, k
<1>5. ASSUME NEW i \in 1 .. n + 1 PROVE numbered'[i] = (i - 1) % LineNumbers
  <2>1. CASE i \in 1 .. n
    BY <1>3, <2>1 DEF NumbersInv
  <2>2. CASE i = n + 1
    <3>1. i - 1 = n
      BY <1>1, <2>2
    <3> QED
      BY <1>3, <2>2, <3>1 DEF k
  <2> QED
    BY <1>1, <2>1, <2>2
<1>6. lineCount' \in Nat
  BY <1>1, <1>2, LineNumberAssumption
<1> QED
  BY <1>3, <1>4, <1>5, <1>6 DEF NumbersInv, NextLineCount

LEMMA NumbersInvStep == NumbersInv /\ [Next]_vars => NumbersInv'
<1> SUFFICES ASSUME NumbersInv, [Next]_vars PROVE NumbersInv'
  OBVIOUS
<1>1. \/ \E m : Multicast(m) /\ IncludeLineCount
      \/ UNCHANGED <<numbered, lineCount>>
  <2>1. (\E m : Multicast(m)) \/ UNCHANGED <<numbered, lineCount>>
    BY DEF Next, Forward, LWENext, WriteRaw, DialFails, vars, lweVars
  <2>2. ASSUME NEW m, Multicast(m), ~IncludeLineCount
        PROVE  UNCHANGED <<numbered, lineCount>>
    BY <2>2 DEF Multicast
  <2> QED
    BY <2>1, <2>2
<1>2. ASSUME UNCHANGED <<numbered, lineCount>> PROVE NumbersInv'
  BY <1>2 DEF NumbersInv, NextLineCount
<1> QED
  BY <1>1, <1>2, NumbersInvMulticast

(* In whatever order the goroutines run, two messages have the same number *)
(* exactly when whole rounds of numbers lie between them.                  *)
THEOREM NumbersAreTakenInTurn == Spec => []NumbersInTurn
<1>1. Init => NumbersInv
  <2> SUFFICES ASSUME Init PROVE NumbersInv
    OBVIOUS
  <2>1. numbered = <<>> /\ lineCount = 0
    BY DEF Init, LWEInit
  <2>2. 0 % LineNumbers = 0
    <3>1. LineNumbers * 0 + 0 = 0 /\ 0 \in 0 .. LineNumbers - 1
      BY LineNumberAssumption
    <3> QED
      BY <3>1, ModUnique, LineNumberAssumption
  <2> QED
    BY <2>1, <2>2, LineNumberAssumption DEF NumbersInv, NextLineCount
<1>2. NumbersInv => NumbersInTurn
  <2> SUFFICES ASSUME NumbersInv PROVE NumbersInTurn
    OBVIOUS
  <2>1. DOMAIN numbered = 1 .. Len(numbered) /\ Len(numbered) \in Nat
    BY DEF NumbersInv
  <2>2. ASSUME NEW i \in 1 .. Len(numbered) PROVE numbered[i] \in 0 .. LineNumbers - 1
    <3>1. i - 1 \in Int /\ numbered[i] = (i - 1) % LineNumbers
      BY <2>1 DEF NumbersInv
    <3> QED
      BY <3>1, LineNumberAssumption, DivMod
  <2>3. ASSUME NEW i \in 1 .. Len(numbered), NEW j \in 1 .. Len(numbered)
        PROVE  (numbered[i] = numbered[j]) = ((j - i) % LineNumbers = 0)
    <3>1. /\ i - 1 \in Nat /\ j - 1 \in Nat /\ (j - 1) - (i - 1) = j - i
          /\ numbered[i] = (i - 1) % LineNumbers /\ numbered[j] = (j - 1) % LineNumbers
      BY <2>1 DEF NumbersInv
    <3>2. ((i - 1) % LineNumbers = (j - 1) % LineNumbers)
            <=> (((j - 1) - (i - 1)) % LineNumbers = 0)
      BY <3>1, LineNumberAssumption, SameRemainder, Zenon
    <3>3. (numbered[i] = numbered[j]) <=> ((j - i) % LineNumbers = 0)
      BY <3>1, <3>2, Zenon
    <3> QED
      BY <3>3
  <2> QED
    BY <2>1, <2>2, <2>3 DEF NumbersInTurn
<1> QED
  BY <1>1, <1>2, NumbersInvStep, PTL DEF Spec

=============================================================================
