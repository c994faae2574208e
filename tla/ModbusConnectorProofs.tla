----------------------- MODULE ModbusConnectorProofs -----------------------
(***************************************************************************)
(* Proofs about ModbusConnector, for any groups, commands and bounds.      *)
(*                                                                         *)
(* CallInv follows the calls of receive, UnitInv the unit ids: what a      *)
(* poller finds at its request it has set, or somebody since.  BufferInv   *)
(* relates a value that is on its way to what the buffer of its poller     *)
(* holds: a value in the channel is followed by at most one reading, and   *)
(* one that process has taken by at most one more value in the channel.    *)
(***************************************************************************)
EXTENDS ModbusConnector, TLAPS, SequenceTheorems

LEMMA JustOne ==
  ASSUME NEW S, NEW s \in Seq(S), s # <<>>, Len(s) <= 1
  PROVE  Len(s) = 1 /\ Head(s) = s[1] /\ s[1] \in S /\ Tail(s) = <<>>
<1>1. Len(s) \in Nat \ {0}
  BY EmptySeq
<1>2. Len(s) = 1
  BY <1>1
<1>3. Head(s) = s[1] /\ Tail(s) \in Seq(S) /\ Len(Tail(s)) = 0
  BY <1>2, HeadTailProperties
<1> QED
  BY <1>2, <1>3, EmptySeq, ElementOfSeq

LEMMA TypeInit == Init => TypeOK
<1> SUFFICES ASSUME Init PROVE TypeOK
  OBVIOUS
<1>1. stream \in Seq(Values) /\ Len(stream) <= 1
  BY DEF Init
<1>2. receives \in Receives /\ encoding = {} /\ waiting \subseteq Commands
  BY ConnectorAssumption DEF Init, Receives
<1>3. buffer \in [Pollers -> Nat \X Nat] /\ reading \in [Pollers -> Nat]
  BY DEF Init
<1> QED
  BY <1>1, <1>2, <1>3 DEF Init, TypeOK

LEMMA SelectedType ==
  ASSUME TypeOK, NEW s \in Slaves
  PROVE  Selected(s) \in [Pollers -> SUBSET Slaves]
BY DEF TypeOK, Selected

LEMMA TypeStep == TypeOK /\ [Next]_vars => TypeOK'
<1> SUFFICES ASSUME TypeOK, [Next]_vars PROVE TypeOK'
  OBVIOUS
<1> USE DEF TypeOK, pollVars, unitVars, streamVars, commandVars
<1>1. ASSUME NEW p \in Pollers, SetUnit(p) PROVE TypeOK'
  <2>1. Slave[p[1]] \in Slaves
    BY ConnectorAssumption DEF Pollers
  <2>2. meanwhile' \in [Pollers -> SUBSET Slaves]
    BY <1>1, <2>1, SelectedType DEF SetUnit
  <2> QED
    BY <1>1, <2>1, <2>2 DEF SetUnit
<1>2. ASSUME NEW p \in Pollers, Request(p) PROVE TypeOK'
  BY <1>2, SMTT(60) DEF Request
<1>3. ASSUME NEW p \in Pollers, Fill(p) PROVE TypeOK'
  <2>1. reading[p] \in Nat /\ buffer[p] \in Nat \X Nat
    BY <1>3
  <2>2. <<reading[p], buffer[p][2]>> \in Nat \X Nat /\ <<buffer[p][1], reading[p]>> \in Nat \X Nat
    BY <2>1
  <2>4. PICK b \in Nat \X Nat : buffer' = [buffer EXCEPT ![p] = b]
    BY <1>3, <2>2, Zenon DEF Fill
  <2>3. buffer' \in [Pollers -> Nat \X Nat]
    BY <2>4
  <2> QED
    BY <1>3, <2>3 DEF Fill
<1>4. ASSUME NEW p \in Pollers, Send(p) PROVE TypeOK'
  <2> DEFINE v == [poller |-> p, sent |-> reading[p]]
  <2>1. v \in Values
    BY <1>4 DEF Values
  <2>2. stream' \in Seq(Values) /\ Len(stream') <= 1
    BY <1>4, <2>1 DEF Send
  <2>3. from' \in [Pollers -> Slaves \cup {Nobody}] /\ meanwhile' \in [Pollers -> SUBSET Slaves]
    BY <1>4 DEF Send
  <2> QED
    BY <1>4, <2>2, <2>3 DEF Send
<1>5. ASSUME NEW p \in Pollers, ReadFails(p) PROVE TypeOK'
  BY <1>5 DEF ReadFails
<1>6. ASSUME NEW p \in Pollers, ReceiveError(p) PROVE TypeOK'
  <2>1. receives + 1 \in Receives /\ p[2] \in Receives
    BY <1>6, ConnectorAssumption DEF ReceiveError, Receives, Pollers
  <2> QED
    BY <1>6, <2>1 DEF ReceiveError
<1>7. ASSUME NEW p \in Pollers, Panic(p) PROVE TypeOK'
  BY <1>7 DEF Panic
<1>8. CASE Take
  <2>1. Head(stream) \in Values /\ stream' = <<>>
    BY <1>8, JustOne DEF Take
  <2>2. stream' \in Seq(Values) /\ Len(stream') <= 1
    BY <2>1, EmptySeq
  <2> QED
    BY <1>8, <2>1, <2>2 DEF Take
<1>9. ASSUME NEW v \in encoding, Encode(v) PROVE TypeOK'
  <2>1. v.poller \in Pollers /\ v.sent \in Nat
    BY <1>9 DEF Values
  <2>2. [value |-> buffer[v.poller], sent |-> v.sent] \in [value : Nat \X Nat, sent : Nat]
    BY <2>1
  <2> QED
    BY <1>9, <2>2 DEF Encode
<1>10. ASSUME NEW c \in Commands, Receive(c) PROVE TypeOK'
  <2>1. CommandSlave[c] \in Slaves
    BY ConnectorAssumption
  <2>2. meanwhile' \in [Pollers -> SUBSET Slaves]
    BY <1>10, <2>1, SelectedType DEF Receive
  <2> QED
    BY <1>10, <2>1, <2>2 DEF Receive
<1>11. CASE Write \/ WriteNoCoil
  BY <1>11 DEF Write, WriteNoCoil
<1>12. CASE UNCHANGED vars
  BY <1>12 DEF vars
<1> QED
  BY <1>1, <1>2, <1>3, <1>4, <1>5, <1>6, <1>7, <1>8, <1>9, <1>10, <1>11, <1>12
  DEF Next

-----------------------------------------------------------------------------
(* The calls of receive. *)

CallInv ==
  /\ \A g \in Groups : \/ Running(<<g, receives>>)
                       \/ poller[<<g, receives>>] = "error"
  /\ \A p \in Pollers : p[2] < receives =>
       \E q \in Pollers : q[2] = p[2] /\ poller[q] = "ended"
  /\ \A p \in Pollers : errors[p[2]] = "closed" => p[2] < receives
  /\ \A p \in Pollers : p[2] > receives => poller[p] = "none"
  /\ PanicCauses

(* A step of one poller that goes on, or whose error is new. *)
LEMMA CallInvPoller ==
  ASSUME TypeOK, CallInv, NEW p \in Pollers, NEW state, ~panicked,
         Running(p), state \in {"tick", "request", "fill", "send", "error"},
         poller' = [poller EXCEPT ![p] = state],
         UNCHANGED <<receives, errors, panicked>>
  PROVE  CallInv'
<1>1. \A q \in Pollers : poller'[q] = IF q = p THEN state ELSE poller[q]
  BY DEF TypeOK
<1>2. \A g \in Groups : <<g, receives>> \in Pollers
  BY DEF TypeOK, Pollers
<1>3. ASSUME NEW g \in Groups
      PROVE  (\/ Running(<<g, receives>>)
              \/ poller[<<g, receives>>] = "error")'
  BY <1>1, <1>2 DEF CallInv, Running
<1>4. \A q \in Pollers : q[2] < receives =>
        \E r \in Pollers : r[2] = q[2] /\ poller'[r] = "ended"
  BY <1>1 DEF CallInv, Running
<1>5. \A q \in Pollers : q[2] > receives => poller'[q] = "none"
  BY <1>1 DEF CallInv, Running
<1> QED
  BY <1>3, <1>4, <1>5 DEF CallInv, PanicCauses

LEMMA CallInvSame ==
  ASSUME CallInv, UNCHANGED <<poller, receives, errors, panicked>>,
         ~panicked \/ UNCHANGED command
  PROVE  CallInv'
BY DEF CallInv, Running, PanicCauses

LEMMA CallInvInit == Init => CallInv
<1> SUFFICES ASSUME Init PROVE CallInv
  OBVIOUS
<1>1. \A g \in Groups : <<g, 1>> \in Pollers
  BY ConnectorAssumption DEF Pollers, Receives
<1>2. \A p \in Pollers : p[2] \in Nat \ {0} /\ p[2] \in Receives
  BY DEF Pollers, Receives
<1> QED
  BY <1>1, <1>2 DEF Init, CallInv, Running, PanicCauses

LEMMA CallInvStep == TypeOK /\ CallInv /\ [Next]_vars => CallInv'
<1> SUFFICES ASSUME TypeOK, CallInv, [Next]_vars PROVE CallInv'
  OBVIOUS
<1>1. ASSUME NEW p \in Pollers,
             SetUnit(p) \/ Request(p) \/ Fill(p) \/ Send(p) \/ ReadFails(p)
      PROVE  CallInv'
  <2>1. CASE UNCHANGED poller
    BY <1>1, <2>1, CallInvSame DEF commandVars, SetUnit, Request, Fill, Send, ReadFails
  <2>2. CASE ~UNCHANGED poller
    <3>1. PICK state \in {"tick", "request", "fill", "send", "error"} :
            poller' = [poller EXCEPT ![p] = state]
      BY <1>1, <2>2 DEF SetUnit, Request, Fill, Send, ReadFails
    <3>2. Running(p) /\ ~panicked /\ UNCHANGED <<receives, errors, panicked>>
      BY <1>1 DEF SetUnit, Request, Fill, Send, ReadFails, Running
    <3> QED
      BY <3>1, <3>2, CallInvPoller
  <2> QED
    BY <2>1, <2>2
<1>2. ASSUME NEW p \in Pollers, ReceiveError(p) PROVE CallInv'
  <2>1. /\ ~panicked /\ poller[p] = "error" /\ p[2] = receives
        /\ receives' = receives + 1 /\ UNCHANGED panicked
        /\ receives \in Nat /\ receives + 1 \in Receives
    BY <1>2, ConnectorAssumption DEF ReceiveError, TypeOK, Receives
  <2>2. /\ \A q \in Pollers : poller'[q] = IF q = p THEN "ended"
             ELSE IF q[2] = receives + 1 THEN "tick" ELSE poller[q]
        /\ \A q \in Pollers : errors'[q[2]] = "closed" =>
             q[2] = receives \/ errors[q[2]] = "closed"
    BY <1>2, <2>1 DEF ReceiveError, TypeOK, Pollers
  <2>3. \A g \in Groups : poller'[<<g, receives + 1>>] = "tick"
    <3> TAKE g \in Groups
    <3>1. <<g, receives + 1>> \in Pollers
      BY <2>1 DEF Pollers
    <3>2. <<g, receives + 1>>[2] = receives + 1 /\ receives + 1 # receives
      BY <2>1
    <3> QED
      BY <2>1, <2>2, <3>1, <3>2
  <2>4. \A q \in Pollers : q[2] \in Nat
    BY DEF Pollers, Receives
  <2>5. ASSUME NEW q \in Pollers, q[2] < receives + 1
        PROVE  \E r \in Pollers : r[2] = q[2] /\ poller'[r] = "ended"
    <3>1. CASE q[2] = receives
      BY <2>1, <2>2, <3>1
    <3>2. CASE q[2] < receives
      <4>1. PICK r \in Pollers : r[2] = q[2] /\ poller[r] = "ended"
        BY <3>2 DEF CallInv
      <4>2. poller'[r] = "ended"
        BY <2>1, <2>2, <2>4, <3>2, <4>1
      <4> QED
        BY <4>1, <4>2
    <3> QED
      BY <2>1, <2>4, <2>5, <3>1, <3>2
  <2>6. \A q \in Pollers : errors'[q[2]] = "closed" => q[2] < receives + 1
    BY <2>1, <2>2, <2>4 DEF CallInv
  <2>7. \A q \in Pollers : q[2] > receives + 1 => poller'[q] = "none"
    BY <2>1, <2>2, <2>4 DEF CallInv
  <2> QED
    BY <2>1, <2>3, <2>5, <2>6, <2>7 DEF CallInv, Running, PanicCauses
<1>3. ASSUME NEW p \in Pollers, Panic(p) PROVE CallInv'
  <2>1. UNCHANGED <<poller, receives, errors>> /\ poller[p] = "error"
        /\ errors[p[2]] = "closed"
    BY <1>3 DEF Panic, pollVars
  <2>2. PICK q \in Pollers : q[2] = p[2] /\ poller[q] = "ended"
    BY <2>1 DEF CallInv
  <2>3. PanicCauses'
    BY <2>1, <2>2 DEF PanicCauses
  <2> QED
    BY <2>1, <2>3 DEF CallInv, Running
<1>4. CASE \/ Take \/ (\E v \in encoding : Encode(v))
           \/ (\E c \in Commands : Receive(c)) \/ Write \/ UNCHANGED vars
  <2>1. UNCHANGED <<poller, receives, errors, panicked>>
    BY <1>4 DEF Take, Encode, Receive, Write, vars, pollVars
  <2>2. ~panicked \/ UNCHANGED command
    BY <1>4 DEF Take, Encode, Receive, Write, vars, commandVars
  <2> QED
    BY <2>1, <2>2, CallInvSame
<1>5. CASE WriteNoCoil
  BY <1>5 DEF WriteNoCoil, pollVars, commandVars, CallInv, Running, PanicCauses
<1> QED
  BY <1>1, <1>2, <1>3, <1>4, <1>5 DEF Next

LEMMA CallInvariant == Spec => [](TypeOK /\ CallInv)
BY TypeInit, TypeStep, CallInvInit, CallInvStep, PTL DEF Spec

(* A group is without a poller of the running call only while an error is  *)
(* about to start the next call; and a poller of an earlier call runs only *)
(* beside one of the same call that has ended.                             *)
THEOREM PollersRun == Spec => []GroupsArePolled
<1>1. TypeOK /\ CallInv => GroupsArePolled
  <2> SUFFICES ASSUME TypeOK, CallInv,
                      NEW p \in Pollers, Running(p), p[2] < receives
               PROVE  \E q \in Pollers : q[2] = p[2] /\ q # p /\ poller[q] = "ended"
    BY DEF CallInv, GroupsArePolled
  <2>1. PICK q \in Pollers : q[2] = p[2] /\ poller[q] = "ended"
    BY DEF CallInv
  <2> QED
    BY <2>1 DEF Running
<1> QED
  BY <1>1, CallInvariant, PTL

(* The program panics only with a second error of one call of receive, or  *)
(* with a command that has no coil to write.                               *)
THEOREM PanicsAreExplained == Spec => []PanicCauses
<1>1. CallInv => PanicCauses
  BY DEF CallInv
<1> QED
  BY <1>1, CallInvariant, PTL

-----------------------------------------------------------------------------
(* The unit ids. *)

UnitInv ==
  /\ \A p \in Pollers : poller[p] = "request" => unit = Slave[p[1]] \/ unit \in meanwhile[p]
  /\ SlaveAnswers

(* A unit id that is set is remembered for every poller before its request. *)
LEMMA UnitInvSelect ==
  ASSUME TypeOK, UnitInv, NEW s, unit' = s,
         \A p \in Pollers :
           /\ poller'[p] = "request" => s = Slave[p[1]] \/ s \in meanwhile'[p]
           /\ poller'[p] \in {"fill", "send"} =>
                poller[p] = poller'[p] /\ from'[p] = from[p] /\ meanwhile'[p] = meanwhile[p]
  PROVE  UnitInv'
BY DEF UnitInv, SlaveAnswers

LEMMA UnitInvStep == TypeOK /\ UnitInv /\ [Next]_vars => UnitInv'
<1> SUFFICES ASSUME TypeOK, UnitInv, [Next]_vars PROVE UnitInv'
  OBVIOUS
<1> USE DEF pollVars, unitVars, streamVars, commandVars
<1>1. ASSUME NEW p \in Pollers, SetUnit(p) PROVE UnitInv'
  <2> DEFINE s == Slave[p[1]]
  <2>1. /\ unit' = s /\ meanwhile' = [Selected(s) EXCEPT ![p] = {}] /\ UNCHANGED from
        /\ \A q \in Pollers : poller'[q] = IF q = p THEN "request" ELSE poller[q]
    BY <1>1 DEF SetUnit, TypeOK
  <2>2. \A q \in Pollers : q # p =>
          meanwhile'[q] = meanwhile[q] \cup {t \in {s} : poller[q] = "request"}
    BY <2>1 DEF Selected
  <2> HIDE DEF s
  <2>3. \A q \in Pollers :
          /\ poller'[q] = "request" => s = Slave[q[1]] \/ s \in meanwhile'[q]
          /\ poller'[q] \in {"fill", "send"} =>
               poller[q] = poller'[q] /\ from'[q] = from[q] /\ meanwhile'[q] = meanwhile[q]
    <3> TAKE q \in Pollers
    <3>1. CASE q = p
      BY <2>1, <3>1 DEF s
    <3>2. CASE q # p
      BY <2>1, <2>2, <3>2
    <3> QED
      BY <3>1, <3>2
  <2> QED
    BY <2>1, <2>3, UnitInvSelect
<1>2. ASSUME NEW p \in Pollers, Request(p) PROVE UnitInv'
  <2>1. unit = Slave[p[1]] \/ unit \in meanwhile[p]
    BY <1>2 DEF Request, UnitInv
  <2>2. /\ UNCHANGED <<unit, meanwhile>>
        /\ \A q \in Pollers : /\ from'[q] = IF q = p THEN unit ELSE from[q]
                              /\ poller'[q] = IF q = p THEN "fill" ELSE poller[q]
    BY <1>2 DEF Request, TypeOK
  <2> QED
    BY <2>1, <2>2 DEF UnitInv, SlaveAnswers
<1>3. ASSUME NEW p \in Pollers, Fill(p) PROVE UnitInv'
  <2>1. UNCHANGED <<unit, meanwhile, from>> /\ poller[p] = "fill"
    BY <1>3 DEF Fill
  <2>2. \A q \in Pollers : /\ poller'[q] = "request" => poller[q] = "request"
                           /\ poller'[q] \in {"fill", "send"} => poller[q] \in {"fill", "send"}
    BY <1>3 DEF Fill, TypeOK
  <2> QED
    BY <2>1, <2>2 DEF UnitInv, SlaveAnswers
<1>4. ASSUME NEW p \in Pollers, Send(p) \/ ReadFails(p) PROVE UnitInv'
  <2>1. /\ unit' = unit /\ poller'[p] \in {"tick", "error"}
        /\ \A q \in Pollers \ {p} :
             poller'[q] = poller[q] /\ from'[q] = from[q] /\ meanwhile'[q] = meanwhile[q]
    BY <1>4 DEF Send, ReadFails, TypeOK
  <2> QED
    BY <2>1 DEF UnitInv, SlaveAnswers
<1>5. ASSUME NEW p \in Pollers, ReceiveError(p) PROVE UnitInv'
  <2>1. UNCHANGED <<unit, meanwhile, from>>
    BY <1>5 DEF ReceiveError
  <2>2. \A q \in Pollers : poller'[q] \in {"ended", "tick"} \/ poller'[q] = poller[q]
    BY <1>5 DEF ReceiveError, TypeOK
  <2> QED
    BY <2>1, <2>2 DEF UnitInv, SlaveAnswers
<1>6. ASSUME NEW c \in Commands, Receive(c) PROVE UnitInv'
  <2> DEFINE s == CommandSlave[c]
  <2>1. unit' = s /\ meanwhile' = Selected(s) /\ UNCHANGED <<poller, from>>
    BY <1>6 DEF Receive
  <2>2. \A q \in Pollers :
          meanwhile'[q] = meanwhile[q] \cup {t \in {s} : poller[q] = "request"}
    BY <2>1 DEF Selected
  <2> HIDE DEF s
  <2>3. \A q \in Pollers :
          /\ poller'[q] = "request" => s \in meanwhile'[q]
          /\ poller'[q] \in {"fill", "send"} =>
               poller[q] = poller'[q] /\ from'[q] = from[q] /\ meanwhile'[q] = meanwhile[q]
    BY <2>1, <2>2
  <2> QED
    BY <2>1, <2>3, UnitInvSelect
<1>7. CASE \/ (\E p \in Pollers : Panic(p)) \/ Take
           \/ (\E v \in encoding : Encode(v)) \/ Write \/ WriteNoCoil \/ UNCHANGED vars
  BY <1>7 DEF Panic, Take, Encode, Write, WriteNoCoil, vars, UnitInv, SlaveAnswers
<1> QED
  BY <1>1, <1>2, <1>3, <1>4, <1>5, <1>6, <1>7 DEF Next

(* The slave that answers a poller is that of its group, unless another    *)
(* goroutine set the unit id between the poller's SetUnitId and request.   *)
THEOREM AnswersAreExplained == Spec => []SlaveAnswers
<1>1. Init => UnitInv
  BY DEF Init, UnitInv, SlaveAnswers
<1>2. UnitInv => SlaveAnswers
  BY DEF UnitInv
<1> QED
  BY <1>1, <1>2, TypeInit, TypeStep, UnitInvStep, PTL DEF Spec

-----------------------------------------------------------------------------
(* What the buffers hold. *)

(* The reading that poller p has not sent yet. *)
Unsent(p) == IF poller[p] \in {"fill", "send"} THEN 1 ELSE 0

(* The halves of a buffer are of the last reading, and before it is filled *)
(* of the one before.                                                      *)
Filled(p) ==
  \A h \in {1, 2} :
    \/ buffer[p][h] = reading[p]
    \/ poller[p] = "fill" /\ buffer[p][h] + 1 = reading[p]

(* Since v was sent its poller has at most read once more, and then it has *)
(* not sent the reading.                                                   *)
LastSent(v) == reading[v.poller] = v.sent + Unsent(v.poller)

BufferInv ==
  /\ \A p \in Pollers : Filled(p)
  /\ stream # <<>> => LastSent(stream[1])
  /\ \A v \in encoding :
       \/ LastSent(v) /\ (stream # <<>> => stream[1].poller # v.poller)
       \/ stream # <<>> /\ stream[1] = [poller |-> v.poller, sent |-> v.sent + 1]
  /\ SkewBound

(* A step that leaves the readings and what is on its way. *)
LEMMA BufferInvSame ==
  ASSUME TypeOK, BufferInv, UNCHANGED <<reading, buffer, stream, encoding, published>>,
         \A p \in Pollers : /\ Unsent(p)' = Unsent(p)
                            /\ (poller[p] = "fill") = (poller'[p] = "fill")
  PROVE  BufferInv'
<1>1. \A p \in Pollers : Filled(p)'
  BY DEF BufferInv, Filled
<1>2. \A v \in Values : LastSent(v)' = LastSent(v)
  BY DEF LastSent, Values
<1>3. stream # <<>> => stream[1] \in Values
  BY JustOne DEF TypeOK
<1> QED
  BY <1>1, <1>2, <1>3 DEF BufferInv, SkewBound, TypeOK

LEMMA BufferInvInit == Init => BufferInv
BY DEF Init, BufferInv, Filled, SkewBound

LEMMA BufferInvRequest ==
  ASSUME TypeOK, BufferInv, NEW p \in Pollers, Request(p)
  PROVE  BufferInv'
<1>1. /\ poller[p] = "request" /\ UNCHANGED <<buffer, stream, encoding, published>>
      /\ \A q \in Pollers : /\ reading'[q] = IF q = p THEN reading[q] + 1 ELSE reading[q]
                            /\ poller'[q] = IF q = p THEN "fill" ELSE poller[q]
  BY DEF Request, streamVars, TypeOK
<1>2. \A q \in Pollers : Filled(q)'
  BY <1>1 DEF BufferInv, Filled, TypeOK
<1>3. \A v \in Values : LastSent(v)' = LastSent(v)
  <2> SUFFICES ASSUME NEW v \in Values PROVE LastSent(v)' = LastSent(v)
    OBVIOUS
  <2>1. v.poller \in Pollers /\ v.sent \in Nat /\ reading[v.poller] \in Nat
    BY DEF Values, TypeOK
  <2>2. CASE v.poller = p
    <3>1. Unsent(p) = 0 /\ Unsent(p)' = 1 /\ reading'[p] = reading[p] + 1
      BY <1>1 DEF Unsent
    <3> QED
      BY <2>1, <2>2, <3>1 DEF LastSent
  <2>3. CASE v.poller # p
    BY <1>1, <2>1, <2>3 DEF LastSent, Unsent
  <2> QED
    BY <2>2, <2>3
<1>4. stream # <<>> => stream[1] \in Values
  BY JustOne DEF TypeOK
<1> QED
  BY <1>1, <1>2, <1>3, <1>4 DEF BufferInv, SkewBound, TypeOK

LEMMA BufferInvFill ==
  ASSUME TypeOK, BufferInv, NEW p \in Pollers, Fill(p)
  PROVE  BufferInv'
<1>1. /\ poller[p] = "fill" /\ UNCHANGED <<reading, stream, encoding, published>>
      /\ \A q \in Pollers \ {p} : poller'[q] = poller[q] /\ buffer'[q] = buffer[q]
  BY DEF Fill, streamVars, TypeOK
<1>2. reading[p] \in Nat /\ buffer[p] \in Nat \X Nat
  BY DEF TypeOK
<1>3. \/ /\ buffer'[p] = <<reading[p], buffer[p][2]>> /\ poller'[p] = "fill"
      \/ /\ buffer[p][1] = reading[p]
         /\ buffer'[p] = <<buffer[p][1], reading[p]>> /\ poller'[p] = "send"
  BY <1>1 DEF Fill, TypeOK
<1>4. \A q \in Pollers : Filled(q)'
  <2>1. Filled(p)'
    BY <1>1, <1>2, <1>3 DEF BufferInv, Filled
  <2> QED
    BY <1>1, <2>1 DEF BufferInv, Filled
<1>5. \A q \in Pollers : Unsent(q)' = Unsent(q)
  BY <1>1, <1>3 DEF Unsent
<1>6. \A v \in Values : LastSent(v)' = LastSent(v)
  BY <1>1, <1>5 DEF LastSent, Values
<1>7. stream # <<>> => stream[1] \in Values
  BY JustOne DEF TypeOK
<1> QED
  BY <1>1, <1>4, <1>6, <1>7 DEF BufferInv, SkewBound, TypeOK

LEMMA BufferInvSend ==
  ASSUME TypeOK, BufferInv, NEW p \in Pollers, Send(p)
  PROVE  BufferInv'
<1> DEFINE w == [poller |-> p, sent |-> reading[p]]
<1>1. /\ poller[p] = "send" /\ Len(stream) < 1 /\ stream' = Append(stream, w)
      /\ UNCHANGED <<reading, buffer, encoding, published>>
      /\ \A q \in Pollers : poller'[q] = IF q = p THEN "tick" ELSE poller[q]
  BY DEF Send, TypeOK
<1>2. stream = <<>>
  BY <1>1, EmptySeq DEF TypeOK
<1>3. stream' # <<>> /\ stream'[1] = w
  BY <1>1, <1>2
<1>4. \A q \in Pollers : Filled(q)'
  BY <1>1 DEF BufferInv, Filled
<1>5. reading[p] \in Nat /\ Unsent(p) = 1 /\ Unsent(p)' = 0
  BY <1>1 DEF Unsent, TypeOK
<1>6. LastSent(w)'
  BY <1>1, <1>5 DEF LastSent
<1>7. ASSUME NEW v \in encoding
      PROVE  \/ LastSent(v)' /\ w.poller # v.poller
             \/ w = [poller |-> v.poller, sent |-> v.sent + 1]
  <2>1. v.poller \in Pollers /\ v.sent \in Nat /\ LastSent(v)
    BY <1>2, <1>7 DEF BufferInv, TypeOK, Values
  <2>2. CASE v.poller = p
    BY <1>5, <2>1, <2>2 DEF LastSent
  <2>3. CASE v.poller # p
    BY <1>1, <2>1, <2>3 DEF LastSent, Unsent
  <2> QED
    BY <2>2, <2>3
<1> QED
  BY <1>1, <1>3, <1>4, <1>6, <1>7 DEF BufferInv, SkewBound, TypeOK

LEMMA BufferInvTake ==
  ASSUME TypeOK, BufferInv, Take
  PROVE  BufferInv'
<1>1. /\ stream # <<>> /\ encoding' = {Head(stream)} /\ stream' = Tail(stream)
      /\ UNCHANGED <<reading, buffer, poller, published>>
  BY DEF Take, pollVars
<1>2. Head(stream) = stream[1] /\ stream' = <<>>
  BY <1>1, JustOne DEF TypeOK
<1>3. LastSent(stream[1])
  BY <1>1 DEF BufferInv
<1> QED
  BY <1>1, <1>2, <1>3 DEF BufferInv, Filled, LastSent, Unsent, SkewBound

LEMMA BufferInvEncode ==
  ASSUME TypeOK, BufferInv, NEW v \in encoding, Encode(v)
  PROVE  BufferInv'
<1> DEFINE p == v.poller
<1>1. /\ encoding' = {}
      /\ published' = [published EXCEPT ![p] = {[value |-> buffer[p], sent |-> v.sent]}]
      /\ UNCHANGED <<reading, buffer, poller, stream>>
  BY DEF Encode, pollVars
<1>2. p \in Pollers /\ v.sent \in Nat /\ reading[p] \in Nat /\ buffer[p] \in Nat \X Nat
  BY DEF TypeOK, Values
<1>3. /\ v.sent + Unsent(p) <= reading[p] /\ reading[p] <= v.sent + 2
  <2>0. Unsent(p) \in {0, 1}
    BY DEF Unsent
  <2>1. CASE LastSent(v)
    BY <1>2, <2>0, <2>1 DEF LastSent
  <2>2. CASE stream # <<>> /\ stream[1] = [poller |-> p, sent |-> v.sent + 1]
    <3>1. reading[p] = v.sent + 1 + Unsent(p)
      BY <2>2 DEF BufferInv, LastSent
    <3> QED
      BY <1>2, <2>0, <3>1
  <2> QED
    BY <2>1, <2>2 DEF BufferInv
<1>4. \A h \in {1, 2} : v.sent <= buffer[p][h] /\ buffer[p][h] <= v.sent + 2
  <2> TAKE h \in {1, 2}
  <2>1. buffer[p][h] \in Nat
    BY <1>2
  <2>2. CASE buffer[p][h] = reading[p]
    <3>1. Unsent(p) \in {0, 1}
      BY DEF Unsent
    <3> QED
      BY <1>2, <1>3, <2>2, <3>1
  <2>3. CASE poller[p] = "fill" /\ buffer[p][h] + 1 = reading[p]
    <3>1. Unsent(p) = 1
      BY <2>3 DEF Unsent
    <3> QED
      BY <1>2, <1>3, <2>1, <2>3, <3>1
  <2> QED
    BY <1>2, <2>2, <2>3 DEF BufferInv, Filled
<1>5. SkewBound'
  <2> SUFFICES ASSUME NEW q \in Pollers, NEW u \in published'[q], NEW h \in {1, 2}
               PROVE  u.sent <= u.value[h] /\ u.value[h] <= u.sent + 2
    BY DEF SkewBound
  <2>1. CASE q = p
    <3>1. u = [value |-> buffer[p], sent |-> v.sent]
      BY <1>1, <1>2, <2>1 DEF TypeOK
    <3> QED
      BY <1>4, <3>1
  <2>2. CASE q # p
    <3>1. u \in published[q]
      BY <1>1, <1>2, <2>2 DEF TypeOK
    <3> QED
      BY <3>1 DEF BufferInv, SkewBound
  <2> QED
    BY <2>1, <2>2
<1> QED
  BY <1>1, <1>5 DEF BufferInv, Filled, LastSent, Unsent

LEMMA BufferInvStep == TypeOK /\ CallInv /\ BufferInv /\ [Next]_vars => BufferInv'
<1> SUFFICES ASSUME TypeOK, CallInv, BufferInv, [Next]_vars PROVE BufferInv'
  OBVIOUS
<1>1. ASSUME NEW p \in Pollers, SetUnit(p) \/ ReadFails(p) PROVE BufferInv'
  <2>1. \A q \in Pollers : /\ Unsent(q)' = Unsent(q)
                           /\ (poller[q] = "fill") = (poller'[q] = "fill")
    BY <1>1 DEF SetUnit, ReadFails, Unsent, TypeOK
  <2> QED
    BY <1>1, <2>1, BufferInvSame DEF SetUnit, ReadFails, streamVars
<1>2. ASSUME NEW p \in Pollers, ReceiveError(p) PROVE BufferInv'
  <2>1. \A q \in Pollers : /\ Unsent(q)' = Unsent(q)
                           /\ (poller[q] = "fill") = (poller'[q] = "fill")
    <3>1. \A q \in Pollers : q[2] = receives + 1 => poller[q] \notin {"fill", "send"}
      <4>1. receives \in Nat /\ receives + 1 > receives
        BY DEF TypeOK, Receives
      <4> QED
        BY <4>1 DEF CallInv
    <3> QED
      BY <1>2, <3>1 DEF ReceiveError, Unsent, TypeOK
  <2> QED
    BY <1>2, <2>1, BufferInvSame DEF ReceiveError, streamVars
<1>3. CASE \/ (\E p \in Pollers : Panic(p)) \/ (\E c \in Commands : Receive(c))
           \/ Write \/ WriteNoCoil \/ UNCHANGED vars
  BY <1>3, BufferInvSame DEF Panic, Receive, Write, WriteNoCoil, vars, pollVars, streamVars, Unsent
<1> QED
  BY <1>1, <1>2, <1>3, BufferInvRequest, BufferInvFill, BufferInvSend, BufferInvTake,
     BufferInvEncode DEF Next

(* What is published was read no earlier than it was sent and at most two  *)
(* readings later.                                                         *)
THEOREM SkewIsBounded == Spec => []SkewBound
<1>1. BufferInv => SkewBound
  BY DEF BufferInv
<1> QED
  BY <1>1, CallInvariant, BufferInvInit, BufferInvStep, PTL DEF Spec

=============================================================================
