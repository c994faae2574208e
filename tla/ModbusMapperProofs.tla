------------------------- MODULE ModbusMapperProofs -------------------------
(* Proofs about the modbus encoding and ModbusMapper. *)
EXTENDS ModbusMapper, TLAPS, WellFoundedInduction

(* A word is the number of its two bytes. *)
LEMMA WordRoundTrip ==
  ASSUME NEW v \in Word
  PROVE  /\ v \div 256 \in Byte /\ v % 256 \in Byte
         /\ Uint16(v \div 256, v % 256) = v
<1>1. v \in Nat /\ v < 65536
  BY SMTT(60) DEF Word, WordSize
<1>2. v % 256 \in 0 .. 255
  BY <1>1, SMT
<1>3. v \div 256 \in 0 .. 255
  BY <1>1, SMT
<1>4. (v \div 256) * 256 + (v % 256) = v
  BY <1>1, SMT
<1> QED
  BY <1>2, <1>3, <1>4, SMTT(60) DEF Byte, Uint16

(* BytesToRegisters undoes RegistersToBytes. *)
LEMMA RegistersRoundTrip ==
  ASSUME NEW n \in Nat, NEW values \in [1 .. n -> Word]
  PROVE  /\ RegistersToBytes(values) \in Seq(Byte)
         /\ Len(RegistersToBytes(values)) = 2 * n
         /\ BytesToRegisters(RegistersToBytes(values)) = values
<1> DEFINE b == RegistersToBytes(values)
<1>1. Len(values) = n
  OBVIOUS
<1>2. b = [i \in 1 .. 2 * n |->
             IF i % 2 = 1 THEN values[(i + 1) \div 2] \div 256
                          ELSE values[i \div 2] % 256]
  BY <1>1 DEF RegistersToBytes, PutUint16
<1>3. ASSUME NEW i \in 1 .. 2 * n PROVE b[i] \in Byte
  <2>1. i % 2 = 1 => (i + 1) \div 2 \in 1 .. n
    BY SMT
  <2>2. i % 2 # 1 => i \div 2 \in 1 .. n
    BY SMT
  <2>3. CASE i % 2 = 1
    BY <1>2, <2>1, <2>3, WordRoundTrip
  <2>4. CASE i % 2 # 1
    BY <1>2, <2>2, <2>4, WordRoundTrip
  <2> QED
    BY <2>3, <2>4
<1>4. b \in [1 .. 2 * n -> Byte]
  BY <1>2, <1>3
<1>5. b \in Seq(Byte) /\ Len(b) = 2 * n
  BY <1>4
<1>6. ASSUME NEW i \in 1 .. n PROVE Uint16(b[2 * i - 1], b[2 * i]) = values[i]
  <2>1. /\ 2 * i - 1 \in 1 .. 2 * n /\ 2 * i \in 1 .. 2 * n
        /\ (2 * i - 1) % 2 = 1 /\ (2 * i) % 2 # 1
        /\ ((2 * i - 1) + 1) \div 2 = i /\ (2 * i) \div 2 = i
    BY SMT
  <2>2. b[2 * i - 1] = values[i] \div 256
    BY <1>2, <2>1
  <2>3. b[2 * i] = values[i] % 256
    BY <1>2, <2>1
  <2> QED
    BY <2>2, <2>3, WordRoundTrip
<1>7. (2 * n) \div 2 = n
  BY SMT
<1>8. BytesToRegisters(b) = [i \in 1 .. n |-> Uint16(b[2 * i - 1], b[2 * i])]
  BY <1>5, <1>7 DEF BytesToRegisters
<1> HIDE DEF b
<1>9. BytesToRegisters(b) = values
  BY <1>6, <1>8
<1> QED
  BY <1>5, <1>9 DEF b

(* RegistersToCoils undoes CoilsToBytes. *)
LEMMA CoilsRoundTrip ==
  ASSUME NEW n \in Nat, NEW values \in [1 .. n -> Coils]
  PROVE  /\ CoilsToBytes(values) \in Seq(Byte)
         /\ Len(CoilsToBytes(values)) = 2 * n
         /\ RegistersToCoils(BytesToRegisters(CoilsToBytes(values))) = values
<1> DEFINE b == CoilsToBytes(values)
           w == BytesToRegisters(b)
<1>1. Len(values) = n
  OBVIOUS
<1>2. b = [i \in 1 .. 2 * n |->
             IF i % 2 = 1 /\ values[(i + 1) \div 2] = "on" THEN 255 ELSE 0]
  BY <1>1 DEF CoilsToBytes
<1>3. b \in [1 .. 2 * n -> Byte]
  BY <1>2 DEF Byte
<1>4. b \in Seq(Byte) /\ Len(b) = 2 * n
  BY <1>3
<1>5. ASSUME NEW i \in 1 .. n
      PROVE  Uint16(b[2 * i - 1], b[2 * i]) = IF values[i] = "on" THEN 65280 ELSE 0
  <2>1. /\ 2 * i - 1 \in 1 .. 2 * n /\ 2 * i \in 1 .. 2 * n
        /\ (2 * i - 1) % 2 = 1 /\ (2 * i) % 2 # 1
        /\ ((2 * i - 1) + 1) \div 2 = i
    BY SMT
  <2>2. b[2 * i - 1] = IF values[i] = "on" THEN 255 ELSE 0
    BY <1>2, <2>1
  <2>3. b[2 * i] = 0
    BY <1>2, <2>1
  <2> QED
    BY <2>2, <2>3 DEF Uint16
<1>6. (2 * n) \div 2 = n
  BY SMT
<1>7. w = [i \in 1 .. n |-> Uint16(b[2 * i - 1], b[2 * i])]
  BY <1>4, <1>6 DEF BytesToRegisters
<1> HIDE DEF b
<1>8. w = [i \in 1 .. n |-> IF values[i] = "on" THEN 65280 ELSE 0]
  BY <1>5, <1>7
<1>9. Len(w) = n
  BY <1>8
<1> HIDE DEF w
<1>10. RegistersToCoils(w) = [i \in 1 .. n |-> IF w[i] = 65280 THEN "on" ELSE "off"]
  BY <1>9 DEF RegistersToCoils
<1>11. RegistersToCoils(w) = values
  BY <1>8, <1>10 DEF Coils
<1> QED
  BY <1>4, <1>11 DEF b, w

(* ExtractModbusHeader undoes InjectModbusHeader and leaves the payload. *)
LEMMA HeaderRoundTrip ==
  ASSUME NEW h \in Headers, NEW b \in Seq(Byte)
  PROVE  /\ InjectModbusHeader(h, b) \in Seq(Byte)
         /\ Len(InjectModbusHeader(h, b)) = MODBUS_HEADER_LENGTH + Len(b)
         /\ ExtractModbusHeader(InjectModbusHeader(h, b)) = h
         /\ Payload(InjectModbusHeader(h, b)) = b
<1> DEFINE f == h.FunctionCode
           a == h.Address
           n == h.NumberOfCoilsOrRegisters
           header == <<h.Slave, f \div 256, f % 256, a \div 256, a % 256,
                       n \div 256, n % 256>>
           raw == InjectModbusHeader(h, b)
<1>1. h.Slave \in Byte /\ f \in Word /\ a \in Word /\ n \in Word
  BY DEF Headers
<1>2. /\ f \div 256 \in Byte /\ f % 256 \in Byte
      /\ Uint16(f \div 256, f % 256) = f
  BY <1>1, WordRoundTrip
<1>3. /\ a \div 256 \in Byte /\ a % 256 \in Byte
      /\ Uint16(a \div 256, a % 256) = a
  BY <1>1, WordRoundTrip
<1>4. /\ n \div 256 \in Byte /\ n % 256 \in Byte
      /\ Uint16(n \div 256, n % 256) = n
  BY <1>1, WordRoundTrip
<1>5. header \in Seq(Byte) /\ Len(header) = 7
  BY <1>1, <1>2, <1>3, <1>4
<1>6. raw = header \o b
  BY <1>1, <1>2, <1>3, <1>4 DEF InjectModbusHeader, PutUint16
<1>7. raw \in Seq(Byte) /\ Len(raw) = 7 + Len(b)
  BY <1>5, <1>6
<1>8. /\ raw[1] = h.Slave
      /\ raw[2] = f \div 256 /\ raw[3] = f % 256
      /\ raw[4] = a \div 256 /\ raw[5] = a % 256
      /\ raw[6] = n \div 256 /\ raw[7] = n % 256
  BY <1>5, <1>6
<1>9. ExtractModbusHeader(raw) =
        [Slave |-> h.Slave, FunctionCode |-> f, Address |-> a,
         NumberOfCoilsOrRegisters |-> n]
  BY <1>2, <1>3, <1>4, <1>8 DEF ExtractModbusHeader
<1>10. ExtractModbusHeader(raw) = h
  BY <1>9 DEF Headers
<1>11. Payload(raw) = b
  <2>1. Payload(raw) = SubSeq(raw, 8, 7 + Len(b))
    BY <1>7 DEF Payload, MODBUS_HEADER_LENGTH
  <2>2. \A i \in 1 .. Len(b) : raw[i + 7] = b[i]
    BY <1>5, <1>6
  <2>3. SubSeq(raw, 8, 7 + Len(b)) = [i \in 1 .. Len(b) |-> raw[i + 7]]
    BY <1>7
  <2> QED
    BY <2>1, <2>2, <2>3, SMTT(60)
<1> QED
  BY <1>7, <1>10, <1>11 DEF MODBUS_HEADER_LENGTH

(* What the assumption says of a register group. *)
LEMMA GroupsAreHeaders ==
  ASSUME NEW h \in Groups
  PROVE  /\ h \in Headers
         /\ h.Address \in Nat /\ h.NumberOfCoilsOrRegisters \in Nat
         /\ End(h) <= WordSize
<1>1. h \in Headers /\ End(h) <= WordSize
  BY MapperAssumption, Zenon
<1>2. h.Address \in Word /\ h.NumberOfCoilsOrRegisters \in Word
  BY <1>1 DEF Headers
<1>3. h.Address \in Nat /\ h.NumberOfCoilsOrRegisters \in Nat
  <2>1. Word \subseteq Nat
    BY DEF Word, WordSize
  <2> QED
    BY <1>2, <2>1, Zenon
<1> QED
  BY <1>1, <1>3, Zenon

(* What the uint16 additions of DoMap do: a mapping passes the test        *)
(* exactly when its registers are in the message, where neither of them    *)
(* ends at the last address; a mapping that ends there always passes if it *)
(* does not start before the message, and no other one passes in a message *)
(* that ends there.                                                        *)
THEOREM MappingsAreInside ==
  ASSUME NEW h \in Groups, NEW i \in 1 .. Len(Mappings)
  PROVE  /\ InMessage(Mappings[i], h) => Inside(Mappings[i], h) \/ End(Mappings[i]) = WordSize
         /\ InMessage(Mappings[i], h) /\ End(h) = WordSize => End(Mappings[i]) = WordSize
         /\ Inside(Mappings[i], h) /\ (End(h) = WordSize => End(Mappings[i]) = WordSize)
              => InMessage(Mappings[i], h)
<1> DEFINE m == Mappings[i]
           x == h.Address
           n == h.NumberOfCoilsOrRegisters
           y == m.Address
           k == m.NumberOfCoilsOrRegisters
           e == End(h)
           f == End(m)
           Same == m.Slave = h.Slave /\ m.FunctionCode = h.FunctionCode
<1>1. x \in Nat /\ n \in Nat /\ e = x + n /\ e <= WordSize
  BY GroupsAreHeaders DEF End
<1>2. y \in Nat /\ k \in Nat /\ k > 0 /\ f = y + k /\ f <= WordSize
  <2>1. y \in Word /\ k \in Word \ {0} /\ f <= WordSize
    BY MapperAssumption, Zenon
  <2>2. y \in Nat /\ k \in Nat /\ k > 0
    <3>1. \A w \in Word : w \in Nat
      BY SMTT(60) DEF Word, WordSize
    <3>2. y \in Nat /\ k \in Nat /\ k # 0
      BY <2>1, <3>1, Zenon
    <3> HIDE DEF y, k
    <3> QED
      BY <3>2
  <2> QED
    BY <2>1, <2>2 DEF End
<1>3. InMessage(m, h) <=> Same /\ ~(y < x) /\ ~(f % WordSize > e % WordSize)
  BY DEF InMessage
<1>4. Inside(m, h) <=> Same /\ \A a \in y .. f - 1 : a \in x .. e - 1
  BY DEF Inside
<1> HIDE DEF x, n, y, k, e, f, m, Same
<1>5. \A v \in Nat : v <= WordSize => v % WordSize = IF v = WordSize THEN 0 ELSE v
  BY DEF WordSize
<1>6. /\ e \in Nat /\ f \in Nat /\ f > 0
      /\ e % WordSize = IF e = WordSize THEN 0 ELSE e
      /\ f % WordSize = IF f = WordSize THEN 0 ELSE f
  BY <1>1, <1>2, <1>5
<1>7. (~(y < x) /\ ~(f > e)) <=> \A a \in y .. f - 1 : a \in x .. e - 1
  <2>1. (~(y < x) /\ ~(f > e)) => \A a \in y .. f - 1 : a \in x .. e - 1
    BY <1>1, <1>2, <1>6
  <2>2. ASSUME \A a \in y .. f - 1 : a \in x .. e - 1
        PROVE  ~(y < x) /\ ~(f > e)
    <3>1. y \in y .. f - 1 /\ f - 1 \in y .. f - 1
      BY <1>2
    <3>2. y \in x .. e - 1 /\ f - 1 \in x .. e - 1
      BY <2>2, <3>1, Zenon
    <3> QED
      BY <1>1, <1>2, <1>6, <3>2, SMT
  <2> QED
    BY <2>1, <2>2
<1>8. InMessage(m, h) => Inside(m, h) \/ f = WordSize
  BY <1>1, <1>2, <1>3, <1>4, <1>6, <1>7
<1>9. InMessage(m, h) /\ e = WordSize => f = WordSize
  BY <1>3, <1>6
<1>10. Inside(m, h) /\ (e = WordSize => f = WordSize) => InMessage(m, h)
  BY <1>1, <1>2, <1>3, <1>4, <1>6, <1>7
<1> QED
  BY <1>8, <1>9, <1>10 DEF m, e, f

(* A read of a register group comes out of the decoder as it went in.      *)
LEMMA ReadRoundTrip ==
  ASSUME NEW h \in Groups, NEW values \in Answers(h)
  PROVE  /\ ExtractModbusHeader(Read(h, values)) = h
         /\ Coil(h) => RegistersToCoils(BytesToRegisters(Payload(Read(h, values)))) = values
         /\ ~Coil(h) => BytesToRegisters(Payload(Read(h, values))) = values
<1> DEFINE n == h.NumberOfCoilsOrRegisters
<1>1. h \in Headers /\ n \in Nat
  BY GroupsAreHeaders
<1>2. CASE Coil(h)
  <2>1. values \in [1 .. n -> Coils]
    BY <1>2 DEF Answers
  <2>2. Read(h, values) = InjectModbusHeader(h, CoilsToBytes(values))
    BY <1>2 DEF Read
  <2> QED
    BY <1>1, <1>2, <2>1, <2>2, CoilsRoundTrip, HeaderRoundTrip
<1>3. CASE ~Coil(h)
  <2>1. values \in [1 .. n -> Word]
    BY <1>3, MapperAssumption DEF Answers
  <2>2. Read(h, values) = InjectModbusHeader(h, RegistersToBytes(values))
    BY <1>3 DEF Read
  <2> QED
    BY <1>1, <1>3, <2>1, <2>2, RegistersRoundTrip, HeaderRoundTrip
<1> QED
  BY <1>2, <1>3

(* What the mapper decodes is what the device answered, for all register   *)
(* groups, values and sequences of messages (InjectModbusHeader, DoMap).   *)
THEOREM AnswersAreDecoded == Spec => []Decoded
<1>1. Init => Decoded
  BY DEF Init, Decoded
<1>2. Decoded /\ [Next]_vars => Decoded'
  <2> SUFFICES ASSUME Decoded, [Next]_vars PROVE Decoded'
    OBVIOUS
  <2>1. ASSUME NEW raw \in Short, DoMapShort(raw) PROVE Decoded'
    BY <2>1 DEF DoMapShort, Decoded
  <2>2. ASSUME NEW h \in Groups, NEW values \in Answers(h), Handle(h, values)
        PROVE  Decoded'
    <3>1. group' = {h} /\ answer' = values
      BY <2>2 DEF Handle
    <3>2. CASE Coil(h)
      <4>1. ~DoMapRegisters(Read(h, values))
        BY <3>2, ReadRoundTrip DEF DoMapRegisters, Coil, READ_COILS,
             READ_DISCRETE_INPUTS, READ_HOLDING_REGISTERS, READ_INPUT_REGISTERS
      <4>2. coils' = At(h, values)
        BY <2>2, <3>2, <4>1, ReadRoundTrip DEF Handle, DoMapCoils
      <4> QED
        BY <3>1, <3>2, <4>2 DEF Decoded
    <3>3. CASE ~Coil(h)
      <4>1. ~DoMapCoils(Read(h, values))
        BY <3>3, ReadRoundTrip DEF DoMapCoils
      <4>2. registers' = At(h, values)
        BY <2>2, <3>3, <4>1, ReadRoundTrip DEF Handle, DoMapRegisters
      <4> QED
        BY <3>1, <3>3, <4>2 DEF Decoded
    <3> QED
      BY <3>2, <3>3
  <2>3. ASSUME UNCHANGED vars PROVE Decoded'
    BY <2>3 DEF vars, env, history, Decoded
  <2> QED
    BY <2>1, <2>2, <2>3 DEF Next
<1> QED
  BY <1>1, <1>2, PTL DEF Spec

-----------------------------------------------------------------------------
(* The mappings. *)

LEMMA SmallestNumber ==
  ASSUME NEW T, T \subseteq Nat, T # {}
  PROVE  \E x \in T : \A y \in T : ~(y < x)
<1> DEFINE R == {p \in Nat \X Nat : p[1] < p[2]}
<1>1. IsWellFoundedOn(R, Nat)
  BY NatLessThanWellFounded DEF OpToRel
<1>2. \E x \in T : \A y \in T : ~(<<y, x>> \in R)
  <2> HIDE DEF R
  <2> QED
    BY <1>1, WFMin
<1>3. \A x, y \in Nat : y < x => <<y, x>> \in R
  OBVIOUS
<1> QED
  BY <1>2, <1>3

(* The first mapping in the message with a path is the one evaluated. *)
LEMMA FirstIsEvaluated ==
  ASSUME NEW h \in Groups, NEW i \in 1 .. Len(Mappings), InMessage(Mappings[i], h)
  PROVE  \E j \in Evaluate(h) : j <= i /\ Mappings[j].path = Mappings[i].path
<1> DEFINE T == {j \in 1 .. Len(Mappings) :
                   InMessage(Mappings[j], h) /\ Mappings[j].path = Mappings[i].path}
<1>1. i \in T /\ T \subseteq Nat
  OBVIOUS
<1>2. PICK j \in T : \A k \in T : ~(k < j)
  <2> HIDE DEF T
  <2> QED
    BY <1>1, SmallestNumber
<1>3. /\ j \in 1 .. Len(Mappings) /\ InMessage(Mappings[j], h)
      /\ Mappings[j].path = Mappings[i].path /\ ~(i < j)
  BY <1>1, <1>2
<1>4. ASSUME NEW k \in 1 .. j - 1, InMessage(Mappings[k], h)
      PROVE  Mappings[k].path # Mappings[j].path
  <2>1. k \in 1 .. Len(Mappings) /\ k < j
    BY <1>3
  <2>2. k \notin T
    BY <1>2, <2>1
  <2> QED
    BY <1>3, <1>4, <2>1, <2>2
<1>5. j \in Evaluate(h)
  BY <1>3, <1>4 DEF Evaluate
<1>6. j <= i
  BY <1>3
<1> QED
  BY <1>3, <1>5, <1>6

(* The mappings that a message evaluates are those of the last one. *)
EvaluateInv == \A h \in group : h \in Groups /\ evaluated = Evaluate(h)

LEMMA HandleEvaluates ==
  ASSUME NEW h \in Groups, NEW values \in Answers(h), Handle(h, values)
  PROVE  group' = {h} /\ evaluated' = Evaluate(h)
<1>1. ExtractModbusHeader(Read(h, values)) = h
  BY ReadRoundTrip
<1>2. ASSUME NEW raw, DoMapCoils(raw) \/ DoMapRegisters(raw)
      PROVE  evaluated' = Evaluate(ExtractModbusHeader(raw))
  BY <1>2, Zenon DEF DoMapCoils, DoMapRegisters
<1>3. group' = {h} /\ (DoMapCoils(Read(h, values)) \/ DoMapRegisters(Read(h, values)))
  BY Zenon DEF Handle
<1> QED
  BY <1>1, <1>2, <1>3, Zenon

(* A mapping is evaluated when all its registers are in the message, but   *)
(* for the last address, and of the mappings of one path the first one's   *)
(* output is in the update (DoMap).                                        *)
THEOREM MappingsAreEvaluated == Spec => []EvaluatedInside
<1>1. Init => EvaluateInv
  BY DEF Init, EvaluateInv
<1>2. EvaluateInv /\ [Next]_vars => EvaluateInv'
  <2> SUFFICES ASSUME EvaluateInv, [Next]_vars PROVE EvaluateInv'
    OBVIOUS
  <2>1. ASSUME NEW raw \in Short, DoMapShort(raw) PROVE EvaluateInv'
    BY <2>1 DEF DoMapShort, EvaluateInv
  <2>2. ASSUME NEW h \in Groups, NEW values \in Answers(h), Handle(h, values)
        PROVE  EvaluateInv'
    BY <2>2, HandleEvaluates DEF EvaluateInv
  <2>3. ASSUME UNCHANGED vars PROVE EvaluateInv'
    BY <2>3 DEF vars, history, EvaluateInv
  <2> QED
    BY <2>1, <2>2, <2>3 DEF Next
<1>3. EvaluateInv => EvaluatedInside
  <2> SUFFICES ASSUME NEW h \in Groups, NEW i \in 1 .. Len(Mappings), evaluated = Evaluate(h)
               PROVE  /\ i \in evaluated => Inside(Mappings[i], h) \/ End(Mappings[i]) = WordSize
                      /\ Inside(Mappings[i], h)
                           /\ (End(h) = WordSize => End(Mappings[i]) = WordSize) =>
                           \E j \in evaluated : j <= i /\ Mappings[j].path = Mappings[i].path
                      /\ \A j \in evaluated :
                           i \in evaluated /\ Mappings[j].path = Mappings[i].path => i = j
    BY DEF EvaluateInv, EvaluatedInside
  <2>1. i \in evaluated => InMessage(Mappings[i], h)
    BY DEF Evaluate
  <2>2. ASSUME NEW j \in evaluated, i \in evaluated, Mappings[j].path = Mappings[i].path
        PROVE  i = j
    <3>1. /\ j \in 1 .. Len(Mappings) /\ InMessage(Mappings[j], h) /\ InMessage(Mappings[i], h)
          /\ \A k \in 1 .. i - 1 :
               InMessage(Mappings[k], h) => Mappings[k].path # Mappings[i].path
          /\ \A k \in 1 .. j - 1 :
               InMessage(Mappings[k], h) => Mappings[k].path # Mappings[j].path
      BY <2>2 DEF Evaluate
    <3>2. j \notin 1 .. i - 1 /\ i \notin 1 .. j - 1
      BY <2>2, <3>1
    <3> QED
      BY <3>1, <3>2
  <2>3. Inside(Mappings[i], h) /\ (End(h) = WordSize => End(Mappings[i]) = WordSize) =>
          \E j \in evaluated : j <= i /\ Mappings[j].path = Mappings[i].path
    BY MappingsAreInside, FirstIsEvaluated
  <2>4. i \in evaluated => Inside(Mappings[i], h) \/ End(Mappings[i]) = WordSize
    BY <2>1, MappingsAreInside
  <2> QED
    BY <2>2, <2>3, <2>4
<1> QED
  BY <1>1, <1>2, <1>3, PTL DEF Spec

-----------------------------------------------------------------------------
(* The deltas. *)

(* The corrections leave a small change that is right but for a turn. *)
LEMMA DeltaIsSmall ==
  ASSUME NEW x \in Word, NEW y \in Word
  PROVE  /\ y + Delta(x, y) - x \in {0, 65535, -65535}
         /\ -50000 <= Delta(x, y) /\ Delta(x, y) <= 50000
<1>1. x \in Nat /\ x < 65536 /\ y \in Nat /\ y < 65536
  BY SMTT(60) DEF Word, WordSize
<1> DEFINE d == x - y
<1>2. CASE d < -50000
  <2>1. Delta(x, y) = x - y + 65535
    BY <1>2 DEF Delta
  <2> QED
    BY <1>1, <1>2, <2>1
<1>3. CASE d > 50000
  <2>1. ~(d < -50000)
    BY <1>1, <1>3
  <2>2. Delta(x, y) = x - y - 65535
    BY <1>3, <2>1 DEF Delta
  <2> QED
    BY <1>1, <1>3, <2>2
<1>4. CASE ~(d < -50000) /\ ~(d > 50000)
  <2>1. Delta(x, y) = x - y
    BY <1>4 DEF Delta
  <2> QED
    BY <1>1, <1>4, <2>1
<1> QED
  BY <1>2, <1>3, <1>4, SMTT(60)

(* The registers are those of the last message that had any. *)
LastInv ==
  \A v \in last :
    /\ last = {v} /\ v.header \in Groups /\ ~Coil(v.header)
    /\ v.values \in Answers(v.header)
    /\ registers = At(v.header, v.values)

(* Deltas of a group that follows itself come from Delta. *)
DeltaInv ==
  \A h \in group : before # <<>> =>
    /\ h \in Groups /\ ~Coil(h)
    /\ before \in Answers(h) /\ answer \in Answers(h)
    /\ registers = At(h, answer)
    /\ deltas = [a \in DOMAIN registers |-> Delta(registers[a], At(h, before)[a])]

LEMMA AnswersOfRegisters ==
  ASSUME NEW h \in Groups, ~Coil(h), NEW values \in Answers(h)
  PROVE  LET n == h.NumberOfCoilsOrRegisters
         IN  /\ n \in Nat \ {0} /\ h.Address \in Nat
             /\ values \in [1 .. n -> Word] /\ Len(values) = n
             /\ DOMAIN At(h, values) = h.Address .. h.Address + n - 1
             /\ At(h, values) # <<>>
             /\ \A i \in 1 .. n : /\ h.Address + i - 1 \in DOMAIN At(h, values)
                                  /\ At(h, values)[h.Address + i - 1] = values[i]
<1> DEFINE n == h.NumberOfCoilsOrRegisters
           x == h.Address
           t == At(h, values)
<1>1. x \in Nat /\ n \in Nat
  BY GroupsAreHeaders
<1>2. n \in 1 .. MaximumNumber(h)
  BY MapperAssumption, Zenon
<1>3. n # 0
  BY <1>2 DEF MaximumNumber
<1>4. values \in [1 .. n -> Word] /\ Len(values) = n
  BY <1>1, MapperAssumption DEF Answers
<1>5. t = [a \in x .. x + n - 1 |-> values[a - x + 1]]
  BY <1>4 DEF At
<1> HIDE DEF n, x, t
<1>6. DOMAIN t = x .. x + n - 1
  BY <1>5
<1>7. ASSUME NEW i \in 1 .. n PROVE x + i - 1 \in x .. x + n - 1 /\ (x + i - 1) - x + 1 = i
  BY <1>1
<1>8. \A i \in 1 .. n : x + i - 1 \in DOMAIN t /\ t[x + i - 1] = values[i]
  BY <1>5, <1>6, <1>7
<1>9. t # <<>>
  <2>1. 1 \in 1 .. n
    BY <1>1, <1>3
  <2>2. DOMAIN t # {}
    BY <1>8, <2>1
  <2>3. DOMAIN <<>> = {}
    OBVIOUS
  <2> QED
    BY <2>2, <2>3
<1> QED
  BY <1>1, <1>3, <1>4, <1>6, <1>8, <1>9 DEF n, x, t

LEMMA HandleLast ==
  ASSUME LastInv, NEW h \in Groups, NEW values \in Answers(h), Handle(h, values)
  PROVE  LastInv' /\ DeltaInv'
<1>1. group' = {h} /\ answer' = values
  BY DEF Handle
<1>2. CASE Coil(h)
  <2>1. ~DoMapRegisters(Read(h, values))
    BY <1>2, ReadRoundTrip DEF DoMapRegisters, Coil, READ_COILS,
         READ_DISCRETE_INPUTS, READ_HOLDING_REGISTERS, READ_INPUT_REGISTERS
  <2>2. registers' = registers /\ last' = last
    BY <1>2, <2>1 DEF Handle, DoMapCoils
  <2>3. before' = <<>>
    BY <1>2 DEF Handle
  <2>4. LastInv'
    BY <2>2 DEF LastInv
  <2>5. DeltaInv'
    BY <2>3 DEF DeltaInv
  <2> QED
    BY <2>4, <2>5
<1>3. CASE ~Coil(h)
  <2> DEFINE data == At(h, values)
  <2>1. ~DoMapCoils(Read(h, values))
    BY <1>3, ReadRoundTrip DEF DoMapCoils
  <2>2. /\ registers' = data
        /\ deltas' = [a \in DOMAIN data |->
                        IF registers = <<>> THEN data[a]
                        ELSE Delta(data[a], Lookup(registers, a))]
    BY <1>3, <2>1, ReadRoundTrip DEF Handle, DoMapRegisters
  <2>3. last' = {[header |-> h, values |-> values]}
    BY <1>3 DEF Handle
  <2>4. LastInv'
    BY <1>3, <2>2, <2>3 DEF LastInv
  <2>5. ASSUME before' # <<>> PROVE DeltaInv'
    <3>1. PICK v \in last : v.header = h /\ before' \in {u.values : u \in last}
      BY <2>5 DEF Handle
    <3>2. last = {v}
      BY <3>1 DEF LastInv
    <3>3. before' = v.values
      BY <3>1, <3>2
    <3>4. before' \in Answers(h) /\ registers = At(h, before')
      BY <3>1, <3>3 DEF LastInv
    <3>5. registers # <<>> /\ DOMAIN data = DOMAIN registers
      BY <1>3, <3>4, AnswersOfRegisters
    <3>6. deltas' = [a \in DOMAIN data |-> Delta(data[a], registers[a])]
      BY <2>2, <3>5 DEF Lookup
    <3> QED
      BY <1>1, <1>3, <2>2, <3>4, <3>6 DEF DeltaInv
  <2>6. ASSUME before' = <<>> PROVE DeltaInv'
    BY <2>6 DEF DeltaInv
  <2> QED
    BY <2>4, <2>5, <2>6
<1> QED
  BY <1>2, <1>3

(* When a group follows itself the delta of a register is its change, give *)
(* or take one turn of the counter, and small (DoMap).                     *)
THEOREM DeltasFollow == Spec => []DeltaFollows
<1>1. Init => LastInv /\ DeltaInv
  BY DEF Init, LastInv, DeltaInv
<1>2. (LastInv /\ DeltaInv) /\ [Next]_vars => (LastInv /\ DeltaInv)'
  <2> SUFFICES ASSUME LastInv, DeltaInv, [Next]_vars PROVE LastInv' /\ DeltaInv'
    OBVIOUS
  <2>1. ASSUME NEW raw \in Short, DoMapShort(raw) PROVE LastInv' /\ DeltaInv'
    BY <2>1 DEF DoMapShort, env, LastInv, DeltaInv
  <2>2. ASSUME NEW h \in Groups, NEW values \in Answers(h), Handle(h, values)
        PROVE  LastInv' /\ DeltaInv'
    BY <2>2, HandleLast
  <2>3. ASSUME UNCHANGED vars PROVE LastInv' /\ DeltaInv'
    BY <2>3 DEF vars, env, history, LastInv, DeltaInv
  <2> QED
    BY <2>1, <2>2, <2>3 DEF Next
<1>3. DeltaInv => DeltaFollows
  <2> SUFFICES ASSUME DeltaInv, NEW h \in group, NEW i \in 1 .. Len(before)
               PROVE  LET a == h.Address + i - 1
                      IN  /\ before[i] + deltas[a] - registers[a] \in {0, 65535, -65535}
                          /\ -50000 <= deltas[a] /\ deltas[a] <= 50000
    BY DEF DeltaFollows
  <2> DEFINE a == h.Address + i - 1
             n == h.NumberOfCoilsOrRegisters
  <2>1. before # <<>>
    OBVIOUS
  <2>2. /\ h \in Groups /\ ~Coil(h) /\ before \in Answers(h) /\ answer \in Answers(h)
        /\ registers = At(h, answer)
        /\ deltas = [b \in DOMAIN registers |-> Delta(registers[b], At(h, before)[b])]
    BY <2>1 DEF DeltaInv
  <2>3. Len(before) = n /\ before[i] \in Word /\ At(h, before)[a] = before[i]
    BY <2>2, AnswersOfRegisters
  <2>4. a \in DOMAIN registers /\ registers[a] = answer[i] /\ answer[i] \in Word
    BY <2>2, <2>3, AnswersOfRegisters
  <2>5. deltas[a] = Delta(registers[a], before[i])
    BY <2>2, <2>3, <2>4
  <2> HIDE DEF a
  <2>6. /\ before[i] + deltas[a] - registers[a] \in {0, 65535, -65535}
        /\ -50000 <= deltas[a] /\ deltas[a] <= 50000
    BY <2>3, <2>4, <2>5, DeltaIsSmall
  <2> QED
    BY <2>6 DEF a
<1> QED
  BY <1>1, <1>2, <1>3, PTL DEF Spec

=============================================================================
