---------------------------- MODULE ModbusMapper ----------------------------
(***************************************************************************)
(* The modbus encoding of raw values and the mapper that decodes them.     *)
(*                                                                         *)
(* The connector puts a header of seven bytes in front of the coils or     *)
(* registers it has read.  ModbusMapper takes the value apart, keeps the   *)
(* registers and their changes in the environment of its expressions, and  *)
(* evaluates every mapping whose registers are in the message.  An         *)
(* expression is taken to succeed; its output is left out, the mappings    *)
(* whose output is in the update are kept.  The timestamps of the          *)
(* registers have the domain of the registers and are used like them, and  *)
(* are left out too.                                                       *)
(***************************************************************************)
EXTENDS Integers, Sequences, FiniteSets

CONSTANTS
  Groups,     \* headers of the register groups of the connector
  Values,     \* values a register of the device may have
  Short,      \* raw values without coils or registers
  Mappings    \* modbusMappingsConfig: a header and a path each

Byte == 0 .. 255
WordSize == 65536
Word == 0 .. WordSize - 1
Coils == {"on", "off"}
Headers == [Slave : Byte, FunctionCode : Word, Address : Word,
            NumberOfCoilsOrRegisters : Word]
MODBUS_HEADER_LENGTH == 7
READ_COILS == 1
READ_DISCRETE_INPUTS == 2
READ_HOLDING_REGISTERS == 3
READ_INPUT_REGISTERS == 4
Coil(h) == h.FunctionCode \in {READ_COILS, READ_DISCRETE_INPUTS}

(* NewModbusConnector refuses larger groups. *)
MaximumNumber(h) == IF Coil(h) THEN 2000 ELSE 125

(* The address behind a register group or a mapping. *)
End(x) == x.Address + x.NumberOfCoilsOrRegisters

(* There are registers up to the last address, and none behind it: the     *)
(* modbus library refuses to read them.                                    *)

ASSUME MapperAssumption ==
  /\ \A h \in Groups :
       /\ h \in Headers
       /\ h.FunctionCode \in READ_COILS .. READ_INPUT_REGISTERS
       /\ h.NumberOfCoilsOrRegisters \in 1 .. MaximumNumber(h)
       /\ End(h) <= WordSize
  /\ Values \subseteq Word
  /\ \A b \in Short : b \in Seq(Byte) /\ Len(b) <= MODBUS_HEADER_LENGTH
  /\ \A i \in 1 .. Len(Mappings) :
       /\ Mappings[i].Address \in Word
       /\ Mappings[i].NumberOfCoilsOrRegisters \in Word \ {0}
       /\ End(Mappings[i]) <= WordSize

-----------------------------------------------------------------------------
(* protocol: the encoding. *)

PutUint16(v) == <<v \div 256, v % 256>>

(* binary.BigEndian.Uint16 *)
Uint16(hi, lo) == hi * 256 + lo

RegistersToBytes(values) ==
  [i \in 1 .. 2 * Len(values) |->
     IF i % 2 = 1 THEN PutUint16(values[(i + 1) \div 2])[1]
                  ELSE PutUint16(values[i \div 2])[2]]

(* Mutant: little endian. *)
BytesToRegisters_LittleEndian(bytes) ==
  [i \in 1 .. Len(bytes) \div 2 |-> Uint16(bytes[2 * i], bytes[2 * i - 1])]

(* For an even number of bytes. *)
BytesToRegisters(bytes) ==
  [i \in 1 .. Len(bytes) \div 2 |-> Uint16(bytes[2 * i - 1], bytes[2 * i])]

(* A coil is "on" or "off"; 0xff00 is on. *)
CoilsToBytes(values) ==
  [i \in 1 .. 2 * Len(values) |->
     IF i % 2 = 1 /\ values[(i + 1) \div 2] = "on" THEN 255 ELSE 0]

RegistersToCoils(registers) ==
  [i \in 1 .. Len(registers) |-> IF registers[i] = 65280 THEN "on" ELSE "off"]

InjectModbusHeader(h, bytes) ==
  <<h.Slave>> \o PutUint16(h.FunctionCode) \o PutUint16(h.Address)
    \o PutUint16(h.NumberOfCoilsOrRegisters) \o bytes

ExtractModbusHeader(bytes) ==
  [Slave |-> bytes[1],
   FunctionCode |-> Uint16(bytes[2], bytes[3]),
   Address |-> Uint16(bytes[4], bytes[5]),
   NumberOfCoilsOrRegisters |-> Uint16(bytes[6], bytes[7])]

Payload(bytes) == SubSeq(bytes, MODBUS_HEADER_LENGTH + 1, Len(bytes))

(* What Read makes of an answer of the device. *)
Read(h, values) ==
  InjectModbusHeader(h, IF Coil(h) THEN CoilsToBytes(values)
                                   ELSE RegistersToBytes(values))

-----------------------------------------------------------------------------
(* The mapper. *)

VARIABLES
  registers,   \* env["registers"], <<>> before the first registers
  coils,       \* env["coils"]
  deltas,      \* env["deltas"]
  evaluated,   \* mappings whose output is in the last update
  group,       \* history: header of the last message, {} if it was too short
  answer,      \* history: what the device had answered
  last,        \* history: the last message with registers, {} before it
  before       \* history: the answer before the last one, if that had the
               \* registers of the same group

env == <<registers, coils, deltas>>
history == <<group, answer, last, before>>
vars == <<env, evaluated, history>>

At(h, values) ==
  [a \in h.Address .. h.Address + Len(values) - 1 |-> values[a - h.Address + 1]]

(* Mutant: a counter that wraps is not corrected. *)
Delta_NoWrap(register, previous) == register - previous

(* delta < -50000: overflow; delta > 50000: underflow. *)
Delta(register, previous) ==
  LET delta == register - previous
  IN  IF delta < -50000 THEN delta + 65535
      ELSE IF delta > 50000 THEN delta - 65535
      ELSE delta

(* A Go map gives 0 for a missing key. *)
Lookup(map, a) == IF a \in DOMAIN map THEN map[a] ELSE 0

(* Mutant: the end of the mapping may lie one behind the message. *)
InMessage_OneMore(m, h) ==
  /\ m.Slave = h.Slave /\ m.FunctionCode = h.FunctionCode
  /\ ~(m.Address < h.Address)
  /\ ~(End(m) % WordSize > (End(h) + 1) % WordSize)

(* The additions are of uint16: behind the last address comes zero. *)
InMessage(m, h) ==
  /\ m.Slave = h.Slave /\ m.FunctionCode = h.FunctionCode
  /\ ~(m.Address < h.Address)
  /\ ~(End(m) % WordSize > End(h) % WordSize)

(* "don't insert a path twice": GetValueByPath returns the address of a    *)
(* copy, so the output of the first mapping of a path stays in the update  *)
(* and those of later ones are lost.                                       *)
Evaluate(h) ==
  {i \in 1 .. Len(Mappings) :
     /\ InMessage(Mappings[i], h)
     /\ \A j \in 1 .. i - 1 :
          InMessage(Mappings[j], h) => Mappings[j].path # Mappings[i].path}

Init ==
  /\ registers = <<>> /\ coils = <<>> /\ deltas = <<>>
  /\ evaluated = {}
  /\ group = {} /\ answer = <<>>
  /\ last = {} /\ before = <<>>

(* "no useful data" *)
DoMapShort(raw) ==
  /\ Len(raw) <= MODBUS_HEADER_LENGTH
  /\ evaluated' = {}
  /\ group' = {} /\ answer' = <<>> /\ before' = <<>>
  /\ UNCHANGED <<env, last>>

DoMapCoils(raw) ==
  LET h == ExtractModbusHeader(raw)
  IN  /\ Len(raw) > MODBUS_HEADER_LENGTH
      /\ Coil(h)
      /\ coils' = At(h, RegistersToCoils(BytesToRegisters(Payload(raw))))
      /\ evaluated' = Evaluate(h)
      /\ UNCHANGED <<registers, deltas>>

DoMapRegisters(raw) ==
  LET h == ExtractModbusHeader(raw)
      data == At(h, BytesToRegisters(Payload(raw)))
  IN  /\ Len(raw) > MODBUS_HEADER_LENGTH
      /\ h.FunctionCode \in {READ_HOLDING_REGISTERS, READ_INPUT_REGISTERS}
      /\ deltas' = [a \in DOMAIN data |->
                      IF registers = <<>> THEN data[a]
                      ELSE Delta(data[a], Lookup(registers, a))]
      /\ registers' = data
      /\ evaluated' = Evaluate(h)
      /\ UNCHANGED coils

(* The device answers a read of group h, the connector publishes it and    *)
(* the mapper handles it.                                                  *)
Handle(h, values) ==
  /\ DoMapCoils(Read(h, values)) \/ DoMapRegisters(Read(h, values))
  /\ group' = {h} /\ answer' = values
  /\ before' \in IF \E v \in last : v.header = h /\ ~Coil(h)
                 THEN {v.values : v \in last} ELSE {<<>>}
  /\ last' = IF Coil(h) THEN last ELSE {[header |-> h, values |-> values]}

Answers(h) ==
  [1 .. h.NumberOfCoilsOrRegisters -> IF Coil(h) THEN Coils ELSE Values]

Next ==
  \/ \E raw \in Short : DoMapShort(raw)
  \/ \E h \in Groups : \E values \in Answers(h) : Handle(h, values)

Spec == Init /\ [][Next]_vars

-----------------------------------------------------------------------------
(* Properties. *)

(* What the mapper decodes is what the device answered: InjectModbusHeader *)
(* and the conversions of registers and coils, two bytes for a coil, are   *)
(* undone by DoMap.  mapper/modbus_test.go:90-140 feeds DoMap coils packed *)
(* into bits (0xc0, 0x00 for two that are on), as they are on the wire;    *)
(* DoMap reads such a value as one coil that is off.                       *)
Decoded ==
  \A h \in group :
    At(h, answer) = IF Coil(h) THEN coils ELSE registers

(* All registers of mapping m are in a message of group h. *)
Inside(m, h) ==
  /\ m.Slave = h.Slave /\ m.FunctionCode = h.FunctionCode
  /\ \A a \in m.Address .. End(m) - 1 : a \in h.Address .. End(h) - 1

(* A mapping is evaluated when all its registers are in the message, and   *)
(* of the mappings of one path the first one's output is in the update     *)
(* (mapper/modbus_test.go:109-140 expects the outputs of both).  The       *)
(* uint16 additions make two exceptions at the last address: a mapping     *)
(* that ends there is evaluated on messages without all of its registers,  *)
(* and a message that ends there has no other mappings.                    *)
EvaluatedInside ==
  \A h \in group : \A i \in 1 .. Len(Mappings) :
    /\ i \in evaluated => Inside(Mappings[i], h) \/ End(Mappings[i]) = WordSize
    /\ Inside(Mappings[i], h) /\ (End(h) = WordSize => End(Mappings[i]) = WordSize) =>
         \E j \in evaluated : j <= i /\ Mappings[j].path = Mappings[i].path
    /\ \A j \in evaluated :
         i \in evaluated /\ Mappings[j].path = Mappings[i].path => i = j

(* "first time, no previous data available yet" is not the only time a     *)
(* delta is not the change of its register: every message replaces the     *)
(* registers of all groups.  Where a group follows itself, whatever coils  *)
(* and short messages lie between, the delta is the change, give or take   *)
(* one turn of the counter, and small.                                     *)
DeltaFollows ==
  \A h \in group : \A i \in 1 .. Len(before) :
    LET a == h.Address + i - 1
    IN  /\ before[i] + deltas[a] - registers[a] \in {0, 65535, -65535}
        /\ -50000 <= deltas[a] /\ deltas[a] <= 50000

=============================================================================
