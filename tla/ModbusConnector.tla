-------------------------- MODULE ModbusConnector --------------------------
(***************************************************************************)
(* ModbusConnector: pollers, commands and the publishing of what is read.  *)
(*                                                                         *)
(* Publish calls receive for ever.  A call of receive starts one goroutine *)
(* per register group, which polls the group through the one connection of *)
(* the connector (realClient), and returns when a first poller reports an  *)
(* error; the other pollers of the call go on.  Subscribe writes commands  *)
(* through the same connection.  The lock of a ModbusClient is its own, so *)
(* the goroutines exclude each other only inside a single call of the      *)
(* library: SetUnitId and the request after it are two steps.              *)
(*                                                                         *)
(* A poller has one buffer.  It fills the buffer, puts a slice of it on a  *)
(* channel with room for one and goes on with the same buffer; process     *)
(* takes the slice from the channel and encodes what the buffer holds      *)
(* then.  A value is the number of the reading it comes from; a buffer has *)
(* two halves, filled one after the other.                                 *)
(*                                                                         *)
(* receive does not return on <-done while there is a register group:      *)
(* Poll ends only with an error, which is received before wg.Done().       *)
(***************************************************************************)
EXTENDS Naturals, Sequences

CONSTANTS
  Groups,         \* register groups
  Slaves,         \* unit ids
  Slave,          \* slave of each register group
  Commands,       \* values received by Subscribe, with a header
  CommandSlave,   \* slave in the header of each command
  Bare,           \* commands to write a single coil that are a header only
  MaxReceives,    \* bound: calls of receive
  MaxReadings,    \* bound: readings of each poller
  Nobody          \* no slave, no command

ASSUME ConnectorAssumption ==
  /\ Slave \in [Groups -> Slaves] /\ CommandSlave \in [Commands -> Slaves]
  /\ Bare \subseteq Commands
  /\ MaxReceives \in Nat \ {0}
  /\ Nobody \notin Slaves /\ Nobody \notin Commands

Receives == 1 .. MaxReceives
Pollers == Groups \X Receives      \* the goroutine of a group in a call

ASSUME ReadingsAssumption == MaxReadings \in [Pollers -> Nat]

VARIABLES
  receives,    \* calls of receive so far; the last one is running
  errors,      \* per call: state of its errors channel
  poller,      \* per poller
  unit,        \* unit id of realClient
  from,        \* per poller: the slave whose answer it is handling
  meanwhile,   \* history, per poller: unit ids that others set between
               \* SetUnitId and the request for that answer
  reading,     \* per poller: number of its last reading
  buffer,      \* per poller: the readings the two halves come from
  stream,      \* channel of Publish: [poller, sent]
  encoding,    \* what process has taken from it, at most one
  published,   \* per poller: the two halves and the reading sent, or {}
  command,     \* the command Subscribe is writing
  waiting,     \* commands not received yet
  panicked     \* a goroutine panicked: the program is down

pollVars == <<receives, errors, poller, reading, buffer>>
streamVars == <<stream, encoding, published>>
commandVars == <<command, waiting>>
unitVars == <<unit, from, meanwhile>>
vars == <<pollVars, unitVars, streamVars, commandVars, panicked>>

Init ==
  /\ receives = 1
  /\ errors = [n \in Receives |-> "open"]
  /\ poller = [p \in Pollers |-> IF p[2] = 1 THEN "tick" ELSE "none"]
  /\ unit = Nobody
  /\ from = [p \in Pollers |-> Nobody]
  /\ meanwhile = [p \in Pollers |-> {}]
  /\ reading = [p \in Pollers |-> 0]
  /\ buffer = [p \in Pollers |-> <<0, 0>>]
  /\ stream = <<>> /\ encoding = {}
  /\ published = [p \in Pollers |-> {}]
  /\ command = Nobody /\ waiting = Commands
  /\ panicked = FALSE

-----------------------------------------------------------------------------
(* Poll and Read. *)

(* Unit id s is set, seen by the pollers between SetUnitId and request. *)
Selected(s) ==
  [p \in Pollers |-> meanwhile[p] \cup {t \in {s} : poller[p] = "request"}]

(* Mutant: the unit id is set before the first read only. *)
SetUnit_Once(p) ==
  /\ ~panicked /\ poller[p] = "tick" /\ reading[p] < MaxReadings[p]
  /\ unit' = IF reading[p] = 0 THEN Slave[p[1]] ELSE unit
  /\ meanwhile' = [Selected(unit') EXCEPT ![p] = {}]
  /\ poller' = [poller EXCEPT ![p] = "request"]
  /\ UNCHANGED <<receives, errors, reading, buffer, from, streamVars,
                 commandVars, panicked>>

(* The ticker fires: SetUnitId. *)
SetUnit(p) ==
  /\ ~panicked /\ poller[p] = "tick" /\ reading[p] < MaxReadings[p]
  /\ unit' = Slave[p[1]]
  /\ meanwhile' = [Selected(Slave[p[1]]) EXCEPT ![p] = {}]
  /\ poller' = [poller EXCEPT ![p] = "request"]
  /\ UNCHANGED <<receives, errors, reading, buffer, from, streamVars,
                 commandVars, panicked>>

(* The request goes to the unit id the client has now. *)
Request(p) ==
  /\ ~panicked /\ poller[p] = "request"
  /\ from' = [from EXCEPT ![p] = unit]
  /\ reading' = [reading EXCEPT ![p] = @ + 1]
  /\ poller' = [poller EXCEPT ![p] = "fill"]
  /\ UNCHANGED <<receives, errors, buffer, unit, meanwhile, streamVars,
                 commandVars, panicked>>

(* Mutant: the slice is sent before all of it is filled. *)
Fill_SentEarly(p) ==
  /\ ~panicked /\ poller[p] = "fill"
  /\ buffer' = [buffer EXCEPT ![p] = <<reading[p], @[2]>>]
  /\ poller' = [poller EXCEPT ![p] = "send"]
  /\ UNCHANGED <<receives, errors, reading, unitVars, streamVars,
                 commandVars, panicked>>

(* append(bytes[:0], ...) fills the buffer that was sent before. *)
Fill(p) ==
  /\ ~panicked /\ poller[p] = "fill"
  /\ IF buffer[p][1] # reading[p]
     THEN /\ buffer' = [buffer EXCEPT ![p] = <<reading[p], @[2]>>]
          /\ UNCHANGED poller
     ELSE /\ buffer' = [buffer EXCEPT ![p] = <<@[1], reading[p]>>]
          /\ poller' = [poller EXCEPT ![p] = "send"]
  /\ UNCHANGED <<receives, errors, reading, unitVars, streamVars,
                 commandVars, panicked>>

(* stream <- bytes[:n] *)
Send(p) ==
  /\ ~panicked /\ poller[p] = "send" /\ Len(stream) < 1
  /\ stream' = Append(stream, [poller |-> p, sent |-> reading[p]])
  /\ poller' = [poller EXCEPT ![p] = "tick"]
  /\ from' = [from EXCEPT ![p] = Nobody] /\ meanwhile' = [meanwhile EXCEPT ![p] = {}]
  /\ UNCHANGED <<receives, errors, reading, buffer, unit, encoding, published,
                 commandVars, panicked>>

(* The request fails and Poll returns its error. *)
ReadFails(p) ==
  /\ ~panicked /\ poller[p] = "request"
  /\ poller' = [poller EXCEPT ![p] = "error"]
  /\ meanwhile' = [meanwhile EXCEPT ![p] = {}]
  /\ UNCHANGED <<receives, errors, reading, buffer, unit, from, streamVars,
                 commandVars, panicked>>

-----------------------------------------------------------------------------
(* receive. *)

(* Mutant: a poller goes on after it has reported an error. *)
ReceiveError_PollerGoesOn(p) ==
  /\ ~panicked /\ poller[p] = "error" /\ p[2] = receives
  /\ errors[p[2]] = "open" /\ receives < MaxReceives
  /\ errors' = [errors EXCEPT ![p[2]] = "closed"]
  /\ receives' = receives + 1
  /\ poller' = [q \in Pollers |-> IF q = p THEN "tick"
                  ELSE IF q[2] = receives + 1 THEN "tick" ELSE poller[q]]
  /\ UNCHANGED <<reading, buffer, unitVars, streamVars, commandVars, panicked>>

(* case err := <-errors: the channel is closed, receive returns and        *)
(* Publish calls it again, which starts a poller for every group.          *)
ReceiveError(p) ==
  /\ ~panicked /\ poller[p] = "error" /\ p[2] = receives
  /\ errors[p[2]] = "open" /\ receives < MaxReceives
  /\ errors' = [errors EXCEPT ![p[2]] = "closed"]
  /\ receives' = receives + 1
  /\ poller' = [q \in Pollers |-> IF q = p THEN "ended"
                  ELSE IF q[2] = receives + 1 THEN "tick" ELSE poller[q]]
  /\ UNCHANGED <<reading, buffer, unitVars, streamVars, commandVars, panicked>>

(* Mutant: receive closes the channel before it takes the error. *)
Panic_FirstError(p) ==
  /\ ~panicked /\ poller[p] = "error"
  /\ panicked' = TRUE
  /\ UNCHANGED <<pollVars, unitVars, streamVars, commandVars>>

(* errors <- err on a closed channel, also one that was already waiting. *)
Panic(p) ==
  /\ ~panicked /\ poller[p] = "error" /\ errors[p[2]] = "closed"
  /\ panicked' = TRUE
  /\ UNCHANGED <<pollVars, unitVars, streamVars, commandVars>>

-----------------------------------------------------------------------------
(* process. *)

Take ==
  /\ ~panicked /\ stream # <<>> /\ encoding = {}
  /\ encoding' = {Head(stream)}
  /\ stream' = Tail(stream)
  /\ UNCHANGED <<pollVars, unitVars, published, commandVars, panicked>>

(* json.Marshal reads the buffer the slice points to. *)
Encode(v) ==
  /\ ~panicked /\ v \in encoding
  /\ published' = [published EXCEPT ![v.poller] =
       {[value |-> buffer[v.poller], sent |-> v.sent]}]
  /\ encoding' = {}
  /\ UNCHANGED <<pollVars, unitVars, stream, commandVars, panicked>>

-----------------------------------------------------------------------------
(* Subscribe and Write. *)

Receive(c) ==
  /\ ~panicked /\ command = Nobody /\ c \in waiting
  /\ waiting' = waiting \ {c}
  /\ command' = c
  /\ unit' = CommandSlave[c]
  /\ meanwhile' = Selected(CommandSlave[c])
  /\ UNCHANGED <<pollVars, from, streamVars, panicked>>

(* The request, unless Write finds only now that the function code or the *)
(* length is wrong; whatever it writes goes to the unit id of that moment. *)
Write ==
  /\ ~panicked /\ command # Nobody /\ command \notin Bare
  /\ command' = Nobody
  /\ UNCHANGED <<pollVars, unitVars, streamVars, waiting, panicked>>

(* coils[0]: no bytes are an even number of bytes, and no coils. *)
WriteNoCoil ==
  /\ ~panicked /\ command \in Bare
  /\ panicked' = TRUE
  /\ UNCHANGED <<pollVars, unitVars, streamVars, commandVars>>

-----------------------------------------------------------------------------
Next ==
  \/ \E p \in Pollers :
       \/ SetUnit(p) \/ Request(p) \/ Fill(p) \/ Send(p) \/ ReadFails(p)
       \/ ReceiveError(p) \/ Panic(p)
  \/ Take \/ \E v \in encoding : Encode(v)
  \/ \E c \in Commands : Receive(c)
  \/ Write \/ WriteNoCoil

Spec == Init /\ [][Next]_vars

-----------------------------------------------------------------------------
(* Properties. *)

Values == [poller : Pollers, sent : Nat]

(* Types, with the room in the channel of Publish. *)
TypeOK ==
  /\ receives \in Receives
  /\ errors \in [Receives -> {"open", "closed"}]
  /\ poller \in [Pollers -> {"none", "tick", "request", "fill", "send",
                             "error", "ended"}]
  /\ unit \in Slaves \cup {Nobody}
  /\ from \in [Pollers -> Slaves \cup {Nobody}]
  /\ meanwhile \in [Pollers -> SUBSET Slaves]
  /\ reading \in [Pollers -> Nat]
  /\ buffer \in [Pollers -> Nat \X Nat]
  /\ stream \in Seq(Values) /\ Len(stream) <= 1
  /\ encoding \subseteq Values
  /\ published \in [Pollers -> SUBSET [value : Nat \X Nat, sent : Nat]]
  /\ command \in Commands \cup {Nobody}
  /\ waiting \subseteq Commands
  /\ panicked \in BOOLEAN

Running(p) == poller[p] \in {"tick", "request", "fill", "send"}

(* "value, the actual value": what is published is not always what was     *)
(* sent, because the poller reuses the buffer it has sent; but it was read *)
(* no earlier than it was sent, and at most two readings later: one may    *)
(* wait in the channel while another one fills the buffer.                 *)
SkewBound ==
  \A p \in Pollers : \A v \in published[p] :
    \A h \in {1, 2} : v.sent <= v.value[h] /\ v.value[h] <= v.sent + 2

(* "start a go routine for each register group": every group has a poller  *)
(* of the last call of receive, or one whose error is about to start the   *)
(* next call.  A poller of an earlier call still runs only where that call *)
(* ended with the error of another group.                                  *)
GroupsArePolled ==
  /\ \A g \in Groups : \/ Running(<<g, receives>>)
                       \/ poller[<<g, receives>>] = "error"
  /\ \A p \in Pollers : (Running(p) /\ p[2] < receives) =>
       \E q \in Pollers : q[2] = p[2] /\ q # p /\ poller[q] = "ended"

(* "if an error occurs send it on the error channel": receive closes the   *)
(* channel, but a first error never meets a closed one.  Only a second     *)
(* group of the same call that fails takes the program down, or a command  *)
(* to write a single coil that names no value.                             *)
PanicCauses ==
  panicked => \/ command \in Bare
              \/ \E p, q \in Pollers :
                   p # q /\ p[2] = q[2] /\ poller[p] = "ended" /\ poller[q] = "error"

(* "The slave id" in the header of a value is the slave that answered,     *)
(* unless another poller or a command set the unit id of the connection    *)
(* between this poller's SetUnitId and its request: nothing older and      *)
(* nothing later can give a value a wrong slave.                           *)
SlaveAnswers ==
  \A p \in Pollers : poller[p] \in {"fill", "send"} =>
    from[p] = Slave[p[1]] \/ from[p] \in meanwhile[p]

=============================================================================
