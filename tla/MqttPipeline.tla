---------------------------- MODULE MqttPipeline ----------------------------
(***************************************************************************)
(* The live path from a vessel to the server: MqttWriter, the broker and   *)
(* MqttReader.                                                             *)
(*                                                                         *)
(* The writer collects messages in one of two buffers.  When the buffer is *)
(* full or the interval has passed, at the next message, it switches to    *)
(* the other buffer, decodes the first one and hands the batch to a        *)
(* goroutine that publishes it with QoS 0, retained.  The reader handles   *)
(* every batch in a goroutine of its own (SetOrderMatters(false)) and      *)
(* publishes the messages of the batch one by one.                         *)
(***************************************************************************)
EXTENDS Naturals, Sequences, FiniteSets, SequencesExt

CONSTANTS
  Messages,       \* what the mapper publishes; each arrives once
  Undecodable,    \* the messages that Mapped.UnmarshalJSON rejects
  BufferSize,     \* MQTTConfig.BufferSize
  MaxReconnects   \* bound: reconnects of the reader

ASSUME PipelineAssumption ==
  /\ IsFiniteSet(Messages) /\ Undecodable \subseteq Messages
  /\ BufferSize \in Nat /\ MaxReconnects \in Nat

VARIABLES
  useA, bufferA, bufferB,  \* MqttWriter
  expired,      \* time.Since(lastFlush) > Interval
  arrived,      \* history: the messages in the order they arrived
  flushed,      \* history: the messages handed to sendMQTT, in order
  publishing,   \* batches in the goroutines of sendMQTT
  wire,         \* batches on their way to the reader
  retained,     \* retained message of the topic ({} if none)
  reading,      \* what the goroutines of messageReceived still have to send
  emitted,      \* per message: how often the reader has published it
  reconnects

writerVars == <<useA, bufferA, bufferB, expired, arrived, flushed>>
readerVars == <<reading, emitted, reconnects>>
vars == <<writerVars, publishing, wire, retained, readerVars>>

Init ==
  /\ useA = TRUE /\ bufferA = <<>> /\ bufferB = <<>>
  /\ expired = FALSE
  /\ arrived = <<>> /\ flushed = <<>>
  /\ publishing = {} /\ wire = {} /\ retained = {}
  /\ reading = {}
  /\ emitted = [m \in Messages |-> 0]
  /\ reconnects = 0

-----------------------------------------------------------------------------
(* MqttWriter. *)

IntervalPasses ==
  /\ ~expired
  /\ expired' = TRUE
  /\ UNCHANGED <<useA, bufferA, bufferB, arrived, flushed, publishing, wire,
                 retained, readerVars>>

(* Mutant: the buffer is not emptied. *)
FlushCache_Kept(a, b) ==
  LET buffer == IF useA THEN a ELSE b
  IN  /\ useA' = ~useA
      /\ expired' = FALSE
      /\ publishing' = publishing \cup {buffer}
      /\ flushed' = flushed \o buffer
      /\ bufferA' = a /\ bufferB' = b

(* Mutant: the buffer is emptied before it is decoded. *)
FlushCache_EmptiedFirst(a, b) ==
  LET buffer == IF useA THEN a ELSE b
      sent == IF ToSet(buffer) \cap Undecodable = {} THEN {buffer} ELSE {}
  IN  /\ useA' = ~useA
      /\ expired' = FALSE
      /\ publishing' = publishing \cup sent
      /\ flushed' = IF sent = {} THEN flushed ELSE flushed \o buffer
      /\ bufferA' = IF useA THEN <<>> ELSE a
      /\ bufferB' = IF useA THEN b ELSE <<>>

(* flushCache with a and b in the two buffers: switch, decode the buffer   *)
(* that was in use, send it and empty it.  A message that cannot be        *)
(* decoded ends the flush before the buffer is sent or emptied.            *)
FlushCache(a, b) ==
  LET buffer == IF useA THEN a ELSE b
  IN  /\ useA' = ~useA
      /\ expired' = FALSE
      /\ IF ToSet(buffer) \cap Undecodable = {}
         THEN /\ publishing' = publishing \cup {buffer}
              /\ flushed' = flushed \o buffer
              /\ bufferA' = IF useA THEN <<>> ELSE a
              /\ bufferB' = IF useA THEN b ELSE <<>>
         ELSE /\ bufferA' = a /\ bufferB' = b
              /\ UNCHANGED <<publishing, flushed>>

(* Mutant: the buffer is flushed one message too late. *)
AppendToCache_Later(m) ==
  /\ m \notin ToSet(arrived)
  /\ arrived' = Append(arrived, m)
  /\ LET a == IF useA THEN Append(bufferA, m) ELSE bufferA
         b == IF useA THEN bufferB ELSE Append(bufferB, m)
     IN  \/ /\ expired \/ Len(IF useA THEN a ELSE b) > BufferSize + 1
            /\ FlushCache(a, b)
         \/ /\ ~expired /\ Len(IF useA THEN a ELSE b) <= BufferSize + 1
            /\ bufferA' = a /\ bufferB' = b
            /\ UNCHANGED <<useA, expired, publishing, flushed>>
  /\ UNCHANGED <<wire, retained, readerVars>>

AppendToCache(m) ==
  /\ m \notin ToSet(arrived)
  /\ arrived' = Append(arrived, m)
  /\ LET a == IF useA THEN Append(bufferA, m) ELSE bufferA
         b == IF useA THEN bufferB ELSE Append(bufferB, m)
     IN  \/ /\ expired \/ Len(IF useA THEN a ELSE b) > BufferSize
            /\ FlushCache(a, b)
         \/ /\ ~expired /\ Len(IF useA THEN a ELSE b) <= BufferSize
            /\ bufferA' = a /\ bufferB' = b
            /\ UNCHANGED <<useA, expired, publishing, flushed>>
  /\ UNCHANGED <<wire, retained, readerVars>>

(* The goroutine of sendMQTT compresses and publishes. *)
Publish(batch) ==
  /\ batch \in publishing
  /\ publishing' = publishing \ {batch}
  /\ wire' = wire \cup {batch}
  /\ retained' = {batch}
  /\ UNCHANGED <<writerVars, readerVars>>

-----------------------------------------------------------------------------
(* The broker and MqttReader. *)

LoseBatch(batch) ==
  /\ batch \in wire
  /\ wire' = wire \ {batch}
  /\ UNCHANGED <<writerVars, publishing, retained, readerVars>>

(* Mutant: a second handler on the topic takes the batch as well. *)
MessageReceived_Twice(batch) ==
  /\ batch \in wire
  /\ reading' = reading \cup {<<reconnects, batch>>}
  /\ UNCHANGED <<writerVars, publishing, wire, retained, emitted, reconnects>>

(* onConnectHandler subscribes again and gets the retained batch. *)
Reconnect ==
  /\ reconnects < MaxReconnects
  /\ reconnects' = reconnects + 1
  /\ wire' = wire \cup retained
  /\ UNCHANGED <<writerVars, publishing, retained, reading, emitted>>

MessageReceived(batch) ==
  /\ batch \in wire
  /\ wire' = wire \ {batch}
  /\ reading' = reading \cup {<<reconnects, batch>>}
  /\ UNCHANGED <<writerVars, publishing, retained, emitted, reconnects>>

(* Mutant: the loop runs once more than there are deltas. *)
Emit_OneMore(g) ==
  /\ g \in reading
  /\ emitted' = [emitted EXCEPT ![Head(g[2])] = @ + 1]
  /\ reading' = (reading \ {g}) \cup {<<g[1], Tail(g[2])>>}
  /\ UNCHANGED <<writerVars, publishing, wire, retained, reconnects>>

(* One turn of the loop over the deltas of a batch. *)
Emit(g) ==
  /\ g \in reading
  /\ emitted' = [emitted EXCEPT ![Head(g[2])] = @ + 1]
  /\ reading' = (reading \ {g}) \cup
       (IF Len(g[2]) = 1 THEN {} ELSE {<<g[1], Tail(g[2])>>})
  /\ UNCHANGED <<writerVars, publishing, wire, retained, reconnects>>

Next ==
  \/ IntervalPasses \/ Reconnect
  \/ \E m \in Messages : AppendToCache(m)
  \/ \E b \in publishing : Publish(b)
  \/ \E b \in wire : LoseBatch(b) \/ MessageReceived(b)
  \/ \E g \in reading : Emit(g)

Spec == Init /\ [][Next]_vars

-----------------------------------------------------------------------------
(* Properties. *)

(* Types.  No batch is empty. *)
TypeOK ==
  /\ useA \in BOOLEAN /\ expired \in BOOLEAN
  /\ bufferA \in Seq(Messages) /\ bufferB \in Seq(Messages)
  /\ arrived \in Seq(Messages) /\ flushed \in Seq(Messages)
  /\ publishing \cup wire \cup retained \subseteq Seq(Messages) \ {<<>>}
  /\ reading \subseteq (0 .. MaxReconnects) \X (Seq(Messages) \ {<<>>})
  /\ emitted \in [Messages -> Nat]
  /\ reconnects \in 0 .. MaxReconnects

(* x comes before y in this order. *)
Before(order, x, y) ==
  \E k, l \in DOMAIN order : k < l /\ order[k] = x /\ order[l] = y

(* Switching buffers neither loses, duplicates nor reorders a message:     *)
(* until one arrives that cannot be decoded, what was flushed followed by  *)
(* the buffer in use is what arrived; later ones are still flushed in the  *)
(* order in which they arrived.                                            *)
FlushOrder ==
  /\ ToSet(arrived) \cap Undecodable = {}
       => arrived = flushed \o (IF useA THEN bufferA ELSE bufferB)
  /\ \A i, j \in DOMAIN flushed : i < j => Before(arrived, flushed[i], flushed[j])

(* With messages that cannot be decoded, the writer still keeps every      *)
(* message exactly once: flushed, or in one of the two buffers.            *)
Conserved ==
  /\ ToSet(arrived) = ToSet(flushed) \cup ToSet(bufferA) \cup ToSet(bufferB)
  /\ Len(arrived) = Len(flushed) + Len(bufferA) + Len(bufferB)

(* Only a reconnect makes the reader publish a message again.              *)
DuplicatesBounded == \A m \in Messages : emitted[m] <= 1 + reconnects

(* Between two messages a buffer exceeds buffer_size only if it holds a    *)
(* message that cannot be decoded; then it is kept at every flush and      *)
(* grows.  The size is a number of messages, and a buffer may reach it:    *)
(* config/main.go:240 says that it is in MBs and that the cache is flushed *)
(* when it is reached; appendToCache counts messages and flushes when the  *)
(* number is exceeded.                                                     *)
CacheBound ==
  \A buffer \in {bufferA, bufferB} :
    Len(buffer) > BufferSize => ToSet(buffer) \cap Undecodable # {}

=============================================================================
