--------------------------- MODULE MappedProcess ---------------------------
(***************************************************************************)
(* processMapped: the loop that the aggregate mapper, the expression       *)
(* filter and the rate limit filter share.  Each of them is a process that *)
(* receives a delta from a nanomsg socket, maps it value by value          *)
(* (ToSingleValueMapped) and publishes what is left of it.  Process 1 is   *)
(* the aggregate mapper, 2 the expression filter, 3 the rate limit filter, *)
(* and each one publishes to the next.                                     *)
(*                                                                         *)
(* A delta is the sequence of its values; updates only group values with   *)
(* one timestamp and source and are dissolved by ToSingleValueMapped.  The *)
(* origin, which is copied, and updates without values are left out.       *)
(***************************************************************************)
EXTENDS Naturals, Sequences, SequencesExt

CONSTANTS
  Contexts,    \* what values are about: the vessel, or one seen by AIS
  Paths,       \* SignalK paths
  Contents,    \* what mappers publish as a value
  MaxTime,     \* bound: timestamps
  MaxSent      \* bound: deltas in a socket

(* What an expression computes: a number like a measured one, one that     *)
(* json.Marshal rejects (an infinity, after a division by zero), or a      *)
(* boolean, which Value.UnmarshalJSON rejects.                             *)
Computed == {"number", "infinity", "true", "false"}

ASSUME MappedAssumption ==
  /\ MaxTime \in Nat /\ MaxSent \in Nat
  /\ Contents \cap {"infinity", "true", "false"} = {}

Samples == [context : Contexts, path : Paths, time : 0 .. MaxTime,
            content : Contents, from : {{}}]

(* from: the values an expression has read. *)
Values == [context : Contexts, path : Paths, time : 0 .. MaxTime,
           content : Contents \cup Computed, from : SUBSET Samples]

Processes == 1 .. 3

VARIABLES
  socket,   \* per process: deltas on their way to it
  busy,     \* per process: it is in DoMap
  todo,     \* per process: values DoMap has yet to look at
  result,   \* per process: the values DoMap returns
  heard,    \* history, per process: deltas it has received
  looked,   \* history, per process: values DoMap has looked at, in order
  told      \* history, per process: what it has made of each; <<>> is nothing

processVars == <<socket, busy, todo, result, heard, looked, told>>

ProcessInit ==
  /\ socket = [s \in Processes |-> <<>>]
  /\ busy = [s \in Processes |-> FALSE]
  /\ todo = [s \in Processes |-> <<>>]
  /\ result = [s \in Processes |-> <<>>]
  /\ heard = [s \in Processes |-> <<>>]
  /\ looked = [s \in Processes |-> <<>>]
  /\ told = [s \in Processes |-> <<>>]

Encodable(delta) == \A v \in Range(delta) : v.content # "infinity"
Decodable(delta) == \A v \in Range(delta) : v.content \notin {"true", "false"}

(* A subscriber that is too slow misses a message. *)
Lose(s) ==
  /\ socket[s] # <<>>
  /\ socket' = [socket EXCEPT ![s] = Tail(@)]
  /\ UNCHANGED <<busy, todo, result, heard, looked, told>>

(* Recv and json.Unmarshal: one value that cannot be decoded rejects the   *)
(* whole delta.                                                            *)
Receive(s) ==
  /\ ~busy[s] /\ socket[s] # <<>>
  /\ socket' = [socket EXCEPT ![s] = Tail(@)]
  /\ LET delta == Head(socket[s])
     IN  IF Decodable(delta)
         THEN /\ busy' = [busy EXCEPT ![s] = TRUE]
              /\ todo' = [todo EXCEPT ![s] = delta]
              /\ result' = [result EXCEPT ![s] = <<>>]
              /\ heard' = [heard EXCEPT ![s] = Append(@, delta)]
         ELSE UNCHANGED <<busy, todo, result, heard>>
  /\ UNCHANGED <<looked, told>>

(* The loop of DoMap looks at the next value. *)
Look(s) ==
  /\ busy[s] /\ todo[s] # <<>>
  /\ looked' = [looked EXCEPT ![s] =
       Append(@, [delta |-> Len(heard[s]), value |-> Head(todo[s])])]

(* It adds out to the result. *)
NextValue(s, out) ==
  /\ Look(s)
  /\ todo' = [todo EXCEPT ![s] = Tail(@)]
  /\ result' = [result EXCEPT ![s] = @ \o out]
  /\ UNCHANGED <<socket, busy, heard, told>>

(* Or DoMap returns an error: the delta is gone, with the values it has    *)
(* not looked at.                                                          *)
Fail(s) ==
  /\ Look(s)
  /\ busy' = [busy EXCEPT ![s] = FALSE]
  /\ todo' = [todo EXCEPT ![s] = <<>>]
  /\ told' = [told EXCEPT ![s] = Append(@, <<>>)]
  /\ UNCHANGED <<socket, result, heard>>

(* DoMap returns out, which is published unless it is empty or cannot be   *)
(* encoded.                                                                *)
Publish(s, out) ==
  /\ busy[s] /\ todo[s] = <<>>
  /\ busy' = [busy EXCEPT ![s] = FALSE]
  /\ LET sent == IF Encodable(out) THEN out ELSE <<>>
         to == IF sent = <<>> THEN {} ELSE {s + 1} \cap Processes
     IN  /\ \A t \in to : Len(socket[t]) < MaxSent
         /\ told' = [told EXCEPT ![s] = Append(@, sent)]
         /\ socket' = [t \in Processes |->
              IF t \in to THEN Append(socket[t], sent) ELSE socket[t]]
  /\ UNCHANGED <<todo, result, heard, looked>>

=============================================================================
