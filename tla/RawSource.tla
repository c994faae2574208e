----------------------------- MODULE RawSource -----------------------------
(***************************************************************************)
(* What the connectors have in common.  A connector's goroutines put what  *)
(* they read on a channel, the stream; process takes it from there, wraps  *)
(* it into a message and publishes it on a nanomsg socket, which loses the *)
(* message when the subscriber is behind.                                  *)
(***************************************************************************)
EXTENDS Naturals, Sequences, FiniteSets

CONSTANT MaxSent    \* bound: messages on their way to a subscriber

Connectors == {"line", "http"}

VARIABLES
  stream,   \* per connector: the channel
  hand,     \* per connector: what process has taken from it, if anything
  socket    \* per connector: messages on their way to the proxy

sourceVars == <<stream, hand, socket>>

SourceInit ==
  /\ stream = [c \in Connectors |-> <<>>]
  /\ hand = [c \in Connectors |-> <<>>]
  /\ socket = [c \in Connectors |-> <<>>]

(* Mutant: make(chan []byte, 2) *)
StreamCapacity_Two == 2

(* make(chan []byte, 1) *)
StreamCapacity == 1

(* stream <- x waits for room. *)
Put(c, x) ==
  /\ Len(stream[c]) < StreamCapacity
  /\ stream' = [stream EXCEPT ![c] = Append(@, x)]

(* for value := range stream *)
Take(c) ==
  /\ hand[c] = <<>> /\ stream[c] # <<>>
  /\ hand' = [hand EXCEPT ![c] = <<Head(stream[c])>>]
  /\ stream' = [stream EXCEPT ![c] = Tail(@)]
  /\ UNCHANGED socket

(* json.Marshal and Send; the message is lost, or is added to the queue.   *)
Sent(queue, m) ==
  {queue} \cup (IF Len(queue) < MaxSent THEN {Append(queue, m)} ELSE {})

Publish(c, m) ==
  /\ hand[c] # <<>>
  /\ hand' = [hand EXCEPT ![c] = <<>>]
  /\ \E queue \in Sent(socket[c], m) : socket' = [socket EXCEPT ![c] = queue]
  /\ UNCHANGED stream

=============================================================================
