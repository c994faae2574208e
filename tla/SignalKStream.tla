--------------------------- MODULE SignalKStream ---------------------------
(***************************************************************************)
(* The streaming side of SignalKWriter.                                    *)
(*                                                                         *)
(* Every delta is handed by a goroutine (updateWebsocket) to all clients   *)
(* that are registered when it starts, one after the other, over the       *)
(* unbuffered channel of each client.  The handler of a client takes a     *)
(* delta from its channel and writes it to the websocket; when a write     *)
(* fails (the client left, or its context of 60 seconds ended) it closes   *)
(* the connection and, as it returns, removes the client.                  *)
(***************************************************************************)
EXTENDS Naturals, FiniteSets

CONSTANTS
  Clients,          \* websocket connections
  Deltas,           \* deltas received from the mapper
  Nobody, Nothing   \* no client, no delta

ASSUME StreamAssumption == Nobody \notin Clients /\ Nothing \notin Deltas

VARIABLES
  registered,  \* websocketClients
  handler,     \* per client: state of serveWebsocket
  holding,     \* per client: the delta its handler is writing
  pending,     \* deltas not received yet
  todo,        \* per delta: clients its goroutine has yet to serve
  target,      \* per delta: the client its goroutine is sending to
  owed,        \* history, per delta: clients registered when it came
  got          \* per client: number of times each delta was written

vars == <<registered, handler, holding, pending, todo, target, owed, got>>

Init ==
  /\ registered = {}
  /\ handler = [c \in Clients |-> "away"]
  /\ holding = [c \in Clients |-> Nothing]
  /\ pending = Deltas
  /\ todo = [d \in Deltas |-> {}] /\ target = [d \in Deltas |-> Nobody]
  /\ owed = [d \in Deltas |-> {}]
  /\ got = [c \in Clients |-> [d \in Deltas |-> 0]]

-----------------------------------------------------------------------------
(* serveWebsocket up to addClient; a client whose hello fails is gone. *)
Connect(c) ==
  /\ handler[c] = "away"
  /\ \/ /\ handler' = [handler EXCEPT ![c] = "ready"]
        /\ registered' = registered \cup {c}
     \/ /\ handler' = [handler EXCEPT ![c] = "gone"]
        /\ UNCHANGED registered
  /\ UNCHANGED <<holding, pending, todo, target, owed, got>>

(* receive starts updateWebsocket, which takes a snapshot (getClients). *)
UpdateWebsocket(d) ==
  /\ d \in pending
  /\ pending' = pending \ {d}
  /\ todo' = [todo EXCEPT ![d] = registered]
  /\ owed' = [owed EXCEPT ![d] = registered]
  /\ UNCHANGED <<registered, handler, holding, target, got>>

(* Mutant: the client stays on the list of the goroutine. *)
NextClient_Repeats(d, c) ==
  /\ target[d] = Nobody /\ c \in todo[d]
  /\ target' = [target EXCEPT ![d] = c]
  /\ UNCHANGED <<registered, handler, holding, pending, todo, owed, got>>

(* Mutant: the loop ends after the first client. *)
NextClient_OnlyOne(d, c) ==
  /\ target[d] = Nobody /\ c \in todo[d]
  /\ target' = [target EXCEPT ![d] = c]
  /\ todo' = [todo EXCEPT ![d] = {}]
  /\ UNCHANGED <<registered, handler, holding, pending, owed, got>>

(* The next client of the snapshot, in the order of a map iteration. *)
NextClient(d, c) ==
  /\ target[d] = Nobody /\ c \in todo[d]
  /\ target' = [target EXCEPT ![d] = c]
  /\ todo' = [todo EXCEPT ![d] = @ \ {c}]
  /\ UNCHANGED <<registered, handler, holding, pending, owed, got>>

(* Mutant: the send does not wait for the handler to receive. *)
Send_NoRendezvous(d, c) ==
  /\ target[d] = c
  /\ target' = [target EXCEPT ![d] = Nobody]
  /\ holding' = [holding EXCEPT ![c] = d]
  /\ UNCHANGED <<registered, handler, pending, todo, owed, got>>

(* c.deltas <- message meets <-client.deltas *)
Send(d, c) ==
  /\ target[d] = c /\ handler[c] = "ready"
  /\ target' = [target EXCEPT ![d] = Nobody]
  /\ handler' = [handler EXCEPT ![c] = "writing"]
  /\ holding' = [holding EXCEPT ![c] = d]
  /\ UNCHANGED <<registered, pending, todo, owed, got>>

Write(c) ==
  /\ handler[c] = "writing"
  /\ got' = [got EXCEPT ![c][holding[c]] = @ + 1]
  /\ handler' = [handler EXCEPT ![c] = "ready"]
  /\ holding' = [holding EXCEPT ![c] = Nothing]
  /\ UNCHANGED <<registered, pending, todo, target, owed>>

(* The handler will not receive again; it is still registered while it     *)
(* closes the connection (c.Close, which waits for the client).            *)
WriteFails(c) ==
  /\ handler[c] = "writing"
  /\ handler' = [handler EXCEPT ![c] = "leaving"]
  /\ holding' = [holding EXCEPT ![c] = Nothing]
  /\ UNCHANGED <<registered, pending, todo, target, owed, got>>

(* Mutant: removeClient is not deferred. *)
RemoveClient_StaysRegistered(c) ==
  /\ handler[c] = "leaving"
  /\ handler' = [handler EXCEPT ![c] = "gone"]
  /\ UNCHANGED <<registered, holding, pending, todo, target, owed, got>>

(* The deferred removeClient deletes the client from the map; its channel  *)
(* is not closed.                                                          *)
RemoveClient(c) ==
  /\ handler[c] = "leaving"
  /\ handler' = [handler EXCEPT ![c] = "gone"]
  /\ registered' = registered \ {c}
  /\ UNCHANGED <<holding, pending, todo, target, owed, got>>

Next ==
  \/ \E c \in Clients : Connect(c) \/ Write(c) \/ WriteFails(c) \/ RemoveClient(c)
  \/ \E d \in Deltas : \/ UpdateWebsocket(d)
                       \/ \E c \in Clients : NextClient(d, c) \/ Send(d, c)

Spec == Init /\ [][Next]_vars

(* Goroutines run, and of several that send on one channel each one gets   *)
(* its turn (Go queues the senders).  Nothing rests on removeClient, which *)
(* a client may delay by not answering to c.Close.                         *)
FairSpec ==
  /\ Spec
  /\ \A c \in Clients : WF_vars(Write(c) \/ WriteFails(c))
  /\ \A d \in Deltas : /\ WF_vars(\E c \in Clients : NextClient(d, c))
                       /\ SF_vars(\E c \in Clients : Send(d, c))

-----------------------------------------------------------------------------
(* Properties. *)

(* Types; a handler holds a delta exactly while it writes. *)
TypeOK ==
  /\ registered \subseteq Clients
  /\ handler \in [Clients -> {"away", "ready", "writing", "leaving", "gone"}]
  /\ holding \in [Clients -> Deltas \cup {Nothing}]
  /\ \A c \in Clients : handler[c] = "writing" <=> holding[c] \in Deltas
  /\ pending \subseteq Deltas
  /\ todo \in [Deltas -> SUBSET Clients]
  /\ target \in [Deltas -> Clients \cup {Nobody}]
  /\ owed \in [Deltas -> SUBSET Clients]
  /\ got \in [Clients -> [Deltas -> Nat]]

(* The handler will not receive from the channel of the client again. *)
Left(c) == handler[c] \in {"leaving", "gone"}

One(here) == IF here THEN 1 ELSE 0

(* Where delta d is on its way to client c. *)
Places(d, c) ==
  One(c \in todo[d]) + One(target[d] = c) + One(holding[c] = d) + got[c][d]

(* Who is still to be served, is being served or was served: a delta is at *)
(* exactly one of these places for every client of its snapshot that has   *)
(* not left, so it is neither skipped nor written twice.                   *)
Accounted ==
  \A d \in Deltas, c \in Clients :
    /\ Places(d, c) <= 1
    /\ c \in owed[d] /\ ~Left(c) => Places(d, c) = 1
    /\ Places(d, c) = 1 => c \in owed[d]

(* A client is in the map from addClient to removeClient: a delta is sent  *)
(* to every client that listens when it comes, and once a client is        *)
(* removed no new goroutine can be held up by it.  While its handler       *)
(* closes the connection, snapshots still take it, though nobody receives. *)
RegisteredAlive ==
  \A c \in Clients : c \in registered <=> handler[c] \in {"ready", "writing", "leaving"}

(* A delta reaches every client that is registered when it comes, unless   *)
(* the client leaves or the goroutine of the delta is stuck at another     *)
(* client that has left: nothing else holds up updateWebsocket.  The       *)
(* second exception is real: nobody receives on the channel of a client    *)
(* whose write failed, so the clients after it go without the delta.       *)
DeliversUnlessStuck ==
  \A d \in Deltas, c \in Clients :
    c \in owed[d] ~> \/ got[c][d] > 0 \/ Left(c)
                     \/ target[d] # Nobody /\ Left(target[d])

=============================================================================
