--------------------------- MODULE HttpConnector ---------------------------
(***************************************************************************)
(* HttpConnector: a goroutine per URL group asks for its URL at every tick *)
(* and sends the answer on the stream.  Its first error ends it; poll      *)
(* returns the error to nobody, and receive waits for ever for goroutines  *)
(* that never say they are done, so that it is not called again.           *)
(***************************************************************************)
EXTENDS RawSource

CONSTANTS
  Groups,    \* URL groups
  Flaky      \* those whose URL fails at times

ASSUME HttpAssumption == Flaky \subseteq Groups

VARIABLE poller    \* per group: "waiting" for the tick, "fetched", or "ended"

HttpInit == poller = [g \in Groups |-> "waiting"]

(* http.Get and io.ReadAll *)
Fetch(g) ==
  /\ poller[g] = "waiting"
  /\ poller' = [poller EXCEPT ![g] = "fetched"]
  /\ UNCHANGED sourceVars

(* Mutant: receive gives up with the first error, as the Modbus connector  *)
(* does, and its pollers end.                                              *)
FetchFails_EndsAll(g) ==
  /\ poller[g] = "waiting" /\ g \in Flaky
  /\ poller' = [h \in Groups |-> "ended"]
  /\ UNCHANGED sourceVars

FetchFails(g) ==
  /\ poller[g] = "waiting" /\ g \in Flaky
  /\ poller' = [poller EXCEPT ![g] = "ended"]
  /\ UNCHANGED sourceVars

(* stream <- bytes *)
Deliver(g) ==
  /\ poller[g] = "fetched"
  /\ Put("http", "answer")
  /\ poller' = [poller EXCEPT ![g] = "waiting"]
  /\ UNCHANGED <<hand, socket>>

TakeAnswer == Take("http") /\ UNCHANGED poller

PublishAnswer ==
  /\ Publish("http", [connector |-> "http"])
  /\ UNCHANGED poller

HttpNext ==
  \/ \E g \in Groups : Fetch(g) \/ FetchFails(g) \/ Deliver(g)
  \/ TakeAnswer \/ PublishAnswer

-----------------------------------------------------------------------------
(* Properties. *)

(* A URL that never fails is asked again and again and its answer is taken *)
(* from its poller, whatever happens to the other groups.                  *)
HealthyPolled ==
  \A g \in Groups \ Flaky : []<><<Deliver(g)>>_<<sourceVars, poller>>

=============================================================================
