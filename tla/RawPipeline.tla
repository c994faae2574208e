---------------------------- MODULE RawPipeline ----------------------------
(***************************************************************************)
(* A line connector and an HTTP connector, the proxy that collects what    *)
(* they publish, and the LWE writer that subscribes to the proxy.          *)
(***************************************************************************)
EXTENDS LineConnector, HttpConnector, LWEWriter

vars == <<sourceVars, lineVars, poller, lweVars>>

Init == SourceInit /\ LineInit /\ HttpInit /\ LWEInit

(* Mutant: a message that was forwarded is forwarded again. *)
Forward_Again(c) ==
  /\ socket[c] # <<>>
  /\ \E queue \in Sent(inbox, Head(socket[c])) : inbox' = queue
  /\ UNCHANGED <<sourceVars, multicasts, lineCount, received, numbered>>

(* The proxy's goroutine for connector c: Recv and Send.  Its stop channel *)
(* is closed by Close, which doProxy defers until these goroutines have    *)
(* stopped: they never do.                                                 *)
Forward(c) ==
  /\ socket[c] # <<>>
  /\ socket' = [socket EXCEPT ![c] = Tail(@)]
  /\ \E queue \in Sent(inbox, Head(socket[c])) : inbox' = queue
  /\ UNCHANGED <<stream, hand, multicasts, lineCount, received, numbered>>

Next ==
  \/ LineNext /\ UNCHANGED <<poller, lweVars>>
  \/ HttpNext /\ UNCHANGED <<lineVars, lweVars>>
  \/ \E c \in Connectors : Forward(c) /\ UNCHANGED <<lineVars, poller>>
  \/ LWENext /\ UNCHANGED <<sourceVars, lineVars, poller>>

(* Goroutines that can run do, and a poller that waits for the channel is  *)
(* served at some time.  The line device, the network and the pollers      *)
(* whose URL fails owe nothing.                                            *)
Fairness ==
  /\ WF_vars((Read \/ TooLong \/ Scan) /\ UNCHANGED <<poller, lweVars>>)
  /\ WF_vars((TakeLine \/ PublishLine) /\ UNCHANGED <<poller, lweVars>>)
  /\ WF_vars((TakeAnswer \/ PublishAnswer) /\ UNCHANGED <<lineVars, lweVars>>)
  /\ \A g \in Groups \ Flaky :
       SF_vars((Fetch(g) \/ Deliver(g)) /\ UNCHANGED <<lineVars, lweVars>>)

Spec == Init /\ [][Next]_vars /\ Fairness

-----------------------------------------------------------------------------
(* Properties. *)

(* The connector catches up: when the device pauses every line that has    *)
(* arrived is published, but for the long ones; of those what follows the  *)
(* first 64 kB may be published as a line.                                 *)
LinesPublished ==
  []<>(\A i \in 1 .. arrived : i \in LongLines \/ \E j \in DOMAIN sent : sent[j].line = i)

(* Messages are lost, but no line reaches a writer twice or after a line   *)
(* the device sent later, whatever else the proxy forwards.                *)
LinesInOrder ==
  \A i, j \in DOMAIN received :
    (i < j /\ received[i].connector = "line" /\ received[j].connector = "line")
      => received[i].line < received[j].line

=============================================================================
