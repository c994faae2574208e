--------------------------- MODULE TransferProofs ---------------------------
(***************************************************************************)
(* Proofs about Transfer, for every set of origins, rows and bounds.       *)
(***************************************************************************)
EXTENDS Transfer, TLAPS, FiniteSetTheorems

-----------------------------------------------------------------------------
(* Counting. *)

(* Every set of rows is finite and has a size.                             *)
LEMMA RowsFinite ==
  ASSUME NEW S \in SUBSET Rows
  PROVE  IsFiniteSet(S) /\ Cardinality(S) \in Nat
BY ConstantsAssumption, FS_Subset, FS_CardinalityType

(* What the two queries select of a table.                                 *)
LEMMA Selections ==
  ASSUME NEW db \in SUBSET Rows, NEW o, NEW p, NEW u
  PROVE  /\ Bucket(db, o, p) \in SUBSET Rows
         /\ Cardinality(Bucket(db, o, p)) \in Nat
         /\ Window(db, o, p, u) \in SUBSET Rows
         /\ Cardinality(Window(db, o, p, u)) \in Nat
<1>1. Bucket(db, o, p) \in SUBSET Rows /\ Window(db, o, p, u) \in SUBSET Rows
  BY DEF Bucket, Window
<1> QED
  BY <1>1, RowsFinite

(* A table that grows counts no less (the server's mapped_data).           *)
LEMMA CountsGrow ==
  ASSUME NEW db1 \in SUBSET Rows, NEW db2 \in SUBSET Rows, db1 \subseteq db2,
         NEW o, NEW p, NEW u
  PROVE  /\ Cardinality(Bucket(db1, o, p)) <= Cardinality(Bucket(db2, o, p))
         /\ Cardinality(Window(db1, o, p, u)) <= Cardinality(Window(db2, o, p, u))
<1>1. /\ Bucket(db1, o, p) \subseteq Bucket(db2, o, p)
      /\ Window(db1, o, p, u) \subseteq Window(db2, o, p, u)
  BY DEF Bucket, Window
<1>2. /\ IsFiniteSet(Bucket(db2, o, p))
      /\ IsFiniteSet(Window(db2, o, p, u))
  BY Selections, RowsFinite
<1> QED
  BY <1>1, <1>2, FS_Subset

(* The same number of elements is the same set, for a subset.  This is     *)
(* what comparing counts instead of rows relies on.                        *)
LEMMA EqualCounts ==
  ASSUME NEW S \in SUBSET Rows, NEW T \in SUBSET S,
         Cardinality(S) <= Cardinality(T)
  PROVE  S \subseteq T
<1>1. IsFiniteSet(S) /\ Cardinality(S) \in Nat /\ Cardinality(T) \in Nat
  BY RowsFinite
<1>2. Cardinality(T) <= Cardinality(S) /\ (Cardinality(S) = Cardinality(T) => S = T)
  BY <1>1, FS_Subset
<1> QED
  BY <1>1, <1>2

(* The counts a data request carries.                                      *)
LEMMA CountPerUuidType ==
  ASSUME NEW db \in SUBSET Rows, NEW o, NEW p
  PROVE  SelectCountPerUuid(db, o, p) \in [Uuids -> Nat]
BY Selections DEF SelectCountPerUuid

-----------------------------------------------------------------------------
(* The type invariant. *)

(* Initially nothing is stored, sent or counted.                           *)
LEMMA TypeInit == Init => TypeOK
<1> USE ConstantsAssumption
<1> SUFFICES ASSUME Init PROVE TypeOK
  OBVIOUS
<1>1. clock \in 0 .. MaxClock /\ 0 \in Periods
  BY DEF Init, Periods
<1>2. channel \in Seq(Origins \X Periods) /\ Len(channel) = 0
  BY DEF Init
<1> QED
  BY <1>1, <1>2 DEF Init, TypeOK, NoCount

(* Every action keeps the types.                                           *)
LEMMA TypeStep == TypeOK /\ [Next]_vars => TypeOK'
<1> SUFFICES ASSUME TypeOK, [Next]_vars PROVE TypeOK'
  OBVIOUS
<1> USE ConstantsAssumption DEF TypeOK, vessels, server, counting, fetching,
        requestNet, responseNet
<1>1. CASE Tick
  <2>1. clock' \in 0 .. MaxClock
    BY <1>1 DEF Tick
  <2> QED
    BY <1>1, <2>1 DEF Tick
<1>2. CASE FlushVessel \/ LoseBatch
  BY <1>2 DEF FlushVessel, LoseBatch
<1>3. CASE Refresh
  <2>1. mat' \in [Origins -> [Periods -> Nat]]
    BY <1>3, Selections DEF Refresh
  <2>2. watermark' \in Nat
    BY <1>3 DEF Refresh
  <2> QED
    BY <1>3, <2>1, <2>2 DEF Refresh
<1>4. ASSUME NEW r \in Rows, Produce(r) \/ DeliverRow(r) \/ LoseRow(r)
      PROVE  TypeOK'
  BY <1>4 DEF Produce, DeliverRow, LoseRow
<1>5. CASE StartCountCycle
  BY <1>5 DEF StartCountCycle
<1>6. ASSUME NEW o \in Origins, ListPeriods(o) PROVE TypeOK'
  <2>1. 0 \in Periods
    BY DEF Periods
  <2> QED
    BY <1>6, <2>1 DEF ListPeriods
<1>7. ASSUME NEW o \in Origins, SendCountRequest(o) PROVE TypeOK'
  <2>1. PICK p \in countTodo[o] :
          /\ PublishRequest(CountRequest(o, p))
          /\ countTodo' = [countTodo EXCEPT ![o] = @ \ {p}]
    BY <1>7 DEF SendCountRequest
  <2>2. CountRequest(o, p) \in CountRequests /\ CountRequest(o, p).origin = o
    BY DEF CountRequest, CountRequests
  <2>3. /\ requests' \subseteq CountRequests \cup DataRequests
        /\ lastRequest' \in [Origins -> SUBSET (CountRequests \cup DataRequests)]
    BY <2>1, <2>2 DEF PublishRequest
  <2>4. countTodo' \in [Origins -> SUBSET Periods]
    BY <2>1
  <2> QED
    BY <1>7, <2>3, <2>4 DEF SendCountRequest
<1>8. ASSUME NEW o \in Origins, EndCount(o) PROVE TypeOK'
  BY <1>8 DEF EndCount
<1>9. ASSUME NEW k \in Slots, StartDataCycle(k) PROVE TypeOK'
  <2>1. \A o \in Origins : Newest(SelectIncompletePeriods(o)) \subseteq Periods
    BY DEF Newest, SelectIncompletePeriods
  <2> QED
    BY <1>9, <2>1 DEF StartDataCycle
<1>10. ASSUME NEW k \in Slots, NEW o \in Origins, Queue(k, o) PROVE TypeOK'
  <2>1. PICK p \in feeder[k][o] :
          /\ channel' = Append(channel, <<o, p>>)
          /\ feeder' = [feeder EXCEPT ![k][o] = @ \ {p}]
    BY <1>10 DEF Queue
  <2>2. /\ channel' \in Seq(Origins \X Periods)
        /\ Len(channel') <= NumberOfRequestWorkers
    BY <1>10, <2>1 DEF Queue
  <2>3. feeder' \in [Slots -> [Origins -> SUBSET Periods]]
    BY <2>1
  <2> QED
    BY <1>10, <2>2, <2>3 DEF Queue
<1>11. CASE SendDataRequest
  <2> DEFINE o == Head(channel)[1]
             p == Head(channel)[2]
             m == DataRequest(o, p, SelectCountPerUuid(cloud, o, p))
  <2>1. /\ Head(channel) \in Origins \X Periods
        /\ channel' \in Seq(Origins \X Periods)
        /\ Len(channel') <= NumberOfRequestWorkers
    BY <1>11, SMTT(60) DEF SendDataRequest
  <2>2. m \in DataRequests /\ m.origin = o
    BY <2>1, CountPerUuidType DEF DataRequest, DataRequests
  <2>3. PublishRequest(m)
    BY <1>11 DEF SendDataRequest
  <2>4. /\ requests' \subseteq CountRequests \cup DataRequests
        /\ lastRequest' \in [Origins -> SUBSET (CountRequests \cup DataRequests)]
    BY <2>1, <2>2, <2>3 DEF PublishRequest
  <2> QED
    BY <1>11, <2>1, <2>4 DEF SendDataRequest
<1>12. CASE WorkerReturns
  <2>1. /\ channel' \in Seq(Origins \X Periods)
        /\ Len(channel') <= NumberOfRequestWorkers
    BY <1>12 DEF WorkerReturns
  <2>2. workers' \in 0 .. NumberOfRequestWorkers
    BY <1>12 DEF WorkerReturns
  <2> QED
    BY <1>12, <2>1, <2>2 DEF WorkerReturns
<1>13. ASSUME NEW m \in requests, RespondWithCount(m) PROVE TypeOK'
  <2> DEFINE r == CountResponse(m.origin, m.period,
                    Cardinality(Bucket(vessel, m.origin, m.period)))
  <2>1. m.origin \in Origins /\ m.period \in Periods
    BY DEF CountRequests, DataRequests
  <2>2. r \in CountResponses
    BY <2>1, Selections DEF CountResponse, CountResponses
  <2> QED
    BY <1>13, <2>1, <2>2 DEF RespondWithCount
<1>14. ASSUME NEW m \in requests, RespondWithData(m) PROVE TypeOK'
  <2>1. \A u : Window(vessel, m.origin, m.period, u) \subseteq Rows
    BY DEF Window
  <2>2. InjectData(m) \subseteq Rows
    BY <2>1 DEF InjectData
  <2> QED
    BY <1>14, <2>2 DEF RespondWithData
<1>15. ASSUME NEW m \in requests, LoseRequest(m) PROVE TypeOK'
  BY <1>15 DEF LoseRequest
<1>16. ASSUME NEW m \in responses, LoseResponse(m) PROVE TypeOK'
  BY <1>16 DEF LoseResponse
<1>17. ASSUME NEW m \in responses, CountResponseReceived(m) PROVE TypeOK'
  <2>1. m.origin \in Origins /\ m.period \in Periods /\ m.dataPoints \in Nat
    BY DEF CountResponses
  <2>2. remote' \in [Origins -> [Periods -> Nat \cup {NoCount}]]
    BY <1>17, <2>1 DEF CountResponseReceived
  <2> QED
    BY <1>17, <2>2 DEF CountResponseReceived
<1>18. ASSUME NEW o \in Origins, ResponderConnects(o) PROVE TypeOK'
  BY <1>18 DEF ResponderConnects
<1>19. CASE RequesterConnects
  BY <1>19, SMTT(60) DEF RequesterConnects
<1>20. CASE RequesterRestarts
  <2>1. 0 \in Periods
    BY DEF Periods
  <2>2. channel' \in Seq(Origins \X Periods) /\ Len(channel') = 0
    BY <1>20 DEF RequesterRestarts
  <2>3. responses' \subseteq CountResponses
    BY <1>20 DEF RequesterRestarts
  <2>4. /\ countPc' \in [Origins -> {"done", "wait", "send"}]
        /\ countTodo' \in [Origins -> SUBSET Periods]
        /\ countStart' \in [Origins -> Periods]
        /\ existing' \subseteq Origins \X Periods
        /\ feeder' \in [Slots -> [Origins -> SUBSET Periods]]
        /\ workers' \in 0 .. NumberOfRequestWorkers
    BY <1>20, <2>1 DEF RequesterRestarts
  <2>5. UNCHANGED <<clock, produced, batch, vessel, wire, cloud, mat, watermark,
                    remote, requests, lastRequest, lastResponse>>
    BY <1>20 DEF RequesterRestarts
  <2> HIDE <1>20
  <2> QED
    BY <2>2, <2>3, <2>4, <2>5
<1>21. CASE UNCHANGED vars
  BY <1>21 DEF vars
<1> QED
  BY <1>1, <1>2, <1>3, <1>4, <1>5, <1>6, <1>7, <1>8, <1>9, <1>10, <1>11,
     <1>12, <1>13, <1>14, <1>15, <1>16, <1>17, <1>18, <1>19, <1>20, <1>21
     DEF Next, Progress, Disturbance

(* The variables keep their types and dataRequestChannel its capacity.     *)
THEOREM TypeCorrect == Spec => []TypeOK
BY TypeInit, TypeStep, PTL DEF Spec

-----------------------------------------------------------------------------
(* The messages in the system. *)

(* Publishing adds the message to the ones on their way or retained, and   *)
(* drops the one retained before.                                          *)
LEMMA PublishAdds ==
  ASSUME TypeOK, NEW m, m.origin \in Origins, PublishRequest(m)
  PROVE  AllRequests' \subseteq AllRequests \cup {m}
BY DEF TypeOK, PublishRequest, AllRequests

(* Losing, answering and replaying a message brings no new one.            *)
LEMMA NoNewRequest ==
  ASSUME TypeOK, UNCHANGED lastRequest,
         requests' \subseteq requests \cup UNION {lastRequest[o] : o \in Origins}
  PROVE  AllRequests' \subseteq AllRequests
BY DEF AllRequests

(* The same of responses.                                                  *)
LEMMA NoNewResponse ==
  ASSUME TypeOK, UNCHANGED lastResponse,
         responses' \subseteq responses \cup UNION {lastResponse[o] : o \in Origins}
  PROVE  AllResponses' \subseteq AllResponses
BY DEF AllResponses

(* Only the requester's two senders create requests, and only for periods  *)
(* on their lists; only the responder creates responses.                   *)
LEMMA MessageStep ==
  ASSUME TypeOK, [Next]_vars
  PROVE  /\ \/ AllRequests' \subseteq AllRequests
            \/ \E o \in Origins : \E p \in countTodo[o] :
                 AllRequests' \subseteq AllRequests \cup {CountRequest(o, p)}
            \/ /\ channel # <<>>
               /\ LET o == Head(channel)[1]
                      p == Head(channel)[2]
                  IN  AllRequests' \subseteq AllRequests \cup
                        {DataRequest(o, p, SelectCountPerUuid(cloud, o, p))}
         /\ \/ AllResponses' \subseteq AllResponses
            \/ \E m \in requests :
                 AllResponses' \subseteq AllResponses \cup
                   {CountResponse(m.origin, m.period,
                      Cardinality(Bucket(vessel, m.origin, m.period)))}
<1> DEFINE NewRequest == \/ \E o \in Origins : \E p \in countTodo[o] :
                              AllRequests' \subseteq AllRequests \cup {CountRequest(o, p)}
                         \/ /\ channel # <<>>
                            /\ LET o == Head(channel)[1]
                                   p == Head(channel)[2]
                               IN  AllRequests' \subseteq AllRequests \cup
                                     {DataRequest(o, p, SelectCountPerUuid(cloud, o, p))}
           NewResponse == \E m \in requests :
                            AllResponses' \subseteq AllResponses \cup
                              {CountResponse(m.origin, m.period,
                                 Cardinality(Bucket(vessel, m.origin, m.period)))}
           Replay == /\ UNCHANGED lastRequest /\ UNCHANGED lastResponse
                     /\ requests' \subseteq requests \cup UNION {lastRequest[o] : o \in Origins}
                     /\ responses' \subseteq responses \cup UNION {lastResponse[o] : o \in Origins}
<1> SUFFICES /\ AllRequests' \subseteq AllRequests \/ NewRequest
             /\ AllResponses' \subseteq AllResponses \/ NewResponse
  OBVIOUS
<1>1. ASSUME NEW o \in Origins, SendCountRequest(o)
      PROVE  NewRequest /\ AllResponses' \subseteq AllResponses
  <2>1. PICK p \in countTodo[o] : PublishRequest(CountRequest(o, p))
    BY <1>1 DEF SendCountRequest
  <2>2. CountRequest(o, p).origin = o
    BY DEF CountRequest
  <2>3. AllRequests' \subseteq AllRequests \cup {CountRequest(o, p)}
    BY <2>1, <2>2, PublishAdds
  <2>4. UNCHANGED responseNet
    BY <1>1 DEF SendCountRequest
  <2> QED
    BY <2>3, <2>4, NoNewResponse DEF responseNet
<1>2. CASE SendDataRequest
  <2> DEFINE o == Head(channel)[1]
             p == Head(channel)[2]
             m == DataRequest(o, p, SelectCountPerUuid(cloud, o, p))
  <2>1. channel # <<>> /\ PublishRequest(m) /\ UNCHANGED responseNet
    BY <1>2 DEF SendDataRequest
  <2>2. Head(channel) \in Origins \X Periods
    BY <2>1, SMTT(60) DEF TypeOK
  <2>3. m.origin \in Origins
    BY <2>2 DEF DataRequest
  <2>4. AllRequests' \subseteq AllRequests \cup {m}
    BY <2>1, <2>3, PublishAdds
  <2> QED
    BY <2>1, <2>4, NoNewResponse DEF responseNet
<1>3. ASSUME NEW m \in requests, RespondWithCount(m)
      PROVE  AllRequests' \subseteq AllRequests /\ NewResponse
  <2>1. AllRequests' \subseteq AllRequests
    BY <1>3, NoNewRequest DEF RespondWithCount
  <2>2. m.origin \in Origins
    BY DEF TypeOK, CountRequests, DataRequests
  <2>3. AllResponses' \subseteq AllResponses \cup
          {CountResponse(m.origin, m.period,
             Cardinality(Bucket(vessel, m.origin, m.period)))}
    BY <1>3, <2>2 DEF RespondWithCount, AllResponses, TypeOK
  <2> QED
    BY <2>1, <2>3
<1>4. Replay => /\ AllRequests' \subseteq AllRequests
                /\ AllResponses' \subseteq AllResponses
  BY NoNewRequest, NoNewResponse
<1>5. CASE Tick \/ FlushVessel \/ LoseBatch \/ Refresh \/ StartCountCycle
           \/ WorkerReturns \/ RequesterConnects \/ RequesterRestarts
           \/ UNCHANGED vars
  <2>1. Replay
    BY <1>5 DEF Tick, FlushVessel, LoseBatch, Refresh, StartCountCycle,
       WorkerReturns, RequesterConnects, RequesterRestarts, vars, requestNet,
       responseNet
  <2> QED
    BY <2>1, <1>4
<1>6. ASSUME NEW r \in Rows, Produce(r) \/ DeliverRow(r) \/ LoseRow(r)
      PROVE  Replay
  BY <1>6 DEF Produce, DeliverRow, LoseRow, requestNet, responseNet
<1>7. ASSUME NEW o \in Origins, ListPeriods(o) \/ EndCount(o) \/ ResponderConnects(o)
      PROVE  Replay
  BY <1>7 DEF ListPeriods, EndCount, ResponderConnects, requestNet, responseNet
<1>8. ASSUME NEW k \in Slots, StartDataCycle(k) \/ \E o \in Origins : Queue(k, o)
      PROVE  Replay
  BY <1>8 DEF StartDataCycle, Queue, requestNet, responseNet
<1>9. ASSUME NEW m \in requests, RespondWithData(m) \/ LoseRequest(m)
      PROVE  Replay
  BY <1>9 DEF RespondWithData, LoseRequest, responseNet
<1>10. ASSUME NEW m \in responses, CountResponseReceived(m) \/ LoseResponse(m)
       PROVE  Replay
  BY <1>10 DEF CountResponseReceived, LoseResponse, requestNet
<1> HIDE DEF Replay, NewRequest, NewResponse
<1> QED
  BY <1>1, <1>2, <1>3, <1>4, <1>5, <1>6, <1>7, <1>8, <1>9, <1>10
     DEF Next, Progress, Disturbance

-----------------------------------------------------------------------------
(* Closed periods. *)

(* Time does not go back, and the server forgets no row.                   *)
LEMMA Monotone ==
  ASSUME TypeOK, [Next]_vars
  PROVE  clock' \in Nat /\ clock <= clock' /\ cloud \subseteq cloud'
<1> USE DEF vessels, server
<1>0. clock \in Nat
  BY ConstantsAssumption DEF TypeOK, Periods
<1>1. CASE Tick
  BY <1>0, <1>1 DEF Tick
<1>2. ASSUME \/ FlushVessel \/ LoseBatch \/ Refresh \/ StartCountCycle
             \/ SendDataRequest \/ WorkerReturns \/ RequesterConnects
             \/ RequesterRestarts \/ UNCHANGED vars
      PROVE  clock' = clock /\ cloud \subseteq cloud'
  BY <1>2 DEF FlushVessel, LoseBatch, Refresh, StartCountCycle,
     SendDataRequest, WorkerReturns, RequesterConnects, RequesterRestarts, vars
<1>3. ASSUME NEW r \in Rows, Produce(r) \/ DeliverRow(r) \/ LoseRow(r)
      PROVE  clock' = clock /\ cloud \subseteq cloud'
  BY <1>3 DEF Produce, DeliverRow, LoseRow
<1>4. ASSUME NEW o \in Origins, \/ ListPeriods(o) \/ SendCountRequest(o)
                                \/ EndCount(o) \/ ResponderConnects(o)
      PROVE  clock' = clock /\ cloud \subseteq cloud'
  BY <1>4 DEF ListPeriods, SendCountRequest, EndCount, ResponderConnects
<1>5. ASSUME NEW k \in Slots, StartDataCycle(k) \/ \E o \in Origins : Queue(k, o)
      PROVE  clock' = clock /\ cloud \subseteq cloud'
  BY <1>5 DEF StartDataCycle, Queue
<1>6. ASSUME NEW m \in requests, \/ RespondWithCount(m) \/ RespondWithData(m)
                                 \/ LoseRequest(m)
      PROVE  clock' = clock /\ cloud \subseteq cloud'
  BY <1>6 DEF RespondWithCount, RespondWithData, LoseRequest
<1>7. ASSUME NEW m \in responses, CountResponseReceived(m) \/ LoseResponse(m)
      PROVE  clock' = clock /\ cloud \subseteq cloud'
  BY <1>7 DEF CountResponseReceived, LoseResponse
<1> QED
  BY <1>0, <1>1, <1>2, <1>3, <1>4, <1>5, <1>6, <1>7
     DEF Next, Progress, Disturbance

(* A closed period stays closed.                                           *)
LEMMA ClosedStays ==
  ASSUME TypeOK, [Next]_vars, NEW p \in Periods, Closed(p)
  PROVE  Closed(p)'
BY Monotone, ConstantsAssumption, SMTT(60) DEF Closed, TypeOK, Periods

(* No row of a closed period, or of the edge after it, is still queued.    *)
LEMMA BatchOpen ==
  ASSUME TypeOK, ClosedInv, NEW p \in Periods, Closed(p), NEW r \in batch
  PROVE  r.bucket # p /\ ~InWindow(r, p)
<1>1. r.bucket \in Periods /\ p + 3 <= clock /\ clock <= r.bucket + 1
      /\ clock \in Nat
  BY ConstantsAssumption DEF TypeOK, ClosedInv, WorkClosed, Closed, RowType, Periods
<1> QED
  BY <1>1 DEF InWindow, Periods

(* Hence the vessel's rows of a closed period are final.                   *)
LEMMA VesselFrozen ==
  ASSUME TypeOK, ClosedInv, [Next]_vars, NEW p \in Periods, Closed(p), NEW o
  PROVE  Bucket(vessel', o, p) = Bucket(vessel, o, p)
<1> USE DEF vessels
<1>1. CASE FlushVessel
  BY <1>1, BatchOpen DEF FlushVessel, Bucket
<1>2. CASE Tick \/ LoseBatch \/ Refresh \/ StartCountCycle
           \/ SendDataRequest \/ WorkerReturns \/ RequesterConnects
           \/ RequesterRestarts \/ UNCHANGED vars
  BY <1>2 DEF Tick, LoseBatch, Refresh, StartCountCycle,
     SendDataRequest, WorkerReturns, RequesterConnects, RequesterRestarts, vars
<1>3. ASSUME NEW r \in Rows, Produce(r) \/ DeliverRow(r) \/ LoseRow(r)
      PROVE  vessel' = vessel
  BY <1>3 DEF Produce, DeliverRow, LoseRow
<1>4. ASSUME NEW o1 \in Origins, \/ ListPeriods(o1) \/ SendCountRequest(o1)
                                 \/ EndCount(o1) \/ ResponderConnects(o1)
      PROVE  vessel' = vessel
  BY <1>4 DEF ListPeriods, SendCountRequest, EndCount, ResponderConnects
<1>5. ASSUME NEW k \in Slots, StartDataCycle(k) \/ \E o1 \in Origins : Queue(k, o1)
      PROVE  vessel' = vessel
  BY <1>5 DEF StartDataCycle, Queue
<1>6. ASSUME NEW m \in requests, \/ RespondWithCount(m) \/ RespondWithData(m)
                                 \/ LoseRequest(m)
      PROVE  vessel' = vessel
  BY <1>6 DEF RespondWithCount, RespondWithData, LoseRequest
<1>7. ASSUME NEW m \in responses, CountResponseReceived(m) \/ LoseResponse(m)
      PROVE  vessel' = vessel
  BY <1>7 DEF CountResponseReceived, LoseResponse
<1> QED
  BY <1>1, <1>2, <1>3, <1>4, <1>5, <1>6, <1>7 DEF Next, Progress, Disturbance

(* What the requester works on is closed.                                  *)
LEMMA WorkClosedStep ==
  ASSUME TypeOK, TypeOK', ClosedInv, [Next]_vars
  PROVE  WorkClosed'
<1> USE DEF vessels, counting, fetching
<1> DEFINE ClosedNext(p) == p + CoolDown <= clock'
<1>1. \A p \in Periods : Closed(p) => ClosedNext(p)
  BY ClosedStays DEF Closed
<1>2. /\ \A o \in Origins : countTodo[o] \subseteq Periods
      /\ \A k \in Slots, o \in Origins : feeder[k][o] \subseteq Periods
      /\ channel \in Seq(Origins \X Periods)
  BY SMTT(60) DEF TypeOK
<1>3. \A i \in 1 .. Len(channel) : channel[i] \in Origins \X Periods
  BY <1>2
<1>4. /\ \A o \in Origins : \A p \in countTodo[o] : ClosedNext(p)
      /\ \A o \in Origins, p \in Periods : remote[o][p] # NoCount => ClosedNext(p)
      /\ \A k \in Slots, o \in Origins : \A p \in feeder[k][o] : ClosedNext(p)
      /\ \A i \in 1 .. Len(channel) : ClosedNext(channel[i][2])
  <2>1. \A i \in 1 .. Len(channel) : channel[i][2] \in Periods
    BY <1>3
  <2> HIDE DEF ClosedNext
  <2> QED
    BY <1>1, <1>2, <2>1 DEF ClosedInv, WorkClosed
<1> DEFINE BatchNext == \A r \in batch' : clock' <= r.bucket + 1
           TodoNext == \A o \in Origins : \A p \in countTodo'[o] : ClosedNext(p)
           RemoteNext == \A o \in Origins, p \in Periods :
                           remote'[o][p] # NoCount => ClosedNext(p)
           FeederNext == \A k \in Slots, o \in Origins :
                           \A p \in feeder'[k][o] : ClosedNext(p)
           ChannelNext == \A i \in 1 .. Len(channel') : ClosedNext(channel'[i][2])
           Goal == BatchNext /\ TodoNext /\ RemoteNext /\ FeederNext /\ ChannelNext
<1> SUFFICES Goal
  BY DEF WorkClosed, Closed
<1>5. /\ batch' \subseteq batch /\ clock' = clock => BatchNext
      /\ UNCHANGED countTodo => TodoNext
      /\ UNCHANGED remote => RemoteNext
      /\ UNCHANGED feeder => FeederNext
      /\ UNCHANGED channel => ChannelNext
      /\ channel # <<>> /\ channel' = Tail(channel) => ChannelNext
  <2>1. batch' \subseteq batch /\ clock' = clock => BatchNext
    BY DEF ClosedInv, WorkClosed
  <2>2. ASSUME channel # <<>>, channel' = Tail(channel) PROVE ChannelNext
    <3>1. \A i \in 1 .. Len(channel') : i + 1 \in 1 .. Len(channel)
                                        /\ channel'[i] = channel[i + 1]
      BY <1>2, <2>2
    <3> QED
      BY <3>1, <1>4
  <2> QED
    BY <1>4, <2>1, <2>2
<1> HIDE DEF ClosedNext, BatchNext, TodoNext, RemoteNext, FeederNext, ChannelNext
<1>6. CASE Tick
  <2>1. BatchNext
    <3>1. \A r \in batch' : r.bucket \in Nat /\ r.bucket = clock /\ clock' = clock + 1
      BY <1>6, ConstantsAssumption DEF Tick, TypeOK, RowType, Periods
    <3> QED
      BY <3>1 DEF BatchNext
  <2> QED
    BY <1>5, <1>6, <2>1 DEF Tick
<1>7. CASE FlushVessel \/ LoseBatch \/ Refresh \/ StartCountCycle
           \/ RequesterConnects \/ UNCHANGED vars
  BY <1>5, <1>7 DEF FlushVessel, LoseBatch, Refresh, StartCountCycle,
     RequesterConnects, vars
<1>8. ASSUME NEW r \in Rows, Produce(r) PROVE Goal
  <2>1. BatchNext
    <3>1. r.bucket \in Nat /\ r.bucket = clock /\ clock' = clock
          /\ batch' = batch \cup {r}
      BY <1>8, ConstantsAssumption DEF Produce, RowType, Periods
    <3> QED
      BY <3>1 DEF BatchNext, ClosedInv, WorkClosed
  <2> QED
    BY <1>5, <1>8, <2>1 DEF Produce
<1>9. ASSUME NEW r \in Rows, DeliverRow(r) \/ LoseRow(r) PROVE Goal
  BY <1>5, <1>9 DEF DeliverRow, LoseRow
<1>10. ASSUME NEW o \in Origins, ListPeriods(o) PROVE Goal
  <2>1. TodoNext
    <3>1. \A p \in Periods : Closed(p) => ClosedNext(p)
      BY <1>1
    <3> QED
      BY <1>4, <1>10, <3>1 DEF ListPeriods, TodoNext, TypeOK
  <2> QED
    BY <1>5, <1>10, <2>1 DEF ListPeriods
<1>11. ASSUME NEW o \in Origins, SendCountRequest(o) PROVE Goal
  <2>1. TodoNext
    BY <1>4, <1>11 DEF SendCountRequest, TodoNext, TypeOK
  <2> QED
    BY <1>5, <1>11, <2>1 DEF SendCountRequest
<1>12. ASSUME NEW o \in Origins, EndCount(o) \/ ResponderConnects(o) PROVE Goal
  BY <1>5, <1>12 DEF EndCount, ResponderConnects
<1>13. ASSUME NEW k \in Slots, StartDataCycle(k) PROVE Goal
  <2>1. \A o \in Origins : \A p \in Newest(SelectIncompletePeriods(o)) :
          ClosedNext(p)
    BY <1>4 DEF Newest, SelectIncompletePeriods
  <2>2. FeederNext
    BY <1>4, <1>13, <2>1 DEF StartDataCycle, FeederNext, TypeOK
  <2> QED
    BY <1>5, <1>13, <2>2 DEF StartDataCycle
<1>14. ASSUME NEW k \in Slots, NEW o \in Origins, Queue(k, o) PROVE Goal
  <2>1. PICK p \in feeder[k][o] :
          /\ channel' = Append(channel, <<o, p>>)
          /\ feeder' = [feeder EXCEPT ![k][o] = @ \ {p}]
    BY <1>14 DEF Queue
  <2>2. ChannelNext
    <3>1. \A i \in 1 .. Len(channel') :
            \/ i \in 1 .. Len(channel) /\ channel'[i] = channel[i]
            \/ channel'[i] = <<o, p>>
      BY <1>2, <2>1
    <3> QED
      BY <1>4, <3>1 DEF ChannelNext
  <2>3. FeederNext
    BY <1>4, <2>1 DEF FeederNext, TypeOK
  <2> QED
    BY <1>5, <1>14, <2>2, <2>3 DEF Queue
<1>15. CASE SendDataRequest \/ WorkerReturns
  BY <1>5, <1>15 DEF SendDataRequest, WorkerReturns
<1>16. ASSUME NEW m \in requests, \/ RespondWithCount(m) \/ RespondWithData(m)
                                  \/ LoseRequest(m)
       PROVE  Goal
  BY <1>5, <1>16 DEF RespondWithCount, RespondWithData, LoseRequest
<1>17. ASSUME NEW m \in responses, LoseResponse(m) PROVE Goal
  BY <1>5, <1>17 DEF LoseResponse
<1>18. ASSUME NEW m \in responses, CountResponseReceived(m) PROVE Goal
  <2>1. Closed(m.period) /\ m.period \in Periods /\ m.origin \in Origins
    BY DEF ClosedInv, MessagesClosed, AllResponses, TypeOK, CountResponses
  <2>2. RemoteNext
    BY <1>1, <1>4, <1>18, <2>1, ZenonT(60) DEF CountResponseReceived, RemoteNext, TypeOK
  <2> QED
    BY <1>5, <1>18, <2>2 DEF CountResponseReceived
<1>19. CASE RequesterRestarts
  <2>1. TodoNext /\ FeederNext
    BY <1>19 DEF RequesterRestarts, TodoNext, FeederNext
  <2>2. Len(channel') = 0
    BY <1>19 DEF RequesterRestarts
  <2>3. ChannelNext
    BY <2>2 DEF ChannelNext
  <2> QED
    BY <1>5, <1>19, <2>1, <2>3 DEF RequesterRestarts
<1> QED
  BY <1>6, <1>7, <1>8, <1>9, <1>10, <1>11, <1>12, <1>13, <1>14, <1>15,
     <1>16, <1>17, <1>18, <1>19 DEF Next, Progress, Disturbance

(* Every message in the system is about a closed period: requests come     *)
(* from the requester's lists, responses from requests.                    *)
LEMMA MessagesClosedStep ==
  ASSUME TypeOK, TypeOK', ClosedInv, [Next]_vars
  PROVE  MessagesClosed'
<1> DEFINE ClosedNext(p) == p + CoolDown <= clock'
<1>1. \A p \in Periods : Closed(p) => ClosedNext(p)
  BY ClosedStays DEF Closed
<1>2. \A m \in AllRequests \cup AllResponses : m.period \in Periods
  BY DEF AllRequests, AllResponses, TypeOK, CountRequests, DataRequests,
     CountResponses
<1>3. \A m \in AllRequests \cup AllResponses : ClosedNext(m.period)
  BY <1>1, <1>2 DEF ClosedInv, MessagesClosed
<1> HIDE DEF ClosedNext
<1>4. \A m \in AllRequests' : ClosedNext(m.period)
  <2>1. CASE AllRequests' \subseteq AllRequests
    BY <1>3, <2>1
  <2>2. ASSUME NEW o \in Origins, NEW p \in countTodo[o],
               AllRequests' \subseteq AllRequests \cup {CountRequest(o, p)}
        PROVE  \A m \in AllRequests' : ClosedNext(m.period)
    <3>1. CountRequest(o, p).period = p
      BY DEF CountRequest
    <3>2. ClosedNext(p)
      BY <1>1 DEF ClosedInv, WorkClosed, TypeOK
    <3> QED
      BY <1>3, <2>2, <3>1, <3>2
  <2>3. ASSUME channel # <<>>, NEW o, NEW p, o = Head(channel)[1],
               p = Head(channel)[2],
               AllRequests' \subseteq AllRequests \cup
                 {DataRequest(o, p, SelectCountPerUuid(cloud, o, p))}
        PROVE  \A m \in AllRequests' : ClosedNext(m.period)
    <3>1. DataRequest(o, p, SelectCountPerUuid(cloud, o, p)).period = p
      BY DEF DataRequest
    <3>0. channel \in Seq(Origins \X Periods)
      BY DEF TypeOK
    <3>2. /\ 1 \in 1 .. Len(channel) /\ channel[1] = Head(channel)
          /\ Head(channel) \in Origins \X Periods
      BY <2>3, <3>0
    <3>3. p \in Periods /\ Closed(p)
      BY <2>3, <3>2 DEF ClosedInv, WorkClosed
    <3> QED
      BY <1>1, <1>3, <2>3, <3>1, <3>3
  <2> QED
    BY <2>1, <2>2, <2>3, MessageStep
<1>5. \A m \in AllResponses' : ClosedNext(m.period)
  <2>1. CASE AllResponses' \subseteq AllResponses
    BY <1>3, <2>1
  <2>2. ASSUME NEW m \in requests, NEW n,
               AllResponses' \subseteq AllResponses \cup
                 {CountResponse(m.origin, m.period, n)}
        PROVE  \A x \in AllResponses' : ClosedNext(x.period)
    <3>1. CountResponse(m.origin, m.period, n).period = m.period
      BY DEF CountResponse
    <3>2. ClosedNext(m.period)
      BY <1>3 DEF AllRequests
    <3> QED
      BY <1>3, <2>2, <3>1, <3>2
  <2> QED
    BY <2>1, <2>2, MessageStep
<1> QED
  BY <1>4, <1>5 DEF MessagesClosed, Closed, ClosedNext

-----------------------------------------------------------------------------
(* Counts. *)

(* A recorded count changes only by a response.                            *)
LEMMA RemoteStep ==
  ASSUME TypeOK, [Next]_vars
  PROVE  \/ UNCHANGED remote
         \/ \E m \in responses : CountResponseReceived(m)
<1>1. CASE Tick \/ FlushVessel \/ LoseBatch \/ Refresh \/ StartCountCycle
           \/ SendDataRequest \/ WorkerReturns \/ RequesterConnects
           \/ RequesterRestarts \/ UNCHANGED vars
  BY <1>1 DEF Tick, FlushVessel, LoseBatch, Refresh, StartCountCycle,
     SendDataRequest, WorkerReturns, RequesterConnects, RequesterRestarts, vars
<1>2. ASSUME NEW r \in Rows, Produce(r) \/ DeliverRow(r) \/ LoseRow(r)
      PROVE  UNCHANGED remote
  BY <1>2 DEF Produce, DeliverRow, LoseRow
<1>3. ASSUME NEW o \in Origins, \/ ListPeriods(o) \/ SendCountRequest(o)
                                \/ EndCount(o) \/ ResponderConnects(o)
      PROVE  UNCHANGED remote
  BY <1>3 DEF ListPeriods, SendCountRequest, EndCount, ResponderConnects
<1>4. ASSUME NEW k \in Slots, StartDataCycle(k) \/ \E o \in Origins : Queue(k, o)
      PROVE  UNCHANGED remote
  BY <1>4 DEF StartDataCycle, Queue
<1>5. ASSUME NEW m \in requests, \/ RespondWithCount(m) \/ RespondWithData(m)
                                 \/ LoseRequest(m)
      PROVE  UNCHANGED remote
  BY <1>5 DEF RespondWithCount, RespondWithData, LoseRequest
<1>6. ASSUME NEW m \in responses, LoseResponse(m) PROVE UNCHANGED remote
  BY <1>6 DEF LoseResponse
<1> QED
  BY <1>1, <1>2, <1>3, <1>4, <1>5, <1>6 DEF Next, Progress, Disturbance

(* Every answer stays the vessel's count: a new one is read after the      *)
(* period closed, and an old one stays right because the period is frozen. *)
LEMMA AnswersStep ==
  ASSUME TypeOK, TypeOK', ClosedInv, CountInv, [Next]_vars
  PROVE  \A m \in AllResponses' :
           m.dataPoints = Cardinality(Bucket(vessel', m.origin, m.period))
<1>1. \A m \in AllRequests \cup AllResponses : m.period \in Periods /\ Closed(m.period)
  <2>1. \A m \in AllRequests \cup AllResponses : m.period \in Periods
    BY DEF AllRequests, AllResponses, TypeOK, CountRequests, DataRequests,
       CountResponses
  <2> QED
    BY <2>1 DEF ClosedInv, MessagesClosed
<1>2. \A m \in AllRequests \cup AllResponses :
        Bucket(vessel', m.origin, m.period) = Bucket(vessel, m.origin, m.period)
  BY <1>1, VesselFrozen
<1>3. \A m \in AllResponses :
        m.dataPoints = Cardinality(Bucket(vessel', m.origin, m.period))
  BY <1>2 DEF CountInv
<1>4. CASE AllResponses' \subseteq AllResponses
  BY <1>3, <1>4
<1>5. ASSUME NEW m \in requests,
             AllResponses' \subseteq AllResponses \cup
               {CountResponse(m.origin, m.period,
                  Cardinality(Bucket(vessel, m.origin, m.period)))}
      PROVE  \A x \in AllResponses' :
               x.dataPoints = Cardinality(Bucket(vessel', x.origin, x.period))
  <2> DEFINE r == CountResponse(m.origin, m.period,
                    Cardinality(Bucket(vessel, m.origin, m.period)))
  <2>1. /\ r.origin = m.origin /\ r.period = m.period
        /\ r.dataPoints = Cardinality(Bucket(vessel, m.origin, m.period))
    BY DEF CountResponse
  <2>2. m \in AllRequests
    BY DEF AllRequests
  <2>3. r.dataPoints = Cardinality(Bucket(vessel', r.origin, r.period))
    BY <1>2, <2>1, <2>2
  <2> HIDE DEF r
  <2> QED
    BY <1>3, <1>5, <2>3 DEF r
<1> QED
  BY <1>4, <1>5, MessageStep

(* A count is recorded from a response, so it is the vessel's count too.   *)
LEMMA CountFinalStep ==
  ASSUME TypeOK, TypeOK', ClosedInv, CountInv, [Next]_vars
  PROVE  CountFinal'
<1>1. \A o \in Origins, p \in Periods : remote[o][p] # NoCount =>
        remote[o][p] = Cardinality(Bucket(vessel', o, p))
  BY VesselFrozen DEF CountInv, CountFinal, ClosedInv, WorkClosed
<1>2. CASE UNCHANGED remote
  BY <1>1, <1>2 DEF CountFinal
<1>3. ASSUME NEW m \in responses, CountResponseReceived(m) PROVE CountFinal'
  <2>1. /\ m.origin \in Origins /\ m.period \in Periods /\ vessel' = vessel
        /\ m.dataPoints = Cardinality(Bucket(vessel, m.origin, m.period))
    BY <1>3 DEF TypeOK, CountResponses, CountInv, AllResponses,
       CountResponseReceived, vessels
  <2>2. remote' = [remote EXCEPT ![m.origin][m.period] = m.dataPoints]
    BY <1>3 DEF CountResponseReceived
  <2>3. SUFFICES ASSUME NEW o \in Origins, NEW p \in Periods, remote'[o][p] # NoCount
                 PROVE  remote'[o][p] = Cardinality(Bucket(vessel', o, p))
    BY DEF CountFinal
  <2>4. remote \in [Origins -> [Periods -> Nat \cup {NoCount}]]
    BY DEF TypeOK
  <2>5. remote'[o][p] = IF o = m.origin /\ p = m.period THEN m.dataPoints
                                                       ELSE remote[o][p]
    BY <2>1, <2>2, <2>4
  <2> QED
    BY <1>1, <2>1, <2>3, <2>5
<1> QED
  BY <1>2, <1>3, RemoteStep

(* A report counts rows the server has, and the server keeps them.         *)
LEMMA ReportsStep ==
  ASSUME TypeOK, TypeOK', CountInv, [Next]_vars
  PROVE  \A m \in AllRequests' : m.command = "data" =>
           \A u \in Uuids :
             m.countsPerUuid[u] <= Cardinality(Window(cloud', m.origin, m.period, u))
<1>0. cloud \in SUBSET Rows /\ cloud' \in SUBSET Rows /\ cloud \subseteq cloud'
  BY Monotone DEF TypeOK
<1>1. \A o, p, u : /\ Cardinality(Window(cloud, o, p, u)) \in Nat
                   /\ Cardinality(Window(cloud', o, p, u)) \in Nat
                   /\ Cardinality(Window(cloud, o, p, u))
                        <= Cardinality(Window(cloud', o, p, u))
  BY <1>0, Selections, CountsGrow
<1>2. ASSUME NEW m \in AllRequests, m.command = "data", NEW u \in Uuids
      PROVE  m.countsPerUuid[u] <= Cardinality(Window(cloud', m.origin, m.period, u))
  <2>1. m \in DataRequests
    BY <1>2 DEF AllRequests, TypeOK, CountRequests
  <2>2. m.countsPerUuid[u] \in Nat
    BY <2>1 DEF DataRequests
  <2>3. m.countsPerUuid[u] <= Cardinality(Window(cloud, m.origin, m.period, u))
    BY <1>2 DEF CountInv
  <2> QED
    BY <1>1, <2>2, <2>3
<1>3. CASE AllRequests' \subseteq AllRequests
  BY <1>2, <1>3
<1>4. ASSUME NEW o \in Origins, NEW p \in countTodo[o],
             AllRequests' \subseteq AllRequests \cup {CountRequest(o, p)}
      PROVE  \A m \in AllRequests' : m.command = "data" => m \in AllRequests
  <2>1. CountRequest(o, p).command = "count"
    BY DEF CountRequest
  <2> QED
    BY <1>4, <2>1
<1>5. ASSUME NEW o, NEW p,
             AllRequests' \subseteq AllRequests \cup
               {DataRequest(o, p, SelectCountPerUuid(cloud, o, p))}
      PROVE  \A m \in AllRequests' : m.command = "data" =>
               \A u \in Uuids :
                 m.countsPerUuid[u] <= Cardinality(Window(cloud', m.origin, m.period, u))
  <2> DEFINE d == DataRequest(o, p, SelectCountPerUuid(cloud, o, p))
  <2>1. /\ d.origin = o /\ d.period = p
        /\ \A u \in Uuids : d.countsPerUuid[u] = Cardinality(Window(cloud, o, p, u))
    BY DEF DataRequest, SelectCountPerUuid
  <2>2. \A u \in Uuids :
          d.countsPerUuid[u] <= Cardinality(Window(cloud', d.origin, d.period, u))
    BY <1>1, <2>1
  <2> HIDE DEF d
  <2> QED
    BY <1>2, <1>5, <2>2 DEF d
<1> QED
  BY <1>2, <1>3, <1>4, <1>5, MessageStep

(* The aggregate is a count taken in the past of a table that grows.       *)
LEMMA AggregateStep ==
  ASSUME TypeOK, TypeOK', CountInv, [Next]_vars
  PROVE  \A o \in Origins, p \in Periods :
           mat'[o][p] <= Cardinality(Bucket(cloud', o, p))
<1>0. cloud \in SUBSET Rows /\ cloud' \in SUBSET Rows /\ cloud \subseteq cloud'
  BY Monotone DEF TypeOK
<1>1. \A o, p : /\ Cardinality(Bucket(cloud, o, p)) \in Nat
                /\ Cardinality(Bucket(cloud', o, p)) \in Nat
                /\ Cardinality(Bucket(cloud, o, p)) <= Cardinality(Bucket(cloud', o, p))
  BY <1>0, Selections, CountsGrow
<1>2. \A o \in Origins, p \in Periods :
        mat[o][p] \in Nat /\ mat[o][p] <= Cardinality(Bucket(cloud', o, p))
  BY <1>1, SMTT(60) DEF CountInv, TypeOK
<1>3. CASE UNCHANGED mat
  BY <1>2, <1>3
<1>4. CASE Refresh
  BY <1>1, <1>2, <1>4 DEF Refresh
<1>5. CASE Tick \/ FlushVessel \/ LoseBatch \/ StartCountCycle
           \/ SendDataRequest \/ WorkerReturns \/ RequesterConnects
           \/ RequesterRestarts \/ UNCHANGED vars
  BY <1>3, <1>5 DEF Tick, FlushVessel, LoseBatch, StartCountCycle, server,
     SendDataRequest, WorkerReturns, RequesterConnects, RequesterRestarts, vars
<1>6. ASSUME NEW r \in Rows, Produce(r) \/ DeliverRow(r) \/ LoseRow(r)
      PROVE  UNCHANGED mat
  BY <1>6 DEF Produce, DeliverRow, LoseRow, server
<1>7. ASSUME NEW o \in Origins, \/ ListPeriods(o) \/ SendCountRequest(o)
                                \/ EndCount(o) \/ ResponderConnects(o)
      PROVE  UNCHANGED mat
  BY <1>7 DEF ListPeriods, SendCountRequest, EndCount, ResponderConnects, server
<1>8. ASSUME NEW k \in Slots, StartDataCycle(k) \/ \E o \in Origins : Queue(k, o)
      PROVE  UNCHANGED mat
  BY <1>8 DEF StartDataCycle, Queue, server
<1>9. ASSUME NEW m \in requests, \/ RespondWithCount(m) \/ RespondWithData(m)
                                 \/ LoseRequest(m)
      PROVE  UNCHANGED mat
  BY <1>9 DEF RespondWithCount, RespondWithData, LoseRequest, server
<1>10. ASSUME NEW m \in responses, CountResponseReceived(m) \/ LoseResponse(m)
       PROVE  UNCHANGED mat
  BY <1>10 DEF CountResponseReceived, LoseResponse, server
<1> QED
  BY <1>3, <1>4, <1>5, <1>6, <1>7, <1>8, <1>9, <1>10
     DEF Next, Progress, Disturbance

-----------------------------------------------------------------------------
(* Stored rows. *)

(* The vessel's database and the wire are fed by the same mapper, and the  *)
(* responder sends only stored rows.                                       *)
LEMMA StoredStep ==
  ASSUME TypeOK, StoredInv, [Next]_vars
  PROVE  StoredInv'
<1> USE DEF StoredInv, vessels, server
<1>1. CASE Tick \/ Refresh \/ StartCountCycle \/ SendDataRequest
           \/ WorkerReturns \/ RequesterConnects \/ RequesterRestarts
           \/ UNCHANGED vars
  BY <1>1 DEF Tick, Refresh, StartCountCycle, SendDataRequest, WorkerReturns,
     RequesterConnects, RequesterRestarts, vars
<1>2. CASE FlushVessel
  BY <1>2 DEF FlushVessel
<1>3. CASE LoseBatch
  BY <1>3 DEF LoseBatch
<1>4. ASSUME NEW r \in Rows, Produce(r) \/ DeliverRow(r) \/ LoseRow(r)
      PROVE  StoredInv'
  BY <1>4 DEF Produce, DeliverRow, LoseRow
<1>5. ASSUME NEW o \in Origins, \/ ListPeriods(o) \/ SendCountRequest(o)
                                \/ EndCount(o) \/ ResponderConnects(o)
      PROVE  StoredInv'
  BY <1>5 DEF ListPeriods, SendCountRequest, EndCount, ResponderConnects
<1>6. ASSUME NEW k \in Slots, StartDataCycle(k) \/ \E o \in Origins : Queue(k, o)
      PROVE  StoredInv'
  BY <1>6 DEF StartDataCycle, Queue
<1>7. ASSUME NEW m \in requests, RespondWithCount(m) \/ LoseRequest(m)
      PROVE  StoredInv'
  BY <1>7 DEF RespondWithCount, LoseRequest
<1>8. ASSUME NEW m \in requests, RespondWithData(m) PROVE StoredInv'
  <2>1. \A u : Window(vessel, m.origin, m.period, u) \subseteq vessel
    BY DEF Window
  <2>2. InjectData(m) \subseteq vessel
    BY <2>1 DEF InjectData
  <2> QED
    BY <1>8, <2>2 DEF RespondWithData
<1>9. ASSUME NEW m \in responses, CountResponseReceived(m) \/ LoseResponse(m)
      PROVE  StoredInv'
  BY <1>9 DEF CountResponseReceived, LoseResponse
<1> QED
  BY <1>1, <1>2, <1>3, <1>4, <1>5, <1>6, <1>7, <1>8, <1>9
     DEF Next, Progress, Disturbance

-----------------------------------------------------------------------------
(* The theorems. *)

(* The inductive invariant holds initially.                                *)
LEMMA IndInvInit == Init => IndInv
<1> SUFFICES ASSUME Init PROVE IndInv
  OBVIOUS
<1>1. TypeOK
  BY TypeInit
<1>2. AllRequests = {} /\ AllResponses = {}
  BY DEF Init, AllRequests, AllResponses
<1>3. ClosedInv
  <2>1. Len(channel) = 0
    BY DEF Init
  <2>2. \A o \in Origins, p \in Periods : remote[o][p] = NoCount
    BY DEF Init
  <2> QED
    BY <1>2, <2>1, <2>2 DEF ClosedInv, WorkClosed, MessagesClosed, Init
<1>4. CountInv
  <2>1. \A o, p : Cardinality(Bucket(cloud, o, p)) \in Nat
    BY <1>1, Selections DEF TypeOK
  <2>2. \A o \in Origins, p \in Periods : mat[o][p] = 0
    BY DEF Init
  <2>3. CountFinal
    BY DEF Init, CountFinal
  <2> QED
    BY <1>2, <2>1, <2>2, <2>3 DEF CountInv
<1>5. StoredInv
  BY DEF Init, StoredInv
<1> QED
  BY <1>1, <1>3, <1>4, <1>5 DEF IndInv

(* Every step keeps it.                                                    *)
LEMMA IndInvStep == IndInv /\ [Next]_vars => IndInv'
<1> SUFFICES ASSUME IndInv, [Next]_vars PROVE IndInv'
  OBVIOUS
<1>1. TypeOK /\ ClosedInv /\ CountInv /\ StoredInv
  BY DEF IndInv
<1>2. TypeOK'
  BY <1>1, TypeStep
<1>3. ClosedInv'
  BY <1>1, <1>2, WorkClosedStep, MessagesClosedStep DEF ClosedInv
<1>4. CountInv'
  BY <1>1, <1>2, AnswersStep, CountFinalStep, ReportsStep, AggregateStep
     DEF CountInv
<1>5. StoredInv'
  BY <1>1, StoredStep
<1> QED
  BY <1>2, <1>3, <1>4, <1>5 DEF IndInv

(* The inductive invariant holds of the transfer: everything the requester *)
(* knows, asks or is told is about a period the vessel has finished.       *)
THEOREM Invariance == Spec => []IndInv
BY IndInvInit, IndInvStep, PTL DEF Spec

(* A recorded remote count is the vessel's count, whatever is lost,        *)
(* replayed or reordered, and even when the vessel loses batches.          *)
THEOREM CountsAreFinal == Spec => []CountFinal
<1>1. IndInv => CountFinal
  BY DEF IndInv, CountInv
<1> QED
  BY <1>1, Invariance, PTL

(* CreateRemoteCount never changes a count it has recorded.                *)
THEOREM CountsAreStable == Spec => CountStable
<1>1. ASSUME IndInv, IndInv', [Next]_vars
      PROVE  \A o \in Origins, p \in Periods :
               remote[o][p] # NoCount => remote'[o][p] = remote[o][p]
  <2> SUFFICES ASSUME NEW o \in Origins, NEW p \in Periods, remote[o][p] # NoCount
               PROVE  remote'[o][p] = remote[o][p]
    OBVIOUS
  <2>1. /\ TypeOK /\ ClosedInv /\ CountFinal /\ CountFinal' /\ Closed(p)
        /\ remote[o][p] = Cardinality(Bucket(vessel, o, p))
    BY <1>1 DEF IndInv, CountInv, ClosedInv, WorkClosed, CountFinal
  <2>2. Bucket(vessel', o, p) = Bucket(vessel, o, p)
    BY <1>1, <2>1, VesselFrozen
  <2>3. remote'[o][p] # NoCount
    <3>1. CASE UNCHANGED remote
      BY <3>1
    <3>2. ASSUME NEW m \in responses, CountResponseReceived(m)
          PROVE  remote'[o][p] # NoCount
      <4>1. m.dataPoints \in Nat /\ remote \in [Origins -> [Periods -> Nat \cup {NoCount}]]
        BY <2>1 DEF TypeOK, CountResponses
      <4>2. remote' = [remote EXCEPT ![m.origin][m.period] = m.dataPoints]
        BY <3>2 DEF CountResponseReceived
      <4>3. remote'[o][p] = remote[o][p] \/ remote'[o][p] = m.dataPoints
        BY <4>1, <4>2
      <4> QED
        BY <4>1, <4>3 DEF NoCount
    <3> QED
      BY <1>1, <2>1, <3>1, <3>2, RemoteStep
  <2> QED
    BY <2>1, <2>2, <2>3 DEF CountFinal
<1>2. IndInv /\ IndInv' /\ [Next]_vars =>
        [\A o \in Origins, p \in Periods :
           remote[o][p] # NoCount => remote'[o][p] = remote[o][p]]_vars
  BY <1>1
<1> QED
  BY <1>2, Invariance, PTL DEF Spec, CountStable

(* If the vessel lost no row of a period, the server has at most what the  *)
(* vessel has of it.                                                       *)
LEMMA ServerBelowVessel ==
  ASSUME IndInv, NEW o, NEW p, NEW u
  PROVE  /\ Bucket(produced, o, p) \subseteq vessel
              => Bucket(cloud, o, p) \subseteq Bucket(vessel, o, p)
         /\ Window(produced, o, p, u) \subseteq vessel
              => Window(cloud, o, p, u) \subseteq Window(vessel, o, p, u)
<1>1. cloud \subseteq produced
  BY DEF IndInv, StoredInv
<1> QED
  BY <1>1 DEF Bucket, Window

(* A period that is not requested any more is complete on the server.      *)
THEOREM CompletePeriodsAreComplete == Spec => []NoFalseComplete
<1>1. ASSUME IndInv PROVE NoFalseComplete
  <2> SUFFICES ASSUME NEW o \in Origins, NEW p \in Periods, remote[o][p] # NoCount,
                      LocalCount(o, p) >= remote[o][p],
                      Bucket(produced, o, p) \subseteq vessel
               PROVE  Bucket(vessel, o, p) \subseteq cloud
    BY DEF NoFalseComplete
  <2>1. /\ TypeOK
        /\ remote[o][p] = Cardinality(Bucket(vessel, o, p))
        /\ mat[o][p] \in Nat /\ mat[o][p] <= Cardinality(Bucket(cloud, o, p))
    BY <1>1 DEF IndInv, TypeOK, CountInv, CountFinal
  <2>2. /\ Bucket(vessel, o, p) \in SUBSET Rows
        /\ Cardinality(Bucket(vessel, o, p)) \in Nat
        /\ Cardinality(Bucket(cloud, o, p)) \in Nat
    BY <2>1, Selections DEF TypeOK
  <2>3. Cardinality(Bucket(vessel, o, p)) <= Cardinality(Bucket(cloud, o, p))
    BY <2>1, <2>2 DEF LocalCount
  <2>4. Bucket(cloud, o, p) \subseteq Bucket(vessel, o, p)
    BY <1>1, ServerBelowVessel
  <2>5. Bucket(vessel, o, p) \subseteq Bucket(cloud, o, p)
    BY <2>2, <2>3, <2>4, EqualCounts
  <2> QED
    BY <2>5 DEF Bucket
<1> QED
  BY <1>1, Invariance, PTL

(* The responder skips a uuid only when the server has all its rows, also  *)
(* for a request that was delayed, retained or duplicated.                 *)
THEOREM SkippedUuidsAreComplete == Spec => []SkipSound
<1>1. ASSUME IndInv PROVE SkipSound
  <2> SUFFICES ASSUME NEW m \in AllRequests, m.command = "data",
                      NEW u \in Uuids \ UuidsToTransmit(m),
                      Window(produced, m.origin, m.period, u) \subseteq vessel
               PROVE  Window(vessel, m.origin, m.period, u) \subseteq cloud
    BY DEF SkipSound
  <2> DEFINE V == Window(vessel, m.origin, m.period, u)
             C == Window(cloud, m.origin, m.period, u)
  <2>1. TypeOK /\ CountInv
    BY <1>1 DEF IndInv
  <2>2. m \in DataRequests
    BY <2>1 DEF AllRequests, TypeOK, CountRequests
  <2>3. m.period \in Periods /\ m.countsPerUuid[u] \in Nat
    BY <2>2 DEF DataRequests
  <2>4. m.countsPerUuid[u] <= Cardinality(C)
    BY <2>1 DEF CountInv
  <2>5. V \in SUBSET Rows /\ Cardinality(V) \in Nat /\ Cardinality(C) \in Nat
    BY <2>1, Selections DEF TypeOK
  <2>6. ~(Cardinality(V) > m.countsPerUuid[u])
    BY DEF UuidsToTransmit
  <2>7. C \subseteq V
    BY <1>1, ServerBelowVessel
  <2> HIDE DEF V, C
  <2>8. V \subseteq C
    <3>1. Cardinality(V) <= Cardinality(C)
      BY <2>3, <2>4, <2>5, <2>6
    <3> QED
      BY <3>1, <2>5, <2>7, EqualCounts
  <2> QED
    BY <2>8 DEF V, C, Window
<1> QED
  BY <1>1, Invariance, PTL

-----------------------------------------------------------------------------
(* The refinement of Replica. *)

(* A row that is produced or still in a batch belongs to a period that is  *)
(* not closed, so no count is recorded for it.                             *)
LEMMA OpenRows ==
  ASSUME IndInv, NEW r \in Rows, r \in batch \/ r.bucket = clock
  PROVE  Database!Open(r)
<1>1. r.origin \in Origins /\ r.bucket \in Periods /\ clock \in Nat
  BY ConstantsAssumption DEF IndInv, TypeOK, RowType, Periods
<1>2. clock <= r.bucket + 1
  BY <1>1 DEF IndInv, ClosedInv, WorkClosed, Periods
<1>3. ~Closed(r.bucket)
  BY <1>1, <1>2, ConstantsAssumption DEF Closed, Periods
<1> QED
  BY <1>1, <1>3 DEF Database!Open, IndInv, ClosedInv, WorkClosed

(* A response records the vessel's count, or the one recorded before.      *)
LEMMA ResponseRecords ==
  ASSUME IndInv, NEW m \in responses, CountResponseReceived(m)
  PROVE  \/ UNCHANGED Database!vars
         \/ \E o \in Origins, p \in Periods : Database!Record(o, p)
<1> DEFINE o == m.origin
           p == m.period
<1>1. o \in Origins /\ p \in Periods
      /\ remote \in [Origins -> [Periods -> Nat \cup {NoCount}]]
  BY DEF IndInv, TypeOK, CountResponses
<1>2. m.dataPoints = Cardinality(Bucket(vessel, o, p))
  BY DEF IndInv, CountInv, AllResponses
<1>3. remote' = [remote EXCEPT ![o][p] = m.dataPoints]
      /\ UNCHANGED <<produced, vessel, cloud>>
  BY DEF CountResponseReceived, vessels, server
<1>4. Bucket(vessel, o, p) = Database!RowsOf(vessel, o, p)
  BY DEF Bucket, Database!RowsOf
<1>5. CASE remote[o][p] = NoCount
  <2>1. Database!Record(o, p)
    BY <1>2, <1>3, <1>4, <1>5 DEF Database!Record, Database!Cardinality, Cardinality
  <2> QED
    BY <1>1, <2>1
<1>6. CASE remote[o][p] # NoCount
  <2>1. remote[o][p] = m.dataPoints
    BY <1>1, <1>2, <1>6 DEF IndInv, CountInv, CountFinal
  <2> DEFINE f == remote[o]
  <2>2. f \in [Periods -> Nat \cup {NoCount}] /\ f[p] = m.dataPoints
    BY <1>1, <2>1
  <2>3. [f EXCEPT ![p] = m.dataPoints] = f
    BY <2>2
  <2>4. [remote EXCEPT ![o] = f] = remote
    BY <1>1
  <2>5. remote' = remote
    BY <1>1, <1>3, <2>3, <2>4
  <2> QED
    BY <1>3, <2>5 DEF Database!vars
<1> QED
  BY <1>5, <1>6

(* Every step of the transfer is a step of the replica or changes nothing  *)
(* the replica has.                                                        *)
LEMMA ReplicaStep ==
  ASSUME IndInv, [Next]_vars
  PROVE  [Database!Next]_(Database!vars)
<1> USE DEF vessels, server
<1>0. TypeOK /\ StoredInv
  BY DEF IndInv
<1>1. CASE Tick \/ LoseBatch \/ Refresh \/ StartCountCycle
           \/ SendDataRequest \/ WorkerReturns \/ RequesterConnects
           \/ RequesterRestarts \/ UNCHANGED vars
  <2>1. UNCHANGED <<produced, vessel, cloud, remote>>
    BY <1>1 DEF Tick, LoseBatch, Refresh, StartCountCycle, SendDataRequest,
       WorkerReturns, RequesterConnects, RequesterRestarts, vars
  <2> QED
    BY <2>1 DEF Database!vars
<1>2. CASE FlushVessel
  <2>1. batch \in SUBSET Rows /\ batch \subseteq produced
    BY <1>0 DEF TypeOK, StoredInv
  <2>2. Database!Store(batch)
    BY <1>2, <2>1, OpenRows DEF FlushVessel, Database!Store
  <2> QED
    BY <2>1, <2>2 DEF Database!Next
<1>3. ASSUME NEW r \in Rows, Produce(r) PROVE Database!Produce(r)
  BY <1>3, OpenRows DEF Produce, Database!Produce
<1>4. ASSUME NEW r \in Rows, DeliverRow(r) PROVE Database!Copy(r)
  BY <1>0, <1>4 DEF StoredInv, DeliverRow, Database!Copy
<1>5. ASSUME NEW r \in Rows, LoseRow(r) PROVE UNCHANGED Database!vars
  BY <1>5 DEF LoseRow, Database!vars
<1>6. ASSUME NEW o \in Origins, \/ ListPeriods(o) \/ SendCountRequest(o)
                                \/ EndCount(o) \/ ResponderConnects(o)
      PROVE  UNCHANGED Database!vars
  BY <1>6 DEF ListPeriods, SendCountRequest, EndCount, ResponderConnects,
     Database!vars
<1>7. ASSUME NEW k \in Slots, StartDataCycle(k) \/ \E o \in Origins : Queue(k, o)
      PROVE  UNCHANGED Database!vars
  BY <1>7 DEF StartDataCycle, Queue, Database!vars
<1>8. ASSUME NEW m \in requests, \/ RespondWithCount(m) \/ RespondWithData(m)
                                 \/ LoseRequest(m)
      PROVE  UNCHANGED Database!vars
  BY <1>8 DEF RespondWithCount, RespondWithData, LoseRequest, Database!vars
<1>9. ASSUME NEW m \in responses, LoseResponse(m) PROVE UNCHANGED Database!vars
  BY <1>9 DEF LoseResponse, Database!vars
<1>10. ASSUME NEW m \in responses, CountResponseReceived(m)
       PROVE  [Database!Next]_(Database!vars)
  BY <1>10, ResponseRecords DEF Database!Next
<1> QED
  BY <1>1, <1>2, <1>3, <1>4, <1>5, <1>6, <1>7, <1>8, <1>9, <1>10
     DEF Next, Progress, Disturbance, Database!Next

(* Seen from the databases, the transfer is the replica.                   *)
THEOREM Refinement == Spec => Replicates
<1>1. Init => Database!Init
  BY DEF Init, Database!Init
<1>2. IndInv /\ [Next]_vars => [Database!Next]_(Database!vars)
  BY ReplicaStep
<1> QED
  BY <1>1, <1>2, Invariance, PTL DEF Spec, Replicates, Database!Spec

=============================================================================
