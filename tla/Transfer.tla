------------------------------ MODULE Transfer ------------------------------
(***************************************************************************)
(* The transfer of missing data from vessels to a central server.          *)
(*                                                                         *)
(* A vessel (an origin) stores its mapped data in its own database and     *)
(* also publishes it live; what is lost on the way is repaired later.  The *)
(* requester on the server asks each origin how many rows it has in a five *)
(* minute period (count request), compares the answer with its own count   *)
(* and, when it has less, asks for the rows (data request, carrying the    *)
(* number of rows it has per raw-data uuid).  The responder on the vessel  *)
(* sends the uuids of which it has more rows through the same pipeline as  *)
(* the live data.  Requests and responses travel over MQTT with QoS 0,     *)
(* retained, and are handled in any order (SetOrderMatters(false)).        *)
(*                                                                         *)
(* Time is counted in periods.  A row is identified by the columns of the  *)
(* unique index of mapped_data, so a table is a set of rows and            *)
(* "ON CONFLICT DO NOTHING" is set union.  The transfer_log table and the  *)
(* prometheus counters are only ever written and are left out.             *)
(***************************************************************************)
EXTENDS Integers, Sequences, FiniteSets

CONSTANTS
  Origins,                 \* the vessels
  Uuids,                   \* uuids of raw messages
  NilUuid,                 \* uuid.Nil
  Rows,                    \* the rows of mapped_data that may be produced
  CoolDown,                \* countRequestCoolDown, in periods
  StartOffset, EndOffset,  \* of the refresh of transfer_local_data, in periods
  MaxPeriodsToRequest,     \* maxPeriodsToRequest
  NumberOfRequestWorkers,  \* numberOfRequestWorkers
  Slots,                   \* bound: data cycles whose goroutines overlap
  LastPeriod,              \* bound: last period that is asked about
  MaxClock,                \* bound: last value of the clock
  MaxInFlight,             \* bound: requests, or answers, on their way at the same time
  VesselMayLose,           \* a batch of the vessel's own database may fail
  DatabaseMayFail          \* a query of a request worker may fail

Periods == 0 .. LastPeriod

(* edge: the row carries exactly the timestamp at which its period starts. *)
(* key: the columns of the unique index besides time and origin.           *)
RowType == [origin : Origins, bucket : Periods, uuid : Uuids,
            edge : BOOLEAN, key : Nat]

ASSUME ConstantsAssumption ==
  /\ Rows \subseteq RowType /\ IsFiniteSet(Rows)
  /\ NilUuid \in Uuids
  /\ CoolDown \in Nat /\ CoolDown > 2
  /\ StartOffset \in Nat /\ EndOffset \in Nat
  /\ MaxPeriodsToRequest \in Nat
  /\ NumberOfRequestWorkers \in Nat \ {0}
  /\ LastPeriod \in Nat /\ MaxClock \in Nat
  /\ MaxInFlight \in Nat
  /\ VesselMayLose \in BOOLEAN
  /\ DatabaseMayFail \in BOOLEAN

VARIABLES
  clock,         \* the current period
  produced,      \* rows the mappers of the vessels have published
  batch,         \* rows in the write batch of a vessel's database
  vessel,        \* mapped_data on the vessels
  wire,          \* rows on their way to the server
  cloud,         \* mapped_data on the server
  mat,           \* materialised part of transfer_local_data on the server
  watermark,     \* periods before it are read from mat, the others live
  remote,        \* transfer_remote_data on the server
  countPc,       \* per origin: state of the count goroutine
  countTodo,     \* per origin: periods the count goroutine has yet to request
  countStart,    \* per origin: first period with data (origins map)
  existing,      \* snapshot of the recorded counts (existingRemoteCounts)
  feeder,        \* per data cycle and origin: periods still to be queued
  channel,       \* dataRequestChannel
  workers,       \* request workers that are still running
  requests,      \* request messages on their way to the responders
  lastRequest,   \* retained message of each request topic ({} if none)
  responses,     \* count responses on their way to the requester
  lastResponse   \* retained message of each respond topic ({} if none)

vessels == <<clock, produced, batch, vessel>>
server == <<cloud, mat, watermark>>
counting == <<countPc, countTodo, countStart, existing>>
fetching == <<feeder, channel, workers>>
requestNet == <<requests, lastRequest>>
responseNet == <<responses, lastResponse>>
vars == <<vessels, wire, server, remote, counting, fetching, requestNet,
          responseNet>>

NoCount == -1

-----------------------------------------------------------------------------
(* Queries. *)

Bucket(db, o, p) == {r \in db : r.origin = o /\ r.bucket = p}

(* "time" BETWEEN $2 AND $2 + '5m': both ends are included. *)
InWindow(r, p) == r.bucket = p \/ (r.edge /\ r.bucket = p + 1)

Window(db, o, p, u) ==
  {r \in db : r.origin = o /\ InWindow(r, p) /\ r.uuid = u}

(* Mutant: GROUP BY without the uuid. *)
SelectCountPerUuid_Ungrouped(db, o, p) ==
  [u \in Uuids |-> Cardinality(UNION {Window(db, o, p, v) : v \in Uuids})]

SelectCountPerUuid(db, o, p) ==
  [u \in Uuids |-> Cardinality(Window(db, o, p, u))]

(* The count transfer_local_data shows on the server: a continuous         *)
(* aggregate reads materialised buckets below its watermark.               *)
LocalCount(o, p) ==
  IF p < watermark THEN mat[o][p] ELSE Cardinality(Bucket(cloud, o, p))

LocalPeriods(o) == {p \in Periods : LocalCount(o, p) > 0}

(* The view transfer_data restricted to local_count < remote_count. *)
SelectIncompletePeriods(o) ==
  {p \in Periods :
     /\ remote[o][p] # NoCount
     /\ LocalCount(o, p) < remote[o][p]
     /\ \E o1 \in Origins : \E q \in LocalPeriods(o1) : q <= p
     /\ \E o1 \in Origins : \E q \in LocalPeriods(o1) : p <= q}


(* "ORDER BY start DESC", cut off where i > maxPeriodsToRequest. *)
Newest(S) ==
  {p \in S : Cardinality({q \in S : q > p}) <= MaxPeriodsToRequest}

IsMin(p, S) == p \in S /\ \A q \in S : p <= q
IsMax(p, S) == p \in S /\ \A q \in S : q <= p

(* Mutant: every period that is over is counted. *)
Closed_NoCoolDown(p) == p < clock

(* Before(time.Now().Add(-countRequestCoolDown)); now lies inside the      *)
(* period clock, so a period is closed from p + CoolDown on.               *)
Closed(p) == p + CoolDown <= clock

-----------------------------------------------------------------------------
(* Messages. *)

CountRequest(o, p) == [command |-> "count", origin |-> o, period |-> p]
DataRequest(o, p, c) ==
  [command |-> "data", origin |-> o, period |-> p, countsPerUuid |-> c]
CountResponse(o, p, n) == [origin |-> o, period |-> p, dataPoints |-> n]

CountRequests == [command : {"count"}, origin : Origins, period : Periods]
DataRequests == [command : {"data"}, origin : Origins, period : Periods,
                 countsPerUuid : [Uuids -> Nat]]
CountResponses == [origin : Origins, period : Periods, dataPoints : Nat]

(* sendMQTTCommand: publish with QoS 0, retained. *)
PublishRequest(m) ==
  /\ Cardinality(requests) < MaxInFlight
  /\ requests' = requests \cup {m}
  /\ lastRequest' = [lastRequest EXCEPT ![m.origin] = {m}]

-----------------------------------------------------------------------------
Init ==
  /\ clock = 0
  /\ produced = {} /\ batch = {} /\ vessel = {} /\ wire = {} /\ cloud = {}
  /\ mat = [o \in Origins |-> [p \in Periods |-> 0]]
  /\ watermark = 0
  /\ remote = [o \in Origins |-> [p \in Periods |-> NoCount]]
  /\ countPc = [o \in Origins |-> "done"]
  /\ countTodo = [o \in Origins |-> {}]
  /\ countStart = [o \in Origins |-> 0]
  /\ existing = {}
  /\ feeder = [k \in Slots |-> [o \in Origins |-> {}]]
  /\ channel = <<>>
  /\ workers = NumberOfRequestWorkers
  /\ requests = {} /\ lastRequest = [o \in Origins |-> {}]
  /\ responses = {} /\ lastResponse = [o \in Origins |-> {}]

-----------------------------------------------------------------------------
(* The vessel and the pipeline to the server. *)

(* Time passes.  It is assumed that the vessel flushes a batch (or loses   *)
(* it) in time: a row is not queued any more when the period after its own *)
(* is over.  Nothing in flushBatch bounds its wait for a connection; that  *)
(* it is much shorter than the cool-down of an hour is what the code rests *)
(* on.                                                                     *)
Tick ==
  /\ clock < MaxClock
  /\ \A r \in batch : r.bucket = clock
  /\ clock' = clock + 1
  /\ UNCHANGED <<produced, batch, vessel, wire, server, remote, counting,
                 fetching, requestNet, responseNet>>

(* A mapper publishes a row: the database writer queues it, the MQTT       *)
(* writer sends it to the server.                                          *)
Produce(r) ==
  /\ r \notin produced /\ r.bucket = clock
  /\ produced' = produced \cup {r}
  /\ batch' = batch \cup {r}
  /\ wire' = wire \cup {r}
  /\ UNCHANGED <<clock, vessel, server, remote, counting, fetching,
                 requestNet, responseNet>>

FlushVessel ==
  /\ batch # {}
  /\ vessel' = vessel \cup batch
  /\ batch' = {}
  /\ UNCHANGED <<clock, produced, wire, server, remote, counting, fetching,
                 requestNet, responseNet>>

(* A flush that times out is not retried. *)
LoseBatch ==
  /\ VesselMayLose
  /\ batch # {}
  /\ batch' = {}
  /\ UNCHANGED <<clock, produced, vessel, wire, server, remote, counting,
                 fetching, requestNet, responseNet>>

DeliverRow(r) ==
  /\ r \in wire
  /\ wire' = wire \ {r}
  /\ cloud' = cloud \cup {r}
  /\ UNCHANGED <<vessels, mat, watermark, remote, counting, fetching,
                 requestNet, responseNet>>

LoseRow(r) ==
  /\ r \in wire
  /\ wire' = wire \ {r}
  /\ UNCHANGED <<vessels, server, remote, counting, fetching, requestNet,
                 responseNet>>

(* Mutant: a bucket takes the first instant of the next one as well.       *)
Refresh_Inclusive ==
  /\ mat' = [o \in Origins |-> [p \in Periods |->
               IF clock < p + StartOffset /\ p + EndOffset < clock
               THEN Cardinality({r \in cloud : r.origin = o /\ InWindow(r, p)})
               ELSE mat[o][p]]]
  /\ watermark' \in 0 .. LastPeriod + 1
  /\ \A p \in Periods : p < watermark' <=>
       \E q \in p .. LastPeriod : \E o \in Origins : mat'[o][q] > 0
  /\ UNCHANGED <<vessels, wire, cloud, remote, counting, fetching,
                 requestNet, responseNet>>

(* The refresh policy of the continuous aggregate takes the buckets that   *)
(* lie between the offsets ('7 day' and '1 hour' before now); what it had  *)
(* materialised of older ones stays as it is.  The watermark is the end of *)
(* the last materialised bucket.                                           *)
Refresh ==
  /\ mat' = [o \in Origins |-> [p \in Periods |->
               IF clock < p + StartOffset /\ p + EndOffset < clock
               THEN Cardinality(Bucket(cloud, o, p)) ELSE mat[o][p]]]
  /\ watermark' \in 0 .. LastPeriod + 1
  /\ \A p \in Periods : p < watermark' <=>
       \E q \in p .. LastPeriod : \E o \in Origins : mat'[o][q] > 0
  /\ UNCHANGED <<vessels, wire, cloud, remote, counting, fetching,
                 requestNet, responseNet>>

-----------------------------------------------------------------------------
(* sendCountRequests. *)

StartCountCycle ==
  /\ \A o \in Origins : countPc[o] = "done"
  /\ \E o \in Origins : LocalPeriods(o) # {}
  /\ countPc' = [o \in Origins |->
                   IF LocalPeriods(o) # {} THEN "wait" ELSE "done"]
  /\ countStart' \in [Origins -> Periods]
  /\ \A o \in Origins :
       IF LocalPeriods(o) # {} THEN IsMin(countStart'[o], LocalPeriods(o))
                               ELSE countStart'[o] = 0
  /\ existing' = {x \in Origins \X Periods : remote[x[1]][x[2]] # NoCount}
  /\ UNCHANGED <<vessels, wire, server, remote, countTodo, fetching,
                 requestNet, responseNet>>

(* The goroutine of an origin wakes up and lists its periods. *)
ListPeriods(o) ==
  /\ countPc[o] = "wait"
  /\ countPc' = [countPc EXCEPT ![o] = "send"]
  /\ countTodo' = [countTodo EXCEPT ![o] =
       {p \in Periods : countStart[o] <= p /\ Closed(p)
                          /\ <<o, p>> \notin existing}]
  /\ countStart' = [countStart EXCEPT ![o] = 0]
  /\ UNCHANGED <<vessels, wire, server, remote, existing, fetching,
                 requestNet, responseNet>>

SendCountRequest(o) ==
  /\ countPc[o] = "send"
  /\ \E p \in countTodo[o] :
       /\ IsMin(p, countTodo[o])
       /\ PublishRequest(CountRequest(o, p))
       /\ countTodo' = [countTodo EXCEPT ![o] = @ \ {p}]
  /\ UNCHANGED <<vessels, wire, server, remote, countPc, countStart, existing,
                 fetching, responseNet>>

(* wg.Done() *)
EndCount(o) ==
  /\ countPc[o] = "send" /\ countTodo[o] = {}
  /\ countPc' = [countPc EXCEPT ![o] = "done"]
  /\ existing' = IF \A o1 \in Origins : countPc'[o1] = "done"
                 THEN {} ELSE existing
  /\ UNCHANGED <<vessels, wire, server, remote, countTodo, countStart,
                 fetching, requestNet, responseNet>>

-----------------------------------------------------------------------------
(* sendDataRequests and its workers. *)

(* A cycle does not wait for the goroutines of the cycle before it. *)
StartDataCycle(k) ==
  /\ \A o \in Origins : feeder[k][o] = {}
  /\ \E o \in Origins : SelectIncompletePeriods(o) # {}
  /\ feeder' = [feeder EXCEPT ![k] =
                  [o \in Origins |-> Newest(SelectIncompletePeriods(o))]]
  /\ UNCHANGED <<vessels, wire, server, remote, counting, channel, workers,
                 requestNet, responseNet>>

(* Mutant: the channel has no capacity. *)
Queue_NoCapacity(k, o) ==
  /\ \E p \in feeder[k][o] :
       /\ IsMax(p, feeder[k][o])
       /\ channel' = Append(channel, <<o, p>>)
       /\ feeder' = [feeder EXCEPT ![k][o] = @ \ {p}]
  /\ UNCHANGED <<vessels, wire, server, remote, counting, workers,
                 requestNet, responseNet>>

Queue(k, o) ==
  /\ Len(channel) < NumberOfRequestWorkers
  /\ \E p \in feeder[k][o] :
       /\ IsMax(p, feeder[k][o])
       /\ channel' = Append(channel, <<o, p>>)
       /\ feeder' = [feeder EXCEPT ![k][o] = @ \ {p}]
  /\ UNCHANGED <<vessels, wire, server, remote, counting, workers,
                 requestNet, responseNet>>

SendDataRequest ==
  /\ workers > 0 /\ channel # <<>>
  /\ LET o == Head(channel)[1]
         p == Head(channel)[2]
     IN  PublishRequest(DataRequest(o, p, SelectCountPerUuid(cloud, o, p)))
  /\ channel' = Tail(channel)
  /\ UNCHANGED <<vessels, wire, server, remote, counting, feeder, workers,
                 responseNet>>

(* The query fails: the worker returns, and nobody starts another one. *)
WorkerReturns ==
  /\ DatabaseMayFail
  /\ workers > 0 /\ channel # <<>>
  /\ channel' = Tail(channel)
  /\ workers' = workers - 1
  /\ UNCHANGED <<vessels, wire, server, remote, counting, feeder,
                 requestNet, responseNet>>

-----------------------------------------------------------------------------
(* The responder. *)

(* Mutant: the count is taken BETWEEN the start and the end of the period. *)
RespondWithCount_Inclusive(m) ==
  /\ m \in requests /\ m.command = "count"
  /\ Cardinality(responses) < MaxInFlight
  /\ LET r == CountResponse(m.origin, m.period,
                            Cardinality({x \in vessel : /\ x.origin = m.origin
                                                        /\ InWindow(x, m.period)}))
     IN  /\ responses' = responses \cup {r}
         /\ lastResponse' = [lastResponse EXCEPT ![m.origin] = {r}]
  /\ requests' = requests \ {m}
  /\ UNCHANGED <<vessels, wire, server, remote, counting, fetching,
                 lastRequest>>

RespondWithCount(m) ==
  /\ m \in requests /\ m.command = "count"
  /\ Cardinality(responses) < MaxInFlight
  /\ LET r == CountResponse(m.origin, m.period,
                            Cardinality(Bucket(vessel, m.origin, m.period)))
     IN  /\ responses' = responses \cup {r}
         /\ lastResponse' = [lastResponse EXCEPT ![m.origin] = {r}]
  /\ requests' = requests \ {m}
  /\ UNCHANGED <<vessels, wire, server, remote, counting, fetching,
                 lastRequest>>

(* Mutant: the vessel leaves the end of the period out of its own count. *)
UuidsToTransmit_HalfOpen(m) ==
  {u \in Uuids :
     Cardinality({r \in Bucket(vessel, m.origin, m.period) : r.uuid = u})
       > m.countsPerUuid[u]}

(* Uuids of which the vessel has more rows than the request reports. *)
UuidsToTransmit(m) ==
  {u \in Uuids :
     Cardinality(Window(vessel, m.origin, m.period, u)) > m.countsPerUuid[u]}

(* The slice of uuids is made with len(uuidsToTransmit) zero uuids in      *)
(* front, so the query also asks for uuid.Nil.                             *)
InjectData(m) ==
  LET uuids == UuidsToTransmit(m)
               \cup (IF UuidsToTransmit(m) = {} THEN {} ELSE {NilUuid})
  IN  UNION {Window(vessel, m.origin, m.period, u) : u \in uuids}

RespondWithData(m) ==
  /\ m \in requests /\ m.command = "data"
  /\ wire' = wire \cup InjectData(m)
  /\ requests' = requests \ {m}
  /\ UNCHANGED <<vessels, server, remote, counting, fetching, lastRequest,
                 responseNet>>

-----------------------------------------------------------------------------
(* The broker: QoS 0 may lose a message, a subscription gets the retained  *)
(* one again.  A request or response whose handler fails to use the        *)
(* database is dropped as well.                                            *)

LoseRequest(m) ==
  /\ m \in requests
  /\ requests' = requests \ {m}
  /\ UNCHANGED <<vessels, wire, server, remote, counting, fetching,
                 lastRequest, responseNet>>

LoseResponse(m) ==
  /\ m \in responses
  /\ responses' = responses \ {m}
  /\ UNCHANGED <<vessels, wire, server, remote, counting, fetching,
                 requestNet, lastResponse>>

ResponderConnects(o) ==
  /\ requests' = requests \cup lastRequest[o]
  /\ UNCHANGED <<vessels, wire, server, remote, counting, fetching,
                 lastRequest, responseNet>>

RequesterConnects ==
  /\ responses' = responses \cup UNION {lastResponse[o] : o \in Origins}
  /\ UNCHANGED <<vessels, wire, server, remote, counting, fetching,
                 requestNet, lastResponse>>

(* countResponseReceived: insert or update. *)
CountResponseReceived(m) ==
  /\ m \in responses
  /\ responses' = responses \ {m}
  /\ remote' = [remote EXCEPT ![m.origin][m.period] = m.dataPoints]
  /\ UNCHANGED <<vessels, wire, server, counting, fetching, requestNet,
                 lastResponse>>

(* The requester restarts: only its database survives. *)
RequesterRestarts ==
  /\ countPc' = [o \in Origins |-> "done"]
  /\ countTodo' = [o \in Origins |-> {}]
  /\ countStart' = [o \in Origins |-> 0]
  /\ existing' = {}
  /\ feeder' = [k \in Slots |-> [o \in Origins |-> {}]]
  /\ channel' = <<>>
  /\ workers' = NumberOfRequestWorkers
  /\ responses' = responses \cup UNION {lastResponse[o] : o \in Origins}
  /\ UNCHANGED <<vessels, wire, server, remote, requestNet, lastResponse>>

-----------------------------------------------------------------------------
(* What goes wrong: rows and messages are lost, the connections break, the *)
(* requester restarts.                                                     *)
Disturbance ==
  \/ LoseBatch \/ RequesterRestarts
  \/ RequesterConnects \/ \E o \in Origins : ResponderConnects(o)
  \/ \E r \in Rows : LoseRow(r)
  \/ \E m \in requests : LoseRequest(m)
  \/ \E m \in responses : LoseResponse(m)

Progress ==
  \/ Tick \/ FlushVessel
  \/ \E r \in Rows : Produce(r) \/ DeliverRow(r)
  \/ \E o \in Origins : ListPeriods(o) \/ SendCountRequest(o) \/ EndCount(o)
  \/ \E k \in Slots : StartDataCycle(k) \/ \E o \in Origins : Queue(k, o)
  \/ SendDataRequest \/ WorkerReturns
  \/ \E m \in requests : RespondWithCount(m) \/ RespondWithData(m)
  \/ \E m \in responses : CountResponseReceived(m)
  \/ StartCountCycle \/ Refresh

Next == Progress \/ Disturbance

Spec == Init /\ [][Next]_vars

(* The goroutines of both programs, the broker and the refresh policy keep *)
(* running; of the handlers of one client only that some handler does.     *)
(* From some point on nothing is lost and nobody restarts or reconnects.   *)
Fairness ==
  /\ WF_vessels(Tick \/ FlushVessel) /\ WF_server(Refresh)
  /\ \A r \in Rows : WF_wire(DeliverRow(r))
  /\ WF_counting(StartCountCycle)
  /\ \A o \in Origins :
       WF_counting(ListPeriods(o) \/ SendCountRequest(o) \/ EndCount(o))
  /\ \A k \in Slots :
       WF_fetching(StartDataCycle(k) \/ \E o \in Origins : Queue(k, o))
  /\ WF_fetching(SendDataRequest)
  /\ WF_requestNet(\E m \in requests : RespondWithCount(m) \/ RespondWithData(m))
  /\ WF_responseNet(\E m \in responses : CountResponseReceived(m))

FairSpec == Spec /\ Fairness /\ <>[][Progress]_vars

-----------------------------------------------------------------------------
(* Properties. *)

(* The types, with the capacity of dataRequestChannel.                     *)
TypeOK ==
  /\ clock \in 0 .. MaxClock
  /\ produced \subseteq Rows /\ batch \subseteq Rows /\ vessel \subseteq Rows
  /\ wire \subseteq Rows /\ cloud \subseteq Rows
  /\ mat \in [Origins -> [Periods -> Nat]]
  /\ watermark \in Nat
  /\ remote \in [Origins -> [Periods -> Nat \cup {NoCount}]]
  /\ countPc \in [Origins -> {"done", "wait", "send"}]
  /\ countTodo \in [Origins -> SUBSET Periods]
  /\ countStart \in [Origins -> Periods]
  /\ existing \subseteq Origins \X Periods
  /\ feeder \in [Slots -> [Origins -> SUBSET Periods]]
  /\ channel \in Seq(Origins \X Periods)
  /\ Len(channel) <= NumberOfRequestWorkers
  /\ workers \in 0 .. NumberOfRequestWorkers
  /\ requests \subseteq CountRequests \cup DataRequests
  /\ lastRequest \in [Origins -> SUBSET (CountRequests \cup DataRequests)]
  /\ responses \subseteq CountResponses
  /\ lastResponse \in [Origins -> SUBSET CountResponses]

AllRequests == requests \cup UNION {lastRequest[o] : o \in Origins}
AllResponses == responses \cup UNION {lastResponse[o] : o \in Origins}

(* A recorded remote count is the number of rows the vessel has, now and   *)
(* for ever: the cool-down of an hour keeps the requester from asking      *)
(* while the vessel still writes (sendCountRequests, CreateRemoteCount).   *)
CountFinal ==
  \A o \in Origins, p \in Periods :
    remote[o][p] # NoCount => remote[o][p] = Cardinality(Bucket(vessel, o, p))

(* Whatever order count responses arrive in, retained ones after a         *)
(* reconnect included, "DO UPDATE SET count" never replaces a recorded     *)
(* count by another one.                                                   *)
CountStable ==
  [][\A o \in Origins, p \in Periods :
       remote[o][p] # NoCount => remote'[o][p] = remote[o][p]]_vars

(* A period the requester treats as complete (it is not selected although  *)
(* its remote count is known) misses no row of the vessel, however stale   *)
(* the continuous aggregate is.  Only numbers of rows are compared, so it  *)
(* takes that no flush of the vessel lost a row of the period.             *)
NoFalseComplete ==
  \A o \in Origins, p \in Periods :
    (/\ remote[o][p] # NoCount /\ LocalCount(o, p) >= remote[o][p]
     /\ Bucket(produced, o, p) \subseteq vessel)
      => Bucket(vessel, o, p) \subseteq cloud

(* respondWithData: "remove from list because remote already has complete  *)
(* set".  A uuid the responder would skip for a request on its way, also a *)
(* retained or a duplicated one, has all its rows on the server; again if  *)
(* no flush of the vessel lost one of them.                                *)
SkipSound ==
  \A m \in AllRequests : m.command = "data" =>
    \A u \in Uuids \ UuidsToTransmit(m) :
      Window(produced, m.origin, m.period, u) \subseteq vessel
        => Window(vessel, m.origin, m.period, u) \subseteq cloud

(* Every period the requester works on is closed, so the vessel writes no  *)
(* row of it, nor of the period after it, any more.                        *)
WorkClosed ==
  /\ \A r \in batch : clock <= r.bucket + 1
  /\ \A o \in Origins : \A p \in countTodo[o] : Closed(p)
  /\ \A o \in Origins, p \in Periods : remote[o][p] # NoCount => Closed(p)
  /\ \A k \in Slots, o \in Origins : \A p \in feeder[k][o] : Closed(p)
  /\ \A i \in 1 .. Len(channel) : Closed(channel[i][2])

MessagesClosed == \A m \in AllRequests \cup AllResponses : Closed(m.period)

ClosedInv == WorkClosed /\ MessagesClosed

(* Every answer in the system is the vessel's final count, every report of *)
(* the server is at most what it has, and so is its aggregate.             *)
CountInv ==
  /\ CountFinal
  /\ \A m \in AllResponses :
       m.dataPoints = Cardinality(Bucket(vessel, m.origin, m.period))
  /\ \A m \in AllRequests : m.command = "data" =>
       \A u \in Uuids :
         m.countsPerUuid[u] <= Cardinality(Window(cloud, m.origin, m.period, u))
  /\ \A o \in Origins, p \in Periods :
       mat[o][p] <= Cardinality(Bucket(cloud, o, p))

(* The server has only rows a vessel has produced.                         *)
StoredInv == cloud \cup wire \cup vessel \cup batch \subseteq produced

(* The inductive invariant behind the safety properties: the cool-down     *)
(* freezes a period on the vessel before anything is said about it.        *)
IndInv == TypeOK /\ ClosedInv /\ CountInv /\ StoredInv

(* The two databases and the recorded counts, seen as a replica.           *)
Database == INSTANCE Replica WITH source <- vessel, copy <- cloud,
                                  count <- remote

(* Requester, responder, broker and the live path together do no more than *)
(* an atomic copy would: what a cycle does with stale counts, repeated or  *)
(* reordered messages is, seen from the databases, the copy of a row that  *)
(* was produced, the first record of an exact count, or nothing.           *)
Replicates == Database!Spec

(* Periods the repair can see: closed, not before the first period the     *)
(* server has of the origin, and not after the last one it has of any.     *)
Reachable(o, p) ==
  /\ Closed(p)
  /\ \E q \in LocalPeriods(o) : q <= p
  /\ \E o1 \in Origins : \E q \in LocalPeriods(o1) : p <= q

(* The refresh will not look at the period again, and has materialised     *)
(* fewer rows than there are by now.                                       *)
LeftBehind(o, p) ==
  /\ p + StartOffset <= clock /\ p < watermark
  /\ mat[o][p] < Cardinality(Bucket(cloud, o, p))

(* Missing data is transferred, and then left alone: all rows the vessel   *)
(* has of such a period reach the server, and the loops of request and     *)
(* response about it die out, also when the goroutines of several data     *)
(* cycles wait for the channel.  One period is left out: when its rows     *)
(* arrive after the start offset of the refresh (seven days), they never   *)
(* enter transfer_local_data and the period is requested for ever.  (Of a  *)
(* period without rows there is none.)                                     *)
Transferred ==
  \A o \in Origins, p \in {r.bucket : r \in Rows} :
    Reachable(o, p) ~>
      /\ Bucket(vessel, o, p) \subseteq cloud
      /\ p \in SelectIncompletePeriods(o) => LeftBehind(o, p)

=============================================================================
