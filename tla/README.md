# gosk in TLA+

gosk collects data on board of vessels, maps it to SignalK, stores it, publishes
it to other applications and transports it to a server on shore. This directory
holds TLA+ modules of the parts of gosk that have state shared by several
goroutines or programs, the TLC configurations that check them on small
instances, and TLAPS proofs of the most important results for every value of the
constants. `PROJECT.json` lists components, runs, mutants, the map from
definitions to source lines, findings, hazards and theorems.

## 1. Inventory

gosk is one binary with one command per micro service. Services exchange raw and
mapped messages over nanomsg publish/subscribe sockets, vessel and server over
MQTT; data is kept in PostgreSQL with TimescaleDB.

| component | state | operations | hard behaviour | what makes it correct |
|---|---|---|---|---|
| transfer requester (`transfer/request.go`) | goroutines per origin, a bounded channel, a pool of workers; `transfer_remote_data` | count cycle, data cycle, worker, count response | cycles overlap; messages are lost, come twice or out of order; restarts; failing queries | a period taken for complete is complete; missing rows arrive; requests die out |
| transfer responder (`transfer/respond.go`) | none besides the database | answer with a count, inject the rows of some uuids | requests may be old when they are answered | a uuid is skipped only if the server has all its rows |
| queries and views (`database/postgresql.go`, `database/migrations`) | `mapped_data`, continuous aggregate, views | counts, incomplete periods | the aggregate is stale between two refreshes, and for ever where the refresh no longer looks | counts are final or lower bounds |
| write batch (`database/postgresql.go`, `writer/postgresql.go`) | `db.batch`, `flushMutex`, `lastFlush` | queue, flush by length, flush by ticker | queueing takes no lock, flushes overlap, flushes fail | no batch is sent twice; no row waits for long |
| MQTT writer, client, reader (`writer/mqtt.go`, `mqtt/main.go`, `reader/mqtt.go`) | two buffers, retained message | append, flush, publish, receive | publishing goroutines overtake each other; reconnects replay | nothing lost, doubled or reordered in the writer |
| SignalK over HTTP (`writer/signalk_http.go`, `database/bigcache.go`) | cache, wait group | load, update, serve | updates, load and requests run at the same time | no answer from a cache that is half loaded; the cache does not go back; every request is answered |
| SignalK streaming (`writer/signalk_ws.go`) | map of clients, a channel each | connect, fan-out goroutine per delta, write, leave | clients leave while goroutines send to them | each delta once to each client; nobody waits for ever |
| modbus connector (`connector/modbus.go`, `protocol/modbus.go`) | one shared client, pollers, errors channel | poll, fail, restart, write a command | several goroutines on one client and one buffer each | every group is polled; what is published was read, from the right slave |
| modbus mapper (`mapper/modbus.go`, `protocol/modbus.go`) | registers, coils and deltas of the last message | encode, decode, evaluate mappings | 16-bit arithmetic, counters that wrap | decoded as read; only mappings that lie in the message |
| aggregate mapper, expression filter (`mapper/aggregate.go`, `mapper/expression_filter.go`, `mapper/expressions.go`) | environment of the last value per path | map a delta value by value, publish | deltas come late or not at all; expressions fail or compute what cannot be encoded | computed from what was heard last; nothing forbidden passes, nothing else is lost |
| rate limit filter (`mapper/ratelimit_filter.go`) | time of the last value passed per context and path | pass or drop a value | timestamps out of order | spaced, and what is dropped is represented |
| line connector (`connector/line.go`) | scanner with one buffer, stream | connect, scan, publish | slices of the buffer are overwritten; overlong lines; the end of the connection | every line once, in order; only a bounded number torn |
| HTTP connector (`connector/http.go`) | goroutine per URL group, stream | poll, publish | a failing URL | the other URLs go on |
| proxy (`nanomsg/proxy.go`) | goroutine per connector | receive and send | loss at both ends | order per connector |
| LWE writer (`writer/lwe.go`) | line counter under a mutex | goroutine per message | goroutines overtake each other | numbers are taken in turn |
| CAN connector; JSON, CSV, NMEA 0183 and CAN mappers | none | conversions | - | not modelled |
| websocket writer (`writer/websocket.go`) | hub, clients, subscriptions | register, broadcast, pumps | - | not modelled: no command starts it |
| standard output, configuration, commands | little or none | input, output, wiring | - | not modelled |

Calls between the modelled parts: the connector publishes raw values
(`ModbusConnector`) that the mapper decodes (`ModbusMapper`); mapped data goes to
the database writer (`PostgresqlBatch`), to the MQTT writer (`MqttPipeline`) and
to the SignalK writer (`SignalKModel`, `SignalKStream`); on the server the reader
republishes it for another database writer. Between mapper and writers the
aggregate mapper, the expression filter and the rate limit filter can be put in a
row (`MappedPipeline`); raw values of line and HTTP connectors go through the
proxy to the LWE writer (`RawPipeline`). `Transfer` is the composition of the
two databases, the live path and the repair protocol; it uses the database
writer and the live path as abstract steps (`FlushVessel`, `LoseBatch`,
`DeliverRow`, `LoseRow`) whose details the other modules have.

## 2. Modules

`X.tla` models, `MCX.tla` instantiates for TLC, `XProofs.tla` proves. Operators
whose name ends in `_Something` and whose comment starts with "Mutant" are
plausible wrong versions of the definition after them; they are used only to show
that the properties notice such a change.

### Transfer
Time (`clock`) is counted in the five-minute periods of the protocol. A row is
identified by the columns of the unique index of `mapped_data`; tables are sets
of rows, so `ON CONFLICT DO NOTHING` is set union. `edge` marks a row that lies
exactly on the start of its period: `BETWEEN` counts it in two windows, the
buckets of the views in one.

- Vessel: `Produce` hands a row to the write batch and to the live path;
  `FlushVessel` and `LoseBatch` are the outcomes of a flush. `Tick` waits for a
  flush: batches are flushed every 10 s and a period is 300 s. That a flush ends
  before the next period does is an assumption: sending has a timeout of 5 s,
  connecting has none.
- Server: `DeliverRow`, `LoseRow`; `Refresh` is the refresh policy of the
  continuous aggregate `transfer_local_data`, which looks back from
  `StartOffset` (seven days) to `EndOffset` (an hour); below the watermark the
  aggregate shows the count of the last refresh (`LocalCount`).
- Requester: `StartCountCycle`, `ListPeriods`, `SendCountRequest`, `EndCount`
  are `sendCountRequests`; `StartDataCycle`, `Queue` are `sendDataRequests`
  (a cycle does not wait for the goroutines of the one before);
  `SendDataRequest` and `WorkerReturns` are a worker.
- Responder: `RespondWithCount`, `RespondWithData` with `UuidsToTransmit` and
  `InjectData` (the slice of uuids starts with zero uuids, so `uuid.Nil` is
  asked for too).
- Network: QoS 0 loses messages (`LoseRequest`, `LoseResponse`; a handler whose
  query fails drops the message as well), retained messages come again
  (`ResponderConnects`, `RequesterConnects`), handlers run in any order;
  `RequesterRestarts` keeps only the database.

A failed query of `sendCountRequests` or `sendDataRequests` means sleeping and
trying again, a stuttering step. `transfer_log` and the counters for prometheus
are only written and are left out. The two queries of a count cycle are one
step, as are a worker's query and its publish. A vessel's own view of a closed
period equals its table, because its refresh takes a period only when its rows
have left the batch. Retention after three months is beyond the horizon of the model.

### Replica
What `Transfer` promises of the databases, without messages, clocks, caches and
goroutines: rows are produced, stored on the vessel, copied to the server, and
for a period of a vessel the number of its rows is recorded, once, when nothing
can be added to it any more. `Transfer!Replicates` is the refinement: `produced`,
the vessels' tables, the server's table and the recorded counts are the variables
of `Replica`; requests, responses, queues, refreshes and restarts are stuttering
steps. `Record` is the hard one: a count response may be late, repeated or
retained, and must still carry the final number.

### PostgresqlBatch
Workers queue rows into `db.batch` without a lock: `QueueLoad` reads the pointer
and the slice, `QueueStore` writes the longer slice, so a store can undo another
one or reach a batch that has been sent. `Check` starts a flush when the batch is
long. A flush tests the length, locks, swaps and sends in
separate steps (`FlushStart`, `FlushLock`, `FlushSwap`, `FlushSend` or
`FlushFail`). A failed batch is dropped as a whole (it is one implicit
transaction). Time is counted in ticks (`Tick`), which come whatever the flushes
do: the channel of the ticker has room for one, `TakeTick` is its goroutine,
which runs the flush itself, and a flush may last for any number of ticks.
`lastSlow` remembers the last tick that found a flush of an earlier tick running,
or the tick before not yet taken.

### MqttPipeline
`AppendToCache` with `FlushCache` is the double buffer of the writer, including
the early return when a message cannot be decoded; `Publish` is the goroutine of
`sendMQTT`; `MessageReceived` and `Emit` are the reader; `LoseBatch` and
`Reconnect` the broker. Compression is left out.

### SignalKModel
`ModelInit`, `ModelNext` and `ModelSpec` carry the name of the component, because
its proofs share a module with those of the stream. `LoadQuery`, `LoadGet`,
`LoadDone` are `readFromDatabase`; the database has a vessel's `mmsi` and `name`
as rows of their own, which `ReadMapped` turns into two values of the path ""
(`Loaded`). `UpdateGet` is a delta; `Get` and `Set` are the two halves of
`BigCache.WriteMapped`, whose read and write are separate steps; `Arrive`,
`Serve` and `Answer` are an HTTP request around `wg.Wait()`, with the error
answer when nothing is below its search path. A value maps fields to data,
because objects are merged field by field. `overlap` remembers the paths that
had two writers between `Get` and `Set` at once. Eviction from the cache is left
out.

### SignalKStream
`UpdateWebsocket` takes the snapshot of the clients, `NextClient` and `Send` are
its loop over unbuffered channels, `Connect`, `Write`, `WriteFails` and
`RemoveClient` the handler of a client. Between the last two the handler closes
the connection and receives no more, while the client is still in the map and
new snapshots take it.

### ModbusConnector
A poller sets the unit id (`SetUnit`), sends the request (`Request`), fills its
one buffer (`Fill`, two halves) and puts a slice of it on the channel (`Send`);
`Take` and `Encode` are `process`; `ReceiveError` is the return of `receive` and
its next call; `Panic` the send on the closed errors channel; `Receive`,
`Write` and `WriteNoCoil` a command, the last one a command to write a single
coil that is a header only, whose `coils[0]` does not exist. `meanwhile` remembers
for each poller the unit ids others set between its `SetUnit` and its `Request`.

### ModbusMapper
The encoding is modelled by what it does, on bytes and 16-bit words. `Handle` is
the path from an answer of the device through `Read` to `DoMap`; `Delta` keeps
the thresholds and the wrap by 65535 that the tests of the mapper expect;
`InMessage` adds modulo 2^16. Expressions are taken to succeed and their outputs
are represented by the set of mappings that were evaluated; for a path that
occurs twice the first mapping keeps its output, because `GetValueByPath`
returns the address of a copy. Register groups and mappings may end at the last
address, where the additions wrap to zero, but not beyond it
(`MapperAssumption`): a device has no more addresses.

### MappedProcess, ExpressionMappers, RateLimitFilter, MappedPipeline
`MappedProcess` is the loop of `processMapped` that the three processes share:
`Receive` decodes a delta (one boolean value rejects all of it, because
`Value.UnmarshalJSON` knows no booleans), `NextValue` and `Fail` are one turn of
`DoMap` over its values, `Publish` encodes the result (an infinity cannot be
encoded, and the whole delta is dropped) and hands it to the next process; `Lose`
is what nanomsg does to a subscriber that is behind.

`ExpressionMappers` has the environment per process, which knows paths but not
vessels: values of another vessel overwrite those of the own one, as in the code.
`AggregateValue` learns the value; `RunMapping` runs the mappings it triggers one
by one in the order configured, and the first output for a path stays;
`PublishAggregated` appends the computed values with the newest time of the
values that triggered something. `FilterValue` takes a value away when one
expression is true and gives the whole delta up when one fails. What an
expression computes is a constant (`eval`), and `runExpr` fails when a path has
not been heard or is also a static one. Paths that differ only in "." and "_",
which collide in the environment, are left out.

`RateLimitFilter` keeps the time of the last value passed on per context and
path; `PassValue` and `DropValue` are the two sides of the comparison.
`MappedPipeline` puts the three behind each other; `Measure` is whatever the
mappers before publish, in any order of time.

### RawSource, LineConnector, HttpConnector, LWEWriter, RawPipeline
`RawSource` is what the connectors share: a channel with room for one
(`stream`), the value `process` holds (`hand`), and a socket that may lose.
`LineConnector` models the buffer of `bufio.Scanner` by cells that hold a line
each: `Scan` puts a slice (a cell) on the stream, `Read` moves back to the front
of the buffer when it is full or half used and overwrites cells somebody still
holds (`Torn`); the race is undefined behaviour and its outcome a torn line.
`TooLong` ends the scan with an error, and the next call of `receive` goes on in
the middle of the line; `EndOfFile` is the loop over a closed connection, which
is never made again. `process` only
wraps a slice in a message, so a torn line differs in content and not in number.

`HttpConnector` has a poller per URL group; the first error ends it
(`FetchFails`), and `receive` waits for ever for goroutines that never report
that they are done. `LWEWriter` gets a goroutine per message; `Multicast` takes
the next line number under the mutex, when `IncludeLineCount` is configured. `RawPipeline` composes them: `Forward` is
the goroutine of the proxy for a connector.

## 3. Runs

| run | properties | shows |
|---|---|---|
| `transfer_safety` | `TypeOK CountFinal NoFalseComplete SkipSound IndInv Replicates` | recorded counts are final; nothing is taken for complete while a row is missing; the invariant of the proofs; the two databases implement `Replica` |
| `transfer_live` | `Transferred` | missing rows arrive and their period is no longer requested, also when the goroutines of two data cycles wait for the channel; only rows that arrive too late for the refresh leave their period requested for ever |
| `batch` | `SentOnce FlushWithin` | no batch is sent twice or while it is filled; a row waits for less than four ticks unless a flush outlasts an interval |
| `mqtt` | `TypeOK FlushOrder Conserved CacheBound DuplicatesBounded` | the buffers lose, double and reorder nothing; a bad message harms its own buffer only; duplicates come from reconnects only |
| `signalk_model` | `ServedComplete CacheForward Served` | answers represent what the database had of every path asked for; the cache goes back only where two writers of a path overlap; only a failed query leaves requests waiting |
| `signalk_stream` | `TypeOK Accounted RegisteredAlive DeliversUnlessStuck` | a delta is at one place per client; a client is registered from `addClient` to `removeClient`; only a client that left can hold a delta up |
| `modbus` | `SkewBound GroupsArePolled PanicCauses SlaveAnswers` | published values are at most two readings newer than sent; every group is polled; the program goes down only when two groups of one call fail or a command to write a coil names no value; a wrong slave answers only when its unit id was set between a poller's `SetUnitId` and its request |
| `modbus_mapper` | `Decoded EvaluatedInside DeltaFollows` | decoded as read; the right mappings, with two exceptions at the last address; the right deltas |
| `mapped_pipeline` | `AggregateFresh MeasuredPassed FilterSafe FilterLossless Spaced Represented` | aggregates are the first output for their path, computed from what was heard last, as new as the newest value that triggers one; values are lost only where an expression fails; nothing forbidden passes; what the rate limit drops is represented |
| `raw_pipeline` | `TornBound LinesInOrder NumbersInTurn LinesPublished HealthyPolled` | only the last two lines scanned can be torn; lines stay in order through the proxy; all are published; a healthy URL is polled for ever; line numbers are taken in turn |

Two runs show where the code does not do what a comment or the documentation
says; `PROJECT.json` quotes the lines.

| run | property | what happens |
|---|---|---|
| `transfer_workers` | `Transferred` | each failed query ends a worker for good; without workers nothing is requested any more |
| `batch_final` | `SentBatchIsFinal` | a row is appended to a batch that has been sent and is lost |

Other limits of the code are part of the properties that hold:
- `Transferred` excepts a period whose rows arrive after the start offset of the
  refresh (seven days): they never enter `transfer_local_data`, so the period
  counts as incomplete and is requested in every cycle
  (`20230517122705_shorter_refresh_policy_for_transfer_local_data.up.sql:4`).
- `FlushWithin` needs that no flush outlasts an interval while the row waits.
  `databaseTimeout` does not give that: it is set apart from the interval, and
  `GetConnection`, which every flush calls, pings and upgrades the database
  without a timeout (`database/postgresql.go:92`, `100`, `110`).
- `NoFalseComplete` and `SkipSound` need that the vessel lost no row of the
  period or uuid: only numbers of rows are compared.
- `CacheBound` excepts a buffer with a message that cannot be decoded: it is
  never flushed again.
- `ServedComplete` excepts what the cache drops: of the rows `mmsi` and `name` of a
  vessel, two values of one path, the older one when the newer is loaded first.
  Both it and `CacheForward` except paths whose writers overlap: the later `Set`
  undoes the earlier one.
- `Served` excepts a failed first query: `wg.Done()` is missing.
- `DeliversUnlessStuck` excepts a client that left: it blocks the goroutine of a
  delta for ever, and the clients after it never get the delta.
- `SkewBound` allows a published value to differ from the one sent: the poller
  reuses its buffer.
- `RegisteredAlive` includes a client whose handler is closing the connection:
  new deltas go to it, and their goroutines wait for ever.
- `SlaveAnswers` excepts a unit id that another goroutine changes between
  `SetUnitId` and the request.
- `GroupsArePolled` allows more and more pollers of a group after errors of other
  groups, and `PanicCauses` the panic on a channel that is closed and the one of
  `coils[0]` (`protocol/modbus.go:132`).
- `EvaluatedInside` excepts the last address: a mapping that ends there is
  evaluated on messages without all of its registers, and a message that ends
  there has no other mappings.
- `DeltaFollows` is about a group that follows itself: another group replaces
  the registers.
- `MeasuredPassed` and `FilterLossless` except deltas in which an expression
  computes an infinity or fails: all measured values go down with it, and what
  the filter let pass of the same delta before. A boolean an aggregate computes makes
  every subscriber reject the delta.
- `Represented` says less than a rate limit should: after one timestamp in the
  future nothing passes until then.
- `TornBound` allows two torn lines per turn of the buffer; `LinesPublished`
  excepts overlong lines, whose remains are published as a line; `HealthyPolled`
  is about URLs that never fail, because the others are never polled again.
- `NumbersInTurn` is about the numbers: datagrams leave in any order.

In four places a comment or a test of the repository says something else than
the code does. The modules follow the code, and the comments of the properties
say so:

| where | says | code and property |
|---|---|---|
| `config/main.go:240` | `buffer_size` is in MBs and the cache is flushed when it is reached | messages are counted, and the cache is flushed when the size is exceeded (`writer/mqtt.go:89`; `CacheBound`) |
| `mapper/modbus_test.go:90-140` | coils come packed into bits (`0xc0, 0x00` is two coils that are on) | two bytes for a coil, both ways (`Decoded`) |
| `mapper/modbus_test.go:109-140` with `modbus_test.yaml` | both mappings of one path are in the output | the first one's output stays (`EvaluatedInside`) |
| `mapper/expression_filter_test.yaml:3-6` | `path` is the path of the update to be filtered, the `sourcePaths` trigger the filter | `path` is not read; the value that triggers is the one dropped (`FilterSafe`, `FilterLossless`) |

They are not runs of their own: each is a difference between one line and
another, visible without a sequence of steps.

### Bounds
- `transfer_safety`: three rows (two uuids, one `uuid.Nil`, one on the edge of
  the period), a cool-down of three periods (the assumption is more than two,
  gosk has twelve), a clock that stops when the first period has closed
  (`MaxClock`), two messages of a kind on their way (`MaxInFlight`), a channel
  with room for one. `EndOffset` is two, less than the cool-down, so that the
  refresh acts within the clock and the aggregate is stale while counts come. The second data cycle finds the channel full, the edge row
  is counted in two windows, a request and a response are overtaken by others,
  and periods that are closed and open exist together. More vessels, rows,
  periods and messages are the business of the proofs.
- `transfer_live`: two rows of one uuid, so that a uuid can be partly missing,
  two messages of a kind on their way, the goroutines of two data cycles
  (`Slots`), a `StartOffset` of five and a clock that goes that far: rows
  arrive before, between and after the refreshes, also too late for the last one.
- `batch`: three rows, two workers, one flush beside the ticker's, five ticks:
  more than the four a row could wait.
- `mqtt`: buffers of size one, four messages and one that cannot be decoded:
  each buffer is used twice and the blocked one outgrows its size; one reconnect.
- `signalk_model`: two paths, one of them "" with the rows `mmsi` and `name`, deltas
  older and newer than what is stored, one request for everything and one with a
  search path. `signalk_stream`: three clients, two deltas: one client to leave, one
  before it and one after it.
- `modbus`: two groups of two slaves, two calls of `receive`, more readings of the
  first group: enough for the largest skew; two commands, one of them a header only.
  `modbus_mapper`: values and addresses at
  the edges of bytes and words, also the last address, and at the thresholds of
  the wrap; two mappings of one path.
- `mapped_pipeline`: four deltas out of five kinds, so that values are late, come
  twice and are overwritten by those of another vessel before an expression reads
  them, and one delta whose newest value triggers nothing; sockets with room for two, so that one delta waits behind another. Two mappings
  compute one path, two filters are about one path.
- `raw_pipeline`: four lines, the first of them too long, and a buffer of three
  cells: the scanner goes back to the front with two slices outside. Sockets with
  room for one lose under load; two line numbers, so that the count wraps.

Symmetry is used where no liveness is checked and the values are
interchangeable. `CHECK_DEADLOCK FALSE` is set where the rows, ticks, readings
or deltas are used up at the end; in `Transfer`, `ModbusMapper` and `RawPipeline`
the system never stops and deadlock is checked.

### Fairness
- `Transfer!FairSpec`: weak fairness of every goroutine and of the refresh policy;
  of the handlers of one client, which run in goroutines of their own, only that
  one of them goes on while there is any; and from some point on every step is a step of `Progress`: nothing is
  lost and nobody restarts or reconnects. gosk has no other way to make progress:
  it retries for ever and relies on a quiet period.
- `SignalKModel!ModelFairSpec`: goroutines and handlers run; deltas and requests need
  not come, and the query may fail.
- `SignalKStream!FairSpec`: weak fairness of handlers and loops, strong fairness
  of each send, because Go queues the senders on a channel and serves them in
  order. Nothing rests on `RemoveClient`: a client can delay it by not answering
  to the close.
- `RawPipeline!Spec`: weak fairness of the goroutines of the connectors (read and
  scan, take and publish) and strong fairness of each poller whose URL does not
  fail, again because senders that wait for a channel are served in turn. The device, the network,
  the proxy and the writer owe nothing; `FetchFails` need not happen.

## 4. Proofs

All proofs are checked by TLAPS from the assumptions of the modules
(`ConstantsAssumption`, `BatchAssumption`, `MappingAssumption`, ...), for any
number of vessels, rows, workers, flushes, messages, clients, groups, mappings,
deltas, lines and readings. Every invariant and the refinement that the passing
runs check are proved; what is left to TLC is named at the end.

**TransferProofs.** `Invariance` proves the inductive invariant `IndInv`:
- `ClosedInv`: everything the requester knows, has queued, has asked or is told
  is about a period that is closed; rows in a vessel's batch belong to the
  current period or the one before. This is where the cool-down is used: with it
  `VesselFrozen` shows that no step changes the vessel's rows of a closed period
  or of the first instant of the next one.
- `CountInv`: count responses are the vessel's final counts, also retained ones;
  the numbers in data requests and in the aggregate are at most what the server
  has now, because the server's table only grows.
- `StoredInv`: the server has only rows a vessel has produced.

None of the safety properties is inductive alone: a retained response would
falsify `CountFinal` if its number were not known to be final. From `IndInv`
follow `CountsAreFinal`, `CountsAreStable`, `CompletePeriodsAreComplete` and
`SkippedUuidsAreComplete`: if the vessel lost no row, the server's rows of a
period are a subset of the vessel's, and a finite subset with at least as many
members is the whole set (`EqualCounts`). `Refinement` maps every action to a
step of `Replica` or to a stutter (`ReplicaStep`);
`IndInv` gives the guards of `Replica`: that a row is only produced or stored for
a period without a recorded count, and that the count recorded is exact.

**PostgresqlBatchProofs.** `BatchesAreSentOnce`, by `FlushInv` (`FlushesAreApart`):
the holder of the mutex has the current batch, flushes that are sending have
older ones, all different and not sent yet. `RowsDoNotWait`, by `AgeInv`: of a
row in the current batch, or in a slice that may still be stored into it, one
says by its age in ticks what can be going on, as long as no flush has outlasted
an interval since it was queued. After one tick only flushes that ran before that
tick can still be sending an older batch; these end before the next one, so after
two ticks none is, `lastFlush` stays behind, and the third tick starts the
ticker's flush, which swaps the batch before the fourth is over. Nothing is
assumed of how long flushes take; it is the property that has the condition.

**MqttPipelineProofs.** `AppendCases` rewrites the action in terms of the buffer
in use and the other one. `WriterInv`: the other buffer is empty or holds a
message that cannot be decoded, each buffer is in the order of arrival, and
unless the buffer in use holds such a message, what was flushed arrived before
it. It gives `NothingIsLost`, `BuffersAreBounded` and `BuffersKeepTheOrder`.
`ReconnectsDuplicate` counts for each message how often it was published, the
goroutines that still have it to send, and a batch on its way: together at most
one more than the reconnects (`Counted`), because no message is twice in a batch
or in two of them (`Apart`).

**SignalKProofs.** Of the full data model: `AnswersAreComplete`, because what was
read from the database is still to be written, in the hand of the loader, or
represented in the cache; two writers between `Get` and `Set` of one path are in
`overlap`, so any other `Set` writes what it decided from the cached value it
replaces, which is also why `CacheGoesForward`. Of the stream:
`DeltasAreAccounted` and `RegisteredHaveHandlers`, by an invariant that ties a
goroutine's position in its snapshot to the client it sends to, and the map of the
clients to the state of their handlers.

**ModbusConnectorProofs.** `PollersRun` and `PanicsAreExplained` follow the calls
of `receive` and who of their pollers has failed; `AnswersAreExplained` follows
the unit id from `SetUnit` to the request: it is the poller's own or one in its
`meanwhile`; `SkewIsBounded` needs where a slice of
the poller's buffer is (channel, hand, message) and how many readings were taken
since it was put there.

**ModbusMapperProofs.** `AnswersAreDecoded`: words, registers, coils and headers
survive encoding and decoding (one lemma each), so the mapper sees what the
device answered. `MappingsAreInside`: the 16-bit test accepts exactly the mappings
whose registers are in the message, but for the two cases at the last address;
with it and the
first of the mappings of a path (`SmallestNumber`, by the well-foundedness of the
natural numbers) `MappingsAreEvaluated`. `DeltasFollow`: the registers are those
of the last message that had any (`LastInv`), so a delta of a group that follows
itself is computed from them, and `DeltaIsSmall` is the arithmetic.

**MappedPipelineProofs.** The three processes share a loop, and its steps are
described once (`ReceiveEffect`, `NextValueEffect`, `FailEffect`,
`PublishEffect`). `MappedTypeCorrect` proves the types and `Waiting`: between two
deltas the aggregate mapper has nothing added and nothing pending. The properties
compare what a process has heard, looked at and told; none is inductive, because
none says how far the process has come with the delta it is mapping.
- Rate limit filter: by `LastSeenInv` the time kept for a vessel and path is that
  of the newest value passed, which gives `PassedAreSpaced` and
  `DroppedAreRepresented`.
- Both expression processes: by `TurnsInv` the environment is what `LookedAt`
  reads from the turns so far, and all deltas heard but the one in hand have been
  told. A later turn does not change what was to be read at an earlier one
  (`TurnsBefore`), so a verdict given long ago stays explained.
- Expression filter: by `FilteringInv` what is kept of the delta in hand was
  allowed at its turn, and what is neither kept nor still to do was refused.
  `FilterHolds` says that no infinity reaches the filter, whose results can
  therefore always be encoded. Together: `FilterIsSafe` and `FilterIsLossless`.
- Aggregate mapper: by `AggregatingInv` the values done and those to do are the
  delta, the values done are the last turns, `newest` is the time of one of them
  and bounds those that trigger anything, and the pending mappings are triggered by
  the last turn. `TurnsInTime` places the turns of a delta behind those of the one
  before; `ComputedSoFar` says of each output added that it is the first for its
  path among the mappings run so far, and of each path without one that all of them
  failed. They give `AggregatesAreFresh` and `MeasuredArePassed`.

No step of these proofs knows what an expression computes: `eval` stays an
arbitrary function, so the results hold for every configuration of mappings.

**RawPipelineProofs.** `OnlyTheLastTwoTear`, by `LineInv`: a scanned line is sent,
in the hand of `process` or on the stream, and each of the last two has room for
one. `LinesKeepTheirOrder`, by `OrderInv`, which continues that order through
the sockets and the proxy. `NumbersAreTakenInTurn`, by `NumbersInv`: the k-th
number taken is k - 1 modulo `LineNumbers`; the arithmetic of remainders by an
arbitrary number is proved from the uniqueness of quotient and remainder
(`ModUnique`).

Only model-checked: the liveness properties (`Transferred`, `Served`,
`DeliversUnlessStuck`, `LinesPublished`, `HealthyPolled`), which the prover
cannot handle. Of the two runs that show violations nothing is proved.

## 5. Not modelled

- Websocket writer: its registration in `cmd/signalkws.go` is commented out, and
  its `receive` decodes into a nil pointer. There is no behaviour to check.
- CAN connector: a callback of a library copies each frame to the stream; the
  rest is `RawSource`.
- JSON, CSV, NMEA 0183 and CAN mappers: conversions without state between
  messages, made by libraries.
- Line connector: writing received messages to the device, and the listener for
  UDP. Proxy: `Close`, which `doProxy` defers until the goroutines it would stop
  have stopped, so that it is never reached.
- Standard output, configuration, commands, logging: input, output and wiring.
- Eviction from the cache and the raw half of `BigCache`, retention, migrations,
  compression, the layout of JSON and of tag blocks.

## 6. Plan

The modules above are done. What could be added:

1. Composition of `PostgresqlBatch` with the vessel of `Transfer`, to replace the
   timing assumption of `Transfer!Tick` by `FlushWithin` and its condition.
2. `HeightToVolume`, the interpolation against a reference definition.
