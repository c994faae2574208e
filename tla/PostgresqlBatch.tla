-------------------------- MODULE PostgresqlBatch --------------------------
(***************************************************************************)
(* The write batch of PostgresqlDatabase.                                  *)
(*                                                                         *)
(* The workers of PostgresqlWriter queue rows into one shared pgx.Batch    *)
(* without a lock.  A worker that sees more than batchSize rows starts a   *)
(* flush goroutine, and a ticker flushes what has waited too long.  A      *)
(* flush replaces the batch by a new one under flushMutex and sends the    *)
(* old one; a failed flush is logged and its rows are dropped.             *)
(*                                                                         *)
(* Queue is batch.items = append(batch.items, row): a worker loads the     *)
(* batch and its items in one step and stores the longer slice in another, *)
(* so a store may undo an append of somebody else or come after the batch  *)
(* has been sent.  The order of the rows in a batch plays no role, so a    *)
(* slice is a set of rows.  Time is counted in ticks of the ticker; a      *)
(* flush may last for any number of them, since GetConnection pings and    *)
(* upgrades the database without a timeout.                                *)
(***************************************************************************)
EXTENDS Integers, FiniteSets

CONSTANTS
  Workers,        \* goroutines of StartRawWorkers or StartMappedWorkers
  Rows,           \* rows to be written (each is one SingleValueMapped)
  Flushers,       \* bound: flush goroutines that run at the same time
  Ticker,         \* the flush of the ticker goroutine
  BatchSize,      \* BatchFlushLength
  MaxBatches,     \* bound: batches created
  MaxTicks,       \* bound: ticks of the ticker
  NoOne           \* no goroutine, no row

Batches == 0 .. MaxBatches
AllFlushers == Flushers \cup {Ticker}

ASSUME BatchAssumption ==
  /\ BatchSize \in Nat /\ MaxBatches \in Nat /\ MaxTicks \in Nat
  /\ Ticker \notin Flushers
  /\ NoOne \notin AllFlushers /\ NoOne \notin Rows

VARIABLES
  todo,       \* rows in rawChannel or mappedChannel
  pc,         \* per worker
  row,        \* per worker: the row it writes
  ptr, seen,  \* per worker: the batch it loaded and the items it saw in it
  items,      \* per batch: its rows
  batch,      \* db.batch
  mutex,      \* holder of flushMutex
  fpc,        \* per flusher
  fptr,       \* per flusher: batchPtr
  old,        \* flushers that started before the last tick
  sends,      \* per batch: how often it was sent
  stored,     \* rows in the database
  ticks,      \* ticks so far
  tickC,      \* ticker.C holds a tick (it has room for one)
  lastFlush,  \* lastFlush lies between this tick and the next one
  queuedAt,   \* history: tick after which a row was queued
  lastSlow    \* history: last tick that came while a flush, or the ticker's
              \* goroutine, was still busy with what the tick before found

workerVars == <<todo, pc, row, ptr, seen>>
flushVars == <<mutex, fpc, fptr, old>>
timeVars == <<ticks, tickC, lastFlush, lastSlow>>
vars == <<workerVars, items, batch, flushVars, sends, stored, timeVars, queuedAt>>

Init ==
  /\ todo = Rows
  /\ pc = [w \in Workers |-> "idle"]
  /\ row = [w \in Workers |-> NoOne]
  /\ ptr = [w \in Workers |-> 0] /\ seen = [w \in Workers |-> {}]
  /\ items = [b \in Batches |-> {}] /\ batch = 0
  /\ mutex = NoOne
  /\ fpc = [f \in AllFlushers |-> "free"] /\ fptr = [f \in AllFlushers |-> 0]
  /\ old = {}
  /\ sends = [b \in Batches |-> 0] /\ stored = {}
  /\ ticks = 0 /\ tickC = FALSE /\ lastFlush = -1 /\ lastSlow = 0
  /\ queuedAt = [r \in Rows |-> 0]

-----------------------------------------------------------------------------
(* The workers: WriteRaw, WriteMapped and WriteSingleValueMapped. *)

(* The worker takes a row from the channel and loads db.batch and its      *)
(* items.                                                                  *)
QueueLoad(w, r) ==
  /\ pc[w] = "idle" /\ r \in todo
  /\ todo' = todo \ {r}
  /\ pc' = [pc EXCEPT ![w] = "store"]
  /\ row' = [row EXCEPT ![w] = r]
  /\ ptr' = [ptr EXCEPT ![w] = batch]
  /\ seen' = [seen EXCEPT ![w] = items[batch]]
  /\ UNCHANGED <<items, batch, flushVars, sends, stored, timeVars, queuedAt>>

(* The worker stores the appended slice. *)
QueueStore(w) ==
  /\ pc[w] = "store"
  /\ pc' = [pc EXCEPT ![w] = "check"]
  /\ items' = [items EXCEPT ![ptr[w]] = seen[w] \cup {row[w]}]
  /\ queuedAt' = [queuedAt EXCEPT ![row[w]] = ticks]
  /\ row' = [row EXCEPT ![w] = NoOne]
  /\ seen' = [seen EXCEPT ![w] = {}] /\ ptr' = [ptr EXCEPT ![w] = 0]
  /\ UNCHANGED <<todo, batch, flushVars, sends, stored, timeVars>>

(* if db.batch.Len() > db.batchSize { go db.flushBatch() } *)
Check(w) ==
  /\ pc[w] = "check"
  /\ pc' = [pc EXCEPT ![w] = "idle"]
  /\ \/ /\ Cardinality(items[batch]) > BatchSize
        /\ \E f \in Flushers : /\ fpc[f] = "free"
                               /\ fpc' = [fpc EXCEPT ![f] = "start"]
     \/ /\ Cardinality(items[batch]) <= BatchSize
        /\ UNCHANGED fpc
  /\ UNCHANGED <<todo, row, ptr, seen, items, batch, mutex, fptr, old, sends,
                 stored, timeVars, queuedAt>>

-----------------------------------------------------------------------------
(* flushBatch. *)

(* "prevent flushing when queue is empty": the length is read before the   *)
(* lock is taken.                                                          *)
FlushStart(f) ==
  /\ fpc[f] = "start"
  /\ fpc' = [fpc EXCEPT ![f] = IF items[batch] = {} THEN "free" ELSE "lock"]
  /\ old' = IF items[batch] = {} THEN old \ {f} ELSE old
  /\ UNCHANGED <<workerVars, items, batch, mutex, fptr, sends, stored,
                 timeVars, queuedAt>>

(* Mutant: db.batch is replaced without flushMutex. *)
FlushLock_NoMutex(f) ==
  /\ fpc[f] = "lock"
  /\ mutex' = f
  /\ fpc' = [fpc EXCEPT ![f] = "swap"]
  /\ fptr' = [fptr EXCEPT ![f] = batch]
  /\ UNCHANGED <<workerVars, items, batch, old, sends, stored, timeVars,
                 queuedAt>>

FlushLock(f) ==
  /\ fpc[f] = "lock" /\ mutex = NoOne
  /\ mutex' = f
  /\ fpc' = [fpc EXCEPT ![f] = "swap"]
  /\ fptr' = [fptr EXCEPT ![f] = batch]
  /\ UNCHANGED <<workerVars, items, batch, old, sends, stored, timeVars,
                 queuedAt>>

FlushSwap(f) ==
  /\ fpc[f] = "swap" /\ batch < MaxBatches
  /\ batch' = batch + 1
  /\ mutex' = NoOne
  /\ fpc' = [fpc EXCEPT ![f] = "send"]
  /\ UNCHANGED <<workerVars, items, fptr, old, sends, stored, timeVars,
                 queuedAt>>

(* SendBatch succeeds. *)
FlushSend(f) ==
  /\ fpc[f] = "send"
  /\ sends' = [sends EXCEPT ![fptr[f]] = @ + 1]
  /\ stored' = stored \cup items[fptr[f]]
  /\ lastFlush' = ticks
  /\ fpc' = [fpc EXCEPT ![f] = "free"]
  /\ fptr' = [fptr EXCEPT ![f] = 0]
  /\ old' = old \ {f}
  /\ UNCHANGED <<workerVars, items, batch, mutex, ticks, tickC, lastSlow,
                 queuedAt>>

(* SendBatch fails or times out: the rows are dropped. *)
FlushFail(f) ==
  /\ fpc[f] = "send"
  /\ sends' = [sends EXCEPT ![fptr[f]] = @ + 1]
  /\ fpc' = [fpc EXCEPT ![f] = "free"]
  /\ fptr' = [fptr EXCEPT ![f] = 0]
  /\ old' = old \ {f}
  /\ UNCHANGED <<workerVars, items, batch, mutex, stored, timeVars, queuedAt>>

-----------------------------------------------------------------------------
(* The ticker. *)

(* A tick comes; it is dropped when the one before was not taken yet.      *)
Tick ==
  /\ ticks < MaxTicks
  /\ ticks' = ticks + 1
  /\ tickC' = TRUE
  /\ old' = {f \in Flushers : fpc[f] # "free"}
  /\ lastSlow' = IF old # {} \/ fpc[Ticker] # "free" \/ tickC
                 THEN ticks + 1 ELSE lastSlow
  /\ UNCHANGED <<workerVars, items, batch, mutex, fpc, fptr, sends, stored,
                 lastFlush, queuedAt>>

(* Mutant: the interval is added twice. *)
FlushDue_TwoIntervals(due) ==
  /\ lastFlush + 2 > ticks => ~due
  /\ lastFlush + 2 < ticks => due

(* time.Now().After(lastFlush.Add(BatchFlushInterval)) between this tick   *)
(* and the next one: in the interval after the one of lastFlush it may be  *)
(* true or false.                                                          *)
FlushDue(due) ==
  /\ lastFlush + 1 > ticks => ~due
  /\ lastFlush + 1 < ticks => due

(* The goroutine of the ticker takes the tick; it runs the flush itself    *)
(* and takes no other one before that has ended.                           *)
TakeTick ==
  /\ tickC /\ fpc[Ticker] = "free"
  /\ tickC' = FALSE
  /\ \E due \in BOOLEAN :
       /\ FlushDue(due)
       /\ fpc' = [fpc EXCEPT ![Ticker] = IF due THEN "start" ELSE "free"]
  /\ UNCHANGED <<workerVars, items, batch, mutex, fptr, old, sends, stored,
                 ticks, lastFlush, lastSlow, queuedAt>>

Next ==
  \/ \E w \in Workers : \/ \E r \in todo : QueueLoad(w, r)
                        \/ QueueStore(w) \/ Check(w)
  \/ \E f \in AllFlushers : \/ FlushStart(f) \/ FlushLock(f) \/ FlushSwap(f)
                            \/ FlushSend(f) \/ FlushFail(f)
  \/ Tick \/ TakeTick

Spec == Init /\ [][Next]_vars

-----------------------------------------------------------------------------
(* Properties. *)

(* Types. *)
TypeOK ==
  /\ todo \subseteq Rows
  /\ pc \in [Workers -> {"idle", "store", "check"}]
  /\ row \in [Workers -> Rows \cup {NoOne}]
  /\ \A w \in Workers : pc[w] = "store" => row[w] \in Rows
  /\ ptr \in [Workers -> Batches]
  /\ seen \in [Workers -> SUBSET Rows]
  /\ items \in [Batches -> SUBSET Rows]
  /\ batch \in Batches
  /\ mutex \in AllFlushers \cup {NoOne}
  /\ fpc \in [AllFlushers -> {"free", "start", "lock", "swap", "send"}]
  /\ fptr \in [AllFlushers -> Batches]
  /\ old \subseteq AllFlushers
  /\ sends \in [Batches -> Nat]
  /\ stored \subseteq Rows
  /\ ticks \in 0 .. MaxTicks
  /\ tickC \in BOOLEAN
  /\ lastFlush \in -1 .. MaxTicks
  /\ lastSlow \in 0 .. MaxTicks
  /\ queuedAt \in [Rows -> 0 .. MaxTicks]

(* flushMutex: however many flushes overlap, a batch is sent only once     *)
(* (raw_data has no unique index that would drop a second copy), and the   *)
(* one the workers write to has not been sent.                             *)
SentOnce ==
  /\ \A b \in Batches : sends[b] <= 1
  /\ sends[batch] = 0

(* The inductive invariant behind SentOnce: the holder of the lock has the *)
(* current batch, and the flushes that are sending have an older one each, *)
(* not sent yet.                                                           *)
FlushInv ==
  /\ TypeOK
  /\ \A f \in AllFlushers : fpc[f] = "swap" <=> mutex = f
  /\ \A f \in AllFlushers : fpc[f] = "swap" => fptr[f] = batch
  /\ \A f \in AllFlushers : fpc[f] = "send" => fptr[f] < batch /\ sends[fptr[f]] = 0
  /\ \A f, g \in AllFlushers :
       (f # g /\ fpc[f] = "send" /\ fpc[g] = "send") => fptr[f] # fptr[g]
  /\ \A b \in Batches : sends[b] <= 1 /\ (b >= batch => sends[b] = 0)

(* A row is in the batch for less than four ticks, although the ticker    *)
(* skips a tick after every flush and a flush that ends late moves         *)
(* lastFlush; unless a flush, of this batch or of an older one, lasted     *)
(* from one tick over the next while the row waited, or a tick was not     *)
(* taken before the next one: the ticker waits for its own flush, and      *)
(* nothing bounds the time GetConnection takes.                            *)
FlushWithin ==
  \A r \in items[batch] :
    lastSlow <= queuedAt[r] => ticks - queuedAt[r] <= 3

(* "new batch created, no need to keep the lock": nobody adds a row to a   *)
(* batch after it has been sent.  It does not hold: a worker may have      *)
(* loaded db.batch before the swap.                                        *)
SentBatchIsFinal ==
  [][\A b \in Batches : sends[b] > 0 => items'[b] = items[b]]_vars

=============================================================================
