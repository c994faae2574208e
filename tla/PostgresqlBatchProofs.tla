----------------------- MODULE PostgresqlBatchProofs -----------------------
(***************************************************************************)
(* Proofs about PostgresqlBatch, for any number of workers, rows, flush    *)
(* goroutines and ticks.                                                   *)
(***************************************************************************)
EXTENDS PostgresqlBatch, TLAPS, FiniteSetTheorems

(* Initially no flush runs and nothing was sent.                           *)
LEMMA FlushInvInit == Init => FlushInv
<1>1. ASSUME Init PROVE TypeOK
  <2>1. 0 \in Batches /\ 0 \in 0 .. MaxTicks /\ -1 \in -1 .. MaxTicks
    BY BatchAssumption DEF Batches
  <2>2. /\ todo = Rows /\ old = {} /\ stored = {} /\ mutex = NoOne /\ batch = 0
        /\ ticks = 0 /\ lastFlush = -1 /\ lastSlow = 0
    BY <1>1 DEF Init
  <2>3. /\ pc \in [Workers -> {"idle", "store", "check"}]
        /\ row \in [Workers -> Rows \cup {NoOne}]
        /\ \A w \in Workers : pc[w] # "store"
    BY <1>1 DEF Init
  <2>4. /\ ptr \in [Workers -> Batches] /\ seen \in [Workers -> SUBSET Rows]
        /\ items \in [Batches -> SUBSET Rows] /\ sends \in [Batches -> Nat]
    BY <1>1, <2>1 DEF Init
  <2>5. /\ fpc \in [AllFlushers -> {"free", "start", "lock", "swap", "send"}]
        /\ fptr \in [AllFlushers -> Batches]
        /\ queuedAt \in [Rows -> 0 .. MaxTicks]
    BY <1>1, <2>1 DEF Init
  <2>6. tickC \in BOOLEAN
    BY <1>1 DEF Init
  <2> QED
    BY <2>1, <2>2, <2>3, <2>4, <2>5, <2>6 DEF TypeOK
<1>2. Init /\ TypeOK => FlushInv
  BY BatchAssumption DEF Init, FlushInv, TypeOK, Batches, AllFlushers
<1> QED
  BY <1>1, <1>2

(* Every step keeps the types.                                             *)
LEMMA TypeStep == TypeOK /\ [Next]_vars => TypeOK'
<1> SUFFICES ASSUME TypeOK, [Next]_vars PROVE TypeOK'
  OBVIOUS
<1> USE BatchAssumption DEF TypeOK, workerVars, flushVars, timeVars
<1>1. ASSUME NEW w \in Workers, NEW r \in todo, QueueLoad(w, r) PROVE TypeOK'
  BY <1>1 DEF QueueLoad
<1>2. ASSUME NEW w \in Workers, QueueStore(w) PROVE TypeOK'
  <2>1. 0 \in Batches
    BY DEF Batches
  <2> QED
    BY <1>2, <2>1 DEF QueueStore
<1>3. ASSUME NEW w \in Workers, Check(w) PROVE TypeOK'
  BY <1>3 DEF Check, AllFlushers
<1>4. ASSUME NEW f \in AllFlushers, FlushStart(f) PROVE TypeOK'
  BY <1>4 DEF FlushStart
<1>5. ASSUME NEW f \in AllFlushers, FlushLock(f) PROVE TypeOK'
  BY <1>5 DEF FlushLock
<1>6. ASSUME NEW f \in AllFlushers, FlushSwap(f) PROVE TypeOK'
  <2>1. batch' \in Batches
    BY <1>6 DEF FlushSwap, Batches
  <2> QED
    BY <1>6, <2>1 DEF FlushSwap
<1>7. ASSUME NEW f \in AllFlushers, FlushSend(f) PROVE TypeOK'
  <2>1. 0 \in Batches /\ ticks \in -1 .. MaxTicks
    BY DEF Batches
  <2> QED
    BY <1>7, <2>1 DEF FlushSend
<1>8. ASSUME NEW f \in AllFlushers, FlushFail(f) PROVE TypeOK'
  <2>1. 0 \in Batches
    BY DEF Batches
  <2> QED
    BY <1>8, <2>1 DEF FlushFail
<1>9. CASE Tick
  BY <1>9 DEF Tick, AllFlushers
<1>10. CASE TakeTick
  BY <1>10 DEF TakeTick, AllFlushers
<1>11. CASE UNCHANGED vars
  BY <1>11 DEF vars
<1> QED
  BY <1>1, <1>2, <1>3, <1>4, <1>5, <1>6, <1>7, <1>8, <1>9, <1>10, <1>11 DEF Next

(* Every step keeps the invariant of the flushes.                          *)
LEMMA FlushInvStep == FlushInv /\ [Next]_vars => FlushInv'
<1> SUFFICES ASSUME FlushInv, [Next]_vars PROVE FlushInv'
  OBVIOUS
<1>0. TypeOK /\ TypeOK'
  BY TypeStep DEF FlushInv
<1>t. /\ fpc \in [AllFlushers -> {"free", "start", "lock", "swap", "send"}]
      /\ fptr \in [AllFlushers -> Batches] /\ sends \in [Batches -> Nat]
      /\ batch \in Batches
      /\ NoOne \notin AllFlushers /\ Ticker \in AllFlushers
      /\ Flushers \subseteq AllFlushers
  BY <1>0, BatchAssumption DEF TypeOK, AllFlushers
<1>n. \A b \in Batches : b \in Nat
  BY BatchAssumption DEF Batches
<1> USE <1>0, <1>t, <1>n DEF FlushInv, workerVars, flushVars
<1>1. ASSUME NEW w \in Workers, NEW r \in todo, QueueLoad(w, r) PROVE FlushInv'
  BY <1>1 DEF QueueLoad
<1>2. ASSUME NEW w \in Workers, QueueStore(w) PROVE FlushInv'
  BY <1>2 DEF QueueStore
<1>3. ASSUME NEW w \in Workers, Check(w) PROVE FlushInv'
  <2>1. CASE UNCHANGED fpc
    BY <1>3, <2>1 DEF Check
  <2>2. ASSUME NEW f \in Flushers, fpc[f] = "free", fpc' = [fpc EXCEPT ![f] = "start"]
        PROVE  FlushInv'
    BY <1>3, <2>2 DEF Check
  <2> QED
    BY <1>3, <2>1, <2>2 DEF Check
<1>4. ASSUME NEW f \in AllFlushers, FlushStart(f) PROVE FlushInv'
  BY <1>4 DEF FlushStart
<1>5. ASSUME NEW f \in AllFlushers, FlushLock(f) PROVE FlushInv'
  BY <1>5 DEF FlushLock
<1>6. ASSUME NEW f \in AllFlushers, FlushSwap(f) PROVE FlushInv'
  <2>1. /\ batch' = batch + 1 /\ mutex' = NoOne /\ mutex = f
        /\ fpc' = [fpc EXCEPT ![f] = "send"] /\ UNCHANGED <<fptr, sends>>
    BY <1>6 DEF FlushSwap
  <2>2. \A g \in AllFlushers : fpc'[g] # "swap" /\ mutex' # g
    BY <2>1
  <2>3. \A g \in AllFlushers : fpc'[g] = "send" =>
          fptr'[g] < batch' /\ sends'[fptr'[g]] = 0
    BY <1>6, <2>1 DEF FlushSwap
  <2>4. \A g, h \in AllFlushers :
          (g # h /\ fpc'[g] = "send" /\ fpc'[h] = "send") => fptr'[g] # fptr'[h]
    BY <1>6, <2>1 DEF FlushSwap
  <2> QED
    BY <2>1, <2>2, <2>3, <2>4
<1>7. ASSUME NEW f \in AllFlushers, FlushSend(f) \/ FlushFail(f) PROVE FlushInv'
  <2>1. /\ fpc[f] = "send" /\ fpc' = [fpc EXCEPT ![f] = "free"]
        /\ fptr' = [fptr EXCEPT ![f] = 0]
        /\ sends' = [sends EXCEPT ![fptr[f]] = @ + 1]
        /\ UNCHANGED <<batch, mutex>>
    BY <1>7 DEF FlushSend, FlushFail
  <2>2. fptr[f] \in Batches /\ fptr[f] < batch /\ sends[fptr[f]] = 0
    BY <2>1
  <2>3. \A g \in AllFlushers \ {f} : fpc'[g] = fpc[g] /\ fptr'[g] = fptr[g]
    BY <2>1
  <2>4. fpc'[f] = "free"
    BY <2>1
  <2>5. \A b \in Batches : sends'[b] = IF b = fptr[f] THEN 1 ELSE sends[b]
    BY <2>1, <2>2
  <2>6. \A g \in AllFlushers : fpc'[g] = "send" =>
          fptr'[g] < batch' /\ sends'[fptr'[g]] = 0
    BY <2>1, <2>2, <2>3, <2>4, <2>5
  <2>7. \A b \in Batches : sends'[b] <= 1 /\ (b >= batch' => sends'[b] = 0)
    BY <2>1, <2>2, <2>5
  <2> QED
    BY <2>1, <2>3, <2>4, <2>6, <2>7
<1>8. CASE Tick
  BY <1>8 DEF Tick
<1>9. CASE TakeTick
  BY <1>9 DEF TakeTick
<1>10. CASE UNCHANGED vars
  BY <1>10 DEF vars
<1> QED
  BY <1>1, <1>2, <1>3, <1>4, <1>5, <1>6, <1>7, <1>8, <1>9, <1>10 DEF Next

(* No batch is sent twice and the current one never was, whatever flushes  *)
(* overlap.                                                                *)
THEOREM BatchesAreSentOnce == Spec => []SentOnce
<1>1. FlushInv => SentOnce
  BY DEF FlushInv, TypeOK, SentOnce, Batches
<1> QED
  BY <1>1, FlushInvInit, FlushInvStep, PTL DEF Spec

(* A flush has the lock exactly while it swaps the batch, then a batch of  *)
(* its own that nobody sent.                                               *)
THEOREM FlushesAreApart == Spec => []FlushInv
BY FlushInvInit, FlushInvStep, PTL DEF Spec

-----------------------------------------------------------------------------
(* How long a row waits. *)

(* The row is in the current batch or comes back with a pending store. *)
Here(r) ==
  \/ r \in items[batch]
  \/ \E w \in Workers : pc[w] = "store" /\ ptr[w] = batch /\ r \in seen[w]

NewIsEmpty ==
  /\ \A b \in Batches : b > batch => items[b] = {}
  /\ \A w \in Workers : ptr[w] <= batch /\ (seen[w] # {} => items[ptr[w]] # {})

(* The ticker is about to replace the batch. *)
FlushComing == fpc[Ticker] \in {"start", "lock", "swap"}

(* The ticker has yet to take the last tick. *)
TickComing == tickC /\ fpc[Ticker] = "free"

(* Of a row during whose wait no tick was slow: after a tick only flushes  *)
(* that started before it can be sending an older batch, after two ticks   *)
(* none, so that lastFlush stays behind and the third tick finds the flush *)
(* due.                                                                    *)
Aged(age) ==
  /\ age <= 3
  /\ age >= 1 => /\ fpc[Ticker] # "send"
                 /\ \A f \in Flushers : fpc[f] = "send" => f \in old
  /\ age >= 2 => /\ \A f \in Flushers : fpc[f] # "send"
                 /\ lastFlush + age <= ticks + 1
  /\ age = 3 => FlushComing \/ TickComing

AgeInv ==
  /\ NewIsEmpty
  /\ lastFlush <= ticks
  /\ \A r \in Rows : queuedAt[r] <= ticks
  /\ \A r \in Rows :
       Here(r) /\ lastSlow <= queuedAt[r] => Aged(ticks - queuedAt[r])

LEMMA AgeInvInit == Init => AgeInv
<1> SUFFICES ASSUME Init PROVE AgeInv
  OBVIOUS
<1>1. 0 \in Batches /\ batch = 0 /\ items = [b \in Batches |-> {}]
  BY BatchAssumption DEF Init, Batches
<1>2. NewIsEmpty
  BY <1>1 DEF Init, NewIsEmpty
<1>3. \A r \in Rows : ~Here(r)
  BY <1>1 DEF Init, Here
<1>4. lastFlush <= ticks /\ \A r \in Rows : queuedAt[r] <= ticks
  BY DEF Init
<1> QED
  BY <1>2, <1>3, <1>4 DEF AgeInv

(* The types that the steps below need. *)
LEMMA AgeTypes ==
  ASSUME TypeOK
  PROVE  /\ ticks \in Int /\ lastFlush \in Int /\ lastSlow \in Int
         /\ \A r \in Rows : queuedAt[r] \in Int
         /\ batch \in Batches /\ items \in [Batches -> SUBSET Rows]
         /\ \A b \in Batches : b \in Nat
         /\ ptr \in [Workers -> Batches] /\ seen \in [Workers -> SUBSET Rows]
         /\ fpc \in [AllFlushers -> {"free", "start", "lock", "swap", "send"}]
         /\ Ticker \in AllFlushers /\ Ticker \notin Flushers
         /\ Flushers \subseteq AllFlushers /\ AllFlushers = Flushers \cup {Ticker}
<1>1. \A b \in Batches : b \in Nat
  BY BatchAssumption DEF Batches
<1>2. ticks \in Int /\ lastFlush \in Int /\ lastSlow \in Int
  BY BatchAssumption DEF TypeOK
<1>3. \A r \in Rows : queuedAt[r] \in Int
  BY BatchAssumption DEF TypeOK
<1> QED
  BY <1>1, <1>2, <1>3, BatchAssumption DEF TypeOK, AllFlushers

LEMMA HereIsNotEmpty ==
  ASSUME NewIsEmpty, NEW r \in Rows, Here(r)
  PROVE  items[batch] # {}
BY DEF NewIsEmpty, Here

(* A step that leaves the batches and the clock alone. *)
LEMMA SameRows ==
  ASSUME AgeInv, UNCHANGED <<items, batch, ticks, lastSlow, queuedAt>>,
         NewIsEmpty', lastFlush' <= ticks',
         \A r \in Rows : Here(r)' => Here(r),
         \A r \in Rows : Here(r) /\ Aged(ticks - queuedAt[r]) => Aged(ticks - queuedAt[r])'
  PROVE  AgeInv'
BY DEF AgeInv

LEMMA WorkersAge ==
  ASSUME TypeOK, AgeInv, NEW w \in Workers,
         (\E r \in todo : QueueLoad(w, r)) \/ QueueStore(w) \/ Check(w)
  PROVE  AgeInv'
<1> USE AgeTypes
<1>1. CASE \E r \in todo : QueueLoad(w, r)
  <2>1. /\ ptr' = [ptr EXCEPT ![w] = batch] /\ seen' = [seen EXCEPT ![w] = items[batch]]
        /\ pc' = [pc EXCEPT ![w] = "store"]
        /\ UNCHANGED <<items, batch, fpc, old, ticks, tickC, lastFlush, lastSlow, queuedAt>>
    BY <1>1 DEF QueueLoad, flushVars, timeVars
  <2>2. NewIsEmpty'
    BY <2>1 DEF AgeInv, NewIsEmpty
  <2>3. \A r \in Rows : Here(r)' => Here(r)
    BY <2>1 DEF Here, TypeOK
  <2>4. \A r \in Rows : Aged(ticks - queuedAt[r]) => Aged(ticks - queuedAt[r])'
    BY <2>1 DEF Aged, FlushComing, TickComing
  <2> QED
    BY <2>1, <2>2, <2>3, <2>4, SameRows DEF AgeInv
<1>2. CASE QueueStore(w)
  <2> DEFINE x == row[w]
             p == ptr[w]
  <2>1. /\ pc[w] = "store" /\ x \in Rows /\ p \in Batches
        /\ items' = [items EXCEPT ![p] = seen[w] \cup {x}]
        /\ pc' = [pc EXCEPT ![w] = "check"]
        /\ queuedAt' = [queuedAt EXCEPT ![x] = ticks]
        /\ seen' = [seen EXCEPT ![w] = {}] /\ ptr' = [ptr EXCEPT ![w] = 0]
        /\ UNCHANGED <<batch, fpc, old, ticks, tickC, lastFlush, lastSlow>>
    BY <1>2 DEF QueueStore, TypeOK, flushVars, timeVars
  <2>2. p <= batch /\ 0 <= batch
    BY DEF AgeInv, NewIsEmpty
  <2>3. NewIsEmpty'
    <3>1. \A b \in Batches : b > batch => items'[b] = {}
      BY <2>1, <2>2 DEF AgeInv, NewIsEmpty
    <3>2. ASSUME NEW v \in Workers
          PROVE  ptr'[v] <= batch /\ (seen'[v] # {} => items'[ptr'[v]] # {})
      <4>1. \A b \in Batches : items[b] # {} => items'[b] # {}
        BY <2>1
      <4>2. CASE v = w
        BY <2>1, <2>2, <4>2
      <4>3. CASE v # w
        BY <2>1, <4>1, <4>3 DEF AgeInv, NewIsEmpty
      <4> QED
        BY <4>2, <4>3
    <3> QED
      BY <2>1, <3>1, <3>2 DEF NewIsEmpty
  <2>4. ASSUME NEW r \in Rows, Here(r)', lastSlow' <= queuedAt'[r]
        PROVE  Aged(ticks - queuedAt[r])'
    <3>1. CASE r = x
      <4>1. ticks' - queuedAt'[r] = 0
        BY <2>1, <3>1 DEF TypeOK
      <4> QED
        BY <4>1 DEF Aged
    <3>2. CASE r # x
      <4>1. Here(r)
        BY <2>1, <2>4, <3>2 DEF Here, TypeOK
      <4>2. ticks' - queuedAt'[r] = ticks - queuedAt[r]
        BY <2>1, <3>2 DEF TypeOK
      <4>3. Aged(ticks - queuedAt[r])
        <5>1. queuedAt'[r] = queuedAt[r]
          BY <2>1, <3>2 DEF TypeOK
        <5> QED
          BY <2>1, <2>4, <4>1, <5>1 DEF AgeInv
      <4> QED
        BY <2>1, <4>2, <4>3 DEF Aged, FlushComing, TickComing
    <3> QED
      BY <3>1, <3>2
  <2>5. \A r \in Rows : queuedAt'[r] <= ticks'
    BY <2>1 DEF AgeInv, TypeOK
  <2> QED
    BY <2>1, <2>3, <2>4, <2>5 DEF AgeInv
<1>3. CASE Check(w)
  <2>1. /\ pc' = [pc EXCEPT ![w] = "idle"] /\ pc[w] = "check"
        /\ UNCHANGED <<ptr, seen, items, batch, old, ticks, tickC, lastFlush, lastSlow,
                       queuedAt>>
    BY <1>3 DEF Check, timeVars
  <2>2. /\ fpc'[Ticker] = fpc[Ticker]
        /\ \A f \in Flushers : fpc'[f] = "send" => fpc[f] = "send"
    BY <1>3 DEF Check
  <2>3. NewIsEmpty'
    BY <2>1 DEF AgeInv, NewIsEmpty
  <2>4. \A r \in Rows : Here(r)' => Here(r)
    BY <2>1 DEF Here, TypeOK
  <2>5. \A r \in Rows : Aged(ticks - queuedAt[r]) => Aged(ticks - queuedAt[r])'
    BY <2>1, <2>2 DEF Aged, FlushComing, TickComing
  <2> QED
    BY <2>1, <2>3, <2>4, <2>5, SameRows DEF AgeInv
<1> QED
  BY <1>1, <1>2, <1>3

LEMMA FlushersAge ==
  ASSUME TypeOK, AgeInv, NEW f \in AllFlushers,
         FlushStart(f) \/ FlushLock(f) \/ FlushSwap(f) \/ FlushSend(f) \/ FlushFail(f)
  PROVE  AgeInv'
<1> USE AgeTypes
<1>1. CASE FlushStart(f) \/ FlushLock(f)
  <2>1. UNCHANGED <<pc, ptr, seen, items, batch, ticks, tickC, lastFlush, lastSlow, queuedAt>>
    BY <1>1 DEF FlushStart, FlushLock, workerVars, timeVars
  <2>2. NewIsEmpty' /\ \A r \in Rows : Here(r)' => Here(r)
    BY <2>1 DEF AgeInv, NewIsEmpty, Here
  <2>3. /\ \A g \in Flushers : fpc'[g] = "send" => fpc[g] = "send" /\ (g \in old => g \in old')
        /\ fpc'[Ticker] = "send" => fpc[Ticker] = "send"
        /\ items[batch] # {} /\ FlushComing => FlushComing'
        /\ fpc[Ticker] = "free" => fpc'[Ticker] = "free"
    BY <1>1 DEF FlushStart, FlushLock, FlushComing
  <2>4. \A r \in Rows :
          Here(r) /\ Aged(ticks - queuedAt[r]) => Aged(ticks - queuedAt[r])'
    BY <2>1, <2>3, HereIsNotEmpty DEF AgeInv, Aged, TickComing
  <2> QED
    BY <2>1, <2>2, <2>4, SameRows DEF AgeInv
<1>2. CASE FlushSwap(f)
  <2>1. /\ batch' = batch + 1 /\ batch < MaxBatches
        /\ UNCHANGED <<pc, ptr, seen, items, ticks, lastFlush, lastSlow, queuedAt>>
    BY <1>2 DEF FlushSwap, workerVars, timeVars
  <2>2. NewIsEmpty'
    BY <2>1 DEF AgeInv, NewIsEmpty
  <2>3. ASSUME NEW r \in Rows, Here(r)' PROVE FALSE
    <3>1. batch + 1 > batch /\ \A w \in Workers : ptr[w] <= batch
      BY DEF AgeInv, NewIsEmpty
    <3>2. \A w \in Workers : ptr[w] # batch + 1
      BY <3>1
    <3>3. items[batch + 1] = {}
      <4>1. batch + 1 \in Batches
        BY <2>1, BatchAssumption DEF Batches
      <4> QED
        BY <3>1, <4>1 DEF AgeInv, NewIsEmpty
    <3> QED
      BY <2>1, <2>3, <3>2, <3>3 DEF Here
  <2> QED
    BY <2>1, <2>2, <2>3 DEF AgeInv
<1>3. CASE FlushSend(f) \/ FlushFail(f)
  <2>1. /\ fpc[f] = "send" /\ fpc' = [fpc EXCEPT ![f] = "free"] /\ old' = old \ {f}
        /\ lastFlush' \in {ticks, lastFlush}
        /\ UNCHANGED <<pc, ptr, seen, items, batch, ticks, lastSlow, queuedAt>>
    BY <1>3 DEF FlushSend, FlushFail, workerVars, timeVars
  <2>2. NewIsEmpty' /\ \A r \in Rows : Here(r)' => Here(r)
    BY <2>1 DEF AgeInv, NewIsEmpty, Here
  <2>3. ASSUME NEW r \in Rows, Aged(ticks - queuedAt[r]) PROVE Aged(ticks - queuedAt[r])'
    <3> DEFINE age == ticks - queuedAt[r]
    <3>1. age \in Int /\ age' = age
      BY <2>1
    <3>2. ~(age >= 2)
      <4>1. age >= 2 => age >= 1
        BY <3>1
      <4>2. CASE f = Ticker
        BY <2>1, <2>3, <4>1, <4>2 DEF Aged
      <4>3. CASE f \in Flushers
        BY <2>1, <2>3, <4>3 DEF Aged
      <4> QED
        BY <4>2, <4>3
    <3>3. /\ fpc'[Ticker] = "send" => fpc[Ticker] = "send"
          /\ \A g \in Flushers : fpc'[g] = "send" => fpc[g] = "send" /\ g # f
      BY <2>1
    <3> HIDE DEF age
    <3>4. age <= 3 /\ age # 2 /\ age # 3
      BY <3>1, <3>2
    <3>5. Aged(age)'
      BY <2>1, <2>3, <3>1, <3>2, <3>3, <3>4 DEF Aged, age
    <3> QED
      BY <3>5 DEF age
  <2>4. lastFlush' <= ticks'
    BY <2>1 DEF AgeInv
  <2> QED
    BY <2>1, <2>2, <2>3, <2>4, SameRows
<1> QED
  BY <1>1, <1>2, <1>3

LEMMA TickAges ==
  ASSUME TypeOK, AgeInv, Tick
  PROVE  AgeInv'
<1> USE AgeTypes
<1>1. /\ ticks' = ticks + 1 /\ tickC' = TRUE
      /\ old' = {f \in Flushers : fpc[f] # "free"}
      /\ lastSlow' = IF old # {} \/ fpc[Ticker] # "free" \/ tickC
                     THEN ticks + 1 ELSE lastSlow
      /\ UNCHANGED <<pc, ptr, seen, items, batch, fpc, lastFlush, queuedAt>>
  BY DEF Tick, workerVars
<1>2. NewIsEmpty' /\ \A r \in Rows : Here(r)' => Here(r)
  BY <1>1 DEF AgeInv, NewIsEmpty, Here
<1>3. lastFlush' <= ticks' /\ \A r \in Rows : queuedAt'[r] <= ticks'
  BY <1>1 DEF AgeInv
<1>4. ASSUME NEW r \in Rows, Here(r)', lastSlow' <= queuedAt'[r]
      PROVE  Aged(ticks - queuedAt[r])'
  <2> DEFINE age == ticks - queuedAt[r]
  <2>1. age \in Int /\ age >= 0 /\ age' = age + 1
    BY <1>1 DEF AgeInv
  (* The tick is not slow: the row was queued before it. *)
  <2>2. old = {} /\ fpc[Ticker] = "free" /\ ~tickC /\ lastSlow <= queuedAt[r]
    BY <1>1, <1>4 DEF AgeInv
  <2>3. Aged(age)
    BY <1>2, <1>4, <2>2 DEF AgeInv
  <2> HIDE DEF age
  <2>4. age <= 2 /\ (age >= 2 => lastFlush + age <= ticks + 1)
    BY <2>1, <2>2, <2>3 DEF Aged, FlushComing, TickComing
  <2>5. \A f \in Flushers : fpc'[f] = "send" => f \in old'
    BY <1>1
  <2>6. age >= 1 => \A f \in Flushers : fpc'[f] # "send"
    BY <1>1, <2>2, <2>3 DEF Aged
  <2>7. age + 1 >= 2 => lastFlush' + (age + 1) <= ticks' + 1
    BY <1>1, <2>1, <2>4 DEF AgeInv
  <2>8. TickComing' /\ fpc'[Ticker] # "send"
    BY <1>1, <2>2 DEF TickComing
  <2>9. age + 1 <= 3 /\ (age + 1 >= 2 => age >= 1)
    BY <2>1, <2>4
  <2>10. Aged(age)'
    BY <2>1, <2>5, <2>6, <2>7, <2>8, <2>9 DEF Aged
  <2> QED
    BY <2>10 DEF age
<1> QED
  BY <1>2, <1>3, <1>4 DEF AgeInv

LEMMA TakeTickAges ==
  ASSUME TypeOK, AgeInv, TakeTick
  PROVE  AgeInv'
<1> USE AgeTypes
<1>1. PICK due \in BOOLEAN :
        /\ FlushDue(due)
        /\ fpc' = [fpc EXCEPT ![Ticker] = IF due THEN "start" ELSE "free"]
  BY DEF TakeTick
<1>2. UNCHANGED <<pc, ptr, seen, items, batch, old, ticks, lastFlush, lastSlow, queuedAt>>
  BY DEF TakeTick, workerVars
<1>3. NewIsEmpty' /\ \A r \in Rows : Here(r)' => Here(r)
  BY <1>2 DEF AgeInv, NewIsEmpty, Here
<1>4. /\ fpc'[Ticker] \in {"free", "start"} /\ \A f \in Flushers : fpc'[f] = fpc[f]
      /\ lastFlush + 1 < ticks => fpc'[Ticker] = "start"
  BY <1>1 DEF FlushDue
<1>5. ASSUME NEW r \in Rows, Aged(ticks - queuedAt[r]) PROVE Aged(ticks - queuedAt[r])'
  <2> DEFINE age == ticks - queuedAt[r]
  <2>1. age \in Int /\ age' = age
    BY <1>2
  <2> HIDE DEF age
  <2>2. Aged(age)
    BY <1>5 DEF age
  <2>3. age = 3 => FlushComing'
    BY <1>4, <2>1, <2>2 DEF Aged, FlushComing
  <2>4. Aged(age)'
    BY <1>2, <1>4, <2>1, <2>2, <2>3 DEF Aged
  <2> QED
    BY <2>4 DEF age
<1>6. lastFlush' <= ticks'
  BY <1>2 DEF AgeInv
<1> QED
  BY <1>2, <1>3, <1>5, <1>6, SameRows

(* Whatever the workers and the other flushes do, a row is in the current  *)
(* batch for less than four ticks, or some flush outlasted a whole         *)
(* interval while it was.                                                  *)
THEOREM RowsDoNotWait == Spec => []FlushWithin
<1>1. Init => TypeOK /\ AgeInv
  BY FlushInvInit, AgeInvInit DEF FlushInv
<1>2. TypeOK /\ AgeInv /\ [Next]_vars => TypeOK' /\ AgeInv'
  <2> SUFFICES ASSUME TypeOK, AgeInv, [Next]_vars PROVE AgeInv'
    BY TypeStep
  <2>1. CASE UNCHANGED vars
    BY <2>1 DEF vars, workerVars, flushVars, timeVars, AgeInv, NewIsEmpty, Here, Aged,
                FlushComing, TickComing
  <2> QED
    BY <2>1, WorkersAge, FlushersAge, TickAges, TakeTickAges DEF Next
<1>3. TypeOK /\ AgeInv => FlushWithin
  <2> SUFFICES ASSUME TypeOK, AgeInv, NEW r \in items[batch], lastSlow <= queuedAt[r]
               PROVE  ticks - queuedAt[r] <= 3
    BY DEF FlushWithin
  <2>1. r \in Rows
    BY AgeTypes
  <2> QED
    BY <2>1 DEF AgeInv, Here, Aged
<1> QED
  BY <1>1, <1>2, <1>3, PTL DEF Spec

=============================================================================
