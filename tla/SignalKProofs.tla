---------------------------- MODULE SignalKProofs ----------------------------
(***************************************************************************)
(* Proofs about SignalKModel, for any rows, updates and requests, and      *)
(* about SignalKStream, for any clients and deltas.  The two parts of the  *)
(* SignalK writer share no state; their specifications are proved about    *)
(* one after the other.                                                    *)
(*                                                                         *)
(* SignalKModel: while values are loaded, every one that was taken from    *)
(* the result is represented in the cache or by what the loader is about   *)
(* to set (Covered).  It stays so, since a writer that no other one        *)
(* overlaps sets what has no fewer fields and is no older than what is     *)
(* cached (Forward), and an overlap is remembered.                         *)
(*                                                                         *)
(* SignalKStream: StreamInv adds to the properties that a delta which was  *)
(* not received yet is at no place; a handler that receives holds nothing  *)
(* (TypeOK), so what it takes overwrites nothing.                          *)
(***************************************************************************)
EXTENDS SignalKModel, SignalKStream, TLAPS

LoadedRows == {Loaded(row) : row \in Stored}

(* Values the writer has seen. *)
Known == LoadedRows \cup (Updates \ new)

Seen(e) == \E x \in Known : x.path = e.path /\ x.time = e.time

(* Loaded value m is cached, or about to be set by the loader. *)
Covered(m) ==
  \/ \E e \in cache[m.path] : Represents(e, m)
  \/ \E x \in writing : x.by = "loader" /\ Represents(x.entry, m)

(* A writer that no other one overlaps found what is cached, and goes on.  *)
Forward(x) ==
  x.entry.path \in overlap \/
    /\ \A y \in writing : y.entry.path = x.entry.path => y = x
    /\ \A o \in cache[x.entry.path] :
         o.time <= x.entry.time /\ DOMAIN o.value \subseteq DOMAIN x.entry.value

WritersInv ==
  /\ \A p \in Paths : \A e \in cache[p] : Seen(e)
  /\ \A x \in writing : Seen(x.entry) /\ Forward(x) /\ x.of.path = x.entry.path

LoadInv ==
  /\ ModelTypeOK
  /\ WritersInv
  /\ wg = 0 <=> loader = "done"
  /\ loader = "write" => \A m \in LoadedRows \ toLoad : Covered(m)
  /\ loader = "done" => \A m \in LoadedRows : \E e \in cache[m.path] : Represents(e, m)
  /\ ServedComplete

LEMMA LoadedEntries ==
  /\ LoadedRows \subseteq Entries /\ Updates \subseteq Entries
  /\ \A m \in LoadedRows : m.path \in Paths
BY ModelAssumption DEF Loaded, LoadedRows, Entries, Rows

LEMMA EntryFields ==
  ASSUME NEW e \in Entries
  PROVE  e.path \in Paths /\ e.time \in Nat /\ e.value \in Values /\ DOMAIN e.value \subseteq Fields
BY DEF Entries, Values

LEMMA MergeProperties ==
  ASSUME NEW o \in Entries, NEW m \in Entries
  PROVE  /\ Merge(o, m) \in Entries
         /\ Merge(o, m).path = m.path /\ Merge(o, m).time = m.time
         /\ DOMAIN o.value \subseteq DOMAIN Merge(o, m).value
         /\ DOMAIN m.value \subseteq DOMAIN Merge(o, m).value
<1> DEFINE both == [f \in DOMAIN o.value \cup DOMAIN m.value |->
                     IF f \in DOMAIN m.value THEN m.value[f] ELSE o.value[f]]
<1>1. Merge(o, m) = [m EXCEPT !.value = both]
  BY DEF Merge
<1>2. /\ o.value \in [DOMAIN o.value -> Data] /\ DOMAIN o.value \subseteq Fields
      /\ m.value \in [DOMAIN m.value -> Data] /\ DOMAIN m.value \subseteq Fields
  BY DEF Entries, Values
<1>3. both \in [DOMAIN o.value \cup DOMAIN m.value -> Data]
  BY <1>2
<1>4. both \in Values
  BY <1>2, <1>3 DEF Values
<1>5. DOMAIN both = DOMAIN o.value \cup DOMAIN m.value
  OBVIOUS
<1> HIDE DEF both
<1>6. m = [path |-> m.path, time |-> m.time, value |-> m.value] /\ m.path \in Paths /\ m.time \in Nat
  BY DEF Entries
<1>7. Merge(o, m) = [path |-> m.path, time |-> m.time, value |-> both]
  BY <1>1, <1>6
<1> QED
  BY <1>4, <1>5, <1>6, <1>7 DEF Entries

(* WriteMapped sets the path of the value, always when it is not cached,   *)
(* and sets something no older and with no fewer fields than what it read. *)
LEMMA ToSetProperties ==
  ASSUME ModelTypeOK, NEW m \in Entries
  PROVE  /\ ToSet(m) \subseteq Entries
         /\ \A e, f \in ToSet(m) : e = f
         /\ \A e \in ToSet(m) :
              /\ e.path = m.path /\ e.time = m.time
              /\ DOMAIN m.value \subseteq DOMAIN e.value
              /\ \A o \in cache[m.path] :
                   o.time <= e.time /\ DOMAIN o.value \subseteq DOMAIN e.value
         /\ ToSet(m) = {} => \E o \in cache[m.path] : o.value = m.value \/ m.time < o.time
<1>1. m.path \in Paths /\ m.time \in Nat
  BY DEF Entries
<1>2. \A o \in cache[m.path] : o \in Entries /\ o.time \in Nat
  BY <1>1 DEF ModelTypeOK, Entries
<1>3. CASE cache[m.path] = {}
  <2>1. ToSet(m) = {m}
    BY <1>3 DEF ToSet
  <2> QED
    BY <1>3, <2>1
<1>4. CASE cache[m.path] # {}
  <2>1. PICK o : o \in cache[m.path]
    BY <1>4
  <2>2. cache[m.path] = {o}
    BY <1>1, <2>1 DEF ModelTypeOK
  <2>3. ToSet(m) = IF Skip(o, m) THEN {} ELSE {Merge(o, m)}
    BY <2>2 DEF ToSet
  <2>4. Skip(o, m) \/ o.time <= m.time
    BY <1>1, <1>2, <2>1 DEF Skip
  <2>5. Skip(o, m) => o.value = m.value \/ m.time < o.time
    BY DEF Skip
  <2>6. /\ Merge(o, m) \in Entries
        /\ Merge(o, m).path = m.path /\ Merge(o, m).time = m.time
        /\ DOMAIN o.value \subseteq DOMAIN Merge(o, m).value
        /\ DOMAIN m.value \subseteq DOMAIN Merge(o, m).value
    BY <1>2, <2>1, MergeProperties
  <2> QED
    BY <2>2, <2>3, <2>4, <2>5, <2>6
<1> QED
  BY <1>3, <1>4

LEMMA LoadInvInit == ModelInit => LoadInv
BY DEF ModelInit, LoadInv, ModelTypeOK, WritersInv, ServedComplete

(* What is represented stays represented: newer values and overlaps only   *)
(* become more.                                                            *)
LEMMA StaysRepresented ==
  ASSUME LoadInv, [ModelNext]_modelVars, NEW e, NEW m, Represents(e, m)
  PROVE  Represents(e, m)'
<1>1. new' \subseteq new /\ overlap \subseteq overlap'
  BY DEF ModelNext, LoadQuery, LoadDone, LoadGet, UpdateGet, Set, Arrive, Serve, Answer,
         Get, modelVars
<1> QED
  BY <1>1 DEF Represents, Newer

LEMMA StaysSeen ==
  ASSUME LoadInv, [ModelNext]_modelVars, NEW e, Seen(e)
  PROVE  Seen(e)'
<1>1. new' \subseteq new
  BY DEF ModelNext, LoadQuery, LoadDone, LoadGet, UpdateGet, Set, Arrive, Serve, Answer,
         Get, modelVars
<1> QED
  BY <1>1 DEF Seen, Known, LoadedRows

(* A value that is in the cache, or overwritten by no fewer fields. *)
LEMMA AnswersStay ==
  ASSUME LoadInv, [ModelNext]_modelVars, UNCHANGED <<request, response>>
  PROVE  ServedComplete'
<1> SUFFICES ASSUME NEW q \in Requests, request[q] \in {"served", "notFound"},
                    NEW row \in Stored, Loaded(row).path \in Asked[q]
             PROVE  \E e \in response[q] : Represents(e, Loaded(row))'
  BY DEF ServedComplete
<1>1. PICK e \in response[q] : Represents(e, Loaded(row))
  BY DEF LoadInv, ServedComplete
<1>2. Represents(e, Loaded(row))'
  BY <1>1, StaysRepresented
<1> QED
  BY <1>2

(* Get: what is to be set was seen, goes forward, and represents m. *)
LEMMA GetStep ==
  ASSUME LoadInv, [ModelNext]_modelVars, NEW by \in {"loader", "update"}, NEW m \in Entries,
         Get(by, m), m \in Known', cache' = cache
  PROVE  /\ WritersInv'
         /\ writing' \subseteq [by : {"loader", "update"}, of : Entries, entry : Entries]
         /\ overlap' \subseteq Paths
         /\ \/ \E e \in cache[m.path] : e.value = m.value \/ m.time < e.time
            \/ \E x \in writing' : x.by = by /\ Represents(x.entry, m)'
<1> DEFINE mine == {[by |-> by, of |-> m, entry |-> e] : e \in ToSet(m)}
           others == {x \in writing : x.entry.path = m.path}
<1>0. ModelTypeOK /\ WritersInv
  BY DEF LoadInv
<1>1. /\ writing' = writing \cup mine
      /\ overlap' = overlap \cup {p \in {m.path} : mine # {} /\ others # {}}
  BY DEF Get
<1>2. /\ ToSet(m) \subseteq Entries
      /\ \A e, f \in ToSet(m) : e = f
      /\ \A e \in ToSet(m) :
           /\ e.path = m.path /\ e.time = m.time
           /\ DOMAIN m.value \subseteq DOMAIN e.value
           /\ \A o \in cache[m.path] :
                o.time <= e.time /\ DOMAIN o.value \subseteq DOMAIN e.value
      /\ ToSet(m) = {} => \E o \in cache[m.path] : o.value = m.value \/ m.time < o.time
  BY <1>0, ToSetProperties
<1>3. m.path \in Paths
  BY DEF Entries
<1>4. \A x \in mine : /\ x.by = by /\ x.of = m /\ x.entry \in ToSet(m)
                     /\ x \in [by : {"loader", "update"}, of : Entries, entry : Entries]
  BY <1>2
<1>5. \A x, y \in mine : x = y
  BY <1>2
<1>6. Seen(m)'
  BY DEF Seen
<1> HIDE DEF mine, others
<1>7. ASSUME NEW x \in writing' PROVE Seen(x.entry)' /\ x.of.path = x.entry.path
  <2>1. CASE x \in writing
    BY <1>0, <2>1, StaysSeen DEF WritersInv
  <2>2. CASE x \in mine
    BY <1>2, <1>4, <1>6, <2>2 DEF Seen
  <2> QED
    BY <1>1, <2>1, <2>2
<1>8. ASSUME NEW x \in writing' PROVE Forward(x)'
  <2>1. CASE x.entry.path \in overlap'
    BY <2>1 DEF Forward
  <2>2. CASE x \in writing /\ x.entry.path \notin overlap'
    <3>1. x.entry.path \notin overlap /\ Forward(x)
      BY <1>0, <1>1, <2>2 DEF WritersInv
    <3>2. x.entry.path = m.path => mine = {}
      BY <1>1, <2>2 DEF others
    <3>3. \A y \in mine : y.entry.path # x.entry.path
      BY <1>2, <1>4, <3>2
    <3> QED
      BY <1>1, <3>1, <3>3 DEF Forward
  <2>3. CASE x \in mine /\ x.entry.path \notin overlap'
    <3>1. x.entry.path = m.path /\ others = {}
      BY <1>1, <1>2, <1>4, <2>3
    <3>2. \A y \in writing' : y.entry.path = x.entry.path => y = x
      BY <1>1, <1>5, <2>3, <3>1 DEF others
    <3>3. \A o \in cache[m.path] :
            o.time <= x.entry.time /\ DOMAIN o.value \subseteq DOMAIN x.entry.value
      BY <1>2, <1>4, <2>3
    <3> QED
      BY <3>1, <3>2, <3>3 DEF Forward
  <2> QED
    BY <1>1, <2>1, <2>2, <2>3
<1>9. WritersInv'
  BY <1>0, <1>7, <1>8, StaysSeen DEF WritersInv
<1>10. CASE ToSet(m) = {}
  BY <1>0, <1>1, <1>2, <1>3, <1>4, <1>9, <1>10 DEF ModelTypeOK
<1>11. CASE ToSet(m) # {}
  <2>1. PICK e : e \in ToSet(m)
    BY <1>11
  <2>2. [by |-> by, of |-> m, entry |-> e] \in mine
    BY <2>1 DEF mine
  <2>3. \E x \in writing' : x.by = by /\ x.entry = e
    BY <1>1, <2>2
  <2>4. Represents(e, m)'
    BY <1>2, <2>1 DEF Represents
  <2> QED
    BY <1>0, <1>1, <1>3, <1>4, <1>9, <2>3, <2>4 DEF ModelTypeOK
<1> QED
  BY <1>10, <1>11

LEMMA LoadInvStep == LoadInv /\ [ModelNext]_modelVars => LoadInv'
<1> SUFFICES ASSUME LoadInv, [ModelNext]_modelVars PROVE LoadInv'
  OBVIOUS
<1>0. ModelTypeOK /\ WritersInv
  BY DEF LoadInv
<1>a. ASSUME UNCHANGED <<cache, writing, overlap>> PROVE WritersInv'
  BY <1>0, <1>a, StaysSeen DEF WritersInv, Forward
<1>b. ASSUME NEW m, Covered(m), UNCHANGED cache, writing \subseteq writing' PROVE Covered(m)'
  BY <1>b, StaysRepresented DEF Covered
<1>c. ASSUME NEW m \in LoadedRows, UNCHANGED cache, \E e \in cache[m.path] : Represents(e, m)
      PROVE  \E e \in cache'[m.path] : Represents(e, m)'
  BY <1>c, StaysRepresented
<1>1. CASE LoadQuery
  <2>1. ModelTypeOK'
    BY <1>0, <1>1 DEF ModelTypeOK, LoadQuery
  <2>2. WritersInv' /\ ServedComplete'
    BY <1>1, <1>a, AnswersStay DEF LoadQuery
  <2>3. loader' \in {"write", "failed"} /\ wg' # 0
    BY <1>0, <1>1 DEF LoadQuery, LoadInv
  <2>4. loader' = "write" => LoadedRows \ toLoad' = {}
    BY <1>1 DEF LoadQuery, LoadedRows
  <2> QED
    BY <2>1, <2>2, <2>3, <2>4 DEF LoadInv
<1>2. CASE LoadDone
  <2>1. wg = 1
    BY <1>0, <1>2 DEF LoadInv, ModelTypeOK, LoadDone
  <2>2. ModelTypeOK'
    BY <1>0, <1>2, <2>1 DEF ModelTypeOK, LoadDone
  <2>3. WritersInv' /\ ServedComplete'
    BY <1>2, <1>a, AnswersStay DEF LoadDone
  <2>4. \A m \in LoadedRows : \E e \in cache[m.path] : Represents(e, m)
    BY <1>2 DEF LoadInv, LoadDone, Covered
  <2>5. wg' = 0 /\ loader' = "done" /\ UNCHANGED cache
    BY <1>2, <2>1 DEF LoadDone
  <2> QED
    BY <2>2, <2>3, <2>4, <2>5, <1>c DEF LoadInv
<1>3. ASSUME NEW m \in toLoad, LoadGet(m) PROVE LoadInv'
  <2>0. m \in LoadedRows /\ m \in Entries /\ m \in Known'
    BY <1>0, LoadedEntries DEF ModelTypeOK, LoadedRows, Known
  <2>1. /\ Get("loader", m) /\ loader = "write" /\ toLoad' = toLoad \ {m}
        /\ UNCHANGED <<cache, loader, wg, new, request, response>>
    BY <1>3 DEF LoadGet
  <2>2. /\ WritersInv'
        /\ writing' \subseteq [by : {"loader", "update"}, of : Entries, entry : Entries]
        /\ overlap' \subseteq Paths
        /\ \/ \E e \in cache[m.path] : e.value = m.value \/ m.time < e.time
           \/ \E x \in writing' : x.by = "loader" /\ Represents(x.entry, m)'
    BY <2>0, <2>1, GetStep
  <2>3. ModelTypeOK'
    BY <1>0, <2>1, <2>2 DEF ModelTypeOK
  <2>4. ASSUME NEW e \in cache[m.path], e.value = m.value \/ m.time < e.time
        PROVE  Represents(e, m)'
    <3>1. e.path = m.path /\ Seen(e)
      BY <1>0, <2>0, LoadedEntries DEF ModelTypeOK, WritersInv
    <3>2. m.time < e.time => Newer(m)
      BY <3>1 DEF Seen, Newer, Known, LoadedRows
    <3>3. Represents(e, m)
      BY <2>4, <3>1, <3>2 DEF Represents
    <3> QED
      BY <3>3, StaysRepresented
  <2>5. Covered(m)'
    BY <2>1, <2>2, <2>4 DEF Covered
  <2>6. writing \subseteq writing'
    BY <2>1 DEF Get
  <2>7. \A r \in LoadedRows \ toLoad : Covered(r)'
    BY <2>1, <2>6, <1>b DEF LoadInv
  <2> QED
    BY <2>1, <2>2, <2>3, <2>5, <2>7, AnswersStay DEF LoadInv
<1>4. ASSUME NEW m \in Updates, UpdateGet(m) PROVE LoadInv'
  <2>0. m \in Entries /\ m \in Known'
    BY <1>4, LoadedEntries DEF Known, UpdateGet
  <2>1. /\ Get("update", m) /\ new' = new \ {m}
        /\ UNCHANGED <<cache, toLoad, loader, wg, request, response>>
    BY <1>4 DEF UpdateGet
  <2>2. /\ WritersInv'
        /\ writing' \subseteq [by : {"loader", "update"}, of : Entries, entry : Entries]
        /\ overlap' \subseteq Paths
    BY <2>0, <2>1, GetStep
  <2>3. ModelTypeOK'
    BY <1>0, <2>1, <2>2 DEF ModelTypeOK
  <2>4. writing \subseteq writing'
    BY <2>1 DEF Get
  <2>5. loader = "write" => \A r \in LoadedRows \ toLoad : Covered(r)'
    BY <2>1, <2>4, <1>b DEF LoadInv
  <2>6. loader = "done" =>
          \A r \in LoadedRows : \E e \in cache'[r.path] : Represents(e, r)'
    BY <2>1, <1>c DEF LoadInv
  <2> QED
    BY <2>1, <2>2, <2>3, <2>5, <2>6, AnswersStay DEF LoadInv
<1>5. ASSUME NEW x \in writing, Set(x) PROVE LoadInv'
  <2> DEFINE p == x.entry.path
  <2>0. x.entry \in Entries /\ p \in Paths /\ Forward(x) /\ Seen(x.entry)
    BY <1>0 DEF ModelTypeOK, WritersInv, Entries
  <2>1. /\ cache' = [cache EXCEPT ![p] = {x.entry}]
        /\ writing' = writing \ {x}
        /\ UNCHANGED <<toLoad, loader, wg, new, overlap, request, response>>
    BY <1>5 DEF Set
  <2>2. cache'[p] = {x.entry} /\ \A r \in Paths \ {p} : cache'[r] = cache[r]
    BY <1>0, <2>0, <2>1 DEF ModelTypeOK
  <2> HIDE DEF p
  <2>3. ModelTypeOK'
    BY <1>0, <2>0, <2>1, <2>2 DEF ModelTypeOK, p
  <2>4. ASSUME NEW y \in writing' PROVE Seen(y.entry)' /\ Forward(y)' /\ y.of.path = y.entry.path
    <3>1. y \in writing /\ y # x /\ y.entry \in Entries /\ y.entry.path \in Paths
      BY <1>0, <2>1, <2>4 DEF ModelTypeOK, Entries
    <3>2. Seen(y.entry)' /\ Forward(y) /\ y.of.path = y.entry.path
      BY <1>0, <3>1, StaysSeen DEF WritersInv
    <3>3. y.entry.path = p => y.entry.path \in overlap
      BY <2>0, <3>1 DEF Forward, p
    <3> QED
      BY <2>1, <2>2, <3>1, <3>2, <3>3 DEF Forward
  <2>5. \A r \in Paths : \A e \in cache'[r] : Seen(e)'
    BY <1>0, <2>0, <2>2, StaysSeen DEF WritersInv
  <2>6. ASSUME NEW m \in LoadedRows, \E e \in cache[m.path] : Represents(e, m)
        PROVE  \E e \in cache'[m.path] : Represents(e, m)'
    <3>1. PICK e \in cache[m.path] : Represents(e, m)
      BY <2>6
    <3>2. m.path \in Paths
      BY LoadedEntries
    <3>3. CASE m.path # p
      BY <2>2, <3>1, <3>2, <3>3, StaysRepresented
    <3>4. CASE m.path = p
      <4>1. Represents(x.entry, m)
        BY <2>0, <3>1, <3>4 DEF Represents, Forward, p
      <4> QED
        BY <2>2, <3>4, <4>1, StaysRepresented
    <3> QED
      BY <3>3, <3>4
  <2>7. ASSUME NEW m \in LoadedRows, Covered(m) PROVE Covered(m)'
    <3>1. CASE \E e \in cache[m.path] : Represents(e, m)
      BY <2>6, <3>1 DEF Covered
    <3>2. CASE \E y \in writing : y.by = "loader" /\ Represents(y.entry, m)
      <4>1. PICK y \in writing : y.by = "loader" /\ Represents(y.entry, m)
        BY <3>2
      <4>2. Represents(y.entry, m)'
        BY <4>1, StaysRepresented
      <4>3. CASE y = x
        <5>1. m.path = p
          BY <4>1, <4>3 DEF Represents, p
        <5> QED
          BY <2>2, <4>2, <4>3, <5>1 DEF Covered
      <4>4. CASE y # x
        BY <2>1, <4>1, <4>2, <4>4 DEF Covered
      <4> QED
        BY <4>3, <4>4
    <3> QED
      BY <2>7, <3>1, <3>2 DEF Covered
  <2>8. WritersInv'
    BY <2>4, <2>5 DEF WritersInv
  <2> QED
    BY <2>1, <2>3, <2>6, <2>7, <2>8, AnswersStay DEF LoadInv
<1>6. ASSUME NEW q \in Requests, Arrive(q) PROVE LoadInv'
  <2>1. UNCHANGED <<cache, toLoad, loader, wg, new, writing, overlap, response>>
    BY <1>6 DEF Arrive
  <2>2. request' = [request EXCEPT ![q] = "wait"] /\ request[q] = "new"
    BY <1>6 DEF Arrive
  <2>3. ModelTypeOK'
    BY <1>0, <2>1, <2>2 DEF ModelTypeOK
  <2>4. \A r \in Requests : request'[r] \in {"served", "notFound"} => request[r] = request'[r]
    BY <1>0, <2>2 DEF ModelTypeOK
  <2>5. ServedComplete'
    BY <2>1, <2>4 DEF LoadInv, ServedComplete, Represents, Newer
  <2>6. \A m : Covered(m) => Covered(m)'
    BY <2>1, <1>b
  <2> QED
    BY <2>1, <2>3, <2>5, <2>6, <1>a, <1>c DEF LoadInv
<1>7. ASSUME NEW q \in Requests, Serve(q) PROVE LoadInv'
  <2> DEFINE found == UNION {cache[p] : p \in Asked[q]}
  <2>1. UNCHANGED <<cache, toLoad, loader, wg, new, writing, overlap>> /\ wg = 0 /\ loader = "done"
    BY <1>7 DEF Serve, Answer, LoadInv
  <2>2. /\ request' = [request EXCEPT ![q] =
                         IF found = {} /\ Asked[q] # Paths THEN "notFound" ELSE "served"]
        /\ response' = [response EXCEPT ![q] = found]
    BY <1>7 DEF Serve, Answer
  <2>3. /\ response'[q] = found /\ request'[q] \in {"served", "notFound"}
        /\ \A r \in Requests \ {q} : request'[r] = request[r] /\ response'[r] = response[r]
    BY <1>0, <2>2 DEF ModelTypeOK
  <2>4. found \subseteq Entries
    BY <1>0, ModelAssumption DEF ModelTypeOK
  <2>5. ModelTypeOK'
    BY <1>0, <2>1, <2>2, <2>4 DEF ModelTypeOK
  <2>6. ASSUME NEW row \in Stored, Loaded(row).path \in Asked[q]
        PROVE  \E e \in response'[q] : Represents(e, Loaded(row))'
    <3>1. PICK e \in cache[Loaded(row).path] : Represents(e, Loaded(row))
      BY <2>1 DEF LoadInv, LoadedRows
    <3>2. e \in found
      BY <2>6, <3>1
    <3> QED
      BY <2>3, <3>1, <3>2, StaysRepresented
  <2> HIDE DEF found
  <2>7. ServedComplete'
    <3> SUFFICES ASSUME NEW r \in Requests, request'[r] \in {"served", "notFound"},
                        NEW row \in Stored, Loaded(row).path \in Asked[r]
                 PROVE  \E e \in response'[r] : Represents(e, Loaded(row))'
      BY DEF ServedComplete
    <3>1. CASE r = q
      BY <2>6, <3>1
    <3>2. CASE r # q
      <4>1. PICK e \in response[r] : Represents(e, Loaded(row))
        BY <2>3, <3>2 DEF LoadInv, ServedComplete
      <4> QED
        BY <2>3, <3>2, <4>1, StaysRepresented
    <3> QED
      BY <3>1, <3>2
  <2> QED
    BY <2>1, <2>5, <2>7, <1>a, <1>c DEF LoadInv
<1>8. CASE UNCHANGED modelVars
  <2>1. ModelTypeOK' /\ UNCHANGED <<cache, toLoad, loader, wg, new, writing, overlap, request, response>>
    BY <1>0, <1>8 DEF ModelTypeOK, modelVars
  <2>2. \A m : Covered(m) => Covered(m)'
    BY <2>1, <1>b
  <2> QED
    BY <2>1, <2>2, <1>a, <1>c, AnswersStay DEF LoadInv
<1> QED
  BY <1>1, <1>2, <1>3, <1>4, <1>5, <1>6, <1>7, <1>8 DEF ModelNext

LEMMA LoadInvariant == ModelSpec => []LoadInv
BY LoadInvInit, LoadInvStep, PTL DEF ModelSpec

(* No request is answered, or turned away, from a cache that is only       *)
(* partly loaded, however the load, the deltas and the requests            *)
(* interleave.                                                             *)
THEOREM AnswersAreComplete == ModelSpec => []ServedComplete
<1>1. LoadInv => ServedComplete
  BY DEF LoadInv
<1> QED
  BY <1>1, LoadInvariant, PTL

(* Only a writer that another one overlaps can put an older value, or one  *)
(* with fewer fields, over a cached one.                                   *)
THEOREM CacheGoesForward == ModelSpec => CacheForward
<1>1. LoadInv /\ [ModelNext]_modelVars =>
        [\A p \in Paths : \A o \in cache[p] :
           \E e \in cache'[p] : \/ o.time <= e.time /\ DOMAIN o.value \subseteq DOMAIN e.value
                               \/ p \in overlap]_modelVars
  <2> SUFFICES ASSUME LoadInv, ModelNext, NEW p \in Paths, NEW o \in cache[p]
               PROVE  \E e \in cache'[p] :
                        \/ o.time <= e.time /\ DOMAIN o.value \subseteq DOMAIN e.value
                        \/ p \in overlap
    OBVIOUS
  <2>0. ModelTypeOK /\ WritersInv /\ o.time \in Nat
    BY DEF LoadInv, ModelTypeOK, Entries
  <2>1. CASE UNCHANGED cache
    BY <2>0, <2>1
  <2>2. ASSUME NEW x \in writing, Set(x) PROVE
          \E e \in cache'[p] :
            \/ o.time <= e.time /\ DOMAIN o.value \subseteq DOMAIN e.value
            \/ p \in overlap
    <3>1. cache' = [cache EXCEPT ![x.entry.path] = {x.entry}]
      BY <2>2 DEF Set
    <3>2. CASE p # x.entry.path
      BY <2>0, <3>1, <3>2 DEF ModelTypeOK
    <3>3. CASE p = x.entry.path
      <4>1. cache'[p] = {x.entry}
        BY <2>0, <3>1, <3>3 DEF ModelTypeOK
      <4>2. Forward(x)
        BY <2>0 DEF WritersInv
      <4> QED
        BY <3>3, <4>1, <4>2 DEF Forward
    <3> QED
      BY <3>2, <3>3
  <2>3. UNCHANGED cache \/ \E x \in writing : Set(x)
    BY DEF ModelNext, LoadQuery, LoadDone, LoadGet, UpdateGet, Arrive, Serve, Answer
  <2> QED
    BY <2>1, <2>2, <2>3
<1> QED
  BY <1>1, LoadInvariant, PTL DEF ModelSpec, CacheForward

(* An entry is cached under its own path, alone. *)
THEOREM ModelTypeCorrect == ModelSpec => []ModelTypeOK
<1>1. LoadInv => ModelTypeOK
  BY DEF LoadInv
<1> QED
  BY <1>1, LoadInvariant, PTL

-----------------------------------------------------------------------------
(* SignalKStream. *)

Untouched ==
  \A d \in pending : owed[d] = {} /\ \A c \in Clients : Places(d, c) = 0

StreamInv == TypeOK /\ RegisteredAlive /\ Untouched /\ Accounted

LEMMA StreamTypeStep == TypeOK /\ [Next]_vars => TypeOK'
<1> SUFFICES ASSUME TypeOK, [Next]_vars PROVE TypeOK'
  OBVIOUS
<1> USE StreamAssumption DEF TypeOK
<1>1. ASSUME NEW c \in Clients, Connect(c) PROVE TypeOK'
  BY <1>1 DEF Connect
<1>2. ASSUME NEW c \in Clients, Write(c) PROVE TypeOK'
  BY <1>2 DEF Write
<1>3. ASSUME NEW c \in Clients, WriteFails(c) PROVE TypeOK'
  BY <1>3 DEF WriteFails
<1>4. ASSUME NEW d \in Deltas, UpdateWebsocket(d) PROVE TypeOK'
  BY <1>4 DEF UpdateWebsocket
<1>5. ASSUME NEW d \in Deltas, NEW c \in Clients, NextClient(d, c) PROVE TypeOK'
  BY <1>5 DEF NextClient
<1>6. ASSUME NEW d \in Deltas, NEW c \in Clients, Send(d, c) PROVE TypeOK'
  BY <1>6 DEF Send
<1>7. ASSUME NEW c \in Clients, RemoveClient(c) PROVE TypeOK'
  BY <1>7 DEF RemoveClient
<1>8. CASE UNCHANGED vars
  BY <1>8 DEF vars
<1> QED
  BY <1>1, <1>2, <1>3, <1>4, <1>5, <1>6, <1>7, <1>8 DEF Next

LEMMA StreamInvInit == Init => StreamInv
<1> SUFFICES ASSUME Init PROVE StreamInv
  OBVIOUS
<1>1. TypeOK /\ RegisteredAlive
  BY StreamAssumption DEF Init, TypeOK, RegisteredAlive
<1>2. \A d \in Deltas, c \in Clients : Places(d, c) = 0 /\ owed[d] = {}
  BY StreamAssumption DEF Init, Places, One
<1>3. Untouched
  BY <1>2 DEF Init, Untouched
<1>4. Accounted
  BY <1>2 DEF Accounted
<1> QED
  BY <1>1, <1>3, <1>4 DEF StreamInv

(* A step at which every place count stays, and no client returns. *)
LEMMA Moved ==
  ASSUME StreamInv, TypeOK', RegisteredAlive',
         UNCHANGED <<pending, owed>>,
         \A d \in Deltas, c \in Clients : Places(d, c)' = Places(d, c),
         \A c \in Clients : Left(c) => Left(c)'
  PROVE  StreamInv'
<1>1. Untouched'
  BY DEF StreamInv, TypeOK, Untouched
<1>2. Accounted'
  BY DEF StreamInv, TypeOK, Accounted
<1> QED
  BY <1>1, <1>2 DEF StreamInv

LEMMA StreamInvStep == StreamInv /\ [Next]_vars => StreamInv'
<1> SUFFICES ASSUME StreamInv, [Next]_vars PROVE StreamInv'
  OBVIOUS
<1>0. TypeOK /\ TypeOK'
  BY StreamTypeStep DEF StreamInv
<1>1. ASSUME NEW c \in Clients, Connect(c) PROVE StreamInv'
  <2>1. \A e \in Deltas, x \in Clients : Places(e, x)' = Places(e, x)
    BY <1>1 DEF Connect, Places
  <2>2. RegisteredAlive'
    BY <1>0, <1>1, SMTT(60) DEF Connect, TypeOK, StreamInv, RegisteredAlive
  <2>3. \A x \in Clients : Left(x) => Left(x)'
    BY <1>0, <1>1 DEF Connect, TypeOK, Left
  <2> QED
    BY <1>0, <1>1, <2>1, <2>2, <2>3, Moved DEF Connect
<1>2. ASSUME NEW c \in Clients, Write(c) PROVE StreamInv'
  <2> DEFINE d == holding[c]
  <2>1. d \in Deltas /\ d # Nothing
    BY <1>0, <1>2, StreamAssumption DEF Write, TypeOK
  <2>2. \A e \in Deltas, x \in Clients :
          /\ got'[x][e] = got[x][e] + One(x = c /\ e = d)
          /\ holding'[x] = IF x = c THEN Nothing ELSE holding[x]
    BY <1>0, <1>2, <2>1 DEF Write, TypeOK, One
  <2>3. \A e \in Deltas, x \in Clients : Places(e, x)' = Places(e, x)
    BY <1>0, <1>2, <2>1, <2>2, StreamAssumption DEF Write, TypeOK, Places, One
  <2>4. RegisteredAlive'
    BY <1>0, <1>2 DEF Write, TypeOK, StreamInv, RegisteredAlive
  <2>5. \A x \in Clients : Left(x) => Left(x)'
    BY <1>0, <1>2 DEF Write, TypeOK, Left
  <2> QED
    BY <1>0, <1>2, <2>3, <2>4, <2>5, Moved DEF Write
<1>3. ASSUME NEW c \in Clients, WriteFails(c) PROVE StreamInv'
  <2> DEFINE d == holding[c]
  <2>1. d \in Deltas /\ d # Nothing
    BY <1>0, <1>3, StreamAssumption DEF WriteFails, TypeOK
  <2>2. \A e \in Deltas, x \in Clients :
          /\ Places(e, x)' = Places(e, x) - One(x = c /\ e = d)
          /\ handler'[x] = IF x = c THEN "leaving" ELSE handler[x]
    <3>1. \A x \in Clients :
            /\ holding'[x] = IF x = c THEN Nothing ELSE holding[x]
            /\ handler'[x] = IF x = c THEN "leaving" ELSE handler[x]
      BY <1>0, <1>3 DEF WriteFails, TypeOK
    <3>2. \A e \in Deltas, x \in Clients :
            One(holding'[x] = e) = One(holding[x] = e) - One(x = c /\ e = d)
      BY <2>1, <3>1, StreamAssumption DEF One
    <3>3. \A e \in Deltas, x \in Clients : got[x][e] \in Nat
      BY <1>0 DEF TypeOK
    <3>4. UNCHANGED <<todo, target, got>>
      BY <1>3 DEF WriteFails
    <3> QED
      BY <3>1, <3>2, <3>3, <3>4 DEF Places, One
  <2>3. \A e \in Deltas, x \in Clients : Places(e, x) \in Nat /\ Places(e, x)' \in Nat
    BY <1>0 DEF TypeOK, Places, One
  <2>4. RegisteredAlive'
    BY <1>0, <1>3 DEF WriteFails, TypeOK, StreamInv, RegisteredAlive
  <2>5. UNCHANGED <<pending, owed>>
    BY <1>3 DEF WriteFails
  <2>6. Accounted'
    <3> SUFFICES ASSUME NEW e \in Deltas, NEW x \in Clients
                 PROVE  /\ Places(e, x)' <= 1
                        /\ x \in owed[e] /\ ~Left(x)' => Places(e, x)' = 1
                        /\ Places(e, x)' = 1 => x \in owed[e]
      BY <2>5 DEF Accounted
    <3>1. /\ Places(e, x) <= 1
          /\ x \in owed[e] /\ ~Left(x) => Places(e, x) = 1
          /\ Places(e, x) = 1 => x \in owed[e]
      BY DEF StreamInv, Accounted
    <3>2. Places(e, x) \in Nat /\ Places(e, x)' \in Nat
      BY <2>3
    <3>3. CASE x = c /\ e = d
      BY <2>2, <3>1, <3>2, <3>3 DEF One, Left
    <3>4. CASE ~(x = c /\ e = d)
      <4>1. Places(e, x)' = Places(e, x)
        BY <2>2, <3>2, <3>4 DEF One
      <4>2. Left(x) => Left(x)'
        BY <1>3, <2>2 DEF Left, WriteFails
      <4> QED
        BY <3>1, <4>1, <4>2
    <3> QED
      BY <3>3, <3>4
  <2>7. Untouched'
    <3> SUFFICES ASSUME NEW e \in pending
                 PROVE  owed[e] = {} /\ \A x \in Clients : Places(e, x)' = 0
      BY <2>5 DEF Untouched
    <3>1. e \in Deltas /\ owed[e] = {} /\ \A x \in Clients : Places(e, x) = 0
      BY DEF StreamInv, Untouched, TypeOK
    <3>2. ASSUME NEW x \in Clients PROVE Places(e, x)' = 0
      <4>1. Places(e, x) = 0
        BY <3>1
      <4>2. Places(e, x)' = Places(e, x) - One(x = c /\ e = d)
        BY <2>2, <3>1
      <4>3. Places(e, x)' \in Nat
        BY <2>3, <3>1
      <4>4. One(x = c /\ e = d) \in {0, 1}
        BY DEF One
      <4> QED
        BY <4>1, <4>2, <4>3, <4>4
    <3> QED
      BY <3>1, <3>2
  <2> QED
    BY <1>0, <2>4, <2>6, <2>7 DEF StreamInv
<1>4. ASSUME NEW d \in Deltas, UpdateWebsocket(d) PROVE StreamInv'
  <2>1. \A e \in Deltas \ {d}, x \in Clients :
          Places(e, x)' = Places(e, x) /\ owed'[e] = owed[e]
    BY <1>0, <1>4 DEF UpdateWebsocket, TypeOK, Places
  <2>2. \A x \in Clients : Places(d, x)' = One(x \in registered)
    <3>1. \A x \in Clients : Places(d, x) = 0
      BY <1>4 DEF UpdateWebsocket, StreamInv, Untouched
    <3> QED
      BY <1>0, <1>4, <3>1 DEF UpdateWebsocket, TypeOK, Places, One
  <2>3. owed'[d] = registered /\ pending' = pending \ {d} /\ UNCHANGED <<handler, registered>>
    BY <1>0, <1>4 DEF UpdateWebsocket, TypeOK
  <2>4. Accounted'
    <3> SUFFICES ASSUME NEW e \in Deltas, NEW x \in Clients
                 PROVE  /\ Places(e, x)' <= 1
                        /\ x \in owed'[e] /\ ~Left(x) => Places(e, x)' = 1
                        /\ Places(e, x)' = 1 => x \in owed'[e]
      BY <2>3 DEF Accounted, Left
    <3>1. CASE e = d
      BY <2>2, <2>3, <3>1 DEF One
    <3>2. CASE e # d
      BY <2>1, <3>2 DEF StreamInv, Accounted
    <3> QED
      BY <3>1, <3>2
  <2>5. Untouched' /\ RegisteredAlive'
    BY <1>0, <2>1, <2>3 DEF StreamInv, Untouched, RegisteredAlive, TypeOK
  <2> QED
    BY <1>0, <2>4, <2>5 DEF StreamInv
<1>5. ASSUME NEW d \in Deltas, NEW c \in Clients, NextClient(d, c) PROVE StreamInv'
  <2>1. \A e \in Deltas, x \in Clients : Places(e, x)' = Places(e, x)
    BY <1>0, <1>5, StreamAssumption DEF NextClient, TypeOK, Places, One
  <2> QED
    BY <1>0, <1>5, <2>1, Moved DEF NextClient, StreamInv, RegisteredAlive, Left
<1>6. ASSUME NEW d \in Deltas, NEW c \in Clients, Send(d, c) PROVE StreamInv'
  <2>1. holding[c] \notin Deltas
    BY <1>0, <1>6 DEF Send, TypeOK
  <2>2. \A e \in Deltas, x \in Clients : Places(e, x)' = Places(e, x)
    BY <1>0, <1>6, <2>1, StreamAssumption DEF Send, TypeOK, Places, One
  <2>3. RegisteredAlive'
    BY <1>0, <1>6 DEF Send, TypeOK, StreamInv, RegisteredAlive
  <2>4. \A x \in Clients : Left(x) => Left(x)'
    BY <1>0, <1>6 DEF Send, TypeOK, Left
  <2> QED
    BY <1>0, <1>6, <2>2, <2>3, <2>4, Moved DEF Send
<1>7. ASSUME NEW c \in Clients, RemoveClient(c) PROVE StreamInv'
  <2>1. \A e \in Deltas, x \in Clients : Places(e, x)' = Places(e, x)
    BY <1>7 DEF RemoveClient, Places
  <2>2. RegisteredAlive'
    BY <1>0, <1>7 DEF RemoveClient, TypeOK, StreamInv, RegisteredAlive
  <2>3. \A x \in Clients : Left(x) => Left(x)'
    BY <1>0, <1>7 DEF RemoveClient, TypeOK, Left
  <2> QED
    BY <1>0, <1>7, <2>1, <2>2, <2>3, Moved DEF RemoveClient
<1>8. CASE UNCHANGED vars
  <2>1. \A e \in Deltas, x \in Clients : Places(e, x)' = Places(e, x)
    BY <1>8 DEF vars, Places
  <2> QED
    BY <1>0, <1>8, <2>1, Moved DEF vars, StreamInv, RegisteredAlive, Left
<1> QED
  BY <1>1, <1>2, <1>3, <1>4, <1>5, <1>6, <1>7, <1>8 DEF Next

LEMMA StreamInvariant == Spec => []StreamInv
BY StreamInvInit, StreamInvStep, PTL DEF Spec

(* No client of a snapshot is skipped or served twice, however the         *)
(* goroutines of the deltas and the handlers interleave.                   *)
THEOREM DeltasAreAccounted == Spec => []Accounted
BY StreamInvariant, PTL DEF StreamInv

(* A client is registered exactly from addClient to removeClient, while    *)
(* its handler has not returned.                                           *)
THEOREM RegisteredHaveHandlers == Spec => []RegisteredAlive
BY StreamInvariant, PTL DEF StreamInv

(* The handlers and the goroutines of the deltas are in a step of theirs.   *)
THEOREM StreamTypeCorrect == Spec => []TypeOK
BY StreamInvariant, PTL DEF StreamInv

=============================================================================
