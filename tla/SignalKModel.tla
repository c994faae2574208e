---------------------------- MODULE SignalKModel ----------------------------
(***************************************************************************)
(* The full data model of SignalKWriter: a cache filled from the database  *)
(* at the start and updated by every delta, served over HTTP.              *)
(*                                                                         *)
(* BigCache.WriteMapped reads the cached value of a path, decides whether  *)
(* the new one replaces it and writes it back; every delta does so in a    *)
(* goroutine of its own, next to the goroutine that loads the database.    *)
(* HTTP requests wait for the load (wg.Wait()).  A value maps fields to    *)
(* data: an object such as VesselInfo has several and is merged field by   *)
(* field, a number or a string is a value of one field.                    *)
(*                                                                         *)
(* The database keeps a VesselInfo under the paths "mmsi" and "name", the  *)
(* cache keeps it under the path "".  Contexts never meet, so there is     *)
(* one.  The runs are shorter than the life window: nothing is evicted,    *)
(* and what was decoded once can be decoded again, so ReadMapped succeeds. *)
(***************************************************************************)
EXTENDS Naturals

CONSTANTS
  Paths,             \* paths of the cache
  Root, Mmsi, Name,  \* the path "" and its two paths in the database
  Fields, Data,      \* a value maps fields to data
  Updates,           \* values received: [path, time, value]
  Stored,            \* newest value per path in the database at the start
  Requests,          \* HTTP requests
  Asked              \* per request: the paths below its search path

Values == UNION {[F -> Data] : F \in SUBSET Fields}
Entries == [path : Paths, time : Nat, value : Values]
Rows == [path : (Paths \ {Root}) \cup {Mmsi, Name}, time : Nat, value : Values]

ASSUME ModelAssumption ==
  /\ Root \in Paths /\ {Mmsi, Name} \cap Paths = {}
  /\ Updates \subseteq Entries /\ Stored \subseteq Rows
  /\ Asked \in [Requests -> SUBSET Paths]

VARIABLES
  cache,     \* per path: the cached entry, as a set of at most one
  toLoad,    \* loaded entries the loading goroutine has yet to write
  loader,    \* "query", "write", "done" or "failed"
  wg,        \* counter of the wait group
  new,       \* deltas not received yet
  writing,   \* WriteMapped between Get and Set: the entries to be set
  overlap,   \* history: paths that had two such writers at once
  request,   \* per request: "new", "wait", "served" or "notFound"
  response   \* per request: the entries it was answered with

modelVars == <<cache, toLoad, loader, wg, new, writing, overlap, request, response>>

(* ReadMapped: m.Path == "mmsi" || m.Path == "name" becomes "". *)
Loaded(row) == [row EXCEPT !.path = IF @ \in {Mmsi, Name} THEN Root ELSE @]

(* Mutant: an older value replaces a newer one. *)
Skip_AnyTime(original, m) == original.value = m.value

(* original.Equals(m) || m.Timestamp.Before(original.Timestamp) *)
Skip(original, m) == original.value = m.value \/ m.time < original.time

(* The fields of both; of one that both have, the new value. *)
Merge(original, m) ==
  [m EXCEPT !.value =
    [f \in DOMAIN original.value \cup DOMAIN m.value |->
       IF f \in DOMAIN m.value THEN m.value[f] ELSE original.value[f]]]

(* What WriteMapped decides to set for m, after reading the cache. *)
ToSet(m) ==
  {e \in {m} : cache[m.path] = {}}
    \cup {Merge(original, m) : original \in {o \in cache[m.path] : ~Skip(o, m)}}

(* WriteMapped from Get on; several goroutines may be past their Get. *)
Get(by, m) ==
  LET mine == {[by |-> by, of |-> m, entry |-> e] : e \in ToSet(m)}
      others == {x \in writing : x.entry.path = m.path}
  IN  /\ writing' = writing \cup mine
      /\ overlap' = overlap \cup {p \in {m.path} : mine # {} /\ others # {}}

ModelInit ==
  /\ cache = [p \in Paths |-> {}]
  /\ toLoad = {} /\ loader = "query"
  /\ wg = 1      \* wg.Add(1) comes before the goroutine and the server
  /\ new = Updates /\ writing = {} /\ overlap = {}
  /\ request = [q \in Requests |-> "new"]
  /\ response = [q \in Requests |-> {}]

-----------------------------------------------------------------------------
(* readFromDatabase *)
LoadQuery ==
  /\ loader = "query"
  /\ \/ /\ loader' = "write" /\ toLoad' = {Loaded(row) : row \in Stored}
     \/ /\ loader' = "failed"           \* returns without wg.Done()
        /\ UNCHANGED toLoad
  /\ UNCHANGED <<cache, wg, new, writing, overlap, request, response>>

(* WriteMapped handles the loaded values one after the other; the query    *)
(* does not order them.                                                    *)
LoadGet(m) ==
  /\ loader = "write" /\ m \in toLoad
  /\ \A x \in writing : x.by # "loader"
  /\ toLoad' = toLoad \ {m}
  /\ Get("loader", m)
  /\ UNCHANGED <<cache, loader, wg, new, request, response>>

(* Mutant: wg.Done() is missing after the load too. *)
LoadDone_NoDone ==
  /\ loader = "write" /\ toLoad = {}
  /\ \A x \in writing : x.by # "loader"
  /\ loader' = "done"
  /\ UNCHANGED <<cache, toLoad, wg, new, writing, overlap, request, response>>

LoadDone ==
  /\ loader = "write" /\ toLoad = {}
  /\ \A x \in writing : x.by # "loader"
  /\ loader' = "done"
  /\ wg' = wg - 1
  /\ UNCHANGED <<cache, toLoad, new, writing, overlap, request, response>>

(* receive starts updateFullDataModel for a delta; it reads the cache. *)
UpdateGet(m) ==
  /\ m \in new
  /\ new' = new \ {m}
  /\ Get("update", m)
  /\ UNCHANGED <<cache, toLoad, loader, wg, request, response>>

Set(x) ==
  /\ x \in writing
  /\ cache' = [cache EXCEPT ![x.entry.path] = {x.entry}]
  /\ writing' = writing \ {x}
  /\ UNCHANGED <<toLoad, loader, wg, new, overlap, request, response>>

(* serveFullDataModel *)
Arrive(q) ==
  /\ request[q] = "new"
  /\ request' = [request EXCEPT ![q] = "wait"]
  /\ UNCHANGED <<cache, toLoad, loader, wg, new, writing, overlap, response>>

(* The answer; without a search path there is always a document, else      *)
(* JSONPointer must find something below it.                               *)
Answer(q) ==
  LET found == UNION {cache[p] : p \in Asked[q]}
  IN  /\ request' = [request EXCEPT ![q] =
                       IF found = {} /\ Asked[q] # Paths THEN "notFound" ELSE "served"]
      /\ response' = [response EXCEPT ![q] = found]
      /\ UNCHANGED <<cache, toLoad, loader, wg, new, writing, overlap>>

(* Mutant: the handler does not wait for the load. *)
Serve_NoWait(q) == request[q] = "wait" /\ Answer(q)

Serve(q) == request[q] = "wait" /\ wg = 0 /\ Answer(q)

ModelNext ==
  \/ LoadQuery \/ LoadDone
  \/ \E m \in toLoad : LoadGet(m)
  \/ \E m \in Updates : UpdateGet(m)
  \/ \E x \in writing : Set(x)
  \/ \E q \in Requests : Arrive(q) \/ Serve(q)

ModelSpec == ModelInit /\ [][ModelNext]_modelVars

(* The goroutines run; deltas and requests need not come.                  *)
ModelFairSpec ==
  /\ ModelSpec
  /\ WF_modelVars(LoadQuery) /\ WF_modelVars(LoadDone)
  /\ WF_modelVars(\E m \in toLoad : LoadGet(m))
  /\ WF_modelVars(\E x \in writing : Set(x))
  /\ \A q \in Requests : WF_modelVars(Serve(q))

-----------------------------------------------------------------------------
(* Properties. *)

(* Types; an entry is cached under its own path, alone. *)
ModelTypeOK ==
  /\ cache \in [Paths -> SUBSET Entries]
  /\ \A p \in Paths : \A e, f \in cache[p] : e = f /\ e.path = p
  /\ toLoad \subseteq {Loaded(row) : row \in Stored}
  /\ loader \in {"query", "write", "done", "failed"}
  /\ wg \in {0, 1}
  /\ new \subseteq Updates
  /\ writing \subseteq [by : {"loader", "update"}, of : Entries, entry : Entries]
  /\ overlap \subseteq Paths
  /\ request \in [Requests -> {"new", "wait", "served", "notFound"}]
  /\ response \in [Requests -> SUBSET Entries]

(* A value of the path that is newer than m: loaded, or received so far. *)
Newer(m) ==
  \E x \in {Loaded(row) : row \in Stored} \cup (Updates \ new) :
    x.path = m.path /\ x.time > m.time

(* Entry e represents the value m of its path.  What may cost fields of m: *)
(* a newer value that was cached first (the older one is skipped as a      *)
(* whole, and so one of the rows "mmsi" and "name" by the other) and two   *)
(* writers of the path that overlapped (the later Set undoes the other).   *)
Represents(e, m) ==
  /\ e.path = m.path
  /\ DOMAIN m.value \subseteq DOMAIN e.value \/ Newer(m) \/ m.path \in overlap

(* A request is never answered, nor turned away, from a cache that is only *)
(* partly loaded: what the database knew at the start about a path asked   *)
(* for is represented in the answer.                                       *)
ServedComplete ==
  \A q \in Requests : request[q] \in {"served", "notFound"} =>
    \A row \in Stored : Loaded(row).path \in Asked[q] =>
      \E e \in response[q] : Represents(e, Loaded(row))

(* The cached value of a path never becomes older nor loses a field, with  *)
(* one exception: a writer that read the cache before another one's Set    *)
(* puts its own value over it, whatever the times.                         *)
CacheForward ==
  [][\A p \in Paths : \A o \in cache[p] :
       \E e \in cache'[p] : \/ o.time <= e.time /\ DOMAIN o.value \subseteq DOMAIN e.value
                           \/ p \in overlap]_modelVars

(* Every request is answered, unless the first query of readFromDatabase   *)
(* fails: then it returns without wg.Done() and wg.Wait() never returns.   *)
Served ==
  \A q \in Requests :
    request[q] = "wait" ~> (request[q] \in {"served", "notFound"} \/ loader = "failed")

=============================================================================
