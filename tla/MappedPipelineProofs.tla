------------------------ MODULE MappedPipelineProofs ------------------------
(***************************************************************************)
(* The invariants of the mapped pipeline hold in every instance of it.     *)
(* The turns of a process, which looked records, carry the argument: what  *)
(* its expressions can read is what LookedAt says (TurnsInv), what held of *)
(* a turn holds ever after (TurnsBefore), and each process keeps what it   *)
(* knows of the delta it is mapping until it tells it (AggregatingInv,     *)
(* FilteringInv, LastSeenInv).                                             *)
(***************************************************************************)
EXTENDS MappedPipeline, WellFoundedInduction, NaturalsInduction, TLAPS

-----------------------------------------------------------------------------
(* The last turn of a path. *)

(* The greatest number of a bounded set, by well-foundedness. *)
LEMMA GreatestNumber ==
  ASSUME NEW n \in Nat, NEW S \in SUBSET (1 .. n), S # {}
  PROVE  Max(S) \in S /\ \A i \in S : i <= Max(S)
<1> DEFINE R == {p \in Nat \X Nat : p[1] < p[2]}
           T == {k \in Nat : n - k \in S}
<1>1. IsWellFoundedOn(R, Nat)
  BY NatLessThanWellFounded DEF OpToRel
<1>2. ASSUME NEW i \in S PROVE n - i \in T
  <2>1. i \in 1 .. n
    OBVIOUS
  <2>2. n - i \in Nat /\ n - (n - i) = i
    BY <2>1
  <2> QED
    BY <2>2
<1>3. T \subseteq Nat /\ T # {}
  BY <1>2
<1>4. \E x \in T : \A y \in T : ~(<<y, x>> \in R)
  <2> HIDE DEF R, T
  <2> QED
    BY <1>1, <1>3, WFMin
<1>5. PICK x \in T : \A y \in T : ~(<<y, x>> \in R)
  BY <1>4
<1>6. \A k \in S : n - x >= k
  <2> SUFFICES ASSUME NEW k \in S PROVE n - x >= k
    OBVIOUS
  <2>1. n - k \in T /\ n - k \in Nat /\ x \in Nat /\ k \in Nat
    BY <1>2
  <2>2. ~(n - k < x)
    BY <1>5, <2>1
  <2> QED
    BY <2>1, <2>2
<1>7. \E y \in S : \A k \in S : y >= k
  BY <1>6
<1>8. Max(S) \in S /\ \A k \in S : Max(S) >= k
  <2> HIDE DEF R, T
  <2> QED
    BY <1>7, Zenon DEF Max
<1>9. \A k \in S : k \in Nat
  OBVIOUS
<1> QED
  BY <1>8, <1>9

(* It is the one that is in the set and greater than all others. *)
LEMMA MaxIs ==
  ASSUME NEW n \in Nat, NEW S \in SUBSET (1 .. n), NEW x \in S, \A i \in S : i <= x
  PROVE  Max(S) = x
<1>1. Max(S) \in S /\ x <= Max(S) /\ Max(S) <= x
  BY GreatestNumber
<1>2. \A i \in S : i \in Int
  OBVIOUS
<1>3. \A y \in Int : x <= y /\ y <= x => y = x
  BY <1>2
<1> QED
  BY <1>1, <1>2, <1>3

(* What was looked at before does not depend on what is looked at later. *)
LEMMA LastOfAppended ==
  ASSUME NEW X, NEW turns \in Seq(X), NEW x \in X, NEW j \in 0 .. Len(turns), NEW paths
  PROVE  LastOf(Append(turns, x), j, paths) = LastOf(turns, j, paths)
<1>1. j \in Nat /\ \A i \in 1 .. j : Append(turns, x)[i] = turns[i]
  OBVIOUS
<1>2. ASSUME NEW p PROVE TurnsOf(Append(turns, x), j, p) = TurnsOf(turns, j, p)
  BY <1>1, Zenon DEF TurnsOf
<1>3. ASSUME NEW p, TurnsOf(turns, j, p) # {}
      PROVE  Max(TurnsOf(turns, j, p)) \in 1 .. j
  <2>1. TurnsOf(turns, j, p) \in SUBSET (1 .. j)
    BY DEF TurnsOf
  <2>2. Max(TurnsOf(turns, j, p)) \in TurnsOf(turns, j, p)
    BY <1>1, <1>3, <2>1, GreatestNumber
  <2> QED
    BY <2>1, <2>2
<1> DEFINE l == Append(turns, x)
<1>4. ASSUME NEW p, TurnsOf(l, j, p) # {}
      PROVE  l[Max(TurnsOf(l, j, p))] = turns[Max(TurnsOf(turns, j, p))]
  BY <1>1, <1>2, <1>3, <1>4
<1>5. \A p : TurnsOf(l, j, p) = TurnsOf(turns, j, p)
  BY <1>2
<1> HIDE DEF l
<1>6. {q \in paths : TurnsOf(l, j, q) # {}} = {q \in paths : TurnsOf(turns, j, q) # {}}
  BY <1>5
<1> QED
  BY <1>4, <1>6 DEF LastOf, l

(* e is o, but for v, if its path is one of those that are read. *)
Updates(e, o, v, paths) ==
  /\ DOMAIN e = DOMAIN o \cup ({v.path} \cap paths)
  /\ \A p \in DOMAIN e : e[p] = IF p = v.path THEN v ELSE o[p]

(* The next turn replaces the value of its path. *)
LEMMA LastOfNext ==
  ASSUME NEW X, NEW turns \in Seq(X), NEW x \in X, NEW paths,
         NEW n, n = Len(turns)
  PROVE  Updates(LastOf(Append(turns, x), n + 1, paths), LastOf(turns, n, paths),
                 x.value, paths)
<1> DEFINE l == Append(turns, x)
<1>0. n \in Nat /\ l[n + 1] = x /\ \A i \in 1 .. n : l[i] = turns[i]
  OBVIOUS
<1>1. ASSUME NEW p, p # x.value.path
      PROVE  TurnsOf(l, n + 1, p) = TurnsOf(turns, n, p)
  <2>1. \A i \in 1 .. n + 1 : i = n + 1 \/ i \in 1 .. n
    BY <1>0
  <2>2. 1 .. n \subseteq 1 .. n + 1
    BY <1>0
  <2> HIDE DEF l
  <2>3. TurnsOf(l, n + 1, p) \subseteq TurnsOf(turns, n, p)
    BY <1>0, <1>1, <2>1 DEF TurnsOf
  <2>4. TurnsOf(turns, n, p) \subseteq TurnsOf(l, n + 1, p)
    BY <1>0, <2>2 DEF TurnsOf
  <2> QED
    BY <2>3, <2>4
<1>2. n + 1 \in TurnsOf(l, n + 1, x.value.path)
  BY <1>0 DEF TurnsOf
<1>3. Max(TurnsOf(l, n + 1, x.value.path)) = n + 1
  <2> DEFINE S == TurnsOf(l, n + 1, x.value.path)
         m == n + 1
  <2>1. S \in SUBSET (1 .. m) /\ m \in S
    BY <1>2 DEF TurnsOf
  <2>2. m \in Nat /\ \A i \in 1 .. m : i <= m
    BY <1>0
  <2> HIDE DEF S, m
  <2>3. \A i \in S : i <= m
    BY <2>1, <2>2
  <2>4. Max(S) = m
    BY <2>1, <2>2, <2>3, MaxIs
  <2> QED
    BY <2>4 DEF S, m
<1>4. ASSUME NEW p, p # x.value.path, TurnsOf(turns, n, p) # {}
      PROVE  l[Max(TurnsOf(l, n + 1, p))] = turns[Max(TurnsOf(turns, n, p))]
  <2>1. Max(TurnsOf(turns, n, p)) \in 1 .. n
    BY <1>0, <1>4, GreatestNumber DEF TurnsOf
  <2> QED
    BY <1>0, <1>1, <1>4, <2>1
<1> HIDE DEF l
<1>5. DOMAIN LastOf(l, n + 1, paths) =
        DOMAIN LastOf(turns, n, paths) \cup ({x.value.path} \cap paths)
  BY <1>1, <1>2 DEF LastOf
<1>6. ASSUME NEW p \in DOMAIN LastOf(l, n + 1, paths)
      PROVE  LastOf(l, n + 1, paths)[p] =
               IF p = x.value.path THEN x.value ELSE LastOf(turns, n, paths)[p]
  <2>1. CASE p = x.value.path
    BY <1>0, <1>3, <2>1 DEF LastOf, l
  <2>2. CASE p # x.value.path
    BY <1>1, <1>4, <2>2 DEF LastOf
  <2> QED
    BY <2>1, <2>2
<1> QED
  BY <1>5, <1>6 DEF l, Updates

-----------------------------------------------------------------------------
(* Types. *)

ProcessTypeOK ==
  /\ socket \in [Processes -> Seq(Seq(Values))]
  /\ busy \in [Processes -> BOOLEAN]
  /\ todo \in [Processes -> Seq(Values)]
  /\ result \in [Processes -> Seq(Values)]
  /\ heard \in [Processes -> Seq(Seq(Values))]
  /\ looked \in [Processes -> Seq([delta : Nat, value : Values])]
  /\ told \in [Processes -> Seq(Seq(Values))]

(* The aggregate mapper hears samples. *)
SamplesFirst ==
  /\ socket[Aggregator] \in Seq(Seq(Samples))
  /\ todo[Aggregator] \in Seq(Samples)
  /\ \A p \in DOMAIN env[Aggregator] : env[Aggregator][p] \in Samples

Outputs == [path : Paths, content : Computed, from : SUBSET Samples]

ExpressionTypeOK ==
  /\ env = [s \in {Aggregator, Filter} |-> env[s]]
  /\ \A s \in {Aggregator, Filter} : \A p \in DOMAIN env[s] : env[s][p] \in Values
  /\ pending \subseteq DOMAIN AggregateMappings
  /\ added \in Seq(Outputs)
  /\ newest \in 0 .. MaxTime
  /\ result[Aggregator] = <<>> => pending = {} /\ added = <<>>

RateLimitTypeOK ==
  /\ lastSeen \in [Contexts -> [Paths -> 0 .. Never]]
  /\ passed \in Seq(Values)

TypeInv == ProcessTypeOK /\ SamplesFirst /\ ExpressionTypeOK /\ RateLimitTypeOK

LEMMA SamplesAreValues == Samples \subseteq Values /\ Seq(Samples) \subseteq Seq(Values)
<1>1. Samples \subseteq Values
  BY DEF Samples, Values
<1> QED
  BY <1>1

LEMMA ValueParts ==
  ASSUME NEW v \in Values
  PROVE  /\ v.context \in Contexts /\ v.path \in Paths
         /\ v.time \in 0 .. MaxTime /\ v.time \in Nat
         /\ v.content \in Contents \cup Computed
BY MappedAssumption DEF Values

LEMMA AppendType ==
  ASSUME NEW X, NEW q \in Seq(X), NEW x \in X
  PROVE  Append(q, x) \in Seq(X)
OBVIOUS

LEMMA HeadTailType ==
  ASSUME NEW X, NEW q \in Seq(X), q # <<>>
  PROVE  Head(q) \in X /\ Head(q) = q[1] /\ Tail(q) \in Seq(X) /\ Len(q) > 0
OBVIOUS

(* A turn is added to those of the process. *)
LEMMA LookType ==
  ASSUME ProcessTypeOK, NEW s \in Processes, NEW v \in Values
  PROVE  Append(looked[s], [delta |-> Len(heard[s]), value |-> v])
           \in Seq([delta : Nat, value : Values])
<1>1. heard[s] \in Seq(Seq(Values)) /\ looked[s] \in Seq([delta : Nat, value : Values])
  BY DEF ProcessTypeOK
<1>2. Len(heard[s]) \in Nat
  BY <1>1
<1>3. [delta |-> Len(heard[s]), value |-> v] \in [delta : Nat, value : Values]
  BY <1>2
<1> QED
  BY <1>1, <1>3, AppendType

(* What the actions of a process do to its part of the state. *)
LEMMA ReceiveEffect ==
  ASSUME ProcessTypeOK, NEW s \in Processes, Receive(s)
  PROVE  /\ ~busy[s] /\ Len(socket[s]) > 0
         /\ socket' = [socket EXCEPT ![s] = Tail(@)]
         /\ UNCHANGED <<looked, told>>
         /\ \/ UNCHANGED <<busy, todo, result, heard>>
            \/ /\ busy' = [busy EXCEPT ![s] = TRUE]
               /\ todo' = [todo EXCEPT ![s] = Head(socket[s])]
               /\ result' = [result EXCEPT ![s] = <<>>]
               /\ heard' = [heard EXCEPT ![s] = Append(@, Head(socket[s]))]
         /\ Head(socket[s]) \in Seq(Values)
         /\ Head(socket[s]) = socket[s][1]
<1>1. socket[s] \in Seq(Seq(Values)) /\ socket[s] # <<>>
  BY DEF Receive, ProcessTypeOK
<1>2. Len(socket[s]) > 0 /\ Head(socket[s]) \in Seq(Values) /\ Head(socket[s]) = socket[s][1]
  BY <1>1, HeadTailType
<1> QED
  BY <1>2 DEF Receive

LEMMA ReceiveType ==
  ASSUME ProcessTypeOK, NEW s \in Processes, Receive(s)
  PROVE  ProcessTypeOK'
<1>1. socket[s] \in Seq(Seq(Values)) /\ socket[s] # <<>> /\ heard[s] \in Seq(Seq(Values))
  BY DEF Receive, ProcessTypeOK
<1>2. Tail(socket[s]) \in Seq(Seq(Values)) /\ Head(socket[s]) \in Seq(Values)
  BY <1>1, HeadTailType
<1>3. <<>> \in Seq(Values)
  OBVIOUS
<1>4. Append(heard[s], Head(socket[s])) \in Seq(Seq(Values))
  BY <1>1, <1>2, AppendType
<1> DEFINE SS == Seq(Seq(Values))
           S == Seq(Values)
           h == Head(socket[s])
           rest == Tail(socket[s])
           all == Append(heard[s], h)
           nothing == <<>>
<1>5. /\ socket' = [socket EXCEPT ![s] = rest]
      /\ \/ UNCHANGED <<todo, result, heard>>
         \/ /\ todo' = [todo EXCEPT ![s] = h]
            /\ result' = [result EXCEPT ![s] = nothing]
            /\ heard' = [heard EXCEPT ![s] = all]
  BY ReceiveEffect
<1>6. /\ rest \in SS /\ h \in S /\ all \in SS /\ nothing \in S
      /\ socket \in [Processes -> SS] /\ heard \in [Processes -> SS]
      /\ todo \in [Processes -> S] /\ result \in [Processes -> S]
  BY <1>2, <1>3, <1>4 DEF ProcessTypeOK
<1> HIDE DEF SS, S, h, rest, all, nothing
<1>7. /\ socket' \in [Processes -> SS] /\ heard' \in [Processes -> SS]
      /\ todo' \in [Processes -> S] /\ result' \in [Processes -> S]
  BY <1>5, <1>6
<1>8. busy' \in [Processes -> BOOLEAN] /\ UNCHANGED <<looked, told>>
  BY ReceiveEffect DEF ProcessTypeOK
<1> QED
  BY <1>7, <1>8 DEF ProcessTypeOK, SS, S

LEMMA NextValueEffect ==
  ASSUME ProcessTypeOK, NEW s \in Processes, NEW out \in Seq(Values), NextValue(s, out)
  PROVE  /\ busy[s] /\ todo[s] # <<>> /\ Head(todo[s]) \in Values
         /\ Head(todo[s]) = todo[s][1]
         /\ looked' = [looked EXCEPT ![s] =
              Append(looked[s], [delta |-> Len(heard[s]), value |-> Head(todo[s])])]
         /\ todo' = [todo EXCEPT ![s] = Tail(todo[s])]
         /\ result' = [result EXCEPT ![s] = result[s] \o out]
         /\ UNCHANGED <<socket, busy, heard, told>>
         /\ ProcessTypeOK'
<1>1. todo[s] \in Seq(Values) /\ todo[s] # <<>>
  BY DEF NextValue, Look, ProcessTypeOK
<1>2. Head(todo[s]) \in Values /\ Head(todo[s]) = todo[s][1] /\ Tail(todo[s]) \in Seq(Values)
  BY <1>1
<1>3. /\ busy[s]
      /\ looked' = [looked EXCEPT ![s] =
              Append(looked[s], [delta |-> Len(heard[s]), value |-> Head(todo[s])])]
      /\ todo' = [todo EXCEPT ![s] = Tail(todo[s])]
      /\ result' = [result EXCEPT ![s] = result[s] \o out]
      /\ UNCHANGED <<socket, busy, heard, told>>
  BY DEF NextValue, Look, ProcessTypeOK
<1>4. Append(looked[s], [delta |-> Len(heard[s]), value |-> Head(todo[s])])
        \in Seq([delta : Nat, value : Values])
  BY <1>2, LookType
<1>5. result[s] \o out \in Seq(Values)
  BY DEF ProcessTypeOK
<1>6. ProcessTypeOK'
  BY <1>2, <1>3, <1>4, <1>5 DEF ProcessTypeOK
<1> QED
  BY <1>1, <1>2, <1>3, <1>6

LEMMA FailEffect ==
  ASSUME ProcessTypeOK, NEW s \in Processes, Fail(s)
  PROVE  /\ busy[s] /\ todo[s] # <<>> /\ Head(todo[s]) \in Values
         /\ looked' = [looked EXCEPT ![s] =
              Append(looked[s], [delta |-> Len(heard[s]), value |-> Head(todo[s])])]
         /\ busy' = [busy EXCEPT ![s] = FALSE]
         /\ todo' = [todo EXCEPT ![s] = <<>>]
         /\ told' = [told EXCEPT ![s] = Append(told[s], <<>>)]
         /\ UNCHANGED <<socket, result, heard>>
         /\ ProcessTypeOK'
<1>1. todo[s] \in Seq(Values) /\ todo[s] # <<>>
  BY DEF Fail, Look, ProcessTypeOK
<1>2. Head(todo[s]) \in Values
  BY <1>1
<1>3. /\ busy[s]
      /\ looked' = [looked EXCEPT ![s] =
              Append(looked[s], [delta |-> Len(heard[s]), value |-> Head(todo[s])])]
      /\ busy' = [busy EXCEPT ![s] = FALSE]
      /\ todo' = [todo EXCEPT ![s] = <<>>]
      /\ told' = [told EXCEPT ![s] = Append(told[s], <<>>)]
      /\ UNCHANGED <<socket, result, heard>>
  BY DEF Fail, Look, ProcessTypeOK
<1>4. Append(looked[s], [delta |-> Len(heard[s]), value |-> Head(todo[s])])
        \in Seq([delta : Nat, value : Values])
  BY <1>2, LookType
<1>5. <<>> \in Seq(Values) /\ Append(told[s], <<>>) \in Seq(Seq(Values))
  BY DEF ProcessTypeOK
<1>6. ProcessTypeOK'
  BY <1>3, <1>4, <1>5 DEF ProcessTypeOK
<1> QED
  BY <1>1, <1>2, <1>3, <1>6

(* What Publish sends is out or nothing. *)
LEMMA PublishEffect ==
  ASSUME ProcessTypeOK, NEW s \in Processes, NEW out \in Seq(Values), Publish(s, out)
  PROVE  /\ busy[s] /\ todo[s] = <<>>
         /\ busy' = [busy EXCEPT ![s] = FALSE]
         /\ told' = [told EXCEPT ![s] =
              Append(told[s], IF Encodable(out) THEN out ELSE <<>>)]
         /\ \A t \in Processes :
              \/ socket'[t] = socket[t]
              \/ t = s + 1 /\ Encodable(out) /\ socket'[t] = Append(socket[t], out)
         /\ UNCHANGED <<todo, result, heard, looked>>
         /\ ProcessTypeOK'
<1> DEFINE sent == IF Encodable(out) THEN out ELSE <<>>
           to == IF sent = <<>> THEN {} ELSE {s + 1} \cap Processes
<1>1. /\ busy[s] /\ todo[s] = <<>>
      /\ busy' = [busy EXCEPT ![s] = FALSE]
      /\ told' = [told EXCEPT ![s] = Append(told[s], sent)]
      /\ socket' = [t \in Processes |->
           IF t \in to THEN Append(socket[t], sent) ELSE socket[t]]
      /\ UNCHANGED <<todo, result, heard, looked>>
  BY DEF Publish, ProcessTypeOK
<1>2. sent \in Seq(Values)
  OBVIOUS
<1>3. \A t \in to : t = s + 1 /\ Encodable(out) /\ sent = out
  OBVIOUS
<1> HIDE DEF sent, to
<1>4. \A t \in Processes : Append(socket[t], sent) \in Seq(Seq(Values))
  BY <1>2 DEF ProcessTypeOK
<1>5. socket' \in [Processes -> Seq(Seq(Values))]
  BY <1>1, <1>4 DEF ProcessTypeOK
<1>6. Append(told[s], sent) \in Seq(Seq(Values))
  BY <1>2 DEF ProcessTypeOK
<1>7. ProcessTypeOK'
  BY <1>1, <1>5, <1>6 DEF ProcessTypeOK
<1> QED
  BY <1>1, <1>3, <1>7 DEF sent

LEMMA MappingsAre ==
  /\ \A i \in DOMAIN AggregateMappings :
       /\ AggregateMappings[i] \in Range(AggregateMappings)
       /\ IsMapping(AggregateMappings[i])
  /\ \A m \in Range(AggregateMappings) \cup Range(FilterMappings) : IsMapping(m)
  /\ DOMAIN AggregateMappings \subseteq Int
<1>1. \A m \in Range(AggregateMappings) \cup Range(FilterMappings) : IsMapping(m)
  BY MappingAssumption
<1>2. \A S : AggregateMappings \in Seq(S) => DOMAIN AggregateMappings \subseteq Int
  OBVIOUS
<1>3. DOMAIN AggregateMappings \subseteq Int
  BY <1>2, MappingAssumption
<1> QED
  BY <1>1, <1>3 DEF Range

LEMMA OutcomeType ==
  ASSUME NEW m, IsMapping(m), NEW e, \A p \in DOMAIN e : e[p] \in Values
  PROVE  runExpr(m, e) \in Outcomes
<1>1. CASE \/ DOMAIN m.static \cap DOMAIN e # {}
           \/ ~(m.sources \subseteq DOMAIN m.static \cup DOMAIN e)
  BY <1>1 DEF runExpr, Outcomes
<1>2. CASE ~(\/ DOMAIN m.static \cap DOMAIN e # {}
             \/ ~(m.sources \subseteq DOMAIN m.static \cup DOMAIN e))
  <2> DEFINE c == [p \in m.sources |->
                     IF p \in DOMAIN e THEN e[p].content ELSE m.static[p]]
  <2>1. PICK d \in SUBSET Paths : m.static \in [d -> Contents]
    BY DEF IsMapping
  <2>2. \A p \in m.sources : c[p] \in Contents \cup Computed
    BY <1>2, <2>1, ValueParts
  <2>3. c \in [m.sources -> Contents \cup Computed]
    BY <2>2
  <2>4. runExpr(m, e) = m.eval[c]
    BY <1>2 DEF runExpr
  <2> HIDE DEF c
  <2> QED
    BY <2>3, <2>4 DEF IsMapping
<1> QED
  BY <1>1, <1>2

(* A value learnt takes the place of the one before it. *)
LEMMA Learnt ==
  ASSUME NEW s, NEW v
  PROVE  /\ DOMAIN Learn(s, v) = DOMAIN env[s] \cup {v.path}
         /\ \A p \in DOMAIN Learn(s, v) :
              Learn(s, v)[p] = IF p = v.path THEN v ELSE env[s][p]
BY DEF Learn

LEMMA AggregatesType ==
  ASSUME TypeInv, result[Aggregator] # <<>>
  PROVE  Aggregates \in Seq(Values)
<1>1. result[Aggregator][1] \in Values
  <2>1. result[Aggregator] \in Seq(Values)
    BY DEF TypeInv, ProcessTypeOK, Processes, Aggregator
  <2> QED
    BY <2>1
<1>2. \A i \in 1 .. Len(added) : added[i] \in Outputs
  BY DEF TypeInv, ExpressionTypeOK
<1>3. \A i \in 1 .. Len(added) :
        [context |-> result[Aggregator][1].context, path |-> added[i].path,
         time |-> newest, content |-> added[i].content, from |-> added[i].from] \in Values
  BY <1>1, <1>2 DEF TypeInv, ExpressionTypeOK, Outputs, Values
<1>4. Len(added) \in Nat
  BY DEF TypeInv, ExpressionTypeOK
<1> QED
  BY <1>3, <1>4 DEF Aggregates

LEMMA AggregatedType ==
  ASSUME TypeInv
  PROVE  result[Aggregator] \o Aggregates \in Seq(Values)
<1>0. result[Aggregator] \in Seq(Values)
  BY DEF TypeInv, ProcessTypeOK, Processes, Aggregator
<1>1. CASE result[Aggregator] # <<>>
  BY <1>0, <1>1, AggregatesType
<1>2. CASE result[Aggregator] = <<>>
  <2>1. added = <<>>
    BY <1>2 DEF TypeInv, ExpressionTypeOK
  <2>2. Aggregates = <<>>
    BY <2>1 DEF Aggregates
  <2> QED
    BY <1>0, <2>2
<1> QED
  BY <1>1, <1>2

-----------------------------------------------------------------------------
(* The actions, as steps of the three processes. *)

Local(s) == <<busy[s], todo[s], result[s], heard[s], looked[s], told[s]>>

LEMMA Domains ==
  ASSUME ProcessTypeOK
  PROVE  /\ DOMAIN busy = Processes /\ DOMAIN todo = Processes
         /\ DOMAIN result = Processes /\ DOMAIN heard = Processes
         /\ DOMAIN looked = Processes /\ DOMAIN told = Processes
BY DEF ProcessTypeOK

LEMMA OthersStay ==
  ASSUME ProcessTypeOK, NEW s \in Processes, NEW t \in Processes \ {s},
         \/ Receive(s) \/ Fail(s)
         \/ \E out \in Seq(Values) : NextValue(s, out) \/ Publish(s, out)
  PROVE  UNCHANGED Local(t)
<1>1. CASE Receive(s)
  BY <1>1, Domains, ReceiveEffect DEF Local
<1>2. CASE Fail(s)
  <2> DEFINE x == Append(looked[s], [delta |-> Len(heard[s]), value |-> Head(todo[s])])
             y == Append(told[s], <<>>)
  <2>1. /\ busy' = [busy EXCEPT ![s] = FALSE] /\ looked' = [looked EXCEPT ![s] = x]
        /\ todo' = [todo EXCEPT ![s] = <<>>] /\ told' = [told EXCEPT ![s] = y]
        /\ UNCHANGED <<result, heard>>
    BY <1>2, FailEffect
  <2> HIDE DEF x, y
  <2> QED
    BY <2>1, Domains DEF Local
<1>3. ASSUME NEW out \in Seq(Values), NextValue(s, out) PROVE UNCHANGED Local(t)
  <2> DEFINE x == Append(looked[s], [delta |-> Len(heard[s]), value |-> Head(todo[s])])
             y == Tail(todo[s])
             z == result[s] \o out
  <2>1. /\ looked' = [looked EXCEPT ![s] = x] /\ todo' = [todo EXCEPT ![s] = y]
        /\ result' = [result EXCEPT ![s] = z] /\ UNCHANGED <<busy, heard, told>>
    BY <1>3, NextValueEffect
  <2> HIDE DEF x, y, z
  <2> QED
    BY <2>1, Domains DEF Local
<1>4. ASSUME NEW out \in Seq(Values), Publish(s, out) PROVE UNCHANGED Local(t)
  <2> DEFINE x == Append(told[s], IF Encodable(out) THEN out ELSE <<>>)
  <2>1. /\ busy' = [busy EXCEPT ![s] = FALSE] /\ told' = [told EXCEPT ![s] = x]
        /\ UNCHANGED <<todo, result, heard, looked>>
    BY <1>4, PublishEffect
  <2> HIDE DEF x
  <2> QED
    BY <2>1, Domains DEF Local
<1> QED
  BY <1>1, <1>2, <1>3, <1>4

-----------------------------------------------------------------------------
(* Every step keeps the types. *)

LEMMA ProcessNumbers ==
  /\ Aggregator \in Processes /\ Filter \in Processes /\ Limiter \in Processes
  /\ Aggregator # Filter /\ Aggregator # Limiter /\ Filter # Limiter
BY DEF Processes, Aggregator, Filter, Limiter

LEMMA TypeInit == Init => TypeInv
<1> SUFFICES ASSUME Init PROVE TypeInv
  OBVIOUS
<1>1. /\ <<>> \in Seq(Seq(Values)) /\ <<>> \in Seq(Values) /\ <<>> \in Seq(Seq(Samples))
      /\ <<>> \in Seq(Samples) /\ <<>> \in Seq([delta : Nat, value : Values])
      /\ <<>> \in Seq(Outputs)
  OBVIOUS
<1>2. ProcessTypeOK
  BY <1>1 DEF Init, ProcessInit, ProcessTypeOK
<1>3. SamplesFirst /\ ExpressionTypeOK
  BY <1>1, ProcessNumbers, MappedAssumption
  DEF Init, ProcessInit, ExpressionInit, SamplesFirst, ExpressionTypeOK
<1>4. RateLimitTypeOK
  BY <1>1, MappedAssumption DEF Init, RateLimitInit, RateLimitTypeOK, Never
<1> QED
  BY <1>2, <1>3, <1>4 DEF TypeInv

LEMMA MeasureType ==
  ASSUME TypeInv, NEW delta \in Deltas, Measure(delta)
  PROVE  TypeInv'
<1>1. delta \in Seq(Samples) /\ delta \in Seq(Values)
  BY DeltasAssumption, SamplesAreValues
<1>2. /\ Append(socket[Aggregator], delta) \in Seq(Seq(Samples))
      /\ Append(socket[Aggregator], delta) \in Seq(Seq(Values))
  BY <1>1, ProcessNumbers, AppendType DEF TypeInv, ProcessTypeOK, SamplesFirst
<1>3. socket' = [socket EXCEPT ![Aggregator] = Append(socket[Aggregator], delta)]
  BY DEF Measure
<1>4. UNCHANGED <<busy, todo, result, heard, looked, told, expressionVars, rateLimitVars>>
  BY DEF Measure
<1> DEFINE S == Seq(Seq(Values))
           q == Append(socket[Aggregator], delta)
<1>5. socket \in [Processes -> S] /\ q \in S
  BY <1>2 DEF TypeInv, ProcessTypeOK
<1>6. socket' \in [Processes -> S] /\ socket'[Aggregator] = q
  <2> HIDE DEF S, q
  <2> QED
    BY <1>3, <1>5, ProcessNumbers DEF q
<1>7. ProcessTypeOK'
  BY <1>4, <1>6 DEF TypeInv, ProcessTypeOK
<1>8. SamplesFirst'
  BY <1>2, <1>4, <1>6 DEF TypeInv, SamplesFirst, expressionVars
<1>9. ExpressionTypeOK' /\ RateLimitTypeOK'
  BY <1>4 DEF TypeInv, ExpressionTypeOK, RateLimitTypeOK, expressionVars, rateLimitVars
<1> QED
  BY <1>7, <1>8, <1>9 DEF TypeInv

LEMMA LoseType ==
  ASSUME TypeInv, NEW s \in Processes, Lose(s), UNCHANGED <<expressionVars, rateLimitVars>>
  PROVE  TypeInv'
<1>1. socket[s] \in Seq(Seq(Values)) /\ socket[s] # <<>>
  BY DEF TypeInv, ProcessTypeOK, Lose
<1>2. Tail(socket[s]) \in Seq(Seq(Values))
  BY <1>1, HeadTailType
<1>3. s = Aggregator => Tail(socket[s]) \in Seq(Seq(Samples))
  BY <1>1, HeadTailType DEF TypeInv, SamplesFirst
<1>4. /\ socket' = [socket EXCEPT ![s] = Tail(socket[s])]
      /\ UNCHANGED <<busy, todo, result, heard, looked, told>>
  BY DEF Lose
<1> DEFINE S == Seq(Seq(Values))
           q == Tail(socket[s])
<1>5. socket \in [Processes -> S] /\ q \in S
  BY <1>2 DEF TypeInv, ProcessTypeOK
<1>6. /\ socket' \in [Processes -> S]
      /\ socket'[Aggregator] = IF s = Aggregator THEN q ELSE socket[Aggregator]
  <2> HIDE DEF S, q
  <2> QED
    BY <1>4, <1>5, ProcessNumbers DEF q
<1>7. ProcessTypeOK'
  BY <1>4, <1>6 DEF TypeInv, ProcessTypeOK
<1>8. SamplesFirst'
  BY <1>3, <1>4, <1>6 DEF TypeInv, SamplesFirst, expressionVars
<1>9. ExpressionTypeOK' /\ RateLimitTypeOK'
  BY <1>4 DEF TypeInv, ExpressionTypeOK, RateLimitTypeOK, expressionVars, rateLimitVars
<1> QED
  BY <1>7, <1>8, <1>9 DEF TypeInv

(* The mapper receives only when nothing is added or pending. *)
Waiting == ~busy[Aggregator] => pending = {} /\ added = <<>> /\ newest = 0

LEMMA ReceiveTypes ==
  ASSUME TypeInv, Waiting, NEW s \in Processes, Receive(s),
         UNCHANGED <<expressionVars, rateLimitVars>>
  PROVE  TypeInv'
<1>0. ProcessTypeOK /\ UNCHANGED <<env, pending, added, newest, lastSeen, passed>>
  BY DEF TypeInv, expressionVars, rateLimitVars
<1>1. ProcessTypeOK'
  BY <1>0, ReceiveType
<1>2. SamplesFirst' /\ ExpressionTypeOK'
  <2>1. CASE s # Aggregator
    <3>1. UNCHANGED Local(Aggregator)
      BY <1>0, <2>1, ProcessNumbers, OthersStay
    <3>2. socket'[Aggregator] = socket[Aggregator]
      <4>1. socket' = [socket EXCEPT ![s] = Tail(socket[s])]
        BY <1>0, ReceiveEffect
      <4>2. DOMAIN socket = Processes
        BY <1>0 DEF ProcessTypeOK
      <4> QED
        BY <2>1, <4>1, <4>2, ProcessNumbers
    <3> QED
      BY <1>0, <3>1, <3>2 DEF TypeInv, SamplesFirst, ExpressionTypeOK, Local
  <2>2. CASE s = Aggregator
    <3>1. socket[s] \in Seq(Seq(Samples)) /\ socket[s] # <<>>
      BY <2>2 DEF TypeInv, SamplesFirst, Receive
    <3>2. Head(socket[s]) \in Seq(Samples) /\ Tail(socket[s]) \in Seq(Seq(Samples))
      BY <3>1, HeadTailType
    <3> DEFINE h == Head(socket[s])
               q == Tail(socket[s])
    <3>3. /\ ~busy[s] /\ socket' = [socket EXCEPT ![s] = q]
          /\ todo' = todo \/ todo' = [todo EXCEPT ![s] = h]
      BY <1>0, ReceiveEffect
    <3>4. DOMAIN socket = Processes /\ DOMAIN todo = Processes
      BY <1>0 DEF ProcessTypeOK
    <3>5. socket'[s] = q /\ (todo'[s] = todo[s] \/ todo'[s] = h)
      <4> HIDE DEF h, q
      <4> QED
        BY <3>3, <3>4
    <3>6. SamplesFirst'
      BY <1>0, <2>2, <3>2, <3>5 DEF TypeInv, SamplesFirst
    <3>7. pending = {} /\ added = <<>>
      BY <2>2, <3>3 DEF Waiting
    <3> QED
      BY <1>0, <3>6, <3>7 DEF TypeInv, ExpressionTypeOK
  <2> QED
    BY <2>1, <2>2
<1>3. RateLimitTypeOK'
  BY <1>0 DEF TypeInv, RateLimitTypeOK
<1> QED
  BY <1>1, <1>2, <1>3 DEF TypeInv

LEMMA AggregateValueType ==
  ASSUME TypeInv, AggregateValue, UNCHANGED rateLimitVars
  PROVE  TypeInv' /\ Waiting'
<1> DEFINE v == Head(todo[Aggregator])
           A == Aggregator
<1>0. ProcessTypeOK /\ A \in Processes
  BY ProcessNumbers DEF TypeInv
<1>1. /\ todo[A] \in Seq(Values) /\ todo[A] \in Seq(Samples) /\ todo[A] # <<>>
      /\ result[A] \in Seq(Values)
  BY <1>0 DEF TypeInv, ProcessTypeOK, SamplesFirst, AggregateValue, NextValue, Look
<1>2. v \in Samples /\ v \in Values /\ Tail(todo[A]) \in Seq(Samples)
  BY <1>1, HeadTailType
<1>3. <<v>> \in Seq(Values) /\ NextValue(A, <<v>>)
  BY <1>2 DEF AggregateValue
<1>4. ProcessTypeOK' /\ busy[A] /\ UNCHANGED <<socket, busy>>
      /\ todo' = [todo EXCEPT ![A] = Tail(todo[A])]
      /\ result' = [result EXCEPT ![A] = result[A] \o <<v>>]
  BY <1>0, <1>3, NextValueEffect
<1>5. result[A] \o <<v>> # <<>>
  BY <1>1, <1>2
<1> DEFINE y == Tail(todo[A])
           z == result[A] \o <<v>>
<1>6. todo'[A] = y /\ result'[A] = z
  <2>1. DOMAIN todo = Processes /\ DOMAIN result = Processes
    BY <1>0, Domains
  <2> HIDE DEF y, z
  <2> QED
    BY <1>0, <1>4, <2>1 DEF y, z
<1>7. v.time \in 0 .. MaxTime /\ MaxTime \in Nat
  BY <1>2, ValueParts, MappedAssumption
<1>8. newest' \in 0 .. MaxTime
  BY <1>7 DEF TypeInv, ExpressionTypeOK, AggregateValue, Larger
<1>9. pending' \subseteq DOMAIN AggregateMappings /\ UNCHANGED added
  BY DEF AggregateValue, Triggered
<1>10. env' = env \/ env' = [env EXCEPT ![A] = Learn(A, v)]
  BY DEF AggregateValue
<1>11. \A p \in DOMAIN Learn(A, v) : Learn(A, v)[p] \in Samples
  <2>1. \A p \in DOMAIN env[A] : env[A][p] \in Samples
    BY DEF TypeInv, SamplesFirst
  <2> DEFINE w == v
             l == Learn(A, w)
  <2>2. /\ w \in Samples /\ DOMAIN l = DOMAIN env[A] \cup {w.path}
        /\ \A p \in DOMAIN l : l[p] = IF p = w.path THEN w ELSE env[A][p]
    BY <1>2, Learnt
  <2> HIDE DEF w, l
  <2>3. \A p \in DOMAIN l : l[p] \in Samples
    BY <2>1, <2>2
  <2> QED
    BY <2>3 DEF w, l
<1>12. /\ env' = [s \in {Aggregator, Filter} |-> env'[s]]
       /\ env'[A] = env[A] \/ env'[A] = Learn(A, v)
       /\ env'[Filter] = env[Filter]
  <2> DEFINE l == Learn(A, v)
  <2> HIDE DEF l
  <2> QED
    BY <1>10, ProcessNumbers DEF TypeInv, ExpressionTypeOK, l
<1>13. SamplesFirst'
  BY <1>2, <1>4, <1>6, <1>11, <1>12 DEF TypeInv, SamplesFirst
<1>14. \A s \in {Aggregator, Filter} : \A p \in DOMAIN env'[s] : env'[s][p] \in Values
  BY <1>12, <1>13, SamplesAreValues DEF TypeInv, ExpressionTypeOK, SamplesFirst
<1>15. ExpressionTypeOK'
  BY <1>5, <1>6, <1>8, <1>9, <1>12, <1>14 DEF TypeInv, ExpressionTypeOK
<1> QED
  BY <1>4, <1>13, <1>15 DEF TypeInv, RateLimitTypeOK, rateLimitVars, Waiting

LEMMA ReadIsSamples ==
  ASSUME TypeInv, NEW m
  PROVE  ReadBy(m, env[Aggregator]) \in SUBSET Samples
BY DEF TypeInv, SamplesFirst, ReadBy

(* What a mapping appends. *)
LEMMA OutputType ==
  ASSUME TypeInv, NEW i \in DOMAIN AggregateMappings,
         runExpr(AggregateMappings[i], env[Aggregator]) # "error"
  PROVE  [path |-> AggregateMappings[i].path,
          content |-> runExpr(AggregateMappings[i], env[Aggregator]),
          from |-> ReadBy(AggregateMappings[i], env[Aggregator])] \in Outputs
<1> DEFINE m == AggregateMappings[i]
           e == env[Aggregator]
<1>1. IsMapping(m)
  BY MappingsAre
<1>2. \A p \in DOMAIN e : e[p] \in Values
  BY DEF TypeInv, ExpressionTypeOK
<1>3. runExpr(m, e) \in Outcomes
  <2> HIDE DEF m, e
  <2> QED
    BY <1>1, <1>2, OutcomeType
<1>4. m.path \in Paths
  BY <1>1 DEF IsMapping
<1> QED
  BY <1>3, <1>4, ReadIsSamples DEF Outputs, Outcomes

LEMMA RunMappingType ==
  ASSUME TypeInv, Waiting, NEW i \in DOMAIN AggregateMappings, RunMapping(i),
         UNCHANGED rateLimitVars
  PROVE  TypeInv' /\ Waiting'
<1> DEFINE m == AggregateMappings[i]
           o == [path |-> m.path, content |-> runExpr(m, env[Aggregator]),
                 from |-> ReadBy(m, env[Aggregator])]
<1>1. /\ i \in pending /\ pending' = pending \ {i}
      /\ UNCHANGED <<socket, busy, todo, result, heard, looked, told, env, newest>>
  BY DEF RunMapping, processVars
<1>2. busy[Aggregator] /\ result[Aggregator] # <<>>
  BY <1>1 DEF Waiting, TypeInv, ExpressionTypeOK
<1>3. \/ added' = added
      \/ runExpr(m, env[Aggregator]) # "error" /\ added' = Append(added, o)
  BY DEF RunMapping
<1>4. added' \in Seq(Outputs)
  <2>1. CASE added' = added
    BY <2>1 DEF TypeInv, ExpressionTypeOK
  <2>2. CASE runExpr(m, env[Aggregator]) # "error" /\ added' = Append(added, o)
    <3>1. o \in Outputs
      BY <2>2, OutputType
    <3> HIDE DEF o
    <3> QED
      BY <2>2, <3>1, AppendType DEF TypeInv, ExpressionTypeOK
  <2> QED
    BY <1>3, <2>1, <2>2
<1>5. ProcessTypeOK' /\ SamplesFirst'
  BY <1>1 DEF TypeInv, ProcessTypeOK, SamplesFirst
<1>6. ExpressionTypeOK'
  BY <1>1, <1>2, <1>4 DEF TypeInv, ExpressionTypeOK
<1> QED
  BY <1>1, <1>2, <1>5, <1>6 DEF TypeInv, RateLimitTypeOK, rateLimitVars, Waiting

LEMMA PublishAggregatedType ==
  ASSUME TypeInv, PublishAggregated, UNCHANGED rateLimitVars
  PROVE  TypeInv' /\ Waiting'
<1> DEFINE out == result[Aggregator] \o Aggregates
<1>1. out \in Seq(Values) /\ Publish(Aggregator, out) /\ ProcessTypeOK
  BY AggregatedType DEF PublishAggregated, TypeInv
<1>2. /\ ProcessTypeOK'
      /\ \A t \in Processes : \/ socket'[t] = socket[t] \/ t = Aggregator + 1
      /\ UNCHANGED <<todo, result, heard, looked>>
  <2> HIDE DEF out
  <2> QED
    BY <1>1, ProcessNumbers, PublishEffect
<1>3. pending = {} /\ added' = <<>> /\ newest' = 0 /\ UNCHANGED <<env, pending>>
  BY DEF PublishAggregated
<1>4. socket'[Aggregator] = socket[Aggregator]
  BY <1>2, ProcessNumbers DEF Aggregator
<1>5. SamplesFirst'
  BY <1>2, <1>3, <1>4 DEF TypeInv, SamplesFirst
<1>6. ExpressionTypeOK' /\ Waiting'
  BY <1>2, <1>3, MappedAssumption DEF TypeInv, ExpressionTypeOK, Waiting
<1> QED
  BY <1>2, <1>5, <1>6 DEF TypeInv, RateLimitTypeOK, rateLimitVars

(* The filters after it leave the mapper alone. *)
LEMMA LaterSteps ==
  ASSUME TypeInv, Waiting, NEW s \in {Filter, Limiter},
         \/ Fail(s)
         \/ \E out \in Seq(Values) : NextValue(s, out) \/ Publish(s, out),
         env'[Aggregator] = env[Aggregator], UNCHANGED <<pending, added, newest>>
  PROVE  /\ ProcessTypeOK' /\ SamplesFirst' /\ Waiting'
         /\ result'[Aggregator] = result[Aggregator]
<1>0. ProcessTypeOK /\ s \in Processes /\ s # Aggregator
  BY ProcessNumbers DEF TypeInv
<1>1. UNCHANGED Local(Aggregator)
  BY <1>0, ProcessNumbers, OthersStay
<1>2. ProcessTypeOK' /\ socket'[Aggregator] = socket[Aggregator]
  <2>1. CASE Fail(s)
    BY <1>0, <2>1, FailEffect
  <2>2. ASSUME NEW out \in Seq(Values), NextValue(s, out)
        PROVE  ProcessTypeOK' /\ socket'[Aggregator] = socket[Aggregator]
    BY <1>0, <2>2, NextValueEffect
  <2>3. ASSUME NEW out \in Seq(Values), Publish(s, out)
        PROVE  ProcessTypeOK' /\ socket'[Aggregator] = socket[Aggregator]
    <3>1. ProcessTypeOK' /\ \A t \in Processes : socket'[t] = socket[t] \/ t = s + 1
      BY <1>0, <2>3, PublishEffect
    <3> QED
      BY <3>1, ProcessNumbers DEF Aggregator, Filter, Limiter
  <2> QED
    BY <2>1, <2>2, <2>3
<1> QED
  BY <1>1, <1>2 DEF TypeInv, SamplesFirst, Waiting, Local

(* What a filter learns are values. *)
LEMMA FilterEnvType ==
  ASSUME TypeInv, NEW v \in Values
  PROVE  \A p \in DOMAIN FilterEnv(v) : FilterEnv(v)[p] \in Values
<1> DEFINE l == Learn(Filter, v)
<1>1. \A p \in DOMAIN env[Filter] : env[Filter][p] \in Values
  BY DEF TypeInv, ExpressionTypeOK
<1>2. /\ DOMAIN l = DOMAIN env[Filter] \cup {v.path}
      /\ \A p \in DOMAIN l : l[p] = IF p = v.path THEN v ELSE env[Filter][p]
  BY Learnt
<1> HIDE DEF l
<1>3. \A p \in DOMAIN l : l[p] \in Values
  BY <1>1, <1>2
<1> QED
  BY <1>1, <1>3 DEF FilterEnv, l

(* The value under its turn, and what FilterValue does with it. *)
LEMMA FilterValueEffect ==
  ASSUME TypeInv, FilterValue
  PROVE  LET v == Head(todo[Filter])
             e == FilterEnv(v)
             out == IF FilterSkips(v.path, e) THEN <<>> ELSE <<v>>
         IN  /\ v \in Values /\ out \in Seq(Values)
             /\ IF FilterFails(v.path, e) THEN Fail(Filter) ELSE NextValue(Filter, out)
             /\ env'[Filter] = e /\ env'[Aggregator] = env[Aggregator]
             /\ env' = [s \in {Aggregator, Filter} |-> env'[s]]
             /\ UNCHANGED <<pending, added, newest>>
<1> DEFINE v == Head(todo[Filter])
           e == FilterEnv(v)
           out == IF FilterSkips(v.path, e) THEN <<>> ELSE <<v>>
<1>1. todo[Filter] \in Seq(Values) /\ todo[Filter] # <<>>
  BY ProcessNumbers DEF TypeInv, ProcessTypeOK, FilterValue
<1>2. v \in Values
  BY <1>1, HeadTailType
<1>3. out \in Seq(Values)
  BY <1>2
<1>4. /\ IF FilterFails(v.path, e) THEN Fail(Filter) ELSE NextValue(Filter, out)
      /\ env' = [env EXCEPT ![Filter] = e]
      /\ UNCHANGED <<pending, added, newest>>
  BY DEF FilterValue
<1>5. /\ env'[Filter] = e /\ env'[Aggregator] = env[Aggregator]
      /\ env' = [s \in {Aggregator, Filter} |-> env'[s]]
  <2> HIDE DEF e
  <2> QED
    BY <1>4, ProcessNumbers DEF TypeInv, ExpressionTypeOK
<1> QED
  BY <1>2, <1>3, <1>4, <1>5

LEMMA FilterValueType ==
  ASSUME TypeInv, Waiting, FilterValue, UNCHANGED rateLimitVars
  PROVE  TypeInv' /\ Waiting'
<1> DEFINE v == Head(todo[Filter])
           e == FilterEnv(v)
           out == IF FilterSkips(v.path, e) THEN <<>> ELSE <<v>>
<1>1. /\ v \in Values /\ out \in Seq(Values)
      /\ Fail(Filter) \/ NextValue(Filter, out)
      /\ env'[Filter] = e /\ env'[Aggregator] = env[Aggregator]
      /\ env' = [s \in {Aggregator, Filter} |-> env'[s]]
      /\ UNCHANGED <<pending, added, newest>>
  BY FilterValueEffect
<1>2. \A p \in DOMAIN e : e[p] \in Values
  BY <1>1, FilterEnvType
<1> HIDE DEF out, e, v
<1>3. /\ ProcessTypeOK' /\ SamplesFirst' /\ Waiting'
      /\ result'[Aggregator] = result[Aggregator]
  BY <1>1, LaterSteps
<1>4. ExpressionTypeOK'
  BY <1>1, <1>2, <1>3 DEF TypeInv, ExpressionTypeOK
<1> QED
  BY <1>3, <1>4 DEF TypeInv, RateLimitTypeOK, rateLimitVars

LEMMA PublishFilteredType ==
  ASSUME TypeInv, Waiting, PublishFiltered, UNCHANGED rateLimitVars
  PROVE  TypeInv' /\ Waiting'
<1>1. result[Filter] \in Seq(Values) /\ UNCHANGED <<env, pending, added, newest>>
  BY ProcessNumbers DEF TypeInv, ProcessTypeOK, PublishFiltered, expressionVars
<1>2. /\ ProcessTypeOK' /\ SamplesFirst' /\ Waiting'
      /\ result'[Aggregator] = result[Aggregator]
  BY <1>1, LaterSteps DEF PublishFiltered
<1> QED
  BY <1>1, <1>2 DEF TypeInv, ExpressionTypeOK, RateLimitTypeOK, rateLimitVars

LEMMA RateLimitType ==
  ASSUME TypeInv, Waiting, RateLimitNext, UNCHANGED expressionVars
  PROVE  TypeInv' /\ Waiting'
<1> DEFINE v == Head(todo[Limiter])
<1>0. UNCHANGED <<env, pending, added, newest>> /\ <<>> \in Seq(Values)
  BY DEF expressionVars
<1>1. CASE PassValue
  <2>1. todo[Limiter] \in Seq(Values) /\ todo[Limiter] # <<>>
    BY <1>1, ProcessNumbers DEF TypeInv, ProcessTypeOK, PassValue, NextValue, Look
  <2>2. v \in Values /\ <<v>> \in Seq(Values)
    BY <2>1, HeadTailType
  <2>3. /\ NextValue(Limiter, <<v>>) /\ passed' = Append(passed, v)
        /\ lastSeen' = [lastSeen EXCEPT ![v.context][v.path] = v.time]
    BY <1>1 DEF PassValue
  <2> HIDE DEF v
  <2>4. RateLimitTypeOK'
    BY <2>2, <2>3, ValueParts, MappedAssumption DEF TypeInv, RateLimitTypeOK, Never
  <2>5. /\ ProcessTypeOK' /\ SamplesFirst' /\ Waiting'
        /\ result'[Aggregator] = result[Aggregator]
    BY <1>0, <2>2, <2>3, LaterSteps
  <2> QED
    BY <1>0, <2>4, <2>5 DEF TypeInv, ExpressionTypeOK
<1>2. CASE DropValue
  <2>1. /\ ProcessTypeOK' /\ SamplesFirst' /\ Waiting'
        /\ result'[Aggregator] = result[Aggregator]
    BY <1>0, <1>2, LaterSteps DEF DropValue
  <2> QED
    BY <1>0, <1>2, <2>1 DEF TypeInv, ExpressionTypeOK, RateLimitTypeOK, DropValue, rateLimitVars
<1>3. CASE PublishLimited
  <2>1. result[Limiter] \in Seq(Values)
    BY ProcessNumbers DEF TypeInv, ProcessTypeOK
  <2>2. /\ ProcessTypeOK' /\ SamplesFirst' /\ Waiting'
        /\ result'[Aggregator] = result[Aggregator]
    BY <1>0, <1>3, <2>1, LaterSteps DEF PublishLimited
  <2> QED
    BY <1>0, <1>3, <2>2
    DEF TypeInv, ExpressionTypeOK, RateLimitTypeOK, PublishLimited, rateLimitVars
<1> QED
  BY <1>1, <1>2, <1>3 DEF RateLimitNext

LEMMA TransportWaits ==
  ASSUME TypeInv, Waiting, Transport
  PROVE  TypeInv' /\ Waiting'
<1>0. UNCHANGED <<expressionVars, rateLimitVars>> /\ ProcessTypeOK
  BY DEF Transport, TypeInv
<1>1. ASSUME NEW s \in Processes, Lose(s) PROVE TypeInv' /\ Waiting'
  <2>1. TypeInv' /\ UNCHANGED <<busy, pending, added, newest>>
    BY <1>0, <1>1, LoseType DEF Lose, expressionVars
  <2> QED
    BY <2>1 DEF Waiting
<1>2. ASSUME NEW s \in Processes, Receive(s) PROVE TypeInv' /\ Waiting'
  <2>1. TypeInv' /\ UNCHANGED <<pending, added, newest>>
    BY <1>0, <1>2, ReceiveTypes DEF expressionVars
  <2>2. CASE s = Aggregator
    <3>1. ~busy[Aggregator]
      BY <1>0, <1>2, <2>2, ReceiveEffect
    <3> QED
      BY <2>1, <3>1 DEF Waiting
  <2>3. CASE s # Aggregator
    <3>1. UNCHANGED Local(Aggregator)
      BY <1>0, <1>2, <2>3, ProcessNumbers, OthersStay
    <3> QED
      BY <2>1, <3>1 DEF Waiting, Local
  <2> QED
    BY <2>2, <2>3
<1> QED
  BY <1>1, <1>2 DEF Transport

LEMMA TypeStep ==
  ASSUME TypeInv, Waiting, [Next]_vars
  PROVE  TypeInv' /\ Waiting'
<1>1. ASSUME NEW delta \in Deltas, Measure(delta) PROVE TypeInv' /\ Waiting'
  BY <1>1, MeasureType DEF Measure, Waiting, expressionVars
<1>2. CASE Transport
  BY <1>2, TransportWaits
<1>3. CASE ExpressionNext /\ UNCHANGED <<rateLimitVars, measured>>
  BY <1>3, AggregateValueType, RunMappingType, PublishAggregatedType, FilterValueType,
     PublishFilteredType DEF ExpressionNext
<1>4. CASE RateLimitNext /\ UNCHANGED <<expressionVars, measured>>
  BY <1>4, RateLimitType
<1>5. CASE UNCHANGED vars
  BY <1>5 DEF vars, processVars, expressionVars, rateLimitVars, TypeInv, ProcessTypeOK,
     SamplesFirst, ExpressionTypeOK, RateLimitTypeOK, Waiting
<1> QED
  BY <1>1, <1>2, <1>3, <1>4, <1>5 DEF Next

(* A step of the pipeline is one of the mapper, of the filter or of the    *)
(* rate limit filter, or leaves what they are doing alone.                 *)
LEMMA StepsOf ==
  ASSUME TypeInv, [Next]_vars
  PROVE  /\ \/ UNCHANGED <<Local(Aggregator), env[Aggregator], pending, added, newest>>
            \/ Receive(Aggregator) /\ UNCHANGED expressionVars
            \/ AggregateValue \/ PublishAggregated
            \/ \E i \in DOMAIN AggregateMappings : RunMapping(i)
         /\ \/ UNCHANGED <<Local(Filter), env[Filter]>>
            \/ Receive(Filter) /\ UNCHANGED expressionVars
            \/ FilterValue \/ PublishFiltered
         /\ \/ UNCHANGED <<Local(Limiter), lastSeen, passed>>
            \/ Receive(Limiter) /\ UNCHANGED rateLimitVars
            \/ RateLimitNext
<1> DEFINE A == Aggregator
           F == Filter
           L == Limiter
<1>0. /\ ProcessTypeOK /\ A \in Processes /\ F \in Processes /\ L \in Processes
      /\ A # F /\ A # L /\ F # L /\ env = [s \in {A, F} |-> env[s]]
  BY ProcessNumbers DEF TypeInv, ExpressionTypeOK
<1> HIDE DEF A, F, L
<1>1. CASE \/ \E delta \in Deltas : Measure(delta)
           \/ UNCHANGED vars
           \/ \E s \in Processes : Lose(s) /\ UNCHANGED <<expressionVars, rateLimitVars>>
  BY <1>1 DEF Measure, Lose, vars, processVars, expressionVars, rateLimitVars, Local
<1>2. ASSUME NEW s \in Processes, Receive(s), UNCHANGED <<expressionVars, rateLimitVars>>
      PROVE  /\ UNCHANGED <<env, pending, added, newest, lastSeen, passed>>
             /\ \A t \in Processes \ {s} : UNCHANGED Local(t)
  BY <1>0, <1>2, OthersStay DEF expressionVars, rateLimitVars
<1>3. CASE Transport
  <2>1. ASSUME NEW s \in Processes, Receive(s), UNCHANGED <<expressionVars, rateLimitVars>>
        PROVE  /\ \/ UNCHANGED <<Local(A), env[A], pending, added, newest>>
                  \/ Receive(A) /\ UNCHANGED expressionVars
               /\ \/ UNCHANGED <<Local(F), env[F]>>
                  \/ Receive(F) /\ UNCHANGED expressionVars
               /\ \/ UNCHANGED <<Local(L), lastSeen, passed>>
                  \/ Receive(L) /\ UNCHANGED rateLimitVars
    BY <1>0, <1>2, <2>1
  <2> QED
    BY <1>1, <1>3, <2>1 DEF Transport, A, F, L
<1>4. CASE (AggregateValue \/ PublishAggregated) /\ UNCHANGED rateLimitVars
  <2>1. \E out \in Seq(Values) : NextValue(A, out) \/ Publish(A, out)
    <3>1. CASE AggregateValue
      <4>1. todo[A] \in Seq(Values) /\ todo[A] # <<>>
        BY <1>0, <3>1 DEF ProcessTypeOK, AggregateValue, NextValue, Look, A
      <4>2. <<Head(todo[A])>> \in Seq(Values) /\ NextValue(A, <<Head(todo[A])>>)
        BY <3>1, <4>1, HeadTailType DEF AggregateValue, A
      <4> QED
        BY <4>2
    <3>2. CASE PublishAggregated
      BY <3>2, AggregatedType DEF PublishAggregated, A
    <3> QED
      BY <1>4, <3>1, <3>2
  <2>2. UNCHANGED <<Local(F), Local(L), lastSeen, passed>>
    BY <1>0, <1>4, <2>1, OthersStay DEF rateLimitVars
  <2>3. env'[F] = env[F]
    <3>1. env' = env \/ env' = [env EXCEPT ![A] = Learn(A, Head(todo[A]))]
      BY <1>4 DEF AggregateValue, PublishAggregated, A
    <3> DEFINE l == Learn(A, Head(todo[A]))
    <3> HIDE DEF l
    <3> QED
      BY <1>0, <3>1 DEF l
  <2> QED
    BY <1>4, <2>2, <2>3 DEF F, L
<1>5. ASSUME NEW i \in DOMAIN AggregateMappings, RunMapping(i), UNCHANGED rateLimitVars
      PROVE  UNCHANGED <<Local(F), Local(L), env[F], lastSeen, passed>>
  BY <1>5 DEF RunMapping, processVars, rateLimitVars, Local
<1>6. CASE (FilterValue \/ PublishFiltered) /\ UNCHANGED rateLimitVars
  <2>1. \/ Fail(F)
        \/ \E out \in Seq(Values) : NextValue(F, out) \/ Publish(F, out)
    <3>1. CASE FilterValue
      BY <3>1, FilterValueEffect DEF F
    <3>2. CASE PublishFiltered
      BY <1>0, <3>2 DEF PublishFiltered, ProcessTypeOK, F
    <3> QED
      BY <1>6, <3>1, <3>2
  <2>2. UNCHANGED <<Local(A), Local(L), lastSeen, passed>>
    BY <1>0, <1>6, <2>1, OthersStay DEF rateLimitVars
  <2>3. UNCHANGED <<env[A], pending, added, newest>>
    BY <1>6, FilterValueEffect DEF PublishFiltered, expressionVars, A
  <2> QED
    BY <1>6, <2>2, <2>3 DEF A, L
<1>7. CASE RateLimitNext /\ UNCHANGED expressionVars
  <2>1. \E out \in Seq(Values) : NextValue(L, out) \/ Publish(L, out)
    <3>1. CASE PassValue
      <4>1. todo[L] \in Seq(Values) /\ todo[L] # <<>>
        BY <1>0, <3>1 DEF ProcessTypeOK, PassValue, NextValue, Look, L
      <4>2. <<Head(todo[L])>> \in Seq(Values) /\ NextValue(L, <<Head(todo[L])>>)
        BY <3>1, <4>1, HeadTailType DEF PassValue, L
      <4> QED
        BY <4>2
    <3>2. CASE DropValue
      <4>1. <<>> \in Seq(Values)
        OBVIOUS
      <4> QED
        BY <3>2, <4>1 DEF DropValue, L
    <3>3. CASE PublishLimited
      BY <1>0, <3>3 DEF PublishLimited, ProcessTypeOK, L
    <3> QED
      BY <1>7, <3>1, <3>2, <3>3 DEF RateLimitNext
  <2>2. UNCHANGED <<Local(A), Local(F)>>
    BY <1>0, <2>1, OthersStay
  <2> QED
    BY <1>7, <2>2 DEF expressionVars, A, F
<1>8. CASE ExpressionNext /\ UNCHANGED <<rateLimitVars, measured>>
  <2>1. UNCHANGED rateLimitVars
    BY <1>8
  <2>2. CASE AggregateValue \/ PublishAggregated \/ FilterValue \/ PublishFiltered
    BY <1>4, <1>6, <2>1, <2>2
  <2>3. CASE \E i \in DOMAIN AggregateMappings : RunMapping(i)
    BY <1>5, <2>1, <2>3 DEF F, L
  <2> QED
    BY <1>8, <2>2, <2>3 DEF ExpressionNext
<1> QED
  BY <1>1, <1>3, <1>7, <1>8 DEF Next

-----------------------------------------------------------------------------
(* The rate limit filter. *)

(* lastSeen is the time of the last value passed on of its series, which   *)
(* is the newest one; what is passed on was looked at.                     *)
LastSeenInv ==
  /\ \A i \in 1 .. Len(passed) :
       /\ lastSeen[passed[i].context][passed[i].path] # Never
       /\ passed[i].time <= lastSeen[passed[i].context][passed[i].path]
  /\ \A c \in Contexts, p \in Paths :
       lastSeen[c][p] # Never
         => \E i \in 1 .. Len(passed) :
              passed[i].context = c /\ passed[i].path = p /\ passed[i].time = lastSeen[c][p]
  /\ \A i \in 1 .. Len(passed) :
       \E j \in 1 .. Len(looked[Limiter]) : looked[Limiter][j].value = passed[i]

LimiterInv == LastSeenInv /\ Spaced /\ Represented

LEMMA IntervalType == \A p : Interval(p) \in Nat
BY RateLimitAssumption DEF Interval

(* The turn of the next value of the rate limit filter. *)
LEMMA LimiterLooks ==
  ASSUME TypeInv, NEW out \in Seq(Values), NextValue(Limiter, out)
  PROVE  LET v == Head(todo[Limiter])
             n == Len(looked[Limiter])
             l == looked'[Limiter]
         IN  /\ v \in Values /\ n \in Nat /\ Len(l) = n + 1
             /\ \A i \in 1 .. n : l[i] = looked[Limiter][i]
             /\ l[n + 1].value = v
<1> DEFINE v == Head(todo[Limiter])
           q == looked[Limiter]
           x == [delta |-> Len(heard[Limiter]), value |-> v]
           X == [delta : Nat, value : Values]
<1>1. ProcessTypeOK /\ Limiter \in Processes
  BY ProcessNumbers DEF TypeInv
<1>2. v \in Values /\ looked' = [looked EXCEPT ![Limiter] = Append(q, x)]
  BY <1>1, NextValueEffect
<1>3. Len(heard[Limiter]) \in Nat
  <2>1. heard[Limiter] \in Seq(Seq(Values))
    BY <1>1 DEF ProcessTypeOK
  <2> QED
    BY <2>1
<1>4. q \in Seq(X) /\ x \in X
  BY <1>1, <1>2, <1>3 DEF ProcessTypeOK
<1> DEFINE l == Append(q, x)
<1>5. looked'[Limiter] = l
  <2> HIDE DEF l
  <2> QED
    BY <1>1, <1>2, Domains DEF l
<1>6. x.value = v
  OBVIOUS
<1> HIDE DEF x, X, q
<1>7. /\ Len(q) \in Nat /\ Len(l) = Len(q) + 1
      /\ (\A i \in 1 .. Len(q) : l[i] = q[i]) /\ l[Len(q) + 1] = x
  BY <1>4
<1> QED
  BY <1>2, <1>5, <1>6, <1>7 DEF q

(* Values passed on are of some series, and their times numbers. *)
LEMMA PassedParts ==
  ASSUME TypeInv
  PROVE  /\ Len(passed) \in Nat
         /\ \A i \in 1 .. Len(passed) :
              /\ passed[i] \in Values /\ passed[i].time \in Nat
              /\ passed[i].context \in Contexts /\ passed[i].path \in Paths
         /\ \A c \in Contexts, p \in Paths : lastSeen[c][p] \in Nat
<1>1. passed \in Seq(Values) /\ lastSeen \in [Contexts -> [Paths -> 0 .. Never]]
  BY DEF TypeInv, RateLimitTypeOK
<1>2. Never \in Nat
  BY MappedAssumption DEF Never
<1>3. Len(passed) \in Nat /\ \A i \in 1 .. Len(passed) : passed[i] \in Values
  BY <1>1
<1> QED
  BY <1>1, <1>2, <1>3, ValueParts

LEMMA PassKeeps ==
  ASSUME TypeInv, LimiterInv, PassValue
  PROVE  LimiterInv'
<1> DEFINE v == Head(todo[Limiter])
           n == Len(looked[Limiter])
           k == Len(passed)
           l == looked'[Limiter]
<1>1. todo[Limiter] \in Seq(Values) /\ todo[Limiter] # <<>>
  BY ProcessNumbers DEF TypeInv, ProcessTypeOK, PassValue, NextValue, Look
<1>2. <<v>> \in Seq(Values)
  BY <1>1, HeadTailType
<1>3. /\ NextValue(Limiter, <<v>>) /\ Passes(v) /\ passed' = Append(passed, v)
      /\ lastSeen' = [lastSeen EXCEPT ![v.context][v.path] = v.time]
  BY DEF PassValue
<1>4. /\ v \in Values /\ n \in Nat /\ Len(l) = n + 1
      /\ (\A i \in 1 .. n : l[i] = looked[Limiter][i]) /\ l[n + 1].value = v
  BY <1>2, <1>3, LimiterLooks
<1>5. /\ v.context \in Contexts /\ v.path \in Paths /\ v.time \in Nat
      /\ v.time \in 0 .. MaxTime
  BY <1>4, ValueParts
<1>6. /\ k \in Nat /\ Len(passed') = k + 1 /\ passed'[k + 1] = v
      /\ \A i \in 1 .. k : passed'[i] = passed[i]
  <2>1. passed \in Seq(Values)
    BY DEF TypeInv, RateLimitTypeOK
  <2> HIDE DEF v
  <2> QED
    BY <1>3, <1>4, <2>1
<1>7. \A c \in Contexts, p \in Paths :
        lastSeen'[c][p] = IF c = v.context /\ p = v.path THEN v.time ELSE lastSeen[c][p]
  <2> HIDE DEF v
  <2> QED
    BY <1>3, <1>5 DEF TypeInv, RateLimitTypeOK
<1>8. v.time # Never
  BY <1>5, MappedAssumption DEF Never
<1> HIDE DEF v, n, k, l
<1>9. \A i \in 1 .. k + 1 : i \in 1 .. k \/ i = k + 1
  BY <1>6
<1>10. ASSUME NEW i \in 1 .. k, SameSeries(passed[i], v)
       PROVE  passed[i].time + Interval(v.path) < v.time
  <2>1. /\ lastSeen[v.context][v.path] # Never
        /\ passed[i].time <= lastSeen[v.context][v.path]
    BY <1>10 DEF LimiterInv, LastSeenInv, SameSeries, k
  <2>2. lastSeen[v.context][v.path] + Interval(v.path) < v.time
    BY <1>3, <2>1 DEF Passes
  <2> QED
    BY <1>5, <2>1, <2>2, IntervalType, PassedParts DEF k
<1>11. Spaced'
  <2> SUFFICES ASSUME NEW i \in 1 .. k + 1, NEW j \in 1 .. k + 1, i < j,
                      SameSeries(passed'[i], passed'[j])
               PROVE  passed'[i].time + Interval(passed'[i].path) < passed'[j].time
    BY <1>6 DEF Spaced, SameSeries
  <2>1. i \in 1 .. k
    BY <1>6
  <2>2. CASE j = k + 1
    BY <1>6, <1>10, <2>1, <2>2 DEF SameSeries
  <2>3. CASE j \in 1 .. k
    BY <1>6, <2>1, <2>3 DEF LimiterInv, Spaced, SameSeries, k
  <2> QED
    BY <1>9, <2>2, <2>3
<1>12. ASSUME NEW i \in 1 .. k + 1
       PROVE  /\ lastSeen'[passed'[i].context][passed'[i].path] # Never
              /\ passed'[i].time <= lastSeen'[passed'[i].context][passed'[i].path]
  <2>1. CASE i = k + 1
    BY <1>5, <1>6, <1>7, <1>8, <2>1
  <2>2. CASE i \in 1 .. k
    <3>1. /\ passed[i].context \in Contexts /\ passed[i].path \in Paths
          /\ passed[i].time \in Nat
      BY <2>2, PassedParts DEF k
    <3>2. CASE SameSeries(passed[i], v)
      <4>1. passed[i].time < v.time
        BY <1>5, <1>10, <2>2, <3>1, <3>2, IntervalType
      <4> QED
        BY <1>5, <1>6, <1>7, <1>8, <2>2, <3>1, <3>2, <4>1 DEF SameSeries
    <3>3. CASE ~SameSeries(passed[i], v)
      <4>1. lastSeen'[passed[i].context][passed[i].path] =
              lastSeen[passed[i].context][passed[i].path]
        BY <1>7, <3>1, <3>3 DEF SameSeries
      <4>2. /\ lastSeen[passed[i].context][passed[i].path] # Never
            /\ passed[i].time <= lastSeen[passed[i].context][passed[i].path]
        BY <2>2 DEF LimiterInv, LastSeenInv, k
      <4> QED
        BY <1>6, <2>2, <4>1, <4>2
    <3> QED
      BY <3>2, <3>3
  <2> QED
    BY <1>9, <2>1, <2>2
<1>13. ASSUME NEW c \in Contexts, NEW p \in Paths, lastSeen'[c][p] # Never
       PROVE  \E i \in 1 .. k + 1 : /\ passed'[i].context = c /\ passed'[i].path = p
                                    /\ passed'[i].time = lastSeen'[c][p]
  <2>1. CASE c = v.context /\ p = v.path
    BY <1>6, <1>7, <2>1
  <2>2. CASE ~(c = v.context /\ p = v.path)
    <3>1. PICK i \in 1 .. k : /\ passed[i].context = c /\ passed[i].path = p
                              /\ passed[i].time = lastSeen[c][p]
      BY <1>7, <1>13, <2>2 DEF LimiterInv, LastSeenInv, k
    <3>2. i \in 1 .. k + 1
      BY <1>6
    <3> QED
      BY <1>6, <1>7, <2>2, <3>1, <3>2
  <2> QED
    BY <2>1, <2>2
<1>14. ASSUME NEW i \in 1 .. k + 1
       PROVE  \E j \in 1 .. n + 1 : l[j].value = passed'[i]
  <2>1. CASE i = k + 1
    BY <1>4, <1>6, <2>1
  <2>2. CASE i \in 1 .. k
    <3>1. PICK j \in 1 .. n : looked[Limiter][j].value = passed[i]
      BY <2>2 DEF LimiterInv, LastSeenInv, k, n
    <3>2. j \in 1 .. n + 1
      BY <1>4
    <3> QED
      BY <1>4, <1>6, <2>2, <3>1, <3>2
  <2> QED
    BY <1>9, <2>1, <2>2
<1>15. LastSeenInv'
  BY <1>4, <1>6, <1>12, <1>13, <1>14 DEF LastSeenInv, l
<1>16. Range(passed) \subseteq Range(passed') /\ v \in Range(passed')
  <2>1. DOMAIN passed = 1 .. k /\ DOMAIN passed' = 1 .. k + 1
    <3>1. passed \in Seq(Values) /\ passed' \in Seq(Values)
      BY <1>3, <1>4 DEF TypeInv, RateLimitTypeOK
    <3> QED
      BY <1>6, <3>1 DEF k
  <2>2. \A i \in 1 .. k : i \in 1 .. k + 1
    BY <1>6
  <2> QED
    BY <1>6, <2>1, <2>2 DEF Range
<1>17. ASSUME NEW i \in 1 .. n + 1
       PROVE  \E j \in 1 .. i : /\ l[j].value \in Range(passed')
                                /\ SameSeries(l[i].value, l[j].value)
                                /\ l[i].value.time <= l[j].value.time + Interval(l[i].value.path)
  <2>1. CASE i = n + 1
    <3>1. i \in 1 .. i
      BY <1>4
    <3>2. v.time <= v.time + Interval(v.path)
      BY <1>5, IntervalType
    <3> QED
      BY <1>4, <1>16, <2>1, <3>1, <3>2 DEF SameSeries
  <2>2. CASE i \in 1 .. n
    <3>1. PICK j \in 1 .. i :
            /\ looked[Limiter][j].value \in Range(passed)
            /\ SameSeries(looked[Limiter][i].value, looked[Limiter][j].value)
            /\ looked[Limiter][i].value.time
                 <= looked[Limiter][j].value.time + Interval(looked[Limiter][i].value.path)
      BY <2>2 DEF LimiterInv, Represented, n
    <3>2. j \in 1 .. n
      BY <1>4, <2>2
    <3> QED
      BY <1>4, <1>16, <2>2, <3>1, <3>2
  <2> QED
    BY <1>4, <2>1, <2>2
<1>18. Represented'
  BY <1>4, <1>17 DEF Represented, SameSeries, l
<1> QED
  BY <1>11, <1>15, <1>18 DEF LimiterInv

LEMMA DropKeeps ==
  ASSUME TypeInv, LimiterInv, DropValue
  PROVE  LimiterInv'
<1> DEFINE v == Head(todo[Limiter])
           n == Len(looked[Limiter])
           l == looked'[Limiter]
<1>1. <<>> \in Seq(Values)
  OBVIOUS
<1>2. NextValue(Limiter, <<>>) /\ ~Passes(v) /\ UNCHANGED <<lastSeen, passed>>
  BY DEF DropValue, rateLimitVars
<1>3. /\ v \in Values /\ n \in Nat /\ Len(l) = n + 1
      /\ (\A i \in 1 .. n : l[i] = looked[Limiter][i]) /\ l[n + 1].value = v
  BY <1>1, <1>2, LimiterLooks
<1>4. v.context \in Contexts /\ v.path \in Paths /\ v.time \in Nat
  BY <1>3, ValueParts
<1> HIDE DEF v, n, l
<1>5. PICK h \in 1 .. Len(passed) :
        /\ passed[h].context = v.context /\ passed[h].path = v.path
        /\ passed[h].time = lastSeen[v.context][v.path]
  BY <1>2, <1>4 DEF Passes, LimiterInv, LastSeenInv
<1>6. v.time <= passed[h].time + Interval(v.path)
  <2>1. ~(lastSeen[v.context][v.path] + Interval(v.path) < v.time)
    BY <1>2 DEF Passes
  <2> QED
    BY <1>4, <1>5, <2>1, IntervalType, PassedParts
<1>7. PICK j \in 1 .. n : looked[Limiter][j].value = passed[h]
  BY DEF LimiterInv, LastSeenInv, n
<1>8. \A i \in 1 .. n : i \in 1 .. n + 1
  BY <1>3
<1>9. LastSeenInv'
  <2>1. ASSUME NEW i \in 1 .. Len(passed) PROVE \E g \in 1 .. n + 1 : l[g].value = passed[i]
    <3>1. PICK g \in 1 .. n : looked[Limiter][g].value = passed[i]
      BY DEF LimiterInv, LastSeenInv, n
    <3> QED
      BY <1>3, <1>8, <3>1
  <2> QED
    BY <1>2, <1>3, <2>1 DEF LimiterInv, LastSeenInv, l
<1>10. passed[h] \in Range(passed)
  <2>1. passed \in Seq(Values)
    BY DEF TypeInv, RateLimitTypeOK
  <2> QED
    BY <2>1 DEF Range
<1>11. ASSUME NEW i \in 1 .. n + 1
       PROVE  \E g \in 1 .. i : /\ l[g].value \in Range(passed)
                                /\ SameSeries(l[i].value, l[g].value)
                                /\ l[i].value.time <= l[g].value.time + Interval(l[i].value.path)
  <2>1. CASE i = n + 1
    <3>1. j \in 1 .. i
      BY <1>3, <2>1
    <3> QED
      BY <1>3, <1>5, <1>6, <1>7, <1>10, <2>1, <3>1 DEF SameSeries
  <2>2. CASE i \in 1 .. n
    <3>1. PICK g \in 1 .. i :
            /\ looked[Limiter][g].value \in Range(passed)
            /\ SameSeries(looked[Limiter][i].value, looked[Limiter][g].value)
            /\ looked[Limiter][i].value.time
                 <= looked[Limiter][g].value.time + Interval(looked[Limiter][i].value.path)
      BY <2>2 DEF LimiterInv, Represented, n
    <3>2. g \in 1 .. n
      BY <1>3, <2>2
    <3> QED
      BY <1>3, <2>2, <3>1, <3>2
  <2> QED
    BY <1>3, <2>1, <2>2
<1>12. Represented'
  BY <1>2, <1>3, <1>11 DEF Represented, SameSeries, l
<1>13. Spaced'
  BY <1>2 DEF LimiterInv, Spaced, SameSeries
<1> QED
  BY <1>9, <1>12, <1>13 DEF LimiterInv

LEMMA LimiterStays ==
  ASSUME LimiterInv, UNCHANGED <<lastSeen, passed, looked[Limiter]>>
  PROVE  LimiterInv'
BY DEF LimiterInv, LastSeenInv, Spaced, Represented, SameSeries

LEMMA LimiterStep ==
  ASSUME TypeInv, LimiterInv, [Next]_vars
  PROVE  LimiterInv'
<1>0. ProcessTypeOK /\ Limiter \in Processes
  BY ProcessNumbers DEF TypeInv
<1>1. CASE UNCHANGED <<Local(Limiter), lastSeen, passed>>
  BY <1>1, LimiterStays DEF Local
<1>2. CASE Receive(Limiter) /\ UNCHANGED rateLimitVars
  <2>1. UNCHANGED looked
    BY <1>0, <1>2, ReceiveEffect
  <2> QED
    BY <1>2, <2>1, LimiterStays DEF rateLimitVars
<1>3. CASE PublishLimited
  BY <1>3, LimiterStays DEF PublishLimited, Publish, rateLimitVars
<1> QED
  BY <1>1, <1>2, <1>3, StepsOf, PassKeeps, DropKeeps DEF RateLimitNext

LEMMA LimiterInit == Init => LimiterInv
<1> SUFFICES ASSUME Init PROVE LimiterInv
  OBVIOUS
<1>1. passed = <<>> /\ looked[Limiter] = <<>>
  BY ProcessNumbers DEF Init, RateLimitInit, ProcessInit
<1>2. \A c \in Contexts, p \in Paths : lastSeen[c][p] = Never
  BY DEF Init, RateLimitInit
<1> QED
  BY <1>1, <1>2 DEF LimiterInv, LastSeenInv, Spaced, Represented

LEMMA WaitingInit == Init => Waiting
BY DEF Init, ExpressionInit, Waiting

(* Nothing but values of the declared kinds is in a socket, a process or   *)
(* an expression's environment; the mapper works on samples alone and      *)
(* receives only when it has nothing left over from the delta before.      *)
THEOREM MappedTypeCorrect == Spec => [](TypeInv /\ Waiting)
<1>1. Init => TypeInv /\ Waiting
  BY TypeInit, WaitingInit
<1>2. TypeInv /\ Waiting /\ [Next]_vars => (TypeInv /\ Waiting)'
  BY TypeStep
<1> QED
  BY <1>1, <1>2, PTL DEF Spec

LEMMA LimiterInvariant == Spec => []LimiterInv
<1>1. TypeInv /\ LimiterInv /\ [Next]_vars => LimiterInv'
  BY LimiterStep
<1> QED
  BY <1>1, LimiterInit, MappedTypeCorrect, PTL DEF Spec

(* RateLimitFilter: the values passed on of one context and path are in    *)
(* the order of time and more than its interval apart, in whatever order   *)
(* they arrive.                                                            *)
THEOREM PassedAreSpaced == Spec => []Spaced
<1>1. LimiterInv => Spaced
  BY DEF LimiterInv
<1> QED
  BY <1>1, LimiterInvariant, PTL

(* RateLimitFilter: what it drops is represented by a value passed on      *)
(* before it, at most the interval older than it.                          *)
THEOREM DroppedAreRepresented == Spec => []Represented
<1>1. LimiterInv => Represented
  BY DEF LimiterInv
<1> QED
  BY <1>1, LimiterInvariant, PTL

-----------------------------------------------------------------------------
(* What the expressions can read is what was last looked at. *)

Agrees(e, f) == DOMAIN e = DOMAIN f /\ \A p \in DOMAIN e : e[p] = f[p]

(* An expression sees no difference. *)
LEMMA AgreeingReads ==
  ASSUME NEW e, NEW f, Agrees(e, f), NEW m
  PROVE  runExpr(m, e) = runExpr(m, f) /\ ReadBy(m, e) = ReadBy(m, f)
<1>1. DOMAIN e = DOMAIN f /\ \A p \in DOMAIN e : e[p] = f[p]
  BY DEF Agrees
<1>2. [p \in m.sources |-> IF p \in DOMAIN e THEN e[p].content ELSE m.static[p]] =
        [p \in m.sources |-> IF p \in DOMAIN f THEN f[p].content ELSE m.static[p]]
  BY <1>1
<1>3. runExpr(m, e) = runExpr(m, f)
  BY <1>1, <1>2, Zenon DEF runExpr
<1>4. ReadBy(m, e) = ReadBy(m, f)
  BY <1>1 DEF ReadBy
<1> QED
  BY <1>3, <1>4

(* Every turn adds the value at the head of todo to what was looked at. *)
LEMMA Turn ==
  ASSUME TypeInv, NEW s \in Processes,
         Fail(s) \/ \E out \in Seq(Values) : NextValue(s, out)
  PROVE  LET v == Head(todo[s])
             x == [delta |-> Len(heard[s]), value |-> v]
             q == looked[s]
             l == looked'[s]
         IN  /\ v \in Values /\ heard'[s] = heard[s]
             /\ q \in Seq([delta : Nat, value : Values])
             /\ x \in [delta : Nat, value : Values]
             /\ l = Append(q, x)
             /\ Len(q) \in Nat /\ Len(l) = Len(q) + 1
             /\ \A i \in 1 .. Len(q) : l[i] = q[i]
             /\ l[Len(q) + 1] = x
<1> DEFINE v == Head(todo[s])
           x == [delta |-> Len(heard[s]), value |-> v]
           q == looked[s]
           X == [delta : Nat, value : Values]
           l == Append(q, x)
<1>1. ProcessTypeOK
  BY DEF TypeInv
<1>2. v \in Values /\ looked' = [looked EXCEPT ![s] = l] /\ heard' = heard
  <2>1. CASE Fail(s)
    BY <1>1, <2>1, FailEffect
  <2>2. ASSUME NEW out \in Seq(Values), NextValue(s, out)
        PROVE  v \in Values /\ looked' = [looked EXCEPT ![s] = l] /\ heard' = heard
    BY <1>1, <2>2, NextValueEffect
  <2> QED
    BY <2>1, <2>2
<1>3. heard[s] \in Seq(Seq(Values)) /\ q \in Seq(X)
  BY <1>1 DEF ProcessTypeOK
<1>4. Len(heard[s]) \in Nat
  BY <1>3
<1>5. x \in X
  BY <1>2, <1>4
<1>6. looked'[s] = l
  <2> HIDE DEF l
  <2> QED
    BY <1>1, <1>2, Domains
<1>7. /\ Len(q) \in Nat /\ Len(l) = Len(q) + 1
      /\ (\A i \in 1 .. Len(q) : l[i] = q[i]) /\ l[Len(q) + 1] = x
  <2> HIDE DEF x, X, q
  <2> QED
    BY <1>3, <1>5
<1> QED
  BY <1>2, <1>3, <1>5, <1>6, <1>7

(* It does not change what was to be read at the turns before. *)
LEMMA TurnsBefore ==
  ASSUME NEW s \in Processes, NEW X, NEW x \in X, looked[s] \in Seq(X),
         looked'[s] = Append(looked[s], x), NEW j \in 0 .. Len(looked[s])
  PROVE  LookedAt(s, j)' = LookedAt(s, j)
<1>1. LastOf(Append(looked[s], x), j, Triggers(s)) = LastOf(looked[s], j, Triggers(s))
  BY LastOfAppended
<1> QED
  BY <1>1 DEF LookedAt, Triggers

LEMMA TriggersAre ==
  ASSUME NEW v
  PROVE  /\ v.path \in Triggers(Filter) <=> Triggered(FilterMappings, v.path) # {}
         /\ v.path \in Triggers(Aggregator) <=> Triggered(AggregateMappings, v.path) # {}
<1>1. Triggers(Filter) = UNION {m.sources : m \in Range(FilterMappings)}
  BY DEF Triggers
<1>2. Triggers(Aggregator) = UNION {m.sources : m \in Range(AggregateMappings)}
  BY ProcessNumbers DEF Triggers
<1> QED
  BY <1>1, <1>2 DEF Triggered, Range

(* The environment that has learnt the value looked at is the one to read. *)
LEMMA NextTurn ==
  ASSUME NEW s \in {Aggregator, Filter}, NEW X, NEW x \in X, looked[s] \in Seq(X),
         Agrees(env[s], LookedAt(s, Len(looked[s])))
  PROVE  Agrees(IF x.value.path \in Triggers(s) THEN Learn(s, x.value) ELSE env[s],
                LastOf(Append(looked[s], x), Len(looked[s]) + 1, Triggers(s)))
<1> DEFINE v == x.value
           n == Len(looked[s])
           e == LastOf(Append(looked[s], x), n + 1, Triggers(s))
           o == LastOf(looked[s], n, Triggers(s))
           g == Learn(s, v)
<1>1. /\ DOMAIN e = DOMAIN o \cup ({v.path} \cap Triggers(s))
      /\ \A p \in DOMAIN e : e[p] = IF p = v.path THEN v ELSE o[p]
  <2> DEFINE turns == looked[s]
             paths == Triggers(s)
  <2> HIDE DEF turns, paths
  <2>1. turns \in Seq(X)
    BY DEF turns
  <2> DEFINE k == Len(turns)
  <2>2. k = Len(turns)
    OBVIOUS
  <2> HIDE DEF k
  <2>3. Updates(LastOf(Append(turns, x), k + 1, paths), LastOf(turns, k, paths),
                x.value, paths)
    BY <2>1, <2>2, LastOfNext
  <2> QED
    BY <2>3 DEF turns, paths, k, Updates
<1>2. DOMAIN env[s] = DOMAIN o /\ \A p \in DOMAIN o : env[s][p] = o[p]
  BY DEF Agrees, LookedAt
<1>3. DOMAIN g = DOMAIN env[s] \cup {v.path}
      /\ \A p \in DOMAIN g : g[p] = IF p = v.path THEN v ELSE env[s][p]
  BY Learnt
<1>4. DOMAIN o \subseteq Triggers(s)
  BY DEF LastOf
<1> HIDE DEF e, o, g, v, n
<1>5. CASE v.path \in Triggers(s)
  <2>1. Agrees(g, e)
    BY <1>1, <1>2, <1>3, <1>5 DEF Agrees
  <2> QED
    BY <1>5, <2>1 DEF g, e, v, n
<1>6. CASE v.path \notin Triggers(s)
  <2>1. Agrees(env[s], e)
    BY <1>1, <1>2, <1>4, <1>6 DEF Agrees
  <2> QED
    BY <1>6, <2>1 DEF e, v, n
<1> QED
  BY <1>5, <1>6

(* In both processes this holds between any two steps. *)
TurnsInv(s) ==
  /\ Agrees(env[s], LookedAt(s, Len(looked[s])))
  /\ Len(heard[s]) = IF busy[s] THEN Len(told[s]) + 1 ELSE Len(told[s])

-----------------------------------------------------------------------------
(* The expression filter. *)

(* What it has kept of the delta it is mapping was allowed; what it has    *)
(* looked at and not kept was refused.                                     *)
FilteringInv ==
  LET k == Len(heard[Filter])
  IN  /\ \A v \in Range(result[Filter]) : Allowed(k, v)
      /\ \A v \in Range(heard[Filter][k]) :
           v \in Range(todo[Filter]) \cup Range(result[Filter]) \/ Refused(k, v)

(* What reaches it could be encoded, so that it can publish what is left.  *)
FilterHolds ==
  /\ Encodable(todo[Filter]) /\ Encodable(result[Filter])
  /\ \A i \in 1 .. Len(socket[Filter]) : Encodable(socket[Filter][i])

FilterInv ==
  /\ TurnsInv(Filter)
  /\ busy[Filter] => FilteringInv
  /\ FilterSafe /\ FilterLossless

LEMMA RangeIs ==
  ASSUME NEW X, NEW q \in Seq(X)
  PROVE  /\ Range(q) = {q[i] : i \in 1 .. Len(q)} /\ Len(q) \in Nat
         /\ q # <<>> => Range(q) = {Head(q)} \cup Range(Tail(q))
         /\ \A x \in X : Range(Append(q, x)) = Range(q) \cup {x}
<1>1. DOMAIN q = 1 .. Len(q) /\ Len(q) \in Nat
  OBVIOUS
<1>2. Range(q) = {q[i] : i \in 1 .. Len(q)}
  BY <1>1 DEF Range
<1>3. ASSUME q # <<>> PROVE Range(q) = {Head(q)} \cup Range(Tail(q))
  <2> DEFINE t == Tail(q)
             n == Len(q)
  <2>1. /\ n \in Nat /\ n > 0 /\ Head(q) = q[1] /\ DOMAIN t = 1 .. n - 1
        /\ \A i \in 1 .. n - 1 : t[i] = q[i + 1]
    BY <1>3
  <2> HIDE DEF t
  <2>2. ASSUME NEW i \in 1 .. n PROVE q[i] \in {q[1]} \cup Range(t)
    <3>1. i = 1 \/ i - 1 \in 1 .. n - 1
      BY <2>1
    <3>2. i - 1 \in 1 .. n - 1 => t[i - 1] = q[i]
      BY <2>1
    <3> QED
      BY <2>1, <3>1, <3>2 DEF Range
  <2>3. ASSUME NEW i \in 1 .. n - 1 PROVE t[i] \in Range(q)
    <3>1. i + 1 \in 1 .. n
      BY <2>1
    <3> QED
      BY <1>2, <2>1, <3>1
  <2>4. q[1] \in Range(q)
    BY <1>2, <2>1
  <2>5. Range(t) \subseteq Range(q)
    BY <2>1, <2>3 DEF Range
  <2>6. Range(q) \subseteq {q[1]} \cup Range(t)
    BY <1>2, <2>2
  <2> QED
    BY <2>1, <2>4, <2>5, <2>6 DEF t
<1>4. ASSUME NEW x \in X PROVE Range(Append(q, x)) = Range(q) \cup {x}
  <2> DEFINE a == Append(q, x)
             n == Len(q)
  <2>1. /\ n \in Nat /\ DOMAIN a = 1 .. n + 1 /\ a[n + 1] = x
        /\ \A i \in 1 .. n : a[i] = q[i]
    OBVIOUS
  <2> HIDE DEF a, n
  <2>2. \A i \in 1 .. n + 1 : i \in 1 .. n \/ i = n + 1
    BY <2>1
  <2>3. 1 .. n \subseteq 1 .. n + 1 /\ n + 1 \in 1 .. n + 1
    BY <2>1
  <2>4. Range(a) = {a[i] : i \in 1 .. n + 1}
    BY <2>1 DEF Range
  <2>5. Range(a) \subseteq Range(q) \cup {x}
    BY <1>2, <2>1, <2>2, <2>4 DEF n
  <2>6. Range(q) \cup {x} \subseteq Range(a)
    BY <1>2, <2>1, <2>3, <2>4 DEF n
  <2> QED
    BY <2>5, <2>6 DEF a
<1> QED
  BY <1>1, <1>2, <1>3, <1>4

(* What was allowed or refused before stays so as the filter looks at      *)
(* another value.                                                          *)
LEMMA VerdictsStay ==
  ASSUME NEW X, NEW x \in X, looked[Filter] \in Seq(X),
         looked'[Filter] = Append(looked[Filter], x), NEW k, NEW v
  PROVE  (Allowed(k, v) => Allowed(k, v)') /\ (Refused(k, v) => Refused(k, v)')
<1> DEFINE q == looked[Filter]
           l == looked'[Filter]
           n == Len(q)
<1>1. /\ n \in Nat /\ DOMAIN q = 1 .. n /\ DOMAIN l = 1 .. n + 1
      /\ \A i \in 1 .. n : l[i] = q[i]
  OBVIOUS
<1>2. ASSUME NEW j \in DOMAIN q PROVE LookedAt(Filter, j)' = LookedAt(Filter, j)
  <2>1. j \in 0 .. Len(looked[Filter])
    BY <1>1
  <2> QED
    BY <2>1, ProcessNumbers, TurnsBefore
<1>3. ASSUME NEW j \in DOMAIN q PROVE j \in DOMAIN l /\ l[j] = q[j]
  BY <1>1
<1>4. ASSUME Allowed(k, v) PROVE Allowed(k, v)'
  <2>1. PICK j \in DOMAIN looked[Filter] :
          /\ looked[Filter][j] = [delta |-> k, value |-> v]
          /\ \A m \in Range(FilterMappings) :
               v.path \in m.sources => runExpr(m, LookedAt(Filter, j)) = "false"
    BY <1>4 DEF Allowed
  <2>2. LookedAt(Filter, j)' = LookedAt(Filter, j)
    BY <1>2
  <2>3. j \in DOMAIN looked'[Filter] /\ looked'[Filter][j] = [delta |-> k, value |-> v]
    BY <1>3, <2>1
  <2> QED
    BY <2>1, <2>2, <2>3 DEF Allowed
<1>5. ASSUME Refused(k, v) PROVE Refused(k, v)'
  <2>1. PICK j \in DOMAIN looked[Filter], m \in Range(FilterMappings) :
          /\ TurnOf(Filter, j, k, m)
          /\ \/ looked[Filter][j].value = v /\ runExpr(m, LookedAt(Filter, j)) = "true"
             \/ runExpr(m, LookedAt(Filter, j)) \notin {"true", "false"}
    BY <1>5 DEF Refused
  <2>2. LookedAt(Filter, j)' = LookedAt(Filter, j)
    BY <1>2
  <2>3. j \in DOMAIN looked'[Filter] /\ looked'[Filter][j] = looked[Filter][j]
    BY <1>3
  <2>4. TurnOf(Filter, j, k, m)'
    BY <2>1, <2>3 DEF TurnOf
  <2> QED
    BY <2>1, <2>2, <2>3, <2>4 DEF Refused
<1> QED
  BY <1>4, <1>5

(* FilterValue judges by what was last looked at. *)
LEMMA FilterReads ==
  ASSUME TypeInv, TurnsInv(Filter), FilterValue,
         NEW v, v = Head(todo[Filter]), NEW n, n = Len(looked[Filter])
  PROVE  Agrees(env'[Filter], LookedAt(Filter, n + 1)')
         /\ env'[Filter] = FilterEnv(v)
<1> DEFINE x == [delta |-> Len(heard[Filter]), value |-> v]
           X == [delta : Nat, value : Values]
<1>1. env'[Filter] = FilterEnv(v)
  BY FilterValueEffect
<1>2. Fail(Filter) \/ \E out \in Seq(Values) : NextValue(Filter, out)
  BY FilterValueEffect
<1>3. /\ x \in X /\ looked[Filter] \in Seq(X)
      /\ looked'[Filter] = Append(looked[Filter], x)
  BY <1>2, ProcessNumbers, Turn
<1>4. Agrees(env[Filter], LookedAt(Filter, Len(looked[Filter])))
  BY DEF TurnsInv
<1>5. x.value = v
  OBVIOUS
<1> HIDE DEF x, X
<1>6. Agrees(IF x.value.path \in Triggers(Filter) THEN Learn(Filter, x.value) ELSE env[Filter],
             LastOf(Append(looked[Filter], x), Len(looked[Filter]) + 1, Triggers(Filter)))
  BY <1>3, <1>4, NextTurn
<1>7. FilterEnv(v) = IF v.path \in Triggers(Filter) THEN Learn(Filter, v) ELSE env[Filter]
  BY TriggersAre DEF FilterEnv
<1>8. LookedAt(Filter, n + 1)' =
        LastOf(Append(looked[Filter], x), Len(looked[Filter]) + 1, Triggers(Filter))
  BY <1>3 DEF LookedAt, Triggers
<1> QED
  BY <1>1, <1>5, <1>6, <1>7, <1>8

(* The filters on a path are those that read it. *)
LEMMA VerdictsAre ==
  ASSUME NEW p, NEW e
  PROVE  Verdicts(p, e) = {runExpr(m, e) : m \in {f \in Range(FilterMappings) : p \in f.sources}}
<1>1. ASSUME NEW i \in Triggered(FilterMappings, p)
      PROVE  FilterMappings[i] \in {f \in Range(FilterMappings) : p \in f.sources}
  BY DEF Triggered, Range
<1>2. ASSUME NEW m \in Range(FilterMappings), p \in m.sources
      PROVE  \E i \in Triggered(FilterMappings, p) : FilterMappings[i] = m
  BY <1>2 DEF Triggered, Range
<1> QED
  BY <1>1, <1>2 DEF Verdicts

LEMMA TurnIsJudged ==
  ASSUME TypeInv, TurnsInv(Filter), FilterValue,
         NEW v, v = Head(todo[Filter]), NEW k, k = Len(heard[Filter])
  PROVE  /\ FilterFails(v.path, FilterEnv(v)) => \A w : Refused(k, w)'
         /\ FilterSkips(v.path, FilterEnv(v)) => Refused(k, v)'
         /\ ~FilterFails(v.path, FilterEnv(v)) /\ ~FilterSkips(v.path, FilterEnv(v))
              => Allowed(k, v)'
<1>0. PICK n : n = Len(looked[Filter])
  OBVIOUS
<1> DEFINE e == env'[Filter]
           f == LookedAt(Filter, n + 1)'
           fs == {m \in Range(FilterMappings) : v.path \in m.sources}
<1>1. e = FilterEnv(v) /\ Agrees(e, f)
  BY <1>0, FilterReads
<1>2. \A m : runExpr(m, e) = runExpr(m, f)
  BY <1>1, AgreeingReads
<1>3. Verdicts(v.path, FilterEnv(v)) = {runExpr(m, f) : m \in fs}
  <2>1. Verdicts(v.path, e) = {runExpr(m, e) : m \in fs}
    <3> HIDE DEF e
    <3> QED
      BY VerdictsAre
  <2> QED
    BY <1>1, <1>2, <2>1
<1>4. /\ n + 1 \in DOMAIN looked'[Filter]
      /\ looked'[Filter][n + 1] = [delta |-> k, value |-> v]
  <2>1. Fail(Filter) \/ \E out \in Seq(Values) : NextValue(Filter, out)
    BY FilterValueEffect
  <2>2. /\ looked'[Filter] =
             Append(looked[Filter], [delta |-> Len(heard[Filter]), value |-> Head(todo[Filter])])
        /\ looked[Filter] \in Seq([delta : Nat, value : Values])
    BY <2>1, ProcessNumbers, Turn
  <2> QED
    BY <1>0, <2>2
<1> HIDE DEF e, f
<1>5. ASSUME NEW m \in fs PROVE m \in Range(FilterMappings) /\ TurnOf(Filter, n + 1, k, m)'
  BY <1>4 DEF TurnOf
<1>6. ASSUME FilterFails(v.path, FilterEnv(v)), NEW w PROVE Refused(k, w)'
  <2>1. PICK m \in fs : runExpr(m, f) \notin {"true", "false"}
    BY <1>3, <1>6 DEF FilterFails
  <2> QED
    BY <1>4, <1>5, <2>1 DEF Refused, f
<1>7. ASSUME FilterSkips(v.path, FilterEnv(v)) PROVE Refused(k, v)'
  <2>1. PICK m \in fs : runExpr(m, f) = "true"
    BY <1>3, <1>7 DEF FilterSkips
  <2> QED
    BY <1>4, <1>5, <2>1 DEF Refused, f
<1>8. ASSUME ~FilterFails(v.path, FilterEnv(v)), ~FilterSkips(v.path, FilterEnv(v))
      PROVE  Allowed(k, v)'
  <2>1. \A m \in fs : runExpr(m, f) = "false"
    BY <1>3, <1>8 DEF FilterFails, FilterSkips
  <2> QED
    BY <1>4, <2>1 DEF Allowed, f
<1> QED
  BY <1>6, <1>7, <1>8

(* FilterSafe and FilterLossless, of the k-th delta. *)
Judged(k) ==
  /\ \A v \in Range(told[Filter][k]) : Allowed(k, v)
  /\ \A v \in Range(heard[Filter][k]) : v \in Range(told[Filter][k]) \/ Refused(k, v)

LEMMA JudgedAll == FilterSafe /\ FilterLossless <=> \A k \in DOMAIN told[Filter] : Judged(k)
BY DEF FilterSafe, FilterLossless, Judged

VerdictsKept ==
  \A k, v : (Allowed(k, v) => Allowed(k, v)') /\ (Refused(k, v) => Refused(k, v)')

LEMMA JudgedStays ==
  ASSUME NEW k, Judged(k), VerdictsKept,
         told'[Filter][k] = told[Filter][k], heard'[Filter][k] = heard[Filter][k]
  PROVE  Judged(k)'
BY DEF Judged, VerdictsKept

LEMMA VerdictsKeptUnlooked ==
  ASSUME UNCHANGED looked[Filter]
  PROVE  VerdictsKept
<1>1. ASSUME NEW k, NEW v PROVE (Allowed(k, v) => Allowed(k, v)')
  BY DEF Allowed, LookedAt, Triggers
<1>2. ASSUME NEW k, NEW v PROVE (Refused(k, v) => Refused(k, v)')
  BY DEF Refused, TurnOf, LookedAt, Triggers
<1> QED
  BY <1>1, <1>2 DEF VerdictsKept

LEMMA VerdictsKeptLooked ==
  ASSUME TypeInv, FilterValue
  PROVE  VerdictsKept
<1>1. Fail(Filter) \/ \E out \in Seq(Values) : NextValue(Filter, out)
  BY FilterValueEffect
<1> DEFINE x == [delta |-> Len(heard[Filter]), value |-> Head(todo[Filter])]
           X == [delta : Nat, value : Values]
<1>2. /\ x \in X /\ looked[Filter] \in Seq(X)
      /\ looked'[Filter] = Append(looked[Filter], x)
  BY <1>1, ProcessNumbers, Turn
<1> HIDE DEF x, X
<1> QED
  BY <1>2, VerdictsStay DEF VerdictsKept

(* The filter's sequences, with their lengths. *)
LEMMA FilterParts ==
  ASSUME TypeInv
  PROVE  /\ ProcessTypeOK /\ Filter \in Processes
         /\ heard[Filter] \in Seq(Seq(Values)) /\ told[Filter] \in Seq(Seq(Values))
         /\ DOMAIN told[Filter] = 1 .. Len(told[Filter])
         /\ DOMAIN heard[Filter] = 1 .. Len(heard[Filter])
         /\ Len(told[Filter]) \in Nat /\ Len(heard[Filter]) \in Nat
         /\ todo[Filter] \in Seq(Values) /\ result[Filter] \in Seq(Values)
<1>1. ProcessTypeOK /\ Filter \in Processes
  BY ProcessNumbers DEF TypeInv
<1>2. heard[Filter] \in Seq(Seq(Values)) /\ told[Filter] \in Seq(Seq(Values))
  BY <1>1 DEF ProcessTypeOK
<1>3. \A q \in Seq(Seq(Values)) : DOMAIN q = 1 .. Len(q) /\ Len(q) \in Nat
  OBVIOUS
<1>4. todo[Filter] \in Seq(Values) /\ result[Filter] \in Seq(Values)
  BY <1>1 DEF ProcessTypeOK
<1> QED
  BY <1>1, <1>2, <1>3, <1>4, Zenon

(* The delta that was in the works is told. *)
LEMMA Closes ==
  ASSUME TypeInv, FilterInv, busy[Filter], VerdictsKept, NEW out \in Seq(Values),
         told' = [told EXCEPT ![Filter] = Append(told[Filter], out)],
         busy' = [busy EXCEPT ![Filter] = FALSE], UNCHANGED heard,
         NEW k, k = Len(heard[Filter]),
         \A v \in Range(out) : Allowed(k, v)',
         \A v \in Range(heard[Filter][k]) : v \in Range(out) \/ Refused(k, v)'
  PROVE  /\ Len(heard'[Filter]) = Len(told'[Filter]) /\ ~busy'[Filter]
         /\ FilterSafe' /\ FilterLossless'
<1> DEFINE t == told[Filter]
           a == Append(t, out)
<1>1. k = Len(t) + 1 /\ t \in Seq(Seq(Values)) /\ Len(t) \in Nat
  BY FilterParts DEF FilterInv, TurnsInv
<1>2. /\ DOMAIN a = 1 .. k /\ Len(a) = k /\ a[k] = out
      /\ \A i \in 1 .. k : i = k \/ (i \in DOMAIN t /\ a[i] = t[i])
  <2> DEFINE S == Seq(Values)
  <2>1. t \in Seq(S) /\ out \in S
    BY <1>1
  <2> HIDE DEF t, S
  <2>2. /\ DOMAIN a = 1 .. Len(t) + 1 /\ Len(a) = Len(t) + 1 /\ a[Len(t) + 1] = out
        /\ \A i \in 1 .. Len(t) : a[i] = t[i]
    BY <2>1
  <2>3. \A i \in 1 .. k : i = k \/ i \in 1 .. Len(t)
    BY <1>1
  <2>4. DOMAIN t = 1 .. Len(t)
    BY <2>1
  <2> HIDE DEF a
  <2> QED
    BY <1>1, <2>2, <2>3, <2>4
<1> HIDE DEF a
<1>3. told'[Filter] = a /\ ~busy'[Filter] /\ heard'[Filter] = heard[Filter]
  BY FilterParts, Domains DEF a
<1>4. ASSUME NEW i \in 1 .. k PROVE Judged(i)'
  <2>1. CASE i = k
    BY <1>2, <1>3, <2>1 DEF Judged
  <2>2. CASE i # k
    <3>1. i \in DOMAIN told[Filter] /\ told'[Filter][i] = told[Filter][i]
      BY <1>2, <1>3, <2>2
    <3>2. Judged(i)
      BY <3>1, JudgedAll DEF FilterInv
    <3> QED
      BY <1>3, <3>1, <3>2, JudgedStays
  <2> QED
    BY <2>1, <2>2
<1>5. FilterSafe' /\ FilterLossless'
  BY <1>2, <1>3, <1>4 DEF FilterSafe, FilterLossless, Judged
<1> QED
  BY <1>2, <1>3, <1>5

LEMMA PublishFilteredKeeps ==
  ASSUME TypeInv, FilterInv, FilterHolds, PublishFiltered
  PROVE  FilterInv'
<1> DEFINE out == result[Filter]
<1>0. PICK k : k = Len(heard[Filter])
  OBVIOUS
<1>1. /\ out \in Seq(Values) /\ Encodable(out) /\ Publish(Filter, out)
      /\ UNCHANGED env
  BY FilterParts DEF FilterHolds, PublishFiltered, expressionVars
<1>2. /\ busy[Filter] /\ todo[Filter] = <<>>
      /\ busy' = [busy EXCEPT ![Filter] = FALSE]
      /\ told' = [told EXCEPT ![Filter] = Append(told[Filter], out)]
      /\ UNCHANGED <<heard, looked>>
  <2> HIDE DEF out
  <2>1. told' = [told EXCEPT ![Filter] =
                   Append(told[Filter], IF Encodable(out) THEN out ELSE <<>>)]
    BY <1>1, FilterParts, PublishEffect
  <2>2. (IF Encodable(out) THEN out ELSE <<>>) = out
    BY <1>1
  <2> QED
    BY <1>1, <2>1, <2>2, FilterParts, PublishEffect
<1>3. VerdictsKept
  BY <1>2, VerdictsKeptUnlooked
<1>4. Range(todo[Filter]) = {}
  BY <1>2 DEF Range
<1>5. /\ \A v \in Range(out) : Allowed(k, v)'
      /\ \A v \in Range(heard[Filter][k]) : v \in Range(out) \/ Refused(k, v)'
  BY <1>0, <1>2, <1>3, <1>4 DEF FilterInv, FilteringInv, VerdictsKept
<1> HIDE DEF out
<1>6. /\ Len(heard'[Filter]) = Len(told'[Filter]) /\ ~busy'[Filter]
      /\ FilterSafe' /\ FilterLossless'
  BY <1>0, <1>1, <1>2, <1>3, <1>5, Closes
<1>7. Agrees(env[Filter], LookedAt(Filter, Len(looked[Filter])))'
  BY <1>1, <1>2 DEF FilterInv, TurnsInv, LookedAt, Triggers
<1> QED
  BY <1>6, <1>7 DEF FilterInv, TurnsInv

LEMMA FilterValueKeeps ==
  ASSUME TypeInv, FilterInv, FilterValue
  PROVE  FilterInv'
<1>0. PICK v, k, n : /\ v = Head(todo[Filter]) /\ k = Len(heard[Filter])
                     /\ n = Len(looked[Filter])
  OBVIOUS
<1> DEFINE e == FilterEnv(v)
           out == IF FilterSkips(v.path, e) THEN <<>> ELSE <<v>>
<1>1. /\ v \in Values /\ out \in Seq(Values)
      /\ IF FilterFails(v.path, e) THEN Fail(Filter) ELSE NextValue(Filter, out)
  BY <1>0, FilterValueEffect
<1>2. /\ FilterFails(v.path, e) => \A w : Refused(k, w)'
      /\ FilterSkips(v.path, e) => Refused(k, v)'
      /\ ~FilterFails(v.path, e) /\ ~FilterSkips(v.path, e) => Allowed(k, v)'
  BY <1>0, TurnIsJudged DEF FilterInv
<1>3. VerdictsKept
  BY VerdictsKeptLooked
<1>4. Len(looked'[Filter]) = n + 1
  BY <1>0, <1>1, ProcessNumbers, Turn
<1>5. Agrees(env[Filter], LookedAt(Filter, Len(looked[Filter])))'
  <2>1. Agrees(env'[Filter], LookedAt(Filter, n + 1)')
    BY <1>0, FilterReads DEF FilterInv
  <2> QED
    BY <1>4, <2>1 DEF LookedAt, Triggers
<1>6. CASE FilterFails(v.path, e)
  <2>1. /\ busy[Filter] /\ busy' = [busy EXCEPT ![Filter] = FALSE]
        /\ told' = [told EXCEPT ![Filter] = Append(told[Filter], <<>>)]
        /\ UNCHANGED heard
    BY <1>1, <1>6, FilterParts, FailEffect
  <2> DEFINE nothing == <<>>
  <2>2. nothing \in Seq(Values) /\ Range(nothing) = {}
    BY DEF Range
  <2>3. told' = [told EXCEPT ![Filter] = Append(told[Filter], nothing)]
    BY <2>1
  <2> HIDE DEF nothing
  <2>4. /\ \A w \in Range(nothing) : Allowed(k, w)'
        /\ \A w \in Range(heard[Filter][k]) : w \in Range(nothing) \/ Refused(k, w)'
    BY <1>2, <1>6, <2>2
  <2>5. /\ Len(heard'[Filter]) = Len(told'[Filter]) /\ ~busy'[Filter]
        /\ FilterSafe' /\ FilterLossless'
    BY <1>0, <1>3, <2>1, <2>2, <2>3, <2>4, Closes
  <2> QED
    BY <1>5, <2>5 DEF FilterInv, TurnsInv
<1>7. CASE ~FilterFails(v.path, e)
  <2> DEFINE y == Tail(todo[Filter])
             z == result[Filter] \o out
  <2>1. /\ busy[Filter] /\ todo[Filter] # <<>>
        /\ todo' = [todo EXCEPT ![Filter] = y]
        /\ result' = [result EXCEPT ![Filter] = z]
        /\ UNCHANGED <<busy, heard, told>>
    BY <1>1, <1>7, FilterParts, NextValueEffect
  <2>2. Range(todo[Filter]) = {v} \cup Range(y)
    BY <1>0, <2>1, FilterParts, RangeIs
  <2>3. Range(z) = Range(result[Filter]) \cup (IF FilterSkips(v.path, e) THEN {} ELSE {v})
    <3>1. CASE FilterSkips(v.path, e)
      <4>1. z = result[Filter]
        BY <3>1, FilterParts
      <4> QED
        BY <3>1, <4>1
    <3>2. CASE ~FilterSkips(v.path, e)
      <4>1. z = Append(result[Filter], v)
        <5>1. \A r \in Seq(Values), x \in Values : r \o <<x>> = Append(r, x)
          OBVIOUS
        <5>2. out = <<v>>
          BY <3>2
        <5> QED
          BY <1>1, <5>1, <5>2, FilterParts
      <4>2. \A r \in Seq(Values), x \in Values : Range(Append(r, x)) = Range(r) \cup {x}
        BY RangeIs, Zenon
      <4>3. Range(Append(result[Filter], v)) = Range(result[Filter]) \cup {v}
        BY <1>1, <4>2, FilterParts, Zenon
      <4> QED
        BY <3>2, <4>1, <4>3, Zenon
    <3> QED
      BY <3>1, <3>2
  <2> HIDE DEF y, z
  <2>4. todo'[Filter] = y /\ result'[Filter] = z
    BY <2>1, FilterParts, Domains
  <2>5. ASSUME NEW w \in Range(z) PROVE Allowed(k, w)'
    <3>1. CASE w \in Range(result[Filter])
      BY <1>0, <1>3, <2>1, <3>1 DEF FilterInv, FilteringInv, VerdictsKept
    <3>2. CASE w = v /\ ~FilterSkips(v.path, e)
      BY <1>2, <1>7, <3>2
    <3> QED
      BY <2>3, <3>1, <3>2
  <2>6. ASSUME NEW w \in Range(heard[Filter][k])
        PROVE  w \in Range(y) \cup Range(z) \/ Refused(k, w)'
    <3>1. CASE w \in Range(todo[Filter]) \cup Range(result[Filter])
      BY <1>2, <2>2, <2>3, <3>1
    <3>2. CASE Refused(k, w)
      BY <1>3, <3>2 DEF VerdictsKept
    <3> QED
      BY <1>0, <2>1, <3>1, <3>2 DEF FilterInv, FilteringInv
  <2>7. FilteringInv'
    BY <1>0, <2>1, <2>4, <2>5, <2>6 DEF FilteringInv
  <2>8. \A i \in DOMAIN told[Filter] : Judged(i)'
    BY <1>3, <2>1, JudgedAll, JudgedStays DEF FilterInv
  <2>9. FilterSafe' /\ FilterLossless'
    BY <2>1, <2>8 DEF FilterSafe, FilterLossless, Judged
  <2> QED
    BY <1>5, <2>1, <2>7, <2>9 DEF FilterInv, TurnsInv
<1> QED
  BY <1>6, <1>7

LEMMA ReceiveFilterKeeps ==
  ASSUME TypeInv, FilterInv, Receive(Filter), UNCHANGED expressionVars
  PROVE  FilterInv'
<1> DEFINE h == Head(socket[Filter])
           q == heard[Filter]
<1>1. /\ ~busy[Filter] /\ UNCHANGED <<looked, told, env>> /\ h \in Seq(Values)
      /\ \/ UNCHANGED <<busy, todo, result, heard>>
         \/ /\ busy' = [busy EXCEPT ![Filter] = TRUE]
            /\ todo' = [todo EXCEPT ![Filter] = h]
            /\ result' = [result EXCEPT ![Filter] = <<>>]
            /\ heard' = [heard EXCEPT ![Filter] = Append(q, h)]
  BY FilterParts, ReceiveEffect DEF expressionVars
<1>2. VerdictsKept
  BY <1>1, VerdictsKeptUnlooked
<1>3. Agrees(env[Filter], LookedAt(Filter, Len(looked[Filter])))'
  BY <1>1 DEF FilterInv, TurnsInv, LookedAt, Triggers
<1> HIDE DEF h
<1>4. CASE UNCHANGED <<busy, todo, result, heard>>
  <2>1. FilterSafe' /\ FilterLossless'
    <3>1. \A i \in DOMAIN told[Filter] : Judged(i)'
      BY <1>1, <1>2, <1>4, JudgedAll, JudgedStays DEF FilterInv
    <3> QED
      BY <1>1, <3>1 DEF FilterSafe, FilterLossless, Judged
  <2> QED
    BY <1>1, <1>3, <1>4, <2>1 DEF FilterInv, TurnsInv
<1>5. CASE /\ busy' = [busy EXCEPT ![Filter] = TRUE]
           /\ todo' = [todo EXCEPT ![Filter] = h]
           /\ result' = [result EXCEPT ![Filter] = <<>>]
           /\ heard' = [heard EXCEPT ![Filter] = Append(q, h)]
  <2> DEFINE a == Append(q, h)
             S == Seq(Values)
  <2>1. q \in Seq(S) /\ h \in S /\ Len(q) \in Nat
    BY <1>1, FilterParts
  <2>2. /\ Len(a) = Len(q) + 1 /\ a[Len(q) + 1] = h
        /\ \A i \in 1 .. Len(q) : a[i] = q[i]
    <3> HIDE DEF S, q
    <3> QED
      BY <2>1
  <2> HIDE DEF a
  <2>3. heard'[Filter] = a /\ busy'[Filter] /\ todo'[Filter] = h
    BY <1>5, FilterParts, Domains DEF a
  <2>4. Len(q) = Len(told[Filter])
    BY <1>1 DEF FilterInv, TurnsInv
  <2>5. TurnsInv(Filter)'
    BY <1>1, <1>3, <2>2, <2>3, <2>4 DEF TurnsInv
  <2>6. result'[Filter] = <<>>
    BY <1>5, FilterParts, Domains
  <2>7. FilteringInv'
    BY <2>2, <2>3, <2>6 DEF FilteringInv, Range
  <2>8. \A i \in DOMAIN told[Filter] : Judged(i)'
    <3> SUFFICES ASSUME NEW i \in DOMAIN told[Filter] PROVE Judged(i)'
      OBVIOUS
    <3>1. i \in 1 .. Len(q)
      BY <2>4, FilterParts
    <3>2. heard'[Filter][i] = heard[Filter][i] /\ told'[Filter][i] = told[Filter][i]
      BY <1>1, <2>2, <2>3, <3>1
    <3> QED
      BY <1>2, <3>2, JudgedAll, JudgedStays DEF FilterInv
  <2>9. FilterSafe' /\ FilterLossless'
    BY <1>1, <2>8 DEF FilterSafe, FilterLossless, Judged
  <2> QED
    BY <2>5, <2>7, <2>9 DEF FilterInv
<1> QED
  BY <1>1, <1>4, <1>5

(* What leaves a socket, or joins others there, changes nothing of them.   *)
LEMMA EncodableParts ==
  ASSUME NEW q \in Seq(Values), Encodable(q), q # <<>>
  PROVE  /\ Encodable(Tail(q)) /\ Head(q).content # "infinity"
<1>1. Range(q) = {Head(q)} \cup Range(Tail(q))
  BY RangeIs
<1> QED
  BY <1>1 DEF Encodable

LEMMA SocketTail ==
  ASSUME NEW S, NEW q \in Seq(S), q # <<>>, NEW P, \A i \in 1 .. Len(q) : q[i] \in P
  PROVE  Head(q) \in P /\ \A i \in 1 .. Len(Tail(q)) : Tail(q)[i] \in P
<1>1. Len(q) \in Nat /\ Len(q) > 0 /\ Head(q) = q[1]
  OBVIOUS
<1>2. Len(Tail(q)) = Len(q) - 1 /\ \A i \in 1 .. Len(q) - 1 : Tail(q)[i] = q[i + 1]
  OBVIOUS
<1>3. \A i \in 1 .. Len(q) - 1 : i + 1 \in 1 .. Len(q)
  BY <1>1
<1> QED
  BY <1>1, <1>2, <1>3

(* The deltas that can be encoded. *)
Sendable == {d \in Seq(Values) : Encodable(d)}

LEMMA SocketHolds ==
  ASSUME TypeInv
  PROVE  /\ socket[Filter] \in Seq(Seq(Values))
         /\ (\A i \in 1 .. Len(socket[Filter]) : Encodable(socket[Filter][i]))
              <=> (\A i \in 1 .. Len(socket[Filter]) : socket[Filter][i] \in Sendable)
<1>1. socket[Filter] \in Seq(Seq(Values))
  BY FilterParts DEF ProcessTypeOK
<1>2. \A i \in 1 .. Len(socket[Filter]) : socket[Filter][i] \in Seq(Values)
  BY <1>1
<1> QED
  BY <1>1, <1>2 DEF Sendable

(* The socket of the filter only gets what could be encoded. *)
LEMMA FilterSocketStep ==
  ASSUME TypeInv, FilterHolds, [Next]_vars
  PROVE  \A i \in 1 .. Len(socket'[Filter]) : socket'[Filter][i] \in Sendable
<1> DEFINE q == socket[Filter]
           Holds(s) == \A i \in 1 .. Len(s) : s[i] \in Sendable
<1>1. q \in Seq(Seq(Values)) /\ Holds(q) /\ DOMAIN socket = Processes /\ ProcessTypeOK
  BY SocketHolds, FilterParts DEF FilterHolds, ProcessTypeOK
<1> SUFFICES socket'[Filter] = q \/ Holds(socket'[Filter])
  BY <1>1
<1>2. CASE (\E delta \in Deltas : Measure(delta)) \/ UNCHANGED vars
  BY <1>1, <1>2, ProcessNumbers DEF Measure, vars, processVars
<1>3. ASSUME NEW s \in Processes, socket' = [socket EXCEPT ![s] = Tail(socket[s])],
             socket[s] # <<>>
      PROVE  socket'[Filter] = q \/ Holds(socket'[Filter])
  <2>1. CASE s = Filter
    <3>1. Holds(Tail(q))
      BY <1>1, <1>3, <2>1, SocketTail
    <3>2. socket'[Filter] = Tail(q)
      BY <1>1, <1>3, <2>1
    <3> QED
      BY <3>1, <3>2
  <2>2. CASE s # Filter
    BY <1>1, <1>3, <2>2, FilterParts
  <2> QED
    BY <2>1, <2>2
<1>4. CASE Transport
  <2>1. ASSUME NEW s \in Processes, Lose(s) PROVE socket'[Filter] = q \/ Holds(socket'[Filter])
    BY <1>3, <2>1 DEF Lose
  <2>2. ASSUME NEW s \in Processes, Receive(s)
        PROVE  socket'[Filter] = q \/ Holds(socket'[Filter])
    BY <1>3, <2>2 DEF Receive
  <2> QED
    BY <1>4, <2>1, <2>2 DEF Transport
<1>5. ASSUME NEW s \in Processes, NEW out \in Seq(Values), Publish(s, out)
      PROVE  socket'[Filter] = q \/ Holds(socket'[Filter])
  <2>1. socket'[Filter] = q \/ (Encodable(out) /\ socket'[Filter] = Append(q, out))
    BY <1>1, <1>5, FilterParts, PublishEffect
  <2>2. CASE Encodable(out) /\ socket'[Filter] = Append(q, out)
    <3> DEFINE a == Append(q, out)
               S == Seq(Values)
    <3>1. q \in Seq(S) /\ out \in S /\ out \in Sendable
      BY <1>1, <2>2 DEF Sendable
    <3> HIDE DEF S, q
    <3>2. /\ Len(q) \in Nat /\ Len(a) = Len(q) + 1 /\ a[Len(q) + 1] = out
          /\ \A i \in 1 .. Len(q) : a[i] = q[i]
      BY <3>1
    <3> HIDE DEF a
    <3>3. Holds(a)
      <4>1. \A i \in 1 .. Len(q) : q[i] \in Sendable
        BY <1>1
      <4>2. \A i \in 1 .. Len(a) : i \in 1 .. Len(q) \/ i = Len(q) + 1
        BY <3>2
      <4> QED
        BY <3>1, <3>2, <4>1, <4>2
    <3> QED
      BY <2>2, <3>3 DEF a, q
  <2> QED
    BY <2>1, <2>2
<1>6. CASE ExpressionNext
  <2>1. CASE AggregateValue
    BY <2>1 DEF AggregateValue, NextValue
  <2>2. CASE PublishAggregated
    BY <1>5, <2>2, AggregatedType, ProcessNumbers DEF PublishAggregated
  <2>3. CASE \E i \in DOMAIN AggregateMappings : RunMapping(i)
    BY <2>3 DEF RunMapping, processVars
  <2>4. CASE FilterValue
    BY <2>4 DEF FilterValue, Fail, NextValue
  <2>5. CASE PublishFiltered
    BY <1>5, <2>5, FilterParts DEF PublishFiltered
  <2> QED
    BY <1>6, <2>1, <2>2, <2>3, <2>4, <2>5 DEF ExpressionNext
<1>7. CASE RateLimitNext
  <2>1. CASE PassValue \/ DropValue
    BY <2>1 DEF PassValue, DropValue, NextValue
  <2>2. CASE PublishLimited
    <3>1. result[Limiter] \in Seq(Values)
      BY <1>1, ProcessNumbers DEF ProcessTypeOK
    <3> QED
      BY <1>5, <2>2, <3>1, ProcessNumbers DEF PublishLimited
  <2> QED
    BY <1>7, <2>1, <2>2 DEF RateLimitNext
<1> QED
  BY <1>2, <1>4, <1>6, <1>7 DEF Next

LEMMA FilterHoldsStep ==
  ASSUME TypeInv, FilterHolds, [Next]_vars
  PROVE  FilterHolds'
<1>1. \A i \in 1 .. Len(socket'[Filter]) : Encodable(socket'[Filter][i])
  BY FilterSocketStep DEF Sendable
<1>2. Encodable(todo'[Filter]) /\ Encodable(result'[Filter])
  <2>1. CASE UNCHANGED <<Local(Filter), env[Filter]>>
    BY <2>1 DEF FilterHolds, Local
  <2>2. CASE Receive(Filter)
    <3> DEFINE h == Head(socket[Filter])
    <3>1. Encodable(h)
      <4>1. socket[Filter] \in Seq(Seq(Values)) /\ socket[Filter] # <<>>
        BY <2>2, SocketHolds DEF Receive
      <4>2. h \in Sendable
        BY <4>1, SocketHolds, SocketTail DEF FilterHolds
      <4> QED
        BY <4>2 DEF Sendable
    <3>2. \/ UNCHANGED <<todo, result>>
          \/ /\ todo' = [todo EXCEPT ![Filter] = h]
             /\ result' = [result EXCEPT ![Filter] = <<>>]
      BY <2>2, FilterParts, ReceiveEffect
    <3> DEFINE nothing == <<>>
    <3>3. Encodable(nothing)
      BY DEF Encodable, Range
    <3> HIDE DEF h
    <3> QED
      BY <3>1, <3>2, <3>3, FilterParts, Domains DEF FilterHolds
  <2>3. CASE FilterValue
    <3> DEFINE v == Head(todo[Filter])
               e == FilterEnv(v)
               out == IF FilterSkips(v.path, e) THEN <<>> ELSE <<v>>
               r == result[Filter]
    <3>1. /\ v \in Values /\ out \in Seq(Values)
          /\ Fail(Filter) \/ NextValue(Filter, out)
      BY <2>3, FilterValueEffect
    <3>2. CASE Fail(Filter)
      <4> DEFINE nothing == <<>>
      <4>1. Encodable(nothing)
        BY DEF Encodable, Range
      <4>2. todo' = [todo EXCEPT ![Filter] = nothing] /\ UNCHANGED result
        BY <3>2, FilterParts, FailEffect
      <4> HIDE DEF nothing
      <4> QED
        BY <4>1, <4>2, FilterParts, Domains DEF FilterHolds
    <3>3. CASE NextValue(Filter, out)
      <4> DEFINE y == Tail(todo[Filter])
                 z == r \o out
      <4>1. /\ todo[Filter] # <<>>
            /\ todo' = [todo EXCEPT ![Filter] = y] /\ result' = [result EXCEPT ![Filter] = z]
        BY <3>1, <3>3, FilterParts, NextValueEffect
      <4>2. Encodable(y) /\ v.content # "infinity"
        BY <4>1, FilterParts, EncodableParts DEF FilterHolds
      <4>3. z = r \/ z = Append(r, v)
        <5>1. \A s \in Seq(Values), x \in Values : s \o <<x>> = Append(s, x) /\ s \o <<>> = s
          OBVIOUS
        <5>2. out = <<>> \/ out = <<v>>
          OBVIOUS
        <5>3. r \in Seq(Values)
          BY FilterParts
        <5> HIDE DEF out, r, v
        <5> QED
          BY <3>1, <5>1, <5>2, <5>3 DEF out
      <4>4. Encodable(z)
        <5>1. \A s \in Seq(Values), x \in Values : Range(Append(s, x)) = Range(s) \cup {x}
          BY RangeIs, Zenon
        <5>2. r \in Seq(Values) /\ Encodable(r)
          BY FilterParts DEF FilterHolds
        <5> HIDE DEF z, r, v
        <5>3. Range(z) \subseteq Range(r) \cup {v}
          BY <3>1, <4>3, <5>1, <5>2
        <5> QED
          BY <4>2, <5>2, <5>3 DEF Encodable
      <4> HIDE DEF y, z
      <4> QED
        BY <4>1, <4>2, <4>4, FilterParts, Domains DEF FilterHolds
    <3> QED
      BY <3>1, <3>2, <3>3
  <2>4. CASE PublishFiltered
    BY <2>4 DEF PublishFiltered, Publish, FilterHolds
  <2> QED
    BY <2>1, <2>2, <2>3, <2>4, StepsOf
<1> QED
  BY <1>1, <1>2 DEF FilterHolds

LEMMA FilterStays ==
  ASSUME FilterInv, UNCHANGED <<Local(Filter), env[Filter]>>
  PROVE  FilterInv'
<1>1. UNCHANGED <<busy[Filter], todo[Filter], result[Filter], heard[Filter],
                  looked[Filter], told[Filter], env[Filter]>>
  BY DEF Local
<1>2. VerdictsKept
  BY <1>1, VerdictsKeptUnlooked
<1>3. TurnsInv(Filter)'
  BY <1>1 DEF FilterInv, TurnsInv, LookedAt, Triggers
<1>4. busy'[Filter] => FilteringInv'
  BY <1>1, <1>2 DEF FilterInv, FilteringInv, VerdictsKept
<1>5. \A i \in DOMAIN told[Filter] : Judged(i)'
  BY <1>1, <1>2, JudgedAll, JudgedStays DEF FilterInv
<1>6. FilterSafe' /\ FilterLossless'
  BY <1>1, <1>5 DEF FilterSafe, FilterLossless, Judged
<1> QED
  BY <1>3, <1>4, <1>6 DEF FilterInv

LEMMA FilterStep ==
  ASSUME TypeInv, FilterInv, FilterHolds, [Next]_vars
  PROVE  FilterInv' /\ FilterHolds'
<1>1. FilterHolds'
  BY FilterHoldsStep
<1> QED
  BY <1>1, StepsOf, FilterStays, ReceiveFilterKeeps, FilterValueKeeps, PublishFilteredKeeps

(* Nothing has been looked at: there is nothing to read. *)
LEMMA TurnsInit ==
  ASSUME Init, NEW s \in {Aggregator, Filter}
  PROVE  TurnsInv(s)
<1>1. /\ env[s] = <<>> /\ looked[s] = <<>> /\ heard[s] = <<>> /\ told[s] = <<>> /\ ~busy[s]
  BY ProcessNumbers DEF Init, ExpressionInit, ProcessInit
<1>2. DOMAIN LookedAt(s, 0) = {}
  BY DEF LookedAt, LastOf, TurnsOf
<1>3. DOMAIN env[s] = {} /\ Len(looked[s]) = 0
  BY <1>1
<1>4. Agrees(env[s], LookedAt(s, 0))
  BY <1>2, <1>3 DEF Agrees
<1> QED
  BY <1>1, <1>3, <1>4 DEF TurnsInv

LEMMA FilterInit == Init => FilterInv /\ FilterHolds
<1> SUFFICES ASSUME Init PROVE FilterInv /\ FilterHolds
  OBVIOUS
<1>1. /\ socket[Filter] = <<>> /\ ~busy[Filter] /\ todo[Filter] = <<>>
      /\ result[Filter] = <<>> /\ told[Filter] = <<>>
  BY ProcessNumbers DEF Init, ProcessInit
<1>2. FilterHolds
  BY <1>1 DEF FilterHolds, Encodable, Range
<1>3. FilterSafe /\ FilterLossless
  BY <1>1 DEF FilterSafe, FilterLossless
<1> QED
  BY <1>1, <1>2, <1>3, ProcessNumbers, TurnsInit DEF FilterInv

LEMMA FilterInvariant == Spec => [](FilterInv /\ FilterHolds)
<1>1. TypeInv /\ FilterInv /\ FilterHolds /\ [Next]_vars => (FilterInv /\ FilterHolds)'
  BY FilterStep
<1> QED
  BY <1>1, FilterInit, MappedTypeCorrect, PTL DEF Spec

(* ExpressionFilter: no value leaves the filter unless every expression on *)
(* its path was false, of the values looked at when its turn came.         *)
THEOREM FilterIsSafe == Spec => []FilterSafe
<1>1. FilterInv => FilterSafe
  BY DEF FilterInv
<1> QED
  BY <1>1, FilterInvariant, PTL

(* ExpressionFilter: a value that does not leave it was taken away by an   *)
(* expression, or went down with a delta an expression failed on.          *)
THEOREM FilterIsLossless == Spec => []FilterLossless
<1>1. FilterInv => FilterLossless
  BY DEF FilterInv
<1> QED
  BY <1>1, FilterInvariant, PTL

-----------------------------------------------------------------------------
(* The aggregate mapper. *)

(* What the mapper has computed so far has an output for the x-th mapping. *)
HasOutput(x) == \E i \in 1 .. Len(added) : added[i].path = AggregateMappings[x].path

(* The j-th turn ran, or will run, the x-th mapping. *)
Runs(j, x) == RanFor(j, x, AggregateMappings[x].path)

(* Every mapping run for the delta failed or has an output for its path.   *)
ComputedSoFar ==
  \A j \in TurnsFor(Len(heard[Aggregator])) : \A x \in DOMAIN AggregateMappings :
    Runs(j, x) =>
      \/ HasOutput(x)
      \/ OutputAt(j, x) = "error"
      \/ j = Len(looked[Aggregator]) /\ x \in pending

(* The delta it is mapping, as far as it has come: result is what it has   *)
(* looked at last, newest the time of one of them that triggers a mapping, *)
(* and no such one is later, pending is what the last one triggers and has *)
(* yet to run, and added is the first output for each path of all that was *)
(* run.                                                                    *)
AggregatingInv ==
  LET r == result[Aggregator]
      l == looked[Aggregator]
      n == Len(l)
      k == Len(heard[Aggregator])
  IN  /\ heard[Aggregator][k] = r \o todo[Aggregator]
      /\ Len(r) <= n
      /\ \A i \in 1 .. Len(r) :
           /\ r[i] \in Samples
           /\ l[n - Len(r) + i] = [delta |-> k, value |-> r[i]]
           /\ r[i].path \in Triggers(Aggregator) => r[i].time <= newest
      /\ \/ \E i \in 1 .. Len(r) :
              r[i].path \in Triggers(Aggregator) /\ r[i].time = newest
         \/ newest = 0 /\ pending = {} /\ added = <<>>
      /\ \A i \in pending : TurnOf(Aggregator, n, k, AggregateMappings[i])
      /\ \A i \in 1 .. Len(added) : ComputedFor(k, added[i])
      /\ ComputedSoFar

(* Turns are at values of deltas received. *)
TurnsInTime ==
  \A j \in DOMAIN looked[Aggregator] :
    looked[Aggregator][j].delta <= Len(heard[Aggregator])

AggregatorInv ==
  /\ TurnsInv(Aggregator) /\ TurnsInTime
  /\ busy[Aggregator] => AggregatingInv
  /\ AggregateFresh /\ MeasuredPassed

(* An expression computed an infinity at a turn of the k-th delta. *)
Infinite(k) ==
  \E j \in DOMAIN looked[Aggregator] : \E m \in Range(AggregateMappings) :
    /\ TurnOf(Aggregator, j, k, m)
    /\ runExpr(m, LookedAt(Aggregator, j)) = "infinity"

(* Nothing computed for the k-th delta is missing. *)
AllSent(k, delta, sent) ==
  \A j \in TurnsFor(k) : \A x \in DOMAIN AggregateMappings :
    Runs(j, x) =>
      \/ \E i \in Len(delta) + 1 .. Len(sent) : sent[i].path = AggregateMappings[x].path
      \/ OutputAt(j, x) = "error"

(* AggregateFresh and MeasuredPassed, of the k-th delta. *)
Added(k) ==
  LET delta == heard[Aggregator][k]
      sent == told[Aggregator][k]
  IN  /\ LookedThrough(k, delta)
      /\ \A i \in Len(delta) + 1 .. Len(sent) :
           /\ ComputedFor(k, sent[i])
           /\ \E w \in Range(delta) :
                w.path \in Triggers(Aggregator) /\ w.time = sent[i].time
           /\ \A w \in Range(delta) :
                w.path \in Triggers(Aggregator) => w.time <= sent[i].time
      /\ sent # <<>> => AllSent(k, delta, sent)
      /\ IsPrefix(delta, sent) \/ Infinite(k)

LEMMA AddedAll ==
  AggregateFresh /\ MeasuredPassed <=> \A k \in DOMAIN told[Aggregator] : Added(k)
BY DEF AggregateFresh, MeasuredPassed, Added, Infinite, AllSent, Runs

TurnsKept ==
  /\ \A k, v : ComputedFor(k, v) => ComputedFor(k, v)'
  /\ \A k : \A delta \in Seq(Values) : LookedThrough(k, delta) => LookedThrough(k, delta)'
  /\ \A k : Infinite(k) => Infinite(k)'
  /\ \A k \in DOMAIN told[Aggregator] : \A delta, sent :
       AllSent(k, delta, sent) => AllSent(k, delta, sent)'

LEMMA AddedStays ==
  ASSUME NEW k \in DOMAIN told[Aggregator], Added(k), TurnsKept, heard[Aggregator][k] \in Seq(Values),
         told'[Aggregator][k] = told[Aggregator][k],
         heard'[Aggregator][k] = heard[Aggregator][k]
  PROVE  Added(k)'
<1>1. LookedThrough(k, heard[Aggregator][k])'
  <2>1. PICK delta : delta = heard[Aggregator][k]
    OBVIOUS
  <2>2. LookedThrough(k, delta)'
    BY <2>1 DEF Added, TurnsKept
  <2>3. heard'[Aggregator][k] = delta
    BY <2>1
  <2> QED
    BY <2>2, <2>3, Zenon DEF LookedThrough
<1>2. Infinite(k) => Infinite(k)'
  BY DEF TurnsKept
<1> DEFINE delta == heard[Aggregator][k]
           sent == told[Aggregator][k]
<1>3. ASSUME NEW i \in Len(delta) + 1 .. Len(sent)
      PROVE  /\ ComputedFor(k, told[Aggregator][k][i])'
             /\ \E w \in Range(delta) :
                  w.path \in Triggers(Aggregator) /\ w.time = sent[i].time
             /\ \A w \in Range(delta) :
                  w.path \in Triggers(Aggregator) => w.time <= sent[i].time
  <2>1. PICK v : v = sent[i]
    OBVIOUS
  <2>2. ComputedFor(k, v)'
    BY <1>3, <2>1 DEF Added, TurnsKept
  <2>3. ComputedFor(k, told[Aggregator][k][i])'
    BY <2>1, <2>2 DEF ComputedFor
  <2> QED
    BY <1>3, <2>3 DEF Added
<1>4. told[Aggregator][k] # <<>> =>
        AllSent(k, heard[Aggregator][k], told[Aggregator][k])'
  <2> SUFFICES ASSUME told[Aggregator][k] # <<>>
               PROVE  AllSent(k, heard[Aggregator][k], told[Aggregator][k])'
    OBVIOUS
  <2>1. PICK d, s : d = delta /\ s = sent
    OBVIOUS
  <2>2. AllSent(k, d, s)
    BY <2>1 DEF Added
  <2>3. AllSent(k, d, s)'
    BY <2>2 DEF TurnsKept
  <2> QED
    BY <2>1, <2>3 DEF AllSent
<1> QED
  BY <1>1, <1>2, <1>3, <1>4 DEF Added, Triggers

LEMMA TurnsKeptUnlooked ==
  ASSUME UNCHANGED looked[Aggregator]
  PROVE  TurnsKept
<1>1. \A k, v : ComputedFor(k, v) => ComputedFor(k, v)'
  BY DEF ComputedFor, TurnsFor, RanFor, OutputAt, LookedAt, Triggers
<1>2. \A k : \A delta \in Seq(Values) : LookedThrough(k, delta) => LookedThrough(k, delta)'
  BY DEF LookedThrough
<1>3. \A k : Infinite(k) => Infinite(k)'
  BY DEF Infinite, TurnOf, LookedAt, Triggers
<1>4. \A k, delta, sent : AllSent(k, delta, sent) => AllSent(k, delta, sent)'
  BY DEF AllSent, Runs, TurnsFor, RanFor, OutputAt, LookedAt, Triggers
<1> QED
  BY <1>1, <1>2, <1>3, <1>4 DEF TurnsKept

(* Another turn leaves those before it as they were. *)
LEMMA OldTurns ==
  ASSUME NEW X, NEW x \in X, looked[Aggregator] \in Seq(X),
         looked'[Aggregator] = Append(looked[Aggregator], x),
         NEW j \in DOMAIN looked[Aggregator]
  PROVE  /\ j \in DOMAIN looked'[Aggregator]
         /\ looked'[Aggregator][j] = looked[Aggregator][j]
         /\ LookedAt(Aggregator, j)' = LookedAt(Aggregator, j)
         /\ \A k, m : TurnOf(Aggregator, j, k, m) <=> TurnOf(Aggregator, j, k, m)'
         /\ \A k : j \in TurnsFor(k) <=> j \in TurnsFor(k)'
         /\ \A y, p : RanFor(j, y, p) <=> RanFor(j, y, p)'
         /\ \A y : OutputAt(j, y)' = OutputAt(j, y)
<1>1. /\ j \in 0 .. Len(looked[Aggregator]) /\ j \in DOMAIN looked'[Aggregator]
      /\ looked'[Aggregator][j] = looked[Aggregator][j]
  OBVIOUS
<1>2. LookedAt(Aggregator, j)' = LookedAt(Aggregator, j)
  BY <1>1, ProcessNumbers, TurnsBefore
<1>3. \A k, m : TurnOf(Aggregator, j, k, m) <=> TurnOf(Aggregator, j, k, m)'
  BY <1>1 DEF TurnOf
<1>4. \A k : j \in TurnsFor(k) <=> j \in TurnsFor(k)'
  BY <1>1 DEF TurnsFor
<1>5. \A y, p : RanFor(j, y, p) <=> RanFor(j, y, p)'
  BY <1>1 DEF RanFor
<1>6. \A y : OutputAt(j, y)' = OutputAt(j, y)
  BY <1>2 DEF OutputAt
<1> QED
  BY <1>1, <1>2, <1>3, <1>4, <1>5, <1>6

LEMMA TurnsKeptLooked ==
  ASSUME NEW X, NEW x \in X, looked[Aggregator] \in Seq(X),
         looked'[Aggregator] = Append(looked[Aggregator], x),
         x.delta \notin DOMAIN told[Aggregator]
  PROVE  TurnsKept
<1> DEFINE q == looked[Aggregator]
           l == looked'[Aggregator]
           n == Len(q)
<1>1. /\ n \in Nat /\ Len(l) = n + 1 /\ DOMAIN q = 1 .. n /\ DOMAIN l = 1 .. n + 1
      /\ \A i \in 1 .. n : l[i] = q[i]
  OBVIOUS
<1>2. ASSUME NEW j \in DOMAIN q
      PROVE  /\ j \in DOMAIN l /\ l[j] = q[j]
             /\ LookedAt(Aggregator, j)' = LookedAt(Aggregator, j)
             /\ \A k, m : TurnOf(Aggregator, j, k, m) <=> TurnOf(Aggregator, j, k, m)'
             /\ \A k : j \in TurnsFor(k) <=> j \in TurnsFor(k)'
             /\ \A y, p : RanFor(j, y, p) <=> RanFor(j, y, p)'
             /\ \A y : OutputAt(j, y)' = OutputAt(j, y)
  BY <1>2, OldTurns
<1> HIDE DEF l, q
<1>3. ASSUME NEW k, NEW v, ComputedFor(k, v) PROVE ComputedFor(k, v)'
  <2>1. PICK j \in TurnsFor(k), y \in DOMAIN AggregateMappings :
          /\ RanFor(j, y, v.path)
          /\ v.content = OutputAt(j, y)
          /\ v.from = ReadBy(AggregateMappings[y], LookedAt(Aggregator, j))
          /\ \A i \in TurnsFor(k) : \A z \in DOMAIN AggregateMappings :
               (i < j \/ (i = j /\ z < y)) /\ RanFor(i, z, v.path) => OutputAt(i, z) = "error"
    BY <1>3 DEF ComputedFor
  <2>2. j \in DOMAIN q
    BY <2>1 DEF TurnsFor, q
  <2>3. j \in TurnsFor(k)' /\ RanFor(j, y, v.path)' /\ OutputAt(j, y)' = OutputAt(j, y)
    BY <1>2, <2>1, <2>2
  <2>4. v.from = ReadBy(AggregateMappings[y], LookedAt(Aggregator, j))'
    BY <1>2, <2>1, <2>2 DEF ReadBy
  <2>5. ASSUME NEW i \in TurnsFor(k)', NEW z \in DOMAIN AggregateMappings,
               i < j \/ (i = j /\ z < y), RanFor(i, z, v.path)'
        PROVE  OutputAt(i, z)' = "error"
    <3>1. i \in DOMAIN l
      BY DEF TurnsFor, l
    <3>2. i \in DOMAIN q
      BY <1>1, <2>2, <2>5, <3>1
    <3>3. i \in TurnsFor(k) /\ RanFor(i, z, v.path) /\ OutputAt(i, z)' = OutputAt(i, z)
      BY <1>2, <2>5, <3>2
    <3> QED
      BY <2>1, <2>5, <3>3
  <2>6. v.content = OutputAt(j, y)'
    BY <2>1, <2>3
  <2> QED
    BY <2>3, <2>4, <2>5, <2>6 DEF ComputedFor
<1>4. ASSUME NEW k, NEW delta \in Seq(Values), LookedThrough(k, delta)
      PROVE  LookedThrough(k, delta)'
  <2>1. PICK g \in 0 .. n - Len(delta) :
          \A i \in DOMAIN delta : q[g + i] = [delta |-> k, value |-> delta[i]]
    BY <1>4 DEF LookedThrough, q
  <2>2. DOMAIN delta = 1 .. Len(delta) /\ Len(delta) \in Nat
    OBVIOUS
  <2>3. g \in 0 .. Len(l) - Len(delta)
    BY <1>1, <2>2
  <2>4. \A i \in DOMAIN delta : l[g + i] = [delta |-> k, value |-> delta[i]]
    <3>1. \A i \in DOMAIN delta : g + i \in 1 .. n
      BY <1>1, <2>2
    <3> QED
      BY <1>1, <2>1, <3>1
  <2> QED
    BY <2>3, <2>4 DEF LookedThrough, l
<1>5. ASSUME NEW k, Infinite(k) PROVE Infinite(k)'
  <2>1. PICK j \in DOMAIN q, m \in Range(AggregateMappings) :
          /\ TurnOf(Aggregator, j, k, m)
          /\ runExpr(m, LookedAt(Aggregator, j)) = "infinity"
    BY <1>5 DEF Infinite, q
  <2> QED
    BY <1>2, <2>1 DEF Infinite, l
<1>6. ASSUME NEW k \in DOMAIN told[Aggregator], NEW delta, NEW sent,
             AllSent(k, delta, sent)
      PROVE  AllSent(k, delta, sent)'
  <2> SUFFICES ASSUME NEW j \in TurnsFor(k)', NEW y \in DOMAIN AggregateMappings,
                      Runs(j, y)'
               PROVE  \/ \E i \in Len(delta) + 1 .. Len(sent) :
                           sent[i].path = AggregateMappings[y].path
                      \/ OutputAt(j, y)' = "error"
    BY DEF AllSent
  <2>1. j \in DOMAIN l /\ l[j].delta = k
    BY DEF TurnsFor, l
  <2>2. j \in DOMAIN q
    <3>1. j # n + 1
      BY <2>1 DEF l, q
    <3> QED
      BY <1>1, <2>1, <3>1
  <2>3. j \in TurnsFor(k) /\ Runs(j, y) /\ OutputAt(j, y)' = OutputAt(j, y)
    BY <1>2, <2>2 DEF Runs
  <2> QED
    BY <1>6, <2>3 DEF AllSent
<1> QED
  BY <1>3, <1>4, <1>5, <1>6 DEF TurnsKept

(* The mapper's sequences, with their lengths. *)
LEMMA AggregatorParts ==
  ASSUME TypeInv
  PROVE  /\ ProcessTypeOK /\ Aggregator \in Processes
         /\ heard[Aggregator] \in Seq(Seq(Values)) /\ told[Aggregator] \in Seq(Seq(Values))
         /\ DOMAIN told[Aggregator] = 1 .. Len(told[Aggregator])
         /\ Len(told[Aggregator]) \in Nat /\ Len(heard[Aggregator]) \in Nat
         /\ \A i \in 1 .. Len(heard[Aggregator]) : heard[Aggregator][i] \in Seq(Values)
         /\ todo[Aggregator] \in Seq(Values) /\ todo[Aggregator] \in Seq(Samples)
         /\ result[Aggregator] \in Seq(Values)
<1>1. ProcessTypeOK /\ Aggregator \in Processes
  BY ProcessNumbers DEF TypeInv
<1>2. heard[Aggregator] \in Seq(Seq(Values)) /\ told[Aggregator] \in Seq(Seq(Values))
  BY <1>1 DEF ProcessTypeOK
<1>3. \A q \in Seq(Seq(Values)) :
        /\ DOMAIN q = 1 .. Len(q) /\ Len(q) \in Nat
        /\ \A i \in 1 .. Len(q) : q[i] \in Seq(Values)
  OBVIOUS
<1>4. /\ todo[Aggregator] \in Seq(Values) /\ result[Aggregator] \in Seq(Values)
      /\ todo[Aggregator] \in Seq(Samples)
  BY <1>1 DEF ProcessTypeOK, TypeInv, SamplesFirst
<1> QED
  BY <1>1, <1>2, <1>3, <1>4, Zenon

(* The head of what is to do goes to the end of what is done. *)
LEMMA MovesOn ==
  ASSUME NEW X, NEW r \in Seq(X), NEW t \in Seq(X), t # <<>>
  PROVE  r \o t = (r \o <<Head(t)>>) \o Tail(t)
<1> DEFINE a == r \o <<Head(t)>>
           b == a \o Tail(t)
           c == r \o t
<1>1. /\ Len(r) \in Nat /\ Len(t) \in Nat /\ Len(t) > 0 /\ Head(t) \in X /\ Head(t) = t[1]
      /\ Tail(t) \in Seq(X) /\ Len(Tail(t)) = Len(t) - 1
      /\ \A i \in 1 .. Len(t) - 1 : Tail(t)[i] = t[i + 1]
  OBVIOUS
<1>2. /\ a \in Seq(X) /\ Len(a) = Len(r) + 1 /\ a[Len(r) + 1] = t[1]
      /\ \A i \in 1 .. Len(r) : a[i] = r[i]
  BY <1>1
<1> HIDE DEF a
<1>3. /\ b \in Seq(X) /\ Len(b) = Len(a) + (Len(t) - 1)
      /\ \A i \in 1 .. Len(b) : b[i] = IF i <= Len(a) THEN a[i] ELSE Tail(t)[i - Len(a)]
  <2> DEFINE y == Tail(t)
  <2>1. y \in Seq(X) /\ Len(y) = Len(t) - 1
    BY <1>1
  <2> HIDE DEF y
  <2> QED
    BY <1>2, <2>1, SMTT(60)
<1>4. /\ c \in Seq(X) /\ Len(c) = Len(r) + Len(t)
      /\ \A i \in 1 .. Len(c) : c[i] = IF i <= Len(r) THEN r[i] ELSE t[i - Len(r)]
  OBVIOUS
<1> HIDE DEF b, c
<1>5. ASSUME NEW i \in 1 .. Len(c) PROVE b[i] = c[i]
  <2> DEFINE m == Len(r)
             k == Len(t)
             y == Tail(t)
  <2>1. /\ m \in Nat /\ k \in Nat /\ k > 0 /\ Len(a) = m + 1 /\ Len(b) = m + k /\ Len(c) = m + k
        /\ i \in 1 .. m + k
    BY <1>1, <1>2, <1>3, <1>4
  <2>2. /\ a[m + 1] = t[1] /\ (\A h \in 1 .. m : a[h] = r[h])
        /\ \A h \in 1 .. k - 1 : y[h] = t[h + 1]
        /\ b[i] = IF i <= m + 1 THEN a[i] ELSE y[i - (m + 1)]
        /\ c[i] = IF i <= m THEN r[i] ELSE t[i - m]
    BY <1>1, <1>2, <1>3, <1>4, <2>1
  <2> HIDE DEF m, k, y
  <2>3. CASE i \in 1 .. m
    BY <2>1, <2>2, <2>3
  <2>4. CASE i = m + 1
    <3>1. i - m = 1
      BY <2>1, <2>4
    <3> QED
      BY <2>1, <2>2, <2>4, <3>1
  <2>5. CASE i - (m + 1) \in 1 .. k - 1
    <3>1. (i - (m + 1)) + 1 = i - m
      BY <2>1
    <3> QED
      BY <2>1, <2>2, <2>5, <3>1
  <2> QED
    BY <2>1, <2>3, <2>4, <2>5
<1>6. Len(b) = Len(c)
  BY <1>1, <1>2, <1>3, <1>4
<1>7. b = c
  BY <1>3, <1>4, <1>5, <1>6
<1> QED
  BY <1>7 DEF a, b, c

(* AggregateValue leaves what was last looked at to be read. *)
LEMMA AggregateReads ==
  ASSUME TypeInv, TurnsInv(Aggregator), AggregateValue
  PROVE  TurnsInv(Aggregator)' /\ TurnsKept
<1> DEFINE A == Aggregator
           v == Head(todo[A])
           x == [delta |-> Len(heard[A]), value |-> v]
           X == [delta : Nat, value : Values]
<1>1. <<v>> \in Seq(Values) /\ NextValue(A, <<v>>)
  <2>1. todo[A] # <<>>
    BY DEF AggregateValue, NextValue, Look
  <2>2. v \in Values
    BY <2>1, AggregatorParts, HeadTailType
  <2> QED
    BY <2>2 DEF AggregateValue
<1>2. /\ x \in X /\ looked[A] \in Seq(X) /\ looked'[A] = Append(looked[A], x)
      /\ Len(looked'[A]) = Len(looked[A]) + 1
  BY <1>1, ProcessNumbers, Turn
<1>3. UNCHANGED <<busy, heard, told>>
  BY <1>1 DEF NextValue
<1>4. x.value = v
  OBVIOUS
<1>5. env'[A] = IF v.path \in Triggers(A) THEN Learn(A, v) ELSE env[A]
  <2>1. v.path \in Triggers(A) <=> Triggered(AggregateMappings, v.path) # {}
    BY TriggersAre
  <2>2. env' = IF Triggered(AggregateMappings, v.path) = {} THEN env
               ELSE [env EXCEPT ![A] = Learn(A, v)]
    BY DEF AggregateValue
  <2> DEFINE l == Learn(A, v)
  <2> HIDE DEF l
  <2> QED
    BY <2>1, <2>2 DEF TypeInv, ExpressionTypeOK, l
<1>6. Agrees(env[A], LookedAt(A, Len(looked[A])))
  BY DEF TurnsInv
<1>10. x.delta \notin DOMAIN told[A]
  <2>1. busy[A]
    BY <1>1 DEF NextValue, Look
  <2> QED
    BY <2>1, AggregatorParts DEF TurnsInv
<1> HIDE DEF x, X
<1>7. Agrees(IF x.value.path \in Triggers(A) THEN Learn(A, x.value) ELSE env[A],
             LastOf(Append(looked[A], x), Len(looked[A]) + 1, Triggers(A)))
  BY <1>2, <1>6, NextTurn
<1>8. Agrees(env'[A], LastOf(looked'[A], Len(looked'[A]), Triggers(A)))
  BY <1>2, <1>4, <1>5, <1>7
<1>9. Agrees(env[A], LookedAt(A, Len(looked[A])))'
  BY <1>8 DEF LookedAt, Triggers
<1> QED
  BY <1>2, <1>3, <1>9, <1>10, TurnsKeptLooked DEF TurnsInv

(* The deltas told before are as they were. *)
LEMMA AddedStaysAll ==
  ASSUME TypeInv, AggregatorInv, TurnsKept, UNCHANGED told[Aggregator],
         \A i \in 1 .. Len(heard[Aggregator]) : heard'[Aggregator][i] = heard[Aggregator][i]
  PROVE  AggregateFresh' /\ MeasuredPassed'
<1>1. Len(told[Aggregator]) <= Len(heard[Aggregator])
  BY AggregatorParts DEF AggregatorInv, TurnsInv
<1>2. ASSUME NEW k \in DOMAIN told[Aggregator] PROVE Added(k)'
  <2>1. k \in 1 .. Len(heard[Aggregator])
    <3>1. /\ Len(told[Aggregator]) \in Nat /\ Len(heard[Aggregator]) \in Nat
          /\ k \in 1 .. Len(told[Aggregator])
      BY AggregatorParts
    <3> QED
      BY <1>1, <3>1
  <2>2. Added(k) /\ heard[Aggregator][k] \in Seq(Values)
    BY <2>1, AddedAll, AggregatorParts DEF AggregatorInv
  <2> QED
    BY <2>1, <2>2, AddedStays
<1>3. \A k \in DOMAIN told'[Aggregator] : Added(k)'
  BY <1>2
<1> QED
  BY <1>3 DEF AggregateFresh, MeasuredPassed, Added, Infinite, AllSent, Runs

(* The mappings a value triggers are pending before they are run. *)
LEMMA AggregateValueComputes ==
  ASSUME TypeInv, AggregatorInv, AggregateValue
  PROVE  ComputedSoFar' /\ TurnsInTime'
<1> DEFINE A == Aggregator
           v == Head(todo[A])
           n == Len(looked[A])
           x == [delta |-> Len(heard[A]), value |-> v]
           X == [delta : Nat, value : Values]
<1>0. PICK k : k = Len(heard[A])
  OBVIOUS
<1>1. <<v>> \in Seq(Values) /\ NextValue(A, <<v>>)
  <2>1. todo[A] # <<>>
    BY DEF AggregateValue, NextValue, Look
  <2>2. v \in Values
    BY <2>1, AggregatorParts, HeadTailType
  <2> QED
    BY <2>2 DEF AggregateValue
<1>2. /\ x \in X /\ looked[A] \in Seq(X) /\ looked'[A] = Append(looked[A], x)
      /\ n \in Nat /\ Len(looked'[A]) = n + 1 /\ looked'[A][n + 1] = x
      /\ \A i \in 1 .. n : looked'[A][i] = looked[A][i]
  BY <1>1, ProcessNumbers, Turn
<1>3. busy[A] /\ UNCHANGED <<heard, added>> /\ pending = {}
      /\ pending' = Triggered(AggregateMappings, v.path)
  BY <1>1 DEF AggregateValue, NextValue, Look
<1>4. ComputedSoFar /\ TurnsInTime /\ k \in Nat
  BY <1>0, <1>3, AggregatorParts DEF AggregatorInv, AggregatingInv
<1>5. x.delta = k /\ x.value = v
  BY <1>0
<1> HIDE DEF x, X, n, v
<1>6. DOMAIN looked[A] = 1 .. n /\ DOMAIN looked'[A] = 1 .. n + 1
  BY <1>2 DEF n
<1>7. \A j \in DOMAIN looked'[A] : j \in DOMAIN looked[A] \/ j = n + 1
  BY <1>2, <1>6
<1>8. TurnsInTime'
  <2> SUFFICES ASSUME NEW j \in DOMAIN looked'[A] PROVE looked'[A][j].delta <= k
    BY <1>0, <1>3 DEF TurnsInTime
  <2>1. CASE j \in DOMAIN looked[A]
    BY <1>0, <1>2, <1>4, <1>6, <2>1 DEF TurnsInTime
  <2>2. CASE j = n + 1
    BY <1>2, <1>4, <1>5, <2>2
  <2> QED
    BY <1>7, <2>1, <2>2
<1>9. ASSUME NEW j \in TurnsFor(k)', NEW y \in DOMAIN AggregateMappings, Runs(j, y)'
      PROVE  HasOutput(y) \/ OutputAt(j, y)' = "error" \/ (j = n + 1 /\ y \in pending')
  <2>1. j \in DOMAIN looked'[A]
    BY DEF TurnsFor
  <2>2. CASE j = n + 1
    <3>1. v.path \in AggregateMappings[y].sources
      BY <1>2, <1>5, <1>9, <2>2 DEF Runs, RanFor
    <3> QED
      BY <1>3, <2>2, <3>1 DEF Triggered
  <2>3. CASE j \in DOMAIN looked[A]
    <3>1. j \in TurnsFor(k) /\ Runs(j, y) /\ OutputAt(j, y)' = OutputAt(j, y)
      BY <1>2, <1>9, <2>3, OldTurns DEF Runs
    <3> QED
      BY <1>0, <1>3, <1>4, <3>1 DEF ComputedSoFar
  <2> QED
    BY <1>7, <2>1, <2>2, <2>3
<1>10. ComputedSoFar'
  <2> SUFFICES ASSUME NEW j \in TurnsFor(Len(heard[A]))',
                      NEW y \in DOMAIN AggregateMappings, Runs(j, y)'
               PROVE  \/ HasOutput(y)'
                      \/ OutputAt(j, y)' = "error"
                      \/ j = Len(looked'[A]) /\ y \in pending'
    BY DEF ComputedSoFar
  <2>1. j \in TurnsFor(k)'
    BY <1>0, <1>3 DEF TurnsFor
  <2>2. HasOutput(y)' <=> HasOutput(y)
    BY <1>3 DEF HasOutput
  <2> QED
    BY <1>2, <1>9, <2>1, <2>2
<1> QED
  BY <1>8, <1>10

LEMMA AggregateValueKeeps ==
  ASSUME TypeInv, AggregatorInv, AggregateValue
  PROVE  AggregatorInv'
<1> DEFINE A == Aggregator
           t == todo[A]
           v == Head(t)
           r == result[A]
           m == Len(r)
           l == looked'[A]
           z == r \o <<v>>
           y == Tail(t)
<1>0. PICK k, n : k = Len(heard[A]) /\ n = Len(looked[A])
  OBVIOUS
<1>1. t # <<>> /\ v \in Samples /\ v \in Values /\ <<v>> \in Seq(Values)
      /\ NextValue(A, <<v>>)
  <2>1. todo[A] # <<>>
    BY DEF AggregateValue, NextValue, Look
  <2>2. v \in Samples
    BY <2>1, AggregatorParts, HeadTailType
  <2> QED
    BY <2>1, <2>2, SamplesAreValues DEF AggregateValue
<1>2. /\ busy[A] /\ todo' = [todo EXCEPT ![A] = y] /\ result' = [result EXCEPT ![A] = z]
      /\ UNCHANGED <<busy, heard, told>>
  BY <1>1, AggregatorParts, NextValueEffect
<1>3. /\ n \in Nat /\ Len(l) = n + 1 /\ l[n + 1] = [delta |-> k, value |-> v]
      /\ \A i \in 1 .. n : l[i] = looked[A][i]
  BY <1>0, <1>1, AggregatorParts, Turn
<1>4. TurnsInv(A)' /\ TurnsKept
  BY AggregateReads DEF AggregatorInv
<1>5. AggregateFresh' /\ MeasuredPassed'
  BY <1>2, <1>4, AddedStaysAll
<1>6. /\ heard[A][k] = r \o t /\ m <= n
      /\ \A i \in 1 .. m :
           /\ r[i] \in Samples /\ looked[A][n - m + i] = [delta |-> k, value |-> r[i]]
           /\ r[i].path \in Triggers(A) => r[i].time <= newest
      /\ \/ \E i \in 1 .. m : r[i].path \in Triggers(A) /\ r[i].time = newest
         \/ newest = 0 /\ added = <<>>
      /\ \A i \in 1 .. Len(added) : ComputedFor(k, added[i])
  BY <1>0, <1>2, Zenon DEF AggregatorInv, AggregatingInv
<1>7. /\ m \in Nat /\ Len(z) = m + 1 /\ z[m + 1] = v /\ \A i \in 1 .. m : z[i] = r[i]
  BY <1>1, AggregatorParts
<1>8. heard[A][k] = z \o y
  BY <1>1, <1>6, AggregatorParts, MovesOn
<1>9. /\ pending' = Triggered(AggregateMappings, v.path) /\ UNCHANGED added
      /\ newest' = IF pending' = {} THEN newest ELSE Larger(newest, v.time)
      /\ v.path \in Triggers(A) <=> pending' # {}
  BY TriggersAre DEF AggregateValue
<1>10. todo'[A] = y /\ result'[A] = z
  <2> HIDE DEF y, z
  <2> QED
    BY <1>2, AggregatorParts, Domains
<1>11. newest \in Nat /\ v.time \in Nat /\ \A i \in 1 .. m : r[i].time \in Nat
  <2>1. newest \in Nat
    BY MappedAssumption DEF TypeInv, ExpressionTypeOK
  <2>2. \A i \in 1 .. m : r[i] \in Values
    BY AggregatorParts
  <2> QED
    BY <1>1, <2>1, <2>2, ValueParts
<1> HIDE DEF y, z, r, t, v, l, m
<1>12. \A i \in 1 .. m + 1 : i \in 1 .. m \/ i = m + 1
  BY <1>7
<1>13. newest' \in Nat /\ newest <= newest' /\ (pending' # {} => v.time <= newest')
       /\ (newest' = newest \/ newest' = v.time)
  BY <1>9, <1>11 DEF Larger
<1>14. m + 1 <= n + 1
  BY <1>3, <1>6, <1>7
<1>15. ASSUME NEW i \in 1 .. m + 1
       PROVE  /\ z[i] \in Samples
              /\ l[(n + 1) - (m + 1) + i] = [delta |-> k, value |-> z[i]]
              /\ z[i].path \in Triggers(A) => z[i].time <= newest'
  <2>1. CASE i = m + 1
    <3>1. (n + 1) - (m + 1) + i = n + 1
      BY <1>3, <1>7, <2>1
    <3> QED
      BY <1>1, <1>3, <1>7, <1>9, <1>13, <2>1, <3>1
  <2>2. CASE i \in 1 .. m
    <3>1. (n + 1) - (m + 1) + i = n - m + i /\ n - m + i \in 1 .. n
      BY <1>3, <1>6, <1>7, <2>2, SMTT(60)
    <3>2. r[i].path \in Triggers(A) => r[i].time <= newest'
      <4> SUFFICES ASSUME r[i].path \in Triggers(A) PROVE r[i].time <= newest'
        OBVIOUS
      <4>1. r[i].time <= newest
        BY <1>6, <2>2
      <4> QED
        BY <1>11, <1>13, <2>2, <4>1
    <3> QED
      BY <1>3, <1>6, <1>7, <2>2, <3>1, <3>2, SMTT(60)
  <2> QED
    BY <1>12, <2>1, <2>2
<1>16. \/ \E i \in 1 .. m + 1 : z[i].path \in Triggers(A) /\ z[i].time = newest'
       \/ newest' = 0 /\ pending' = {} /\ added' = <<>>
  <2>1. m + 1 \in 1 .. m + 1 /\ \A i \in 1 .. m : i \in 1 .. m + 1
    BY <1>7
  <2>2. CASE newest' = v.time /\ pending' # {}
    BY <1>7, <1>9, <2>1, <2>2
  <2>3. CASE /\ newest' = newest
             /\ \E i \in 1 .. m : r[i].path \in Triggers(A) /\ r[i].time = newest
    BY <1>7, <2>1, <2>3
  <2>4. CASE newest' = newest /\ newest = 0 /\ added = <<>>
    <3>1. CASE pending' = {}
      BY <1>9, <2>4, <3>1
    <3>2. CASE pending' # {}
      <4>1. newest' = v.time
        BY <1>11, <1>13, <2>4, <3>2
      <4> QED
        BY <2>2, <3>2, <4>1
    <3> QED
      BY <3>1, <3>2
  <2>5. newest' = newest \/ (newest' = v.time /\ pending' # {})
    BY <1>9, <1>13
  <2> QED
    BY <1>6, <2>2, <2>3, <2>4, <2>5
<1>17. ASSUME NEW i \in pending' PROVE TurnOf(A, n + 1, k, AggregateMappings[i])'
  BY <1>3, <1>9, <1>17 DEF TurnOf, Triggered, l
<1>18. \A i \in 1 .. Len(added) : ComputedFor(k, added[i])'
  <2> SUFFICES ASSUME NEW i \in 1 .. Len(added) PROVE ComputedFor(k, added[i])'
    OBVIOUS
  <2>1. PICK o : o = added[i]
    OBVIOUS
  <2>2. ComputedFor(k, o)'
    BY <1>4, <1>6, <2>1 DEF TurnsKept
  <2> QED
    BY <1>9, <2>1, <2>2 DEF ComputedFor, RanFor
<1>20. ComputedSoFar' /\ TurnsInTime'
  BY AggregateValueComputes DEF AggregatorInv
<1>19. AggregatingInv'
  <2>1. /\ result'[A] = z /\ todo'[A] = y /\ heard'[A] = heard[A] /\ added' = added
        /\ Len(looked'[A]) = n + 1 /\ Len(heard'[A]) = k /\ Len(z) = m + 1
    BY <1>0, <1>2, <1>3, <1>7, <1>9, <1>10 DEF l
  <2>2. \A i \in 1 .. m + 1 :
          /\ z[i] \in Samples
          /\ looked'[A][(n + 1) - (m + 1) + i] = [delta |-> k, value |-> z[i]]
          /\ z[i].path \in Triggers(A) => z[i].time <= newest'
    BY <1>15 DEF l
  <2>3. \A i \in pending' : TurnOf(A, Len(looked[A]), Len(heard[A]), AggregateMappings[i])'
    BY <1>17, <2>1 DEF TurnOf
  <2>4. \A i \in 1 .. Len(added') : ComputedFor(Len(heard[A]), added[i])'
    BY <1>18, <2>1 DEF ComputedFor, TurnsFor, RanFor
  <2> QED
    BY <1>8, <1>14, <1>16, <1>20, <2>1, <2>2, <2>3, <2>4 DEF AggregatingInv, Triggers
<1> QED
  BY <1>4, <1>5, <1>19, <1>20 DEF AggregatorInv

LEMMA RunMappingKeeps ==
  ASSUME TypeInv, Waiting, AggregatorInv, NEW i \in DOMAIN AggregateMappings, RunMapping(i)
  PROVE  AggregatorInv'
<1> DEFINE A == Aggregator
           m == AggregateMappings[i]
           e == env[A]
           r == result[A]
<1>0. PICK k, n : k = Len(heard[A]) /\ n = Len(looked[A])
  OBVIOUS
<1>1. /\ i \in pending /\ pending' = pending \ {i}
      /\ UNCHANGED <<busy, todo, result, heard, looked, told, env, newest>>
  BY DEF RunMapping, processVars
<1>2. PICK o : o = [path |-> m.path, content |-> runExpr(m, e), from |-> ReadBy(m, e)]
  OBVIOUS
<1>3. \/ added' = added /\ (runExpr(m, e) = "error" \/ HasOutput(i))
      \/ added' = Append(added, o) /\ ~HasOutput(i)
  <2>1. added \in Seq(Outputs)
    BY DEF TypeInv, ExpressionTypeOK
  <2>2. HasOutput(i) <=> \E a \in Range(added) : a.path = m.path
    BY <2>1 DEF HasOutput, Range
  <2> QED
    BY <1>2, <2>2 DEF RunMapping
<1>4. busy[A] /\ AggregatingInv /\ r # <<>>
  BY <1>1 DEF Waiting, AggregatorInv, TypeInv, ExpressionTypeOK
<1>5. TurnsKept
  BY <1>1, TurnsKeptUnlooked
<1>6. TurnsInv(A)'
  BY <1>1 DEF AggregatorInv, TurnsInv, LookedAt, Triggers
<1>7. AggregateFresh' /\ MeasuredPassed'
  BY <1>1, <1>5, AddedStaysAll
<1>8. n \in DOMAIN looked[A]
  <2>1. looked[A] \in Seq([delta : Nat, value : Values])
    BY AggregatorParts DEF ProcessTypeOK
  <2>2. DOMAIN looked[A] = 1 .. n /\ n \in Nat
    BY <1>0, <2>1
  <2>3. Len(r) \in Nat /\ Len(r) > 0
    BY <1>4, AggregatorParts
  <2>4. Len(r) <= n
    BY <1>0, <1>4 DEF AggregatingInv
  <2> QED
    BY <2>2, <2>3, <2>4
<1>15. /\ runExpr(m, e) = OutputAt(n, i)
       /\ ReadBy(m, e) = ReadBy(m, LookedAt(A, n))
  <2>1. Agrees(e, LookedAt(A, n))
    BY <1>0 DEF AggregatorInv, TurnsInv
  <2> HIDE DEF e
  <2> QED
    BY <2>1, AgreeingReads DEF OutputAt
<1>16. n \in Nat /\ DOMAIN AggregateMappings \subseteq Int /\ DOMAIN looked[A] \subseteq Int
       /\ \A y \in pending : i <= y
  <2>1. looked[A] \in Seq([delta : Nat, value : Values])
    BY AggregatorParts DEF ProcessTypeOK
  <2>2. DOMAIN AggregateMappings \subseteq Int
    BY MappingsAre
  <2> QED
    BY <1>0, <2>1, <2>2 DEF RunMapping
<1>17. ComputedSoFar
  BY <1>4 DEF AggregatingInv
<1>9. ASSUME ~HasOutput(i) PROVE ComputedFor(k, o)
  <2>1. TurnOf(A, n, k, m)
    BY <1>0, <1>1, <1>4 DEF AggregatingInv
  <2>2. n \in TurnsFor(k) /\ RanFor(n, i, o.path)
    BY <1>2, <1>8, <2>1 DEF TurnsFor, RanFor, TurnOf
  <2>3. ASSUME NEW j \in TurnsFor(k), NEW y \in DOMAIN AggregateMappings,
               j < n \/ (j = n /\ y < i), RanFor(j, y, o.path)
        PROVE  OutputAt(j, y) = "error"
    <3>1. Runs(j, y) /\ AggregateMappings[y].path = m.path
      BY <1>2, <2>3 DEF Runs, RanFor
    <3>2. ~HasOutput(y)
      BY <1>9, <3>1 DEF HasOutput
    <3>3. ~(j = n /\ y \in pending)
      BY <1>16, <2>3
    <3> QED
      BY <1>0, <1>17, <3>1, <3>2, <3>3 DEF ComputedSoFar
  <2> QED
    BY <1>2, <1>15, <2>2, <2>3 DEF ComputedFor
<1>10. ASSUME NEW h \in 1 .. Len(added') PROVE ComputedFor(k, added'[h])
  <2>1. CASE added' = added
    BY <1>0, <1>4, <2>1 DEF AggregatingInv
  <2>2. CASE added' = Append(added, o) /\ ~HasOutput(i)
    <3>1. added \in Seq(Outputs)
      BY DEF TypeInv, ExpressionTypeOK
    <3>2. \/ h \in 1 .. Len(added) /\ added'[h] = added[h]
          \/ added'[h] = o
      BY <2>2, <3>1
    <3> QED
      BY <1>0, <1>4, <1>9, <2>2, <3>2 DEF AggregatingInv
  <2> QED
    BY <1>3, <2>1, <2>2, Zenon
<1>11. \A h \in 1 .. Len(added') : ComputedFor(Len(heard[A]), added[h])'
  <2> SUFFICES ASSUME NEW h \in 1 .. Len(added')
               PROVE  ComputedFor(Len(heard[A]), added[h])'
    OBVIOUS
  <2>1. PICK v : v = added'[h]
    OBVIOUS
  <2>2. ComputedFor(k, v)'
    BY <1>5, <1>10, <2>1 DEF TurnsKept
  <2>3. Len(heard'[A]) = k
    BY <1>0, <1>1
  <2> QED
    BY <2>1, <2>2, <2>3 DEF ComputedFor, TurnsFor
<1>12. \A h \in pending' : TurnOf(A, Len(looked[A]), Len(heard[A]), AggregateMappings[h])'
  BY <1>1, <1>4 DEF AggregatingInv, TurnOf
<1>13. \E h \in 1 .. Len(r) : r[h].path \in Triggers(A) /\ r[h].time = newest
  BY <1>1, <1>4 DEF AggregatingInv
<1>18. ComputedSoFar'
  <2>1. ASSUME NEW y, HasOutput(y) PROVE HasOutput(y)'
    <3>1. added \in Seq(Outputs)
      BY DEF TypeInv, ExpressionTypeOK
    <3>2. \A h \in 1 .. Len(added) : h \in 1 .. Len(added') /\ added'[h] = added[h]
      BY <1>3, <3>1
    <3> QED
      BY <2>1, <3>2 DEF HasOutput
  <2>2. HasOutput(i)' \/ OutputAt(n, i) = "error"
    <3>1. CASE added' = added /\ runExpr(m, e) = "error"
      BY <1>15, <3>1
    <3>2. CASE HasOutput(i)
      BY <2>1, <3>2
    <3>3. CASE added' = Append(added, o)
      <4>1. added \in Seq(Outputs)
        BY DEF TypeInv, ExpressionTypeOK
      <4>2. Len(added) + 1 \in 1 .. Len(added') /\ added'[Len(added) + 1] = o
        BY <3>3, <4>1
      <4>3. o.path = m.path
        BY <1>2
      <4> QED
        BY <4>2, <4>3 DEF HasOutput
    <3> QED
      BY <1>3, <3>1, <3>2, <3>3
  <2>3. ASSUME NEW j \in TurnsFor(k), NEW y \in DOMAIN AggregateMappings, Runs(j, y)
        PROVE  HasOutput(y)' \/ OutputAt(j, y) = "error" \/ (j = n /\ y \in pending')
    <3>1. HasOutput(y) \/ OutputAt(j, y) = "error" \/ (j = n /\ y \in pending)
      BY <1>0, <1>17, <2>3 DEF ComputedSoFar
    <3> QED
      BY <1>1, <2>1, <2>2, <3>1
  <2> QED
    BY <1>0, <1>1, <2>3
       DEF ComputedSoFar, Runs, TurnsFor, RanFor, OutputAt, LookedAt, Triggers
<1>14. AggregatingInv'
  BY <1>1, <1>4, <1>11, <1>12, <1>13, <1>18 DEF AggregatingInv, Triggers
<1>19. TurnsInTime'
  BY <1>1 DEF AggregatorInv, TurnsInTime
<1> QED
  BY <1>6, <1>7, <1>14, <1>19 DEF AggregatorInv

(* What is left of a delta when all has been looked at. *)
LEMMA EmptyRest ==
  ASSUME NEW X, NEW q \in Seq(X)
  PROVE  q \o <<>> = q
OBVIOUS

(* Where the outputs are in what the mapper returns. *)
LEMMA OutParts ==
  ASSUME TypeInv
  PROVE  LET r == result[Aggregator]
             out == r \o Aggregates
         IN  /\ Len(r) \in Nat /\ Len(added) \in Nat /\ Len(out) = Len(r) + Len(added)
             /\ DOMAIN out = 1 .. Len(out)
             /\ \A i \in 1 .. Len(r) : out[i] = r[i]
             /\ \A i \in 1 .. Len(added) :
                  /\ out[Len(r) + i].path = added[i].path
                  /\ out[Len(r) + i].content = added[i].content
                  /\ out[Len(r) + i].from = added[i].from
                  /\ out[Len(r) + i].time = newest
<1> DEFINE r == result[Aggregator]
           g == Aggregates
           out == r \o g
<1>1. r \in Seq(Values) /\ added \in Seq(Outputs)
  BY AggregatorParts DEF TypeInv, ExpressionTypeOK
<1>2. Len(r) \in Nat /\ Len(added) \in Nat
  BY <1>1
<1>3. /\ Len(g) = Len(added) /\ DOMAIN g = 1 .. Len(added)
      /\ \A i \in 1 .. Len(added) :
           /\ g[i].path = added[i].path /\ g[i].content = added[i].content
           /\ g[i].from = added[i].from /\ g[i].time = newest
  BY <1>2 DEF Aggregates
<1>4. g \in Seq(Values)
  <2>1. CASE r # <<>>
    BY <2>1, AggregatesType
  <2>2. CASE r = <<>>
    <3>1. added = <<>>
      BY <2>2 DEF TypeInv, ExpressionTypeOK
    <3>2. g = <<>>
      BY <3>1 DEF Aggregates
    <3> QED
      BY <3>2
  <2> QED
    BY <2>1, <2>2
<1> HIDE DEF r, g
<1>5. /\ Len(out) = Len(r) + Len(g) /\ DOMAIN out = 1 .. Len(out)
      /\ \A i \in 1 .. Len(r) : out[i] = r[i]
  BY <1>1, <1>4 DEF r
<1>6. \A i \in 1 .. Len(g) : out[Len(r) + i] = g[i]
  BY <1>1, <1>4 DEF r
<1> HIDE DEF out
<1>7. \A i \in 1 .. Len(added) :
        /\ out[Len(r) + i].path = added[i].path /\ out[Len(r) + i].content = added[i].content
        /\ out[Len(r) + i].from = added[i].from /\ out[Len(r) + i].time = newest
  BY <1>3, <1>6
<1> QED
  BY <1>2, <1>3, <1>5, <1>7 DEF out, r, g

(* What the mapper returns: everything it has looked at of the delta, then *)
(* what was computed at its turns, as new as the newest of those.          *)
Returned(k, r, out) ==
  /\ heard[Aggregator][k] = r /\ LookedThrough(k, r)
  /\ \A i \in Len(r) + 1 .. Len(out) :
       /\ ComputedFor(k, out[i])
       /\ \E w \in Range(r) : w.path \in Triggers(Aggregator) /\ w.time = out[i].time
       /\ \A w \in Range(r) : w.path \in Triggers(Aggregator) => w.time <= out[i].time
  /\ AllSent(k, r, out)
  /\ Encodable(out) => IsPrefix(r, out)
  /\ ~Encodable(out) => Infinite(k)

LEMMA InfiniteOutput ==
  ASSUME NEW k, NEW v, ComputedFor(k, v), v.content = "infinity"
  PROVE  Infinite(k)
<1>1. PICK j \in TurnsFor(k), x \in DOMAIN AggregateMappings :
        RanFor(j, x, v.path) /\ v.content = OutputAt(j, x)
  BY DEF ComputedFor
<1>2. AggregateMappings[x] \in Range(AggregateMappings)
  BY MappingsAre
<1>3. j \in DOMAIN looked[Aggregator] /\ TurnOf(Aggregator, j, k, AggregateMappings[x])
  BY <1>1 DEF TurnsFor, RanFor, TurnOf
<1> QED
  BY <1>1, <1>2, <1>3 DEF Infinite, OutputAt

LEMMA WhatIsReturned ==
  ASSUME TypeInv, busy[Aggregator], AggregatingInv, todo[Aggregator] = <<>>, pending = {},
         NEW k, k = Len(heard[Aggregator]),
         NEW r, r = result[Aggregator],
         NEW out, out = result[Aggregator] \o Aggregates
  PROVE  Returned(k, r, out)
<1> DEFINE A == Aggregator
           n == Len(looked[A])
           m == Len(r)
<1>1. /\ m \in Nat /\ Len(added) \in Nat /\ Len(out) = m + Len(added)
      /\ DOMAIN out = 1 .. Len(out)
      /\ \A i \in 1 .. m : out[i] = r[i]
      /\ \A i \in 1 .. Len(added) :
           /\ out[m + i].path = added[i].path
           /\ out[m + i].content = added[i].content
           /\ out[m + i].from = added[i].from
           /\ out[m + i].time = newest
  BY OutParts
<1>2. r \in Seq(Values)
  BY AggregatorParts
<1>3. DOMAIN r = 1 .. m
  BY <1>2
<1>4. heard[A][k] = r
  BY <1>2, EmptyRest DEF AggregatingInv
<1>5. n \in Nat /\ m <= n
  <2>1. looked[A] \in Seq([delta : Nat, value : Values])
    BY AggregatorParts DEF ProcessTypeOK
  <2> QED
    BY <2>1 DEF AggregatingInv
<1>6. \A i \in 1 .. m :
        /\ r[i] \in Samples
        /\ looked[A][n - m + i] = [delta |-> k, value |-> r[i]]
        /\ r[i].path \in Triggers(A) => r[i].time <= newest
  BY DEF AggregatingInv
<1>7. LookedThrough(k, r)
  <2>1. n - m \in 0 .. n - m
    BY <1>1, <1>5
  <2> QED
    BY <1>3, <1>6, <2>1 DEF LookedThrough
<1> HIDE DEF n, m
<1>8. \A i \in 1 .. Len(added) : ComputedFor(k, added[i])
  BY DEF AggregatingInv
<1>9. ASSUME NEW i \in m + 1 .. Len(out)
      PROVE  /\ i - m \in 1 .. Len(added) /\ ComputedFor(k, out[i])
             /\ out[i].content = added[i - m].content /\ out[i].time = newest
  <2>1. i - m \in 1 .. Len(added) /\ m + (i - m) = i
    BY <1>1
  <2>2. /\ out[i].path = added[i - m].path /\ out[i].content = added[i - m].content
        /\ out[i].from = added[i - m].from /\ out[i].time = newest
    BY <1>1, <2>1, ZenonT(60)
  <2>3. ComputedFor(k, added[i - m])
    BY <1>8, <2>1
  <2>4. ComputedFor(k, out[i])
    BY <2>2, <2>3 DEF ComputedFor
  <2> QED
    BY <2>1, <2>2, <2>4
<1>13. AllSent(k, r, out)
  <2> SUFFICES ASSUME NEW j \in TurnsFor(k), NEW x \in DOMAIN AggregateMappings, Runs(j, x)
               PROVE  \/ \E i \in m + 1 .. Len(out) : out[i].path = AggregateMappings[x].path
                      \/ OutputAt(j, x) = "error"
    BY DEF AllSent, m
  <2>1. HasOutput(x) \/ OutputAt(j, x) = "error"
    BY DEF AggregatingInv, ComputedSoFar
  <2>2. ASSUME HasOutput(x)
        PROVE  \E i \in m + 1 .. Len(out) : out[i].path = AggregateMappings[x].path
    <3>1. PICK h \in 1 .. Len(added) : added[h].path = AggregateMappings[x].path
      BY <2>2 DEF HasOutput
    <3>2. m + h \in m + 1 .. Len(out)
      BY <1>1
    <3>3. out[m + h].path = added[h].path
      BY <1>1
    <3> QED
      BY <3>1, <3>2, <3>3
  <2> QED
    BY <2>1, <2>2
<1>10. ASSUME NEW i \in m + 1 .. Len(out)
       PROVE  /\ \E w \in Range(r) :
                   w.path \in Triggers(A) /\ w.time = out[i].time
              /\ \A w \in Range(r) : w.path \in Triggers(A) => w.time <= out[i].time
  <2>1. added # <<>>
    BY <1>1
  <2>2. \E h \in 1 .. m : r[h].path \in Triggers(A) /\ r[h].time = newest
    BY <2>1 DEF AggregatingInv, m
  <2> QED
    BY <1>3, <1>6, <1>9, <2>2, ZenonT(60) DEF Range
<1>11. ASSUME Encodable(out) PROVE IsPrefix(r, out)
  <2>1. Len(r) <= Len(out)
    BY <1>1 DEF m
  <2>2. SubSeq(r, 1, m) = SubSeq(out, 1, m)
    BY <1>1
  <2> QED
    BY <2>1, <2>2 DEF IsPrefix, m
<1>12. ASSUME ~Encodable(out) PROVE Infinite(k)
  <2>1. PICK i \in 1 .. Len(out) : out[i].content = "infinity"
    BY <1>1, <1>12 DEF Encodable, Range
  <2>2. i \notin 1 .. m
    <3> SUFFICES ASSUME i \in 1 .. m PROVE FALSE
      OBVIOUS
    <3>1. r[i].content = "infinity" /\ r[i] \in Samples
      BY <1>1, <1>6, <2>1
    <3> QED
      BY <3>1, MappedAssumption DEF Samples
  <2>3. i \in m + 1 .. Len(out)
    BY <1>1, <2>2
  <2>4. ComputedFor(k, out[i])
    BY <1>9, <2>3
  <2> QED
    BY <2>1, <2>4, InfiniteOutput
<1> QED
  BY <1>4, <1>7, <1>9, <1>10, <1>11, <1>12, <1>13 DEF m, Returned

LEMMA PublishAggregatedKeeps ==
  ASSUME TypeInv, AggregatorInv, PublishAggregated
  PROVE  AggregatorInv'
<1> DEFINE A == Aggregator
           t == told[A]
<1>0. PICK k, r, out : /\ k = Len(heard[A]) /\ r = result[A]
                       /\ out = result[A] \o Aggregates
  OBVIOUS
<1> DEFINE sent == IF Encodable(out) THEN out ELSE <<>>
           a == Append(t, sent)
<1>1. out \in Seq(Values) /\ Publish(A, out) /\ UNCHANGED env /\ pending = {}
  BY <1>0, AggregatedType DEF PublishAggregated
<1>2. /\ busy[A] /\ todo[A] = <<>> /\ busy' = [busy EXCEPT ![A] = FALSE]
      /\ told' = [told EXCEPT ![A] = a]
      /\ UNCHANGED <<heard, looked>>
  BY <1>1, AggregatorParts, PublishEffect
<1>3. AggregatingInv /\ k = Len(t) + 1 /\ Len(t) \in Nat
  BY <1>0, <1>2, AggregatorParts DEF AggregatorInv, TurnsInv
<1>4. Returned(k, r, out)
  BY <1>0, <1>1, <1>2, <1>3, WhatIsReturned
<1>5. sent \in Seq(Values) /\ t \in Seq(Seq(Values))
  BY <1>1, AggregatorParts
<1>6. /\ DOMAIN a = 1 .. k /\ Len(a) = k /\ a[k] = sent
      /\ \A i \in 1 .. k : i = k \/ (i \in 1 .. Len(t) /\ a[i] = t[i])
  <2> DEFINE S == Seq(Values)
  <2>1. t \in Seq(S) /\ sent \in S
    BY <1>5
  <2> HIDE DEF S, t, sent
  <2>2. /\ DOMAIN a = 1 .. Len(t) + 1 /\ Len(a) = Len(t) + 1 /\ a[Len(t) + 1] = sent
        /\ \A i \in 1 .. Len(t) : a[i] = t[i]
    BY <2>1
  <2>3. \A i \in 1 .. k : i = k \/ i \in 1 .. Len(t)
    BY <1>3
  <2> HIDE DEF a
  <2> QED
    BY <1>3, <2>2, <2>3
<1> HIDE DEF a
<1>7. told'[A] = a /\ ~busy'[A] /\ heard'[A] = heard[A] /\ looked'[A] = looked[A]
  BY <1>2, AggregatorParts, Domains
<1>8. TurnsKept
  BY <1>7, TurnsKeptUnlooked
<1>9. LookedThrough(k, r)' /\ (Infinite(k) => Infinite(k)')
  BY <1>0, <1>4, <1>8, AggregatorParts DEF TurnsKept, Returned
<1>10. \A v : ComputedFor(k, v) => ComputedFor(k, v)'
  BY <1>8 DEF TurnsKept
<1>16. AllSent(k, r, out)'
  BY <1>4, <1>7 DEF Returned, AllSent, Runs, TurnsFor, RanFor, OutputAt, LookedAt, Triggers
<1>11. Len(r) \in Nat
  BY <1>0, AggregatorParts
<1>12. Added(k)'
  <2>1. CASE Encodable(out)
    <3>1. told'[A][k] = out /\ heard'[A][k] = r
      BY <1>4, <1>6, <1>7, <2>1 DEF Returned
    <3>2. ASSUME NEW i \in Len(r) + 1 .. Len(out) PROVE ComputedFor(k, told[A][k][i])'
      <4>1. PICK v : v = out[i]
        OBVIOUS
      <4>2. ComputedFor(k, v)'
        BY <1>4, <1>10, <4>1 DEF Returned
      <4> QED
        BY <3>1, <4>1, <4>2 DEF ComputedFor
    <3>3. LookedThrough(k, heard[A][k])'
      BY <1>9, <3>1, Zenon DEF LookedThrough
    <3>4. AllSent(k, heard[A][k], told[A][k])'
      BY <1>16, <3>1, Zenon DEF AllSent
    <3> QED
      BY <1>4, <2>1, <3>1, <3>2, <3>3, <3>4 DEF Added, Triggers, Returned
  <2>2. CASE ~Encodable(out)
    <3>1. told'[A][k] = <<>> /\ heard'[A][k] = r
      BY <1>4, <1>6, <1>7, <2>2 DEF Returned
    <3>2. LookedThrough(k, heard[A][k])'
      BY <1>9, <3>1, Zenon DEF LookedThrough
    <3>3. Len(r) + 1 .. Len(told'[A][k]) = {}
      BY <1>11, <3>1
    <3> QED
      BY <1>4, <1>9, <2>2, <3>1, <3>2, <3>3 DEF Added, Returned
  <2> QED
    BY <2>1, <2>2
<1>13. ASSUME NEW i \in 1 .. k PROVE Added(i)'
  <2>1. CASE i = k
    BY <1>12, <2>1
  <2>2. CASE i # k
    <3>1. i \in 1 .. Len(t) /\ told'[A][i] = told[A][i]
      BY <1>6, <1>7, <2>2
    <3>2. Added(i) /\ heard[A][i] \in Seq(Values)
      BY <1>0, <3>1, AddedAll, AggregatorParts DEF AggregatorInv
    <3> QED
      BY <1>7, <1>8, <3>1, <3>2, AddedStays
  <2> QED
    BY <2>1, <2>2
<1>14. AggregateFresh' /\ MeasuredPassed'
  <2>1. \A i \in DOMAIN told'[A] : Added(i)'
    BY <1>6, <1>7, <1>13
  <2> QED
    BY <2>1 DEF AggregateFresh, MeasuredPassed, Added, Infinite, AllSent, Runs
<1>15. TurnsInv(A)'
  <2>1. Agrees(env[A], LookedAt(A, Len(looked[A])))'
    BY <1>1, <1>7 DEF AggregatorInv, TurnsInv, LookedAt, Triggers
  <2> QED
    BY <1>0, <1>6, <1>7, <2>1 DEF TurnsInv
<1>17. TurnsInTime'
  BY <1>7 DEF AggregatorInv, TurnsInTime
<1> QED
  BY <1>7, <1>14, <1>15, <1>17 DEF AggregatorInv

LEMMA AggregatorStays ==
  ASSUME TypeInv, AggregatorInv,
         UNCHANGED <<Local(Aggregator), env[Aggregator], pending, added, newest>>
  PROVE  AggregatorInv'
<1> DEFINE A == Aggregator
<1>1. /\ UNCHANGED <<busy[A], todo[A], result[A], heard[A], looked[A], told[A], env[A]>>
      /\ UNCHANGED <<pending, added, newest>>
  BY DEF Local
<1>2. TurnsInv(A)'
  BY <1>1 DEF AggregatorInv, TurnsInv, LookedAt, Triggers
<1>3. AggregateFresh' /\ MeasuredPassed'
  BY <1>1, TurnsKeptUnlooked, AddedStaysAll
<1>4. ASSUME AggregatingInv PROVE AggregatingInv'
  <2>1. ASSUME NEW i \in 1 .. Len(added), ComputedFor(Len(heard[A]), added[i])
        PROVE  ComputedFor(Len(heard[A]), added[i])'
    BY <1>1, <2>1 DEF ComputedFor, TurnsFor, RanFor, OutputAt, LookedAt, Triggers
  <2>2. \A i \in pending' : TurnOf(A, Len(looked[A]), Len(heard[A]), AggregateMappings[i])'
    BY <1>1, <1>4 DEF AggregatingInv, TurnOf
  <2>3. \A i \in 1 .. Len(added') : ComputedFor(Len(heard[A]), added[i])'
    BY <1>1, <1>4, <2>1 DEF AggregatingInv
  <2>4. ComputedSoFar'
    BY <1>1, <1>4, SMTT(60)
       DEF AggregatingInv, ComputedSoFar, HasOutput, Runs, TurnsFor, RanFor, OutputAt,
           LookedAt, Triggers
  <2> QED
    BY <1>1, <1>4, <2>2, <2>3, <2>4 DEF AggregatingInv, Triggers
<1>5. TurnsInTime'
  BY <1>1 DEF AggregatorInv, TurnsInTime
<1> QED
  BY <1>1, <1>2, <1>3, <1>4, <1>5 DEF AggregatorInv

LEMMA ReceiveAggregatorKeeps ==
  ASSUME TypeInv, Waiting, AggregatorInv, Receive(Aggregator), UNCHANGED expressionVars
  PROVE  AggregatorInv'
<1> DEFINE A == Aggregator
           h == Head(socket[A])
           q == heard[A]
<1>1. /\ ~busy[A] /\ UNCHANGED <<looked, told, env, pending, added, newest>> /\ h \in Seq(Values)
      /\ \/ UNCHANGED <<busy, todo, result, heard>>
         \/ /\ busy' = [busy EXCEPT ![A] = TRUE]
            /\ todo' = [todo EXCEPT ![A] = h]
            /\ result' = [result EXCEPT ![A] = <<>>]
            /\ heard' = [heard EXCEPT ![A] = Append(q, h)]
  BY AggregatorParts, ReceiveEffect DEF expressionVars
<1> HIDE DEF h
<1>2. CASE UNCHANGED <<busy, todo, result, heard>>
  BY <1>1, <1>2, AggregatorStays DEF Local
<1>3. CASE /\ busy' = [busy EXCEPT ![A] = TRUE]
           /\ todo' = [todo EXCEPT ![A] = h]
           /\ result' = [result EXCEPT ![A] = <<>>]
           /\ heard' = [heard EXCEPT ![A] = Append(q, h)]
  <2> DEFINE a == Append(q, h)
             S == Seq(Values)
  <2>1. q \in Seq(S) /\ h \in S /\ Len(q) \in Nat
    BY <1>1, AggregatorParts
  <2>2. /\ Len(a) = Len(q) + 1 /\ a[Len(q) + 1] = h
        /\ \A i \in 1 .. Len(q) : a[i] = q[i]
    <3> HIDE DEF S, q
    <3> QED
      BY <2>1
  <2> HIDE DEF a
  <2>3. heard'[A] = a /\ busy'[A] /\ todo'[A] = h
    BY <1>3, AggregatorParts, Domains DEF a
  <2>4. result'[A] = <<>>
    BY <1>3, AggregatorParts, Domains
  <2>5. Len(q) = Len(told[A])
    BY <1>1 DEF AggregatorInv, TurnsInv
  <2>6. Agrees(env[A], LookedAt(A, Len(looked[A])))'
    BY <1>1 DEF AggregatorInv, TurnsInv, LookedAt, Triggers
  <2>7. TurnsInv(A)'
    BY <1>1, <2>2, <2>3, <2>5, <2>6 DEF TurnsInv
  <2>8. AggregateFresh' /\ MeasuredPassed'
    BY <1>1, <2>2, <2>3, TurnsKeptUnlooked, AddedStaysAll
  <2>9. pending' = {} /\ added' = <<>> /\ newest' = 0
    BY <1>1 DEF Waiting
  <2>10. <<>> \o h = h
    BY <1>1
  <2>11. Len(looked'[A]) \in Nat
    <3>1. looked[A] \in Seq([delta : Nat, value : Values])
      BY AggregatorParts DEF ProcessTypeOK
    <3> QED
      BY <1>1, <3>1
  <2>13. TurnsInTime'
    <3> SUFFICES ASSUME NEW j \in DOMAIN looked[A]
                 PROVE  looked[A][j].delta <= Len(a)
      BY <1>1, <2>3 DEF TurnsInTime
    <3>1. looked[A] \in Seq([delta : Nat, value : Values])
      BY AggregatorParts DEF ProcessTypeOK
    <3>2. looked[A][j].delta \in Nat
      <4> DEFINE X == [delta : Nat, value : Values]
                 l == looked[A]
      <4>1. l \in Seq(X) /\ j \in DOMAIN l
        BY <3>1
      <4> HIDE DEF X, l
      <4>2. l[j] \in X
        BY <4>1
      <4> QED
        BY <4>2 DEF X, l
    <3>3. looked[A][j].delta <= Len(q)
      BY DEF AggregatorInv, TurnsInTime
    <3> QED
      BY <2>1, <2>2, <3>2, <3>3
  <2>14. ComputedSoFar'
    <3>1. ASSUME NEW j \in DOMAIN looked[A] PROVE looked[A][j].delta # Len(q) + 1
      <4>1. looked[A][j].delta <= Len(q)
        BY DEF AggregatorInv, TurnsInTime
      <4> QED
        BY <2>1, <4>1
    <3> QED
      BY <1>1, <2>2, <2>3, <3>1 DEF ComputedSoFar, TurnsFor
  <2>12. AggregatingInv'
    BY <2>2, <2>3, <2>4, <2>9, <2>10, <2>11, <2>14 DEF AggregatingInv
  <2> QED
    BY <2>7, <2>8, <2>12, <2>13 DEF AggregatorInv
<1> QED
  BY <1>1, <1>2, <1>3

LEMMA AggregatorStep ==
  ASSUME TypeInv, Waiting, AggregatorInv, [Next]_vars
  PROVE  AggregatorInv'
BY StepsOf, AggregatorStays, ReceiveAggregatorKeeps, AggregateValueKeeps,
   RunMappingKeeps, PublishAggregatedKeeps

LEMMA AggregatorInit == Init => AggregatorInv
<1> SUFFICES ASSUME Init PROVE AggregatorInv
  OBVIOUS
<1>1. ~busy[Aggregator] /\ told[Aggregator] = <<>>
  BY ProcessNumbers DEF Init, ProcessInit
<1>2. AggregateFresh /\ MeasuredPassed
  BY <1>1 DEF AggregateFresh, MeasuredPassed
<1>3. TurnsInTime
  BY ProcessNumbers DEF Init, ProcessInit, TurnsInTime
<1> QED
  BY <1>1, <1>2, <1>3, ProcessNumbers, TurnsInit DEF AggregatorInv

LEMMA AggregatorInvariant == Spec => []AggregatorInv
<1>1. TypeInv /\ Waiting /\ AggregatorInv /\ [Next]_vars => AggregatorInv'
  BY AggregatorStep
<1> QED
  BY <1>1, AggregatorInit, MappedTypeCorrect, PTL DEF Spec

(* AggregateMapper: all values of a delta are looked at; what is added for *)
(* a path is the first output at a turn of that delta, of the values last  *)
(* looked at of every path that is read, and nothing computed is missing   *)
(* unless all is lost; it is as new as the newest value in the delta that  *)
(* triggers any mapping.                                                   *)
THEOREM AggregatesAreFresh == Spec => []AggregateFresh
<1>1. AggregatorInv => AggregateFresh
  BY DEF AggregatorInv
<1> QED
  BY <1>1, AggregatorInvariant, PTL

(* AggregateMapper: the measured values are passed on in front of what was *)
(* computed from them, unless an infinity took all of them down.           *)
THEOREM MeasuredArePassed == Spec => []MeasuredPassed
<1>1. AggregatorInv => MeasuredPassed
  BY DEF AggregatorInv
<1> QED
  BY <1>1, AggregatorInvariant, PTL

=============================================================================
