------------------------- MODULE MqttPipelineProofs -------------------------
(***************************************************************************)
(* Proofs about MqttPipeline, for any messages and any sizes.              *)
(*                                                                         *)
(* In terms of the buffer in use and the other one a message either stays  *)
(* in the buffer in use, or the buffers change places and the first one is *)
(* flushed or, with a message that cannot be decoded, kept (AppendCases).  *)
(* So the other buffer is empty or holds such a message, and what is still *)
(* to be flushed came after all that was (WriterInv).  For the reader,     *)
(* what was published of a message, what still has to be, and a batch on   *)
(* its way are together at most one more than the reconnects (Counted),    *)
(* because no message is in two batches (Apart).                           *)
(***************************************************************************)
EXTENDS MqttPipeline, TLAPS, SequenceTheorems, FiniteSetTheorems

LEMMA EmptyElements == ToSet(<<>>) = {}
BY DEF ToSet

LEMMA AppendElements ==
  ASSUME NEW S, NEW s \in Seq(S), NEW x \in S
  PROVE  ToSet(Append(s, x)) = ToSet(s) \cup {x}
<1> DEFINE t == Append(s, x)
<1>1. /\ DOMAIN s = 1 .. Len(s) /\ DOMAIN t = 1 .. Len(s) + 1 /\ Len(s) \in Nat
      /\ t[Len(s) + 1] = x /\ \A i \in 1 .. Len(s) : t[i] = s[i]
  OBVIOUS
<1>2. ASSUME NEW i \in DOMAIN t PROVE t[i] \in ToSet(s) \cup {x}
  BY <1>1 DEF ToSet
<1>3. ToSet(s) \subseteq ToSet(t) /\ x \in ToSet(t)
  BY <1>1 DEF ToSet
<1> QED
  BY <1>2, <1>3 DEF ToSet

LEMMA ConcatElements ==
  ASSUME NEW S, NEW s \in Seq(S), NEW t \in Seq(S)
  PROVE  ToSet(s \o t) = ToSet(s) \cup ToSet(t)
<1> DEFINE u == s \o t
           m == Len(s)
           n == Len(t)
<1>1. /\ DOMAIN s = 1 .. m /\ DOMAIN t = 1 .. n /\ m \in Nat /\ n \in Nat
      /\ DOMAIN u = 1 .. m + n
      /\ \A i \in 1 .. m + n : u[i] = IF i <= m THEN s[i] ELSE t[i - m]
  BY ConcatProperties, LenProperties
<1>2. ASSUME NEW i \in 1 .. m + n PROVE u[i] \in ToSet(s) \cup ToSet(t)
  <2>1. i <= m => i \in 1 .. m
    BY <1>1
  <2>2. ~(i <= m) => i - m \in 1 .. n
    BY <1>1
  <2> QED
    BY <1>1, <2>1, <2>2 DEF ToSet
<1>3. ASSUME NEW i \in 1 .. m PROVE s[i] \in ToSet(u)
  <2>1. i \in 1 .. m + n /\ u[i] = s[i]
    BY <1>1
  <2> QED
    BY <1>1, <2>1 DEF ToSet
<1>4. ASSUME NEW i \in 1 .. n PROVE t[i] \in ToSet(u)
  <2>1. i + m \in 1 .. m + n /\ ~(i + m <= m) /\ (i + m) - m = i
    BY <1>1
  <2>2. u[i + m] = t[i]
    BY <1>1, <2>1
  <2> QED
    BY <1>1, <2>1, <2>2 DEF ToSet
<1> QED
  BY <1>1, <1>2, <1>3, <1>4 DEF ToSet

InUse == IF useA THEN bufferA ELSE bufferB
Other == IF useA THEN bufferB ELSE bufferA

Poisoned(s) == ToSet(s) \cap Undecodable # {}

(* The three things that can happen to a message. *)
Kept(m) ==
  /\ Len(Append(InUse, m)) <= BufferSize
  /\ InUse' = Append(InUse, m) /\ Other' = Other
  /\ UNCHANGED <<flushed, publishing>>

Flushed(m) ==
  /\ ~Poisoned(Append(InUse, m))
  /\ InUse' = Other /\ Other' = <<>>
  /\ flushed' = flushed \o Append(InUse, m)
  /\ publishing' = publishing \cup {Append(InUse, m)}

Refused(m) ==
  /\ Poisoned(Append(InUse, m))
  /\ InUse' = Other /\ Other' = Append(InUse, m)
  /\ UNCHANGED <<flushed, publishing>>

LEMMA AppendCases ==
  ASSUME TypeOK, NEW m \in Messages, AppendToCache(m)
  PROVE  Kept(m) \/ Flushed(m) \/ Refused(m)
<1> DEFINE a == IF useA THEN Append(bufferA, m) ELSE bufferA
           b == IF useA THEN bufferB ELSE Append(bufferB, m)
<1>1. (IF useA THEN a ELSE b) = Append(InUse, m) /\ (IF useA THEN b ELSE a) = Other
  BY DEF InUse, Other
<1>2. \/ FlushCache(a, b)
      \/ /\ Len(Append(InUse, m)) <= BufferSize
         /\ bufferA' = a /\ bufferB' = b
         /\ UNCHANGED <<useA, expired, publishing, flushed>>
  BY <1>1 DEF AppendToCache
<1>4. ASSUME FlushCache(a, b) PROVE Flushed(m) \/ Refused(m)
  <2>1. CASE useA
    BY <1>4, <2>1 DEF FlushCache, InUse, Other, TypeOK, Flushed, Refused, Poisoned
  <2>2. CASE ~useA
    BY <1>4, <2>2 DEF FlushCache, InUse, Other, TypeOK, Flushed, Refused, Poisoned
  <2> QED
    BY <2>1, <2>2
<1>5. ASSUME Len(Append(InUse, m)) <= BufferSize, bufferA' = a, bufferB' = b,
             UNCHANGED <<useA, expired, publishing, flushed>>
      PROVE  Kept(m)
  BY <1>5 DEF InUse, Other, Kept
<1> QED
  BY <1>2, <1>4, <1>5

-----------------------------------------------------------------------------
(* Types. *)

LEMMA TypeInit == Init => TypeOK
<1> SUFFICES ASSUME Init PROVE TypeOK
  OBVIOUS
<1>1. emitted \in [Messages -> Nat] /\ reconnects \in 0 .. MaxReconnects
  BY PipelineAssumption DEF Init
<1>2. /\ bufferA \in Seq(Messages) /\ bufferB \in Seq(Messages)
      /\ arrived \in Seq(Messages) /\ flushed \in Seq(Messages)
  BY DEF Init
<1> QED
  BY <1>1, <1>2 DEF Init, TypeOK

LEMMA AppendType ==
  ASSUME TypeOK, NEW m \in Messages
  PROVE  /\ InUse \in Seq(Messages) /\ Other \in Seq(Messages)
         /\ Append(InUse, m) \in Seq(Messages) \ {<<>>}
         /\ flushed \o Append(InUse, m) \in Seq(Messages)
<1>1. InUse \in Seq(Messages) /\ Other \in Seq(Messages)
  BY DEF TypeOK, InUse, Other
<1>2. Append(InUse, m) \in Seq(Messages) /\ Append(InUse, m) # <<>>
  BY <1>1, AppendProperties
<1> QED
  BY <1>1, <1>2, ConcatProperties DEF TypeOK

LEMMA TypeStep == TypeOK /\ [Next]_vars => TypeOK'
<1> SUFFICES ASSUME TypeOK, [Next]_vars PROVE TypeOK'
  OBVIOUS
<1> USE DEF writerVars, readerVars
<1>1. CASE IntervalPasses
  BY <1>1 DEF IntervalPasses, TypeOK
<1>2. CASE Reconnect
  BY <1>2, PipelineAssumption DEF Reconnect, TypeOK
<1>3. ASSUME NEW m \in Messages, AppendToCache(m) PROVE TypeOK'
  <2>1. /\ useA' \in BOOLEAN /\ expired' \in BOOLEAN
        /\ arrived' = Append(arrived, m)
        /\ UNCHANGED <<wire, retained, readerVars>>
    BY <1>3 DEF AppendToCache, FlushCache, TypeOK
  <2>2. InUse' \in Seq(Messages) /\ Other' \in Seq(Messages) /\ flushed' \in Seq(Messages)
        /\ publishing' \subseteq Seq(Messages) \ {<<>>}
    <3>1. Kept(m) \/ Flushed(m) \/ Refused(m)
      BY <1>3, AppendCases
    <3>2. <<>> \in Seq(Messages)
      OBVIOUS
    <3> QED
      BY <3>1, <3>2, AppendType DEF TypeOK, Kept, Flushed, Refused
  <2>3. bufferA' \in Seq(Messages) /\ bufferB' \in Seq(Messages)
    BY <2>1, <2>2 DEF InUse, Other
  <2> QED
    BY <2>1, <2>2, <2>3 DEF TypeOK
<1>4. ASSUME NEW b \in publishing, Publish(b) PROVE TypeOK'
  BY <1>4 DEF Publish, TypeOK
<1>5. ASSUME NEW b \in wire, LoseBatch(b) PROVE TypeOK'
  BY <1>5 DEF LoseBatch, TypeOK
<1>6. ASSUME NEW b \in wire, MessageReceived(b) PROVE TypeOK'
  BY <1>6 DEF MessageReceived, TypeOK
<1>7. ASSUME NEW g \in reading, Emit(g) PROVE TypeOK'
  <2>1. /\ g[1] \in 0 .. MaxReconnects /\ g[2] \in Seq(Messages) /\ g[2] # <<>>
        /\ g = <<g[1], g[2]>>
    BY DEF TypeOK
  <2>2. Head(g[2]) \in Messages /\ Tail(g[2]) \in Seq(Messages)
    BY <2>1, HeadTailProperties
  <2>3. Len(g[2]) # 1 => Tail(g[2]) # <<>>
    <3>1. Len(Tail(g[2])) = Len(g[2]) - 1 /\ Len(g[2]) \in Nat
      BY <2>1, HeadTailProperties
    <3>2. Len(<<>>) = 0
      OBVIOUS
    <3>3. Len(g[2]) # 1 => Len(Tail(g[2])) # 0
      BY <3>1
    <3> QED
      BY <3>2, <3>3
  <2>4. emitted' \in [Messages -> Nat]
    BY <1>7, <2>2, SMTT(60) DEF Emit, TypeOK
  <2>5. reading' \subseteq (0 .. MaxReconnects) \X (Seq(Messages) \ {<<>>})
    <3>2. CASE Len(g[2]) = 1
      BY <1>7, <3>2 DEF Emit, TypeOK
    <3>3. CASE Len(g[2]) # 1
      <4>1. reading' = (reading \ {g}) \cup {<<g[1], Tail(g[2])>>}
        BY <1>7, <3>3 DEF Emit
      <4>2. g[1] \in 0 .. MaxReconnects /\ Tail(g[2]) \in Seq(Messages) \ {<<>>}
        BY <2>1, <2>2, <2>3, <3>3
      <4>3. <<g[1], Tail(g[2])>> \in (0 .. MaxReconnects) \X (Seq(Messages) \ {<<>>})
        BY <4>2
      <4> QED
        BY <4>1, <4>3 DEF TypeOK
    <3> QED
      BY <3>2, <3>3
  <2> QED
    BY <1>7, <2>4, <2>5 DEF Emit, TypeOK
<1>8. CASE UNCHANGED vars
  BY <1>8 DEF vars, TypeOK
<1> QED
  BY <1>1, <1>2, <1>3, <1>4, <1>5, <1>6, <1>7, <1>8 DEF Next

(* The variables keep their types, and no batch is ever empty. *)
THEOREM TypeCorrect == Spec => []TypeOK
BY TypeInit, TypeStep, PTL DEF Spec

-----------------------------------------------------------------------------
(* The buffers. *)

Sorted(order, s) == \A i, j \in DOMAIN s : i < j => Before(order, s[i], s[j])

(* Everything in s arrived before everything in t. *)
AllBefore(order, s, t) == \A x \in ToSet(s), y \in ToSet(t) : Before(order, x, y)

WriterInv ==
  /\ Conserved
  /\ \A s \in {InUse, Other} : Len(s) > BufferSize => Poisoned(s)
  /\ Other = <<>> \/ Poisoned(Other)
  /\ Sorted(arrived, flushed) /\ Sorted(arrived, InUse) /\ Sorted(arrived, Other)
  /\ Poisoned(InUse) \/ AllBefore(arrived, flushed, InUse)
  /\ ToSet(arrived) \cap Undecodable = {} => arrived = flushed \o InUse

LEMMA EmptyFacts ==
  /\ ~Poisoned(<<>>) /\ Len(<<>>) = 0
  /\ \A order, s :
       Sorted(order, <<>>) /\ AllBefore(order, s, <<>>) /\ AllBefore(order, <<>>, s)
BY EmptyElements DEF Poisoned, Sorted, AllBefore

LEMMA WriterInvInit == Init => WriterInv
<1> SUFFICES ASSUME Init PROVE WriterInv
  OBVIOUS
<1>1. InUse = <<>> /\ Other = <<>> /\ flushed = <<>> /\ arrived = <<>>
  BY DEF Init, InUse, Other
<1>2. Conserved
  BY EmptyElements DEF Init, Conserved
<1>3. <<>> = <<>> \o <<>>
  BY ConcatEmptySeq
<1>4. ~(Len(<<>>) > BufferSize)
  BY EmptyFacts, PipelineAssumption
<1> QED
  BY <1>1, <1>2, <1>3, <1>4, EmptyFacts DEF WriterInv

(* When m arrives, everything else arrived before it. *)
LEMMA Arrival ==
  ASSUME TypeOK, NEW m \in Messages, arrived' = Append(arrived, m)
  PROVE  /\ \A x, y : Before(arrived, x, y) => Before(arrived', x, y)
         /\ \A x \in ToSet(arrived) : Before(arrived', x, m)
         /\ ToSet(arrived') = ToSet(arrived) \cup {m}
         /\ Len(arrived') = Len(arrived) + 1
<1> DEFINE n == Len(arrived)
<1>1. /\ n \in Nat /\ DOMAIN arrived = 1 .. n /\ DOMAIN arrived' = 1 .. n + 1
      /\ Len(arrived') = n + 1
      /\ arrived'[n + 1] = m /\ \A i \in 1 .. n : arrived'[i] = arrived[i]
  BY DEF TypeOK
<1>2. \A x, y : Before(arrived, x, y) => Before(arrived', x, y)
  BY <1>1 DEF Before
<1>3. ASSUME NEW x \in ToSet(arrived) PROVE Before(arrived', x, m)
  <2>1. PICK k \in 1 .. n : arrived[k] = x
    BY <1>1 DEF ToSet
  <2>2. k < n + 1 /\ k \in 1 .. n + 1 /\ n + 1 \in 1 .. n + 1
    BY <1>1
  <2> QED
    BY <1>1, <2>1, <2>2 DEF Before
<1>4. ToSet(arrived') = ToSet(arrived) \cup {m}
  BY AppendElements DEF TypeOK
<1> QED
  BY <1>1, <1>2, <1>3, <1>4

LEMMA AppendSorted ==
  ASSUME NEW order, NEW s \in Seq(Messages), NEW m \in Messages, Sorted(order, s),
         \A x \in ToSet(s) : Before(order, x, m)
  PROVE  Sorted(order, Append(s, m))
<1> DEFINE n == Len(s)
           t == Append(s, m)
<1>1. /\ n \in Nat /\ DOMAIN s = 1 .. n /\ DOMAIN t = 1 .. n + 1
      /\ t[n + 1] = m /\ \A i \in 1 .. n : t[i] = s[i]
  OBVIOUS
<1> SUFFICES ASSUME NEW i \in 1 .. n + 1, NEW j \in 1 .. n + 1, i < j
             PROVE  Before(order, t[i], t[j])
  BY <1>1 DEF Sorted
<1>2. i \in 1 .. n
  BY <1>1
<1>3. CASE j \in 1 .. n
  BY <1>1, <1>2, <1>3 DEF Sorted
<1>4. CASE j = n + 1
  BY <1>1, <1>2, <1>4 DEF ToSet
<1> QED
  BY <1>1, <1>3, <1>4

LEMMA ConcatSorted ==
  ASSUME NEW order, NEW s \in Seq(Messages), NEW t \in Seq(Messages), Sorted(order, s), Sorted(order, t),
         AllBefore(order, s, t)
  PROVE  Sorted(order, s \o t)
<1> DEFINE m == Len(s)
           n == Len(t)
           u == s \o t
<1>1. /\ m \in Nat /\ n \in Nat /\ DOMAIN s = 1 .. m /\ DOMAIN t = 1 .. n
      /\ DOMAIN u = 1 .. m + n
      /\ \A i \in 1 .. m + n : u[i] = IF i <= m THEN s[i] ELSE t[i - m]
  BY ConcatProperties, LenProperties
<1> SUFFICES ASSUME NEW i \in 1 .. m + n, NEW j \in 1 .. m + n, i < j
             PROVE  Before(order, u[i], u[j])
  BY <1>1 DEF Sorted
<1>2. CASE j <= m
  <2>1. i \in 1 .. m /\ j \in 1 .. m /\ u[i] = s[i] /\ u[j] = s[j]
    BY <1>1, <1>2
  <2> QED
    BY <1>1, <2>1 DEF Sorted
<1>3. CASE i > m
  <2>1. i - m \in 1 .. n /\ j - m \in 1 .. n /\ i - m < j - m
        /\ u[i] = t[i - m] /\ u[j] = t[j - m]
    BY <1>1, <1>3
  <2> QED
    BY <1>1, <2>1 DEF Sorted
<1>4. CASE i <= m /\ j > m
  <2>1. i \in 1 .. m /\ j - m \in 1 .. n /\ u[i] = s[i] /\ u[j] = t[j - m]
    BY <1>1, <1>4
  <2> QED
    BY <1>1, <2>1 DEF AllBefore, ToSet
<1> QED
  BY <1>1, <1>2, <1>3, <1>4

LEMMA Monotone ==
  ASSUME NEW old, NEW order, \A x, y : Before(old, x, y) => Before(order, x, y)
  PROVE  /\ \A s : Sorted(old, s) => Sorted(order, s)
         /\ \A s, t : AllBefore(old, s, t) => AllBefore(order, s, t)
BY DEF Sorted, AllBefore

(* Conserved and CacheBound do not say which of the buffers is in use. *)
LEMMA ConservedBuffers ==
  ASSUME TypeOK
  PROVE  Conserved <=>
           /\ ToSet(arrived) = ToSet(flushed) \cup ToSet(InUse) \cup ToSet(Other)
           /\ Len(arrived) = Len(flushed) + Len(InUse) + Len(Other)
<1>1. CASE useA
  BY <1>1 DEF Conserved, InUse, Other
<1>2. CASE ~useA
  <2>1. Len(flushed) \in Nat /\ Len(bufferA) \in Nat /\ Len(bufferB) \in Nat
    BY DEF TypeOK
  <2> QED
    BY <1>2, <2>1 DEF Conserved, InUse, Other
<1> QED
  BY <1>1, <1>2

LEMMA ConservedPrimed ==
  ASSUME TypeOK',
         ToSet(arrived') = ToSet(flushed') \cup ToSet(InUse') \cup ToSet(Other'),
         Len(arrived') = Len(flushed') + Len(InUse') + Len(Other')
  PROVE  Conserved'
<1>1. CASE useA'
  BY <1>1 DEF Conserved, InUse, Other
<1>2. CASE ~useA'
  <2>1. Len(flushed') \in Nat /\ Len(bufferA') \in Nat /\ Len(bufferB') \in Nat
    BY DEF TypeOK
  <2> QED
    BY <1>2, <2>1 DEF Conserved, InUse, Other
<1> QED
  BY <1>1, <1>2

LEMMA WriterInvAppend ==
  ASSUME TypeOK, TypeOK', WriterInv, NEW m \in Messages, AppendToCache(m)
  PROVE  WriterInv'
<1> DEFINE u == Append(InUse, m)
           all == Append(arrived, m)
<1>0. arrived' = all
  BY DEF AppendToCache
<1>1. /\ InUse \in Seq(Messages) /\ Other \in Seq(Messages) /\ u \in Seq(Messages)
      /\ flushed \in Seq(Messages) /\ arrived \in Seq(Messages)
  BY AppendType DEF TypeOK
<1>2. /\ \A x, y : Before(arrived, x, y) => Before(all, x, y)
      /\ \A x \in ToSet(arrived) : Before(all, x, m)
      /\ ToSet(all) = ToSet(arrived) \cup {m}
      /\ Len(all) = Len(arrived) + 1
  BY <1>0, Arrival
<1>3. /\ ToSet(arrived) = ToSet(flushed) \cup ToSet(InUse) \cup ToSet(Other)
      /\ Len(arrived) = Len(flushed) + Len(InUse) + Len(Other)
  BY ConservedBuffers DEF WriterInv
<1>4. /\ ToSet(u) = ToSet(InUse) \cup {m} /\ Len(u) = Len(InUse) + 1
      /\ Len(flushed) \in Nat /\ Len(InUse) \in Nat /\ Len(Other) \in Nat
  BY <1>1, AppendElements
<1>5. /\ Sorted(all, flushed) /\ Sorted(all, InUse) /\ Sorted(all, Other)
      /\ Poisoned(InUse) \/ AllBefore(all, flushed, InUse)
  BY <1>2, Monotone DEF WriterInv
<1>6. Sorted(all, u)
  BY <1>1, <1>2, <1>3, <1>5, AppendSorted
<1>7. Poisoned(u) \/ AllBefore(all, flushed, u)
  BY <1>2, <1>3, <1>4, <1>5 DEF Poisoned, AllBefore
<1>8. ToSet(all) \cap Undecodable = {} =>
        Other = <<>> /\ all = flushed \o u /\ ~Poisoned(u)
  <2> SUFFICES ASSUME ToSet(all) \cap Undecodable = {}
               PROVE  Other = <<>> /\ all = flushed \o u /\ ~Poisoned(u)
    OBVIOUS
  <2>1. arrived = flushed \o InUse
    BY <1>2 DEF WriterInv
  <2>2. Other = <<>> /\ ~Poisoned(u)
    BY <1>2, <1>3, <1>4 DEF WriterInv, Poisoned
  <2>3. all = flushed \o u
    <3>1. all = (flushed \o InUse) \o <<m>> /\ u = InUse \o <<m>>
      BY <1>1, <2>1, AppendIsConcat
    <3>2. <<m>> \in Seq(Messages)
      OBVIOUS
    <3> QED
      BY <1>1, <3>1, <3>2, ConcatAssociative, SMTT(60)
  <2> QED
    BY <2>2, <2>3
<1>9. CASE Kept(m)
  <2>1. InUse' = u /\ Other' = Other /\ flushed' = flushed /\ Len(u) <= BufferSize
    BY <1>9 DEF Kept
  <2>2. Conserved'
    <3>1. /\ ToSet(arrived') = ToSet(flushed') \cup ToSet(InUse') \cup ToSet(Other')
          /\ Len(arrived') = Len(flushed') + Len(InUse') + Len(Other')
      BY <1>0, <1>2, <1>3, <1>4, <2>1
    <3> QED
      BY <3>1, ConservedPrimed
  <2>3. ~(Len(u) > BufferSize)
    BY <1>4, <2>1, PipelineAssumption
  <2> QED
    BY <1>0, <1>5, <1>6, <1>7, <1>8, <2>1, <2>2, <2>3 DEF WriterInv, Poisoned
<1>10. CASE Flushed(m)
  <2>1. InUse' = Other /\ Other' = <<>> /\ flushed' = flushed \o u /\ ~Poisoned(u)
    BY <1>10 DEF Flushed
  <2>2. ToSet(flushed') = ToSet(flushed) \cup ToSet(u) /\ Len(flushed') = Len(flushed) + Len(u)
    BY <1>1, <2>1, ConcatElements, ConcatProperties, ZenonT(60)
  <2>3. Conserved'
    <3>1. /\ ToSet(arrived') = ToSet(flushed') \cup ToSet(InUse') \cup ToSet(Other')
          /\ Len(arrived') = Len(flushed') + Len(InUse') + Len(Other')
      BY <1>0, <1>2, <1>3, <1>4, <2>1, <2>2, EmptyElements, EmptyFacts
    <3> QED
      BY <3>1, ConservedPrimed
  <2>4. Sorted(all, flushed')
    BY <1>1, <1>5, <1>6, <1>7, <2>1, ConcatSorted
  <2>5. Poisoned(Other) \/ AllBefore(all, flushed', Other)
    BY EmptyFacts DEF WriterInv
  <2>6. ToSet(all) \cap Undecodable = {} => all = flushed' \o InUse'
    <3>1. flushed' \in Seq(Messages)
      BY DEF TypeOK
    <3> QED
      BY <1>8, <2>1, <3>1, ConcatEmptySeq
  <2>7. ~(Len(<<>>) > BufferSize)
    BY EmptyFacts, PipelineAssumption
  <2> QED
    BY <1>0, <1>5, <2>1, <2>3, <2>4, <2>5, <2>6, <2>7, EmptyFacts DEF WriterInv, Poisoned
<1>11. CASE Refused(m)
  <2>1. InUse' = Other /\ Other' = u /\ flushed' = flushed /\ Poisoned(u)
    BY <1>11 DEF Refused
  <2>2. Conserved'
    <3>1. /\ ToSet(arrived') = ToSet(flushed') \cup ToSet(InUse') \cup ToSet(Other')
          /\ Len(arrived') = Len(flushed') + Len(InUse') + Len(Other')
      BY <1>0, <1>2, <1>3, <1>4, <2>1
    <3> QED
      BY <3>1, ConservedPrimed
  <2>3. Poisoned(Other) \/ AllBefore(all, flushed, Other)
    BY EmptyFacts DEF WriterInv
  <2> QED
    BY <1>0, <1>5, <1>6, <1>8, <2>1, <2>2, <2>3 DEF WriterInv, Poisoned
<1> QED
  BY <1>9, <1>10, <1>11, AppendCases

LEMMA WriterInvStep == TypeOK /\ TypeOK' /\ WriterInv /\ [Next]_vars => WriterInv'
<1> SUFFICES ASSUME TypeOK, TypeOK', WriterInv, [Next]_vars PROVE WriterInv'
  OBVIOUS
<1>1. ASSUME NEW m \in Messages, AppendToCache(m) PROVE WriterInv'
  BY <1>1, WriterInvAppend
<1>2. ASSUME UNCHANGED <<useA, bufferA, bufferB, arrived, flushed>> PROVE WriterInv'
  <2>1. InUse' = InUse /\ Other' = Other /\ arrived' = arrived /\ flushed' = flushed
    BY <1>2 DEF InUse, Other
  <2>2. Conserved'
    BY <1>2 DEF WriterInv, Conserved
  <2> QED
    BY <2>1, <2>2 DEF WriterInv, Poisoned
<1>3. \/ \E m \in Messages : AppendToCache(m)
      \/ UNCHANGED <<useA, bufferA, bufferB, arrived, flushed>>
  BY DEF Next, IntervalPasses, Reconnect, Publish, LoseBatch, MessageReceived, Emit,
         vars, writerVars
<1> QED
  BY <1>1, <1>2, <1>3

LEMMA WriterCorrect == Spec => [](TypeOK /\ WriterInv)
<1>1. Init => TypeOK /\ WriterInv
  BY TypeInit, WriterInvInit
<1>2. (TypeOK /\ WriterInv) /\ [Next]_vars => (TypeOK /\ WriterInv)'
  BY TypeStep, WriterInvStep
<1> QED
  BY <1>1, <1>2, PTL DEF Spec

(* Every message is flushed once or still in one of the buffers, with any  *)
(* number of messages that cannot be decoded.                              *)
THEOREM NothingIsLost == Spec => []Conserved
<1>1. WriterInv => Conserved
  BY DEF WriterInv
<1> QED
  BY <1>1, WriterCorrect, PTL

(* Only a message that cannot be decoded lets a buffer exceed its size.    *)
THEOREM BuffersAreBounded == Spec => []CacheBound
<1>1. WriterInv => CacheBound
  <2>1. {InUse, Other} = {bufferA, bufferB}
    BY DEF InUse, Other
  <2> QED
    BY <2>1 DEF WriterInv, CacheBound, Poisoned
<1> QED
  BY <1>1, WriterCorrect, PTL

(* The two buffers are flushed in the order in which the messages arrived. *)
THEOREM BuffersKeepTheOrder == Spec => []FlushOrder
<1>1. WriterInv => FlushOrder
  BY DEF WriterInv, FlushOrder, Sorted, InUse
<1> QED
  BY <1>1, WriterCorrect, PTL

-----------------------------------------------------------------------------
(* The reader. *)

Batches == publishing \cup wire \cup retained

Holds(batches, m) == \E b \in batches : m \in ToSet(b)

(* The goroutines of messageReceived that still have m to send. *)
Queue(m) == {g \in reading : m \in ToSet(g[2])}

(* Whether m is in a batch that the reader may still receive once. *)
Coming(m) == IF Holds(publishing \cup wire, m) THEN 1 ELSE 0

(* No message is twice in a buffer or a batch, or in two of them. *)
Apart ==
  /\ \A b \in {InUse, Other} \cup Batches : IsInjective(b)
  /\ \A g \in reading : IsInjective(g[2])
  /\ ToSet(InUse) \cap ToSet(Other) = {}
  /\ ToSet(flushed) \cap (ToSet(InUse) \cup ToSet(Other)) = {}
  /\ \A b, c \in Batches : ToSet(b) \cap ToSet(c) # {} => b = c
  /\ publishing \cap (wire \cup retained) = {}

(* Of every message there are at most as many copies as reconnects, and one. *)
Counted ==
  /\ IsFiniteSet(reading)
  /\ \A m \in Messages :
       /\ Holds(Batches, m) \/ Queue(m) # {} \/ emitted[m] > 0 => m \in ToSet(flushed)
       /\ emitted[m] + Cardinality(Queue(m)) + Coming(m) <= 1 + reconnects

LEMMA AppendKeepsApart ==
  ASSUME NEW S, NEW s \in Seq(S), NEW x \in S, IsInjective(s), x \notin ToSet(s)
  PROVE  IsInjective(Append(s, x))
<1> DEFINE n == Len(s)
           t == Append(s, x)
<1>1. /\ n \in Nat /\ DOMAIN s = 1 .. n /\ DOMAIN t = 1 .. n + 1
      /\ t[n + 1] = x /\ \A i \in 1 .. n : t[i] = s[i] /\ s[i] # x
  BY DEF ToSet
<1>2. \A i \in 1 .. n + 1 : i \in 1 .. n \/ i = n + 1
  BY <1>1
<1> QED
  BY <1>1, <1>2 DEF IsInjective

LEMMA TailElements ==
  ASSUME NEW S, NEW s \in Seq(S), s # <<>>, IsInjective(s)
  PROVE  /\ Head(s) \in S /\ Head(s) \in ToSet(s)
         /\ Tail(s) \in Seq(S) /\ IsInjective(Tail(s))
         /\ ToSet(Tail(s)) = ToSet(s) \ {Head(s)}
         /\ Len(s) = 1 => ToSet(s) = {Head(s)}
<1> DEFINE n == Len(s)
           t == Tail(s)
<1>1. /\ n \in Nat \ {0} /\ DOMAIN s = 1 .. n /\ Head(s) = s[1] /\ Head(s) \in S
      /\ t \in Seq(S) /\ DOMAIN t = 1 .. n - 1 /\ \A i \in 1 .. n - 1 : t[i] = s[i + 1]
  <2>1. n # 0
    BY EmptySeq
  <2>2. Len(t) = n - 1 /\ t \in Seq(S) /\ Head(s) = s[1] /\ Head(s) \in S
        /\ \A i \in 1 .. n - 1 : t[i] = s[i + 1]
    BY HeadTailProperties
  <2> QED
    BY <2>1, <2>2
<1>2. \A i \in 1 .. n - 1 : i + 1 \in 1 .. n /\ i + 1 # 1
  BY <1>1
<1>3. \A i \in 1 .. n : i # 1 => i - 1 \in 1 .. n - 1 /\ (i - 1) + 1 = i
  BY <1>1
<1>4. 1 \in 1 .. n
  BY <1>1
<1>5. IsInjective(t)
  <2> SUFFICES ASSUME NEW i \in 1 .. n - 1, NEW j \in 1 .. n - 1, t[i] = t[j] PROVE i = j
    BY <1>1 DEF IsInjective
  <2>1. s[i + 1] = s[j + 1] /\ i + 1 \in 1 .. n /\ j + 1 \in 1 .. n
    BY <1>1, <1>2
  <2>2. i + 1 = j + 1
    BY <1>1, <2>1 DEF IsInjective
  <2> QED
    BY <2>2
<1>6. ASSUME NEW i \in 1 .. n - 1 PROVE t[i] \in ToSet(s) \ {Head(s)}
  BY <1>1, <1>2, <1>4 DEF IsInjective, ToSet
<1>7. ASSUME NEW i \in 1 .. n, s[i] # Head(s) PROVE s[i] \in ToSet(t)
  <2>1. i - 1 \in 1 .. n - 1 /\ t[i - 1] = s[i]
    BY <1>1, <1>3, <1>7
  <2> QED
    BY <1>1, <2>1 DEF ToSet
<1>8. ToSet(t) = ToSet(s) \ {Head(s)}
  BY <1>1, <1>6, <1>7 DEF ToSet
<1>9. n = 1 => ToSet(s) = {Head(s)}
  BY <1>1, <1>4 DEF ToSet
<1> QED
  BY <1>1, <1>4, <1>5, <1>8, <1>9 DEF ToSet

LEMMA ReaderInit == Init => Apart /\ Counted
<1> SUFFICES ASSUME Init PROVE Apart /\ Counted
  OBVIOUS
<1>1. InUse = <<>> /\ Other = <<>> /\ Batches = {} /\ reading = {} /\ flushed = <<>>
  BY DEF Init, InUse, Other, Batches
<1>2. IsInjective(<<>>)
  BY DEF IsInjective
<1>3. Apart
  BY <1>1, <1>2, EmptyElements DEF Apart, Init
<1>4. Counted
  <2>1. \A m \in Messages : emitted[m] = 0 /\ Queue(m) = {} /\ ~Holds(Batches, m)
          /\ ~Holds(publishing \cup wire, m) /\ reconnects = 0
    BY <1>1 DEF Init, Queue, Holds
  <2> QED
    BY <1>1, <2>1, FS_EmptySet DEF Counted, Coming
<1> QED
  BY <1>3, <1>4

LEMMA CountTypes ==
  ASSUME TypeOK, Counted, NEW m \in Messages
  PROVE  /\ IsFiniteSet(Queue(m)) /\ Cardinality(Queue(m)) \in Nat
         /\ emitted[m] \in Nat /\ reconnects \in Nat /\ Coming(m) \in {0, 1}
<1>1. Queue(m) \in SUBSET reading /\ IsFiniteSet(reading)
  BY DEF Queue, Counted
<1>2. IsFiniteSet(Queue(m))
  BY <1>1, FS_Subset
<1>3. Coming(m) \in {0, 1}
  BY DEF Coming
<1>4. emitted[m] \in Nat /\ reconnects \in Nat
  BY PipelineAssumption DEF TypeOK
<1> QED
  BY <1>2, <1>3, <1>4, FS_CardinalityType

LEMMA ReaderAppend ==
  ASSUME TypeOK, WriterInv, Apart, Counted, NEW m \in Messages, AppendToCache(m)
  PROVE  Apart' /\ Counted'
<1> DEFINE u == Append(InUse, m)
<1>1. /\ InUse \in Seq(Messages) /\ Other \in Seq(Messages) /\ u \in Seq(Messages)
      /\ flushed \in Seq(Messages)
  BY AppendType DEF TypeOK
<1>2. UNCHANGED <<wire, retained, reading, emitted, reconnects>> /\ m \notin ToSet(arrived)
  BY DEF AppendToCache, readerVars
<1>3. m \notin ToSet(flushed) /\ m \notin ToSet(InUse) /\ m \notin ToSet(Other)
  BY <1>2, ConservedBuffers DEF WriterInv
<1>4. ToSet(u) = ToSet(InUse) \cup {m} /\ IsInjective(u)
  BY <1>1, <1>3, AppendElements, AppendKeepsApart DEF Apart
<1>5. ToSet(u) \cap ToSet(Other) = {} /\ ToSet(u) \cap ToSet(flushed) = {}
  BY <1>3, <1>4 DEF Apart
<1>6. ASSUME NEW b \in Batches, NEW x \in ToSet(b) PROVE x \in ToSet(flushed)
  <2>1. b \in Seq(Messages)
    BY DEF TypeOK, Batches
  <2>2. x \in Messages
    BY <2>1 DEF ToSet
  <2> QED
    BY <2>2 DEF Counted, Holds
<1>7. \A b \in Batches : ToSet(b) \cap ToSet(u) = {}
  BY <1>5, <1>6
<1>8. u \notin Batches
  BY <1>4, <1>7
<1>9. \A x \in Messages : Queue(x)' = Queue(x)
  BY <1>2 DEF Queue
<1>10. ASSUME \/ InUse' = u /\ Other' = Other
              \/ InUse' = Other /\ Other' = u,
              UNCHANGED <<flushed, publishing>>
       PROVE  Apart' /\ Counted'
  <2>1. Batches' = Batches
    BY <1>2, <1>10 DEF Batches
  <2>2. Apart'
    <3>1. IsInjective(InUse') /\ IsInjective(Other')
      BY <1>4, <1>10 DEF Apart
    <3>2. ToSet(InUse') \cap ToSet(Other') = {}
      BY <1>5, <1>10
    <3>3. ToSet(flushed') \cap (ToSet(InUse') \cup ToSet(Other')) = {}
      BY <1>5, <1>10 DEF Apart
    <3> QED
      BY <1>2, <1>10, <2>1, <3>1, <3>2, <3>3 DEF Apart
  <2>3. \A x \in Messages : Coming(x)' = Coming(x)
    BY <1>2, <1>10 DEF Coming, Holds
  <2>4. \A x \in Messages : Holds(Batches, x)' = Holds(Batches, x)
    BY <2>1 DEF Holds
  <2> QED
    BY <1>2, <1>9, <1>10, <2>2, <2>3, <2>4 DEF Counted
<1>11. CASE Flushed(m)
  <2>1. /\ InUse' = Other /\ Other' = <<>> /\ flushed' = flushed \o u
        /\ publishing' = publishing \cup {u} /\ Batches' = Batches \cup {u}
    BY <1>2, <1>11 DEF Flushed, Batches
  <2>2. ToSet(flushed') = ToSet(flushed) \cup ToSet(u)
    BY <1>1, <2>1, ConcatElements, ZenonT(60)
  <2>3. Apart'
    <3>1. IsInjective(<<>>) /\ ToSet(<<>>) = {}
      BY EmptyElements DEF IsInjective
    <3>2. \A b \in {InUse', Other'} \cup Batches' : IsInjective(b)
      BY <1>4, <2>1, <3>1 DEF Apart
    <3>3. \A b, c \in Batches' : ToSet(b) \cap ToSet(c) # {} => b = c
      BY <1>7, <2>1 DEF Apart
    <3>4. publishing' \cap (wire' \cup retained') = {}
      BY <1>2, <1>8, <2>1 DEF Apart, Batches
    <3>5. ToSet(flushed') \cap (ToSet(InUse') \cup ToSet(Other')) = {}
      BY <1>5, <2>1, <2>2, <3>1 DEF Apart
    <3> QED
      BY <1>2, <2>1, <3>1, <3>2, <3>3, <3>4, <3>5 DEF Apart
  <2>4. ASSUME NEW x \in Messages
        PROVE  /\ Holds(Batches, x)' \/ Queue(x)' # {} \/ emitted[x]' > 0 => x \in ToSet(flushed')
               /\ emitted[x]' + Cardinality(Queue(x)') + Coming(x)' <= 1 + reconnects'
    <3>0. emitted[x]' = emitted[x] /\ Queue(x)' = Queue(x) /\ reconnects' = reconnects
      BY <1>2, <1>9
    <3>1. CASE x \in ToSet(u)
      <4>1. x \notin ToSet(flushed)
        BY <1>5, <3>1
      <4>2. Queue(x) = {} /\ emitted[x] = 0
        BY <4>1, CountTypes DEF Counted
      <4>3. Coming(x)' \in {0, 1} /\ reconnects \in Nat
        BY CountTypes DEF Coming
      <4> QED
        BY <2>2, <3>0, <3>1, <4>2, <4>3, FS_EmptySet
    <3>2. CASE x \notin ToSet(u)
      <4>1. Coming(x)' = Coming(x)
        BY <1>2, <2>1, <3>2 DEF Coming, Holds
      <4>2. Holds(Batches, x)' => Holds(Batches, x)
        BY <2>1, <3>2 DEF Holds
      <4> QED
        BY <2>2, <3>0, <4>1, <4>2 DEF Counted
    <3> QED
      BY <3>1, <3>2
  <2> QED
    BY <1>2, <2>3, <2>4 DEF Counted
<1> QED
  BY <1>10, <1>11, AppendCases DEF Kept, Refused

(* The actions of the reader and the broker leave the buffers alone. *)
LEMMA ApartRest ==
  ASSUME Apart, UNCHANGED <<useA, bufferA, bufferB, flushed>>,
         Batches' \subseteq Batches,
         \A g \in reading' : IsInjective(g[2]),
         publishing' \cap (wire' \cup retained') = {}
  PROVE  Apart'
<1>1. InUse' = InUse /\ Other' = Other /\ flushed' = flushed
  BY DEF InUse, Other
<1> QED
  BY <1>1 DEF Apart

LEMMA Publishing ==
  ASSUME TypeOK, Apart, Counted, NEW b \in publishing, Publish(b)
  PROVE  Apart' /\ Counted'
<1>1. /\ publishing' = publishing \ {b} /\ wire' = wire \cup {b} /\ retained' = {b}
      /\ UNCHANGED <<useA, bufferA, bufferB, flushed, reading, emitted, reconnects>>
  BY DEF Publish, writerVars, readerVars
<1>2. Batches' \subseteq Batches
  BY <1>1 DEF Batches
<1>3. Apart'
  <2>1. publishing' \cap (wire' \cup retained') = {}
    BY <1>1 DEF Apart
  <2>2. \A g \in reading' : IsInjective(g[2])
    BY <1>1 DEF Apart
  <2> QED
    BY <1>1, <1>2, <2>1, <2>2, ApartRest
<1>4. publishing' \cup wire' = publishing \cup wire
  BY <1>1
<1>5. \A x : /\ Coming(x)' = Coming(x) /\ Queue(x)' = Queue(x)
             /\ Holds(Batches, x)' => Holds(Batches, x)
  BY <1>1, <1>2, <1>4 DEF Coming, Holds, Queue
<1> QED
  BY <1>1, <1>3, <1>5 DEF Counted

LEMMA Losing ==
  ASSUME TypeOK, Apart, Counted, NEW b \in wire, LoseBatch(b)
  PROVE  Apart' /\ Counted'
<1>1. /\ wire' = wire \ {b}
      /\ UNCHANGED <<useA, bufferA, bufferB, flushed, publishing, retained,
                     reading, emitted, reconnects>>
  BY DEF LoseBatch, writerVars, readerVars
<1>2. Batches' \subseteq Batches
  BY <1>1 DEF Batches
<1>3. Apart'
  <2>1. publishing' \cap (wire' \cup retained') = {}
    BY <1>1 DEF Apart
  <2>2. \A g \in reading' : IsInjective(g[2])
    BY <1>1 DEF Apart
  <2> QED
    BY <1>1, <1>2, <2>1, <2>2, ApartRest
<1>4. ASSUME NEW x \in Messages
      PROVE  /\ Holds(Batches, x)' \/ Queue(x)' # {} \/ emitted[x]' > 0 => x \in ToSet(flushed')
             /\ emitted[x]' + Cardinality(Queue(x)') + Coming(x)' <= 1 + reconnects'
  <2>1. Coming(x)' <= Coming(x) /\ Coming(x)' \in {0, 1}
    BY <1>1 DEF Coming, Holds
  <2>2. Queue(x)' = Queue(x) /\ (Holds(Batches, x)' => Holds(Batches, x))
    BY <1>1, <1>2 DEF Holds, Queue
  <2> QED
    BY <1>1, <2>1, <2>2, CountTypes DEF Counted
<1> QED
  BY <1>1, <1>3, <1>4 DEF Counted

LEMMA Receiving ==
  ASSUME TypeOK, Apart, Counted, NEW b \in wire, MessageReceived(b)
  PROVE  Apart' /\ Counted'
<1> DEFINE h == <<reconnects, b>>
<1>1. /\ wire' = wire \ {b} /\ reading' = reading \cup {h}
      /\ UNCHANGED <<useA, bufferA, bufferB, flushed, publishing, retained,
                     emitted, reconnects>>
  BY DEF MessageReceived, writerVars
<1>2. Batches' \subseteq Batches /\ b \in Batches
  BY <1>1 DEF Batches
<1>3. Apart'
  <2>1. publishing' \cap (wire' \cup retained') = {}
    BY <1>1 DEF Apart
  <2>2. \A g \in reading' : IsInjective(g[2])
    BY <1>1, <1>2 DEF Apart
  <2> QED
    BY <1>1, <1>2, <2>1, <2>2, ApartRest
<1>4. ASSUME NEW x \in Messages
      PROVE  /\ Holds(Batches, x)' \/ Queue(x)' # {} \/ emitted[x]' > 0 => x \in ToSet(flushed')
             /\ emitted[x]' + Cardinality(Queue(x)') + Coming(x)' <= 1 + reconnects'
  <2>1. Holds(Batches, x)' => Holds(Batches, x)
    BY <1>2 DEF Holds
  <2>2. CASE x \in ToSet(b)
    <3>1. Queue(x)' = Queue(x) \cup {h}
      BY <1>1, <2>2 DEF Queue
    <3>2. Cardinality(Queue(x)') <= Cardinality(Queue(x)) + 1 /\ Cardinality(Queue(x)') \in Nat
      <4>1. IsFiniteSet(Queue(x)) /\ Cardinality(Queue(x)) \in Nat
        BY CountTypes
      <4>2. /\ IsFiniteSet(Queue(x) \cup {h})
            /\ Cardinality(Queue(x) \cup {h}) =
                 IF h \in Queue(x) THEN Cardinality(Queue(x)) ELSE Cardinality(Queue(x)) + 1
        BY <4>1, FS_AddElement
      <4> QED
        BY <3>1, <4>1, <4>2
    <3>3. Coming(x) = 1
      BY <2>2 DEF Coming, Holds
    <3>4. Coming(x)' = 0
      <4>1. ASSUME NEW c \in publishing' \cup wire', x \in ToSet(c) PROVE FALSE
        <5>1. c \in Batches /\ c # b
          <6>1. publishing \cap wire = {}
            BY DEF Apart
          <6> QED
            BY <1>1, <4>1, <6>1 DEF Batches
        <5>2. ToSet(b) \cap ToSet(c) # {}
          BY <2>2, <4>1
        <5> QED
          BY <1>2, <5>1, <5>2 DEF Apart
      <4> QED
        BY <4>1 DEF Coming, Holds
    <3>5. Holds(Batches, x)
      BY <1>2, <2>2 DEF Holds
    <3>6. x \in ToSet(flushed) /\ emitted[x] + Cardinality(Queue(x)) + Coming(x) <= 1 + reconnects
      BY <3>5 DEF Counted
    <3> QED
      BY <1>1, <3>2, <3>3, <3>4, <3>6, CountTypes
  <2>3. CASE x \notin ToSet(b)
    <3>1. Queue(x)' = Queue(x) /\ Coming(x)' = Coming(x)
      BY <1>1, <2>3 DEF Queue, Coming, Holds
    <3> QED
      BY <1>1, <2>1, <3>1 DEF Counted
  <2> QED
    BY <2>2, <2>3
<1>5. IsFiniteSet(reading')
  BY <1>1, FS_AddElement DEF Counted
<1> QED
  BY <1>3, <1>4, <1>5 DEF Counted

LEMMA Reconnecting ==
  ASSUME TypeOK, Apart, Counted, Reconnect
  PROVE  Apart' /\ Counted'
<1>1. /\ reconnects' = reconnects + 1 /\ wire' = wire \cup retained
      /\ UNCHANGED <<useA, bufferA, bufferB, flushed, publishing, retained,
                     reading, emitted>>
  BY DEF Reconnect, writerVars
<1>2. Batches' = Batches
  BY <1>1 DEF Batches
<1>3. Apart'
  <2>1. publishing' \cap (wire' \cup retained') = {}
    BY <1>1 DEF Apart
  <2>2. \A g \in reading' : IsInjective(g[2])
    BY <1>1 DEF Apart
  <2> QED
    BY <1>1, <1>2, <2>1, <2>2, ApartRest
<1>4. ASSUME NEW x \in Messages
      PROVE  /\ Holds(Batches, x)' \/ Queue(x)' # {} \/ emitted[x]' > 0 => x \in ToSet(flushed')
             /\ emitted[x]' + Cardinality(Queue(x)') + Coming(x)' <= 1 + reconnects'
  <2>1. Holds(Batches, x)' = Holds(Batches, x) /\ Queue(x)' = Queue(x)
    BY <1>1, <1>2 DEF Holds, Queue
  <2>2. Coming(x)' \in {0, 1}
    BY DEF Coming
  <2> QED
    BY <1>1, <2>1, <2>2, CountTypes DEF Counted
<1> QED
  BY <1>1, <1>3, <1>4 DEF Counted

LEMMA Emitting ==
  ASSUME TypeOK, Apart, Counted, NEW g \in reading, Emit(g)
  PROVE  Apart' /\ Counted'
<1> DEFINE d == Head(g[2])
           h == <<g[1], Tail(g[2])>>
           next == IF Len(g[2]) = 1 THEN {} ELSE {h}
<1>1. /\ emitted' = [emitted EXCEPT ![d] = @ + 1]
      /\ reading' = (reading \ {g}) \cup next
      /\ UNCHANGED <<useA, bufferA, bufferB, flushed, publishing, wire, retained,
                     reconnects>>
  BY DEF Emit, writerVars
<1>2. g[2] \in Seq(Messages) /\ g[2] # <<>> /\ IsInjective(g[2])
  BY DEF TypeOK, Apart
<1>3. /\ d \in Messages /\ d \in ToSet(g[2]) /\ IsInjective(h[2])
      /\ ToSet(h[2]) = ToSet(g[2]) \ {d}
      /\ Len(g[2]) = 1 => ToSet(g[2]) = {d}
  BY <1>2, TailElements
<1>4. Batches' = Batches /\ publishing' \cup wire' = publishing \cup wire
  BY <1>1 DEF Batches
<1>5. Apart'
  <2>1. publishing' \cap (wire' \cup retained') = {}
    BY <1>1 DEF Apart
  <2>2. \A k \in reading' : IsInjective(k[2])
    BY <1>1, <1>3 DEF Apart
  <2> QED
    BY <1>1, <1>4, <2>1, <2>2, ApartRest
<1>6. ASSUME NEW x \in Messages
      PROVE  /\ Holds(Batches, x)' \/ Queue(x)' # {} \/ emitted[x]' > 0 => x \in ToSet(flushed')
             /\ emitted[x]' + Cardinality(Queue(x)') + Coming(x)' <= 1 + reconnects'
  <2>1. Holds(Batches, x)' = Holds(Batches, x) /\ Coming(x)' = Coming(x)
    BY <1>4 DEF Holds, Coming
  <2>2. IsFiniteSet(Queue(x)) /\ Cardinality(Queue(x)) \in Nat /\ emitted[x] \in Nat
        /\ reconnects \in Nat /\ Coming(x) \in {0, 1}
    BY CountTypes
  <2>3. /\ IsFiniteSet(Queue(x) \ {g}) /\ Cardinality(Queue(x) \ {g}) \in Nat
        /\ g \in Queue(x) => Cardinality(Queue(x) \ {g}) = Cardinality(Queue(x)) - 1
    <3>1. /\ IsFiniteSet(Queue(x) \ {g})
          /\ Cardinality(Queue(x) \ {g}) =
               IF g \in Queue(x) THEN Cardinality(Queue(x)) - 1 ELSE Cardinality(Queue(x))
      BY <2>2, FS_RemoveElement
    <3> QED
      BY <3>1, FS_CardinalityType
  <2>4. CASE x = d
    <3>1. Queue(x)' = Queue(x) \ {g} /\ g \in Queue(x)
      BY <1>1, <1>3, <2>4 DEF Queue
    <3>2. emitted[x]' = emitted[x] + 1
      BY <1>1, <2>4 DEF TypeOK
    <3>3. x \in ToSet(flushed)
      BY <3>1 DEF Counted
    <3>4. emitted[x] + Cardinality(Queue(x)) + Coming(x) <= 1 + reconnects
      BY DEF Counted
    <3> QED
      BY <1>1, <2>1, <2>2, <2>3, <3>1, <3>2, <3>3, <3>4, SMTT(60)
  <2>5. CASE x # d /\ x \in ToSet(g[2])
    <3>1. Queue(x)' = (Queue(x) \ {g}) \cup {h} /\ g \in Queue(x)
      BY <1>1, <1>3, <2>5 DEF Queue
    <3>2. Cardinality(Queue(x)') <= Cardinality(Queue(x)) /\ Cardinality(Queue(x)') \in Nat
      <4>1. /\ IsFiniteSet((Queue(x) \ {g}) \cup {h})
            /\ Cardinality((Queue(x) \ {g}) \cup {h}) =
                 IF h \in Queue(x) \ {g} THEN Cardinality(Queue(x) \ {g})
                 ELSE Cardinality(Queue(x) \ {g}) + 1
        BY <2>3, FS_AddElement
      <4> QED
        BY <2>2, <2>3, <3>1, <4>1
    <3>3. emitted[x]' = emitted[x]
      BY <1>1, <2>5 DEF TypeOK
    <3>4. x \in ToSet(flushed) /\ emitted[x] + Cardinality(Queue(x)) + Coming(x) <= 1 + reconnects
      BY <3>1 DEF Counted
    <3> QED
      BY <1>1, <2>1, <2>2, <3>2, <3>3, <3>4, SMTT(60)
  <2>6. CASE x \notin ToSet(g[2])
    <3>1. Queue(x)' = Queue(x)
      BY <1>1, <1>3, <2>6 DEF Queue
    <3>2. emitted[x]' = emitted[x]
      BY <1>1, <1>3, <2>6 DEF TypeOK
    <3> QED
      BY <1>1, <2>1, <3>1, <3>2 DEF Counted
  <2> QED
    BY <2>4, <2>5, <2>6
<1>7. IsFiniteSet(reading')
  <2>1. IsFiniteSet(reading \ {g})
    BY FS_RemoveElement DEF Counted
  <2>2. IsFiniteSet((reading \ {g}) \cup {h})
    BY <2>1, FS_AddElement
  <2> QED
    BY <1>1, <2>1, <2>2
<1> QED
  BY <1>5, <1>6, <1>7 DEF Counted

LEMMA ReaderStep ==
  TypeOK /\ WriterInv /\ Apart /\ Counted /\ [Next]_vars => Apart' /\ Counted'
<1> SUFFICES ASSUME TypeOK, WriterInv, Apart, Counted, [Next]_vars PROVE Apart' /\ Counted'
  OBVIOUS
<1>1. ASSUME NEW m \in Messages, AppendToCache(m) PROVE Apart' /\ Counted'
  BY <1>1, ReaderAppend
<1>2. ASSUME NEW b \in publishing, Publish(b) PROVE Apart' /\ Counted'
  BY <1>2, Publishing
<1>3. ASSUME NEW b \in wire, LoseBatch(b) PROVE Apart' /\ Counted'
  BY <1>3, Losing
<1>4. ASSUME NEW b \in wire, MessageReceived(b) PROVE Apart' /\ Counted'
  BY <1>4, Receiving
<1>5. ASSUME NEW g \in reading, Emit(g) PROVE Apart' /\ Counted'
  BY <1>5, Emitting
<1>6. CASE Reconnect
  BY <1>6, Reconnecting
<1>7. CASE IntervalPasses \/ UNCHANGED vars
  <2>1. UNCHANGED <<useA, bufferA, bufferB, flushed, publishing, wire, retained,
                    reading, emitted, reconnects>>
    BY <1>7 DEF IntervalPasses, vars, writerVars, readerVars
  <2>2. Batches' = Batches
    BY <2>1 DEF Batches
  <2>3. Apart'
    <3>1. publishing' \cap (wire' \cup retained') = {}
      BY <2>1 DEF Apart
    <3>2. \A g \in reading' : IsInjective(g[2])
      BY <2>1 DEF Apart
    <3> QED
      BY <2>1, <2>2, <3>1, <3>2, ApartRest
  <2>4. \A x : /\ Coming(x)' = Coming(x) /\ Queue(x)' = Queue(x)
               /\ Holds(Batches, x)' = Holds(Batches, x)
    BY <2>1, <2>2 DEF Coming, Holds, Queue
  <2> QED
    BY <2>1, <2>3, <2>4 DEF Counted
<1> QED
  BY <1>1, <1>2, <1>3, <1>4, <1>5, <1>6, <1>7 DEF Next

(* The reader publishes a message once, and once more at most for every    *)
(* time it reconnected.                                                    *)
THEOREM ReconnectsDuplicate == Spec => []DuplicatesBounded
<1>1. TypeOK /\ Counted => DuplicatesBounded
  BY CountTypes DEF Counted, DuplicatesBounded
<1>2. Init => Apart /\ Counted
  BY ReaderInit
<1>3. (TypeOK /\ WriterInv) /\ (Apart /\ Counted) /\ [Next]_vars => (Apart /\ Counted)'
  BY ReaderStep
<1> QED
  BY <1>1, <1>2, <1>3, WriterCorrect, PTL DEF Spec

=============================================================================
