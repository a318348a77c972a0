----------------------- MODULE SyntheticSource_proofs -----------------------
(***************************************************************************)
(* What the bus and the synthetic source promise, for any configuration    *)
(* that passes validation, any batch size and any other producer.          *)
(***************************************************************************)
EXTENDS SyntheticSource, DataLemmas, SequenceTheorems

-----------------------------------------------------------------------------
(* Entries at given positions *)

Place(i, P) == Cardinality({j \in P : j <= i})
At(k, P) == CHOOSE i \in P : Place(i, P) = k

\* A finite set of positions in ascending order.
LEMMA PlacesOrder ==
  ASSUME NEW P \in SUBSET Nat, IsFiniteSet(P)
  PROVE  /\ Cardinality(P) \in Nat
         /\ \A i \in P : Place(i, P) \in 1..Cardinality(P)
         /\ \A i, j \in P : i <= j <=> Place(i, P) <= Place(j, P)
         /\ \A i, j \in P : Place(i, P) = Place(j, P) => i = j
         /\ \A k \in 1..Cardinality(P) : \E i \in P : Place(i, P) = k
<1> DEFINE le == {p \in Nat \X Nat : p[1] <= p[2]}
<1>1. \A i, j \in P : <<i, j>> \in le <=> i <= j
  OBVIOUS
<1>2. IsTotalOrder(P, le)
  <2>1. \A i \in P : i \in Nat
    OBVIOUS
  <2> HIDE DEF le
  <2> QED BY <1>1, <2>1 DEF IsTotalOrder
<1> HIDE DEF le
<1>3. \A i \in P : {j \in P : <<j, i>> \in le} = {j \in P : j <= i}
  BY <1>1
<1>4. \A i \in P : Rank(i, P, le) = Place(i, P)
  BY <1>3, Zenon DEF Rank, Place
<1>5. /\ \A i \in P : Rank(i, P, le) \in 1..Cardinality(P)
      /\ \A i, j \in P : <<i, j>> \in le <=> Rank(i, P, le) <= Rank(j, P, le)
      /\ \A i, j \in P : Rank(i, P, le) = Rank(j, P, le) => i = j
  BY <1>2, RanksOrder
<1>6. \A k \in 1..Cardinality(P) : \E i \in P : Rank(i, P, le) = k
  BY <1>2, EveryRankTaken, ZenonT(60)
<1>7. Cardinality(P) \in Nat
  BY FS_CardinalityType
<1>8. ASSUME NEW i \in P, NEW j \in P PROVE i <= j <=> Place(i, P) <= Place(j, P)
  <2>1. i <= j <=> Rank(i, P, le) <= Rank(j, P, le)
    BY <1>1, <1>5
  <2>2. Rank(i, P, le) = Place(i, P) /\ Rank(j, P, le) = Place(j, P)
    BY <1>4
  <2> QED BY <2>1, <2>2
<1>9. /\ \A i \in P : Place(i, P) \in 1..Cardinality(P)
      /\ \A i, j \in P : Place(i, P) = Place(j, P) => i = j
      /\ \A k \in 1..Cardinality(P) : \E i \in P : Place(i, P) = k
  BY <1>4, <1>5, <1>6, Zenon
<1> QED BY <1>7, <1>8, <1>9

LEMMA AtPlace ==
  ASSUME NEW P \in SUBSET Nat, IsFiniteSet(P)
  PROVE  /\ \A k \in 1..Cardinality(P) : At(k, P) \in P /\ Place(At(k, P), P) = k
         /\ \A i \in P : At(Place(i, P), P) = i
         /\ \A k, l \in 1..Cardinality(P) : k < l => At(k, P) < At(l, P)
<1>1. ASSUME NEW k \in 1..Cardinality(P) PROVE At(k, P) \in P /\ Place(At(k, P), P) = k
  <2>1. \E i \in P : Place(i, P) = k
    BY PlacesOrder
  <2> QED BY <2>1 DEF At
<1>2. ASSUME NEW i \in P PROVE At(Place(i, P), P) = i
  <2>1. Place(i, P) \in 1..Cardinality(P)
    BY PlacesOrder
  <2>2. At(Place(i, P), P) \in P /\ Place(At(Place(i, P), P), P) = Place(i, P)
    BY <1>1, <2>1
  <2> QED BY <2>2, PlacesOrder
<1>3. ASSUME NEW k \in 1..Cardinality(P), NEW l \in 1..Cardinality(P), k < l
      PROVE  At(k, P) < At(l, P)
  <2>1. At(k, P) \in P /\ At(l, P) \in P /\ At(k, P) \in Nat /\ At(l, P) \in Nat
    BY <1>1
  <2>2. ~(At(l, P) <= At(k, P))
    BY <1>1, <1>3, <2>1, PlacesOrder
  <2> QED BY <2>1, <2>2
<1> QED BY <1>1, <1>2, <1>3

\* Taking entries out of a queue keeps their order.
LEMMA EntriesTaken ==
  ASSUME NEW E, NEW queue \in Seq(E), NEW P \in SUBSET DOMAIN queue
  PROVE  /\ IsFiniteSet(P) /\ P \in SUBSET Nat /\ EntriesAt(queue, P) \in Seq(E)
         /\ Len(EntriesAt(queue, P)) = Cardinality(P)
         /\ DOMAIN EntriesAt(queue, P) = 1..Cardinality(P)
         /\ \A k \in 1..Cardinality(P) : EntriesAt(queue, P)[k] = queue[At(k, P)]
         /\ \A k \in 1..Cardinality(P) : At(k, P) \in DOMAIN queue
         /\ ToSet(EntriesAt(queue, P)) = {queue[i] : i \in P}
<1> DEFINE n == Cardinality(P)
           taken == EntriesAt(queue, P)
<1>1. P \in SUBSET Nat /\ DOMAIN queue = 1..Len(queue) /\ Len(queue) \in Nat
  OBVIOUS
<1>2. IsFiniteSet(P)
  <2>1. IsFiniteSet(1..Len(queue))
    BY <1>1, FS_Interval
  <2> QED BY <1>1, <2>1, FS_Subset
<1>3. n \in Nat
  BY <1>2, FS_CardinalityType
<1>4. taken = [k \in 1..n |-> queue[At(k, P)]]
  BY DEF EntriesAt, At, Place
<1>5. \A k \in 1..n : At(k, P) \in P /\ queue[At(k, P)] \in E
  BY <1>1, <1>2, AtPlace, ElementOfSeq
<1> HIDE DEF n, taken
<1>6. taken \in Seq(E) /\ Len(taken) = n /\ DOMAIN taken = 1..n
  BY <1>3, <1>4, <1>5
<1>7. ToSet(taken) = {queue[i] : i \in P}
  <2>1. \A k \in 1..n : taken[k] \in {queue[i] : i \in P}
    BY <1>4, <1>5
  <2>2. \A i \in P : Place(i, P) \in 1..n /\ taken[Place(i, P)] = queue[i]
    BY <1>1, <1>2, <1>4, AtPlace, PlacesOrder DEF n
  <2> QED BY <1>6, <2>1, <2>2 DEF ToSet
<1> QED BY <1>1, <1>2, <1>4, <1>5, <1>6, <1>7 DEF n, taken

-----------------------------------------------------------------------------
(* The requests of a step *)

\* The positions of the requests of surge k.
Tagged(requests, k) == {i \in DOMAIN requests : requests[i].surge = k}

LEMMA TaggedFinite ==
  ASSUME NEW R, NEW requests \in Seq(R), NEW k
  PROVE  IsFiniteSet(Tagged(requests, k)) /\ Cardinality(Tagged(requests, k)) \in Nat
<1>1. DOMAIN requests = 1..Len(requests) /\ Len(requests) \in Nat
  OBVIOUS
<1>2. IsFiniteSet(DOMAIN requests)
  BY <1>1, FS_Interval
<1>3. Tagged(requests, k) \in SUBSET DOMAIN requests
  BY DEF Tagged
<1> QED BY <1>2, <1>3, FS_Subset, FS_CardinalityType

LEMMA TaggedConcat ==
  ASSUME NEW R, NEW s \in Seq(R), NEW t \in Seq(R), NEW k
  PROVE  Cardinality(Tagged(s \o t, k)) = Cardinality(Tagged(s, k)) + Cardinality(Tagged(t, k))
<1> DEFINE n == Len(s)
           moved == {n + j : j \in Tagged(t, k)}
           move == [j \in Tagged(t, k) |-> n + j]
<1>1. /\ n \in Nat /\ Len(t) \in Nat /\ DOMAIN s = 1..n /\ DOMAIN t = 1..Len(t)
      /\ s \o t \in Seq(R) /\ DOMAIN (s \o t) = 1..(n + Len(t))
  OBVIOUS
<1>2. /\ \A i \in 1..n : (s \o t)[i] = s[i]
      /\ \A j \in 1..Len(t) : (s \o t)[n + j] = t[j]
  OBVIOUS
<1> HIDE DEF n
<1>3. Tagged(s \o t, k) = Tagged(s, k) \cup moved
  <2>1. \A i \in Tagged(s \o t, k) : i \in 1..n \/ (i - n \in 1..Len(t) /\ i = n + (i - n))
    BY <1>1 DEF Tagged
  <2>2. \A i \in Tagged(s \o t, k) : i \in Tagged(s, k) \/ i \in moved
    BY <1>1, <1>2, <2>1 DEF Tagged
  <2>3. \A i \in Tagged(s, k) : i \in Tagged(s \o t, k)
    BY <1>1, <1>2 DEF Tagged
  <2>4. \A j \in Tagged(t, k) : n + j \in Tagged(s \o t, k)
    BY <1>1, <1>2 DEF Tagged
  <2> QED BY <2>2, <2>3, <2>4
<1>4. Tagged(s, k) \cap moved = {}
  BY <1>1 DEF Tagged
<1>5. IsFiniteSet(Tagged(s, k)) /\ IsFiniteSet(Tagged(t, k))
  BY TaggedFinite
<1>6. move \in Bijection(Tagged(t, k), moved)
  BY <1>1 DEF Bijection, Injection, Surjection, IsInjective, Tagged
<1> HIDE DEF move, moved
<1>7. IsFiniteSet(moved) /\ Cardinality(moved) = Cardinality(Tagged(t, k))
  BY <1>5, <1>6, FS_Bijection DEF ExistsBijection
<1>8. Cardinality(Tagged(s, k) \cup moved)
        = Cardinality(Tagged(s, k)) + Cardinality(moved) - Cardinality(Tagged(s, k) \cap moved)
  BY <1>5, <1>7, FS_Union
<1>9. Cardinality(Tagged(s, k) \cap moved) = 0
  BY <1>4, FS_EmptySet
<1>10. Cardinality(Tagged(s \o t, k)) = Cardinality(Tagged(s, k) \cup moved)
  BY <1>3, Zenon
<1>11. Cardinality(Tagged(s, k)) \in Nat /\ Cardinality(Tagged(t, k)) \in Nat
  BY TaggedFinite
<1> QED BY <1>7, <1>8, <1>9, <1>10, <1>11

\* A sequence whose requests are all of one surge.
LEMMA TaggedAll ==
  ASSUME NEW R, NEW s \in Seq(R), NEW k, \A i \in DOMAIN s : s[i].surge = k, NEW l
  PROVE  Cardinality(Tagged(s, l)) = IF l = k THEN Len(s) ELSE 0
<1>1. Len(s) \in Nat /\ DOMAIN s = 1..Len(s)
  OBVIOUS
<1>2. CASE l = k
  <2>1. Tagged(s, l) = 1..Len(s)
    BY <1>1, <1>2 DEF Tagged
  <2>2. Cardinality(1..Len(s)) = Len(s)
    <3> DEFINE n == Len(s)
    <3>1. n \in Nat
      BY <1>1
    <3> HIDE DEF n
    <3>2. Cardinality(1..n) = n
      BY <3>1, FS_Interval
    <3> QED BY <3>2 DEF n
  <2> QED BY <1>2, <2>1, <2>2
<1>3. CASE l # k
  <2>1. Tagged(s, l) = {}
    BY <1>3 DEF Tagged
  <2> QED BY <1>3, <2>1, FS_EmptySet
<1> QED BY <1>2, <1>3

\* Flattened, sequences keep their requests, and each surge as many as it had.
LEMMA Flattened ==
  ASSUME NEW R, NEW seqs \in Seq(Seq(R)),
         \A k \in DOMAIN seqs : \A i \in DOMAIN seqs[k] : seqs[k][i].surge = k
  PROVE  /\ FlattenSeq(seqs) \in Seq(R)
         /\ \A r \in ToSet(FlattenSeq(seqs)) : \E k \in DOMAIN seqs : r \in ToSet(seqs[k])
         /\ \A k \in DOMAIN seqs : Cardinality(Tagged(FlattenSeq(seqs), k)) = Len(seqs[k])
<1> DEFINE n == Len(seqs)
<1>1. n \in Nat /\ DOMAIN seqs = 1..n /\ \A k \in 1..n : seqs[k] \in Seq(R)
  BY ElementOfSeq
<1>2. CASE n = 0
  <2>1. FlattenSeq(seqs) = <<>> /\ seqs = <<>>
    BY <1>2, EmptySeq DEF FlattenSeq
  <2> QED BY <1>1, <1>2, <2>1 DEF ToSet
<1>3. CASE n # 0
  <2>1. PICK f : Flattens(f, seqs, n) /\ FlattenSeq(seqs) = f[n]
    BY <1>1, <1>3, Flattening
  <2> DEFINE Holds(m) ==
               /\ f[m] \in Seq(R)
               /\ \A r \in ToSet(f[m]) : \E k \in 1..n : r \in ToSet(seqs[k])
               /\ \A k \in 1..n :
                    Cardinality(Tagged(f[m], k)) = IF k <= m THEN Len(seqs[k]) ELSE 0
             Good == {m \in 0..n : m = 0 \/ Holds(m)}
  <2> HIDE DEF n
  <2>2. \A i \in 1..n : f[i] = IF i = 1 THEN seqs[i] ELSE f[i - 1] \o seqs[i]
    BY <2>1, Zenon DEF Flattens
  <2>3. \A l \in 1..n : \A k \in 1..n :
          Cardinality(Tagged(seqs[l], k)) = IF k = l THEN Len(seqs[l]) ELSE 0
    BY <1>1, TaggedAll
  <2>4. ASSUME NEW m \in 0..(n - 1), m \in Good PROVE m + 1 \in Good
    <3>1. m \in Nat /\ m + 1 \in 1..n /\ seqs[m + 1] \in Seq(R)
      BY <1>1
    <3>2. CASE m = 0
      <4>1. f[m + 1] = seqs[m + 1]
        BY <2>2, <3>1, <3>2
      <4>2. \A k \in 1..n : Cardinality(Tagged(f[m + 1], k)) = IF k <= m + 1 THEN Len(seqs[k]) ELSE 0
        BY <2>3, <3>1, <3>2, <4>1
      <4>3. Holds(m + 1)
        BY <3>1, <4>1, <4>2
      <4> QED BY <1>1, <3>1, <4>3
    <3>3. CASE m # 0
      <4>1. Holds(m)
        BY <2>4, <3>3
      <4>2. f[m + 1] = f[m] \o seqs[m + 1]
        <5>1. m + 1 # 1 /\ (m + 1) - 1 = m
          BY <3>1, <3>3
        <5>2. f[m + 1] = f[(m + 1) - 1] \o seqs[m + 1]
          BY <2>2, <3>1, <5>1, Zenon
        <5> QED BY <5>1, <5>2, Zenon
      <4>3. f[m + 1] \in Seq(R)
        BY <3>1, <4>1, <4>2
      <4>4. ASSUME NEW r \in ToSet(f[m + 1]) PROVE r \in ToSet(f[m]) \/ r \in ToSet(seqs[m + 1])
        BY <3>1, <4>1, <4>2, InConcat
      <4>5. \A r \in ToSet(f[m + 1]) : \E k \in 1..n : r \in ToSet(seqs[k])
        BY <3>1, <4>1, <4>4
      <4>6. ASSUME NEW k \in 1..n
            PROVE  Cardinality(Tagged(f[m + 1], k)) = IF k <= m + 1 THEN Len(seqs[k]) ELSE 0
        <5>1. Cardinality(Tagged(f[m] \o seqs[m + 1], k))
                = Cardinality(Tagged(f[m], k)) + Cardinality(Tagged(seqs[m + 1], k))
          BY <3>1, <4>1, TaggedConcat
        <5>2. Cardinality(Tagged(f[m], k)) = IF k <= m THEN Len(seqs[k]) ELSE 0
          BY <4>1
        <5>3. Cardinality(Tagged(seqs[m + 1], k)) = IF k = m + 1 THEN Len(seqs[m + 1]) ELSE 0
          BY <2>3, <3>1
        <5>4. Len(seqs[k]) \in Nat
          BY <1>1
        <5>5. Cardinality(Tagged(f[m + 1], k)) = Cardinality(Tagged(f[m] \o seqs[m + 1], k))
          BY <4>2, Zenon
        <5> QED BY <3>1, <5>1, <5>2, <5>3, <5>4, <5>5
      <4>7. Holds(m + 1)
        BY <4>3, <4>5, <4>6
      <4> QED BY <1>1, <3>1, <4>7
    <3> QED BY <3>2, <3>3
  <2>5. 0 \in Good
    BY <1>1
  <2> HIDE DEF Good
  <2>6. n \in Good
    BY <1>1, <2>4, <2>5, CountUp
  <2>7. Holds(n)
    BY <1>3, <2>6 DEF Good, n
  <2>8. \A k \in 1..n : Cardinality(Tagged(f[n], k)) = Len(seqs[k])
    <3>1. \A k \in 1..n : k <= n
      BY <1>1
    <3> QED BY <2>7, <3>1
  <2>9. f[n] \in Seq(R) /\ \A r \in ToSet(f[n]) : \E k \in 1..n : r \in ToSet(seqs[k])
    BY <2>7
  <2>10. DOMAIN seqs = 1..n
    BY <1>1
  <2> QED BY <2>1, <2>8, <2>9, <2>10, Zenon
<1> QED BY <1>2, <1>3

Reqs == [class : TrafficClasses \cup {"foreign"}, arrival : Nat, surge : Nat]

ConfigOk == config \in Candidates /\ Valid(config)
Profiles == [class : TrafficClasses, weight : Nat, minSize : Nat, maxSize : Nat]
SurgeEvents == [at : Nat, count : Nat \ {0}, class : TrafficClasses]

LEMMA ConfigTypes ==
  ASSUME ConfigOk
  PROVE  /\ DOMAIN config.mix = 1..Len(config.mix) /\ Len(config.mix) \in Nat \ {0}
         /\ \A i \in DOMAIN config.mix : config.mix[i] \in Profiles
         /\ DOMAIN config.surges = 1..Len(config.surges) /\ Len(config.surges) \in Nat
         /\ \A k \in DOMAIN config.surges : config.surges[k] \in SurgeEvents
         /\ config.regions \in Nat
<1>1. config.mix \in Seq(Profiles) /\ config.surges \in Seq(SurgeEvents) /\ config.regions \in Nat
  BY CandidatesAssumption DEF ConfigOk, Profiles, SurgeEvents
<1> DEFINE mix == config.mix
           surges == config.surges
<1>2. mix \in Seq(Profiles) /\ surges \in Seq(SurgeEvents) /\ \E i \in DOMAIN mix : TRUE
  BY <1>1 DEF ConfigOk, Valid
<1> HIDE DEF mix, surges
<1>3. /\ DOMAIN mix = 1..Len(mix) /\ Len(mix) \in Nat /\ Len(mix) # 0
      /\ DOMAIN surges = 1..Len(surges) /\ Len(surges) \in Nat
  BY <1>2
<1>4. /\ \A i \in 1..Len(mix) : mix[i] \in Profiles
      /\ \A k \in 1..Len(surges) : surges[k] \in SurgeEvents
  BY <1>2, ElementOfSeq
<1> QED BY <1>1, <1>3, <1>4 DEF mix, surges

\* Only classes of the mix are drawn.
LEMMA DrawnFromMix ==
  ASSUME ConfigOk
  PROVE  Drawable \subseteq ClassesOf(config) /\ ClassesOf(config) \subseteq TrafficClasses
<1>1. \A i \in DOMAIN config.mix : config.mix[i].class \in TrafficClasses
  BY ConfigTypes DEF Profiles
<1>2. 1 \in DOMAIN config.mix /\ Len(config.mix) \in DOMAIN config.mix
  BY ConfigTypes
<1> QED BY <1>1, <1>2 DEF Drawable, ClassesOf

\* A request of step s: baseline demand of a class drawn, or of a surge that is due.
OfStep(r, s, draws) ==
  /\ r.arrival = s
  /\ \/ r.surge = 0 /\ r.class \in ToSet(draws)
     \/ /\ r.surge \in DOMAIN config.surges /\ Due(r.surge, s)
        /\ r.class = config.surges[r.surge].class

LEMMA WhatIsProduced ==
  ASSUME ConfigOk, NEW s \in Nat, NEW draws \in Seq(Drawable)
  PROVE  /\ Produced(s, draws) \in Seq(Reqs)
         /\ \A r \in ToSet(Produced(s, draws)) : OfStep(r, s, draws)
         /\ \A k \in DOMAIN config.surges : Due(k, s) =>
              Cardinality(Tagged(Produced(s, draws), k)) = config.surges[k].count
<1> DEFINE base == Baseline(s, draws)
           bursts == [k \in DOMAIN config.surges |-> Surge(k, s)]
           n == Len(config.surges)
<1>1. n \in Nat /\ DOMAIN config.surges = 1..n /\ DOMAIN bursts = 1..n
  BY ConfigTypes
<1>2. /\ base \in Seq(Reqs)
      /\ \A i \in DOMAIN base : base[i].surge = 0 /\ OfStep(base[i], s, draws)
  <2>1. DOMAIN draws = 1..Len(draws) /\ Len(draws) \in Nat
    OBVIOUS
  <2>2. \A i \in 1..Len(draws) : draws[i] \in TrafficClasses /\ draws[i] \in ToSet(draws)
    <3>1. \A i \in 1..Len(draws) : draws[i] \in Drawable
      BY ElementOfSeq
    <3> QED BY <2>1, <3>1, DrawnFromMix DEF ToSet
  <2>3. base = [i \in 1..Len(draws) |-> [class |-> draws[i], arrival |-> s, surge |-> 0]]
    BY <2>1 DEF Baseline, Request
  <2>4. \A i \in 1..Len(draws) : [class |-> draws[i], arrival |-> s, surge |-> 0] \in Reqs
    BY <2>2 DEF Reqs
  <2> HIDE DEF base
  <2>5. base \in Seq(Reqs)
    BY <2>1, <2>3, <2>4
  <2> QED BY <2>1, <2>2, <2>3, <2>5 DEF OfStep
<1>3. ASSUME NEW k \in DOMAIN config.surges
      PROVE  /\ Surge(k, s) \in Seq(Reqs)
             /\ Due(k, s) => Len(Surge(k, s)) = config.surges[k].count
             /\ \A i \in DOMAIN Surge(k, s) :
                  Surge(k, s)[i].surge = k /\ OfStep(Surge(k, s)[i], s, draws)
  <2> DEFINE m == IF Due(k, s) THEN config.surges[k].count ELSE 0
             one == Request(config.surges[k].class, s, k)
  <2>1. m \in Nat /\ config.surges[k].class \in TrafficClasses /\ k \in Nat
    BY <1>1, ConfigTypes DEF SurgeEvents
  <2>2. one \in Reqs
    BY <2>1 DEF Request, Reqs
  <2>3. one.surge = k /\ one.arrival = s /\ one.class = config.surges[k].class
    BY DEF Request
  <2>4. Surge(k, s) = [i \in 1..m |-> one]
    BY DEF Surge
  <2>5. m # 0 => Due(k, s) /\ m = config.surges[k].count
    OBVIOUS
  <2>6. Due(k, s) => m = config.surges[k].count
    OBVIOUS
  <2> HIDE DEF m, one
  <2>7. Surge(k, s) \in Seq(Reqs) /\ Len(Surge(k, s)) = m /\ DOMAIN Surge(k, s) = 1..m
    BY <2>1, <2>2, <2>4
  <2>8. \A i \in 1..m : Surge(k, s)[i] = one /\ m # 0
    BY <2>1, <2>4
  <2> QED BY <2>3, <2>5, <2>6, <2>7, <2>8 DEF OfStep
<1>4. bursts \in Seq(Seq(Reqs)) /\ \A k \in 1..n : bursts[k] = Surge(k, s)
  BY <1>1, <1>3
<1> HIDE DEF base, bursts
<1>5. /\ FlattenSeq(bursts) \in Seq(Reqs)
      /\ \A r \in ToSet(FlattenSeq(bursts)) : \E k \in 1..n : r \in ToSet(bursts[k])
      /\ \A k \in 1..n : Cardinality(Tagged(FlattenSeq(bursts), k)) = Len(bursts[k])
  <2>1. \A k \in DOMAIN bursts : \A i \in DOMAIN bursts[k] : bursts[k][i].surge = k
    BY <1>1, <1>3, <1>4
  <2> QED BY <1>1, <1>4, <2>1, Flattened
<1>6. Produced(s, draws) = base \o FlattenSeq(bursts)
  BY DEF Produced, base, bursts
<1>7. Produced(s, draws) \in Seq(Reqs)
  BY <1>2, <1>5, <1>6
<1>8. ASSUME NEW r \in ToSet(Produced(s, draws)) PROVE OfStep(r, s, draws)
  <2>1. r \in ToSet(base) \/ r \in ToSet(FlattenSeq(bursts))
    BY <1>2, <1>5, <1>6, InConcat
  <2>2. CASE r \in ToSet(base)
    BY <1>2, <2>2 DEF ToSet
  <2>3. CASE r \in ToSet(FlattenSeq(bursts))
    <3>1. PICK k \in 1..n : r \in ToSet(Surge(k, s))
      BY <1>4, <1>5, <2>3
    <3> QED BY <1>1, <1>3, <3>1 DEF ToSet
  <2> QED BY <2>1, <2>2, <2>3
<1>9. ASSUME NEW k \in 1..n, Due(k, s)
      PROVE  Cardinality(Tagged(Produced(s, draws), k)) = config.surges[k].count
  <2>1. Cardinality(Tagged(base, k)) = 0
    BY <1>1, <1>2, TaggedAll, SMTT(30)
  <2>2. Cardinality(Tagged(FlattenSeq(bursts), k)) = config.surges[k].count
    BY <1>1, <1>3, <1>4, <1>5, <1>9
  <2>3. Cardinality(Tagged(base \o FlattenSeq(bursts), k))
          = Cardinality(Tagged(base, k)) + Cardinality(Tagged(FlattenSeq(bursts), k))
    BY <1>2, <1>5, TaggedConcat
  <2>4. config.surges[k].count \in Nat
    BY <1>1, ConfigTypes DEF SurgeEvents
  <2>5. Cardinality(Tagged(Produced(s, draws), k))
          = Cardinality(Tagged(base \o FlattenSeq(bursts), k))
    BY <1>6, Zenon
  <2> QED BY <2>1, <2>2, <2>3, <2>4, <2>5
<1> QED BY <1>1, <1>7, <1>8, <1>9

\* What is published of it: everything, or what comes before a request that fails.
LEMMA WhatIsPublished ==
  ASSUME NEW R, NEW requests \in Seq(R)
  PROVE  /\ Published(requests) \in Seq(R) /\ ToSet(Published(requests)) \subseteq ToSet(requests)
         /\ FirstFailure(requests) = 0 => Published(requests) = requests
         /\ FirstFailure(requests) # 0 => \E r \in ToSet(requests) : Fails(r)
<1> DEFINE I == {i \in 1..Len(requests) : Fails(requests[i])}
<1>0. DOMAIN requests = 1..Len(requests) /\ Len(requests) \in Nat
  OBVIOUS
<1>1. FirstFailure(requests) = IF I # {} THEN Min(I) ELSE 0
  BY DEF FirstFailure, SelectInSeq
<1>2. CASE I = {}
  BY <1>1, <1>2 DEF Published
<1>3. CASE I # {}
  <2>1. I \in SUBSET Nat /\ I \in SUBSET 1..Len(requests)
    OBVIOUS
  <2>2. \E r \in ToSet(requests) : Fails(r)
    BY <1>0, <1>3 DEF ToSet
  <2> HIDE DEF I
  <2>3. \E n \in I : \A m \in I : n <= m
    BY <1>3, <2>1, LeastNatural
  <2>4. Min(I) \in I
    BY <2>3 DEF Min
  <2> DEFINE n == Min(I) - 1
  <2>5. /\ n \in 0..Len(requests) /\ FirstFailure(requests) # 0
        /\ Published(requests) = SubSeq(requests, 1, n)
    <3>1. Min(I) \in 1..Len(requests)
      BY <2>1, <2>4
    <3>2. FirstFailure(requests) = Min(I)
      BY <1>1, <1>3
    <3>3. n \in 0..Len(requests) /\ Min(I) # 0
      BY <1>0, <3>1
    <3> QED BY <3>2, <3>3 DEF Published
  <2> HIDE DEF n
  <2>6. /\ SubSeq(requests, 1, n) \in Seq(R) /\ DOMAIN SubSeq(requests, 1, n) = 1..n
        /\ \A i \in 1..n : SubSeq(requests, 1, n)[i] = requests[i] /\ i \in 1..Len(requests)
    BY <1>0, <2>5
  <2>7. ToSet(SubSeq(requests, 1, n)) \subseteq ToSet(requests)
    BY <1>0, <2>6 DEF ToSet
  <2> QED BY <2>2, <2>5, <2>6, <2>7
<1> QED BY <1>2, <1>3

-----------------------------------------------------------------------------
(* The bus *)

BusEntries == [available : Nat, seq : Nat, request : Reqs]

\* Entries are numbered as they are published, and their order is kept.
BusInv ==
  /\ step \in Nat /\ seq \in Nat
  /\ pending \in Seq(BusEntries) /\ drained \in Seq(BusEntries)
  /\ ExactlyOnce
  /\ \A i, j \in DOMAIN pending : i < j => pending[i].seq < pending[j].seq
  /\ SeqsOf(pending) \cap SeqsOf(drained) = {}

\* What PublishAll appends.
NewEntries(requests, available) ==
  [i \in DOMAIN requests |-> Entry(requests[i], available, seq + i - 1)]

LEMMA SeqsOfQueue ==
  ASSUME NEW q \in Seq(BusEntries)
  PROVE  SeqsOf(q) = {q[i].seq : i \in DOMAIN q}
  BY DEF SeqsOf, ToSet

LEMMA SeqsOfConcat ==
  ASSUME NEW a \in Seq(BusEntries), NEW b \in Seq(BusEntries)
  PROVE  SeqsOf(a \o b) = SeqsOf(a) \cup SeqsOf(b)
<1>1. ToSet(a \o b) = ToSet(a) \cup ToSet(b)
  BY InConcat
<1> QED BY <1>1 DEF SeqsOf

LEMMA PublishNumbers ==
  ASSUME seq \in Nat, NEW requests \in Seq(Reqs), NEW available \in Nat
  PROVE  /\ NewEntries(requests, available) \in Seq(BusEntries)
         /\ Len(NewEntries(requests, available)) = Len(requests)
         /\ DOMAIN NewEntries(requests, available) = 1..Len(requests)
         /\ \A i \in 1..Len(requests) :
              /\ NewEntries(requests, available)[i].seq = seq + i - 1
              /\ NewEntries(requests, available)[i].request = requests[i]
              /\ NewEntries(requests, available)[i].available = available
         /\ SeqsOf(NewEntries(requests, available)) = seq..(seq + Len(requests) - 1)
<1> DEFINE new == NewEntries(requests, available)
           n == Len(requests)
<1>1. n \in Nat /\ DOMAIN requests = 1..n /\ \A i \in 1..n : requests[i] \in Reqs
  BY ElementOfSeq
<1> HIDE DEF n
<1>2. ASSUME NEW i \in 1..n
      PROVE  /\ new[i] \in BusEntries /\ new[i].seq = seq + i - 1
             /\ new[i].request = requests[i] /\ new[i].available = available
  <2>1. seq + i - 1 \in Nat
    BY <1>1
  <2> QED BY <1>1, <2>1 DEF NewEntries, Entry, BusEntries
<1>3. new = [i \in DOMAIN new |-> new[i]] /\ DOMAIN new = 1..n
  BY <1>1 DEF NewEntries
<1> HIDE DEF new
<1>4. new \in Seq(BusEntries) /\ Len(new) = n
  BY <1>1, <1>2, <1>3, SeqByIndex
<1>5. SeqsOf(new) = seq..(seq + n - 1)
  <2>1. SeqsOf(new) = {new[i].seq : i \in 1..n}
    BY <1>3, <1>4, SeqsOfQueue
  <2>2. \A i \in 1..n : new[i].seq \in seq..(seq + n - 1)
    BY <1>1, <1>2
  <2>3. \A m \in seq..(seq + n - 1) : m - seq + 1 \in 1..n /\ new[m - seq + 1].seq = m
    BY <1>1, <1>2
  <2> QED BY <2>1, <2>2, <2>3
<1> QED BY <1>2, <1>3, <1>4, <1>5 DEF n, new

LEMMA PublishKeepsBus ==
  ASSUME BusInv, NEW requests \in Seq(Reqs), NEW available \in Nat, PublishAll(requests, available)
  PROVE  /\ BusInv'
         /\ Entries' = Entries \cup ToSet(NewEntries(requests, available))
<1> DEFINE new == NewEntries(requests, available)
           n == Len(requests)
<1>1. /\ pending' = pending \o new /\ seq' = seq + n /\ step' = step /\ drained' = drained
      /\ seq \in Nat /\ n \in Nat /\ pending \in Seq(BusEntries) /\ drained \in Seq(BusEntries)
  BY DEF PublishAll, NewEntries, BusInv
<1>2. /\ new \in Seq(BusEntries) /\ Len(new) = n /\ DOMAIN new = 1..n
      /\ \A i \in 1..n : new[i].seq = seq + i - 1
      /\ SeqsOf(new) = seq..(seq + n - 1)
  BY <1>1, PublishNumbers
<1>3. /\ SeqsOf(pending) \cup SeqsOf(drained) = 0..(seq - 1)
      /\ Len(pending) + Len(drained) = seq
      /\ SeqsOf(pending) \cap SeqsOf(drained) = {}
      /\ \A i, j \in DOMAIN pending : i < j => pending[i].seq < pending[j].seq
  BY DEF BusInv, ExactlyOnce
<1> HIDE DEF new, n
<1>4. /\ SeqsOf(pending \o new) = SeqsOf(pending) \cup SeqsOf(new)
      /\ pending \o new \in Seq(BusEntries) /\ Len(pending \o new) = Len(pending) + n
      /\ ToSet(pending \o new) = ToSet(pending) \cup ToSet(new)
  <2>1. Len(pending \o new) = Len(pending) + Len(new) /\ pending \o new \in Seq(BusEntries)
    BY <1>1, <1>2, ConcatSeq
  <2> QED BY <1>1, <1>2, <2>1, SeqsOfConcat, InConcat
<1>5. SeqsOf(pending') = SeqsOf(pending) \cup SeqsOf(new) /\ SeqsOf(drained') = SeqsOf(drained)
  BY <1>1, <1>4 DEF SeqsOf
<1>6. ExactlyOnce'
  <2>1. SeqsOf(pending') \cup SeqsOf(drained') = 0..(seq' - 1)
    <3>1. 0..(seq + n - 1) = (0..(seq - 1)) \cup (seq..(seq + n - 1))
      BY <1>1
    <3> QED BY <1>1, <1>2, <1>3, <1>5, <3>1
  <2>2. Len(pending') + Len(drained') = seq'
    <3>1. Len(pending) \in Nat /\ Len(drained) \in Nat
      BY <1>1
    <3>2. Len(pending') = Len(pending) + n /\ Len(drained') = Len(drained)
      BY <1>1, <1>4
    <3>3. Len(pending) + Len(drained) = seq /\ seq \in Nat /\ n \in Nat /\ seq' = seq + n
      BY <1>1, <1>3
    <3> QED BY <3>1, <3>2, <3>3
  <2> QED BY <2>1, <2>2 DEF ExactlyOnce
<1>7. SeqsOf(pending') \cap SeqsOf(drained') = {}
  BY <1>1, <1>2, <1>3, <1>5
<1>8. ASSUME NEW i \in DOMAIN pending', NEW j \in DOMAIN pending', i < j
      PROVE  pending'[i].seq < pending'[j].seq
  <2> DEFINE m == Len(pending)
  <2>1. /\ m \in Nat /\ DOMAIN pending = 1..m /\ i \in 1..(m + n) /\ j \in 1..(m + n)
        /\ \A k \in 1..m : pending'[k] = pending[k]
        /\ \A k \in 1..n : pending'[m + k] = new[k]
    BY <1>1, <1>2, ConcatSeq
  <2>2. \A k \in 1..m : pending[k].seq \in 0..(seq - 1)
    <3>1. \A k \in 1..m : pending[k].seq \in SeqsOf(pending)
      BY <1>1, <2>1, SeqsOfQueue
    <3> QED BY <1>3, <3>1
  <2> HIDE DEF m
  <2>3. ASSUME NEW k \in 1..(m + n), k > m PROVE pending'[k].seq = seq + (k - m) - 1
    <3>1. k - m \in 1..n /\ k = m + (k - m)
      BY <1>1, <2>1, <2>3
    <3>2. pending'[k] = new[k - m]
      BY <2>1, <3>1
    <3> QED BY <1>2, <3>1, <3>2
  <2>4. CASE j <= m
    <3>1. i \in 1..m /\ j \in 1..m
      BY <1>8, <2>1, <2>4
    <3> QED BY <1>3, <1>8, <2>1, <3>1
  <2>5. CASE i <= m /\ j > m
    <3>1. i \in 1..m /\ pending'[i] = pending[i] /\ pending[i].seq \in 0..(seq - 1)
      BY <1>1, <2>1, <2>2, <2>5
    <3> QED BY <1>1, <2>1, <2>3, <2>5, <3>1
  <2>6. CASE i > m
    BY <1>1, <1>8, <2>1, <2>3, <2>6
  <2> QED BY <2>1, <2>4, <2>5, <2>6
<1>9. Entries' = Entries \cup ToSet(new)
  BY <1>1, <1>4 DEF Entries
<1>10. step' \in Nat /\ seq' \in Nat /\ pending' \in Seq(BusEntries) /\ drained' \in Seq(BusEntries)
  BY <1>1, <1>4 DEF BusInv
<1> QED BY <1>6, <1>7, <1>8, <1>9, <1>10 DEF BusInv, new

\* The positions a batch is taken from, and those it leaves.
LEMMA TakenPositions ==
  ASSUME BusInv
  PROVE  /\ Taken(pending) \in SUBSET DOMAIN pending
         /\ VisiblePositions(pending) \in SUBSET DOMAIN pending
         /\ DOMAIN pending \in SUBSET Nat /\ IsFiniteSet(DOMAIN pending)
         /\ DOMAIN pending = 1..Len(pending) /\ Len(pending) \in Nat
         /\ Cardinality(DOMAIN pending) = Len(pending)
<1> DEFINE n == Len(pending)
<1>1. n \in Nat /\ DOMAIN pending = 1..n
  BY DEF BusInv
<1> HIDE DEF n
<1>2. IsFiniteSet(1..n) /\ Cardinality(1..n) = n
  BY <1>1, FS_Interval
<1>3. Taken(pending) \in SUBSET DOMAIN pending /\ VisiblePositions(pending) \in SUBSET DOMAIN pending
  BY DEF Taken, VisiblePositions
<1> QED BY <1>1, <1>2, <1>3 DEF n

LEMMA SeqsDistinct ==
  ASSUME BusInv, NEW i \in DOMAIN pending, NEW j \in DOMAIN pending, pending[i].seq = pending[j].seq
  PROVE  i = j
<1>1. i \in Nat /\ j \in Nat
  BY TakenPositions
<1>2. pending[i] \in BusEntries /\ pending[j] \in BusEntries
  BY TakenPositions, ElementOfSeq DEF BusInv
<1>3. pending[i].seq \in Nat /\ pending[j].seq \in Nat
  BY <1>2 DEF BusEntries
<1>4. ~(i < j) /\ ~(j < i)
  BY <1>3 DEF BusInv
<1> QED BY <1>1, <1>4

LEMMA DrainKeepsBus ==
  ASSUME BusInv, Drain
  PROVE  /\ BusInv' /\ Entries' = Entries
         /\ SeqsOf(drained') \ SeqsOf(drained) = {pending[i].seq : i \in Taken(pending)}
         /\ SeqsOf(pending') = {pending[i].seq : i \in DOMAIN pending \ Taken(pending)}
<1> DEFINE T == Taken(pending)
           L == DOMAIN pending \ T
           out == EntriesAt(pending, T)
           left == EntriesAt(pending, L)
<1>1. /\ drained' = drained \o out /\ pending' = left /\ step' = step /\ seq' = seq
      /\ pending \in Seq(BusEntries) /\ drained \in Seq(BusEntries)
      /\ step \in Nat /\ seq \in Nat
  BY DEF Drain, Remaining, BusInv
<1>2. /\ T \in SUBSET DOMAIN pending /\ L \in SUBSET DOMAIN pending /\ IsFiniteSet(DOMAIN pending)
      /\ Cardinality(DOMAIN pending) = Len(pending) /\ Len(pending) \in Nat
      /\ DOMAIN pending \in SUBSET Nat
  BY TakenPositions
<1>3. /\ SeqsOf(pending) \cup SeqsOf(drained) = 0..(seq - 1)
      /\ Len(pending) + Len(drained) = seq
      /\ SeqsOf(pending) \cap SeqsOf(drained) = {}
      /\ \A i, j \in DOMAIN pending : i < j => pending[i].seq < pending[j].seq
  BY DEF BusInv, ExactlyOnce
<1>4. /\ IsFiniteSet(T) /\ T \in SUBSET Nat /\ out \in Seq(BusEntries)
      /\ Len(out) = Cardinality(T) /\ ToSet(out) = {pending[i] : i \in T}
  BY <1>1, <1>2, EntriesTaken
<1>5. /\ IsFiniteSet(L) /\ L \in SUBSET Nat /\ left \in Seq(BusEntries)
      /\ Len(left) = Cardinality(L) /\ DOMAIN left = 1..Cardinality(L)
      /\ ToSet(left) = {pending[i] : i \in L}
      /\ \A k \in 1..Cardinality(L) : left[k] = pending[At(k, L)]
  BY <1>1, <1>2, EntriesTaken
<1>6. Cardinality(T) + Cardinality(L) = Len(pending) /\ Cardinality(T) \in Nat /\ Cardinality(L) \in Nat
  <2>1. Cardinality(L) = Cardinality(DOMAIN pending) - Cardinality(DOMAIN pending \cap T)
    BY <1>2, FS_Difference
  <2>2. DOMAIN pending \cap T = T
    BY <1>2
  <2>3. Cardinality(DOMAIN pending \cap T) = Cardinality(T)
    BY <2>2, Zenon
  <2>4. Cardinality(T) \in Nat /\ Cardinality(L) \in Nat
    BY <1>4, <1>5, FS_CardinalityType
  <2> QED BY <1>2, <2>1, <2>3, <2>4
<1> HIDE DEF out, left, T
<1>7. /\ SeqsOf(out) = {pending[i].seq : i \in T} /\ SeqsOf(left) = {pending[i].seq : i \in L}
      /\ SeqsOf(pending) = {pending[i].seq : i \in DOMAIN pending}
  <2>1. SeqsOf(out) = {pending[i].seq : i \in T}
    BY <1>4 DEF SeqsOf
  <2>2. SeqsOf(left) = {pending[i].seq : i \in L}
    BY <1>5 DEF SeqsOf
  <2> QED BY <1>1, <2>1, <2>2, SeqsOfQueue
<1>8. /\ SeqsOf(drained') = SeqsOf(drained) \cup SeqsOf(out) /\ SeqsOf(pending') = SeqsOf(left)
      /\ drained' \in Seq(BusEntries) /\ Len(drained') = Len(drained) + Len(out)
      /\ ToSet(drained') = ToSet(drained) \cup ToSet(out) /\ Len(drained) \in Nat
  <2>1. /\ SeqsOf(drained \o out) = SeqsOf(drained) \cup SeqsOf(out)
        /\ ToSet(drained \o out) = ToSet(drained) \cup ToSet(out)
    BY <1>1, <1>4, SeqsOfConcat, InConcat
  <2>2. /\ drained \o out \in Seq(BusEntries) /\ Len(drained \o out) = Len(drained) + Len(out)
        /\ Len(drained) \in Nat
    BY <1>1, <1>4, ConcatSeq
  <2>3. SeqsOf(pending') = SeqsOf(left) /\ SeqsOf(drained') = SeqsOf(drained \o out)
    BY <1>1 DEF SeqsOf
  <2> QED BY <1>1, <2>1, <2>2, <2>3
<1>9. SeqsOf(out) \cup SeqsOf(left) = SeqsOf(pending) /\ SeqsOf(out) \cap SeqsOf(left) = {}
  <2>1. \A i \in T, j \in L : pending[i].seq # pending[j].seq
    BY <1>2, SeqsDistinct
  <2> QED BY <1>2, <1>7, <2>1
<1>10. ExactlyOnce'
  <2>1. SeqsOf(pending') \cup SeqsOf(drained') = 0..(seq' - 1)
    BY <1>1, <1>3, <1>8, <1>9
  <2>2. Len(pending') = Cardinality(L) /\ Len(drained') = Len(drained) + Cardinality(T)
    BY <1>1, <1>4, <1>5, <1>8
  <2>3. Len(pending') + Len(drained') = seq'
    <3>1. Len(pending) + Len(drained) = seq /\ seq' = seq /\ Len(drained) \in Nat
      BY <1>1, <1>3, <1>8
    <3> QED BY <1>2, <1>6, <2>2, <3>1
  <2> QED BY <2>1, <2>3 DEF ExactlyOnce
<1>11. SeqsOf(pending') \cap SeqsOf(drained') = {}
  BY <1>3, <1>8, <1>9
<1>12. ASSUME NEW i \in DOMAIN pending', NEW j \in DOMAIN pending', i < j
       PROVE  pending'[i].seq < pending'[j].seq
  <2>1. i \in 1..Cardinality(L) /\ j \in 1..Cardinality(L)
    BY <1>1, <1>5
  <2>2. At(i, L) \in L /\ At(j, L) \in L /\ At(i, L) < At(j, L)
    BY <1>5, <1>12, <2>1, AtPlace
  <2>3. pending'[i] = pending[At(i, L)] /\ pending'[j] = pending[At(j, L)]
    BY <1>1, <1>5, <2>1
  <2> QED BY <1>2, <1>3, <2>2, <2>3
<1>13. Entries' = Entries
  <2>1. ToSet(pending) = {pending[i] : i \in DOMAIN pending}
    BY DEF ToSet
  <2>2. ToSet(pending') \cup ToSet(out) = ToSet(pending)
    BY <1>1, <1>2, <1>4, <1>5, <2>1
  <2> QED BY <1>8, <2>2 DEF Entries
<1>14. BusInv'
  BY <1>1, <1>5, <1>8, <1>10, <1>11, <1>12 DEF BusInv
<1>15. /\ SeqsOf(drained') \ SeqsOf(drained) = {pending[i].seq : i \in T}
       /\ SeqsOf(pending') = {pending[i].seq : i \in L}
  BY <1>3, <1>7, <1>8, <1>9
<1> QED BY <1>13, <1>14, <1>15 DEF T

\* Whoever is passed over sees a full batch of earlier entries go.
LEMMA BatchFullOfEarlier ==
  ASSUME BusInv, Drain, NEW e \in ToSet(pending), e.available <= step, e.seq \in SeqsOf(pending')
  PROVE  Cardinality({d \in SeqsOf(drained') \ SeqsOf(drained) : d < e.seq}) = MaxBatch
<1> DEFINE V == VisiblePositions(pending)
           T == Taken(pending)
           gone == {pending[j].seq : j \in T}
           number == [j \in T |-> pending[j].seq]
           place == [j \in T |-> Place(j, V)]
<1>1. /\ V \in SUBSET DOMAIN pending /\ T \in SUBSET DOMAIN pending
      /\ V \in SUBSET Nat /\ IsFiniteSet(V)
  BY TakenPositions, FS_Subset
<1>2. T = {j \in V : Place(j, V) <= MaxBatch}
  BY DEF Taken, Place
<1>3. PICK i \in DOMAIN pending : e = pending[i]
  BY DEF ToSet
<1>4. i \in V
  BY <1>3 DEF VisiblePositions
<1>5. i \notin T
  <2>1. SeqsOf(pending') = {pending[j].seq : j \in DOMAIN pending \ T}
    BY DrainKeepsBus
  <2>2. PICK j \in DOMAIN pending \ T : e.seq = pending[j].seq
    BY <2>1
  <2> QED BY <1>3, <2>2, SeqsDistinct
<1>6. MaxBatch \in Nat \ {0}
  BY BusAssumption
<1>7. /\ Cardinality(V) \in Nat /\ \A j \in V : Place(j, V) \in 1..Cardinality(V)
      /\ \A j, k \in V : j <= k <=> Place(j, V) <= Place(k, V)
      /\ \A j, k \in V : Place(j, V) = Place(k, V) => j = k
      /\ \A k \in 1..Cardinality(V) : \E j \in V : Place(j, V) = k
  BY <1>1, PlacesOrder
<1>8. Place(i, V) > MaxBatch /\ MaxBatch < Cardinality(V)
  BY <1>2, <1>4, <1>5, <1>6, <1>7
<1>9. \A j \in T : j < i /\ j \in V /\ Place(j, V) \in 1..MaxBatch
  <2> SUFFICES ASSUME NEW j \in T PROVE j < i /\ j \in V /\ Place(j, V) \in 1..MaxBatch
    OBVIOUS
  <2>1. j \in V /\ Place(j, V) <= MaxBatch /\ i \in Nat /\ j \in Nat
    BY <1>1, <1>2, <1>4
  <2>2. Place(j, V) \in 1..Cardinality(V) /\ Place(i, V) \in 1..Cardinality(V)
    BY <1>4, <1>7, <2>1
  <2>3. ~(i <= j)
    BY <1>4, <1>6, <1>7, <1>8, <2>1, <2>2
  <2> QED BY <1>6, <2>1, <2>2, <2>3
<1>10. place \in Bijection(T, 1..MaxBatch)
  <2>1. \A k \in 1..MaxBatch : \E j \in T : Place(j, V) = k
    <3> SUFFICES ASSUME NEW k \in 1..MaxBatch PROVE \E j \in T : Place(j, V) = k
      OBVIOUS
    <3>1. k \in 1..Cardinality(V) /\ k <= MaxBatch
      BY <1>6, <1>7, <1>8
    <3> QED BY <1>2, <1>7, <3>1
  <2> HIDE DEF T
  <2> QED BY <1>7, <1>9, <2>1 DEF Bijection, Injection, Surjection, IsInjective
<1>11. number \in Bijection(T, gone)
  <2>1. \A j, k \in T : pending[j].seq = pending[k].seq => j = k
    BY <1>1, SeqsDistinct
  <2> HIDE DEF T
  <2> QED BY <2>1 DEF Bijection, Injection, Surjection, IsInjective
<1>12. IsFiniteSet(T)
  BY <1>1, <1>2, FS_Subset
<1> HIDE DEF number, place, T
<1>13. Cardinality(gone) = Cardinality(T)
  BY <1>11, <1>12, FS_Bijection DEF ExistsBijection
<1>14. Cardinality(T) = MaxBatch
  <2>1. Cardinality(1..MaxBatch) = Cardinality(T)
    BY <1>10, <1>12, FS_Bijection DEF ExistsBijection
  <2>2. Cardinality(1..MaxBatch) = MaxBatch
    BY <1>6, FS_Interval
  <2> QED BY <2>1, <2>2
<1>15. \A j \in T : pending[j].seq < e.seq
  BY <1>1, <1>3, <1>9 DEF BusInv
<1>16. {d \in SeqsOf(drained') \ SeqsOf(drained) : d < e.seq} = gone
  <2>1. SeqsOf(drained') \ SeqsOf(drained) = gone
    BY DrainKeepsBus DEF T
  <2> QED BY <1>15, <2>1
<1> HIDE DEF gone
<1> QED BY <1>13, <1>14, <1>16

-----------------------------------------------------------------------------
(* The source *)

\* The demand of surge k is complete.
Complete(k) ==
  \/ config.surges[k].at < generatedThrough
  \/ config.surges[k].at = generatedThrough /\ pc # "crashed"

\* What an entry of the bus may be: of a surge whose step has come, published for that
\* step, or baseline demand or another producer's, of no surge.
Belongs(e) ==
  /\ e.request.arrival <= step
  /\ e.request.surge # 0 =>
       /\ e.request.surge \in DOMAIN config.surges
       /\ e.request.arrival = config.surges[e.request.surge].at
       /\ e.available = config.surges[e.request.surge].at
       /\ config.surges[e.request.surge].at <= generatedThrough

SourceInv ==
  /\ BusInv /\ ConfigOk /\ pc \in {"idle", "polling", "crashed"}
  /\ generatedThrough \in Nat \cup {-1} /\ generatedThrough <= step
  /\ \A e \in Entries : Belongs(e)
  /\ \A k \in DOMAIN config.surges :
       Complete(k) => Cardinality(OfSurge(k)) = config.surges[k].count
  /\ CrashForCause

LEMMA SourceInitially == Init => SourceInv
<1> SUFFICES ASSUME Init PROVE SourceInv
  OBVIOUS
<1>1. /\ step = 0 /\ seq = 0 /\ pending = <<>> /\ drained = <<>> /\ pc = "idle"
      /\ generatedThrough = -1 /\ ConfigOk
  BY DEF Init, BusInit, ConfigOk
<1>2. BusInv
  <2>1. SeqsOf(<<>>) = {}
    BY DEF SeqsOf, ToSet
  <2>2. ExactlyOnce
    BY <1>1, <2>1 DEF ExactlyOnce
  <2> QED BY <1>1, <2>1, <2>2 DEF BusInv
<1>3. Entries = {}
  BY <1>1 DEF Entries, ToSet
<1>4. \A k \in DOMAIN config.surges : ~Complete(k)
  <2>1. \A k \in DOMAIN config.surges : config.surges[k].at \in Nat
    BY <1>1, ConfigTypes DEF SurgeEvents
  <2> QED BY <1>1, <2>1 DEF Complete
<1> QED BY <1>1, <1>2, <1>3, <1>4 DEF SourceInv, CrashForCause

\* What an invariant step does without publishing.
LEMMA SourceKept ==
  ASSUME SourceInv, BusInv', Entries' = Entries, config' = config,
         generatedThrough' = generatedThrough, step' \in Nat, step <= step',
         pc \in {"idle", "polling"}, pc' \in {"idle", "polling"}
  PROVE  SourceInv'
<1>1. step \in Nat /\ generatedThrough \in Int
  BY DEF SourceInv, BusInv
<1>2. ASSUME NEW e \in Entries' PROVE Belongs(e)'
  <2>1. Belongs(e) /\ e \in ToSet(pending) \cup ToSet(drained)
    BY DEF SourceInv, Entries
  <2>2. e \in BusEntries
    <3>1. \A q \in Seq(BusEntries) : \A x \in ToSet(q) : x \in BusEntries
      BY ElementOfSeq DEF ToSet
    <3> QED BY <2>1, <3>1 DEF SourceInv, BusInv
  <2>3. e.request.arrival \in Nat
    BY <2>2 DEF BusEntries, Reqs
  <2> QED BY <1>1, <2>1, <2>3 DEF Belongs
<1>3. \A k \in DOMAIN config.surges : /\ Complete(k)' <=> Complete(k)
                                     /\ OfSurge(k)' = OfSurge(k)
  BY DEF Complete, OfSurge
<1>4. ASSUME NEW k \in DOMAIN config'.surges, Complete(k)'
      PROVE  Cardinality(OfSurge(k)') = config'.surges[k].count
  <2>1. Cardinality(OfSurge(k)) = config.surges[k].count
    BY <1>3, <1>4 DEF SourceInv
  <2> QED BY <1>3, <2>1
<1>5. CrashForCause'
  BY DEF CrashForCause
<1>6. generatedThrough' <= step'
  BY <1>1 DEF SourceInv
<1> QED BY <1>2, <1>4, <1>5, <1>6 DEF SourceInv, ConfigOk, Valid, SizesOrdered, SurgeWithin

\* A request that cannot be sampled is of a surge without profile, or there is no region.
LEMMA FailsForCause ==
  ASSUME ConfigOk, NEW s \in Nat, NEW draws \in Seq(Drawable), NEW r, OfStep(r, s, draws), Fails(r)
  PROVE  \/ \E k \in DOMAIN config.surges :
              config.surges[k].at = s /\ config.surges[k].class \notin ClassesOf(config)
         \/ config.regions = 0 /\ draws # <<>>
<1>1. \A i \in DOMAIN config.mix : config.mix[i].minSize <= config.mix[i].maxSize
  BY DEF ConfigOk, Valid, SizesOrdered
<1>2. CASE r.surge = 0
  <2>0. 0 \notin DOMAIN config.surges
    BY ConfigTypes
  <2>1. r.class \in ToSet(draws)
    BY <1>2, <2>0 DEF OfStep
  <2>2. r.class \in ClassesOf(config) /\ draws # <<>>
    <3>1. \A i \in DOMAIN draws : draws[i] \in Drawable
      BY ElementOfSeq
    <3> QED BY <2>1, <3>1, DrawnFromMix DEF ToSet
  <2>3. \E i \in DOMAIN config.mix :
          config.mix[i].class = r.class /\ config.mix[i].minSize <= config.mix[i].maxSize
    BY <1>1, <2>2 DEF ClassesOf
  <2>4. ~(config.regions > 0)
    BY <2>3 DEF Fails, Samples
  <2> QED BY <2>2, <2>4, ConfigTypes
<1>3. CASE r.surge # 0
  <2>1. /\ r.surge \in DOMAIN config.surges /\ config.surges[r.surge].at = s
        /\ r.class = config.surges[r.surge].class
    BY <1>3 DEF OfStep, Due
  <2>2. r.class \notin ClassesOf(config)
    BY <1>1, <1>3 DEF Fails, Samples, ClassesOf
  <2> QED BY <2>1, <2>2
<1> QED BY <1>2, <1>3

LEMMA GenerateStep ==
  ASSUME SourceInv, Generate
  PROVE  SourceInv'
<1> DEFINE s == generatedThrough + 1
<1>0. /\ BusInv /\ ConfigOk /\ pc = "polling" /\ config' = config
      /\ generatedThrough \in Nat \cup {-1} /\ generatedThrough < step /\ generatedThrough' = s
      /\ step \in Nat
  BY DEF SourceInv, BusInv, Generate, NextToProduce
<1>1. s \in Nat /\ s <= step /\ generatedThrough \in Int
  BY <1>0
<1>2. PICK draws \in BoundedSeq(Drawable, IF config.rateIsZero THEN 0 ELSE MaxBaseline) :
        /\ PublishAll(Published(Produced(s, draws)), s)
        /\ pc' = IF FirstFailure(Produced(s, draws)) = 0 THEN "polling" ELSE "crashed"
  BY DEF Generate, NextToProduce
<1> HIDE DEF s
<1>3. draws \in Seq(Drawable) /\ (config.rateIsZero => draws = <<>>)
  <2> DEFINE most == IF config.rateIsZero THEN 0 ELSE MaxBaseline
  <2>1. most \in Nat /\ (config.rateIsZero => most = 0)
    BY SourceAssumption
  <2>2. draws \in UNION {[1..m -> Drawable] : m \in 0..most}
    BY <1>2 DEF BoundedSeq, SeqOf
  <2> HIDE DEF most
  <2>3. PICK m \in 0..most : draws \in [1..m -> Drawable]
    BY <2>2
  <2>4. draws \in Seq(Drawable) /\ Len(draws) = m
    BY <2>1, <2>3
  <2>5. ASSUME config.rateIsZero PROVE draws = <<>>
    BY <2>1, <2>4, <2>5, EmptySeq
  <2> QED BY <2>4, <2>5
<1> DEFINE requests == Produced(s, draws)
           published == Published(requests)
           new == NewEntries(published, s)
<1>4. /\ requests \in Seq(Reqs) /\ \A r \in ToSet(requests) : OfStep(r, s, draws)
      /\ \A k \in DOMAIN config.surges : Due(k, s) =>
           Cardinality(Tagged(requests, k)) = config.surges[k].count
  BY <1>0, <1>1, <1>3, WhatIsProduced
<1> HIDE DEF requests
<1>5. /\ published \in Seq(Reqs) /\ ToSet(published) \subseteq ToSet(requests)
      /\ FirstFailure(requests) = 0 => published = requests
      /\ FirstFailure(requests) # 0 => \E r \in ToSet(requests) : Fails(r)
  BY <1>4, WhatIsPublished
<1>6. /\ PublishAll(published, s) /\ pc' \in {"polling", "crashed"}
      /\ pc' = "crashed" <=> FirstFailure(requests) # 0
  BY <1>2 DEF requests
<1> HIDE DEF published
<1>7. /\ DOMAIN new = 1..Len(published) /\ new \in Seq(BusEntries)
      /\ \A i \in 1..Len(published) :
           /\ new[i].seq = seq + i - 1 /\ new[i].request = published[i] /\ new[i].available = s
  BY <1>0, <1>1, <1>5, PublishNumbers DEF BusInv
<1>8. BusInv' /\ Entries' = Entries \cup ToSet(new)
  BY <1>0, <1>1, <1>5, <1>6, PublishKeepsBus
<1>9. step' = step
  BY <1>6 DEF PublishAll
<1> HIDE DEF new
<1>10. ASSUME NEW i \in 1..Len(published)
       PROVE  new[i].available = s /\ new[i].request = published[i] /\ OfStep(published[i], s, draws)
  <2>1. published[i] \in ToSet(published)
    BY <1>5 DEF ToSet
  <2> QED BY <1>4, <1>5, <1>7, <2>1
<1>11. ASSUME NEW e \in Entries' PROVE Belongs(e)'
  <2>1. CASE e \in Entries
    <3>1. Belongs(e)
      BY <2>1 DEF SourceInv
    <3>2. \A k \in DOMAIN config.surges : config.surges[k].at \in Nat
      BY <1>0, ConfigTypes DEF SurgeEvents
    <3> QED BY <1>0, <1>1, <1>9, <3>1, <3>2 DEF Belongs, s
  <2>2. CASE e \in ToSet(new)
    <3>1. PICK i \in 1..Len(published) : e = new[i]
      BY <1>7, <2>2 DEF ToSet
    <3>2. e.available = s /\ OfStep(e.request, s, draws)
      BY <1>10, <3>1
    <3> QED BY <1>0, <1>1, <1>9, <3>2 DEF Belongs, OfStep, Due
  <2> QED BY <1>8, <2>1, <2>2
<1>12. ASSUME NEW k \in DOMAIN config.surges, Complete(k)'
       PROVE  Cardinality(OfSurge(k)') = config.surges[k].count
  <2>0. k # 0 /\ config.surges[k].at \in Nat
    BY <1>0, ConfigTypes DEF SurgeEvents
  <2>1. OfSurge(k)' = OfSurge(k) \cup {e \in ToSet(new) : e.request.surge = k}
    BY <1>8 DEF OfSurge
  <2>2. ASSUME NEW e \in ToSet(new), e.request.surge = k PROVE config.surges[k].at = s
    <3>1. PICK i \in 1..Len(published) : e = new[i]
      BY <1>7 DEF ToSet
    <3> QED BY <1>10, <2>0, <2>2, <3>1 DEF OfStep, Due
  <2>3. CASE config.surges[k].at = s
    <3>1. OfSurge(k) = {}
      <4>1. ~(config.surges[k].at <= generatedThrough)
        BY <1>1, <2>3 DEF s
      <4>2. \A e \in Entries : Belongs(e)
        BY DEF SourceInv
      <4> QED BY <2>0, <4>1, <4>2 DEF OfSurge, Belongs
    <3>2. published = requests
      <4>1. pc' # "crashed"
        BY <1>0, <1>1, <1>12, <2>3 DEF Complete
      <4> QED BY <1>5, <1>6, <4>1
    <3> DEFINE tagged == Tagged(published, k)
               ofK == {e \in ToSet(new) : e.request.surge = k}
               entry == [i \in tagged |-> new[i]]
    <3>3. Cardinality(tagged) = config.surges[k].count
      BY <1>4, <2>3, <3>2 DEF Due
    <3>4. tagged = {i \in 1..Len(published) : published[i].surge = k}
      BY <1>5 DEF Tagged
    <3>5. IsFiniteSet(tagged)
      BY <1>5, TaggedFinite
    <3> HIDE DEF tagged
    <3>6. entry \in Injection(tagged, ofK)
      <4>1. \A i \in tagged : i \in 1..Len(published) /\ new[i] \in ofK
        BY <1>7, <1>10, <3>4 DEF ToSet
      <4>2. \A i, j \in tagged : new[i] = new[j] => i = j
        <5>1. \A i \in tagged : i \in Int /\ new[i].seq = seq + i - 1
          BY <1>7, <3>4
        <5>2. seq \in Int
          BY <1>0 DEF BusInv
        <5> QED BY <5>1, <5>2
      <4> QED BY <4>1, <4>2 DEF Injection, IsInjective
    <3>7. \A e \in ofK : \E i \in tagged : entry[i] = e
      <4> SUFFICES ASSUME NEW e \in ofK PROVE \E i \in tagged : entry[i] = e
        OBVIOUS
      <4>1. PICK i \in 1..Len(published) : e = new[i]
        BY <1>7 DEF ToSet
      <4>2. i \in tagged
        BY <1>10, <3>4, <4>1
      <4> QED BY <4>1, <4>2
    <3> HIDE DEF entry, ofK
    <3>8. entry \in Bijection(tagged, ofK)
      BY <3>6, <3>7 DEF Bijection, Injection, Surjection
    <3>9. Cardinality(ofK) = Cardinality(tagged)
      BY <3>5, <3>8, FS_Bijection DEF ExistsBijection
    <3>10. OfSurge(k)' = ofK
      BY <2>1, <3>1 DEF ofK
    <3>11. Cardinality(OfSurge(k)') = Cardinality(ofK)
      BY <3>10, Zenon
    <3> QED BY <3>3, <3>9, <3>11
  <2>4. CASE config.surges[k].at # s
    <3>1. OfSurge(k)' = OfSurge(k)
      BY <2>1, <2>2, <2>4
    <3>2. Complete(k)
      BY <1>0, <1>1, <1>12, <2>0, <2>4 DEF Complete, s
    <3>3. Cardinality(OfSurge(k)) = config.surges[k].count
      BY <3>2 DEF SourceInv
    <3>4. Cardinality(OfSurge(k)') = Cardinality(OfSurge(k))
      BY <3>1, Zenon
    <3> QED BY <3>3, <3>4
  <2> QED BY <2>3, <2>4
<1>13. CrashForCause'
  <2> SUFFICES ASSUME pc' = "crashed"
               PROVE  \/ \E k \in DOMAIN config.surges :
                           config.surges[k].at = s /\ config.surges[k].class \notin ClassesOf(config)
                      \/ config.regions = 0 /\ ~config.rateIsZero
    BY <1>0 DEF CrashForCause, ClassesOf
  <2>1. PICK r \in ToSet(requests) : Fails(r)
    BY <1>5, <1>6
  <2> QED BY <1>0, <1>1, <1>3, <1>4, <2>1, FailsForCause
<1>14. ConfigOk'
  BY <1>0 DEF ConfigOk, Valid, SizesOrdered, SurgeWithin
<1> QED BY <1>0, <1>1, <1>6, <1>8, <1>9, <1>11, <1>12, <1>13, <1>14 DEF SourceInv

LEMMA ForeignStep ==
  ASSUME SourceInv, PublishForeign
  PROVE  SourceInv'
<1>1. PICK lag \in 0..MaxLag : PublishAll(<<Foreign>>, step + lag)
  BY DEF PublishForeign
<1>2. /\ UNCHANGED <<config, generatedThrough, pc>> /\ step' = step /\ pc = "idle"
      /\ BusInv /\ step \in Nat /\ seq \in Nat
  BY <1>1 DEF PublishForeign, PublishAll, SourceInv, BusInv
<1>3. step + lag \in Nat
  BY <1>2, SourceAssumption
<1>4. Foreign \in Reqs /\ Foreign.surge = 0 /\ Foreign.arrival = step
  BY <1>2 DEF Foreign, Reqs
<1>5. <<Foreign>> \in Seq(Reqs) /\ Len(<<Foreign>>) = 1 /\ <<Foreign>>[1] = Foreign
  BY <1>4
<1> DEFINE new == NewEntries(<<Foreign>>, step + lag)
<1>6. BusInv' /\ Entries' = Entries \cup ToSet(new)
  BY <1>1, <1>2, <1>3, <1>5, PublishKeepsBus
<1>7. \A e \in ToSet(new) : e.request.surge = 0 /\ e.request.arrival = step
  <2>1. DOMAIN new = 1..1 /\ \A i \in 1..1 : new[i].request = <<Foreign>>[i]
    BY <1>2, <1>3, <1>5, PublishNumbers
  <2> HIDE DEF new
  <2>2. \A i \in DOMAIN new : new[i].request = Foreign
    BY <1>5, <2>1
  <2> QED BY <1>4, <2>2 DEF ToSet
<1> HIDE DEF new
<1>8. \A e \in Entries' : Belongs(e)'
  <2>1. \A e \in Entries : Belongs(e)'
    BY <1>2 DEF SourceInv, Belongs
  <2>2. \A e \in ToSet(new) : Belongs(e)'
    BY <1>2, <1>7 DEF Belongs
  <2> QED BY <1>6, <2>1, <2>2
<1>9. ASSUME NEW k \in DOMAIN config.surges, Complete(k)'
      PROVE  Cardinality(OfSurge(k)') = config.surges[k].count
  <2>0. k # 0
    BY ConfigTypes DEF SourceInv
  <2>1. OfSurge(k)' = OfSurge(k)
    BY <1>6, <1>7, <2>0 DEF OfSurge
  <2>2. Cardinality(OfSurge(k)') = Cardinality(OfSurge(k))
    BY <2>1, Zenon
  <2> QED BY <1>2, <1>9, <2>2 DEF SourceInv, Complete
<1>10. CrashForCause' /\ ConfigOk'
  BY <1>2 DEF SourceInv, CrashForCause, ConfigOk, Valid, SizesOrdered, SurgeWithin
<1> QED BY <1>2, <1>6, <1>8, <1>9, <1>10 DEF SourceInv

LEMMA SourceStep ==
  ASSUME SourceInv, [Next]_vars
  PROVE  SourceInv'
<1>0. BusInv /\ step \in Nat
  BY DEF SourceInv, BusInv
<1>1. CASE Poll \/ UNCHANGED vars
  <2>1. /\ UNCHANGED <<step, seq, pending, drained, config, generatedThrough>>
        /\ pc' = pc \/ (pc = "idle" /\ pc' = "polling")
    BY <1>1 DEF Poll, vars, busVars
  <2>2. BusInv' /\ Entries' = Entries
    BY <1>0, <2>1 DEF BusInv, ExactlyOnce, SeqsOf, Entries
  <2>3. CASE pc \in {"idle", "polling"}
    BY <1>0, <2>1, <2>2, <2>3, SourceKept
  <2>4. CASE pc = "crashed"
    <3>1. pc' = pc /\ ConfigOk' /\ CrashForCause'
      BY <2>1, <2>4 DEF SourceInv, ConfigOk, Valid, SizesOrdered, SurgeWithin, CrashForCause
    <3>2. \A e \in Entries' : Belongs(e)'
      BY <2>1, <2>2 DEF SourceInv, Belongs
    <3>3. ASSUME NEW k \in DOMAIN config'.surges, Complete(k)'
          PROVE  Cardinality(OfSurge(k)') = config'.surges[k].count
      <4>1. OfSurge(k)' = OfSurge(k) /\ Complete(k)
        BY <2>1, <2>2, <3>1, <3>3 DEF OfSurge, Complete
      <4>2. Cardinality(OfSurge(k)') = Cardinality(OfSurge(k))
        BY <4>1, Zenon
      <4> QED BY <2>1, <4>1, <4>2 DEF SourceInv
    <3> QED BY <2>1, <2>2, <3>1, <3>2, <3>3 DEF SourceInv
  <2> QED BY <2>3, <2>4 DEF SourceInv
<1>2. CASE Generate
  BY <1>2, GenerateStep
<1>3. CASE DrainBatch
  <2>1. /\ BusInv' /\ Entries' = Entries /\ UNCHANGED <<step, config, generatedThrough>>
        /\ pc = "polling" /\ pc' = "idle"
    BY <1>0, <1>3, DrainKeepsBus DEF DrainBatch, Drain
  <2> QED BY <1>0, <2>1, SourceKept
<1>4. CASE PublishForeign
  BY <1>4, ForeignStep
<1>5. CASE Tick
  <2>1. /\ step' = step + 1 /\ pc = "idle"
        /\ UNCHANGED <<seq, pending, drained, config, generatedThrough, pc>>
    BY <1>5 DEF Tick
  <2>2. /\ Entries' = Entries
        /\ SeqsOf(pending)' = SeqsOf(pending) /\ SeqsOf(drained)' = SeqsOf(drained)
    BY <2>1 DEF SeqsOf, Entries
  <2>3. ExactlyOnce'
    BY <1>0, <2>1, <2>2 DEF BusInv, ExactlyOnce
  <2>4. step' \in Nat /\ seq' \in Nat
    BY <1>0, <2>1 DEF BusInv
  <2>5. BusInv'
    BY <1>0, <2>1, <2>2, <2>3, <2>4 DEF BusInv
  <2> QED BY <1>0, <2>1, <2>2, <2>5, SourceKept
<1> QED BY <1>1, <1>2, <1>3, <1>4, <1>5 DEF Next

LEMMA SourceInvariant == Spec => []SourceInv
  BY SourceInitially, SourceStep, PTL DEF Spec

-----------------------------------------------------------------------------
\* The bus neither loses nor repeats an entry, whatever is published and drained.
THEOREM EntriesExactlyOnce == Spec => []ExactlyOnce
<1>1. SourceInv => ExactlyOnce
  BY DEF SourceInv, BusInv
<1> QED BY <1>1, SourceInvariant, PTL

\* Whenever the source is polled, the demand of a step is published once, in full and
\* for that step; a surge is cut short only by a crash in its own step.
THEOREM StepsProducedOnce == Spec => []DemandOncePerStep
<1>1. ASSUME SourceInv PROVE DemandOncePerStep
  <2>1. \A e \in Entries : Belongs(e)
    BY <1>1 DEF SourceInv
  <2>2. ASSUME NEW k \in DOMAIN config.surges
        PROVE  /\ \A e \in OfSurge(k) : /\ e.request.arrival = config.surges[k].at
                                        /\ e.available = config.surges[k].at
               /\ Complete(k) => Cardinality(OfSurge(k)) = config.surges[k].count
               /\ config.surges[k].at > generatedThrough => Cardinality(OfSurge(k)) = 0
               /\ config.surges[k].at \in Nat
    <3>1. k # 0 /\ config.surges[k].at \in Nat /\ generatedThrough \in Int
      BY <1>1, ConfigTypes DEF SurgeEvents, SourceInv
    <3>2. \A e \in OfSurge(k) : /\ e.request.arrival = config.surges[k].at
                                /\ e.available = config.surges[k].at
                                /\ config.surges[k].at <= generatedThrough
      BY <2>1, <3>1 DEF OfSurge, Belongs
    <3>3. ASSUME config.surges[k].at > generatedThrough PROVE Cardinality(OfSurge(k)) = 0
      <4>1. OfSurge(k) = {}
        BY <3>1, <3>2, <3>3
      <4> QED BY <4>1, FS_EmptySet
    <3> QED BY <1>1, <3>1, <3>2, <3>3 DEF SourceInv
  <2>3. \A e \in Entries : e.request.arrival <= step
    BY <2>1 DEF Belongs
  <2>4. generatedThrough \in Int
    BY <1>1 DEF SourceInv
  <2> QED BY <2>2, <2>3, <2>4 DEF DemandOncePerStep, Complete
<1> QED BY <1>1, SourceInvariant, PTL

\* Validation lets through two ways to crash, and no other.
THEOREM CrashesForCause == Spec => []CrashForCause
<1>1. SourceInv => CrashForCause
  BY DEF SourceInv
<1> QED BY <1>1, SourceInvariant, PTL

\* The bus is first in, first out among what is visible, and uses its batches up.
THEOREM NobodyPassedOver == Spec => PassedOverForCause
<1>1. ASSUME SourceInv, [Next]_vars
      PROVE  pc = "polling" /\ pc' = "idle" =>
               \A e \in ToSet(pending) :
                 e.available <= step /\ e.seq \in SeqsOf(pending') =>
                   Cardinality({d \in SeqsOf(drained') \ SeqsOf(drained) : d < e.seq}) = MaxBatch
  <2> SUFFICES ASSUME pc = "polling", pc' = "idle", NEW e \in ToSet(pending),
                      e.available <= step, e.seq \in SeqsOf(pending')
               PROVE  Cardinality({d \in SeqsOf(drained') \ SeqsOf(drained) : d < e.seq}) = MaxBatch
    OBVIOUS
  <2>1. Drain
    BY <1>1 DEF Next, Poll, Generate, DrainBatch, PublishForeign, Tick, vars
  <2> QED BY <1>1, <2>1, BatchFullOfEarlier DEF SourceInv
<1> QED BY <1>1, SourceInvariant, PTL DEF Spec, PassedOverForCause
=============================================================================
