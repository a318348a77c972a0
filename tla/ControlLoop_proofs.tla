------------------------ MODULE ControlLoop_proofs ------------------------
(***************************************************************************)
(* Theorems about ControlLoop and RunReport, for every set of requests and *)
(* every configuration.                                                    *)
(***************************************************************************)
EXTENDS RunReport, DataLemmas, FiniteSetTheorems, SequenceTheorems, TLAPS

USE RequestsAssumption, ConfigAssumption

\* What taking the first n entries off a queue without repetitions does.
LEMMA SplitQueue ==
  ASSUME NEW S, NEW q \in Seq(S), NEW n \in 0..Len(q)
  PROVE  /\ SubSeq(q, 1, n) \in Seq(S)
         /\ SubSeq(q, n + 1, Len(q)) \in Seq(S)
         /\ ToSet(SubSeq(q, 1, n)) \subseteq ToSet(q)
         /\ ToSet(SubSeq(q, n + 1, Len(q))) \subseteq ToSet(q)
         /\ ToSet(q) \subseteq ToSet(SubSeq(q, 1, n)) \cup ToSet(SubSeq(q, n + 1, Len(q)))
<1> DEFINE h == SubSeq(q, 1, n)
           t == SubSeq(q, n + 1, Len(q))
<1>1. /\ h \in Seq(S) /\ Len(h) = n /\ \A i \in 1..n : h[i] = q[i]
  BY SubSeqProperties, LenProperties
<1>2. /\ t \in Seq(S) /\ Len(t) = Len(q) - n
      /\ \A i \in 1..(Len(q) - n) : t[i] = q[n + i]
  BY SubSeqProperties, LenProperties
<1>3. ToSet(h) \subseteq ToSet(q)
  BY <1>1, LenProperties DEF ToSet
<1>4. ToSet(t) \subseteq ToSet(q)
  BY <1>2, LenProperties DEF ToSet
<1>5. ASSUME NEW x \in ToSet(q) PROVE x \in ToSet(h) \cup ToSet(t)
  <2>1. PICK i \in 1..Len(q) : q[i] = x
    BY LenProperties DEF ToSet
  <2>2. CASE i <= n
    <3>1. i \in 1..n
      BY <2>1, <2>2, LenProperties
    <3>2. h[i] = x /\ i \in DOMAIN h
      BY <1>1, <2>1, <3>1, LenProperties
    <3> QED BY <3>2 DEF ToSet
  <2>3. CASE i > n
    <3>1. i - n \in 1..(Len(q) - n) /\ q[n + (i - n)] = x
      BY <2>1, <2>3, LenProperties
    <3>2. t[i - n] = x /\ i - n \in DOMAIN t
      BY <1>2, <3>1, LenProperties
    <3> QED BY <3>2 DEF ToSet
  <2> QED BY <2>1, <2>2, <2>3, LenProperties
<1> QED BY <1>1, <1>2, <1>3, <1>4, <1>5

\* Every container holds a finite number of requests.
LEMMA FiniteContainers ==
  ASSUME NEW S \in SUBSET Requests
  PROVE  IsFiniteSet(S) /\ Cardinality(S) \in Nat
BY FS_Subset, FS_CardinalityType

\* The backoff is a natural number, at most the configured maximum.
LEMMA BackoffBounded ==
  ASSUME NEW r \in Requests, NEW k \in 0..RetryBudget[r]
  PROVE  Backoff(k) \in Nat /\ Backoff(k) <= BackoffMax
<1>1. 2 ^ k \in Nat
  BY PowerAssumption
<1>2. BackoffBase * 2 ^ k \in Nat
  BY <1>1
<1> QED BY <1>2 DEF Backoff, Smaller

-----------------------------------------------------------------------------
(* Type correctness *)

\* Counting outcomes keeps a record of counters one.
LEMMA TallyCounts ==
  ASSUME NEW c \in Counts, NEW s \in Nat, NEW d \in Nat, NEW x \in Nat, NEW y \in Nat
  PROVE  Tally(c, s, d, x, y) \in Counts
  BY DEF Counts, Tally

LEMMA NoCountsCount == NoCounts \in Counts
  BY DEF Counts, NoCounts

LEMMA InitType == Init => TypeOK
<1> QED BY EmptySeq, NoCountsCount, ConfigAssumption, RequestsAssumption DEF Init, TypeOK, Phases

LEMMA NextType == TypeOK /\ [Next]_vars => TypeOK'
<1> SUFFICES ASSUME TypeOK, [Next]_vars PROVE TypeOK'
  OBVIOUS
<1> USE DEF TypeOK, Phases
<1>1. CASE Gather
  BY <1>1 DEF Gather
<1>2. ASSUME NEW r \in Requests, Publish(r) PROVE TypeOK'
  <2>1. bus' \in Seq(Requests)
    BY <1>2, AppendProperties DEF Publish
  <2>2. arrival' \in [Requests -> Nat \cup {Never}]
    BY <1>2 DEF Publish
  <2> QED BY <1>2, <2>1, <2>2 DEF Publish
<1>3. CASE Ingest
  <2> DEFINE n == Smaller(MaxBatch, Len(bus))
  <2>1. n \in 0..Len(bus)
    BY LenProperties DEF Smaller
  <2>2. /\ bus' \in Seq(Requests)
        /\ ToSet(SubSeq(bus, 1, n)) \subseteq Requests
    <3>1. ToSet(bus) \subseteq Requests
      BY LenProperties DEF ToSet
    <3> QED BY <1>3, <2>1, <3>1, SplitQueue DEF Ingest
  <2>3. ingested' \in [Requests -> Nat]
    BY <1>3 DEF Ingest
  <2>4. arrivals' \subseteq Requests /\ retryQ' \subseteq Requests
    BY <1>3, <2>2 DEF Ingest, Due, Held
  <2> QED BY <1>3, <2>2, <2>3, <2>4 DEF Ingest
<1>4. CASE Lane
  <2>1. PICK admitted \in SUBSET ((arrivals \cap Urgent) \ LaneShed) :
          /\ served' = served \cup admitted
          /\ dropped' = dropped \cup LaneShed
          /\ bestEffort' = BestEffort(admitted)
          /\ counters' = Tally(counters, Cardinality(admitted), 0, Cardinality(LaneShed), 0)
    BY <1>4 DEF Lane
  <2>2. LaneShed \subseteq Requests /\ admitted \subseteq Requests
    BY DEF LaneShed
  <2>3. Cardinality(admitted) \in Nat /\ Cardinality(LaneShed) \in Nat
    BY <2>2, FiniteContainers
  <2>4. counters' \in Counts
    BY <2>1, <2>3, TallyCounts
  <2> QED BY <1>4, <2>1, <2>2, <2>4 DEF Lane, BestEffort
<1>5. CASE Admit
  <2>1. PICK shed \in SUBSET bestEffort :
          /\ rejected' = rejected \cup shed
          /\ bestEffort' = bestEffort \ shed
          /\ counters' = Tally(counters, 0, 0, 0, Cardinality(shed))
    BY <1>5 DEF Admit
  <2>2. Cardinality(shed) \in Nat
    BY FiniteContainers
  <2>3. counters' \in Counts
    BY <2>1, <2>2, TallyCounts
  <2> QED BY <1>5, <2>1, <2>3 DEF Admit
<1>6. CASE BuildCandidates
  <2>1. Cardinality({r \in bestEffort : Licensed[r] = {}}) \in Nat
    BY FiniteContainers
  <2>2. counters' \in Counts
    BY <1>6, <2>1, TallyCounts DEF BuildCandidates
  <2> QED BY <1>6, <2>2 DEF BuildCandidates
<1>7. ASSUME NEW m \in {"normal", "fallback"}, Schedule(m) PROVE TypeOK'
  <2> DEFINE late == {r \in candidates : Expired(r)}
  <2>1. PICK granted \in SUBSET (candidates \ late) :
          /\ served' = served \cup granted
          /\ deferred' = candidates \ (granted \cup late)
          /\ counters' = Tally(counters, Cardinality(granted), 0, Cardinality(late), 0)
    BY <1>7 DEF Schedule
  <2>2. Cardinality(granted) \in Nat /\ Cardinality(late) \in Nat
    BY FiniteContainers
  <2>3. counters' \in Counts
    BY <2>1, <2>2, TallyCounts
  <2> QED BY <1>7, <2>1, <2>3 DEF Schedule
<1>8. CASE ScheduleSafe
  BY <1>8 DEF ScheduleSafe
<1>9. ASSUME NEW r \in Requests, DropDeferred(r) PROVE TypeOK'
  <2>1. counters' \in Counts
    BY <1>9, TallyCounts DEF DropDeferred
  <2> QED BY <1>9, <2>1 DEF DropDeferred
<1>10. ASSUME NEW r \in Requests, Requeue(r) PROVE TypeOK'
  <2>1. retries[r] \in 0..RetryBudget[r]
    <3>1. retries[r] \in Nat /\ RetryBudget[r] \in Nat
      BY RequestsAssumption
    <3>2. ~(retries[r] >= RetryBudget[r])
      BY <1>10 DEF Requeue, MustDrop
    <3> QED BY <3>1, <3>2
  <2>2. eligible' \in [Requests -> Nat]
    <3>1. PICK jitter \in 0..BackoffBase :
            eligible' = [eligible EXCEPT ![r] = step + Backoff(retries[r]) + jitter]
      BY <1>10 DEF Requeue
    <3>2. Backoff(retries[r]) \in Nat
      BY <2>1, BackoffBounded
    <3> QED BY <3>1, <3>2
  <2>3. counters' \in Counts
    BY <1>10, TallyCounts DEF Requeue
  <2>4. retries' \in [Requests -> Nat]
    BY <1>10 DEF Requeue, NextRetryCount
  <2> QED BY <1>10, <2>2, <2>3, <2>4 DEF Requeue
<1>11. CASE FinishStep
  <2>1. summary' \in Counts /\ counters' \in Counts
    <3>1. /\ counters.served \in Nat /\ counters.deferred \in Nat
          /\ counters.dropped \in Nat /\ counters.rejected \in Nat
      BY DEF Counts
    <3> QED BY <1>11, <3>1, TallyCounts, NoCountsCount DEF FinishStep
  <2>2. step' \in 0..DurationSteps /\ (phase' = "done" <=> step' = DurationSteps)
    BY <1>11 DEF FinishStep, AnotherStep
  <2> QED BY <1>11, <2>1, <2>2 DEF FinishStep
<1>12. CASE UNCHANGED vars
  BY <1>12 DEF vars
<1> QED
  BY <1>1, <1>2, <1>3, <1>4, <1>5, <1>6, <1>7, <1>8, <1>9, <1>10, <1>11, <1>12
  DEF Next, RunScheduler

\* Every reachable state of the loop is well typed; in particular the clock stays
\* within range(duration_steps) until the run is done.
THEOREM TypeCorrect == Spec => []TypeOK
<1> QED BY InitType, NextType, PTL DEF Spec

-----------------------------------------------------------------------------
(* No request is lost or duplicated *)

\* Each in-flight container is filled by one stage and emptied by the next.
PhaseShape ==
  /\ phase # "lane" => arrivals = {}
  /\ phase \notin {"admit", "candidates"} => bestEffort = {}
  /\ phase # "schedule" => candidates = {}
  /\ phase # "requeue" => deferred = {}

\* Draining the head of a queue without repetitions leaves it without any, and
\* shares nothing with it.
LEMMA SplitInjective ==
  ASSUME NEW S, NEW q \in Seq(S), NEW n \in 0..Len(q),
         IsInjective(q)
  PROVE  LET h == SubSeq(q, 1, n)
             t == SubSeq(q, n + 1, Len(q))
         IN /\ ToSet(h) \cap ToSet(t) = {}
            /\ IsInjective(t)
<1> DEFINE h == SubSeq(q, 1, n)
           t == SubSeq(q, n + 1, Len(q))
<1>1. /\ h \in Seq(S) /\ Len(h) = n /\ \A i \in 1..n : h[i] = q[i]
  BY SubSeqProperties, LenProperties
<1>2. /\ t \in Seq(S) /\ Len(t) = Len(q) - n
      /\ \A i \in 1..(Len(q) - n) : t[i] = q[n + i]
  BY SubSeqProperties, LenProperties
<1>3. DOMAIN h = 1..n /\ DOMAIN t = 1..(Len(q) - n) /\ DOMAIN q = 1..Len(q) /\ Len(q) \in Nat
  BY <1>1, <1>2, LenProperties
<1> HIDE DEF h, t
<1>4. ASSUME NEW x \in ToSet(h), x \in ToSet(t) PROVE FALSE
  <2>1. PICK i \in 1..n : h[i] = x
    BY <1>3, <1>4 DEF ToSet
  <2>2. PICK j \in 1..(Len(q) - n) : t[j] = x
    BY <1>3, <1>4 DEF ToSet
  <2>3. i \in DOMAIN q /\ n + j \in DOMAIN q /\ i # n + j
    BY <1>3
  <2>4. q[i] = x /\ q[n + j] = x
    BY <1>1, <1>2, <2>1, <2>2
  <2> QED BY <2>3, <2>4 DEF IsInjective
<1>5. ASSUME NEW i \in DOMAIN t, NEW j \in DOMAIN t, t[i] = t[j] PROVE i = j
  <2>1. i \in 1..(Len(q) - n) /\ j \in 1..(Len(q) - n)
    BY <1>3
  <2>2. n + i \in DOMAIN q /\ n + j \in DOMAIN q
    BY <1>3, <2>1
  <2>3. q[n + i] = q[n + j]
    BY <1>2, <1>5, <2>1
  <2>4. n + i = n + j
    BY <2>2, <2>3 DEF IsInjective
  <2> QED BY <1>3, <2>1, <2>4
<1>6. ToSet(h) \cap ToSet(t) = {}
  BY <1>4
<1>7. IsInjective(t)
  BY <1>5 DEF IsInjective
<1> QED BY <1>6, <1>7 DEF h, t

\* Appending adds one element.
LEMMA AppendAdds ==
  ASSUME NEW S, NEW q \in Seq(S), NEW x \in S
  PROVE  ToSet(Append(q, x)) = ToSet(q) \cup {x}
<1> DEFINE p == Append(q, x)
<1>1. /\ p \in Seq(S) /\ Len(p) = Len(q) + 1 /\ p[Len(q) + 1] = x
      /\ \A i \in 1..Len(q) : p[i] = q[i]
  BY AppendProperties
<1>2. DOMAIN p = 1..(Len(q) + 1) /\ DOMAIN q = 1..Len(q) /\ Len(q) \in Nat
  BY <1>1, LenProperties
<1> HIDE DEF p
<1>3. \A i \in DOMAIN q : p[i] = q[i] /\ i \in DOMAIN p
  BY <1>1, <1>2
<1>4. ToSet(p) = ToSet(q) \cup {x}
  <2>1. ToSet(p) \subseteq ToSet(q) \cup {x}
    <3>1. ASSUME NEW i \in DOMAIN p PROVE p[i] \in ToSet(q) \cup {x}
      <4>1. i \in DOMAIN q \/ i = Len(q) + 1
        BY <1>2
      <4> QED BY <1>1, <1>3, <4>1 DEF ToSet
    <3> QED BY <3>1 DEF ToSet
  <2>2. ToSet(q) \subseteq ToSet(p)
    BY <1>3 DEF ToSet
  <2>3. x \in ToSet(p)
    <3>1. Len(q) + 1 \in DOMAIN p
      BY <1>2
    <3> QED BY <1>1, <3>1 DEF ToSet
  <2> QED BY <2>1, <2>2, <2>3
<1> QED BY <1>4 DEF p

\* Appending a new element keeps a queue without repetitions.
LEMMA AppendFresh ==
  ASSUME NEW S, NEW q \in Seq(S), NEW x \in S, x \notin ToSet(q),
         IsInjective(q)
  PROVE  IsInjective(Append(q, x))
<1> DEFINE p == Append(q, x)
<1>1. /\ p \in Seq(S) /\ Len(p) = Len(q) + 1 /\ p[Len(q) + 1] = x
      /\ \A i \in 1..Len(q) : p[i] = q[i]
  BY AppendProperties
<1>2. DOMAIN p = 1..(Len(q) + 1) /\ DOMAIN q = 1..Len(q) /\ Len(q) \in Nat
  BY <1>1, LenProperties
<1> HIDE DEF p
<1>3. \A i \in DOMAIN q : p[i] = q[i] /\ i \in DOMAIN p
  BY <1>1, <1>2
<1>4. ASSUME NEW i \in DOMAIN p, NEW j \in DOMAIN p, p[i] = p[j] PROVE i = j
  <2>1. \A k \in DOMAIN p : k \in DOMAIN q \/ k = Len(q) + 1
    BY <1>2
  <2>2. \A k \in DOMAIN q : p[k] # x
    BY <1>3 DEF ToSet
  <2> QED BY <1>1, <1>3, <1>4, <2>1, <2>2 DEF IsInjective
<1>5. IsInjective(p)
  BY <1>4 DEF IsInjective
<1> QED BY <1>5 DEF p

LEMMA InitPlace == Init => OnePlace /\ PhaseShape /\ NoneLost
<1> SUFFICES ASSUME Init PROVE OnePlace /\ PhaseShape /\ NoneLost
  OBVIOUS
<1>1. Pending = {}
  BY EmptySeq DEF Init, Pending, ToSet
<1>2. IsInjective(bus)
  BY EmptySeq DEF Init, IsInjective
<1>3. NoneLost
  BY <1>1 DEF Init, NoneLost, Tracked, Published, InFlight, Closed
<1> QED BY <1>1, <1>2, <1>3 DEF Init, OnePlace, PhaseShape, InFlight, Closed

LEMMA NextPlace ==
  TypeOK /\ OnePlace /\ PhaseShape /\ NoneLost /\ [Next]_vars => OnePlace' /\ PhaseShape'
<1> SUFFICES ASSUME TypeOK, OnePlace, PhaseShape, NoneLost, [Next]_vars
             PROVE  OnePlace' /\ PhaseShape'
  OBVIOUS
<1> USE DEF OnePlace, PhaseShape, InFlight, Closed
<1>1. CASE Gather
  BY <1>1 DEF Gather, Pending
<1>2. ASSUME NEW r \in Requests, Publish(r) PROVE OnePlace' /\ PhaseShape'
  <2>1. /\ Pending' = Pending \cup {r}
        /\ IsInjective(bus')
    <3>1. bus \in Seq(Requests) /\ r \notin ToSet(bus) /\ bus' = Append(bus, r)
      BY <1>2 DEF Publish, NoneLost, Tracked, Pending, TypeOK
    <3>2. IsInjective(bus)
      OBVIOUS
    <3> HIDE DEF OnePlace, PhaseShape, InFlight, Closed
    <3> QED BY <3>1, <3>2, AppendAdds, AppendFresh DEF Pending
  <2>2. r \notin InFlight \cup retryQ \cup Closed
    BY <1>2 DEF Publish, NoneLost, Tracked
  <2> QED BY <1>2, <2>1, <2>2 DEF Publish
<1>3. CASE Ingest
  <2> DEFINE n == Smaller(MaxBatch, Len(bus))
             polled == ToSet(SubSeq(bus, 1, n))
  <2>1. n \in 0..Len(bus) /\ bus \in Seq(Requests)
    BY LenProperties DEF TypeOK, Smaller
  <2>2. bus' = SubSeq(bus, n + 1, Len(bus)) /\ arrivals' = polled \cup Due
    BY <1>3 DEF Ingest
  <2>3. IsInjective(bus)
    OBVIOUS
  <2>4. /\ polled \subseteq Pending /\ Pending' \subseteq Pending
        /\ polled \cap Pending' = {}
        /\ IsInjective(bus')
    <3> HIDE DEF n, OnePlace, PhaseShape, InFlight, Closed
    <3> QED BY <2>1, <2>2, <2>3, SplitQueue, SplitInjective DEF Pending
  <2>5. Due \subseteq retryQ /\ retryQ' = retryQ \ Due
    BY <1>3 DEF Due, Ingest, Held
  <2>6. /\ phase' = "lane" /\ arrivals = {} /\ bestEffort = {} /\ candidates = {}
        /\ deferred = {}
    BY <1>3 DEF Ingest
  <2>7. UNCHANGED <<bestEffort, candidates, deferred, served, dropped, rejected>>
    BY <1>3 DEF Ingest
  <2> HIDE DEF polled
  <2> QED BY <2>2, <2>4, <2>5, <2>6, <2>7
<1>4. CASE Lane
  <2>1. PICK admitted \in SUBSET ((arrivals \cap Urgent) \ LaneShed) :
          /\ served' = served \cup admitted
          /\ dropped' = dropped \cup LaneShed
          /\ bestEffort' = BestEffort(admitted)
    BY <1>4 DEF Lane
  <2>2. LaneShed \subseteq arrivals
    BY DEF LaneShed
  <2> QED BY <1>4, <2>1, <2>2 DEF Lane, BestEffort, Pending
<1>5. CASE Admit
  BY <1>5 DEF Admit, Pending
<1>6. CASE BuildCandidates
  BY <1>6 DEF BuildCandidates, Pending
<1>7. ASSUME NEW m \in {"normal", "fallback"}, Schedule(m) PROVE OnePlace' /\ PhaseShape'
  BY <1>7 DEF Schedule, Pending
<1>8. CASE ScheduleSafe
  BY <1>8 DEF ScheduleSafe, Pending
<1>9. ASSUME NEW r \in Requests, DropDeferred(r) PROVE OnePlace' /\ PhaseShape'
  BY <1>9 DEF DropDeferred, Pending
<1>10. ASSUME NEW r \in Requests, Requeue(r) PROVE OnePlace' /\ PhaseShape'
  BY <1>10 DEF Requeue, Pending
<1>11. CASE FinishStep
  BY <1>11 DEF FinishStep, Pending
<1>12. CASE UNCHANGED vars
  BY <1>12 DEF vars, Pending
<1> QED
  BY <1>1, <1>2, <1>3, <1>4, <1>5, <1>6, <1>7, <1>8, <1>9, <1>10, <1>11, <1>12
  DEF Next, RunScheduler

\* No stage forgets a request: each moves it to another place.
LEMMA NextLost == TypeOK /\ PhaseShape /\ NoneLost /\ [Next]_vars => NoneLost'
<1> SUFFICES ASSUME TypeOK, PhaseShape, NoneLost, [Next]_vars PROVE NoneLost'
  OBVIOUS
<1>1. ASSUME Tracked' = Tracked, UNCHANGED arrival PROVE NoneLost'
  BY <1>1 DEF NoneLost, Published
<1> USE DEF PhaseShape, Tracked, InFlight, Closed
<1>2. CASE Gather
  BY <1>1, <1>2 DEF Gather, Pending
<1>3. ASSUME NEW r \in Requests, Publish(r) PROVE NoneLost'
  <2>1. Pending' = Pending \cup {r}
    <3>1. bus \in Seq(Requests) /\ bus' = Append(bus, r)
      BY <1>3 DEF Publish, TypeOK
    <3> QED BY <3>1, AppendAdds DEF Pending
  <2>2. Tracked' = Tracked \cup {r}
    BY <1>3, <2>1 DEF Publish
  <2>3. Published' = Published \cup {r}
    BY <1>3 DEF Publish, Published, TypeOK, Never
  <2> QED BY <2>2, <2>3 DEF NoneLost
<1>4. CASE Ingest
  <2> DEFINE n == Smaller(MaxBatch, Len(bus))
             polled == ToSet(SubSeq(bus, 1, n))
  <2>1. n \in 0..Len(bus) /\ bus \in Seq(Requests)
    BY LenProperties DEF TypeOK, Smaller
  <2>2. bus' = SubSeq(bus, n + 1, Len(bus)) /\ arrivals' = polled \cup Due
    BY <1>4 DEF Ingest
  <2>3. Pending = polled \cup Pending'
    <3> HIDE DEF n
    <3> QED BY <2>1, <2>2, SplitQueue DEF Pending
  <2>4. Due \cup retryQ' = retryQ
    BY <1>4 DEF Due, Ingest, Held
  <2>5. arrivals = {} /\ UNCHANGED <<arrival, bestEffort, candidates, deferred,
                                    served, dropped, rejected>>
    BY <1>4 DEF Ingest
  <2> HIDE DEF polled
  <2> QED BY <1>1, <2>2, <2>3, <2>4, <2>5
<1>5. CASE Lane
  <2>1. PICK admitted \in SUBSET ((arrivals \cap Urgent) \ LaneShed) :
          /\ served' = served \cup admitted
          /\ dropped' = dropped \cup LaneShed
          /\ bestEffort' = BestEffort(admitted)
    BY <1>5 DEF Lane
  <2>2. LaneShed \subseteq arrivals
    BY DEF LaneShed
  <2> QED BY <1>1, <1>5, <2>1, <2>2 DEF Lane, BestEffort, Pending
<1>6. CASE Admit
  BY <1>1, <1>6 DEF Admit, Pending
<1>7. CASE BuildCandidates
  BY <1>1, <1>7 DEF BuildCandidates, Pending
<1>8. ASSUME NEW m \in {"normal", "fallback"}, Schedule(m) PROVE NoneLost'
  BY <1>1, <1>8 DEF Schedule, Pending
<1>9. CASE ScheduleSafe
  BY <1>1, <1>9 DEF ScheduleSafe, Pending
<1>10. ASSUME NEW r \in Requests, DropDeferred(r) PROVE NoneLost'
  BY <1>1, <1>10 DEF DropDeferred, Pending
<1>11. ASSUME NEW r \in Requests, Requeue(r) PROVE NoneLost'
  BY <1>1, <1>11 DEF Requeue, Pending
<1>12. CASE FinishStep
  BY <1>1, <1>12 DEF FinishStep, Pending
<1>13. CASE UNCHANGED vars
  BY <1>1, <1>13 DEF vars, Pending
<1> QED
  BY <1>2, <1>3, <1>4, <1>5, <1>6, <1>7, <1>8, <1>9, <1>10, <1>11, <1>12, <1>13
  DEF Next, RunScheduler

\* A request is in one place at most, whatever the tiers decide and whichever
\* stage runs: nothing is scheduled and also retried, or served twice.
THEOREM NoRequestInTwoPlaces == Spec => []OnePlace
<1>1. TypeOK /\ OnePlace /\ PhaseShape /\ NoneLost /\ [Next]_vars
        => (TypeOK /\ OnePlace /\ PhaseShape /\ NoneLost)'
  BY NextType, NextPlace, NextLost
<1>2. Init => TypeOK /\ OnePlace /\ PhaseShape /\ NoneLost
  BY InitType, InitPlace
<1> QED BY <1>1, <1>2, PTL DEF Spec

-----------------------------------------------------------------------------
(* The retry queue and the retry budget *)

RetryInv == QueueBounded /\ RetriesWithinBudget

LEMMA NextRetry == TypeOK /\ RetryInv /\ [Next]_vars => RetryInv'
<1> SUFFICES ASSUME TypeOK, RetryInv, [Next]_vars PROVE RetryInv'
  OBVIOUS
<1> USE DEF RetryInv, QueueBounded, RetriesWithinBudget
<1>1. CASE Ingest
  <2>1. retryQ' \subseteq retryQ /\ retryQ \subseteq Requests
    BY <1>1 DEF Ingest, Held, TypeOK
  <2>2. IsFiniteSet(retryQ) /\ Cardinality(retryQ) \in Nat
    BY <2>1, FiniteContainers
  <2>3. Cardinality(retryQ') <= Cardinality(retryQ) /\ Cardinality(retryQ') \in Nat
    BY <2>1, <2>2, FS_Subset, FS_CardinalityType
  <2> QED BY <1>1, <2>2, <2>3 DEF Ingest
<1>2. ASSUME NEW r \in Requests, Requeue(r) PROVE RetryInv'
  <2>1. IsFiniteSet(retryQ) /\ Cardinality(retryQ) \in Nat
    BY FiniteContainers DEF TypeOK
  <2>2. Cardinality(retryQ) < QueueCapacity /\ retries[r] < RetryBudget[r]
    BY <1>2, <2>1 DEF Requeue, MustDrop, TypeOK
  <2>3. Cardinality(retryQ') <= Cardinality(retryQ) + 1 /\ Cardinality(retryQ') \in Nat
    <3>1. retryQ' = retryQ \cup {r}
      BY <1>2 DEF Requeue
    <3>2. Cardinality(retryQ \cup {r}) = IF r \in retryQ THEN Cardinality(retryQ)
                                         ELSE Cardinality(retryQ) + 1
      BY <2>1, FS_AddElement
    <3> QED BY <2>1, <3>1, <3>2
  <2>4. Cardinality(retryQ') <= QueueCapacity
    BY <2>1, <2>2, <2>3
  <2>5. \A q \in Requests : retries'[q] <= RetryBudget[q]
    BY <1>2, <2>2 DEF Requeue, NextRetryCount, TypeOK
  <2> QED BY <2>4, <2>5
<1>3. CASE UNCHANGED <<retryQ, retries>>
  BY <1>3
<1> QED
  BY <1>1, <1>2, <1>3
  DEF Next, RunScheduler, vars, Gather, Publish, Lane, Admit, BuildCandidates,
      Schedule, ScheduleSafe, DropDeferred, FinishStep

\* The retry queue never outgrows queue_capacity, however many entries become due
\* and are deferred again in the same step.
THEOREM RetryQueueBounded == Spec => []QueueBounded
<1>1. Init => RetryInv
  BY FS_EmptySet DEF Init, RetryInv, QueueBounded, RetriesWithinBudget
<1> QED BY <1>1, InitType, NextType, NextRetry, PTL DEF Spec, RetryInv

\* No request is deferred more often than its class's retry budget allows.
THEOREM RetryBudgetKept == Spec => []RetriesWithinBudget
<1>1. Init => RetryInv
  BY FS_EmptySet DEF Init, RetryInv, QueueBounded, RetriesWithinBudget
<1> QED BY <1>1, InitType, NextType, NextRetry, PTL DEF Spec, RetryInv

\* What the run has reported as deferred are the retries its requests carry.
DeferralsReported ==
  summary.deferred + counters.deferred = SumFunctionOnSet(retries, Requests)

LEMMA InitReported == Init => DeferralsReported
<1> SUFFICES ASSUME Init PROVE DeferralsReported
  OBVIOUS
<1> DEFINE zero == [r \in Requests |-> 0]
<1>1. SumFunctionOnSet(zero, Requests) = 0
  BY SumOfZeros
<1> QED BY <1>1 DEF Init, DeferralsReported, NoCounts

LEMMA NextReported == TypeOK /\ DeferralsReported /\ [Next]_vars => DeferralsReported'
<1> SUFFICES ASSUME TypeOK, DeferralsReported, [Next]_vars PROVE DeferralsReported'
  OBVIOUS
<1>1. /\ summary.deferred \in Nat /\ counters.deferred \in Nat
      /\ retries \in [Requests -> Nat]
  BY DEF TypeOK, Counts
<1>2. ASSUME NEW r \in Requests, Requeue(r) PROVE DeferralsReported'
  <2>1. /\ retries' = [retries EXCEPT ![r] = retries[r] + 1]
        /\ summary' = summary /\ counters'.deferred = counters.deferred + 1
    BY <1>2 DEF Requeue, NextRetryCount, Tally
  <2>2. SumFunctionOnSet(retries', Requests)
          = SumFunctionOnSet(retries, Requests) - retries[r] + retries'[r]
    <3>1. \A q \in Requests : /\ retries[q] \in Int /\ retries'[q] \in Int
                              /\ (q # r => retries'[q] = retries[q])
      BY <1>1, <2>1
    <3> QED BY <3>1, RequestsAssumption, SumChange
  <2>3. SumFunctionOnSet(retries, Requests) \in Int /\ retries[r] \in Nat
    BY <1>1, RequestsAssumption, SumInt
  <2>4. SumFunctionOnSet(retries', Requests) = SumFunctionOnSet(retries, Requests) + 1
    BY <1>1, <2>1, <2>2, <2>3
  <2>5. summary'.deferred + counters'.deferred = summary.deferred + counters.deferred + 1
    BY <1>1, <2>1
  <2> QED BY <2>4, <2>5 DEF DeferralsReported
<1>3. CASE FinishStep
  BY <1>1, <1>3 DEF FinishStep, Tally, NoCounts, DeferralsReported
<1>4. ASSUME UNCHANGED <<retries, summary>>, counters'.deferred = counters.deferred
      PROVE  DeferralsReported'
  BY <1>4 DEF DeferralsReported
<1>5. CASE Gather \/ Ingest \/ BuildCandidates \/ ScheduleSafe \/ UNCHANGED vars
  BY <1>1, <1>4, <1>5 DEF Tally, vars, Gather, Ingest, BuildCandidates, ScheduleSafe
<1>6. CASE Lane \/ Admit \/ Schedule("normal") \/ Schedule("fallback")
  <2>1. ASSUME NEW a, NEW d, NEW e PROVE Tally(counters, a, 0, d, e).deferred = counters.deferred
    BY <1>1 DEF Tally
  <2>2. counters'.deferred = counters.deferred
    <3>1. CASE Lane
      BY <2>1, <3>1 DEF Lane
    <3>2. CASE Admit
      BY <2>1, <3>2 DEF Admit
    <3>3. ASSUME NEW m, Schedule(m) PROVE counters'.deferred = counters.deferred
      BY <2>1, <3>3 DEF Schedule
    <3> QED BY <1>6, <3>1, <3>2, <3>3
  <2>3. UNCHANGED <<retries, summary>>
    BY <1>6 DEF Lane, Admit, Schedule
  <2> QED BY <1>4, <2>2, <2>3
<1>7. ASSUME NEW r \in Requests, Publish(r) \/ DropDeferred(r) PROVE DeferralsReported'
  BY <1>1, <1>4, <1>7 DEF Tally, Publish, DropDeferred
<1> QED
  BY <1>2, <1>3, <1>5, <1>6, <1>7 DEF Next, RunScheduler

\* The deferrals a run reports are those its requests went through, each within its
\* budget, and none the retry queue has no place for.
THEOREM RetryStormsAreBounded == Spec => []RetryStormBounded
<1>1. RetriesWithinBudget /\ QueueBounded /\ DeferralsReported => RetryStormBounded
  BY DEF RetryStormBounded, DeferralsReported
<1>2. Spec => []DeferralsReported
  BY InitType, NextType, InitReported, NextReported, PTL DEF Spec
<1> QED BY <1>1, <1>2, RetryBudgetKept, RetryQueueBounded, PTL

-----------------------------------------------------------------------------
(* Deadlines *)

LEMMA NotExpired ==
  TypeOK => \A r \in Requests : ~Expired(r) => step <= arrival[r] + DeadlineSlack[r]
<1> SUFFICES ASSUME TypeOK, NEW r \in Requests, ~Expired(r)
             PROVE  step <= arrival[r] + DeadlineSlack[r]
  OBVIOUS
<1>1. arrival[r] \in Nat \cup {Never} /\ DeadlineSlack[r] \in Nat /\ step \in Nat
  BY DEF TypeOK
<1>2. arrival[r] \in Int
  BY <1>1 DEF Never
<1> QED BY <1>1, <1>2 DEF Expired

\* No step serves a request past its deadline, whatever the degrade mode and
\* however long the request waited on the bus or in the retry queue.
THEOREM NothingServedLate == Spec => NeverServedLate
<1> DEFINE InTime == \A r \in served' \ served : step <= arrival[r] + DeadlineSlack[r]
<1>1. TypeOK /\ [Next]_vars => [InTime]_vars
  <2> SUFFICES ASSUME TypeOK, [Next]_vars, NEW r \in served' \ served
               PROVE  step <= arrival[r] + DeadlineSlack[r]
    OBVIOUS
  <2>1. CASE Lane
    <3>1. r \in (arrivals \cap Urgent) \ LaneShed
      BY <2>1 DEF Lane
    <3>2. ~Expired(r) /\ r \in Requests
      BY <3>1 DEF LaneShed, TypeOK
    <3> QED BY <3>2, NotExpired
  <2>2. ASSUME NEW m, Schedule(m) PROVE step <= arrival[r] + DeadlineSlack[r]
    <3>1. r \in candidates /\ ~Expired(r)
      BY <2>2 DEF Schedule
    <3> QED BY <3>1, NotExpired DEF TypeOK
  <2>3. served' # served
    OBVIOUS
  <2> QED
    BY <2>1, <2>2, <2>3
    DEF Next, RunScheduler, vars, Gather, Publish, Ingest, Admit, BuildCandidates,
        ScheduleSafe, DropDeferred, Requeue, FinishStep
<1> QED BY <1>1, TypeCorrect, PTL DEF Spec, NeverServedLate

-----------------------------------------------------------------------------
(* Settling in time *)

\* What SettlesInTime needs to be inductive: a held entry is due before its
\* request must settle, and one that was held back has time left in this step.
HeldInTime ==
  \A r \in retryQ :
    /\ eligible[r] <= SettleBy(r)
    /\ step <= SettleBy(r)
    /\ phase \notin {"gather", "generate", "done"} => step < SettleBy(r)
FlightInTime == \A r \in InFlight : step <= SettleBy(r)
SettleInv == HeldInTime /\ FlightInTime

SettleTyped == \A r \in Requests : SettleBy(r) \in Nat /\ SettleBy(r) >= ingested[r]

\* A deferral costs its backoff and the jitter, or at least its step.
LEMMA CostOfDeferral ==
  ASSUME NEW r \in Requests, NEW k \in 0..RetryBudget[r]
  PROVE  /\ DeferralCost(k) \in Nat /\ DeferralCost(k) >= 1
         /\ DeferralCost(k) >= Backoff(k) + BackoffBase
<1>1. Backoff(k) \in Nat /\ BackoffBase \in Nat
  BY BackoffBounded
<1>2. DeferralCost(k) = Larger(1, Backoff(k) + BackoffBase)
  BY DEF DeferralCost, Backoff
<1> QED BY <1>1, <1>2 DEF Larger

\* One more deferral adds its own cost to the time of those before it.
LEMMA TimeOfDeferrals ==
  ASSUME NEW r \in Requests, NEW n \in 0..RetryBudget[r]
  PROVE  /\ DeferralTime(n) \in Nat
         /\ DeferralTime(n + 1) = DeferralTime(n) + DeferralCost(n)
<1> DEFINE before == [k \in 0..(n - 1) |-> DeferralCost(k)]
           upto == [k \in 0..n |-> DeferralCost(k)]
<1>1. RetryBudget[r] \in Nat
  OBVIOUS
<1>2. \A k \in 0..n : DeferralCost(k) \in Nat
  <2> SUFFICES ASSUME NEW k \in 0..n PROVE DeferralCost(k) \in Nat
    OBVIOUS
  <2>1. k \in 0..RetryBudget[r]
    BY <1>1
  <2> QED BY <2>1, CostOfDeferral
<1>3. IsFiniteSet(0..(n - 1)) /\ n \notin 0..(n - 1) /\ 0..n = (0..(n - 1)) \cup {n}
  <2>1. n \in Nat
    BY <1>1
  <2>2. IsFiniteSet(0..(n - 1))
    BY <2>1, FS_Interval
  <2> QED BY <2>1, <2>2
<1>4. SumFunctionOnSet(before, 0..(n - 1)) \in Nat
  BY <1>2, <1>3, SumNat
<1>5. SumFunctionOnSet(upto, 0..(n - 1)) = SumFunctionOnSet(before, 0..(n - 1))
  BY <1>2, <1>3, SumSame
<1>6. SumFunctionOnSet(upto, (0..(n - 1)) \cup {n})
        = upto[n] + SumFunctionOnSet(upto, 0..(n - 1))
  <2>1. \A k \in 0..(n - 1) : upto[k] \in Int
    BY <1>2, <1>3
  <2>2. upto[n] \in Int
    BY <1>2
  <2> HIDE DEF upto
  <2> QED BY <1>3, <2>1, <2>2, SumAdd
<1>7. DeferralTime(n) = SumFunctionOnSet(before, 0..(n - 1))
  BY DEF DeferralTime
<1>8. DeferralTime(n + 1) = SumFunctionOnSet(upto, 0..n)
  <2>1. (n + 1) - 1 = n
    BY <1>1
  <2> QED BY <2>1 DEF DeferralTime
<1>9. upto[n] = DeferralCost(n) /\ DeferralCost(n) \in Nat
  BY <1>2
<1> HIDE DEF before, upto
<1>10. SumFunctionOnSet(upto, 0..n) = upto[n] + SumFunctionOnSet(upto, 0..(n - 1))
  BY <1>3, <1>6, Zenon
<1>11. DeferralTime(n + 1) = DeferralCost(n) + DeferralTime(n)
  BY <1>5, <1>7, <1>8, <1>9, <1>10, Zenon
<1>12. DeferralTime(n) \in Nat
  BY <1>4, <1>7
<1> HIDE DEF DeferralTime, DeferralCost
<1> QED BY <1>9, <1>11, <1>12

LEMMA SettleByType == TypeOK /\ RetryInv => SettleTyped
<1> SUFFICES ASSUME TypeOK, RetryInv, NEW r \in Requests
             PROVE  SettleBy(r) \in Nat /\ SettleBy(r) >= ingested[r]
  BY DEF SettleTyped
<1>1. retries[r] \in 0..RetryBudget[r] /\ ingested[r] \in Nat
  BY DEF TypeOK, RetryInv, RetriesWithinBudget
<1>2. DeferralTime(retries[r]) \in Nat
  BY <1>1, TimeOfDeferrals
<1> QED BY <1>1, <1>2 DEF SettleBy

LEMMA NextSettle ==
  TypeOK /\ OnePlace /\ PhaseShape /\ NoneLost /\ RetryInv /\ SettleInv /\ [Next]_vars => SettleInv'
<1> SUFFICES ASSUME TypeOK, OnePlace, PhaseShape, NoneLost, RetryInv, SettleInv, [Next]_vars
             PROVE  SettleInv'
  OBVIOUS
<1> USE DEF SettleInv, HeldInTime, FlightInTime
<1>1. CASE Ingest
  <2> DEFINE n == Smaller(MaxBatch, Len(bus))
             polled == ToSet(SubSeq(bus, 1, n))
  <2>1. n \in 0..Len(bus) /\ bus \in Seq(Requests)
    BY LenProperties DEF TypeOK, Smaller
  <2>2. polled \subseteq Pending /\ Pending \subseteq Requests
    <3> HIDE DEF n
    <3>1. ToSet(SubSeq(bus, 1, n)) \subseteq ToSet(bus)
      BY ONLY <2>1, SplitQueue
    <3>2. ToSet(bus) \subseteq Requests
      BY ONLY <2>1, LenProperties DEF ToSet
    <3> QED BY ONLY <3>1, <3>2 DEF Pending
  <2>3. arrivals' = polled \cup Due /\ retryQ' = retryQ \ Due /\ InFlight' = arrivals'
    BY <1>1 DEF Ingest, Held, PhaseShape, InFlight
  <2>4. ingested' = [r \in Requests |-> IF r \in polled THEN step ELSE ingested[r]]
    BY <1>1 DEF Ingest
  <2>5. polled \cap retryQ = {} /\ Due \subseteq retryQ /\ retryQ \subseteq Requests
    BY <2>2 DEF OnePlace, Due, TypeOK
  <2>6. UNCHANGED <<step, eligible, retries>> /\ phase' = "lane"
    BY <1>1 DEF Ingest
  <2>7. TypeOK' /\ RetryInv'
    BY NextType, NextRetry
  <2> HIDE DEF polled
  <2>8. ASSUME NEW r \in polled PROVE step' <= SettleBy(r)'
    <3>1. r \in Requests /\ ingested'[r] = step
      BY <2>2, <2>4
    <3>2. SettleBy(r)' \in Nat /\ SettleBy(r)' >= ingested'[r]
      <4>1. TypeOK' /\ RetryInv' => SettleTyped'
        BY SettleByType, PTL
      <4> QED BY <2>7, <3>1, <4>1 DEF SettleTyped
    <3> QED BY <2>6, <3>1, <3>2 DEF TypeOK
  <2>9. ASSUME NEW r \in retryQ PROVE SettleBy(r)' = SettleBy(r)
    BY <2>4, <2>5, <2>6 DEF SettleBy
  <2>10. ASSUME NEW r \in retryQ \ Due PROVE step < SettleBy(r)
    <3>1. r \in Requests /\ eligible[r] > step
      BY <2>5 DEF Due, TypeOK
    <3>2. SettleBy(r) \in Nat
      BY <3>1, SettleByType DEF SettleTyped
    <3> QED BY <3>1, <3>2 DEF TypeOK
  <2>11. HeldInTime'
    BY <2>3, <2>6, <2>9, <2>10
  <2>12. FlightInTime'
    BY <2>3, <2>5, <2>6, <2>8, <2>9
  <2> QED BY <2>11, <2>12
<1>2. ASSUME NEW r \in Requests, Requeue(r) PROVE SettleInv'
  <2>1. step <= SettleBy(r)
    BY <1>2 DEF Requeue, InFlight
  <2>2. retries[r] \in 0..RetryBudget[r]
    BY DEF RetryInv, RetriesWithinBudget, TypeOK
  <2>3. /\ Backoff(retries[r]) \in Nat /\ DeferralCost(retries[r]) \in Nat
        /\ DeferralCost(retries[r]) >= 1
        /\ DeferralCost(retries[r]) >= Backoff(retries[r]) + BackoffBase
    BY <2>2, BackoffBounded, CostOfDeferral
  <2>4. SettleBy(r)' = SettleBy(r) + DeferralCost(retries[r])
    <3>1. retries'[r] = retries[r] + 1 /\ ingested' = ingested
      BY <1>2 DEF Requeue, NextRetryCount, TypeOK
    <3>2. DeferralTime(retries[r]) \in Nat
          /\ DeferralTime(retries[r] + 1) = DeferralTime(retries[r]) + DeferralCost(retries[r])
      BY <2>2, TimeOfDeferrals
    <3>3. ingested[r] \in Nat
      BY DEF TypeOK
    <3> QED BY <2>3, <3>1, <3>2, <3>3 DEF SettleBy
  <2>5. ASSUME NEW q \in Requests, q # r
        PROVE  SettleBy(q)' = SettleBy(q) /\ eligible'[q] = eligible[q]
    BY <1>2, <2>5 DEF Requeue, SettleBy, TypeOK
  <2>6. PICK jitter \in 0..BackoffBase : eligible'[r] = step + Backoff(retries[r]) + jitter
    BY <1>2 DEF Requeue, TypeOK
  <2>7. SettleBy(r) \in Nat
    BY SettleByType DEF SettleTyped
  <2>8. eligible'[r] <= SettleBy(r)' /\ step < SettleBy(r)'
    <3>1. step \in Nat /\ jitter \in Nat /\ jitter <= BackoffBase
      BY DEF TypeOK
    <3> QED BY <2>1, <2>3, <2>4, <2>6, <2>7, <3>1
  <2>9. UNCHANGED <<step, phase>> /\ retryQ' = retryQ \cup {r} /\ InFlight' \subseteq InFlight \ {r}
    <3>1. r \notin arrivals \cup bestEffort \cup candidates
      BY <1>2 DEF Requeue, OnePlace
    <3> QED BY <1>2, <3>1 DEF Requeue, InFlight
  <2>10. retryQ \subseteq Requests /\ InFlight \subseteq Requests /\ step \in Nat
    BY DEF TypeOK, InFlight
  <2>11. HeldInTime'
    <3>1. step' <= SettleBy(r)'
      <4>1. SettleBy(r)' \in Nat
        BY <2>3, <2>4, <2>7
      <4> QED BY <2>8, <2>9, <2>10, <4>1
    <3>2. ASSUME NEW q \in retryQ, q # r
          PROVE  /\ eligible'[q] <= SettleBy(q)' /\ step' <= SettleBy(q)'
                 /\ phase' \notin {"gather", "generate", "done"} => step' < SettleBy(q)'
      BY <2>5, <2>9, <2>10, <3>2
    <3> QED BY <2>8, <2>9, <3>1, <3>2
  <2>12. FlightInTime'
    BY <2>5, <2>9, <2>10
  <2> QED BY <2>11, <2>12
<1>3. CASE FinishStep
  <2>1. InFlight' = {}
    BY <1>3 DEF FinishStep, InFlight, PhaseShape
  <2>2. \A r \in retryQ : step < SettleBy(r) /\ SettleBy(r)' = SettleBy(r)
    BY <1>3 DEF FinishStep, SettleBy
  <2>3. \A r \in retryQ : SettleBy(r) \in Nat
    BY SettleByType DEF SettleTyped, TypeOK
  <2>4. step' = step + 1 /\ UNCHANGED <<retryQ, eligible>> /\ step \in Nat
    BY <1>3 DEF FinishStep, TypeOK
  <2>5. phase' \in {"gather", "done"}
    BY <1>3 DEF FinishStep
  <2> QED BY <2>1, <2>2, <2>3, <2>4, <2>5
<1>4. ASSUME UNCHANGED <<retryQ, eligible, ingested, retries, step>>,
             InFlight' \subseteq InFlight,
             phase' \in {"gather", "generate"} \/ phase \notin {"gather", "generate", "done"}
      PROVE  SettleInv'
  BY <1>4 DEF SettleBy
<1>5. CASE Gather
  BY <1>4, <1>5 DEF Gather, InFlight
<1>6. ASSUME NEW r \in Requests, Publish(r) PROVE SettleInv'
  BY <1>4, <1>6 DEF Publish, InFlight
<1>7. CASE Lane
  BY <1>4, <1>7 DEF Lane, InFlight, BestEffort
<1>8. CASE Admit
  BY <1>4, <1>8 DEF Admit, InFlight
<1>9. CASE BuildCandidates
  BY <1>4, <1>9 DEF BuildCandidates, InFlight
<1>10. ASSUME NEW m, Schedule(m) PROVE SettleInv'
  BY <1>4, <1>10 DEF Schedule, InFlight
<1>11. CASE ScheduleSafe
  BY <1>4, <1>11 DEF ScheduleSafe, InFlight
<1>12. ASSUME NEW r \in Requests, DropDeferred(r) PROVE SettleInv'
  BY <1>4, <1>12 DEF DropDeferred, InFlight
<1>13. CASE UNCHANGED vars
  BY <1>13 DEF vars, InFlight, SettleBy
<1> QED
  BY <1>1, <1>2, <1>3, <1>5, <1>6, <1>7, <1>8, <1>9, <1>10, <1>11, <1>12, <1>13
  DEF Next, RunScheduler

\* Once a request has been drained from the bus it settles within a time the
\* configuration fixes, or the run ends first: backoff, jitter and retry budget
\* together bound how long any request can be carried.
THEOREM SettlesWithinBound == Spec => []SettlesInTime
<1> DEFINE Inv == TypeOK /\ OnePlace /\ PhaseShape /\ NoneLost /\ RetryInv /\ SettleInv
<1>1. Init => Inv
  <2>1. Init => RetryInv
    BY FS_EmptySet DEF Init, RetryInv, QueueBounded, RetriesWithinBudget
  <2>2. Init => SettleInv
    BY DEF Init, SettleInv, HeldInTime, FlightInTime, InFlight
  <2> QED BY <2>1, <2>2, InitType, InitPlace
<1>2. Inv /\ [Next]_vars => Inv'
  BY NextType, NextPlace, NextLost, NextRetry, NextSettle
<1>3. Inv => SettlesInTime
  BY DEF SettleInv, HeldInTime, FlightInTime, SettlesInTime
<1> QED BY <1>1, <1>2, <1>3, PTL DEF Spec

-----------------------------------------------------------------------------
(* Conservation *)

\* The totals of earlier steps and of this one are the numbers of requests that
\* have reached each outcome, and a step starts with nothing counted.
CountsMatch ==
  /\ summary.served + counters.served = Cardinality(served)
  /\ summary.dropped + counters.dropped = Cardinality(dropped)
  /\ summary.rejected + counters.rejected = Cardinality(rejected)
  /\ phase \in {"gather", "generate", "lane", "done"} => counters = NoCounts

\* Adding requests that are not there yet adds their number.
LEMMA CountNew ==
  ASSUME NEW S \in SUBSET Requests, NEW T \in SUBSET Requests, S \cap T = {}
  PROVE  Cardinality(S \cup T) = Cardinality(S) + Cardinality(T)
<1>1. IsFiniteSet(S) /\ IsFiniteSet(T) /\ Cardinality(S) \in Nat /\ Cardinality(T) \in Nat
  BY FiniteContainers
<1>2. Cardinality(S \cup T) = Cardinality(S) + Cardinality(T) - Cardinality(S \cap T)
  BY <1>1, FS_Union
<1>3. Cardinality(S \cap T) = 0
  BY FS_EmptySet
<1> QED BY <1>1, <1>2, <1>3

LEMMA NextCounts ==
  TypeOK /\ OnePlace /\ PhaseShape /\ NoneLost /\ CountsMatch /\ [Next]_vars => CountsMatch'
<1> SUFFICES ASSUME TypeOK, OnePlace, PhaseShape, NoneLost, CountsMatch, [Next]_vars
             PROVE  CountsMatch'
  OBVIOUS
<1> USE DEF CountsMatch
<1>1. /\ served \in SUBSET Requests /\ dropped \in SUBSET Requests
      /\ rejected \in SUBSET Requests
      /\ counters \in Counts /\ summary \in Counts
      /\ \A S \in SUBSET Requests : Cardinality(S) \in Nat
  BY FiniteContainers DEF TypeOK
<1>2. ASSUME NEW add \in SUBSET Requests, NEW lose \in SUBSET Requests,
             add \cap served = {}, lose \cap dropped = {},
             served' = served \cup add, dropped' = dropped \cup lose,
             UNCHANGED <<rejected, summary>>, phase' \notin {"gather", "generate", "lane", "done"},
             counters' = Tally(counters, Cardinality(add), 0, Cardinality(lose), 0)
      PROVE  CountsMatch'
  <2>1. /\ Cardinality(served') = Cardinality(served) + Cardinality(add)
        /\ Cardinality(dropped') = Cardinality(dropped) + Cardinality(lose)
    BY <1>1, <1>2, CountNew
  <2>2. Cardinality(add) \in Nat /\ Cardinality(lose) \in Nat
    BY <1>1
  <2> QED BY <1>1, <1>2, <2>1, <2>2 DEF Tally, Counts
<1>3. ASSUME NEW add \in SUBSET Requests, add \cap rejected = {},
             rejected' = rejected \cup add,
             UNCHANGED <<served, dropped, summary>>,
             phase' \notin {"gather", "generate", "lane", "done"},
             counters' = Tally(counters, 0, 0, 0, Cardinality(add))
      PROVE  CountsMatch'
  <2>1. Cardinality(rejected') = Cardinality(rejected) + Cardinality(add)
    BY <1>1, <1>3, CountNew
  <2>2. Cardinality(add) \in Nat
    BY <1>1
  <2> QED BY <1>1, <1>3, <2>1, <2>2 DEF Tally, Counts
<1>4. CASE Lane
  <2>1. PICK admitted \in SUBSET ((arrivals \cap Urgent) \ LaneShed) :
          /\ served' = served \cup admitted
          /\ dropped' = dropped \cup LaneShed
          /\ counters' = Tally(counters, Cardinality(admitted), 0, Cardinality(LaneShed), 0)
    BY <1>4 DEF Lane
  <2>2. /\ LaneShed \in SUBSET Requests /\ admitted \in SUBSET Requests
        /\ admitted \cap served = {} /\ LaneShed \cap dropped = {}
    BY DEF LaneShed, OnePlace, Closed, TypeOK
  <2> QED BY <1>2, <1>4, <2>1, <2>2 DEF Lane
<1>5. CASE Admit
  <2>1. PICK shed \in SUBSET bestEffort :
          /\ rejected' = rejected \cup shed
          /\ counters' = Tally(counters, 0, 0, 0, Cardinality(shed))
    BY <1>5 DEF Admit
  <2>2. shed \in SUBSET Requests /\ shed \cap rejected = {}
    BY DEF OnePlace, Closed, TypeOK
  <2> QED BY <1>3, <1>5, <2>1, <2>2 DEF Admit
<1>6. CASE BuildCandidates
  <2> DEFINE noLegal == {r \in bestEffort : Licensed[r] = {}}
  <2>1. noLegal \in SUBSET Requests /\ noLegal \cap rejected = {}
    BY DEF OnePlace, Closed, TypeOK
  <2>2. /\ rejected' = rejected \cup noLegal
        /\ counters' = Tally(counters, 0, 0, 0, Cardinality(noLegal))
        /\ UNCHANGED <<served, dropped, summary>> /\ phase' = "schedule"
    BY <1>6 DEF BuildCandidates
  <2> HIDE DEF noLegal
  <2> QED BY <1>3, <2>1, <2>2
<1>7. ASSUME NEW m, Schedule(m) PROVE CountsMatch'
  <2> DEFINE late == {r \in candidates : Expired(r)}
  <2>1. PICK granted \in SUBSET (candidates \ late) :
          /\ served' = served \cup granted
          /\ counters' = Tally(counters, Cardinality(granted), 0, Cardinality(late), 0)
    BY <1>7 DEF Schedule
  <2>2. /\ late \in SUBSET Requests /\ granted \in SUBSET Requests
        /\ granted \cap served = {} /\ late \cap dropped = {}
    BY DEF OnePlace, Closed, TypeOK
  <2>3. /\ dropped' = dropped \cup late /\ phase' = "requeue"
        /\ UNCHANGED <<rejected, summary>>
    BY <1>7 DEF Schedule
  <2> HIDE DEF late
  <2> QED BY <1>2, <2>1, <2>2, <2>3
<1>8. ASSUME NEW r \in Requests, DropDeferred(r) PROVE CountsMatch'
  <2>1. r \notin dropped
    BY <1>8 DEF DropDeferred, OnePlace, Closed
  <2>2. Cardinality(dropped \cup {r}) = Cardinality(dropped) + 1
    BY <1>1, <2>1, FiniteContainers, FS_AddElement
  <2> QED BY <1>1, <1>8, <2>2 DEF DropDeferred, Tally, Counts
<1>9. ASSUME NEW r \in Requests, Requeue(r) PROVE CountsMatch'
  BY <1>1, <1>9 DEF Requeue, Tally, Counts
<1>10. CASE FinishStep
  BY <1>1, <1>10 DEF FinishStep, Tally, Counts, NoCounts
<1>11. CASE Gather \/ (\E r \in Requests : Publish(r)) \/ Ingest
  BY <1>11 DEF Gather, Publish, Ingest
<1>12. CASE ScheduleSafe
  BY <1>12 DEF ScheduleSafe
<1>13. CASE UNCHANGED vars
  BY <1>13 DEF vars
<1> QED
  BY <1>4, <1>5, <1>6, <1>7, <1>8, <1>9, <1>10, <1>11, <1>12, <1>13 DEF Next, RunScheduler

\* The bus holds as many entries as requests.
LEMMA BusCount ==
  ASSUME NEW q \in Seq(Requests), IsInjective(q)
  PROVE  Cardinality(ToSet(q)) = Len(q)
<1>1. Len(q) \in Nat /\ DOMAIN q = 1..Len(q) /\ q \in [1..Len(q) -> Requests]
  BY LenProperties
<1>2. q \in [1..Len(q) -> ToSet(q)]
  BY <1>1 DEF ToSet
<1>3. q \in Injection(1..Len(q), ToSet(q))
  BY <1>1, <1>2 DEF Injection, IsInjective
<1>4. q \in Surjection(1..Len(q), ToSet(q))
  BY <1>1, <1>2 DEF Surjection, ToSet
<1>5. ExistsBijection(1..Len(q), ToSet(q))
  BY <1>3, <1>4 DEF ExistsBijection, Bijection
<1> QED BY <1>1, <1>5, FS_CountingElements

\* What run() reports adds up: every published request is counted under exactly
\* one outcome or is still in one of the two backlogs.
THEOREM Conservation == Spec => []CountersConserve
<1> DEFINE Inv == TypeOK /\ OnePlace /\ PhaseShape /\ NoneLost /\ CountsMatch
<1>1. Init => Inv
  <2>1. Init => CountsMatch
    BY FS_EmptySet DEF Init, CountsMatch, NoCounts
  <2> QED BY <2>1, InitType, InitPlace
<1>2. Inv /\ [Next]_vars => Inv'
  BY NextType, NextPlace, NextLost, NextCounts
<1>3. Inv => CountersConserve
  <2> SUFFICES ASSUME Inv, phase \in {"gather", "done"}
               PROVE  /\ InFlight = {}
                      /\ summary.served + summary.dropped + summary.rejected
                           + Cardinality(retryQ) + Len(bus) = Cardinality(Published)
    BY DEF CountersConserve
  <2>1. InFlight = {}
    BY DEF PhaseShape, InFlight
  <2>2. /\ summary.served = Cardinality(served) /\ summary.dropped = Cardinality(dropped)
        /\ summary.rejected = Cardinality(rejected)
    BY DEF CountsMatch, TypeOK, Counts, NoCounts
  <2>3. Len(bus) = Cardinality(Pending) /\ Pending \subseteq Requests
    <3>1. bus \in Seq(Requests) /\ IsInjective(bus)
      BY DEF TypeOK, OnePlace
    <3> QED BY <3>1, BusCount, LenProperties DEF Pending, ToSet
  <2>4. /\ served \in SUBSET Requests /\ dropped \in SUBSET Requests
        /\ rejected \in SUBSET Requests /\ retryQ \in SUBSET Requests
        /\ Pending \in SUBSET Requests
    BY <2>3 DEF TypeOK
  <2>5. /\ served \cap dropped = {} /\ (served \cup dropped) \cap rejected = {}
        /\ Closed \cap retryQ = {} /\ (Closed \cup retryQ) \cap Pending = {}
    BY DEF OnePlace, Closed
  <2>6. Cardinality(served \cup dropped) = Cardinality(served) + Cardinality(dropped)
    BY <2>4, <2>5, CountNew
  <2>7. Cardinality(Closed) = Cardinality(served \cup dropped) + Cardinality(rejected)
    BY <2>4, <2>5, CountNew DEF Closed
  <2>8. Cardinality(Closed \cup retryQ) = Cardinality(Closed) + Cardinality(retryQ)
    BY <2>4, <2>5, CountNew DEF Closed
  <2>9. Cardinality((Closed \cup retryQ) \cup Pending)
          = Cardinality(Closed \cup retryQ) + Cardinality(Pending)
    BY <2>4, <2>5, CountNew DEF Closed
  <2>10. Published = (Closed \cup retryQ) \cup Pending
    BY <2>1 DEF NoneLost, Tracked
  <2>11. /\ Cardinality(served) \in Nat /\ Cardinality(dropped) \in Nat
         /\ Cardinality(rejected) \in Nat /\ Cardinality(retryQ) \in Nat
         /\ Cardinality(Pending) \in Nat
    BY <2>4, FiniteContainers
  <2> QED BY <2>1, <2>2, <2>3, <2>6, <2>7, <2>8, <2>9, <2>10, <2>11
<1> QED BY <1>1, <1>2, <1>3, PTL DEF Spec

-----------------------------------------------------------------------------
(* The loop implements the life RequestLifecycle promises to each request. *)
(* The mapping reads a request's life off the container that holds it;     *)
(* OnePlace is what makes that reading unambiguous.                        *)

Lives == Lifecycle!Open \cup Lifecycle!Closed

\* The life of a request, by the container that holds it.
LifeFits ==
  /\ Life \in [Requests -> Lives]
  /\ \A r \in Requests :
       /\ r \in Pending => Life[r] = "queued"
       /\ r \in InFlight => Life[r] = "deciding"
       /\ r \in retryQ => Life[r] = "held"
       /\ r \in served => Life[r] = "served"
       /\ r \in dropped => Life[r] = "dropped"
       /\ r \in rejected => Life[r] = "rejected"
       /\ r \notin Tracked => Life[r] = "unborn"

LEMMA PlaceGivesLife == OnePlace => LifeFits
<1> SUFFICES ASSUME OnePlace PROVE LifeFits
  OBVIOUS
<1>1. Life \in [Requests -> Lives]
  BY DEF Life, Lives, Lifecycle!Open, Lifecycle!Closed
<1>2. ASSUME NEW r \in Requests
      PROVE  /\ r \in Pending => Life[r] = "queued"
             /\ r \in InFlight => Life[r] = "deciding"
             /\ r \in retryQ => Life[r] = "held"
             /\ r \in served => Life[r] = "served"
             /\ r \in dropped => Life[r] = "dropped"
             /\ r \in rejected => Life[r] = "rejected"
             /\ r \notin Tracked => Life[r] = "unborn"
  <2>1. /\ r \in Pending => r \notin InFlight \cup retryQ \cup Closed
        /\ r \in InFlight => r \notin retryQ \cup Closed
        /\ r \in retryQ => r \notin Closed
        /\ r \in served => r \notin dropped \cup rejected
        /\ r \in dropped => r \notin rejected
    BY DEF OnePlace, InFlight, Closed
  <2>2. r \notin Tracked
          => r \notin Pending \cup InFlight \cup retryQ \cup served \cup dropped \cup rejected
    BY DEF Tracked, Closed
  <2>3. served \cup dropped \cup rejected \subseteq Closed
    BY DEF Closed
  <2> QED BY <2>1, <2>2, <2>3 DEF Life
<1> QED BY <1>1, <1>2 DEF LifeFits

\* A run starts with every request unborn and never deferred.
LEMMA InitLife == Init => Lifecycle!Init
<1> SUFFICES ASSUME Init PROVE Lifecycle!Init
  OBVIOUS
<1>1. LifeFits
  BY InitPlace, PlaceGivesLife
<1>2. Tracked = {}
  BY EmptySeq DEF Init, Tracked, Pending, InFlight, Closed, ToSet
<1>3. Life = [r \in Requests |-> "unborn"]
  BY <1>1, <1>2 DEF LifeFits
<1> QED BY <1>3 DEF Init, Lifecycle!Init

\* Every step of the loop moves every request along its life, or not at all.
LEMMA NextLife ==
  TypeOK /\ OnePlace /\ PhaseShape /\ NoneLost /\ [Next]_vars
    => [Lifecycle!Next]_<<Life, retries>>
<1> SUFFICES ASSUME TypeOK, OnePlace, PhaseShape, NoneLost, [Next]_vars
             PROVE  Lifecycle!Next
  OBVIOUS
<1>1. TypeOK' /\ OnePlace'
  BY NextType, NextPlace
<1>2. LifeFits
  BY PlaceGivesLife
<1>3. LifeFits'
  <2>1. OnePlace' => LifeFits'
    BY PlaceGivesLife, PTL
  <2> QED BY <1>1, <2>1
<1>4. SUFFICES ASSUME NEW r \in Requests
               PROVE  Lifecycle!Unmoved(r) \/ Lifecycle!Advance(r)
  BY <1>1, <1>3 DEF Lifecycle!Next, LifeFits, Lives, TypeOK
<1> DEFINE Goal == Lifecycle!Unmoved(r) \/ Lifecycle!Advance(r)
           \* r keeps its retry count and stays in place or moves on.
           Kept == retries'[r] = retries[r]
           Stays == /\ r \in Pending => r \in Pending'
                    /\ r \in InFlight => r \in InFlight'
                    /\ r \in retryQ => r \in retryQ'
                    /\ r \in served => r \in served'
                    /\ r \in dropped => r \in dropped'
                    /\ r \in rejected => r \in rejected'
                    /\ r \notin Tracked => r \notin Tracked'
           Drained == r \in Pending \cup retryQ /\ r \in InFlight'
           Settles == r \in InFlight /\ r \in served' \cup dropped' \cup rejected'
<1>5. Stays => Life'[r] = Life[r]
  BY <1>2, <1>3 DEF LifeFits, Tracked, Closed
<1>6. Kept /\ Stays => Goal
  BY <1>5 DEF Lifecycle!Unmoved
<1>7. Kept /\ Drained => Goal
  BY <1>2, <1>3 DEF LifeFits, Lifecycle!Advance, Lifecycle!Moves
<1>8. Kept /\ Settles => Goal
  <2> SUFFICES ASSUME Kept, Settles PROVE Lifecycle!Advance(r)
    OBVIOUS
  <2>1. Life[r] = "deciding" /\ Life'[r] \in Lifecycle!Closed
    BY <1>2, <1>3 DEF LifeFits, Lifecycle!Closed
  <2> QED BY <2>1 DEF Lifecycle!Advance, Lifecycle!Moves
<1> SUFFICES Goal
  OBVIOUS
<1> HIDE DEF Goal, Kept, Stays, Drained, Settles
<1>9. CASE UNCHANGED vars
  BY <1>6, <1>9 DEF vars, Kept, Stays, Pending, InFlight, Tracked, Closed
<1>10. CASE Gather
  BY <1>6, <1>10 DEF Gather, Kept, Stays, Pending, InFlight, Tracked, Closed
<1>11. ASSUME NEW p \in Requests, Publish(p) PROVE Goal
  <2>1. Pending' = Pending \cup {p}
    <3>1. bus \in Seq(Requests) /\ p \notin ToSet(bus) /\ bus' = Append(bus, p)
      BY <1>11 DEF Publish, NoneLost, Tracked, Pending, TypeOK
    <3> QED BY <3>1, AppendAdds DEF Pending
  <2>2. CASE r = p
    <3>1. Life[r] = "unborn"
      BY <1>2, <1>11, <2>2 DEF Publish, NoneLost, LifeFits
    <3>2. Life'[r] = "queued"
      BY <1>3, <2>1, <2>2 DEF LifeFits
    <3> QED BY <1>11, <3>1, <3>2 DEF Goal, Publish, Lifecycle!Advance, Lifecycle!Moves
  <2>3. CASE r # p
    BY <1>6, <1>11, <2>1, <2>3 DEF Publish, Kept, Stays, InFlight, Tracked, Closed
  <2> QED BY <2>2, <2>3
<1>12. CASE Ingest
  <2> DEFINE n == Smaller(MaxBatch, Len(bus))
             polled == ToSet(SubSeq(bus, 1, n))
  <2>1. n \in 0..Len(bus) /\ bus \in Seq(Requests)
    BY LenProperties, ConfigAssumption DEF TypeOK, Smaller
  <2>2. /\ bus' = SubSeq(bus, n + 1, Len(bus)) /\ arrivals' = polled \cup Due
        /\ Due \subseteq retryQ /\ retryQ' = retryQ \ Due
    BY <1>12 DEF Ingest, Due, Held
  <2>3. Pending = polled \cup Pending'
    <3> HIDE DEF n
    <3> QED BY <2>1, <2>2, SplitQueue DEF Pending
  <2>4. /\ UNCHANGED <<bestEffort, candidates, deferred, served, dropped, rejected, retries>>
        /\ InFlight = {}
    BY <1>12 DEF Ingest, PhaseShape, InFlight
  <2> HIDE DEF polled
  <2>5. CASE r \in polled \cup Due
    <3>1. Drained
      BY <2>2, <2>3, <2>5 DEF Drained, InFlight
    <3> QED BY <1>7, <2>4, <3>1 DEF Kept
  <2>6. CASE r \notin polled \cup Due
    <3>1. Stays
      BY <2>2, <2>3, <2>4, <2>6 DEF Stays, InFlight, Tracked, Closed
    <3> QED BY <1>6, <2>4, <3>1 DEF Kept
  <2> QED BY <2>5, <2>6
<1>13. CASE Lane
  <2>1. PICK admitted \in SUBSET ((arrivals \cap Urgent) \ LaneShed) :
          /\ served' = served \cup admitted
          /\ dropped' = dropped \cup LaneShed
          /\ bestEffort' = arrivals \ (admitted \cup LaneShed)
    BY <1>13 DEF Lane, BestEffort
  <2>2. LaneShed \subseteq arrivals
    BY DEF LaneShed
  <2>3. Kept /\ (Settles \/ Stays)
    BY <1>13, <2>1, <2>2 DEF Lane, PhaseShape, Kept, Settles, Stays, Pending, InFlight, Tracked, Closed
  <2> QED BY <1>6, <1>8, <2>3
<1>14. CASE Admit
  <2>1. Kept /\ (Settles \/ Stays)
    BY <1>14 DEF Admit, Kept, Settles, Stays, Pending, InFlight, Tracked, Closed
  <2> QED BY <1>6, <1>8, <2>1
<1>15. CASE BuildCandidates
  <2>1. Kept /\ (Settles \/ Stays)
    BY <1>15 DEF BuildCandidates, PhaseShape, Kept, Settles, Stays, Pending, InFlight, Tracked, Closed
  <2> QED BY <1>6, <1>8, <2>1
<1>16. ASSUME NEW m, Schedule(m) PROVE Goal
  <2>1. Kept /\ (Settles \/ Stays)
    BY <1>16 DEF Schedule, PhaseShape, Kept, Settles, Stays, Pending, InFlight, Tracked, Closed
  <2> QED BY <1>6, <1>8, <2>1
<1>17. CASE ScheduleSafe
  <2>1. Kept /\ Stays
    BY <1>17 DEF ScheduleSafe, PhaseShape, Kept, Stays, Pending, InFlight, Tracked, Closed
  <2> QED BY <1>6, <2>1
<1>18. ASSUME NEW d \in Requests, DropDeferred(d) PROVE Goal
  <2>1. Kept /\ (Settles \/ Stays)
    BY <1>18 DEF DropDeferred, Kept, Settles, Stays, Pending, InFlight, Tracked, Closed
  <2> QED BY <1>6, <1>8, <2>1
<1>19. ASSUME NEW d \in Requests, Requeue(d) PROVE Goal
  <2>1. CASE r = d
    <3>1. Life[r] = "deciding" /\ Life'[r] = "held"
      BY <1>2, <1>3, <1>19, <2>1 DEF Requeue, LifeFits, InFlight
    <3>2. retries \in [Requests -> Nat] /\ RetryBudget[d] \in Nat
      BY RequestsAssumption DEF TypeOK
    <3>3. retries' = [retries EXCEPT ![d] = retries[d] + 1] /\ ~(retries[d] >= RetryBudget[d])
      BY <1>19 DEF Requeue, MustDrop, NextRetryCount
    <3> QED BY <2>1, <3>1, <3>2, <3>3 DEF Goal, Lifecycle!Advance, Lifecycle!Deferred
  <2>2. CASE r # d
    <3>1. Kept /\ Stays
      BY <1>19, <2>2 DEF Requeue, TypeOK, Kept, Stays, Pending, InFlight, Tracked, Closed
    <3> QED BY <1>6, <3>1
  <2> QED BY <2>1, <2>2
<1>20. CASE FinishStep
  <2>1. Kept /\ Stays
    BY <1>20 DEF FinishStep, Kept, Stays, Pending, InFlight, Tracked, Closed
  <2> QED BY <1>6, <2>1
<1> QED
  BY <1>9, <1>10, <1>11, <1>12, <1>13, <1>14, <1>15, <1>16, <1>17, <1>18, <1>19, <1>20
  DEF Next, RunScheduler, Goal

\* The control loop gives every request exactly one life: it is queued, decided
\* and held in turn, at most RetryBudget times, and what it ends as never changes.
THEOREM LoopImplementsLifecycle == Spec => RefinesLifecycle
<1> DEFINE Inv == TypeOK /\ OnePlace /\ PhaseShape /\ NoneLost
<1>1. Init => Inv
  BY InitType, InitPlace
<1>2. Inv /\ [Next]_vars => Inv'
  BY NextType, NextPlace, NextLost
<1> QED BY <1>1, <1>2, InitLife, NextLife, PTL DEF Spec, RefinesLifecycle, Lifecycle!Spec

-----------------------------------------------------------------------------
(* The report of a run: each request is turned away or served once, in a    *)
(* step and for a reason that its own history bears out.                    *)

\* What the loop itself keeps true.
LoopInv == TypeOK /\ OnePlace /\ PhaseShape /\ NoneLost /\ CountsMatch

LEMMA ReportIsLoop ==
  /\ ReportInit => Init
  /\ [ReportNext]_reportVars => [Next]_vars
<1>1. ReportInit => Init
  BY DEF ReportInit
<1>2. ASSUME [ReportNext]_reportVars PROVE [Next]_vars
  BY <1>2 DEF ReportNext, Stage, Record, reportVars, Next
<1> QED BY <1>1, <1>2

LEMMA LoopStep ==
  /\ Init => LoopInv
  /\ LoopInv /\ [Next]_vars => LoopInv'
<1>1. Init => CountsMatch
  BY FS_EmptySet DEF Init, CountsMatch, NoCounts
<1>2. Init => LoopInv
  BY <1>1, InitType, InitPlace DEF LoopInv
<1>3. LoopInv /\ [Next]_vars => LoopInv'
  BY NextType, NextPlace, NextLost, NextCounts DEF LoopInv
<1> QED BY <1>2, <1>3

\* The causes a request is dropped for, other than by design.
Causes == {"deadline_missed", "retry_budget_exhausted", "no_capacity"}
Exhausted(r) == retries[r] >= Smaller(RetryBudget[r], LaneMaxRetries + 1)

\* The stages at which nothing has been decided yet in this step.
Resting == {"gather", "generate", "lane", "done"}

\* Each request that is closed was closed in a step, and for a reason.
SettledInv ==
  /\ reason \in [Requests -> Reasons \cup {None}] /\ settledAt \in [Requests -> Int]
  /\ \A r \in Published : arrival[r] \in 0..step
  /\ \A r \in Closed : settledAt[r] \in 0..step
  /\ phase \in Resting => \A r \in Closed : settledAt[r] < step
  /\ \A r \in Requests \ TurnedAway : reason[r] = None
  /\ \A r \in rejected : reason[r] \in ByDesign
  /\ \A r \in dropped :
       /\ reason[r] \in Causes
       /\ reason[r] = "deadline_missed" => settledAt[r] > arrival[r] + DeadlineSlack[r]
       /\ reason[r] = "retry_budget_exhausted" => Exhausted(r)
  /\ \A r \in served : arrival[r] <= settledAt[r] /\ settledAt[r] <= arrival[r] + DeadlineSlack[r]

\* What a stage does to the requests it closes and to those that are closed.
StageEffect ==
  /\ UNCHANGED <<step, summary>>
  /\ served \subseteq served' /\ dropped \subseteq dropped' /\ rejected \subseteq rejected'
  /\ \A r \in Closed' : r \in Published /\ arrival'[r] = arrival[r] /\ retries'[r] = retries[r]
  /\ \A r \in Published' : arrival'[r] = step \/ (r \in Published /\ arrival'[r] = arrival[r])
  /\ \A r \in served' \ served : ~Expired(r)
  /\ \A r \in dropped' \ dropped :
       /\ ReasonFor(r) \in Causes
       /\ ReasonFor(r) = "deadline_missed" => Expired(r)
       /\ ReasonFor(r) = "retry_budget_exhausted" => Exhausted(r)
  /\ \A r \in rejected' \ rejected : ReasonFor(r) \in ByDesign
  /\ phase' \in Resting => phase \in Resting /\ Closed' \subseteq Closed

LEMMA StageCloses == LoopInv /\ Stage => StageEffect
<1> SUFFICES ASSUME LoopInv, Stage PROVE StageEffect
  OBVIOUS
<1> USE DEF Closed, Resting, Causes, ByDesign
<1>1. /\ Closed \subseteq Published /\ arrivals \subseteq Published /\ bestEffort \subseteq Published
      /\ candidates \subseteq Published /\ deferred \subseteq Published
      /\ deferred \cap Closed = {}
      /\ retries \in [Requests -> Nat] /\ arrival \in [Requests -> Nat \cup {Never}]
      /\ Published \subseteq Requests /\ step \in Nat
  BY DEF LoopInv, OnePlace, NoneLost, Tracked, InFlight, TypeOK, Published
<1>2. \A r \in Published : arrival[r] # Never
  BY DEF Published
<1>3. CASE Gather
  BY <1>1, <1>3 DEF Gather, Published, StageEffect
<1>4. CASE Ingest
  BY <1>1, <1>4 DEF Ingest, Published, StageEffect
<1>5. ASSUME NEW p \in Requests, Publish(p) PROVE StageEffect
  BY <1>1, <1>5 DEF Publish, Published, StageEffect
<1>6. CASE Lane
  <2>1. PICK admitted \in SUBSET ((arrivals \cap Urgent) \ LaneShed) :
          served' = served \cup admitted /\ dropped' = dropped \cup LaneShed
    BY <1>6 DEF Lane
  <2>2. /\ UNCHANGED <<step, summary, rejected, retries, arrival>>
        /\ phase = "lane" /\ phase' = "admit"
    BY <1>6 DEF Lane
  <2>3. LaneShed \subseteq arrivals
    BY DEF LaneShed
  <2>4. \A r \in served' \ served : ~Expired(r)
    BY <2>1 DEF LaneShed
  <2>5. ASSUME NEW r \in LaneShed
        PROVE  /\ ReasonFor(r) \in Causes
               /\ ReasonFor(r) = "deadline_missed" => Expired(r)
               /\ ReasonFor(r) = "retry_budget_exhausted" => Exhausted(r)
    <3>1. ReasonFor(r) = LaneReason(r)
      BY <2>2 DEF ReasonFor
    <3>2. ~Expired(r) => retries[r] > LaneMaxRetries
      BY DEF LaneShed
    <3>3. retries[r] \in Nat /\ RetryBudget[r] \in Nat
      BY <1>1, <2>3, RequestsAssumption
    <3>4. ~Expired(r) => Exhausted(r)
      BY <3>2, <3>3 DEF Exhausted, Smaller
    <3> QED BY <3>1, <3>4 DEF LaneReason
  <2> QED BY <1>1, <2>1, <2>2, <2>3, <2>4, <2>5 DEF StageEffect, Published
<1>7. CASE Admit
  <2>1. /\ UNCHANGED <<step, summary, served, dropped, retries, arrival>>
        /\ phase = "admit" /\ phase' = "candidates"
        /\ rejected \subseteq rejected' /\ rejected' \subseteq rejected \cup bestEffort
    BY <1>7 DEF Admit
  <2>2. \A r : ReasonFor(r) = "admission_shed"
    BY <2>1 DEF ReasonFor
  <2> QED BY <1>1, <2>1, <2>2 DEF StageEffect, Published
<1>8. CASE BuildCandidates
  <2>1. /\ UNCHANGED <<step, summary, served, dropped, retries, arrival>>
        /\ phase = "candidates" /\ phase' = "schedule"
        /\ rejected \subseteq rejected' /\ rejected' \subseteq rejected \cup bestEffort
    BY <1>8 DEF BuildCandidates
  <2>2. \A r : ReasonFor(r) = "no_legal_option"
    BY <2>1 DEF ReasonFor
  <2> QED BY <1>1, <2>1, <2>2 DEF StageEffect, Published
<1>9. ASSUME NEW m, Schedule(m) PROVE StageEffect
  <2> DEFINE late == {r \in candidates : Expired(r)}
  <2>1. PICK granted \in SUBSET (candidates \ late) : served' = served \cup granted
    BY <1>9 DEF Schedule
  <2>2. /\ UNCHANGED <<step, summary, rejected, retries, arrival>>
        /\ phase = "schedule" /\ phase' = "requeue"
        /\ dropped' = dropped \cup late
    BY <1>9 DEF Schedule
  <2>3. \A r : ReasonFor(r) = "deadline_missed"
    BY <2>2 DEF ReasonFor
  <2>4. \A r \in granted : ~Expired(r)
    OBVIOUS
  <2> QED BY <1>1, <2>1, <2>2, <2>3, <2>4 DEF StageEffect, Published
<1>10. CASE ScheduleSafe
  BY <1>1, <1>10 DEF ScheduleSafe, Published, StageEffect
<1>11. ASSUME NEW d \in Requests, DropDeferred(d) PROVE StageEffect
  <2>1. /\ UNCHANGED <<step, summary, served, rejected, retries, arrival>>
        /\ phase = "requeue" /\ phase' = "requeue"
        /\ d \in deferred /\ dropped' = dropped \cup {d}
    BY <1>11 DEF DropDeferred
  <2>2. ReasonFor(d) = RequeueReason(d)
    BY <2>1 DEF ReasonFor
  <2>3. retries[d] \in Nat /\ RetryBudget[d] \in Nat
    BY <1>1, RequestsAssumption
  <2>4. retries[d] >= RetryBudget[d] => Exhausted(d)
    BY <2>3 DEF Exhausted, Smaller
  <2> QED BY <1>1, <2>1, <2>2, <2>4 DEF StageEffect, Published, RequeueReason
<1>12. ASSUME NEW d \in Requests, Requeue(d) PROVE StageEffect
  <2>1. /\ UNCHANGED <<phase, step, summary, served, dropped, rejected, arrival>>
        /\ d \in deferred /\ retries' = [retries EXCEPT ![d] = NextRetryCount(d)]
        /\ phase = "requeue"
    BY <1>12 DEF Requeue
  <2>2. \A r \in Closed : r # d
    BY <1>1, <2>1
  <2> QED BY <1>1, <2>1, <2>2 DEF StageEffect, Published
<1> QED
  BY <1>3, <1>4, <1>5, <1>6, <1>7, <1>8, <1>9, <1>10, <1>11, <1>12 DEF Stage, RunScheduler

LEMMA InitSettled == ReportInit => SettledInv
BY DEF ReportInit, Init, SettledInv, Published, Closed, TurnedAway, Never

LEMMA StageSettled == LoopInv /\ LoopInv' /\ SettledInv /\ Stage => SettledInv'
<1> SUFFICES ASSUME LoopInv, LoopInv', SettledInv, Stage PROVE SettledInv'
  OBVIOUS
<1>1. StageEffect
  BY StageCloses
<1>2. /\ reason' = [r \in Requests |-> IF r \in TurnedAway' \ TurnedAway THEN ReasonFor(r) ELSE reason[r]]
      /\ settledAt' = [r \in Requests |-> IF r \in Closed' \ Closed THEN step ELSE settledAt[r]]
  BY DEF Stage
<1>3. /\ served' \subseteq Requests /\ dropped' \subseteq Requests /\ rejected' \subseteq Requests
      /\ served' \cap (dropped' \cup rejected') = {} /\ dropped' \cap rejected' = {}
      /\ step \in Nat /\ DeadlineSlack \in [Requests -> Nat]
  BY RequestsAssumption DEF LoopInv, TypeOK, OnePlace
<1>4. /\ served \subseteq served' /\ dropped \subseteq dropped' /\ rejected \subseteq rejected'
      /\ step' = step
  BY <1>1 DEF StageEffect
<1>5. Published \subseteq Requests /\ \A r \in Published : arrival[r] \in 0..step
  BY DEF Published, SettledInv
<1>6. \A r \in Closed' : /\ r \in Published /\ arrival'[r] = arrival[r] /\ retries'[r] = retries[r]
                         /\ arrival[r] \in 0..step /\ r \in Requests
  BY <1>1, <1>5 DEF StageEffect
<1>7. ASSUME NEW r \in dropped
      PROVE  /\ r \in Closed' /\ r \in Requests /\ reason'[r] = reason[r] /\ settledAt'[r] = settledAt[r]
             /\ arrival'[r] = arrival[r] /\ (Exhausted(r) => Exhausted(r)')
  <2>1. r \in Closed' /\ r \in Requests /\ r \in TurnedAway /\ r \in Closed
    BY <1>3, <1>4 DEF Closed, TurnedAway
  <2>2. reason'[r] = reason[r] /\ settledAt'[r] = settledAt[r] /\ retries'[r] = retries[r]
    BY <1>2, <1>6, <2>1
  <2> QED BY <1>6, <2>1, <2>2 DEF Exhausted
<1>8. ASSUME NEW r \in dropped' \ dropped
      PROVE  /\ reason'[r] = ReasonFor(r) /\ settledAt'[r] = step /\ arrival'[r] = arrival[r]
             /\ (Exhausted(r) => Exhausted(r)')
  <2>1. r \in Closed' \ Closed /\ r \in TurnedAway' \ TurnedAway /\ r \in Requests
    BY <1>3, <1>4 DEF Closed, TurnedAway
  <2> QED BY <1>2, <1>6, <2>1 DEF Exhausted
<1>9. \A r \in dropped' :
        /\ reason'[r] \in Causes
        /\ reason'[r] = "deadline_missed" => settledAt'[r] > arrival'[r] + DeadlineSlack[r]
        /\ reason'[r] = "retry_budget_exhausted" => Exhausted(r)'
  <2> TAKE r \in dropped'
  <2>1. CASE r \in dropped
    BY <1>7, <2>1 DEF SettledInv
  <2>2. CASE r \notin dropped
    <3>1. /\ ReasonFor(r) \in Causes
          /\ ReasonFor(r) = "deadline_missed" => Expired(r)
          /\ ReasonFor(r) = "retry_budget_exhausted" => Exhausted(r)
      BY <1>1, <2>2 DEF StageEffect
    <3> QED BY <1>8, <2>2, <3>1 DEF Expired
  <2> QED BY <2>1, <2>2
<1>10. \A r \in rejected' : reason'[r] \in ByDesign
  <2> TAKE r \in rejected'
  <2>1. CASE r \in rejected
    <3>1. r \in TurnedAway /\ r \in Requests
      BY <1>3, <2>1 DEF TurnedAway
    <3> QED BY <1>2, <2>1, <3>1 DEF SettledInv
  <2>2. CASE r \notin rejected
    <3>1. r \in TurnedAway' \ TurnedAway /\ r \in Requests
      BY <1>3, <1>4, <2>2 DEF TurnedAway
    <3> QED BY <1>1, <1>2, <2>2, <3>1 DEF StageEffect
  <2> QED BY <2>1, <2>2
<1>11. \A r \in served' : /\ arrival'[r] <= settledAt'[r]
                          /\ settledAt'[r] <= arrival'[r] + DeadlineSlack[r]
  <2> TAKE r \in served'
  <2>0. r \in Closed' /\ r \in Requests
    BY <1>3 DEF Closed
  <2>1. CASE r \in served
    <3>1. r \in Closed
      BY <2>1 DEF Closed
    <3> QED BY <1>2, <1>6, <2>0, <2>1, <3>1 DEF SettledInv
  <2>2. CASE r \notin served
    <3>1. r \notin Closed
      BY <1>3, <1>4, <2>2 DEF Closed
    <3>2. ~(step > arrival[r] + DeadlineSlack[r]) /\ DeadlineSlack[r] \in Nat
      BY <1>1, <1>3, <2>0, <2>2 DEF StageEffect, Expired
    <3> QED BY <1>2, <1>3, <1>6, <2>0, <3>1, <3>2
  <2> QED BY <2>1, <2>2
<1>12. /\ reason' \in [Requests -> Reasons \cup {None}] /\ settledAt' \in [Requests -> Int]
  <2>1. \A r \in TurnedAway' \ TurnedAway : ReasonFor(r) \in Reasons
    BY <1>1 DEF StageEffect, TurnedAway, Causes, ByDesign, Reasons
  <2>2. reason \in [Requests -> Reasons \cup {None}] /\ settledAt \in [Requests -> Int]
    BY DEF SettledInv
  <2> QED BY <1>2, <1>3, <2>1, <2>2
<1>13. \A r \in Published' : arrival'[r] \in 0..step'
  <2> TAKE r \in Published'
  <2>1. arrival'[r] = step \/ (r \in Published /\ arrival'[r] = arrival[r])
    BY <1>1 DEF StageEffect
  <2> QED BY <1>3, <1>4, <1>5, <2>1
<1>14. \A r \in Closed' : settledAt'[r] \in 0..step'
  BY <1>2, <1>3, <1>4, <1>6 DEF SettledInv
<1>15. phase' \in Resting => \A r \in Closed' : settledAt'[r] < step'
  BY <1>1, <1>2, <1>4, <1>6 DEF StageEffect, SettledInv
<1>16. \A r \in Requests \ TurnedAway' : reason'[r] = None
  BY <1>2, <1>4 DEF TurnedAway, SettledInv
<1> QED BY <1>9, <1>10, <1>11, <1>12, <1>13, <1>14, <1>15, <1>16 DEF SettledInv

LEMMA RecordSettled == LoopInv /\ SettledInv /\ Record => SettledInv'
<1> SUFFICES ASSUME LoopInv, SettledInv, Record PROVE SettledInv'
  OBVIOUS
<1>1. /\ UNCHANGED <<arrival, retries, served, dropped, rejected, reason, settledAt>>
      /\ step' = step + 1 /\ step \in Nat
  BY DEF Record, FinishStep, LoopInv, TypeOK
<1> QED BY <1>1 DEF SettledInv, Published, Closed, TurnedAway, Exhausted

LEMMA NextSettled == LoopInv /\ LoopInv' /\ SettledInv /\ [ReportNext]_reportVars => SettledInv'
<1>1. ASSUME SettledInv, UNCHANGED reportVars PROVE SettledInv'
  BY <1>1 DEF reportVars, vars, SettledInv, Published, Closed, TurnedAway, Exhausted
<1> QED BY <1>1, StageSettled, RecordSettled DEF ReportNext

-----------------------------------------------------------------------------
(* The report of a run: what the recorded steps add up to *)

\* A recorded number of each of the first n steps, and of one step more.
LEMMA SeriesGrows ==
  ASSUME NEW n \in Nat, NEW f, NEW g, DOMAIN f = 1..n, DOMAIN g = 1..(n + 1),
         \A i \in 1..n : f[i] \in Nat /\ g[i] = f[i], g[n + 1] \in Nat
  PROVE  SumFunction(g) = SumFunction(f) + g[n + 1]
<1>1. n + 1 \notin DOMAIN f /\ DOMAIN g = DOMAIN f \cup {n + 1} /\ g[n + 1] \in Int
      /\ \A i \in DOMAIN f : f[i] \in Int /\ g[i] = f[i]
  OBVIOUS
<1>2. IsFiniteSet(DOMAIN f)
  BY FS_Interval
<1> QED BY <1>1, <1>2, SumFunctionAdd

LEMMA SeriesEmpty ==
  ASSUME NEW f, DOMAIN f = {}
  PROVE  SumFunction(f) = 0
BY SumEmpty DEF SumFunction, SumFunctionOnSet, FoldFunction

\* The requests closed before this step.
Past == {r \in Closed : settledAt[r] < step}
PastFor(x) == {r \in Past : reason[r] = x}
NowFor(x) == {r \in SettledNow : reason[r] = x}
WaitOf(r) == settledAt[r] - arrival[r]
PastWaiting(w) == {r \in served \cap Past : WaitOf(r) <= w}
NowWaiting(w) == {r \in SettledNow \cap served : WaitOf(r) <= w}

Kinds == {"served", "deferred", "dropped", "rejected"}
StepRecord == [counts : Counts, reasons : [Reasons -> Nat], waits : Seq(Nat), spare : BOOLEAN]

\* The recorded steps account for the requests closed in them, kind by kind, reason by
\* reason and wait by wait.
StepsInv ==
  /\ steps \in Seq(StepRecord) /\ Len(steps) = step
  /\ \A kind \in Kinds : Totals[kind] = summary[kind]
  /\ \A x \in Reasons : ReasonTotals[x] = Cardinality(PastFor(x))
  /\ ScarcityWhileIdle \in Nat
  /\ ScarcityWhileIdle <= ReasonTotals["no_capacity"] + ReasonTotals["deadline_missed"]
  /\ AllWaits \in Seq(Nat) /\ Len(AllWaits) = Cardinality(served \cap Past)
  /\ \A w \in Int : Cardinality(Upto(AllWaits, w)) = Cardinality(PastWaiting(w))

LEMMA KindsOfCounts ==
  /\ DOMAIN NoCounts = Kinds
  /\ \A c \in Counts : \A kind \in Kinds : c[kind] \in Nat
  /\ \A c \in Counts : \A f : f = [k \in Kinds |-> f[k]] /\ (\A kind \in Kinds : f[kind] = c[kind])
                               => f = c
<1>1. DOMAIN NoCounts = Kinds
  BY DEF NoCounts, Kinds
<1>2. ASSUME NEW c \in Counts PROVE \A kind \in Kinds : c[kind] \in Nat
  BY DEF Counts, Kinds
<1>3. ASSUME NEW c \in Counts, NEW f, f = [k \in Kinds |-> f[k]], \A kind \in Kinds : f[kind] = c[kind]
      PROVE  f = c
  BY <1>3 DEF Counts, Kinds
<1> QED BY <1>1, <1>2, <1>3

LEMMA InitSteps == ReportInit => StepsInv
<1> SUFFICES ASSUME ReportInit PROVE StepsInv
  OBVIOUS
<1>1. /\ steps = <<>> /\ step = 0 /\ summary = NoCounts
      /\ served = {} /\ dropped = {} /\ rejected = {}
  BY DEF ReportInit, Init
<1>2. /\ steps \in Seq(StepRecord) /\ Len(steps) = 0 /\ DOMAIN steps = {}
  BY <1>1, EmptySeq
<1>3. \A kind \in Kinds : Totals[kind] = 0
  <2> TAKE kind \in Kinds
  <2> DEFINE series == [i \in DOMAIN steps |-> steps[i].counts[kind]]
  <2>1. DOMAIN series = {}
    BY <1>2
  <2> HIDE DEF series
  <2>2. SumFunction(series) = 0
    BY <2>1, SeriesEmpty
  <2> QED BY <2>2, KindsOfCounts DEF Totals, series
<1>4. \A x \in Reasons : ReasonTotals[x] = 0
  <2> TAKE x \in Reasons
  <2> DEFINE series == [i \in DOMAIN steps |-> steps[i].reasons[x]]
  <2>1. DOMAIN series = {}
    BY <1>2
  <2> HIDE DEF series
  <2>2. SumFunction(series) = 0
    BY <2>1, SeriesEmpty
  <2> QED BY <2>2 DEF ReasonTotals, series
<1>5. ScarcityWhileIdle = 0
  <2> DEFINE series == [i \in DOMAIN steps |->
                          IF steps[i].spare THEN SumFunctionOnSet(steps[i].reasons, Scarcity) ELSE 0]
  <2>1. DOMAIN series = {}
    BY <1>2
  <2> HIDE DEF series
  <2>2. SumFunction(series) = 0
    BY <2>1, SeriesEmpty
  <2> QED BY <2>2 DEF ScarcityWhileIdle, series
<1>6. AllWaits = <<>>
  <2> DEFINE parts == [i \in DOMAIN steps |-> steps[i].waits]
  <2>1. parts = <<>>
    BY <1>2
  <2> HIDE DEF parts
  <2>2. FlattenSeq(parts) = <<>>
    BY <2>1 DEF FlattenSeq
  <2> QED BY <2>2 DEF AllWaits, parts
<1>7. Past = {}
  BY <1>1 DEF Past, Closed
<1>8. Cardinality({}) = 0
  BY FS_EmptySet
<1>9. \A x : Cardinality(PastFor(x)) = 0
  BY <1>7, <1>8 DEF PastFor
<1>10. \A w : Cardinality(PastWaiting(w)) = 0
  BY <1>7, <1>8 DEF PastWaiting
<1>11. Cardinality(served \cap Past) = 0
  BY <1>7, <1>8
<1>12. AllWaits \in Seq(Nat) /\ Len(AllWaits) = 0 /\ \A w : Cardinality(Upto(AllWaits, w)) = 0
  BY <1>6, <1>8, EmptySeq DEF Upto
<1>13. \A kind \in Kinds : summary[kind] = 0
  BY <1>1 DEF NoCounts, Kinds
<1>14. "no_capacity" \in Reasons /\ "deadline_missed" \in Reasons
  BY DEF Reasons
<1> QED BY <1>1, <1>2, <1>3, <1>4, <1>5, <1>9, <1>10, <1>11, <1>12, <1>13, <1>14 DEF StepsInv

\* A stage records nothing, and closes nothing before this step.
LEMMA StageSteps ==
  LoopInv /\ LoopInv' /\ SettledInv /\ StepsInv /\ Stage => StepsInv'
<1> SUFFICES ASSUME LoopInv, LoopInv', SettledInv, StepsInv, Stage PROVE StepsInv'
  OBVIOUS
<1>1. StageEffect
  BY StageCloses
<1>2. /\ reason' = [r \in Requests |-> IF r \in TurnedAway' \ TurnedAway THEN ReasonFor(r) ELSE reason[r]]
      /\ settledAt' = [r \in Requests |-> IF r \in Closed' \ Closed THEN step ELSE settledAt[r]]
      /\ steps' = steps
  BY DEF Stage
<1>3. /\ served' \subseteq Requests /\ dropped' \subseteq Requests /\ rejected' \subseteq Requests
      /\ served' \cap (dropped' \cup rejected') = {}
      /\ step \in Nat
  BY DEF LoopInv, TypeOK, OnePlace
<1>4. /\ served \subseteq served' /\ dropped \subseteq dropped' /\ rejected \subseteq rejected'
      /\ step' = step /\ summary' = summary
  BY <1>1 DEF StageEffect
<1>5. \A r \in Closed : /\ r \in Closed' /\ r \in Requests
                        /\ settledAt'[r] = settledAt[r] /\ arrival'[r] = arrival[r]
  <2> TAKE r \in Closed
  <2>1. r \in Closed' /\ r \in Requests
    BY <1>3, <1>4 DEF Closed
  <2> QED BY <1>1, <1>2, <2>1 DEF StageEffect
<1>6. \A r \in Closed' : r \notin Closed => ~(settledAt'[r] < step)
  <2> TAKE r \in Closed'
  <2>1. r \in Requests
    BY <1>3 DEF Closed
  <2> QED BY <1>2, <1>3, <2>1
<1>7. Past' = Past
  BY <1>4, <1>5, <1>6 DEF Past
<1>8. \A r \in Past : /\ reason'[r] = reason[r] \/ r \in served
                      /\ settledAt'[r] = settledAt[r] /\ arrival'[r] = arrival[r]
  BY <1>2, <1>5 DEF Past, Closed, TurnedAway
<1>9. served' \cap Past' = served \cap Past
  BY <1>3, <1>4, <1>7 DEF Past, Closed
<1>10. \A r \in Past : reason'[r] = reason[r]
  <2> SUFFICES ASSUME NEW r \in Past, r \in served PROVE reason'[r] = reason[r]
    BY <1>8
  <2>1. r \notin TurnedAway' /\ r \in Requests
    BY <1>3, <1>4 DEF TurnedAway
  <2> QED BY <1>2, <2>1
<1>11. \A x : PastFor(x)' = PastFor(x)
  BY <1>7, <1>10 DEF PastFor
<1>12. \A w : PastWaiting(w)' = PastWaiting(w)
  <2> TAKE w
  <2>1. \A r \in served \cap Past : settledAt'[r] = settledAt[r] /\ arrival'[r] = arrival[r]
    BY <1>8
  <2> QED BY <1>9, <2>1 DEF PastWaiting, WaitOf
<1>13. /\ Totals' = Totals /\ ReasonTotals' = ReasonTotals
       /\ ScarcityWhileIdle' = ScarcityWhileIdle /\ AllWaits' = AllWaits
  BY <1>2 DEF Totals, ReasonTotals, ScarcityWhileIdle, AllWaits
<1>14. \A w : Upto(AllWaits', w) = Upto(AllWaits, w)
  BY <1>13
<1> QED BY <1>2, <1>4, <1>9, <1>11, <1>12, <1>13, <1>14 DEF StepsInv

\* A set with as much again.
LEMMA CountBoth ==
  ASSUME NEW S \in SUBSET Requests, NEW A, NEW B, S = A \cup B, A \cap B = {}
  PROVE  Cardinality(S) = Cardinality(A) + Cardinality(B)
BY CountNew

\* The waits a step records, among the requests it serves.
LEMMA WaitsAsServed ==
  ASSUME LoopInv, SettledInv
  PROVE  /\ Waits \in Seq(Nat) /\ Len(Waits) = Cardinality(SettledNow \cap served)
         /\ \A w \in Int : Cardinality(Upto(Waits, w)) = Cardinality(NowWaiting(w))
<1> DEFINE S == SettledNow \cap served
           n == Cardinality(S)
           now == SetToSeq(S)
<1>0. S \in SUBSET Requests /\ step \in Nat
  BY DEF LoopInv, TypeOK
<1>1. IsFiniteSet(S)
  BY <1>0, FiniteContainers
<1>2. /\ now \in [1..n -> S] /\ n \in Nat
      /\ \A i, j \in 1..n : now[i] = now[j] => i = j
      /\ \A x \in S : \E i \in 1..n : now[i] = x
  BY <1>1, SetAsSeq
<1>3. \A r \in S : r \in Requests /\ WaitOf(r) \in Nat /\ Wait(r) = WaitOf(r)
  <2> TAKE r \in S
  <2>1. r \in served /\ r \in Closed /\ settledAt[r] = step /\ r \in Requests
    BY <1>0 DEF SettledNow
  <2>2. arrival[r] <= settledAt[r]
    BY <2>1 DEF SettledInv
  <2>3. r \in Published
    BY <2>1 DEF LoopInv, NoneLost, Tracked
  <2>4. arrival[r] \in Nat
    BY <1>0, <2>3 DEF SettledInv
  <2> QED BY <1>0, <2>1, <2>2, <2>4 DEF WaitOf, Wait, Larger
<1>4. Waits = [i \in 1..n |-> Wait(now[i])]
  <2>1. DOMAIN now = 1..n
    BY <1>2
  <2>2. Waits = [i \in DOMAIN now |-> Wait(now[i])]
    BY DEF Waits
  <2> HIDE DEF n, now
  <2> QED BY <2>1, <2>2
<1> HIDE DEF now, n, S
<1>5. \A i \in 1..n : now[i] \in S /\ Waits[i] = WaitOf(now[i]) /\ Waits[i] \in Nat
  BY <1>2, <1>3, <1>4
<1>6. Waits \in Seq(Nat) /\ Len(Waits) = n /\ DOMAIN Waits = 1..n
  <2>1. Waits \in [1..n -> Nat]
    BY <1>4, <1>5
  <2> QED BY <1>2, <2>1
<1>7. ASSUME NEW w \in Int PROVE Cardinality(Upto(Waits, w)) = Cardinality(NowWaiting(w))
  <2>1. Waits \in Seq(Int)
    BY <1>6
  <2>2. IsFiniteSet(Upto(Waits, w))
    BY <2>1, UptoFinite
  <2>3. \A i : i \in Upto(Waits, w) <=> i \in 1..n /\ WaitOf(now[i]) <= w
    BY <1>5, <1>6 DEF Upto
  <2>4. \A r : r \in NowWaiting(w) <=> r \in S /\ WaitOf(r) <= w
    BY DEF NowWaiting, S
  <2>5. \A i \in Upto(Waits, w) : now[i] \in NowWaiting(w)
    BY <1>5, <2>3, <2>4
  <2>6. \A i, j \in Upto(Waits, w) : now[i] = now[j] => i = j
    BY <1>2, <2>3
  <2>7. \A r \in NowWaiting(w) : \E i \in Upto(Waits, w) : now[i] = r
    BY <1>2, <2>3, <2>4
  <2> QED BY <2>2, <2>5, <2>6, <2>7, SameNumber
<1> QED BY <1>6, <1>7 DEF n, S

\* Recording a step adds what it closed to what the steps before it did.
LEMMA RecordSteps ==
  LoopInv /\ LoopInv' /\ SettledInv /\ StepsInv /\ Record => StepsInv'
<1> SUFFICES ASSUME LoopInv, LoopInv', SettledInv, StepsInv, Record PROVE StepsInv'
  OBVIOUS
<1> DEFINE n == step
<1>1. PICK spare \in Spare :
        steps' = Append(steps, [counts |-> counters, reasons |-> ReasonCounts,
                                waits |-> Waits, spare |-> spare])
  BY DEF Record
<1> DEFINE rec == [counts |-> counters, reasons |-> ReasonCounts, waits |-> Waits, spare |-> spare]
<1>2. /\ UNCHANGED <<arrival, served, dropped, rejected, reason, settledAt>>
      /\ step' = n + 1 /\ n \in Nat
      /\ summary' = Tally(summary, counters.served, counters.deferred,
                          counters.dropped, counters.rejected)
      /\ counters \in Counts /\ summary \in Counts
  BY DEF Record, FinishStep, LoopInv, TypeOK
<1>3. /\ Waits \in Seq(Nat) /\ Len(Waits) = Cardinality(SettledNow \cap served)
      /\ \A w \in Int : Cardinality(Upto(Waits, w)) = Cardinality(NowWaiting(w))
  BY WaitsAsServed
<1>4. \A x : NowFor(x) \in SUBSET Requests
  BY DEF NowFor, SettledNow, Closed, LoopInv, TypeOK
<1>5. ReasonCounts \in [Reasons -> Nat]
  <2>1. \A x : Cardinality(NowFor(x)) \in Nat
    BY <1>4, FiniteContainers
  <2> QED BY <2>1 DEF ReasonCounts, NowFor
<1>6. rec \in StepRecord
  BY <1>2, <1>3, <1>5 DEF StepRecord, Spare
<1>7. /\ steps' \in Seq(StepRecord) /\ Len(steps') = n + 1 /\ DOMAIN steps' = 1..(n + 1)
      /\ DOMAIN steps = 1..n /\ steps'[n + 1] = rec
      /\ \A i \in 1..n : steps'[i] = steps[i] /\ steps[i] \in StepRecord
  <2>1. steps \in Seq(StepRecord) /\ Len(steps) = n
    BY DEF StepsInv
  <2> HIDE DEF rec
  <2> QED BY <1>1, <1>2, <1>6, <2>1, AppendProperties, ElementOfSeq DEF rec
<1>8. /\ rec.counts = counters /\ rec.reasons = ReasonCounts /\ rec.waits = Waits /\ rec.spare = spare
      /\ spare \in BOOLEAN
  BY DEF Spare
<1>9. \A i \in 1..n : /\ steps[i].counts \in Counts /\ steps[i].reasons \in [Reasons -> Nat]
                      /\ steps[i].waits \in Seq(Nat) /\ steps[i].spare \in BOOLEAN
  BY <1>7 DEF StepRecord
<1> HIDE DEF rec, n
<1>10. \A kind \in Kinds : Totals'[kind] = summary'[kind]
  <2> TAKE kind \in Kinds
  <2> DEFINE f == [i \in DOMAIN steps |-> steps[i].counts[kind]]
             g == [i \in DOMAIN steps' |-> steps'[i].counts[kind]]
  <2>1. /\ DOMAIN f = 1..n /\ DOMAIN g = 1..(n + 1)
        /\ \A i \in 1..n : f[i] \in Nat /\ g[i] = f[i]
        /\ g[n + 1] = counters[kind] /\ g[n + 1] \in Nat
    BY <1>2, <1>7, <1>8, <1>9, KindsOfCounts
  <2>2. Totals[kind] = SumFunction(f) /\ Totals'[kind] = SumFunction(g)
    BY KindsOfCounts DEF Totals
  <2> HIDE DEF f, g
  <2>3. SumFunction(g) = SumFunction(f) + g[n + 1]
    BY <1>2, <2>1, SeriesGrows
  <2>4. Totals'[kind] = summary[kind] + counters[kind]
    BY <2>1, <2>2, <2>3 DEF StepsInv
  <2>5. summary'[kind] = summary[kind] + counters[kind]
    BY <1>2 DEF Tally, Kinds
  <2> QED BY <2>4, <2>5
<1>11. /\ Past' = Past \cup SettledNow /\ Past \cap SettledNow = {}
       /\ SettledNow \subseteq Requests /\ Past \subseteq Requests
  <2>1. \A r \in Closed : settledAt[r] \in 0..n
    BY DEF SettledInv, n
  <2>2. Past' = {r \in Closed : settledAt[r] < n + 1}
    BY <1>2 DEF Past, Closed
  <2>3. \A r \in Closed : settledAt[r] < n + 1 <=> settledAt[r] < n \/ settledAt[r] = n
    BY <1>2, <2>1
  <2>4. Closed \subseteq Requests
    BY DEF Closed, LoopInv, TypeOK
  <2> QED BY <1>2, <2>1, <2>2, <2>3, <2>4 DEF Past, SettledNow, n
<1>12. \A x : Cardinality(PastFor(x)') = Cardinality(PastFor(x)) + Cardinality(NowFor(x))
  <2> TAKE x
  <2>1. /\ PastFor(x)' = PastFor(x) \cup NowFor(x) /\ PastFor(x) \cap NowFor(x) = {}
        /\ PastFor(x)' \in SUBSET Requests
    BY <1>2, <1>11 DEF PastFor, NowFor
  <2> QED BY <2>1, CountBoth
<1>13. \A w : Cardinality(PastWaiting(w)') = Cardinality(PastWaiting(w)) + Cardinality(NowWaiting(w))
  <2> TAKE w
  <2>1. /\ PastWaiting(w)' = PastWaiting(w) \cup NowWaiting(w) /\ PastWaiting(w) \cap NowWaiting(w) = {}
        /\ PastWaiting(w)' \in SUBSET Requests
    BY <1>2, <1>11 DEF PastWaiting, NowWaiting, WaitOf
  <2> QED BY <2>1, CountBoth
<1>14. Cardinality(served' \cap Past') = Cardinality(served \cap Past) + Cardinality(SettledNow \cap served)
  <2>1. /\ served' \cap Past' = (served \cap Past) \cup (SettledNow \cap served)
        /\ (served \cap Past) \cap (SettledNow \cap served) = {}
        /\ served' \cap Past' \in SUBSET Requests
    BY <1>2, <1>11
  <2> QED BY <2>1, CountBoth
<1>15. ASSUME NEW x \in Reasons
       PROVE  /\ ReasonTotals'[x] = Cardinality(PastFor(x)')
              /\ ReasonTotals'[x] = ReasonTotals[x] + ReasonCounts[x]
              /\ ReasonTotals[x] \in Nat
  <2> DEFINE f == [i \in DOMAIN steps |-> steps[i].reasons[x]]
             g == [i \in DOMAIN steps' |-> steps'[i].reasons[x]]
  <2>1. /\ DOMAIN f = 1..n /\ DOMAIN g = 1..(n + 1)
        /\ \A i \in 1..n : f[i] \in Nat /\ g[i] = f[i]
        /\ g[n + 1] = ReasonCounts[x] /\ g[n + 1] \in Nat
    BY <1>2, <1>5, <1>7, <1>8, <1>9
  <2>2. ReasonTotals[x] = SumFunction(f) /\ ReasonTotals'[x] = SumFunction(g)
    BY DEF ReasonTotals
  <2> HIDE DEF f, g
  <2>3. SumFunction(g) = SumFunction(f) + g[n + 1]
    BY <1>2, <2>1, SeriesGrows
  <2>4. ReasonCounts[x] = Cardinality(NowFor(x))
    BY DEF ReasonCounts, NowFor
  <2>5. ReasonTotals[x] = Cardinality(PastFor(x))
    BY DEF StepsInv
  <2>6. PastFor(x) \in SUBSET Requests
    BY <1>11 DEF PastFor
  <2>7. Cardinality(PastFor(x)) \in Nat
    BY <2>6, FiniteContainers
  <2> QED BY <1>12, <2>1, <2>2, <2>3, <2>4, <2>5, <2>7
<1>16. /\ ScarcityWhileIdle' \in Nat
       /\ ScarcityWhileIdle' <= ReasonTotals'["no_capacity"] + ReasonTotals'["deadline_missed"]
  <2> DEFINE term(s) == IF s.spare THEN SumFunctionOnSet(s.reasons, Scarcity) ELSE 0
             f == [i \in DOMAIN steps |-> term(steps[i])]
             g == [i \in DOMAIN steps' |-> term(steps'[i])]
  <2>1. ASSUME NEW rs \in [Reasons -> Nat]
        PROVE  /\ SumFunctionOnSet(rs, Scarcity) = rs["no_capacity"] + rs["deadline_missed"]
               /\ rs["no_capacity"] \in Nat /\ rs["deadline_missed"] \in Nat
    <3>1. rs["no_capacity"] \in Nat /\ rs["deadline_missed"] \in Nat
      BY DEF Reasons
    <3>2. IsFiniteSet({"deadline_missed"}) /\ IsFiniteSet({})
      BY FS_Singleton, FS_EmptySet
    <3>3. Scarcity = {"deadline_missed"} \cup {"no_capacity"} /\ "no_capacity" \notin {"deadline_missed"}
      BY DEF Scarcity
    <3>4. SumFunctionOnSet(rs, {"deadline_missed"}) = rs["deadline_missed"]
      <4>1. SumFunctionOnSet(rs, {} \cup {"deadline_missed"}) = rs["deadline_missed"] + SumFunctionOnSet(rs, {})
        BY <3>1, <3>2, SumAdd
      <4>2. {} \cup {"deadline_missed"} = {"deadline_missed"}
        OBVIOUS
      <4>3. SumFunctionOnSet(rs, {"deadline_missed"}) = rs["deadline_missed"] + SumFunctionOnSet(rs, {})
        BY <4>1, <4>2, Zenon
      <4> QED BY <3>1, <4>3, SumEmpty
    <3>5. SumFunctionOnSet(rs, {"deadline_missed"} \cup {"no_capacity"})
            = rs["no_capacity"] + SumFunctionOnSet(rs, {"deadline_missed"})
      BY <3>1, <3>2, <3>3, SumAdd
    <3> QED BY <3>1, <3>3, <3>4, <3>5
  <2>2. ASSUME NEW s \in StepRecord PROVE term(s) \in Nat
    <3>1. s.reasons \in [Reasons -> Nat]
      BY DEF StepRecord
    <3> QED BY <2>1, <3>1
  <2>3. /\ DOMAIN f = 1..n /\ DOMAIN g = 1..(n + 1)
        /\ \A i \in 1..n : f[i] \in Nat /\ g[i] = f[i]
        /\ g[n + 1] = term(rec) /\ g[n + 1] \in Nat
    <3>1. term(rec) \in Nat
      BY <1>6, <2>2 DEF rec
    <3>2. \A i \in 1..n : term(steps[i]) \in Nat
      BY <1>7, <2>2
    <3> HIDE DEF term
    <3> QED BY <1>2, <1>7, <3>1, <3>2
  <2>4. term(rec) <= ReasonCounts["no_capacity"] + ReasonCounts["deadline_missed"]
    BY <1>5, <1>8, <2>1
  <2>5. ScarcityWhileIdle = SumFunction(f) /\ ScarcityWhileIdle' = SumFunction(g)
    BY DEF ScarcityWhileIdle
  <2> HIDE DEF f, g, term
  <2>6. SumFunction(g) = SumFunction(f) + g[n + 1]
    BY <1>2, <2>3, SeriesGrows
  <2>7. "no_capacity" \in Reasons /\ "deadline_missed" \in Reasons
    BY DEF Reasons
  <2>8. /\ ReasonTotals'["no_capacity"] = ReasonTotals["no_capacity"] + ReasonCounts["no_capacity"]
        /\ ReasonTotals'["deadline_missed"] = ReasonTotals["deadline_missed"] + ReasonCounts["deadline_missed"]
        /\ ReasonTotals["no_capacity"] \in Nat /\ ReasonTotals["deadline_missed"] \in Nat
        /\ ReasonCounts["no_capacity"] \in Nat /\ ReasonCounts["deadline_missed"] \in Nat
    BY <1>5, <1>15, <2>7
  <2>9. /\ ScarcityWhileIdle \in Nat
        /\ ScarcityWhileIdle <= ReasonTotals["no_capacity"] + ReasonTotals["deadline_missed"]
    BY DEF StepsInv
  <2> QED BY <2>3, <2>4, <2>5, <2>6, <2>8, <2>9
<1>17. AllWaits' = AllWaits \o Waits /\ AllWaits \in Seq(Nat)
  <2> DEFINE old == [i \in DOMAIN steps |-> steps[i].waits]
             new == [i \in DOMAIN steps' |-> steps'[i].waits]
  <2>1. /\ old \in Seq(Seq(Nat)) /\ Len(old) = n /\ new \in Seq(Seq(Nat)) /\ Len(new) = Len(old) + 1
        /\ \A i \in 1..Len(old) : new[i] = old[i]
        /\ new[Len(new)] = Waits
    <3>1. old \in [1..n -> Seq(Nat)]
      BY <1>7, <1>9
    <3>2. new \in [1..(n + 1) -> Seq(Nat)] /\ new[n + 1] = Waits /\ \A i \in 1..n : new[i] = old[i]
      BY <1>2, <1>3, <1>7, <1>8, <1>9
    <3> HIDE DEF old, new
    <3> QED BY <1>2, <3>1, <3>2
  <2>2. AllWaits = FlattenSeq(old) /\ AllWaits' = FlattenSeq(new)
    BY DEF AllWaits
  <2> HIDE DEF old, new
  <2>3. FlattenSeq(new) = FlattenSeq(old) \o new[Len(new)]
    BY <2>1, FlattenAppend
  <2> QED BY <2>1, <2>2, <2>3 DEF StepsInv
<1>18. AllWaits' \in Seq(Nat) /\ Len(AllWaits') = Len(AllWaits) + Len(Waits)
  BY <1>3, <1>17
<1>19. ASSUME NEW w \in Int PROVE Cardinality(Upto(AllWaits', w)) = Cardinality(PastWaiting(w)')
  <2>1. AllWaits \in Seq(Int) /\ Waits \in Seq(Int)
    BY <1>3, <1>17
  <2>2. Cardinality(Upto(AllWaits \o Waits, w)) = Cardinality(Upto(AllWaits, w)) + Cardinality(Upto(Waits, w))
    BY <2>1, CountConcat
  <2>3. Cardinality(Upto(AllWaits, w)) = Cardinality(PastWaiting(w))
    BY DEF StepsInv
  <2> QED BY <1>3, <1>13, <1>17, <2>2, <2>3
<1>20. Len(AllWaits') = Cardinality(served' \cap Past')
  BY <1>3, <1>14, <1>18 DEF StepsInv
<1> QED BY <1>2, <1>7, <1>10, <1>15, <1>16, <1>18, <1>19, <1>20 DEF StepsInv

LEMMA NextSteps ==
  LoopInv /\ LoopInv' /\ SettledInv /\ StepsInv /\ [ReportNext]_reportVars => StepsInv'
<1>1. ASSUME StepsInv, UNCHANGED reportVars PROVE StepsInv'
  <2>1. UNCHANGED <<steps, step, summary, settledAt, arrival, reason, served, dropped, rejected>>
    BY <1>1 DEF reportVars, vars
  <2>2. Past' = Past
    BY <2>1 DEF Past, Closed
  <2>3. /\ \A x : PastFor(x)' = PastFor(x)
        /\ \A w : PastWaiting(w)' = PastWaiting(w)
    BY <2>1, <2>2 DEF PastFor, PastWaiting, WaitOf
  <2>4. /\ Totals' = Totals /\ ReasonTotals' = ReasonTotals
        /\ ScarcityWhileIdle' = ScarcityWhileIdle /\ AllWaits' = AllWaits
    BY <2>1 DEF Totals, ReasonTotals, ScarcityWhileIdle, AllWaits
  <2>5. \A w : Upto(AllWaits', w) = Upto(AllWaits, w)
    BY <2>4
  <2> QED BY <1>1, <2>1, <2>2, <2>3, <2>4, <2>5 DEF StepsInv
<1> QED BY <1>1, StageSteps, RecordSteps DEF ReportNext

-----------------------------------------------------------------------------
(* What experiment.py computes from the recorded steps is what happened to  *)
(* the requests.                                                            *)

ReportInv == LoopInv /\ SettledInv /\ StepsInv

LEMMA ReportInvariant == ReportSpec => []ReportInv
<1>1. ReportInit => ReportInv
  BY ReportIsLoop, LoopStep, InitSettled, InitSteps DEF ReportInv
<1>2. ReportInv /\ [ReportNext]_reportVars => ReportInv'
  BY ReportIsLoop, LoopStep, NextSettled, NextSteps DEF ReportInv
<1> QED BY <1>1, <1>2, PTL DEF ReportSpec

\* Fewer requests are no more.
LEMMA CountFewer ==
  ASSUME NEW S \in SUBSET Requests, NEW T \in SUBSET S
  PROVE  Cardinality(T) <= Cardinality(S)
<1>1. IsFiniteSet(S)
  BY FiniteContainers
<1> QED BY <1>1, FS_Subset

\* Between steps, whoever is closed was closed in a recorded one.
LEMMA BetweenSteps ==
  ASSUME ReportInv, phase \in {"gather", "done"}
  PROVE  /\ Past = Closed /\ Closed \in SUBSET Requests
         /\ \A x \in Reasons : ReasonTotals[x] = Cardinality({r \in Closed : reason[r] = x})
         /\ \A r \in Closed : reason[r] \in ByDesign <=> r \in rejected
         /\ \A r \in Closed : reason[r] \in Causes <=> r \in dropped
         /\ \A r \in Closed : reason[r] \in Reasons => reason[r] \in ByDesign \cup Causes
<1>1. Past = Closed
  BY DEF ReportInv, SettledInv, Resting, Past
<1>2. Closed \in SUBSET Requests
  BY DEF ReportInv, LoopInv, TypeOK, Closed
<1>3. \A x \in Reasons : ReasonTotals[x] = Cardinality({r \in Closed : reason[r] = x})
  BY <1>1 DEF ReportInv, StepsInv, PastFor
<1>4. ByDesign \cap Causes = {} /\ None \notin Reasons /\ ByDesign \cup Causes \subseteq Reasons
  BY DEF ByDesign, Causes, Reasons, None
<1>5. ASSUME NEW r \in Closed
      PROVE  /\ r \in rejected => reason[r] \in ByDesign
             /\ r \in dropped => reason[r] \in Causes
             /\ r \notin TurnedAway => reason[r] = None
    BY <1>2 DEF ReportInv, SettledInv
<1> QED BY <1>1, <1>2, <1>3, <1>4, <1>5 DEF TurnedAway

\* The report of a run is the report of its requests, for every number of requests,
\* every budget, deadline and configuration: the recorded steps add up to the summary
\* run() returns, and each request turned away is counted once, under a reason that its
\* own history bears out.
THEOREM ReportAddsUp == ReportSpec => []ReportReconciles
<1>1. ReportInv => ReportReconciles
  <2> SUFFICES ASSUME ReportInv, phase \in {"gather", "done"} PROVE ReportReconciles
    BY DEF ReportReconciles
  <2>1. /\ Past = Closed /\ Closed \in SUBSET Requests
        /\ \A x \in Reasons : ReasonTotals[x] = Cardinality({r \in Closed : reason[r] = x})
        /\ \A r \in Closed : reason[r] \in ByDesign <=> r \in rejected
        /\ \A r \in Closed : reason[r] \in Causes <=> r \in dropped
        /\ \A r \in Closed : reason[r] \in Reasons => reason[r] \in ByDesign \cup Causes
    BY BetweenSteps
  <2>2. /\ IsFiniteSet(Closed) /\ rejected \subseteq Closed /\ dropped \subseteq Closed
        /\ rejected \in SUBSET Requests /\ dropped \in SUBSET Requests
    BY <2>1, FiniteContainers DEF Closed
  <2>3. Totals = summary /\ Len(steps) = step
    <3>1. summary \in Counts /\ Totals = [kind \in Kinds |-> Totals[kind]]
      BY KindsOfCounts DEF ReportInv, LoopInv, TypeOK, Totals
    <3>2. \A kind \in Kinds : Totals[kind] = summary[kind]
      BY DEF ReportInv, StepsInv
    <3> QED BY <3>1, <3>2, KindsOfCounts DEF ReportInv, StepsInv
  <2>4. IsFiniteSet(Reasons) /\ ByDesign \subseteq Reasons /\ IsFiniteSet(ByDesign)
    <3>1. Reasons = {"admission_shed"} \cup {"no_legal_option"} \cup {"no_capacity"}
                      \cup {"deadline_missed"} \cup {"retry_budget_exhausted"} \cup {"emergency_lane_full"}
      BY DEF Reasons
    <3>2. IsFiniteSet(Reasons)
      BY <3>1, FS_Singleton, FS_Union
    <3>3. ByDesign \subseteq Reasons
      BY DEF ByDesign, Reasons
    <3> QED BY <3>2, <3>3, FS_Subset
  <2>5. \A T \in SUBSET Reasons : IsFiniteSet(T) =>
           OfReasons(T) = Cardinality({r \in Closed : reason[r] \in T})
    <3> TAKE T \in SUBSET Reasons
    <3> HAVE IsFiniteSet(T)
    <3> DEFINE kind == [x \in Reasons |-> {r \in Closed : reason[r] = x}]
               U == {r \in Closed : reason[r] \in T}
    <3>1. \A x \in T : ReasonTotals[x] = Cardinality(kind[x])
      BY <2>1
    <3>2. \A x \in T : \A r : r \in kind[x] <=> r \in Closed /\ reason[r] = x
      OBVIOUS
    <3>3. \A r : r \in U <=> r \in Closed /\ reason[r] \in T
      OBVIOUS
    <3> HIDE DEF kind, U
    <3>4. SumFunctionOnSet(ReasonTotals, T) = Cardinality(U)
      BY <2>2, <3>1, <3>2, <3>3, CountBy, SMTT(30)
    <3> QED BY <3>4 DEF OfReasons, U
  <2>6. OfReasons(Reasons) = Cardinality(dropped \cup rejected)
    <3>1. {r \in Closed : reason[r] \in Reasons} = dropped \cup rejected
      BY <2>1, <2>2 DEF Causes, ByDesign, Reasons
    <3>2. OfReasons(Reasons) = Cardinality({r \in Closed : reason[r] \in Reasons})
      BY <2>4, <2>5
    <3> QED BY <3>1, <3>2
  <2>7. OfReasons(ByDesign) = Cardinality(rejected)
    <3>1. {r \in Closed : reason[r] \in ByDesign} = rejected
      BY <2>1, <2>2
    <3>2. OfReasons(ByDesign) = Cardinality({r \in Closed : reason[r] \in ByDesign})
      BY <2>4, <2>5
    <3> QED BY <3>1, <3>2
  <2> DEFINE For(x) == {r \in Closed : reason[r] = x}
  <2>8. /\ For("deadline_missed") \subseteq dropped
        /\ For("retry_budget_exhausted") \subseteq dropped
        /\ For("no_capacity") \subseteq dropped
    BY <2>1 DEF Causes
  <2>9. ReasonTotals["deadline_missed"]
          <= Cardinality({r \in dropped : settledAt[r] > arrival[r] + DeadlineSlack[r]})
    <3> DEFINE late == {r \in dropped : settledAt[r] > arrival[r] + DeadlineSlack[r]}
    <3>1. For("deadline_missed") \subseteq late /\ late \subseteq Requests
      BY <2>2, <2>8 DEF ReportInv, SettledInv
    <3>2. ReasonTotals["deadline_missed"] = Cardinality(For("deadline_missed"))
      BY <2>1 DEF Reasons
    <3> HIDE DEF late, For
    <3>3. ReasonTotals["deadline_missed"] <= Cardinality(late)
      BY <3>1, <3>2, CountFewer
    <3> QED BY <3>3 DEF late
  <2>10. ReasonTotals["retry_budget_exhausted"]
           <= Cardinality({r \in dropped : retries[r] >= Smaller(RetryBudget[r], LaneMaxRetries + 1)})
    <3> DEFINE spent == {r \in dropped : retries[r] >= Smaller(RetryBudget[r], LaneMaxRetries + 1)}
    <3>1. For("retry_budget_exhausted") \subseteq spent /\ spent \subseteq Requests
      BY <2>2, <2>8 DEF ReportInv, SettledInv, Exhausted
    <3>2. ReasonTotals["retry_budget_exhausted"] = Cardinality(For("retry_budget_exhausted"))
      BY <2>1 DEF Reasons
    <3> HIDE DEF spent, For
    <3>3. ReasonTotals["retry_budget_exhausted"] <= Cardinality(spent)
      BY <3>1, <3>2, CountFewer
    <3> QED BY <3>3 DEF spent
  <2>11. ReasonTotals["emergency_lane_full"] = 0
    <3>1. For("emergency_lane_full") = {}
      BY <2>1 DEF Causes, ByDesign, Reasons
    <3>2. ReasonTotals["emergency_lane_full"] = Cardinality(For("emergency_lane_full"))
      BY <2>1 DEF Reasons
    <3> HIDE DEF For
    <3> QED BY <3>1, <3>2, FS_EmptySet
  <2>12. ScarcityWhileIdle <= Cardinality(dropped)
    <3> DEFINE both == For("no_capacity") \cup For("deadline_missed")
    <3>1. /\ For("no_capacity") \cap For("deadline_missed") = {}
          /\ both \in SUBSET dropped /\ both \in SUBSET Requests
      BY <2>2, <2>8
    <3>2. /\ ReasonTotals["no_capacity"] = Cardinality(For("no_capacity"))
          /\ ReasonTotals["deadline_missed"] = Cardinality(For("deadline_missed"))
      BY <2>1 DEF Reasons
    <3> HIDE DEF For
    <3>3. Cardinality(both) = Cardinality(For("no_capacity")) + Cardinality(For("deadline_missed"))
      BY <3>1, CountBoth
    <3>4. Cardinality(both) <= Cardinality(dropped)
      BY <2>2, <3>1, CountFewer
    <3>5. /\ ScarcityWhileIdle \in Nat
          /\ ScarcityWhileIdle <= ReasonTotals["no_capacity"] + ReasonTotals["deadline_missed"]
      BY DEF ReportInv, StepsInv
    <3>6. Cardinality(both) \in Nat /\ Cardinality(dropped) \in Nat
      BY <2>2, <3>1, FiniteContainers
    <3> QED BY <3>2, <3>3, <3>4, <3>5, <3>6
  <2> QED BY <2>3, <2>6, <2>7, <2>9, <2>10, <2>11, <2>12 DEF ReportReconciles
<1> QED BY <1>1, ReportInvariant, PTL

\* The k-th entry of a sorted sequence: k entries come up to it, and fewer are less.
LEMMA SortedAt ==
  ASSUME NEW ns \in Seq(Int), NEW k \in 1..Len(ns)
  PROVE  LET v == Sorted(ns)[k]
         IN  v \in Int /\ Cardinality(Upto(ns, v)) >= k /\ Cardinality(Upto(ns, v - 1)) < k
<1> DEFINE D == DOMAIN ns
           before == {p \in D \X D : ns[p[1]] < ns[p[2]] \/ (ns[p[1]] = ns[p[2]] /\ p[1] <= p[2])}
<1>1. D = 1..Len(ns) /\ Len(ns) \in Nat /\ \A i \in D : ns[i] \in Int /\ i \in Nat
  BY LenProperties, ElementOfSeq
<1>2. IsFiniteSet(D) /\ Cardinality(D) = Len(ns)
  BY <1>1, FS_Interval, SMTT(30)
<1>3. \A i, j \in D : <<i, j>> \in before <=> ns[i] < ns[j] \/ (ns[i] = ns[j] /\ i <= j)
  OBVIOUS
<1> HIDE DEF D, before
<1>4. IsTotalOrder(D, before)
  <2>0. ASSUME NEW i \in D, NEW j \in D
        PROVE  /\ <<i, j>> \in before \/ <<j, i>> \in before
               /\ <<i, j>> \in before /\ <<j, i>> \in before => i = j
    <3>1. /\ <<i, j>> \in before <=> ns[i] < ns[j] \/ (ns[i] = ns[j] /\ i <= j)
          /\ <<j, i>> \in before <=> ns[j] < ns[i] \/ (ns[j] = ns[i] /\ j <= i)
      BY <1>3
    <3>2. ns[i] \in Int /\ ns[j] \in Int /\ i \in Nat /\ j \in Nat
      BY <1>1
    <3> QED BY <3>1, <3>2
  <2>1. \A i, j \in D : <<i, j>> \in before \/ <<j, i>> \in before
    BY <2>0
  <2>2. \A i, j \in D : <<i, j>> \in before /\ <<j, i>> \in before => i = j
    BY <2>0
  <2>3. ASSUME NEW i \in D, NEW j \in D, NEW l \in D, <<i, j>> \in before, <<j, l>> \in before
        PROVE  <<i, l>> \in before
    <3>1. /\ ns[i] < ns[j] \/ (ns[i] = ns[j] /\ i <= j)
          /\ ns[j] < ns[l] \/ (ns[j] = ns[l] /\ j <= l)
      BY <1>3, <2>3
    <3>2. ns[i] < ns[l] \/ (ns[i] = ns[l] /\ i <= l)
      BY <1>1, <3>1
    <3> QED BY <1>3, <3>2
  <2> QED BY <2>1, <2>2, <2>3 DEF IsTotalOrder
<1>5. \A i \in D : {j \in D : ns[j] < ns[i] \/ (ns[j] = ns[i] /\ j <= i)} = {j \in D : <<j, i>> \in before}
  BY <1>3
<1>6. \A i \in D : Place(ns, i) = Rank(i, D, before)
  BY <1>5 DEF Place, Rank, D
<1>7. \E i \in D : Place(ns, i) = k
  <2>1. k \in 1..Cardinality(D)
    BY <1>2
  <2>2. \E i \in D : Rank(i, D, before) = k
    BY <1>2, <1>4, <2>1, EveryRankTaken
  <2> QED BY <1>6, <2>2
<1> DEFINE i == CHOOSE x \in D : Place(ns, x) = k
<1>8. i \in D /\ Place(ns, i) = k
  BY <1>7
<1>9. Sorted(ns)[k] = ns[i]
  BY <1>1 DEF Sorted, D
<1> HIDE DEF i
<1> DEFINE UptoI == {j \in D : <<j, i>> \in before}
<1>10. Cardinality(UptoI) = k /\ IsFiniteSet(UptoI)
  <2>1. Rank(i, D, before) = k
    BY <1>6, <1>8
  <2> QED BY <1>2, <2>1, FS_Subset DEF Rank
<1>11. UptoI \in SUBSET Upto(ns, ns[i])
  <2>1. \A j \in D : <<j, i>> \in before => ns[j] <= ns[i]
    BY <1>1, <1>3, <1>8
  <2> QED BY <2>1 DEF Upto, D
<1>12. Upto(ns, ns[i] - 1) \in SUBSET UptoI /\ i \notin Upto(ns, ns[i] - 1) /\ i \in UptoI
  <2>1. \A j \in D : ns[j] <= ns[i] - 1 => <<j, i>> \in before /\ j # i
    BY <1>1, <1>3, <1>8
  <2>2. <<i, i>> \in before /\ ~(ns[i] <= ns[i] - 1)
    BY <1>1, <1>3, <1>8
  <2> QED BY <1>8, <2>1, <2>2 DEF Upto, D
<1>13. Upto(ns, ns[i] - 1) # UptoI
  BY <1>12
<1>14. /\ IsFiniteSet(Upto(ns, ns[i])) /\ Cardinality(Upto(ns, ns[i])) \in Nat
       /\ Cardinality(Upto(ns, ns[i] - 1)) \in Nat
  BY UptoFinite
<1> HIDE DEF UptoI
<1>15. Cardinality(UptoI) <= Cardinality(Upto(ns, ns[i]))
  BY <1>11, <1>14, FS_Subset
<1>16. /\ Cardinality(Upto(ns, ns[i] - 1)) <= Cardinality(UptoI)
       /\ Cardinality(Upto(ns, ns[i] - 1)) # Cardinality(UptoI)
  BY <1>10, <1>12, <1>13, FS_Subset
<1>17. ns[i] \in Int
  BY <1>1, <1>8
<1> QED BY <1>9, <1>10, <1>14, <1>15, <1>16, <1>17

\* The rank of a percentile is a place in the sequence.
LEMMA RankInRange ==
  ASSUME NEW pct \in 1..99, NEW n \in Nat \ {0}
  PROVE  /\ NearestRank(pct, n) \in 1..n
         /\ 100 * NearestRank(pct, n) >= pct * n
         /\ 100 * (NearestRank(pct, n) - 1) < pct * n
<1>1. PICK t \in Nat : t = pct * n
  BY TimesNat
<1>2. t >= n /\ t <= 99 * n
  <2>1. 1 * n <= pct * n /\ pct * n <= 99 * n
    BY TimesMonotone
  <2> QED BY <1>1, <2>1
<1>3. /\ (t + 99) \div 100 \in Nat
      /\ 100 * ((t + 99) \div 100) <= t + 99 /\ t + 99 < 100 * ((t + 99) \div 100) + 100
  OBVIOUS
<1>4. NearestRank(pct, n) = Larger(1, (t + 99) \div 100)
  BY <1>1 DEF NearestRank
<1> DEFINE d == (t + 99) \div 100
<1>5. d >= 1 /\ d <= n
  BY <1>2, <1>3
<1>6. NearestRank(pct, n) = d
  BY <1>3, <1>4, <1>5 DEF Larger
<1> HIDE DEF d
<1>7. d \in Nat /\ 100 * d <= t + 99 /\ t + 99 < 100 * d + 100
  BY <1>3 DEF d
<1> QED BY <1>1, <1>5, <1>6, <1>7

\* The latency percentiles are those of the requests served, for every number of
\* requests and every configuration: at least that share of them waited no longer, less
\* than that share waited less, and none of the percentiles exceeds all deadlines.
THEOREM LatenciesAsServed == ReportSpec => []LatencyAsServed
<1>1. ReportInv => LatencyAsServed
  <2> SUFFICES ASSUME ReportInv, phase \in {"gather", "done"}, served # {},
                      NEW pct \in {50, 95, 99}
               PROVE  /\ 100 * WithinWait(Percentile(pct)) >= pct * Cardinality(served)
                      /\ 100 * WithinWait(Percentile(pct) - 1) < pct * Cardinality(served)
                      /\ \E r \in served : Percentile(pct) <= DeadlineSlack[r]
    BY DEF LatencyAsServed
  <2> DEFINE n == Cardinality(served)
             k == NearestRank(pct, n)
             v == Percentile(pct)
  <2>1. served \in SUBSET Requests /\ served \cap Past = served
    BY BetweenSteps DEF Closed, ReportInv, LoopInv, TypeOK
  <2>2. n \in Nat \ {0}
    BY <2>1, FiniteContainers, FS_EmptySet
  <2>3. AllWaits \in Seq(Nat) /\ Len(AllWaits) = n
    BY <2>1 DEF ReportInv, StepsInv
  <2>4. \A w \in Int : Cardinality(Upto(AllWaits, w)) = WithinWait(w)
    <3> TAKE w \in Int
    <3>1. PastWaiting(w) = {r \in served : settledAt[r] - arrival[r] <= w}
      BY <2>1 DEF PastWaiting, WaitOf
    <3> QED BY <3>1 DEF WithinWait, ReportInv, StepsInv
  <2>5. /\ k \in 1..n /\ 100 * k >= pct * n /\ 100 * (k - 1) < pct * n
    <3>1. pct \in 1..99
      OBVIOUS
    <3> HIDE DEF n
    <3> QED BY <2>2, <3>1, RankInRange, Zenon
  <2>6. v = Sorted(AllWaits)[k]
    <3>1. DOMAIN SortedWaits = 1..n
      BY <2>3 DEF SortedWaits, Sorted
    <3>2. SortedWaits # <<>> /\ Len(SortedWaits) = n
      BY <2>2, <2>3, <3>1 DEF SortedWaits, Sorted
    <3> QED BY <3>2 DEF Percentile, SortedWaits
  <2> HIDE DEF n, k, v
  <2>7. v \in Int /\ Cardinality(Upto(AllWaits, v)) >= k /\ Cardinality(Upto(AllWaits, v - 1)) < k
    <3>1. AllWaits \in Seq(Int) /\ k \in 1..Len(AllWaits)
      BY <2>3, <2>5
    <3> QED BY <2>6, <3>1, SortedAt
  <2>8. WithinWait(v) >= k /\ WithinWait(v - 1) < k
    <3>1. v - 1 \in Int
      BY <2>7
    <3> QED BY <2>4, <2>7, <3>1
  <2>9. \A w \in Int : WithinWait(w) \in Nat
    <3> TAKE w \in Int
    <3>1. {r \in served : settledAt[r] - arrival[r] <= w} \in SUBSET Requests
      BY <2>1
    <3> QED BY <3>1, FiniteContainers DEF WithinWait
  <2>10. 100 * WithinWait(v) >= pct * n /\ 100 * WithinWait(v - 1) < pct * n
    <3>1. WithinWait(v) \in Nat /\ WithinWait(v - 1) \in Nat
      BY <2>7, <2>9
    <3>2. PICK t \in Nat : t = pct * n
      BY <2>2, TimesNat
    <3>3. 100 * k >= t /\ 100 * (k - 1) < t /\ k \in Nat
      BY <2>2, <2>5, <3>2
    <3>4. 100 * WithinWait(v) >= t /\ 100 * WithinWait(v - 1) < t
      BY <2>8, <3>1, <3>3
    <3> QED BY <3>2, <3>4
  <2>11. \E r \in served : v <= DeadlineSlack[r]
    <3>1. \E r \in served : ~(settledAt[r] - arrival[r] <= v - 1)
      <4> SUFFICES ASSUME \A r \in served : settledAt[r] - arrival[r] <= v - 1 PROVE FALSE
        OBVIOUS
      <4>1. {r \in served : settledAt[r] - arrival[r] <= v - 1} = served
        OBVIOUS
      <4>2. WithinWait(v - 1) = n
        BY <4>1 DEF WithinWait, n
      <4> QED BY <2>2, <2>5, <2>8, <4>2
    <3>2. PICK r \in served : ~(settledAt[r] - arrival[r] <= v - 1)
      BY <3>1
    <3>3. /\ r \in Requests /\ arrival[r] <= settledAt[r]
          /\ settledAt[r] <= arrival[r] + DeadlineSlack[r]
      BY <2>1 DEF ReportInv, SettledInv
    <3>4. arrival[r] \in Int /\ settledAt[r] \in Int /\ DeadlineSlack[r] \in Nat
      BY <3>3, RequestsAssumption DEF ReportInv, SettledInv, LoopInv, TypeOK, Never
    <3> QED BY <2>7, <3>2, <3>3, <3>4
  <2> QED BY <2>10, <2>11 DEF n, v
<1> QED BY <1>1, ReportInvariant, PTL
=============================================================================
