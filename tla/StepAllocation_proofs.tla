------------------------ MODULE StepAllocation_proofs ------------------------
(***************************************************************************)
(* Airtime in one step, for any requests, beams, capacities, reserves,     *)
(* rules and caps.  The lane and the scheduler decide on free airtime of   *)
(* their own (laneFree, free); the properties speak of what was granted.   *)
(* AirtimeInv relates the two, AnswerInv says where each request is.       *)
(***************************************************************************)
EXTENDS StepAllocation, DataLemmas

\* While the lane runs, what is left of a reserve is what was not granted; while the
\* scheduler runs, what is free is what was not granted, unless the lane overdrew a
\* beam that was reserved entirely, on which then nothing is free.
LaneBalance(b) == laneFree[b] = Reserve[b] - granted[b] /\ laneFree[b] >= -Slack
SchedBalance(b) ==
  \/ free[b] = Capacity[b] - granted[b] /\ free[b] >= -Slack
  \/ free[b] = 0 /\ Capacity[b] < granted[b] /\ granted[b] <= Capacity[b] + Slack
AirtimeInv ==
  /\ phase = "lane" => \A b \in Beams : LaneBalance(b)
  /\ phase = "schedule" => \A b \in Beams : SchedBalance(b)

\* Each request is still to be looked at, or has one answer.
AnswerInv ==
  /\ \A i, j \in DOMAIN Answers : i # j => Answers[i] \cap Answers[j] = {}
  /\ phase = "lane" =>
       /\ dropped = {} /\ rejected = {} /\ deferred = {} /\ queue = {}
       /\ ranked \cup spillover \cup served = Ranked
       /\ ranked \cap spillover = {} /\ served \cap (ranked \cup spillover) = {}
  /\ phase = "schedule" =>
       /\ ranked = {}
       /\ queue \cap (served \cup dropped \cup rejected \cup deferred) = {}
       /\ queue \cup served \cup dropped \cup rejected \cup deferred = Requests

StepInv == TypeOK /\ AirtimeInv /\ AnswerInv /\ AllocationsLegal

-----------------------------------------------------------------------------
(* What the three ways to grant airtime have in common *)

\* A grant of units to r on b that keeps to the law.
Lawful(r, b, units) ==
  /\ b \in Beams /\ Eligible(r, b)
  /\ RegCap(r) \in Nat
  /\ units \in Nat \ {0} /\ units <= RegCap(r) + Slack

LEMMA CapNat ==
  ASSUME NEW r, NEW b, Eligible(r, b)
  PROVE  RegCap(r) \in Nat
  BY RuleAssumption DEF Eligible, Legal, RegCap

LEMMA CostAboveSlack ==
  ASSUME TypeOK, NEW r \in Requests
  PROVE  cost[r] \in Nat /\ Slack \in Nat /\ cost[r] > Slack
  BY AirtimeAssumption DEF TypeOK

\* What the lane places fits into the reserve left on the beam.
LEMMA LaneGrantLawful ==
  ASSUME TypeOK, NEW r \in Requests, NEW b \in LaneBest(r)
  PROVE  Lawful(r, b, cost[r]) /\ laneFree[b] + Slack >= cost[r]
<1>1. /\ b \in Beams /\ Eligible(r, b)
      /\ Smaller(laneFree[b], RegCap(r)) + Slack >= cost[r]
  BY DEF LaneBest, LaneFit, Pool
<1>2. RegCap(r) \in Nat /\ laneFree[b] \in Int
  BY <1>1, CapNat DEF TypeOK
<1> QED BY <1>1, <1>2, CostAboveSlack DEF Lawful, Smaller

\* What is scheduled in full fits into what is free on the beam, where something is.
LEMMA FullGrantLawful ==
  ASSUME TypeOK, NEW r \in Requests, NEW b \in FullBest(r)
  PROVE  Lawful(r, b, cost[r]) /\ free[b] + Slack >= cost[r]
<1>1. /\ b \in Beams /\ Eligible(r, b)
      /\ Allocatable(r, b) + Slack >= cost[r]
  BY DEF FullBest, FullFit
<1>2. RegCap(r) \in Nat /\ free[b] \in Int /\ UnitCap \in Nat
  BY <1>1, CapNat, SchedulerAssumption DEF TypeOK
<1> QED BY <1>1, <1>2, CostAboveSlack DEF Lawful, Allocatable, Smaller

\* What is granted degraded is part of what is free.
LEMMA DegradedGrantLawful ==
  ASSUME TypeOK, NEW r \in Requests, NEW b \in DegradedFit(r)
  PROVE  LET amount == Smaller(Allocatable(r, b), cost[r])
         IN  Lawful(r, b, amount) /\ amount <= free[b]
<1>1. b \in Beams /\ Eligible(r, b) /\ Allocatable(r, b) > 0
  BY DEF DegradedFit, PartBest, PartFit
<1>2. RegCap(r) \in Nat /\ free[b] \in Int /\ UnitCap \in Nat
  BY <1>1, CapNat, SchedulerAssumption DEF TypeOK
<1> QED BY <1>1, <1>2, CostAboveSlack DEF Lawful, Allocatable, Smaller

\* A lawful grant keeps the ledger's types and the law.
LEMMA GrantKeepsTypes ==
  ASSUME TypeOK, NEW r \in Requests, NEW b, NEW units, NEW degraded \in BOOLEAN,
         Lawful(r, b, units), Grant(r, b, units, degraded)
  PROVE  /\ granted' \in [Beams -> Nat]
         /\ \A a \in allocations' :
              /\ a.request \in Requests /\ a.beam \in Beams
              /\ a.units \in Nat \ {0} /\ a.degraded \in BOOLEAN
         /\ served' \subseteq Requests
<1>1. granted' \in [Beams -> Nat]
  BY DEF TypeOK, Grant, Lawful
<1> QED BY <1>1 DEF TypeOK, Grant, Lawful

LEMMA GrantKeepsLaw ==
  ASSUME AllocationsLegal, NEW r \in Requests, NEW b, NEW units, NEW degraded,
         Lawful(r, b, units), Grant(r, b, units, degraded)
  PROVE  AllocationsLegal'
  BY DEF AllocationsLegal, Grant, Lawful, Eligible, Legal, RegCap

-----------------------------------------------------------------------------
(* Types *)

LEMMA StepTypes == TypeOK /\ [Next]_vars => TypeOK'
<1> SUFFICES ASSUME TypeOK, [Next]_vars PROVE TypeOK'
  OBVIOUS
<1>1. ASSUME NEW r \in Requests, LaneReserve(r), UNCHANGED <<schedVars, rejected>>
      PROVE  TypeOK'
  <2>1. PICK b \in LaneBest(r) :
          Grant(r, b, cost[r], FALSE) /\ laneFree' = [laneFree EXCEPT ![b] = @ - cost[r]]
    BY <1>1 DEF LaneReserve
  <2>2. cost[r] \in Nat /\ r \in ranked
    BY <1>1, CostAboveSlack DEF LaneReserve
  <2>3. laneFree' \in [Beams -> Int]
    <3>1. b \in Beams
      BY LaneGrantLawful DEF Lawful
    <3> QED BY <2>1, <2>2, <3>1 DEF TypeOK
  <2>4. regionUsed' \in [Regions -> Nat]
    <3>1. RegionOf[r] \in Regions
      BY DEF Regions
    <3>2. regionUsed' = [regionUsed EXCEPT ![RegionOf[r]] = @ + cost[r]]
      BY <1>1 DEF LaneReserve
    <3> QED BY <2>2, <3>1, <3>2 DEF TypeOK
  <2>5. /\ granted' \in [Beams -> Nat]
        /\ \A a \in allocations' :
             /\ a.request \in Requests /\ a.beam \in Beams
             /\ a.units \in Nat \ {0} /\ a.degraded \in BOOLEAN
        /\ served' \subseteq Requests
    BY <2>1, LaneGrantLawful, GrantKeepsTypes
  <2> QED BY <1>1, <2>3, <2>4, <2>5 DEF TypeOK, LaneReserve, schedVars
<1>2. ASSUME NEW r \in Requests, LaneShed(r), UNCHANGED <<schedVars, rejected>>
      PROVE  TypeOK'
  BY <1>2 DEF TypeOK, LaneShed, schedVars
<1>3. ASSUME HandOver PROVE TypeOK'
  <2>1. free' \in [Beams -> Int]
    BY <1>3, AirtimeAssumption DEF HandOver, Remaining, Larger, TypeOK
  <2>2. BestEffort \subseteq Requests /\ Unranked \subseteq Requests
    BY RequestAssumption DEF BestEffort, Unranked, TypeOK, Ranked
  <2>3. rejected' \subseteq Requests /\ queue' \subseteq Requests
    BY <1>3, <2>2 DEF HandOver
  <2> QED BY <1>3, <2>1, <2>2, <2>3 DEF HandOver, TypeOK, Ledger, laneVars
<1>4. ASSUME NEW r \in Requests, SchedFull(r), UNCHANGED <<laneVars, rejected>>
      PROVE  TypeOK'
  <2>1. PICK b \in FullBest(r) :
          Grant(r, b, cost[r], FALSE) /\ free' = [free EXCEPT ![b] = @ - cost[r]]
    BY <1>4 DEF SchedFull
  <2>2. free' \in [Beams -> Int]
    <3>1. b \in Beams /\ cost[r] \in Nat
      BY FullGrantLawful, CostAboveSlack DEF Lawful
    <3> QED BY <2>1, <3>1 DEF TypeOK
  <2>3. /\ granted' \in [Beams -> Nat]
        /\ \A a \in allocations' :
             /\ a.request \in Requests /\ a.beam \in Beams
             /\ a.units \in Nat \ {0} /\ a.degraded \in BOOLEAN
        /\ served' \subseteq Requests
    BY <2>1, FullGrantLawful, GrantKeepsTypes
  <2> QED BY <1>4, <2>2, <2>3 DEF TypeOK, SchedFull, laneVars
<1>5. ASSUME NEW r \in Requests, SchedDegraded(r), UNCHANGED <<laneVars, rejected>>
      PROVE  TypeOK'
  <2>1. PICK b \in DegradedFit(r) :
          /\ Grant(r, b, Smaller(Allocatable(r, b), cost[r]), TRUE)
          /\ free' = [free EXCEPT ![b] = @ - Smaller(Allocatable(r, b), cost[r])]
    BY <1>5 DEF SchedDegraded
  <2>2. Lawful(r, b, Smaller(Allocatable(r, b), cost[r]))
    BY DegradedGrantLawful
  <2>3. free' \in [Beams -> Int]
    BY <2>1, <2>2 DEF TypeOK, Lawful
  <2>4. /\ granted' \in [Beams -> Nat]
        /\ \A a \in allocations' :
             /\ a.request \in Requests /\ a.beam \in Beams
             /\ a.units \in Nat \ {0} /\ a.degraded \in BOOLEAN
        /\ served' \subseteq Requests
    BY <2>1, <2>2, GrantKeepsTypes
  <2> QED BY <1>5, <2>3, <2>4 DEF TypeOK, SchedDegraded, laneVars
<1>6. ASSUME NEW r \in Requests, SchedDefer(r) \/ SchedExpired(r),
             UNCHANGED <<laneVars, rejected>>
      PROVE  TypeOK'
  BY <1>6 DEF TypeOK, SchedDefer, SchedExpired, laneVars
<1>7. ASSUME UNCHANGED vars PROVE TypeOK'
  BY <1>7 DEF TypeOK, vars, laneVars, schedVars
<1> QED BY <1>1, <1>2, <1>3, <1>4, <1>5, <1>6, <1>7 DEF Next, LaneNext, SchedNext

-----------------------------------------------------------------------------
(* Airtime *)

LEMMA InitBalance == Init => AirtimeInv
<1> SUFFICES ASSUME Init PROVE \A b \in Beams : LaneBalance(b)
  BY DEF AirtimeInv, Init
<1> QED BY LaneAssumption, AirtimeAssumption
        DEF Init, LedgerInit, LaneInit, LaneBalance

LEMMA LaneKeepsBalance ==
  ASSUME TypeOK, AirtimeInv, NEW r \in Requests, LaneReserve(r)
  PROVE  AirtimeInv'
<1>1. PICK b \in LaneBest(r) :
        Grant(r, b, cost[r], FALSE) /\ laneFree' = [laneFree EXCEPT ![b] = @ - cost[r]]
  BY DEF LaneReserve
<1>2. b \in Beams /\ cost[r] \in Nat /\ laneFree[b] + Slack >= cost[r] /\ Slack \in Nat
  BY LaneGrantLawful, CostAboveSlack DEF Lawful
<1>3. phase = "lane" /\ phase' = "lane"
  BY DEF LaneReserve
<1>4. ASSUME NEW c \in Beams PROVE LaneBalance(c)'
  <2>1. LaneBalance(c) /\ Reserve[c] \in Nat /\ granted[c] \in Nat /\ laneFree[c] \in Int
    BY <1>3, LaneAssumption DEF AirtimeInv, TypeOK
  <2>2. /\ granted'[c] = IF c = b THEN granted[c] + cost[r] ELSE granted[c]
        /\ laneFree'[c] = IF c = b THEN laneFree[c] - cost[r] ELSE laneFree[c]
    BY <1>1 DEF Grant, TypeOK
  <2> QED BY <1>2, <2>1, <2>2 DEF LaneBalance
<1> QED BY <1>3, <1>4 DEF AirtimeInv

\* The scheduler starts with what the lane did not grant, which is all of a beam but
\* what was granted, as a reserve is part of its beam.
LEMMA HandOverBalances ==
  ASSUME TypeOK, AirtimeInv, HandOver
  PROVE  AirtimeInv'
<1>1. phase = "lane" /\ phase' = "schedule" /\ granted' = granted
  BY DEF HandOver, Ledger
<1>2. ASSUME NEW b \in Beams PROVE SchedBalance(b)'
  <2>1. /\ LaneBalance(b) /\ granted[b] \in Nat /\ laneFree[b] \in Int
        /\ Reserve[b] \in Nat /\ Reserve[b] <= Capacity[b] /\ Capacity[b] \in Nat
    BY <1>1, LaneAssumption, AirtimeAssumption DEF AirtimeInv, TypeOK
  <2>2. free'[b] = Larger(0, Capacity[b] - granted[b])
    BY DEF HandOver, Remaining
  <2> QED BY <1>1, <2>1, <2>2, AirtimeAssumption DEF LaneBalance, SchedBalance, Larger
<1> QED BY <1>1, <1>2 DEF AirtimeInv

\* A grant out of what is free, with something free, keeps the balance.
LEMMA GrantKeepsBalance ==
  ASSUME TypeOK, AirtimeInv, phase = "schedule", phase' = "schedule",
         NEW r \in Requests, NEW b \in Beams, NEW units \in Nat, NEW degraded,
         free[b] > 0, free[b] + Slack >= units, Grant(r, b, units, degraded),
         free' = [free EXCEPT ![b] = @ - units]
  PROVE  AirtimeInv'
<1>1. ASSUME NEW c \in Beams PROVE SchedBalance(c)'
  <2>1. /\ SchedBalance(c) /\ granted[c] \in Nat /\ free[c] \in Int
        /\ Capacity[c] \in Nat /\ Slack \in Nat
    BY AirtimeAssumption DEF AirtimeInv, TypeOK
  <2>2. /\ granted'[c] = IF c = b THEN granted[c] + units ELSE granted[c]
        /\ free'[c] = IF c = b THEN free[c] - units ELSE free[c]
    BY DEF Grant, TypeOK
  <2> QED BY <2>1, <2>2 DEF SchedBalance
<1> QED BY <1>1 DEF AirtimeInv

LEMMA NextBalance == TypeOK /\ AirtimeInv /\ [Next]_vars => AirtimeInv'
<1> SUFFICES ASSUME TypeOK, AirtimeInv, [Next]_vars PROVE AirtimeInv'
  OBVIOUS
<1>1. ASSUME NEW r \in Requests, LaneReserve(r) PROVE AirtimeInv'
  BY <1>1, LaneKeepsBalance
<1>2. ASSUME NEW r \in Requests, LaneShed(r), UNCHANGED <<schedVars, rejected>>
      PROVE  AirtimeInv'
  BY <1>2 DEF LaneShed, schedVars, AirtimeInv, LaneBalance, SchedBalance
<1>3. ASSUME HandOver PROVE AirtimeInv'
  BY <1>3, HandOverBalances
<1>4. ASSUME NEW r \in Requests, SchedFull(r) PROVE AirtimeInv'
  <2>1. PICK b \in FullBest(r) :
          Grant(r, b, cost[r], FALSE) /\ free' = [free EXCEPT ![b] = @ - cost[r]]
    BY <1>4 DEF SchedFull
  <2>2. b \in Beams /\ cost[r] \in Nat /\ free[b] + Slack >= cost[r]
    BY FullGrantLawful, CostAboveSlack DEF Lawful
  <2>3. free[b] > 0
    BY <2>2, CostAboveSlack DEF TypeOK
  <2>4. phase = "schedule" /\ phase' = "schedule"
    BY <1>4 DEF SchedFull
  <2> QED BY <2>1, <2>2, <2>3, <2>4, GrantKeepsBalance
<1>5. ASSUME NEW r \in Requests, SchedDegraded(r) PROVE AirtimeInv'
  <2> DEFINE amount(b) == Smaller(Allocatable(r, b), cost[r])
  <2>1. PICK b \in DegradedFit(r) :
          Grant(r, b, amount(b), TRUE) /\ free' = [free EXCEPT ![b] = @ - amount(b)]
    BY <1>5 DEF SchedDegraded
  <2>2. b \in Beams /\ amount(b) \in Nat \ {0} /\ amount(b) <= free[b]
    BY DegradedGrantLawful DEF Lawful
  <2> HIDE DEF amount
  <2>3. free[b] > 0 /\ free[b] + Slack >= amount(b)
    BY <2>2, AirtimeAssumption DEF TypeOK
  <2>4. phase = "schedule" /\ phase' = "schedule"
    BY <1>5 DEF SchedDegraded
  <2> QED BY <2>1, <2>2, <2>3, <2>4, GrantKeepsBalance
<1>6. ASSUME NEW r \in Requests, SchedDefer(r) \/ SchedExpired(r),
             UNCHANGED <<laneVars, rejected>>
      PROVE  AirtimeInv'
  BY <1>6 DEF SchedDefer, SchedExpired, laneVars, AirtimeInv, LaneBalance, SchedBalance
<1>7. ASSUME UNCHANGED vars PROVE AirtimeInv'
  BY <1>7 DEF vars, laneVars, schedVars, AirtimeInv, LaneBalance, SchedBalance
<1> QED BY <1>1, <1>2, <1>3, <1>4, <1>5, <1>6, <1>7 DEF Next, LaneNext, SchedNext

-----------------------------------------------------------------------------
(* Legality *)

LEMMA NextLegal == TypeOK /\ AllocationsLegal /\ [Next]_vars => AllocationsLegal'
<1> SUFFICES ASSUME TypeOK, AllocationsLegal, [Next]_vars PROVE AllocationsLegal'
  OBVIOUS
<1>1. ASSUME NEW r \in Requests, LaneReserve(r) PROVE AllocationsLegal'
  BY <1>1, LaneGrantLawful, GrantKeepsLaw DEF LaneReserve
<1>2. ASSUME NEW r \in Requests, SchedFull(r) PROVE AllocationsLegal'
  BY <1>2, FullGrantLawful, GrantKeepsLaw DEF SchedFull
<1>3. ASSUME NEW r \in Requests, SchedDegraded(r) PROVE AllocationsLegal'
  BY <1>3, DegradedGrantLawful, GrantKeepsLaw DEF SchedDegraded
<1>4. ASSUME UNCHANGED allocations PROVE AllocationsLegal'
  BY <1>4 DEF AllocationsLegal
<1> QED BY <1>1, <1>2, <1>3, <1>4
        DEF Next, LaneNext, SchedNext, LaneShed, HandOver, SchedDefer, SchedExpired, Ledger, vars

-----------------------------------------------------------------------------
(* Answers *)

LEMMA InitAnswers == Init => AnswerInv
  BY DEF Init, LedgerInit, LaneInit, SchedInit, AnswerInv, Answers

LEMMA NextAnswers == TypeOK /\ AnswerInv /\ [Next]_vars => AnswerInv'
<1> SUFFICES ASSUME TypeOK, AnswerInv, [Next]_vars PROVE AnswerInv'
  OBVIOUS
<1>1. ASSUME NEW r \in Requests, LaneReserve(r), UNCHANGED <<schedVars, rejected>>
      PROVE  AnswerInv'
  BY <1>1 DEF LaneReserve, Grant, schedVars, AnswerInv, Answers, TypeOK
<1>2. ASSUME NEW r \in Requests, LaneShed(r), UNCHANGED <<schedVars, rejected>>
      PROVE  AnswerInv'
  BY <1>2 DEF LaneShed, schedVars, AnswerInv, Answers, TypeOK
<1>3. ASSUME HandOver PROVE AnswerInv'
  <2>1. served \cup spillover = Ranked /\ served \cap spillover = {}
    BY <1>3 DEF HandOver, AnswerInv
  <2>2. /\ BestEffort \cap (served \cup Unranked) = {} /\ served \cap Unranked = {}
        /\ BestEffort \cup served \cup Unranked = Requests
    BY <2>1, RequestAssumption DEF BestEffort, Ranked, Unranked
  <2>3. /\ dropped' = Unranked /\ deferred' = {} /\ served' = served
        /\ rejected' \subseteq BestEffort /\ queue' = BestEffort \ rejected'
        /\ phase' = "schedule" /\ ranked' = {}
    BY <1>3 DEF HandOver, AnswerInv, Ledger, laneVars
  <2> QED BY <2>2, <2>3 DEF AnswerInv, Answers
<1>4. ASSUME NEW r \in Requests, UNCHANGED <<laneVars, rejected>>,
             SchedFull(r) \/ SchedDegraded(r)
      PROVE  AnswerInv'
  <2>1. /\ phase = "schedule" /\ phase' = "schedule" /\ r \in queue
        /\ queue' = queue \ {r} /\ served' = served \cup {r}
        /\ UNCHANGED <<dropped, rejected, deferred, ranked>>
    BY <1>4 DEF SchedFull, SchedDegraded, Grant, laneVars
  <2> QED BY <2>1 DEF AnswerInv, Answers
<1>5. ASSUME NEW r \in Requests, UNCHANGED <<laneVars, rejected>>, SchedDefer(r)
      PROVE  AnswerInv'
  BY <1>5 DEF SchedDefer, laneVars, AnswerInv, Answers
<1>6. ASSUME NEW r \in Requests, UNCHANGED <<laneVars, rejected>>, SchedExpired(r)
      PROVE  AnswerInv'
  BY <1>6 DEF SchedExpired, laneVars, AnswerInv, Answers
<1>7. ASSUME UNCHANGED vars PROVE AnswerInv'
  BY <1>7 DEF vars, laneVars, schedVars, AnswerInv, Answers
<1> QED BY <1>1, <1>2, <1>3, <1>4, <1>5, <1>6, <1>7 DEF Next, LaneNext, SchedNext

-----------------------------------------------------------------------------
(* Theorems *)

LEMMA InitTypes == Init => TypeOK
<1> SUFFICES ASSUME Init PROVE TypeOK
  OBVIOUS
<1>1. Reserve \in [Beams -> Int]
  BY LaneAssumption
<1> QED BY <1>1 DEF Init, LedgerInit, LaneInit, SchedInit, TypeOK

\* The inductive invariant of a step's airtime.
THEOREM AirtimeAccounted == Spec => []StepInv
<1>1. Init => StepInv
  BY InitTypes, InitBalance, InitAnswers DEF StepInv, AllocationsLegal, Init, LedgerInit
<1>2. StepInv /\ [Next]_vars => StepInv'
  BY StepTypes, NextBalance, NextAnswers, NextLegal DEF StepInv
<1> QED BY <1>1, <1>2, PTL DEF Spec

\* No beam gives away more than its capacity and one tolerance, however many requests
\* the lane and the scheduler place on it, each with a tolerance of its own.
THEOREM BeamsWithinCapacity == Spec => []BeamWithinCapacity
<1>1. StepInv => BeamWithinCapacity
  <2> SUFFICES ASSUME StepInv, NEW b \in Beams
               PROVE  granted[b] <= Capacity[b] + Slack
    BY DEF BeamWithinCapacity
  <2>1. /\ granted[b] \in Nat /\ laneFree[b] \in Int /\ free[b] \in Int
        /\ Capacity[b] \in Nat /\ Reserve[b] \in Nat /\ Reserve[b] <= Capacity[b]
        /\ Slack \in Nat
    BY LaneAssumption, AirtimeAssumption DEF StepInv, TypeOK
  <2>2. LaneBalance(b) \/ SchedBalance(b)
    BY DEF StepInv, AirtimeInv, TypeOK
  <2> QED BY <2>1, <2>2 DEF LaneBalance, SchedBalance
<1> QED BY <1>1, AirtimeAccounted, PTL

\* The lane stays in its slice: reserve() takes at most the reserved part of a beam.
THEOREM LaneStaysInSlice == Spec => []LaneWithinReserve
<1>1. StepInv => LaneWithinReserve
  <2> SUFFICES ASSUME StepInv, phase = "lane", NEW b \in Beams
               PROVE  granted[b] <= Reserve[b] + Slack
    BY DEF LaneWithinReserve
  <2>1. /\ granted[b] \in Nat /\ laneFree[b] \in Int /\ Reserve[b] \in Nat
        /\ Slack \in Nat /\ LaneBalance(b)
    BY LaneAssumption, AirtimeAssumption DEF StepInv, AirtimeInv, TypeOK
  <2> QED BY <2>1 DEF LaneBalance
<1> QED BY <1>1, AirtimeAccounted, PTL

\* Neither tier gives away airtime that is not there or not its own.
THEOREM BeamsNotOversubscribed == Spec => []BeamNotOversubscribed
BY BeamsWithinCapacity, LaneStaysInSlice, PTL DEF BeamNotOversubscribed

\* Every allocation is legal where it is made, by whichever tier.
THEOREM GrantsLegal == Spec => []AllocationsLegal
<1>1. StepInv => AllocationsLegal
  BY DEF StepInv
<1> QED BY <1>1, AirtimeAccounted, PTL

\* The tiers answer each request of the step once.
THEOREM StepAnswersAll == Spec => []EveryRequestAnswered
<1>1. StepInv => EveryRequestAnswered
  BY DEF StepInv, AnswerInv, EveryRequestAnswered
<1> QED BY <1>1, AirtimeAccounted, PTL

LEMMA CostFixed == [Next]_vars => cost' = cost
  BY DEF Next, LaneNext, SchedNext, LaneReserve, LaneShed, HandOver, SchedFull,
         SchedDegraded, SchedDefer, SchedExpired, vars

\* What is free only shrinks once a request was deferred.
LEMMA FreeShrinks ==
  ASSUME StepInv, [Next]_vars, NEW r \in deferred', NEW b \in Beams
  PROVE  /\ r \in Requests /\ free[b] \in Int /\ free'[b] \in Int /\ free'[b] <= free[b]
         /\ r \in deferred \/ (SchedDefer(r) /\ free' = free)
<1>1. free \in [Beams -> Int] /\ deferred \subseteq Requests
  BY DEF StepInv, TypeOK
<1>2. ASSUME NEW q \in Requests, SchedFull(q)
      PROVE  deferred' = deferred /\ free'[b] \in Int /\ free'[b] <= free[b]
  <2>1. PICK c \in FullBest(q) : free' = [free EXCEPT ![c] = @ - cost[q]]
    BY <1>2 DEF SchedFull
  <2>2. cost[q] \in Nat
    BY CostAboveSlack DEF StepInv
  <2> QED BY <1>1, <1>2, <2>1, <2>2 DEF SchedFull
<1>3. ASSUME NEW q \in Requests, SchedDegraded(q)
      PROVE  deferred' = deferred /\ free'[b] \in Int /\ free'[b] <= free[b]
  <2>1. PICK c \in DegradedFit(q) :
          free' = [free EXCEPT ![c] = @ - Smaller(Allocatable(q, c), cost[q])]
    BY <1>3 DEF SchedDegraded
  <2>2. Smaller(Allocatable(q, c), cost[q]) \in Nat
    BY DegradedGrantLawful DEF StepInv, Lawful
  <2> QED BY <1>1, <1>3, <2>1, <2>2 DEF SchedDegraded
<1>4. ASSUME NEW q \in Requests, SchedDefer(q)
      PROVE  free' = free /\ deferred' = deferred \cup {q}
  BY <1>4 DEF SchedDefer
<1>5. ~HandOver
  BY DEF HandOver, StepInv, AnswerInv
<1>6. free[b] \in Int
  BY <1>1
<1>7. CASE \E q \in Requests : SchedDefer(q)
  BY <1>1, <1>4, <1>6, <1>7
<1>8. CASE \E q \in Requests : SchedFull(q) \/ SchedDegraded(q)
  BY <1>1, <1>2, <1>3, <1>6, <1>8
<1>9. CASE deferred' = deferred /\ free' = free
  BY <1>1, <1>6, <1>9
<1> QED BY <1>5, <1>7, <1>8, <1>9
        DEF Next, LaneNext, SchedNext, LaneReserve, LaneShed, SchedExpired, schedVars, vars

\* A request that was deferred still fits nowhere when the step is over: what is free
\* only shrinks, and nothing ungranted is kept from the scheduler.
THEOREM DeferredFitsNowhere == Spec => []DeferredDoesNotFit
<1> DEFINE NoRoom(r, b) == Allocatable(r, b) + Slack < cost[r]
           DeferInv == \A r \in deferred, b \in Beams : Eligible(r, b) => NoRoom(r, b)
<1>1. Init => DeferInv
  BY DEF Init, SchedInit
<1>2. StepInv /\ DeferInv /\ [Next]_vars => DeferInv'
  <2> SUFFICES ASSUME StepInv, DeferInv, [Next]_vars,
                      NEW r \in deferred', NEW b \in Beams, Eligible(r, b)
               PROVE  NoRoom(r, b)'
    BY DEF Eligible, Legal
  <2>1. /\ r \in Requests /\ free[b] \in Int /\ free'[b] \in Int /\ free'[b] <= free[b]
        /\ r \in deferred \/ (SchedDefer(r) /\ free' = free)
    BY FreeShrinks
  <2>2. RegCap(r) \in Nat /\ UnitCap \in Nat /\ Slack \in Nat /\ cost[r] \in Nat /\ cost' = cost
    BY <2>1, CapNat, CostFixed, SchedulerAssumption, AirtimeAssumption, CostAboveSlack
       DEF StepInv
  <2>3. NoRoom(r, b)
    <3>1. ASSUME SchedDefer(r) PROVE NoRoom(r, b)
      BY <2>1, <2>2, <3>1 DEF SchedDefer, FullFit, Allocatable, Smaller
    <3> QED BY <2>1, <3>1
  <2> QED BY <2>1, <2>2, <2>3 DEF Allocatable, Smaller, RegCap
<1>3. StepInv /\ DeferInv => DeferredDoesNotFit
  <2> SUFFICES ASSUME StepInv, DeferInv, NEW r \in deferred, NEW b \in Beams, Eligible(r, b)
               PROVE  Smaller(Smaller(Capacity[b] - granted[b], RegCap(r)), UnitCap) + Slack < cost[r]
    BY DEF DeferredDoesNotFit
  <2>1. phase = "schedule" /\ SchedBalance(b)
    BY DEF StepInv, AirtimeInv, AnswerInv, TypeOK
  <2>2. /\ RegCap(r) \in Nat /\ UnitCap \in Nat /\ Slack \in Nat
        /\ free[b] \in Int /\ granted[b] \in Nat /\ Capacity[b] \in Nat
        /\ cost[r] \in Nat
    <3>1. r \in Requests
      BY DEF StepInv, TypeOK
    <3> QED BY <3>1, CapNat, SchedulerAssumption, AirtimeAssumption, CostAboveSlack
            DEF StepInv, TypeOK
  <2>3. Capacity[b] - granted[b] <= free[b]
    BY <2>1, <2>2 DEF SchedBalance
  <2> QED BY <2>2, <2>3 DEF Allocatable, Smaller
<1> HIDE DEF DeferInv
<1> QED BY <1>1, <1>2, <1>3, AirtimeAccounted, PTL DEF Spec

\* Some beam with airtime left for r has most of it.
LEMMA SomeBeamHasMost ==
  ASSUME StepInv, NEW r \in Requests, NEW b \in PartFit(r)
  PROVE  \E c \in PartBest(r) : Allocatable(r, b) <= Allocatable(r, c)
<1> DEFINE short == {UnitCap - Allocatable(r, c) : c \in PartFit(r)}
<1>1. ASSUME NEW c \in PartFit(r)
      PROVE  Allocatable(r, c) \in Int /\ UnitCap - Allocatable(r, c) \in Nat
  <2>1. c \in Beams /\ Eligible(r, c)
    BY DEF PartFit
  <2>2. RegCap(r) \in Nat /\ free[c] \in Int /\ UnitCap \in Nat
    BY <2>1, CapNat, SchedulerAssumption DEF StepInv, TypeOK
  <2> QED BY <2>2 DEF Allocatable, Smaller
<1>2. short \in SUBSET Nat /\ short # {}
  BY <1>1
<1> HIDE DEF short
<1>3. PICK least \in short : \A s \in short : least <= s
  BY <1>2, LeastNatural
<1>4. PICK c \in PartFit(r) : least = UnitCap - Allocatable(r, c)
  BY DEF short
<1>5. ASSUME NEW d \in PartFit(r) PROVE Allocatable(r, c) >= Allocatable(r, d)
  <2>1. UnitCap - Allocatable(r, c) <= UnitCap - Allocatable(r, d)
    BY <1>3, <1>4 DEF short
  <2>2. Allocatable(r, c) \in Int /\ Allocatable(r, d) \in Int /\ UnitCap \in Int
    BY <1>1, SchedulerAssumption
  <2> QED BY <2>1, <2>2
<1> QED BY <1>4, <1>5 DEF PartBest

\* Nor can a request that was deferred be served degraded: where least was lacking, what
\* was free was worth nothing to it.
LEMMA DegradedFitsNowhere == Spec => []DeferredDegradesNowhere
<1> DEFINE NoUse(r, b) == Allocatable(r, b) > 0 => ~Worthwhile(r, Allocatable(r, b))
           DeferInv == \A r \in deferred \cap Degradable, b \in Beams :
                         Eligible(r, b) => NoUse(r, b)
<1>0. ASSUME NEW r, NEW a \in Int, NEW u \in Int, a <= u, NEW need \in Int,
             need = DegradePercent * Smaller(cost[r], UnitCap), Worthwhile(r, a)
      PROVE  Worthwhile(r, u)
  <2>1. Slack \in Nat
    BY AirtimeAssumption
  <2> QED BY <1>0, <2>1 DEF Worthwhile
<1>1. Init => DeferInv
  BY DEF Init, SchedInit
<1>2. ASSUME NEW r \in Requests, StepInv
      PROVE  DegradePercent * Smaller(cost[r], UnitCap) \in Int
  <2>1. DegradePercent \in Nat /\ UnitCap \in Nat /\ cost[r] \in Nat
    BY <1>2, SchedulerAssumption, CostAboveSlack DEF StepInv
  <2>2. Smaller(cost[r], UnitCap) \in Nat
    BY <2>1 DEF Smaller
  <2>3. DegradePercent * Smaller(cost[r], UnitCap) \in Nat
    BY <2>1, <2>2, TimesNat
  <2> QED BY <2>3
<1>3. StepInv /\ DeferInv /\ [Next]_vars => DeferInv'
  <2> SUFFICES ASSUME StepInv, DeferInv, [Next]_vars,
                      NEW r \in deferred' \cap Degradable, NEW b \in Beams, Eligible(r, b)
               PROVE  NoUse(r, b)'
    BY DEF Eligible, Legal
  <2>1. /\ r \in Requests /\ free[b] \in Int /\ free'[b] \in Int /\ free'[b] <= free[b]
        /\ r \in deferred \/ (SchedDefer(r) /\ free' = free)
    BY FreeShrinks
  <2>2. RegCap(r) \in Nat /\ UnitCap \in Nat /\ cost' = cost
    BY CapNat, CostFixed, SchedulerAssumption
  <2>3. NoUse(r, b)
    <3>1. ASSUME SchedDefer(r), Allocatable(r, b) > 0, Worthwhile(r, Allocatable(r, b))
          PROVE  FALSE
      <4>1. b \in PartFit(r)
        BY <3>1 DEF PartFit
      <4>2. PICK c \in PartBest(r) : Allocatable(r, b) <= Allocatable(r, c)
        BY <2>1, <4>1, SomeBeamHasMost
      <4>3. c \in Beams /\ free[c] \in Int
        BY DEF PartBest, PartFit, StepInv, TypeOK
      <4>4. Allocatable(r, b) \in Int /\ Allocatable(r, c) \in Int
        BY <2>1, <2>2, <4>3 DEF Allocatable, Smaller
      <4>5. Worthwhile(r, Allocatable(r, c))
        BY <1>0, <1>2, <2>1, <3>1, <4>2, <4>4
      <4>6. c \in DegradedFit(r)
        BY <4>5 DEF DegradedFit
      <4> QED BY <3>1, <4>6 DEF SchedDefer
    <3> QED BY <2>1, <3>1
  <2>4. Allocatable(r, b)' <= Allocatable(r, b) /\ Allocatable(r, b) \in Int /\ Allocatable(r, b)' \in Int
    BY <2>1, <2>2 DEF Allocatable, Smaller, RegCap
  <2>5. Worthwhile(r, Allocatable(r, b)') = Worthwhile(r, Allocatable(r, b))'
    BY <2>2 DEF Worthwhile
  <2>6. Worthwhile(r, Allocatable(r, b)') => Worthwhile(r, Allocatable(r, b))
    BY <1>0, <1>2, <2>1, <2>4
  <2> QED BY <2>3, <2>4, <2>5, <2>6
<1>4. StepInv /\ DeferInv => DeferredDegradesNowhere
  <2> SUFFICES ASSUME StepInv, DeferInv, NEW r \in deferred \cap Degradable, NEW b \in Beams,
                      Eligible(r, b),
                      NEW left, left = Smaller(Smaller(Capacity[b] - granted[b], RegCap(r)), UnitCap),
                      left > 0, Worthwhile(r, left)
               PROVE  FALSE
    BY DEF DeferredDegradesNowhere
  <2>1. phase = "schedule" /\ SchedBalance(b) /\ r \in Requests
    BY DEF StepInv, AirtimeInv, AnswerInv, TypeOK
  <2>2. /\ RegCap(r) \in Nat /\ UnitCap \in Nat /\ Slack \in Nat
        /\ free[b] \in Int /\ granted[b] \in Nat /\ Capacity[b] \in Nat
    BY CapNat, SchedulerAssumption, AirtimeAssumption DEF StepInv, TypeOK
  <2>3. Capacity[b] - granted[b] <= free[b]
    BY <2>1, <2>2 DEF SchedBalance
  <2>4. left \in Int /\ Allocatable(r, b) \in Int /\ left <= Allocatable(r, b)
    BY <2>2, <2>3 DEF Allocatable, Smaller
  <2>5. Worthwhile(r, Allocatable(r, b))
    BY <1>0, <1>2, <2>1, <2>4
  <2> QED BY <2>4, <2>5
<1> HIDE DEF DeferInv
<1> QED BY <1>1, <1>3, <1>4, AirtimeAccounted, PTL DEF Spec

\* The region's share of the reserve only fills up.
LEMMA RegionShareFills ==
  ASSUME NEW r \in Requests, regionUsed[RegionOf[r]] \in Nat, cost[r] \in Nat, cost' = cost,
         regionUsed'[RegionOf[r]] \in Nat,
         regionUsed[RegionOf[r]] <= regionUsed'[RegionOf[r]], OverRegionShare(r)
  PROVE  OverRegionShare(r)'
<1> DEFINE total == TotalReserved
           share == 100 * RegionsRanked
           wanted == regionUsed[RegionOf[r]] + cost[r] - Slack
           next == regionUsed'[RegionOf[r]] + cost[r] - Slack
<1>1. total \in Int
  <2>1. IsFiniteSet(Pool) /\ \A b \in Pool : Reserve[b] \in Int
    BY RequestAssumption, LaneAssumption, FS_Subset DEF Pool
  <2> QED BY <2>1, SumInt DEF TotalReserved
<1>2. share \in Nat
  <2>1. IsFiniteSet({RegionOf[q] : q \in Ranked})
    <3>1. IsFiniteSet(Ranked)
      BY RequestAssumption, FS_Subset DEF Ranked, Unranked
    <3> QED BY <3>1, FiniteImage, Zenon
  <2> QED BY <2>1, FS_CardinalityType DEF RegionsRanked
<1>3. wanted \in Int /\ next \in Int /\ wanted <= next
  BY AirtimeAssumption
<1>4. wanted > total \/ share * wanted > total * GeoPercent
  BY DEF OverRegionShare
<1>5. OverRegionShare(r)' <=> (next > total \/ share * next > total * GeoPercent)
  BY DEF OverRegionShare, TotalReserved, RegionsRanked, Pool, Ranked, Unranked
<1> HIDE DEF total, share, wanted, next
<1>6. share * wanted <= share * next /\ share * wanted \in Int /\ share * next \in Int
  BY <1>2, <1>3
<1>7. total * GeoPercent \in Int
  BY <1>1, LaneAssumption
<1> QED BY <1>1, <1>3, <1>4, <1>5, <1>6, <1>7

\* What the lane shed it would still shed: its reserve shrinks, the regions' shares fill.
THEOREM SpilloverFitsNowhere == Spec => []SpilloverDoesNotFit
<1> DEFINE SpillInv == \A r \in spillover : LaneSheds(r)
<1>1. Init => SpillInv
  BY DEF Init, LaneInit
<1>2. StepInv /\ StepInv' /\ SpillInv /\ [Next]_vars => SpillInv'
  <2> SUFFICES ASSUME StepInv, StepInv', SpillInv, [Next]_vars PROVE SpillInv'
    OBVIOUS
  <2>1. /\ cost' = cost /\ \A r \in Requests : cost[r] \in Nat
        /\ \A r \in spillover' : r \in Requests
    BY CostFixed, CostAboveSlack, RequestAssumption DEF StepInv, TypeOK, Ranked, Unranked
  <2>2. ASSUME NEW q \in Requests, LaneReserve(q), NEW r \in spillover' PROVE LaneSheds(r)'
    <3>1. PICK c \in LaneBest(q) : laneFree' = [laneFree EXCEPT ![c] = @ - cost[q]]
      BY <2>2 DEF LaneReserve
    <3>2. /\ regionUsed' = [regionUsed EXCEPT ![RegionOf[q]] = @ + cost[q]]
          /\ spillover' = spillover
      BY <2>2 DEF LaneReserve
    <3>3. LaneSheds(r) /\ r \in Requests
      BY <2>1, <2>2, <3>2
    <3>4. laneFree \in [Beams -> Int] /\ regionUsed \in [Regions -> Nat]
      BY DEF StepInv, TypeOK
    <3>5. CASE OverRegionShare(r)
      <4>1. /\ regionUsed[RegionOf[r]] \in Nat /\ regionUsed'[RegionOf[r]] \in Nat
            /\ regionUsed[RegionOf[r]] <= regionUsed'[RegionOf[r]]
        BY <2>1, <3>2, <3>3, <3>4 DEF Regions
      <4> QED BY <2>1, <3>3, <3>5, <4>1, RegionShareFills DEF LaneSheds
    <3>6. CASE LaneFit(r) = {}
      <4>1. ASSUME NEW b \in Pool, Eligible(r, b)
            PROVE  ~(Smaller(laneFree'[b], RegCap(r)) + Slack >= cost[r])
        <5>1. /\ RegCap(r) \in Nat /\ b \in Beams /\ Slack \in Nat
          BY <4>1, CapNat, AirtimeAssumption DEF Pool
        <5>2. laneFree[b] \in Int /\ laneFree'[b] \in Int /\ laneFree'[b] <= laneFree[b]
          BY <2>1, <3>1, <3>4, <5>1
        <5>3. ~(Smaller(laneFree[b], RegCap(r)) + Slack >= cost[r])
          BY <3>6, <4>1 DEF LaneFit
        <5> QED BY <2>1, <3>3, <5>1, <5>2, <5>3 DEF Smaller
      <4>2. LaneFit(r)' = {}
        BY <2>1, <4>1 DEF LaneFit, Pool, Eligible, Legal, RegCap
      <4> QED BY <4>2 DEF LaneSheds
    <3>7. CASE cost[r] > LaneMaxUnits + Slack
      BY <2>1, <3>7 DEF LaneSheds
    <3> QED BY <3>3, <3>5, <3>6, <3>7 DEF LaneSheds
  <2>3. ASSUME UNCHANGED <<laneFree, regionUsed>>, NEW r, LaneSheds(r) PROVE LaneSheds(r)'
    BY <2>1, <2>3 DEF LaneSheds, OverRegionShare, TotalReserved, RegionsRanked, LaneFit,
                      Pool, Ranked, Unranked, Eligible, Legal, RegCap
  <2>4. ASSUME NEW q \in Requests, LaneShed(q) PROVE SpillInv'
    BY <2>3, <2>4 DEF LaneShed
  <2>5. ASSUME UNCHANGED laneVars PROVE SpillInv'
    BY <2>3, <2>5 DEF laneVars
  <2> QED BY <2>2, <2>4, <2>5 DEF Next, LaneNext, SchedNext, HandOver, vars
<1>3. StepInv /\ SpillInv => SpilloverDoesNotFit
  <2> SUFFICES ASSUME StepInv, SpillInv, NEW r \in spillover, LaneFit(r) = {},
                      NEW b \in Pool, Eligible(r, b)
               PROVE  Smaller(laneFree[b], RegCap(r)) + Slack < cost[r]
    BY DEF SpilloverDoesNotFit, LaneSheds
  <2>1. /\ RegCap(r) \in Nat /\ Slack \in Nat /\ laneFree[b] \in Int /\ cost[r] \in Nat
    BY CapNat, CostAboveSlack, RequestAssumption, AirtimeAssumption
    DEF StepInv, TypeOK, Pool, Ranked, Unranked
  <2>2. ~(Smaller(laneFree[b], RegCap(r)) + Slack >= cost[r])
    BY DEF LaneFit
  <2> QED BY <2>1, <2>2 DEF Smaller
<1> HIDE DEF SpillInv
<1> QED BY <1>1, <1>2, <1>3, AirtimeAccounted, PTL DEF Spec

\* No tier turns away what fits, and what it turned away fits no better later on.
THEOREM TurnedAwayForCause == Spec => []RefusedDoesNotFit
  BY DeferredFitsNowhere, DegradedFitsNowhere, SpilloverFitsNowhere, PTL DEF RefusedDoesNotFit

-----------------------------------------------------------------------------
(* The step implements the airtime ledger *)

\* A lawful grant to a request that has none, within the limit, is one of the ledger.
LEMMA GrantIsLedgerGrant ==
  ASSUME TypeOK, BeamWithinCapacity', NEW r \in Requests, NEW b, NEW units,
         NEW degraded, r \notin served, Lawful(r, b, units), Grant(r, b, units, degraded)
  PROVE  AirtimePromise!Grant(r, b)
<1>1. /\ b \in Beams /\ units \in Nat \ {0} /\ granted[b] \in Nat
      /\ Capacity[b] \in Nat /\ Slack \in Nat
  BY AirtimeAssumption DEF Lawful, TypeOK
<1>2. granted' = [granted EXCEPT ![b] = @ + units] /\ served' = served \cup {r}
  BY DEF Grant
<1>3. granted'[b] = granted[b] + units /\ granted'[b] <= AirtimeLimit[b]
  BY <1>1, <1>2 DEF BeamWithinCapacity, AirtimeLimit, TypeOK
<1>4. AirtimeLimit[b] \in Nat /\ units \in 1..(AirtimeLimit[b] - granted[b])
  BY <1>1, <1>3 DEF AirtimeLimit
<1>5. <<r, b>> \in EligiblePairs
  BY <1>1 DEF EligiblePairs, Lawful
<1> QED BY <1>2, <1>4, <1>5 DEF AirtimePromise!Grant

\* The lane, subtract_reservations and the scheduler together hand out airtime as
\* one ledger would: at most once per request, where it is legal, within the beam.
THEOREM StepImplementsLedger == Spec => RefinesLedger
<1>1. Init => AirtimePromise!Init
  BY DEF Init, LedgerInit, AirtimePromise!Init
<1>2. StepInv /\ BeamWithinCapacity' /\ [Next]_vars
      => [AirtimePromise!Next]_<<granted, served>>
  <2> SUFFICES ASSUME StepInv, BeamWithinCapacity', [Next]_vars
               PROVE  AirtimePromise!Next \/ UNCHANGED <<granted, served>>
    OBVIOUS
  <2>0. TypeOK
    BY DEF StepInv
  <2>1. ASSUME NEW r \in Requests, LaneReserve(r) PROVE AirtimePromise!Next
    <3>1. PICK b \in LaneBest(r) : Grant(r, b, cost[r], FALSE)
      BY <2>1 DEF LaneReserve
    <3>2. r \notin served
      BY <2>1 DEF LaneReserve, StepInv, AnswerInv
    <3>3. Lawful(r, b, cost[r])
      BY <2>0, LaneGrantLawful
    <3> QED BY <2>0, <3>1, <3>2, <3>3, GrantIsLedgerGrant DEF AirtimePromise!Next, Lawful
  <2>2. ASSUME NEW r \in Requests, SchedFull(r) PROVE AirtimePromise!Next
    <3>1. PICK b \in FullBest(r) : Grant(r, b, cost[r], FALSE)
      BY <2>2 DEF SchedFull
    <3>2. r \notin served
      BY <2>2 DEF SchedFull, StepInv, AnswerInv
    <3>3. Lawful(r, b, cost[r])
      BY <2>0, FullGrantLawful
    <3> QED BY <2>0, <3>1, <3>2, <3>3, GrantIsLedgerGrant DEF AirtimePromise!Next, Lawful
  <2>3. ASSUME NEW r \in Requests, SchedDegraded(r) PROVE AirtimePromise!Next
    <3>1. PICK b \in DegradedFit(r) : Grant(r, b, Smaller(Allocatable(r, b), cost[r]), TRUE)
      BY <2>3 DEF SchedDegraded
    <3>2. r \notin served
      BY <2>3 DEF SchedDegraded, StepInv, AnswerInv
    <3>3. Lawful(r, b, Smaller(Allocatable(r, b), cost[r]))
      BY <2>0, DegradedGrantLawful
    <3> QED BY <2>0, <3>1, <3>2, <3>3, GrantIsLedgerGrant DEF AirtimePromise!Next, Lawful
  <2> QED BY <2>1, <2>2, <2>3
          DEF Next, LaneNext, SchedNext, LaneShed, HandOver, SchedDefer, SchedExpired,
              Ledger, vars
<1> QED BY <1>1, <1>2, AirtimeAccounted, BeamsWithinCapacity, PTL
        DEF Spec, RefinesLedger, AirtimePromise!Spec
=============================================================================
