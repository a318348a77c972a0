------------------------ MODULE FleetCoverage_proofs ------------------------
(***************************************************************************)
(* What the breakers and the clients behind them promise, for any fleets,  *)
(* thresholds, cooldowns and rule tables.                                  *)
(*                                                                         *)
(* A breaker holds two numbers and its properties speak of what happened   *)
(* to the fleet: the invariant says that the numbers are the history, the  *)
(* count of failures the streak, the reopening step the last failure of a  *)
(* streak that is long enough plus the cooldown.  The breakers implement   *)
(* the clockless three-state breaker, and the fleets the loop gathers from *)
(* are driven by such breakers; so a fleet that never raised before it     *)
(* failed is called at every step, and its beams are in the snapshot.      *)
(***************************************************************************)
EXTENDS FleetCoverage, DataLemmas

-----------------------------------------------------------------------------
(* The breakers *)


CountsStreak == failures = streak
Cause(f) == \/ streak[f] > 0 /\ lastFail[f] = step
            \/ streak[f] >= Threshold /\ step < lastFail[f] + Cooldown
VisitedOrCause == \A f \in Fleets \ (visible \cup todo) : Cause(f)

BreakerInv == /\ TypeOK
              /\ CountsStreak
              /\ OpenIffStreak
              /\ TripsCountOutages
              /\ VisitedOrCause

\* A breaker is open or not, and if it is, the step it reopens at is a step.
LEMMA OpenStep ==
  ASSUME TypeOK, OpenIffStreak, NEW f \in Fleets
  PROVE  /\ openUntil[f] = NotOpen <=> streak[f] < Threshold
         /\ openUntil[f] # NotOpen => openUntil[f] = lastFail[f] + Cooldown
  BY BreakerAssumption DEF TypeOK, OpenIffStreak, NotOpen

\* Every step leaves the breakers with counts of the right kind.
LEMMA BreakerTypes == TypeOK /\ [Next]_vars => TypeOK'
<1> SUFFICES ASSUME TypeOK, [Next]_vars PROVE TypeOK'
  OBVIOUS
<1> USE BreakerAssumption
<1>1. ASSUME NEW f \in Fleets, Skip(f) PROVE TypeOK'
  BY <1>1 DEF Skip, TypeOK
<1>2. ASSUME NEW f \in Fleets, Answer(f) PROVE TypeOK'
  <2>1. failures' \in [Fleets -> Nat] /\ streak' \in [Fleets -> Nat]
    BY <1>2 DEF Answer, FailuresReset, TypeOK
  <2>2. openUntil' \in [Fleets -> Nat \cup {NotOpen}]
    BY <1>2 DEF Answer, TypeOK
  <2>3. recoveries' \in [Fleets -> Nat]
    BY <1>2 DEF Answer, TypeOK
  <2> QED BY <1>2, <2>1, <2>2, <2>3 DEF Answer, TypeOK
<1>3. ASSUME NEW f \in Fleets, Fail(f) PROVE TypeOK'
  <2>1. failures' \in [Fleets -> Nat] /\ streak' \in [Fleets -> Nat]
    BY <1>3 DEF Fail, TypeOK
  <2>2. openUntil' \in [Fleets -> Nat \cup {NotOpen}]
    BY <1>3 DEF Fail, TypeOK
  <2>3. trips' \in [Fleets -> Nat] /\ lastFail' \in [Fleets -> Nat]
    BY <1>3 DEF Fail, TypeOK
  <2> QED BY <1>3, <2>1, <2>2, <2>3 DEF Fail, TypeOK
<1>4. ASSUME NextStep PROVE TypeOK'
  BY <1>4 DEF NextStep, TypeOK
<1>5. ASSUME UNCHANGED vars PROVE TypeOK'
  BY <1>5 DEF vars, TypeOK
<1> QED BY <1>1, <1>2, <1>3, <1>4, <1>5 DEF Next

\* What a failed call does to the fleet it reached: the breaker opens with the streak.
LEMMA FailMovesBreaker ==
  ASSUME BreakerInv, NEW f \in Fleets, Fail(f)
  PROVE  /\ streak'[f] = streak[f] + 1 /\ failures'[f] = failures[f] + 1
         /\ lastFail'[f] = step
         /\ openUntil'[f] = IF streak[f] + 1 >= Threshold THEN step + Cooldown ELSE NotOpen
         /\ trips'[f] = trips[f] + IF streak[f] + 1 = Threshold THEN 1 ELSE 0
         /\ \A g \in Fleets \ {f} : /\ streak'[g] = streak[g] /\ failures'[g] = failures[g]
                                    /\ lastFail'[g] = lastFail[g] /\ trips'[g] = trips[g]
                                    /\ openUntil'[g] = openUntil[g]
<1>1. /\ openUntil[f] = NotOpen <=> streak[f] < Threshold
      /\ failures[f] = streak[f] /\ streak[f] \in Nat
  BY OpenStep DEF BreakerInv, CountsStreak, TypeOK
<1>2. Opens(f) <=> streak[f] + 1 >= Threshold
  BY <1>1, BreakerAssumption DEF Opens
<1>3. NewlyTripped(f) <=> streak[f] + 1 = Threshold
  BY <1>1, <1>2, BreakerAssumption DEF NewlyTripped
<1>4. openUntil'[f] = IF streak[f] + 1 >= Threshold THEN step + Cooldown ELSE NotOpen
  BY <1>1, <1>2, BreakerAssumption DEF Fail, BreakerInv, TypeOK
<1>5. trips'[f] = trips[f] + IF streak[f] + 1 = Threshold THEN 1 ELSE 0
  BY <1>3 DEF Fail, BreakerInv, TypeOK
<1>6. /\ streak'[f] = streak[f] + 1 /\ failures'[f] = failures[f] + 1
      /\ lastFail'[f] = step
  BY DEF Fail, BreakerInv, TypeOK
<1>7. ASSUME NEW g \in Fleets \ {f}
      PROVE  /\ streak'[g] = streak[g] /\ failures'[g] = failures[g]
             /\ lastFail'[g] = lastFail[g] /\ trips'[g] = trips[g]
             /\ openUntil'[g] = openUntil[g]
  BY <1>7 DEF Fail, BreakerInv, TypeOK
<1> QED BY <1>4, <1>5, <1>6, <1>7

\* What a call that succeeds does: the breaker closes, and an outage is over.
LEMMA AnswerMovesBreaker ==
  ASSUME BreakerInv, NEW f \in Fleets, Answer(f)
  PROVE  /\ streak'[f] = 0 /\ failures'[f] = 0 /\ openUntil'[f] = NotOpen
         /\ lastFail' = lastFail /\ trips' = trips
         /\ recoveries'[f] = recoveries[f] + IF streak[f] >= Threshold THEN 1 ELSE 0
         /\ \A g \in Fleets \ {f} : /\ streak'[g] = streak[g] /\ failures'[g] = failures[g]
                                    /\ openUntil'[g] = openUntil[g] /\ recoveries'[g] = recoveries[g]
<1>1. streak'[f] = 0 /\ failures'[f] = 0 /\ openUntil'[f] = NotOpen
  BY DEF Answer, FailuresReset, BreakerInv, TypeOK
<1>2. recoveries'[f] = recoveries[f] + IF streak[f] >= Threshold THEN 1 ELSE 0
  BY DEF Answer, BreakerInv, TypeOK
<1>3. ASSUME NEW g \in Fleets \ {f}
      PROVE  /\ streak'[g] = streak[g] /\ failures'[g] = failures[g]
             /\ openUntil'[g] = openUntil[g] /\ recoveries'[g] = recoveries[g]
  BY <1>3 DEF Answer, FailuresReset, BreakerInv, TypeOK
<1> QED BY <1>1, <1>2, <1>3 DEF Answer

-----------------------------------------------------------------------------
(* The invariant *)

\* What the invariant says of one fleet's breaker; a step touches one fleet's.
BreakerOf(f) ==
  /\ failures[f] = streak[f]
  /\ openUntil[f] = IF streak[f] >= Threshold THEN lastFail[f] + Cooldown ELSE NotOpen
  /\ trips[f] = recoveries[f] + (IF streak[f] >= Threshold THEN 1 ELSE 0)
  /\ f \in visible \cup todo \/ Cause(f)

AllBreakers == \A f \in Fleets : BreakerOf(f)

LEMMA InvByFleet == BreakerInv <=> TypeOK /\ AllBreakers
<1>1. TypeOK => (CountsStreak <=> \A f \in Fleets : failures[f] = streak[f])
  BY DEF TypeOK, CountsStreak
<1>2. VisitedOrCause <=> \A f \in Fleets : f \in visible \cup todo \/ Cause(f)
  BY DEF VisitedOrCause
<1> QED BY <1>1, <1>2
        DEF BreakerInv, AllBreakers, BreakerOf, OpenIffStreak, TripsCountOutages

LEMMA InitInv == Init => BreakerInv
  BY BreakerAssumption DEF Init, BreakerInv, TypeOK, CountsStreak, OpenIffStreak,
     TripsCountOutages, VisitedOrCause, NotOpen

\* A fleet that is skipped is within its cooldown.
LEMMA SkipKeepsInv ==
  ASSUME BreakerInv, NEW f \in Fleets, Skip(f), NEW g \in Fleets
  PROVE  BreakerOf(g)'
<1>1. BreakerOf(g)
  BY InvByFleet DEF AllBreakers
<1>2. CASE g = f
  <2>1. streak[f] >= Threshold /\ openUntil[f] = lastFail[f] + Cooldown
    BY OpenStep, BreakerAssumption DEF Skip, Allow, BreakerInv, TypeOK
  <2>2. step < lastFail[f] + Cooldown
    BY <2>1, BreakerAssumption DEF Skip, Allow, BreakerInv, TypeOK, NotOpen
  <2> QED BY <1>1, <1>2, <2>1, <2>2 DEF Skip, BreakerOf, Cause
<1>3. CASE g # f
  BY <1>1, <1>3 DEF Skip, BreakerOf, Cause
<1> QED BY <1>2, <1>3

\* A fleet that answers starts anew; if that ends an outage, it is counted.
LEMMA AnswerKeepsInv ==
  ASSUME BreakerInv, NEW f \in Fleets, Answer(f), NEW g \in Fleets
  PROVE  BreakerOf(g)'
<1> USE BreakerAssumption
<1>1. BreakerOf(g)
  BY InvByFleet DEF AllBreakers
<1>2. CASE g = f
  <2>1. trips[f] = recoveries[f] + (IF streak[f] >= Threshold THEN 1 ELSE 0)
    BY <1>1, <1>2 DEF BreakerOf, BreakerInv, TypeOK
  <2>2. g \in visible'
    BY <1>2 DEF Answer
  <2> QED BY <1>2, <2>1, <2>2, AnswerMovesBreaker DEF BreakerOf, BreakerInv, TypeOK
<1>3. CASE g # f
  <2>1. /\ streak'[g] = streak[g] /\ failures'[g] = failures[g]
        /\ openUntil'[g] = openUntil[g] /\ recoveries'[g] = recoveries[g]
        /\ lastFail' = lastFail /\ trips' = trips
    BY <1>3, AnswerMovesBreaker
  <2>2. step' = step /\ (g \in visible \cup todo => g \in visible' \cup todo')
    BY <1>3 DEF Answer
  <2> QED BY <1>1, <2>1, <2>2 DEF BreakerOf, Cause
<1> QED BY <1>2, <1>3

\* A failed call counts, and trips the breaker the first time a streak is too long.
LEMMA FailKeepsInv ==
  ASSUME BreakerInv, NEW f \in Fleets, Fail(f), NEW g \in Fleets
  PROVE  BreakerOf(g)'
<1> USE BreakerAssumption
<1>1. BreakerOf(g)
  BY InvByFleet DEF AllBreakers
<1>2. step' = step /\ recoveries' = recoveries /\ visible' = visible /\ todo' = todo \ {f}
  BY DEF Fail
<1>3. CASE g = f
  <2>1. /\ streak'[f] = streak[f] + 1 /\ failures'[f] = failures[f] + 1
        /\ lastFail'[f] = step
        /\ openUntil'[f] = IF streak[f] + 1 >= Threshold THEN step + Cooldown ELSE NotOpen
        /\ trips'[f] = trips[f] + IF streak[f] + 1 = Threshold THEN 1 ELSE 0
    BY FailMovesBreaker
  <2>2. streak[f] \in Nat /\ trips[f] \in Nat /\ recoveries[f] \in Nat /\ step \in Nat
    BY DEF BreakerInv, TypeOK
  <2>3. trips'[f] = recoveries'[f] + (IF streak'[f] >= Threshold THEN 1 ELSE 0)
    BY <1>1, <1>2, <1>3, <2>1, <2>2 DEF BreakerOf
  <2>4. Cause(f)'
    BY <1>2, <2>1, <2>2 DEF Cause
  <2> QED BY <1>1, <1>2, <1>3, <2>1, <2>2, <2>3, <2>4 DEF BreakerOf
<1>4. CASE g # f
  <2>1. /\ streak'[g] = streak[g] /\ failures'[g] = failures[g]
        /\ lastFail'[g] = lastFail[g] /\ trips'[g] = trips[g]
        /\ openUntil'[g] = openUntil[g]
    BY <1>4, FailMovesBreaker
  <2> QED BY <1>1, <1>2, <1>4, <2>1 DEF BreakerOf, Cause
<1> QED BY <1>3, <1>4

LEMMA NextInv == BreakerInv /\ [Next]_vars => BreakerInv'
<1> SUFFICES ASSUME BreakerInv, [Next]_vars PROVE BreakerInv'
  OBVIOUS
<1>1. TypeOK'
  BY BreakerTypes DEF BreakerInv
<1>2. AllBreakers'
  <2>1. ASSUME NEW f \in Fleets, Skip(f) \/ Answer(f) \/ Fail(f)
        PROVE  \A g \in Fleets : BreakerOf(g)'
    BY <2>1, SkipKeepsInv, AnswerKeepsInv, FailKeepsInv
  <2>2. ASSUME NextStep \/ UNCHANGED vars PROVE \A g \in Fleets : BreakerOf(g)'
    <3>1. \A g \in Fleets : BreakerOf(g)
      BY InvByFleet DEF AllBreakers
    <3> QED BY <2>2, <3>1 DEF NextStep, vars, BreakerOf, Cause
  <2> QED BY <2>1, <2>2 DEF Next, AllBreakers
<1>3. BreakerInv' <=> TypeOK' /\ AllBreakers'
  BY InvByFleet, PTL
<1> QED BY <1>1, <1>2, <1>3

\* Whatever the fleets do, the two numbers of a breaker are its fleet's history.
THEOREM BreakerInvariant == Spec => []BreakerInv
  BY InitInv, NextInv, PTL DEF Spec

-----------------------------------------------------------------------------
(* The properties *)

\* A fleet's breaker is open exactly while its last Threshold calls or more failed,
\* and then until Cooldown steps after the last of them (CircuitBreaker.record_*).
THEOREM OpenExactlyOnStreak == Spec => []OpenIffStreak
<1>1. BreakerInv => OpenIffStreak
  BY DEF BreakerInv
<1> QED BY <1>1, BreakerInvariant, PTL

\* The loop's breaker_trips count outages: one trip is reported for each.
THEOREM TripPerOutage == Spec => []TripsCountOutages
<1>1. BreakerInv => TripsCountOutages
  BY DEF BreakerInv
<1> QED BY <1>1, BreakerInvariant, PTL

\* Failover is per fleet: what _gather_constellation leaves out of a snapshot failed
\* in this very step or is within its cooldown.
THEOREM FailoverForCause == Spec => []MissingForCause
<1>1. BreakerInv => MissingForCause
  BY DEF BreakerInv, VisitedOrCause, MissingForCause, Cause
<1> QED BY <1>1, BreakerInvariant, PTL

\* No call reaches a fleet within Cooldown steps of the failure that opened, or kept
\* open, its breaker.
THEOREM CooldownRespected == Spec => NoCallDuringCooldown
<1> DEFINE Respects == \A f \in Fleets :
      streak[f] >= Threshold /\ (streak'[f] # streak[f] \/ f \in visible' \ visible)
        => step >= lastFail[f] + Cooldown
<1>1. BreakerInv /\ [Next]_vars => [Respects]_vars
  <2> SUFFICES ASSUME BreakerInv, Next, NEW f \in Fleets, streak[f] >= Threshold,
                      streak'[f] # streak[f] \/ f \in visible' \ visible
               PROVE  step >= lastFail[f] + Cooldown
    OBVIOUS
  <2>1. Answer(f) \/ Fail(f)
    <3>1. ASSUME NEW g \in Fleets, g # f, Answer(g) \/ Fail(g) PROVE FALSE
      BY <3>1, AnswerMovesBreaker, FailMovesBreaker DEF Answer, Fail
    <3>2. ASSUME NEW g \in Fleets, Skip(g) PROVE FALSE
      BY <3>2 DEF Skip
    <3>3. ASSUME NextStep PROVE FALSE
      BY <3>3 DEF NextStep
    <3> QED BY <3>1, <3>2, <3>3 DEF Next
  <2>2. openUntil[f] = lastFail[f] + Cooldown /\ openUntil[f] # NotOpen
    BY OpenStep, BreakerAssumption DEF BreakerInv, TypeOK
  <2> QED BY <2>1, <2>2 DEF Answer, Fail, Allow
<1> QED BY <1>1, BreakerInvariant, PTL DEF Spec, NoCallDuringCooldown

-----------------------------------------------------------------------------
(* The refinement *)


Strikes(f) == IF Status(f) = "closed" THEN failures[f] ELSE 0
Wait(f) == IF Status(f) = "open" THEN openUntil[f] - step ELSE 0

\* A step that touches the breaker of f alone leaves the others' status be.
OthersKept(f) ==
  \A g \in Fleets \ {f} : /\ openUntil'[g] = openUntil[g] /\ failures'[g] = failures[g]

LEMMA UntouchedKept ==
  ASSUME NEW g \in Fleets, step' = step,
         openUntil'[g] = openUntil[g], failures'[g] = failures[g]
  PROVE  Status(g)' = Status(g) /\ Strikes(g)' = Strikes(g) /\ Wait(g)' = Wait(g)
  BY DEF Status, Strikes, Wait

\* What the invariant says of the status: closed breakers are short of the threshold.
LEMMA StatusFacts ==
  ASSUME BreakerInv, NEW f \in Fleets
  PROVE  /\ Status(f) = "closed" <=> openUntil[f] = NotOpen
         /\ Status(f) = "open" <=> ~Allow(f)
         /\ Status(f) \in {"closed", "open", "halfopen"}
         /\ Status(f) = "closed" => failures[f] < Threshold
         /\ failures[f] \in Nat
<1>1. failures[f] = streak[f] /\ failures[f] \in Nat
  BY DEF BreakerInv, TypeOK, CountsStreak
<1>2. step \in Nat /\ openUntil[f] \in Nat \cup {NotOpen}
  BY DEF BreakerInv, TypeOK
<1>3. openUntil[f] = NotOpen <=> streak[f] < Threshold
  BY OpenStep DEF BreakerInv
<1> QED BY <1>1, <1>2, <1>3 DEF Status, Allow, NotOpen

LEMMA SkipMaps ==
  ASSUME BreakerInv, NEW f \in Fleets, Skip(f)
  PROVE  Failover!Skip(f)
<1>1. Status(f) = "open"
  BY StatusFacts DEF Skip
<1>2. \A g \in Fleets : Status(g)' = Status(g) /\ Strikes(g)' = Strikes(g) /\ Wait(g)' = Wait(g)
  BY UntouchedKept DEF Skip
<1> QED BY <1>1, <1>2 DEF Skip, Failover!Skip, Strikes, Wait

LEMMA AnswerMaps ==
  ASSUME BreakerInv, NEW f \in Fleets, Answer(f)
  PROVE  Failover!Answer(f)
<1>1. Status(f) # "open"
  BY StatusFacts DEF Answer
<1>2. Status(f)' = "closed" /\ Strikes(f)' = 0 /\ Wait(f)' = 0 /\ Wait(f) = 0
  BY <1>1, AnswerMovesBreaker DEF Status, Strikes, Wait
<1>3. \A g \in Fleets \ {f} :
        Status(g)' = Status(g) /\ Strikes(g)' = Strikes(g) /\ Wait(g)' = Wait(g)
  BY UntouchedKept, AnswerMovesBreaker DEF Answer
<1> QED BY <1>1, <1>2, <1>3 DEF Answer, Failover!Answer, Strikes, Wait

LEMMA FailMaps ==
  ASSUME BreakerInv, NEW f \in Fleets, Fail(f)
  PROVE  Failover!Fail(f)
<1> USE BreakerAssumption
<1>1. Status(f) # "open" /\ Wait(f) = 0
  BY StatusFacts DEF Fail, Wait
<1>2. \A g \in Fleets \ {f} :
        Status(g)' = Status(g) /\ Strikes(g)' = Strikes(g) /\ Wait(g)' = Wait(g)
  BY UntouchedKept, FailMovesBreaker DEF Fail
<1>3. /\ openUntil'[f] = IF failures[f] + 1 >= Threshold THEN step + Cooldown ELSE NotOpen
      /\ failures'[f] = failures[f] + 1 /\ failures[f] \in Nat /\ step \in Nat
  BY FailMovesBreaker DEF BreakerInv, CountsStreak, TypeOK
<1>4. step' = step
  BY DEF Fail
<1>5. CASE failures[f] + 1 >= Threshold
  <2>1. Status(f)' = "open" /\ Strikes(f)' = 0 /\ Wait(f)' = Cooldown
    BY <1>3, <1>4, <1>5 DEF Status, Strikes, Wait, NotOpen
  <2>2. (Status(f) = "closed" /\ Strikes(f) + 1 = Threshold) \/ Status(f) = "halfopen"
    BY <1>1, <1>5, StatusFacts DEF Strikes
  <2> QED BY <1>2, <2>1, <2>2 DEF Fail, Failover!Fail, Failover!Trip, Strikes, Wait
<1>6. CASE failures[f] + 1 < Threshold
  <2>1. Status(f) = "closed"
    <3>1. openUntil[f] = NotOpen <=> failures[f] < Threshold
      BY OpenStep DEF BreakerInv, CountsStreak
    <3> QED BY <1>3, <1>6, <3>1, StatusFacts
  <2>2. Status(f)' = "closed" /\ Strikes(f)' = Strikes(f) + 1 /\ Wait(f)' = 0
    BY <1>3, <1>4, <1>6, <2>1 DEF Status, Strikes, Wait, NotOpen
  <2>3. Strikes(f) + 1 < Threshold
    BY <1>6, <2>1 DEF Strikes
  <2> QED BY <1>1, <1>2, <2>1, <2>2, <2>3 DEF Fail, Failover!Fail, Failover!Strike, Strikes, Wait
<1> QED BY <1>3, <1>5, <1>6

LEMMA NextStepMaps ==
  ASSUME BreakerInv, NextStep
  PROVE  Failover!Tick
<1>1. ASSUME NEW f \in Fleets
      PROVE  /\ Strikes(f)' = Strikes(f)
             /\ Wait(f)' = IF Wait(f) = 0 THEN 0 ELSE Wait(f) - 1
             /\ Status(f)' = IF Status(f) = "open" /\ Wait(f) = 1 THEN "halfopen" ELSE Status(f)
  <2>1. step' = step + 1 /\ openUntil'[f] = openUntil[f] /\ failures'[f] = failures[f]
    BY DEF NextStep
  <2>2. step \in Nat /\ openUntil[f] \in Nat \cup {NotOpen}
    BY DEF BreakerInv, TypeOK
  <2> QED BY <2>1, <2>2 DEF Status, Strikes, Wait, NotOpen
<1> QED BY <1>1 DEF NextStep, Failover!Tick, Strikes, Wait

LEMMA InitMaps == Init => Failover!Init
  BY DEF Init, Failover!Init, Status, NotOpen

LEMMA NextMaps == BreakerInv /\ [Next]_vars => [Failover!Next]_(Failover!vars)
<1> SUFFICES ASSUME BreakerInv, [Next]_vars PROVE [Failover!Next]_(Failover!vars)
  OBVIOUS
<1>1. ASSUME NEW f \in Fleets, Skip(f) \/ Answer(f) \/ Fail(f) PROVE Failover!Next
  BY <1>1, SkipMaps, AnswerMaps, FailMaps DEF Failover!Next
<1>2. CASE NextStep
  BY <1>2, NextStepMaps DEF Failover!Next
<1>3. CASE UNCHANGED vars
  BY <1>3 DEF vars, Failover!vars, Status
<1> QED BY <1>1, <1>2, <1>3 DEF Next

\* resilience.py implements the breaker its docstring describes: CLOSED until
\* Threshold failures in a row, OPEN for Cooldown steps, then a HALF-OPEN trial.
THEOREM BreakersImplementFailover == Spec => RefinesFailover
  BY InitMaps, NextMaps, BreakerInvariant, PTL DEF Spec, RefinesFailover, Failover!Spec

\* The fleets of a run, online when and failing when their configuration says,
\* are called only as the breakers allow: what holds of these holds of the run.
THEOREM CoverageUsesBreakers == SpecCoverage => Spec
<1>1. InitCoverage => Init
  BY DEF InitCoverage
<1>2. [NextCoverage]_coverageVars => [Next]_vars
  BY DEF NextCoverage, PollAnswer, PollFail, PollSkip, StartStep, Next, coverageVars, vars
<1> QED BY <1>1, <1>2, PTL DEF SpecCoverage, Spec

-----------------------------------------------------------------------------
(* The snapshot of a step *)

Rules == [region : Regions, bands : Seq(Bands), fleets : SUBSET Fleets]
CoverageTypes == shape \in [Fleets -> Shapes] /\ rules \in RuleTables /\ step \in Nat

LEMMA RuleTypes ==
  ASSUME CoverageTypes
  PROVE  /\ DOMAIN rules = 1..Len(rules) /\ Len(rules) \in Nat
         /\ \A k \in DOMAIN rules : /\ rules[k] \in Rules /\ rules[k].region \in Regions
                                    /\ rules[k].bands \in Seq(Bands)
<1>1. rules \in Seq(Rules)
  BY RulesAssumption DEF CoverageTypes, Rules
<1>2. DOMAIN rules = 1..Len(rules) /\ Len(rules) \in Nat /\ \A k \in 1..Len(rules) : rules[k] \in Rules
  BY <1>1, ElementOfSeq, LenProperties
<1> QED BY <1>2 DEF Rules

LEMMA ShapeTypes ==
  ASSUME CoverageTypes, NEW f \in Fleets
  PROVE  /\ shape[f].sats \in Nat /\ shape[f].beams \in Nat /\ shape[f].online \in Nat
         /\ shape[f].fail \in Nat /\ shape[f].flaky \in BOOLEAN
<1>1. shape[f] \in Shapes
  BY DEF CoverageTypes
<1> QED BY <1>1, ShapesAssumption

\* The pairs of a rule.
LEMMA InPairs ==
  ASSUME CoverageTypes, NEW k \in DOMAIN rules
  PROVE  /\ Pairs(rules[k]) \in Seq(Regions \X Bands)
         /\ ToSet(Pairs(rules[k])) = {<<rules[k].region, b>> : b \in ToSet(rules[k].bands)}
         /\ rules[k].bands # <<>> => ToSet(Pairs(rules[k])) # {}
<1> DEFINE bs == rules[k].bands
           n == Len(bs)
           ps == Pairs(rules[k])
<1>1. bs \in Seq(Bands) /\ rules[k].region \in Regions
  BY RuleTypes
<1>2. n \in Nat /\ DOMAIN bs = 1..n /\ \A i \in 1..n : bs[i] \in Bands
  BY <1>1, ElementOfSeq, LenProperties
<1>3. DOMAIN ps = 1..n /\ ps = [i \in DOMAIN ps |-> ps[i]] /\ \A i \in 1..n : ps[i] = <<rules[k].region, bs[i]>>
  BY DEF Pairs
<1> HIDE DEF bs, n, ps
<1>4. ASSUME NEW i \in 1..n PROVE ps[i] \in Regions \X Bands
  <2>1. bs[i] \in Bands /\ ps[i] = <<rules[k].region, bs[i]>>
    BY <1>2, <1>3
  <2> QED BY <1>1, <2>1
<1>5. ps \in Seq(Regions \X Bands)
  BY <1>2, <1>3, <1>4, SeqByIndex
<1>6. ToSet(ps) = {<<rules[k].region, b>> : b \in ToSet(bs)}
  BY <1>2, <1>3 DEF ToSet
<1>7. bs # <<>> => n # 0
  BY <1>1, EmptySeq DEF n
<1>8. bs # <<>> => ToSet(ps) # {}
  <2>1. n # 0 => 1 \in 1..n
    BY <1>2
  <2> QED BY <1>3, <1>7, <2>1 DEF ToSet
<1> QED BY <1>5, <1>6, <1>8 DEF bs, ps

\* What the rules allow a fleet.
Allowed(f) == {p \in UNION {Range(Pairs(rules[k])) : k \in 1..Len(rules)} : Legal(f, p)}

\* _coverage_for_fleet and evaluate read the same pairs off the rule table.
LEMMA CoverageIsPolicy ==
  ASSUME CoverageTypes, NEW f \in Fleets
  PROVE  /\ Coverage(f) \in Seq(Regions \X Bands)
         /\ ToSet(Coverage(f)) = Allowed(f)
         /\ Coverage(f) # <<>> <=> \E k \in DOMAIN rules : f \in rules[k].fleets /\ rules[k].bands # <<>>
<1> DEFINE parts == [k \in 1..Len(rules) |-> IF f \in rules[k].fleets THEN Pairs(rules[k]) ELSE <<>>]
           listed == {k \in DOMAIN rules : f \in rules[k].fleets}
<1>1. DOMAIN parts = 1..Len(rules) /\ parts = [k \in DOMAIN parts |-> parts[k]]
  OBVIOUS
<1>2. \A k \in 1..Len(rules) : parts[k] = IF f \in rules[k].fleets THEN Pairs(rules[k]) ELSE <<>>
  OBVIOUS
<1>3. Coverage(f) = FlattenSeq(parts)
  BY DEF Coverage
<1> HIDE DEF parts
<1>4. \A k \in 1..Len(rules) : parts[k] \in Seq(Regions \X Bands)
  BY <1>2, InPairs, RuleTypes, EmptySeq
<1>5. parts \in Seq(Seq(Regions \X Bands))
  BY <1>1, <1>4, RuleTypes, SeqByIndex
<1>6. /\ Coverage(f) \in Seq(Regions \X Bands)
      /\ ToSet(Coverage(f)) = UNION {ToSet(parts[k]) : k \in DOMAIN parts}
  BY <1>3, <1>5, InFlatten
<1>7. ToSet(<<>>) = {}
  BY DEF ToSet
<1>8. UNION {ToSet(parts[k]) : k \in DOMAIN parts} = UNION {ToSet(Pairs(rules[k])) : k \in listed}
  BY <1>1, <1>2, <1>7, RuleTypes
<1>9. UNION {ToSet(Pairs(rules[k])) : k \in listed} = Allowed(f)
  <2>1. ASSUME NEW k \in listed, NEW p \in ToSet(Pairs(rules[k])) PROVE p \in Allowed(f)
    <3>1. PICK b \in ToSet(rules[k].bands) : p = <<rules[k].region, b>>
      BY <2>1, InPairs
    <3>2. Legal(f, p)
      BY <3>1, RuleTypes DEF Legal, ToSet, Range
    <3> QED BY <2>1, <3>2, RuleTypes DEF Allowed, ToSet, Range
  <2>2. ASSUME NEW p \in Allowed(f)
        PROVE  \E k \in listed : p \in ToSet(Pairs(rules[k]))
    <3>1. PICK n \in 1..Len(rules) : p \in Range(Pairs(rules[n]))
      BY DEF Allowed
    <3>2. PICK b \in ToSet(rules[n].bands) : p = <<rules[n].region, b>>
      BY <3>1, InPairs, RuleTypes DEF ToSet, Range
    <3>3. PICK k \in 1..Len(rules) : /\ rules[k].region = p[1] /\ f \in rules[k].fleets
                                     /\ p[2] \in Range(rules[k].bands)
      BY DEF Allowed, Legal
    <3>4. p = <<rules[k].region, p[2]>> /\ p[2] \in ToSet(rules[k].bands)
      BY <3>2, <3>3 DEF ToSet, Range
    <3>5. p \in ToSet(Pairs(rules[k]))
      BY <3>4, InPairs, RuleTypes
    <3> QED BY <3>3, <3>5, RuleTypes
  <2> QED BY <2>1, <2>2
<1>10. Coverage(f) # <<>> <=> ToSet(Coverage(f)) # {}
  <2> DEFINE c == Coverage(f)
  <2>1. c \in Seq(Regions \X Bands) => (c # <<>> <=> Len(c) # 0) /\ DOMAIN c = 1..Len(c) /\ Len(c) \in Nat
    BY EmptySeq, LenProperties
  <2> HIDE DEF c
  <2>2. c \in Seq(Regions \X Bands)
    BY <1>6 DEF c
  <2>3. Len(c) # 0 <=> 1 \in DOMAIN c
    BY <2>1, <2>2
  <2>4. Len(c) = 0 => DOMAIN c = {}
    BY <2>1, <2>2
  <2>5. c # <<>> <=> ToSet(c) # {}
    BY <2>1, <2>2, <2>3, <2>4 DEF ToSet
  <2> QED BY <2>5 DEF c
<1>11. \A k \in DOMAIN rules : rules[k].bands # <<>> <=> ToSet(Pairs(rules[k])) # {}
  <2>1. ToSet(<<>>) = {}
    BY DEF ToSet
  <2> QED BY <2>1, InPairs
<1>12. ToSet(Coverage(f)) = Allowed(f)
  BY <1>6, <1>8, <1>9
<1>13. Coverage(f) # <<>> <=> \E k \in listed : ToSet(Pairs(rules[k])) # {}
  <2>1. ToSet(Coverage(f)) = UNION {ToSet(Pairs(rules[k])) : k \in listed}
    BY <1>6, <1>8
  <2> DEFINE part(k) == ToSet(Pairs(rules[k]))
             C == ToSet(Coverage(f))
  <2>2. C = UNION {part(k) : k \in listed}
    BY <2>1
  <2> HIDE DEF listed, part, C
  <2>3. C # {} <=> \E k \in listed : part(k) # {}
    BY <2>2
  <2> QED BY <1>10, <2>3, Zenon DEF part, C
<1>14. Coverage(f) # <<>> <=> \E k \in DOMAIN rules : f \in rules[k].fleets /\ rules[k].bands # <<>>
  BY <1>11, <1>13
<1> QED BY <1>6, <1>12, <1>14

\* The beams of a client light pairs of its coverage, and all of them when there are as
\* many beams: the next beam takes the next pair, across satellites.
LEMMA BeamsLight ==
  ASSUME CoverageTypes, NEW f \in Fleets, Coverage(f) # <<>>
  PROVE  /\ \A b \in Beams(f) : b.fleet = f /\ b.pair \in ToSet(Coverage(f))
         /\ shape[f].sats * shape[f].beams >= Len(Coverage(f)) =>
              {b.pair : b \in Beams(f)} = ToSet(Coverage(f))
         /\ Beams(f) # {} <=> shape[f].sats > 0 /\ shape[f].beams > 0
<1> DEFINE c == Coverage(f)
           n == Len(c)
           S == shape[f].sats
           B == shape[f].beams
           pair(i, j) == c[PairIndex(f, i, j) + 1]
<1>1. c \in Seq(Regions \X Bands) /\ c # <<>> /\ S \in Nat /\ B \in Nat
  BY CoverageIsPolicy, ShapeTypes
<1>2. n \in Nat \ {0} /\ DOMAIN c = 1..n
  BY <1>1, EmptySeq, LenProperties
<1>3. \A i, j : PairIndex(f, i, j) = (i * B + j) % n
  BY DEF PairIndex
<1>4. Beams(f) = {[fleet |-> f, id |-> <<i, j>>, pair |-> pair(i, j)] : i \in 0..S - 1, j \in 0..B - 1}
  BY DEF Beams
<1> HIDE DEF c, n, S, B
<1>5. ASSUME NEW i \in 0..S - 1, NEW j \in 0..B - 1
      PROVE  PairIndex(f, i, j) + 1 \in DOMAIN c
  <2>1. i * B + j \in Nat
    BY <1>1
  <2>2. (i * B + j) % n \in 0..(n - 1)
    BY <1>2, <2>1, Modulo
  <2> QED BY <1>2, <1>3, <2>2
<1>6. \A b \in Beams(f) : b.fleet = f /\ b.pair \in ToSet(c)
  BY <1>4, <1>5 DEF ToSet
<1>7. ASSUME S * B >= n, NEW k \in DOMAIN c
      PROVE  \E b \in Beams(f) : b.pair = c[k]
  <2>1. k - 1 \in Nat /\ k - 1 < n /\ k \in Nat
    BY <1>2
  <2>2. B # 0
    BY <1>1, <1>2, <1>7
  <2>3. PICK i \in Nat : \E j \in Nat : j < B /\ k - 1 = i * B + j
    BY <1>1, <2>1, <2>2, Division
  <2>4. PICK j \in Nat : j < B /\ k - 1 = i * B + j
    BY <2>3
  <2>5. i < S
    <3> SUFFICES ASSUME i >= S PROVE FALSE
      BY <1>1
    <3>1. (i - S) * B \in Nat /\ (i - S) * B = i * B - S * B
      BY <1>1
    <3>2. i * B \in Nat /\ S * B \in Nat
      BY <1>1
    <3> QED BY <1>2, <1>7, <2>1, <2>4, <3>1, <3>2
  <2>6. PairIndex(f, i, j) + 1 = k
    <3>1. PairIndex(f, i, j) = k - 1
      BY <1>2, <1>3, <2>1, <2>4, Modulo
    <3> QED BY <2>1, <3>1
  <2>7. i \in 0..S - 1 /\ j \in 0..B - 1
    BY <1>1, <2>4, <2>5
  <2> DEFINE b == [fleet |-> f, id |-> <<i, j>>, pair |-> pair(i, j)]
  <2>8. b \in Beams(f)
    BY <1>4, <2>7
  <2>9. b.pair = c[k]
    BY <2>6
  <2> QED BY <2>8, <2>9
<1>8. S * B >= n => {b.pair : b \in Beams(f)} = ToSet(c)
  BY <1>6, <1>7 DEF ToSet
<1>9. Beams(f) # {} <=> S > 0 /\ B > 0
  <2>1. S > 0 /\ B > 0 => 0 \in 0..S - 1 /\ 0 \in 0..B - 1
    BY <1>1
  <2>2. ~(S > 0) => 0..S - 1 = {}
    BY <1>1
  <2>3. ~(B > 0) => 0..B - 1 = {}
    BY <1>1
  <2>4. Beams(f) # {} <=> (0..S - 1) # {} /\ (0..B - 1) # {}
    <3>1. ASSUME NEW b \in Beams(f) PROVE (0..S - 1) # {} /\ (0..B - 1) # {}
      <4>1. \E i \in 0..S - 1 : \E j \in 0..B - 1 : TRUE
        BY <1>4, <3>1
      <4> QED BY <4>1
    <3>2. ASSUME NEW i \in 0..S - 1, NEW j \in 0..B - 1 PROVE Beams(f) # {}
      <4>1. [fleet |-> f, id |-> <<i, j>>, pair |-> pair(i, j)] \in Beams(f)
        <5> HIDE DEF pair
        <5> QED BY <1>4
      <4> QED BY <4>1
    <3> QED BY <3>1, <3>2
  <2> QED BY <2>1, <2>2, <2>3, <2>4
<1> QED BY <1>6, <1>8, <1>9 DEF c, n, S, B

\* What is gathered so far is what the fleets that answered show; and a client that
\* raises only from its failing step on is asked at every step, and answers, until then.
SnapshotInv ==
  /\ CoverageTypes
  /\ snapshot = UNION {IF InService(f) THEN Beams(f) ELSE {} : f \in visible}
  /\ visible \subseteq Fleets
  /\ \A f \in Predictable :
       /\ f \in visible => ~Unreachable(f)
       /\ ~Unreachable(f) => /\ f \in visible \cup todo
                             /\ failures[f] = 0 /\ openUntil[f] = NotOpen

LEMMA SnapshotInit == InitCoverage => SnapshotInv
  BY DEF InitCoverage, Init, SnapshotInv, CoverageTypes, Predictable, NotOpen

LEMMA ClientsKept ==
  ASSUME UNCHANGED <<shape, rules, step>>, NEW f
  PROVE  /\ InService(f)' = InService(f) /\ Beams(f)' = Beams(f) /\ Unreachable(f)' = Unreachable(f)
         /\ Predictable' = Predictable
<1>1. Coverage(f)' = Coverage(f)
  BY DEF Coverage, Pairs
<1>2. \A i, j : PairIndex(f, i, j)' = PairIndex(f, i, j)
  BY <1>1 DEF PairIndex
<1> QED BY <1>1, <1>2 DEF InService, Beams, Unreachable, Predictable

LEMMA SnapshotStep ==
  ASSUME BreakerInv, SnapshotInv, [NextCoverage]_coverageVars
  PROVE  SnapshotInv'
<1> DEFINE Part(f) == IF InService(f) THEN Beams(f) ELSE {}
<1>0. step \in Nat /\ todo \subseteq Fleets /\ failures \in [Fleets -> Nat]
      /\ openUntil \in [Fleets -> Nat \cup {NotOpen}]
  BY DEF BreakerInv, TypeOK
<1>1. CASE UNCHANGED coverageVars
  <2>1. UNCHANGED <<step, todo, visible, failures, openUntil, shape, rules, snapshot>>
    BY <1>1 DEF coverageVars
  <2>2. \A f : Part(f)' = Part(f)
    BY <2>1, ClientsKept
  <2> QED BY <2>1, <2>2, ClientsKept DEF SnapshotInv, CoverageTypes
<1>2. ASSUME NEW f \in Fleets, PollAnswer(f) PROVE SnapshotInv'
  <2>1. /\ UNCHANGED <<step, shape, rules>> /\ ~Unreachable(f)
        /\ todo' = todo \ {f} /\ visible' = visible \cup {f} /\ snapshot' = snapshot \cup Part(f)
        /\ failures' = [failures EXCEPT ![f] = 0]
        /\ openUntil' = [openUntil EXCEPT ![f] = NotOpen]
    BY <1>2 DEF PollAnswer, Answer, FailuresReset
  <2>2. \A g : Part(g)' = Part(g)
    BY <2>1, ClientsKept
  <2>3. snapshot' = UNION {Part(g)' : g \in visible'}
    BY <2>1, <2>2 DEF SnapshotInv
  <2>4. CoverageTypes' /\ visible' \subseteq Fleets
    BY <2>1 DEF SnapshotInv, CoverageTypes
  <2>5. ASSUME NEW g \in Predictable'
        PROVE  /\ g \in visible' => ~Unreachable(g)'
               /\ ~Unreachable(g)' => /\ g \in visible' \cup todo'
                                      /\ failures'[g] = 0 /\ openUntil'[g] = NotOpen
    <3>1. g \in Predictable /\ Unreachable(g)' = Unreachable(g) /\ g \in Fleets
      BY <2>1, <2>5, ClientsKept DEF Predictable
    <3> QED BY <1>0, <2>1, <3>1 DEF SnapshotInv
  <2> QED BY <2>3, <2>4, <2>5 DEF SnapshotInv
<1>3. ASSUME NEW f \in Fleets, PollFail(f) PROVE SnapshotInv'
  <2>1. /\ UNCHANGED <<step, shape, rules, visible, snapshot>> /\ (Unreachable(f) \/ shape[f].flaky)
        /\ todo' = todo \ {f}
        /\ \A g \in Fleets \ {f} : failures'[g] = failures[g] /\ openUntil'[g] = openUntil[g]
    BY <1>0, <1>3 DEF PollFail, Fail
  <2>2. \A g : Part(g)' = Part(g)
    BY <2>1, ClientsKept
  <2>3. snapshot' = UNION {Part(g)' : g \in visible'}
    BY <2>1, <2>2 DEF SnapshotInv
  <2>4. CoverageTypes' /\ visible' \subseteq Fleets
    BY <2>1 DEF SnapshotInv, CoverageTypes
  <2>5. ASSUME NEW g \in Predictable'
        PROVE  /\ g \in visible' => ~Unreachable(g)'
               /\ ~Unreachable(g)' => /\ g \in visible' \cup todo'
                                      /\ failures'[g] = 0 /\ openUntil'[g] = NotOpen
    <3>1. g \in Predictable /\ Unreachable(g)' = Unreachable(g) /\ g \in Fleets
      BY <2>1, <2>5, ClientsKept DEF Predictable
    <3>2. ~Unreachable(g) => g # f
      BY <2>1, <3>1 DEF Predictable
    <3> QED BY <2>1, <3>1, <3>2 DEF SnapshotInv
  <2> QED BY <2>3, <2>4, <2>5 DEF SnapshotInv
<1>4. ASSUME NEW f \in Fleets, PollSkip(f) PROVE SnapshotInv'
  <2>1. /\ UNCHANGED <<step, shape, rules, visible, snapshot, failures, openUntil>>
        /\ todo' = todo \ {f} /\ openUntil[f] # NotOpen
    BY <1>4 DEF PollSkip, Skip, Allow
  <2>2. \A g : Part(g)' = Part(g)
    BY <2>1, ClientsKept
  <2>3. snapshot' = UNION {Part(g)' : g \in visible'}
    BY <2>1, <2>2 DEF SnapshotInv
  <2>4. CoverageTypes' /\ visible' \subseteq Fleets
    BY <2>1 DEF SnapshotInv, CoverageTypes
  <2>5. ASSUME NEW g \in Predictable'
        PROVE  /\ g \in visible' => ~Unreachable(g)'
               /\ ~Unreachable(g)' => /\ g \in visible' \cup todo'
                                      /\ failures'[g] = 0 /\ openUntil'[g] = NotOpen
    <3>1. g \in Predictable /\ Unreachable(g)' = Unreachable(g)
      BY <2>1, <2>5, ClientsKept
    <3> QED BY <2>1, <3>1 DEF SnapshotInv
  <2> QED BY <2>3, <2>4, <2>5 DEF SnapshotInv
<1>5. CASE StartStep
  <2>1. /\ UNCHANGED <<shape, rules, failures, openUntil>> /\ step' = step + 1
        /\ todo' = Fleets /\ visible' = {} /\ snapshot' = {}
    BY <1>5 DEF StartStep, NextStep
  <2>2. CoverageTypes'
    BY <1>0, <2>1 DEF SnapshotInv, CoverageTypes
  <2>3. ASSUME NEW g \in Predictable'
        PROVE  ~Unreachable(g)' => g \in Fleets /\ failures'[g] = 0 /\ openUntil'[g] = NotOpen
    <3>1. g \in Predictable /\ g \in Fleets
      BY <2>1, <2>3 DEF Predictable
    <3>2. shape[g].fail \in Nat
      BY <3>1, ShapeTypes DEF SnapshotInv
    <3>3. ~Unreachable(g)' => ~Unreachable(g)
      BY <1>0, <2>1, <3>2 DEF Unreachable
    <3> QED BY <2>1, <3>1, <3>3 DEF SnapshotInv
  <2> QED BY <2>1, <2>2, <2>3 DEF SnapshotInv
<1> QED BY <1>1, <1>2, <1>3, <1>4, <1>5 DEF NextCoverage

LEMMA SnapshotInvariant == SpecCoverage => [](BreakerInv /\ SnapshotInv)
<1>1. SpecCoverage => []BreakerInv
  BY CoverageUsesBreakers, BreakerInvariant, PTL
<1>2. InitCoverage => SnapshotInv
  BY SnapshotInit
<1>3. BreakerInv /\ SnapshotInv /\ [NextCoverage]_coverageVars => SnapshotInv'
  BY SnapshotStep
<1> QED BY <1>1, <1>2, <1>3, PTL DEF SpecCoverage

\* Of what the invariant describes, FleetsInService and BeamsCoverPolicy are the parts
\* a request can tell.
LEMMA BeamsOfFleet ==
  ASSUME SnapshotInv, NEW f \in {b.fleet : b \in snapshot}
  PROVE  /\ f \in visible /\ f \in Fleets /\ InService(f)
         /\ {c \in snapshot : c.fleet = f} = Beams(f)
<1> DEFINE Part(g) == IF InService(g) THEN Beams(g) ELSE {}
<1>1. \A g \in visible : g \in Fleets /\ (InService(g) => \A b \in Beams(g) : b.fleet = g)
  BY BeamsLight DEF SnapshotInv, InService
<1>2. snapshot = UNION {Part(g) : g \in visible}
  BY DEF SnapshotInv
<1>3. \A b \in snapshot : b.fleet \in visible /\ InService(b.fleet) /\ b \in Beams(b.fleet)
  BY <1>1, <1>2
<1>4. f \in visible /\ f \in Fleets /\ InService(f)
  BY <1>1, <1>3
<1>5. \A b \in Beams(f) : b \in snapshot /\ b.fleet = f
  BY <1>1, <1>2, <1>4
<1> QED BY <1>3, <1>4, <1>5

\* What a step works on: of the fleets that fail once and for all exactly those in
\* service, whatever the others do, each lit as the rule table allows.
THEOREM SnapshotsExact == SpecCoverage => []SnapshotExact
<1>1. ASSUME SnapshotInv PROVE FleetsInService
  <2> SUFFICES ASSUME Gathered, NEW f \in Predictable
               PROVE  f \in {b.fleet : b \in snapshot} <=>
                        /\ shape[f].online <= step /\ step < shape[f].fail
                        /\ shape[f].sats > 0 /\ shape[f].beams > 0
                        /\ \E k \in 1..Len(rules) : f \in rules[k].fleets /\ rules[k].bands # <<>>
    BY DEF FleetsInService, Predictable
  <2>1. f \in Fleets /\ CoverageTypes /\ step \in Nat
    BY <1>1 DEF Predictable, SnapshotInv, CoverageTypes
  <2>2. f \in visible <=> step < shape[f].fail
    <3>1. f \in visible <=> ~Unreachable(f)
      BY <1>1 DEF SnapshotInv, Gathered
    <3>2. shape[f].fail \in Nat
      BY <2>1, ShapeTypes
    <3> QED BY <2>1, <3>1, <3>2 DEF Unreachable
  <2>3. InService(f) <=> /\ shape[f].online <= step
                         /\ \E k \in 1..Len(rules) : f \in rules[k].fleets /\ rules[k].bands # <<>>
    <3>1. shape[f].online \in Nat
      BY <2>1, ShapeTypes
    <3>2. Coverage(f) # <<>> <=>
            \E k \in 1..Len(rules) : f \in rules[k].fleets /\ rules[k].bands # <<>>
      BY <2>1, CoverageIsPolicy, RuleTypes
    <3> QED BY <2>1, <3>1, <3>2 DEF InService
  <2>4. InService(f) => (Beams(f) # {} <=> shape[f].sats > 0 /\ shape[f].beams > 0)
                        /\ \A b \in Beams(f) : b.fleet = f
    BY <2>1, BeamsLight DEF InService
  <2>5. f \in {b.fleet : b \in snapshot} <=> f \in visible /\ InService(f) /\ Beams(f) # {}
    <3>1. ASSUME f \in {b.fleet : b \in snapshot}
          PROVE  f \in visible /\ InService(f) /\ Beams(f) # {}
      BY <1>1, <3>1, BeamsOfFleet
    <3>2. ASSUME f \in visible, InService(f), NEW b \in Beams(f)
          PROVE  b \in snapshot /\ b.fleet = f
      BY <1>1, <2>4, <3>2 DEF SnapshotInv
    <3> QED BY <3>1, <3>2
  <2> QED BY <2>2, <2>3, <2>4, <2>5
<1>2. ASSUME SnapshotInv PROVE BeamsCoverPolicy
  <2> SUFFICES ASSUME NEW f \in {b.fleet : b \in snapshot}
               PROVE  LET lit == {b.pair : b \in {c \in snapshot : c.fleet = f}}
                      IN  /\ lit \subseteq Allowed(f)
                          /\ shape[f].sats * shape[f].beams >= Len(Coverage(f)) => lit = Allowed(f)
    BY DEF BeamsCoverPolicy, Allowed
  <2>1. f \in Fleets /\ InService(f) /\ {c \in snapshot : c.fleet = f} = Beams(f) /\ CoverageTypes
    BY <1>2, BeamsOfFleet DEF SnapshotInv
  <2>2. ToSet(Coverage(f)) = Allowed(f) /\ Coverage(f) # <<>>
    BY <2>1, CoverageIsPolicy DEF InService
  <2>3. /\ \A b \in Beams(f) : b.pair \in ToSet(Coverage(f))
        /\ shape[f].sats * shape[f].beams >= Len(Coverage(f)) =>
             {b.pair : b \in Beams(f)} = ToSet(Coverage(f))
    BY <2>1, <2>2, BeamsLight
  <2> QED BY <2>1, <2>2, <2>3
<1>3. SnapshotInv => SnapshotExact
  BY <1>1, <1>2 DEF SnapshotExact
<1> QED BY <1>3, SnapshotInvariant, PTL
=============================================================================
