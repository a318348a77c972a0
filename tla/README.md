# A formal model of satsim

`satsim` is a discrete-step simulator of a direct-to-device satellite network. Each step a
single-threaded control loop gathers what the satellite fleets offer, takes in requests, and
lets three tiers decide who is served: the emergency lane (Tier 2), admission and a scheduler
(Tier 1), and a planner that tunes both every few steps (Tier 3). Nothing runs in parallel and
nothing is persisted; what is hard is that every request crosses many containers within a step
and over steps, that several parties hand out the same airtime one after the other, and that
decisions rest on counters, histories and clocks kept between steps.

This directory holds TLA+ modules for those parts, TLC configurations that check them on small
instances, and TLAPS proofs of every safety property for instances of any size. `PROJECT.json` maps each
definition to the lines of the source it stands for.

Source paths below are relative to `src/src/satsim/`.

## 1. Inventory

| Component | State | Operations | Where it is hard | What makes it correct |
|---|---|---|---|---|
| Control loop (`runtime/loop.py`) | retry queue, plan, breakers, histories, last drop rate, summary | `run`, `step` and its stages | a request passes bus → arrivals → lane/best effort → candidates → served, dropped, rejected, deferred → retry queue; schedulers may raise at any step | each request in one place, totals conserve, nothing served late, deferrals and waiting bounded |
| Request bus (`bus.py`) | pending entries, sequence number | `publish`, `drain` | batch limit and delayed visibility interleave | exactly once, nothing passed over without cause |
| Source and demand (`adapters/io/request_source.py`, `demand.py`, `rng.py`) | last step produced, sequence number, random state | `poll`, `generate_step` | polls that skip or repeat steps; surges at the end of a run; sampling that raises half-way through a step | each step's demand produced once, every surge fires, crashes for known causes only |
| Circuit breakers (`resilience.py`) | failures, reopening step, per fleet | `allow`, `record_success`, `record_failure` | failed trials, recovery, one fleet's failures among others | open exactly on a streak, quiet in a cooldown, a trip per outage, a healthy fleet returns |
| Constellations (`adapters/network/constellation.py`) | none (a function of the step) | `visible_resources` | a fleet coming up or dying mid-run, beams dealt over licensed pairs | snapshots hold exactly what is in service, lit where licensed |
| Regulatory table (`adapters/network/regulatory.py`) | none | `allowed_options`, `evaluate` | read in three places that must agree | every grant legal and within the cap |
| Emergency lane (`adapters/admission/emergency.py`) | free reserve per beam, use per region (within a call) | `reserve` | caps, region shares and tolerances combine | stays in its slice, spills over only what does not fit |
| Fluid schedulers (`adapters/scheduling/scheduler.py`) | free airtime per beam (within a call) | `schedule` | full and degraded grants from what the lane left | no beam oversubscribed, nothing refused that fits |
| MAC schedulers (`adapters/mac/mac.py`) | grid, occupancy (within a call) | `schedule` of both access models | rounding to resource blocks, an MCS table in any order, collisions known only at the end | no beam oversubscribed, payload carried, caps kept, nobody deferred without cause |
| Solver planner (`SolverOptimizer`) | hints of its last solution | `plan` | a program stopped by its time limit, a balance cap near infeasibility, a penalty measured from hints that are no longer in force | solutions exist, can be carried out and waste nothing; regions move for a gain only and settle |
| Heuristic and adaptive planners (`adapters/optimization/optimizer.py`, `domain/planning.py`) | learned probability per bucket, smoothed feedback | `plan` | bounded histories sliced against a cadence; a plan changes the outcomes the next is drawn from; a learned curve can get stuck | each outcome learned once, from the curve that caused it; no shedding without a cause, and none that feeds on itself; who was served worse is favoured; shedding while idle is unlearned |
| Admission (`adapters/admission/admission.py`) | none | `admit` | curve times backpressure | a better score is never worse off |
| Scoring (`scoring.py`) | none | `evaluate` | the plan's weight meets priority, urgency and waiting | whoever was served worse is not outscored but on merit; one cost for both tiers |
| Telemetry, experiments (`adapters/io/telemetry.py`, `runtime/experiment.py`) | recorded steps | `record_step`, aggregation | a reason given at six places, to requests that two stages handle; ranks at small counts | the report of the steps is the report of the requests |
| Configuration, scenarios (`config.py`) | none | validation | what it lets through | enough for the generator, but for the causes `CrashForCause` names |
| Command line, dashboard, ports | – | output, protocols | – | – |

Interaction: `ControlLoop.step` calls, in this order, the planner when the cadence is up, every
constellation through its breaker, the source (which publishes the step's demand on the bus and
drains a batch), the lane, admission, the regulatory table, a scheduler (with a fallback and a
safe mode), and its own retry queue. Components never call back into the loop; what they share
is the snapshot, from which reservations are subtracted, and the plan.

The hazards, at their lines and with the property that watches each, are listed in
`PROJECT.json`.

## 2. Modules

| Module | Models | Composed of |
|---|---|---|
| `RequestLifecycle` | what the loop promises one request: queued, decided, held in turn, one final outcome | abstract |
| `ControlLoop` | every stage of `step`, with every container, the counters and the backoff | implements `RequestLifecycle` |
| `FleetFailover` | the three-state breaker the docstring of `resilience.py` describes, without a clock | abstract |
| `CircuitBreaker` | the breakers as `_gather_constellation` drives them | implements `FleetFailover` |
| `FleetCoverage` | the constellation clients behind those breakers, and their coverage | extends `CircuitBreaker` |
| `InMemoryBus` | `publish` and `drain` with delayed visibility, as operators | – |
| `SyntheticSource` | the source, the generator, the validation they rely on, and other producers of the bus | extends `InMemoryBus` |
| `RunReport` | the reasons requests are turned away for, the recorded steps, and what a report computes from them | extends `ControlLoop` |
| `AirtimeLedger` | what a step promises about airtime, whoever hands it out | abstract |
| `Airtime`, `EmergencyLane`, `GreedyScheduler` | the ledger's data and legality; `reserve`; `schedule` | – |
| `StepAllocation` | lane, `subtract_reservations`, admission and scheduler on one snapshot | extends the three above, implements `AirtimeLedger` |
| `MacGrid`, `SlotMac`, `ContentionMac` | resource blocks and link adaptation; granted access; random access | – |
| `MacSchedulers` | the MAC scheduler a configuration picks | extends the three above |
| `HeuristicPlanner` | the heuristic plan as a function of the histories, and the scores and probabilities it gives | – |
| `PlanFeedback` | the planner in the loop: cadence, bounded histories, what a step may do under a plan | extends `HeuristicPlanner` |
| `LearnedCurve` | the curve `AdaptiveOptimizer` learns and how admission reads it | – |
| `SolverPlanner` | the mixed-integer program, what a solver may answer, the fallback | – |
| `Tier3` | the planner a configuration picks, called round after round | instantiates `LearnedCurve` and `SolverPlanner` |
| `MC*` | constants for TLC | – |
| `DataLemmas` | lemmas on numbers, sets, sums and sequences that several proofs cite | – |
| `*_proofs` | theorems, see section 5 | extend the component's module and `DataLemmas` |

How state and actions correspond to the code:

* **ControlLoop.** The variables are the containers of `step`: `bus` is `InMemoryBus._pending`,
  `arrivals`, `bestEffort`, `candidates` and `deferred` are the lists that one stage hands to the
  next, `retryQ` with `eligible` is `_retry_queue`, and `counters` and `summary` are
  `StepCounters` and `RunSummary`. `phase` is the program counter. Stages that treat requests one
  by one with effects on each other (`_handle_deferred`, where the queue fills up) are one
  action per request; the others are one action. The tiers appear as what their contracts let
  them do: the lane admits any part of the viable urgent requests, admission sheds any part, a
  scheduler drops what is late, grants any part of the rest that has a visible licensed fleet, and
  may raise. All that the loop itself does is deterministic and kept. The history variable
  `arrival` is the step a request was published in, or `Never`: `Published` is independent of the
  containers, so a request that falls out of all of them shows.
* **CircuitBreaker, FleetCoverage.** `failures` and `openUntil` are the fields of the
  dataclass; `streak`, `lastFail`, `trips` and `recoveries` are history variables the properties
  compare them with. One action per client and step, as in the loop. In `FleetCoverage` each
  client has a `FleetConfig`, or is `flaky` and stands for any other implementation of the port.
* **StepAllocation.** Airtime is a natural number, in units of which one (`Slack`) is the
  tolerance 1e-9 of the comparisons, so that every comparison with a tolerance in the code is one
  in the model. The order in which a tier visits its requests is any order, as every order is
  that of some scores; ties between beams are broken either way.
* **MAC.** Under random access a request may be held back before anyone transmits (no
  beam is open to it, or the one it draws gives it too few RBs), or collide; what is deferred in either
  way is told apart by whether it has an attempt. Probabilities and qualities
  are percents, airtime comes in units that divide evenly; rounding to whole RBs is as in the code. Random choices are any choice. `mcs_table` comes in
  configuration order; `Ladder` is the table the constructors sort it into.
* **HeuristicPlanner, PlanFeedback.** Each record of a history carries what the planner reads of it
  (demand, utilization, drop rate, served counts), and the step it is about. A step has at most one
  request of each class; it may meet any fate that its plan leaves it (a probability of 0 or 1 is
  the only thing that excludes one). What `config.py` lets a deployment choose is `tuning`, one of the
  instance's: the utilization clamp, `Infinite` included, and the two bounds of the fairness weights,
  in order or not, as nothing validates that. Utilization as the planner reads it is clamped first, so
  that a step without any room is at the clamp, and infinite under an infinite one. The 1e-6 that keeps
  the ratio of shares defined is one part in `Million`. Shares, weights and scores are percents rounded
  down; probabilities are parts of `One`, which is so fine that only 0 becomes 0. A request's base score
  follows from the priority of its class, its urgency and its wait, each out of a small set. The heuristic planner's airtime budgets are not modelled, as nothing reads
  them (its fleet hints are in `SolverPlanner`); nor are requests that no rule allows anywhere,
  whose rejection looks to the planner as shedding does.
* **LearnedCurve** takes the complement: any feedback may come, in any order. Both the probabilities
  and the feedback are real numbers in the code. `p` is rounded down to multiples of 1/`One`;
  `signal` is the whole units of the feedback, and the fraction below a unit, together with what
  rounding has hidden, adds to each bucket any part of its grade (`Parts`). So feedback that is positive
  but less than a unit may leave the curve where it is, as feedback that fades does in the code.
* **SolverPlanner.** One action per way `plan` can end: the program solved to optimality, stopped by
  its time limit with some solution (`FEASIBLE`), or given up, when the heuristic planner answers.
  What OR-Tools does in between is external: any solution of the constraints may be an incumbent,
  any of greatest objective an optimum. Airtime is in whole units, weights, shares and utilization
  in percent, so the objective counts in 1/10000. `Soft * capacity` is a whole number of
  units, so the real-valued program has an optimum among the whole ones. `licence` and `window`
  are what the histories and the snapshot say, any of the instance's in each round; `prevHints`
  is `_prev_hints`.
* **Tier3.** `backend` is `config.optimizer.backend`. The adaptive planner takes everything but the
  curve from the heuristic one, so that its action is `Learn` alone.
* **InMemoryBus, SyntheticSource.** `poll` is three kinds of step: `Poll`, one `Generate` per step of
  the catch-up loop, `DrainBatch`. `step` is the argument of `poll`: the clock may advance without a
  poll, or not between two. Draws are any draw the code can make, the rounding cases of
  `weighted_choice` included. A sampling that raises ends the run with `pc = "crashed"`, and what it
  published before stays on the bus. `publish` takes the step an entry becomes visible in; the
  source passes the step of the demand, other producers (`PublishForeign`) any later one.
* **RunReport.** Its actions are those of `ControlLoop`, with the reason each stage hands to the
  telemetry sink and the step recorded at the end. Utilization is not computed: whether a step
  has spare capacity is any truth value, but true when nobody was served. `sorted` is modelled by the
  place each wait takes, totals over the steps by sums.

## 3. Runs

| Run | Instance | Shows |
|---|---|---|
| `loop` | 4 requests (urgent; best effort; best effort with no slack, for one fleet only; legal nowhere), 2 fleets, 4 steps, batch 2, queue 1, backoff 1, then 2, with jitter up to 1 | no request is lost, counted twice, in two places, served late, retried beyond its budget, or open longer than its deferrals explain; the loop implements `RequestLifecycle` |
| `failover` | 2 fleets, threshold 3, cooldown 3, no clock | under fairness, a fleet that stops failing is in all but finitely many snapshots, and every open breaker gets its trial |
| `fleets` | 2 fleets out of 9 kinds each (up at 0 or 2, dead from 1, 3 or never, no beams, 3×1 beams, flaky), 3 rule tables, 8 steps, threshold 2, cooldown 2 | breakers are open exactly on a streak, quiet in a cooldown, report an outage once; snapshots hold exactly what is in service, lit as the rule table says; `FleetFailover` is implemented |
| `ingest` | valid and invalid configurations: 2 classes of which one may have weight 0 or an empty range of sizes, a surge in step 1 and another from step 1 to past the end, of a known or an unknown class, with regions or none; 3 steps, batch 2, 1 baseline arrival per step, 2 foreign entries with lags 0–2 | demand produced once per step however polls come; exactly once through the bus, nothing visible passed over but by a full batch of older entries; configurations that pass validation crash for two causes only; every surge fires |
| `alloc` | 3 urgent requests (one in the strict region, one on its last retry) and 3 best-effort ones (degradable, not, late) of costs 2, 3, 5, degraded to 75%, over 3 beams (one all reserved), 2 regions, 2 fleets | no beam oversubscribed beyond one tolerance; the lane within its slice; grants legal; nothing refused that fits, in full or degraded; each request answered once; `AirtimeLedger` implemented |
| `mac` | either scheduler; 4 requests (one late) of 2 sizes and 2 link qualities; 3 beams of 3 RBs, one all share, one finer, one dry; an unsorted MCS table; capture 1 and 2 | granted RBs are disjoint and shared ones split within the beam; payload carried, no RB wasted, regulation kept after rounding; deferred is what does not fit, was held back for want of a beam that could carry it, or met a crowd |
| `tier3` | any planner; 3 buckets, probabilities in 1/12, feedback in whole units and any fraction below; 5 regions (two ask for airtime and may be served by either fleet, or by one), 2 fleets in or out of service, 2 classes (one of priority 0), 3 demands, 2 servings, soft threshold 50% | admission is monotone in the score under any backpressure; shedding while idle is unlearned; the balance cap leaves a solution; any solution can be carried out and favours whom it leaves short; an optimal one wastes nothing; regions move for a gain only; hints settle |
| `feedback` | an urgent class and a best-effort one of twice the cost, 2 urgencies, 2 waits, cadences and capacities 1 and 2, room for one such request or none, 2 tunings (the default; an infinite clamp with the fairness bounds swapped), 4 steps | a plan is judged only by steps it governed, each once; nothing is shed but after over-subscription, drops, or load without room under an infinite clamp, and shedding is no such cause; nobody outscores who was served worse but on its own merit |
| `report` | as `loop`, one fleet, 3 steps, no lane retries, slacks 0–2, each kind of request turned away for reasons of its own | recorded steps add up to the summary and to the requests behind them, each under one reason its history bears out; percentiles are the least wait that share of requests met |
| `loop_backlog` | as `loop`, batch 1 | *violated*: see finding 1 |
| `loop_late_deferral` | as `loop`, lane retries 2 | *violated*: see finding 2 |
| `curve_top` | the curve of `tier3` alone | *violated*: see finding 3 |

**Bounds and why they are enough.** `DurationSteps` bounds the clock where there is one; the
loop's four steps let a request be deferred, come back, be deferred again and end, while the
others arrive, and a queue of one makes any two deferrals compete; with a base of 1 and a cap of 2 the
backoff grows once, and a request deferred twice comes back in the last step at the latest moment its
two deferrals allow. Eight steps of `fleets` are
four cooldowns, so a dead fleet is tried several times and a flaky one can trip twice. The ingest
instance publishes two foreign entries, up to five surge requests and three baseline ones against
a batch of two, so a backlog of several batches builds up behind entries not yet visible, and its
second surge lies within, at the end of and past the run. In `alloc` the costs lie below, at and
above each cap (request cap 4, regulatory caps 2 and 3, reserves 1 and 2, remaining capacity), also by
just the tolerance of one unit, and a beam that is reserved entirely can be overdrawn by it: which is
where the outcomes differ. The four steps of `feedback` are two cadences or more, and its
capacities lie below, at and above the cadence; with backpressure always on, every fate that is
possible without it remains possible. Five regions and two fleets are where the balance cap of
`tier3` is tight (two of the regions served by one fleet, or by either); its fleet capacities of 2
and 4 against demands of 1 to 3 put splits below, at and above the soft threshold and the
capacity, and the fleets tie in one region and differ in the other. Its demands may exceed a
fleet's capacity, as in the code, which sums demand over the history and compares it with the
airtime of one step. The `mac` sizes need one RB or more than a beam has, by link and level; the
`report` instance serves up to three requests with waits of 0 to 2, so that the median and the
tail fall on different ranks. The theorems of section 5 remove
these bounds for everything but liveness.

**Deadlock** is checked where the system does not stop (`failover`, `tier3`, `curve_top`); all other
instances end: the run's steps are over, or one call has answered all its requests.

**Fairness.** The code has one thread, `run` is a `for` loop, and no stage blocks.
`FleetFailover` asks WF of its next-state relation: the loop keeps stepping. Which fleet answers is
not constrained. `SyntheticSource` asks WF of `Poll`, `Generate` and `DrainBatch`: a poll is called
again and again and returns; and SF of `Tick`, which is disabled during a poll: the consumer does
not poll forever within one step. Nothing is asked of other producers. `Tier3` asks WF of
`PlanByLearning`: the loop replans whenever the cadence is up. Feedback is not constrained;
`ShedWhileIdleRecovers` assumes that from some window on none tightens the curve, and that windows
worth a unit of feedback keep coming, which is what shedding while beams are idle gives as long as it
goes on. Feedback that stays positive but fades, as the smoothed rates do once shedding has stopped,
may leave the curve short of 1, in the code as in the model; nothing is claimed of it. `HintsSettle`
needs no fairness: it says what happens once every round plans optimally from one window, if moving a
region costs anything (`switching_penalty_weight` may be 0, and then nothing holds a region).

## 4. Findings

1. *queue_capacity* (`loop_backlog`). `config.py` describes it as "Max backlog retained across
   steps." Only the retry queue is held to it; what is published faster than
   `max_batch_per_step` drains stays on the bus and is counted nowhere.
2. *Deferral past the deadline* (`loop_late_deferral`). `models.py` says a deferred request is
   carried "until served, dropped, or its deadline passes". In safe mode the loop defers every
   candidate without looking at deadlines, and `_handle_deferred` does not look either. It is
   still never served late (`NeverServedLate`, proved), as the lane and the schedulers drop it
   when it comes back.
3. *The top of the learned curve* (`curve_top`). `optimizer.py` says "the top of the curve stays
   pinned admit-all, so high-value traffic is never shed". Only a score of exactly 1.0 is pinned:
   the top bucket has a positive grade and is lowered by a congested window like all others.

Three more places where a text and the code can be read differently, without a run of their own:

* `config.py` says of `solver_time_limit_s`: "on timeout, heuristic fallback". The code falls
  back when there is no solution in time; an incumbent (`FEASIBLE`) is broadcast (`StopAtTimeLimit`).
  `PlanCoherent` shows that it can be carried out, `BudgetsWellSpent` and `MovesPayOff` hold of
  optimal plans only.
* `scarcity_while_idle` is documented as an upper bound on wasted capacity. A request dropped
  with its retry budget spent was refused for lack of room as well, but counts under
  `RETRY_BUDGET_EXHAUSTED`, which is not among the scarcity reasons.
* The balance cap of the solver leaves an assignment for five regions and two fleets however they are
  licensed (`SolverCanAnswer`), but only just: with a sixth region, five of the six licensed to
  one fleet alone, there is none and every round falls back. `Region` and `FleetId` are closed
  enumerations of that size in the code, and up to it a solution always exists (`SolverAnswers`).

## 5. Proofs

Every invariant, action property and refinement that a passing run checks is also a theorem, for
any set of requests, beams, regions, fleets and classes and any configuration that meets the named
assumptions of the modules. Only the five liveness properties are left to TLC.

| Theorems in | About | Inductive invariant |
|---|---|---|
| `ControlLoop_proofs` | the loop, `RequestLifecycle`, the report | `TypeOK`, `OnePlace`, `PhaseShape`, `NoneLost`, `CountsMatch`; `RetryInv`; `SettleInv`; `ReportInv` |
| `FleetCoverage_proofs` | breakers, `FleetFailover`, snapshots | `BreakerInv`, `SnapshotInv` |
| `StepAllocation_proofs` | lane and scheduler, `AirtimeLedger` | `StepInv` |
| `MacSchedulers_proofs` | both access models | `MacInv` |
| `SyntheticSource_proofs` | bus, source, generator | `BusInv`, `SourceInv` |
| `PlanFeedback_proofs` | heuristic planner in the loop | `FeedbackInv` |
| `Tier3_proofs` | learned curve, solver | `CurveInv`, `PlanInv` |
| `DataLemmas` | what the others cite | – |

**The control loop** (`ControlLoop_proofs`). `TypeCorrect` comes first. `OnePlace` is not
inductive alone: a stage may only empty one list into the next if the list it fills is empty, so
`PhaseShape` says which lists are empty in each phase, and the two together are inductive.
`NoneLost` (`Tracked = Published`: the union of all places is what was published) is inductive next
to them. With these three:

* `RetryQueueBounded`, `RetryBudgetKept`: `RetryInv` is inductive, because `MustDrop` is decided for
  each request against the queue as it is then.
* `NothingServedLate`: every stage that serves takes its requests from a set without expired ones.
* `SettlesWithinBound`: `SettleInv` relates the step at which a held request becomes eligible, and
  the age of one in flight, to its deferrals so far, each at the length its number gives it
  (`TimeOfDeferrals`); a held request that is due leaves the queue in the step it becomes due.
* `Conservation`: `CountsMatch` says, phase by phase, that the counters are the cardinalities of the
  outcome sets gained in this step and the totals those of earlier ones; that containers are disjoint
  (`OnePlace`) makes cardinalities add up.
* `RetryStormsAreBounded`: the counters of deferrals are the sum of `retries` over all requests, as a
  deferral raises one term of that sum by one; the bounds on budgets and queue are the two above.
* `LoopImplementsLifecycle`: a request's life is read off its container, and each action either
  moves one kind of life along an allowed edge or leaves it be.

**The report** (`ControlLoop_proofs`, last part). `StageEffect` sums up what any stage may do to the
requests it closes. By it `SettledInv` is inductive: who is closed was closed in a step, not before
it came, and for a reason its history bears out. `StepsInv` says that the recorded steps account for
the requests closed in them kind by kind, reason by reason and wait by wait. `ReportAddsUp` and
`LatenciesAsServed` follow; for the latter, the entry at a rank of the sorted waits is the least wait
that enough requests met, whatever the order of ties (`SortedAt`).

**The breakers** (`FleetCoverage_proofs`). The code keeps two numbers; the properties are about
what happened. `BreakerInv` says the numbers are the history: `failures` is the streak, and the
breaker is open iff the streak reached the threshold, until the cooldown after the last failure.
From that follow `OpenExactlyOnStreak`, `TripPerOutage`, `FailoverForCause` and
`CooldownRespected`. `BreakersImplementFailover` is the refinement of `FleetFailover`, the
specification on which liveness is checked, and `CoverageUsesBreakers` says that the configured fleets
of a run are driven by these breakers. `SnapshotsExact` needs that a fleet which raises only from
its failing step on is asked at every step until then (`SnapshotInv`), and that dealing pairs over
beams round-robin reaches every pair when there are as many beams as entries.

**The airtime of a step** (`StepAllocation_proofs`). The lane and the scheduler decide on free
airtime of their own; the properties speak of what was granted. `AirtimeInv` relates the two: in the
lane, what is left of a reserve is what was not granted; in the scheduler, what is free is what was
not granted, except on a beam that was reserved entirely and that the lane overdrew by its
tolerance. There nothing is free, and as a cost exceeds the tolerance nothing is granted, which is
why the two tolerances never add up. That gives
`BeamsNotOversubscribed` and `LaneStaysInSlice`. `AnswerInv` says where each request is; with it
follow `GrantsLegal`, `StepAnswersAll`, `DeferredFitsNowhere` and `StepImplementsLedger`.
`SpilloverFitsNowhere` and `TurnedAwayForCause` rest on monotony: what was granted, and what a region
has used, only grows, so who did not fit when visited does not fit when the call is over. The same holds
of a degraded grant: what it may take of a beam shrinks with the beam (`FreeShrinks`), and the beam with
most room left is the one that could have given it (`SomeBeamHasMost`, `DegradedFitsNowhere`).

**The MAC schedulers** (`MacSchedulers_proofs`). The table sorted by quality has every level at one
place, so the level chosen is the best one the link supports, and the RBs taken for it are the least
that carry the payload. `SlotInv` then says that the RBs a grant holds are its own and what is free is
the rest. `ContentionInv` says that the occupancy of an RB is the number of transmissions on it; the
shares of an RB, one over that number each, add up to the RB at most. It also says of whom pass 1 held
back that no beam was open to it, or that one was which even alone there it finds too small
(`HeldBackForCause`). `MacInv` puts the two together
and gives `BeamsNeverOversubscribed`, `GrantsAlwaysAsAgreed` and `AlwaysDeferredForCause`.

**Bus and source** (`SyntheticSource_proofs`). `BusInv`: the pending entries are in order of their
numbers and what was drained and what is pending are the numbers given out, so that a batch
and the rest, each in the order of publication, make up the bus again. It gives
`EntriesExactlyOnce` and `NobodyPassedOver`.
`SourceInv`: an entry belongs to no surge or was published in the step of its surge, which is
one of those generated, and a surge whose step is complete has as many entries as its `count`; so
`StepsProducedOnce`. `CrashesForCause` shows of each draw
of a validated configuration that it is defined but for the two named causes.

**The heuristic planner** (`PlanFeedback_proofs`). `FeedbackInv` says that the histories are the
last steps in order (`LastSteps`), that the plan in force was made at the last multiple of the cadence
(`FreshPlan`), that what it was made from was governed by its predecessor (`Judged`), and that each
congested or dropping observation has such a step behind it, and each of infinite utilization a step with
load but no room (`Witnessed`). It gives `JudgedOnce` and `ShedForCause`, for any clamp: a finite one keeps
the mean utilization finite and with it the floor above 0 (`MeanUtilizationBounds`, `FloorBounds`), so that
only drops take it to 0; under an infinite one a step without room does as well, and the property says so.
`FairnessWorks` needs of it that the plan was made from the present histories; the rest is arithmetic: a
smaller ratio of service to demand never gets a smaller weight, through the clamp between the two bounds,
in order or not (`BoundedMonotone`: with the bounds swapped every class gets `fairness_weight_min`), and
through two roundings.

**The learned curve and the solver** (`Tier3_proofs`). `CurveInv`: the curve lies between its floor
and one and rises with the bucket, since grading keeps the order of neighbours; backpressure keeps it
too (`AdmissionMonotone`). `PlanInv` says of what the plan in force is the solution. An optimal plan
that could serve more, or leave a region where it was, is compared with the plan changed at that one
place, which is a solution worth more: `NothingWasted`, `MovesJustified`. The former assumes
`ServedWeight > 0`; the configuration also allows 0 (its default is 1), where serving earns nothing by
itself and airtime may be left. `SolverAnswers` assumes at most five regions and two fleets, as many as
`Region` and `FleetId` have, and fails with more (section 4).

**The lemmas** (`DataLemmas`). Least elements, counting upwards, ranks in a total order, sums of
integer functions over finite sets, flattened sequences, counting by kind, division with
remainder, finite sets of functions. The provers cannot use an induction theorem that takes a
predicate, so each induction is an argument by a smallest counterexample (`LeastNatural`,
`SmallestSet`). The folds of the community modules, whose definition recurses over any enumeration of
a set, are shown to have one value that way (`SolutionExists`, `SolutionsAgree`).

**Assumptions.** The modules' `ASSUME`s give the types and ranges of constants, most of which
`config.py` validates. Beyond that:
sets of requests, beams of a step, regions, fleets and classes are finite; `PowerAssumption` is arithmetic the
provers lack (2^k is a natural number for natural k); and units divide evenly where a share or
threshold would be a fraction (`RbUnits` in `ContentionAssumption`, `Soft * Capacity` in
`SolverAssumption`), which is a choice of unit and not a restriction of the code.

**What proving changed.** Two things in the models had been too coarse for a general statement, though
right on the instances. `BeamsCoverPolicy` had asked for as many beams as pairs: a rule table may name
a pair twice, the round-robin then deals it twice, and the number that counts is that of
entries. And probabilities in whole percents rounded small ones to 0, which would have let the
heuristic planner shed a class entirely where the code never does; they are now parts of `One`, so fine
that none but 0 becomes 0.

**Only model-checked.** Liveness, which the proof system does not handle: `HealthyFleetReturns`,
`OpenGetsTrial`, `EverySurgeFires`, `ShedWhileIdleRecovers`, `HintsSettle`. And that the three
findings' properties are violated, which is a run and no theorem.

## 6. Not modelled

* The **search** OR-Tools makes, and floating-point arithmetic in general: comparisons that have a
  tolerance in the code have it in the model, others are exact.
* The heuristic planner's **airtime budgets**, which nothing reads, and the EWMA **smoothing** of the
  adaptive planner's feedback: any feedback may come. An infinite
  `fairness_weight_min`, which validation lets through as well and which makes every
  weight infinite.
* **Distributions** (Poisson, jitter): every draw is any value it may take.
* **Configuration, scenarios**: ranges of single fields appear as assumptions, the validation across
  fields is in `SyntheticSource`. Environment overrides and the scenario catalogue only choose
  constants. Nothing forbids two `FleetConfig`s of the same fleet, which would share a breaker and
  beam ids; fleets are keys in the models, which assume them distinct.
* **Events, health and pressure series, Jain's index**, the **command line** and the **dashboard**:
  output that nothing reads back.
* **Ports**: protocols without behaviour. What a tier may do is what `ControlLoop` lets it do.

## 7. Plan

What is left, in this order:

1. A loop in which the tiers are the modelled ones: `PlanFeedback` over `StepAllocation`, and the proof
   that what the tiers do is what `ControlLoop` lets them do.
2. Two configured fleets with one id, in `FleetCoverage` and `StepAllocation`.
3. The safety halves of the liveness arguments as action properties: what brings a shed bucket, or an
   open breaker, one step closer to its recovery.
