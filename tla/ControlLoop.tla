---------------------------- MODULE ControlLoop ----------------------------
(***************************************************************************)
(* The per-step control loop (runtime/loop.py) and every container a       *)
(* request can be in while it runs: the bus, the arrivals of a step, the   *)
(* best-effort list, the scheduler's candidates, the deferred list and the *)
(* retry queue.                                                            *)
(*                                                                         *)
(* The loop is single-threaded; `phase' is its program counter.  What the  *)
(* pluggable tiers decide (the fleets in view, the lane's reservations, the *)
(* admission draw, the scheduler's grants, the jitter) is a choice among   *)
(* all the outcomes their contracts allow.                                 *)
(***************************************************************************)
EXTENDS Naturals, FiniteSets, Sequences, SequencesExt

CONSTANTS
  Requests,        \* requests the generator may publish during the run
  Fleets,          \* the constellations
  Urgent,          \* requests whose class is in URGENT_CLASSES
  RetryBudget,     \* their class's retry_budget
  DeadlineSlack,   \* their class's deadline_slack_steps
  Licensed,        \* fleets with a legal (fleet, band) option in their region
  DurationSteps,   \* config.duration_steps
  MaxBatch,        \* config.arrival.max_batch_per_step
  QueueCapacity,   \* config.overload.queue_capacity
  BackoffBase,     \* config.overload.retry_backoff_base_steps
  BackoffMax,      \* config.overload.retry_backoff_max_steps
  LaneMaxRetries   \* config.emergency.max_retries

ASSUME RequestsAssumption ==
  /\ IsFiniteSet(Requests)
  /\ Urgent \subseteq Requests
  /\ RetryBudget \in [Requests -> Nat]
  /\ DeadlineSlack \in [Requests -> Nat]
  /\ Licensed \in [Requests -> SUBSET Fleets]

ASSUME ConfigAssumption ==
  /\ DurationSteps \in Nat \ {0}
  /\ MaxBatch \in Nat \ {0}
  /\ QueueCapacity \in Nat \ {0}
  /\ BackoffBase \in Nat
  /\ BackoffMax \in Nat \ {0}
  /\ LaneMaxRetries \in Nat

\* Powers of two are natural numbers: arithmetic the provers do not know.
ASSUME PowerAssumption ==
  \A r \in Requests : \A k \in 0..RetryBudget[r] : 2 ^ k \in Nat

Never == -1

VARIABLES
  phase,       \* the stage of ControlLoop.step about to run, or "done"
  step,        \* the step run() is executing
  visible,     \* fleets in the merged snapshot of this step
  bus,         \* InMemoryBus._pending, in publish order
  arrival,     \* arrival_step of each request, Never before it is published
  ingested,    \* history: the step each request was first drained at
  arrivals,    \* what _ingest returned
  bestEffort,  \* non-urgent arrivals and lane spillover
  candidates,  \* what _build_candidates returned
  deferred,    \* SchedulingResult.deferred still to be handled
  retryQ,      \* requests in _retry_queue
  eligible,    \* eligible_step of the entry a request last had
  retries,     \* retry_count
  mode,        \* DegradeMode of the last scheduler run
  served, dropped, rejected,  \* every request so disposed of so far
  counters,    \* this step's StepCounters
  summary      \* run()'s RunSummary

vars == <<phase, step, visible, bus, arrival, ingested, arrivals, bestEffort,
          candidates, deferred, retryQ, eligible, retries, mode, served, dropped,
          rejected, counters, summary>>

Phases == {"gather", "generate", "lane", "admit", "candidates", "schedule",
           "requeue", "done"}
Counts == [served : Nat, deferred : Nat, dropped : Nat, rejected : Nat]
NoCounts == [served |-> 0, deferred |-> 0, dropped |-> 0, rejected |-> 0]

\* c with so many more dispositions of each kind.
Tally(c, serves, defers, drops, rejects) ==
  [served |-> c.served + serves, deferred |-> c.deferred + defers,
   dropped |-> c.dropped + drops, rejected |-> c.rejected + rejects]

Pending == ToSet(bus)
InFlight == arrivals \cup bestEffort \cup candidates \cup deferred
Closed == served \cup dropped \cup rejected
Tracked == Pending \cup InFlight \cup retryQ \cup Closed
Published == {r \in Requests : arrival[r] # Never}

Smaller(a, b) == IF a <= b THEN a ELSE b
Larger(a, b) == IF a >= b THEN a ELSE b

\* ServiceRequest.is_expired at the current step.
ExpiredOneLate(r) == step > arrival[r] + DeadlineSlack[r] + 1
Expired(r) == step > arrival[r] + DeadlineSlack[r]

\* A tier can grant r airtime only on a fleet that is in view and licensed.
Grantable(r) == Licensed[r] \cap visible # {}

\* _backoff_steps before jitter: base * 2^retry_count, capped.
BackoffOfNext(k) == Smaller(BackoffMax, BackoffBase * 2 ^ (k + 1))
Backoff(k) == Smaller(BackoffMax, BackoffBase * 2 ^ k)

-----------------------------------------------------------------------------
Init ==
  /\ phase = "gather" /\ step = 0 /\ visible = {}
  /\ bus = <<>> /\ arrival = [r \in Requests |-> Never]
  /\ ingested = [r \in Requests |-> 0]
  /\ arrivals = {} /\ bestEffort = {} /\ candidates = {} /\ deferred = {}
  /\ retryQ = {} /\ eligible = [r \in Requests |-> 0]
  /\ retries = [r \in Requests |-> 0] /\ mode = "normal"
  /\ served = {} /\ dropped = {} /\ rejected = {}
  /\ counters = NoCounts /\ summary = NoCounts

\* _gather_constellation: any set of fleets may answer (see CircuitBreaker).
Gather ==
  /\ phase = "gather"
  /\ visible' \in SUBSET Fleets
  /\ phase' = "generate"
  /\ UNCHANGED <<step, bus, arrival, ingested, arrivals, bestEffort, candidates,
                 deferred, retryQ, eligible, retries, mode, served, dropped, rejected,
                 counters, summary>>

\* One iteration of DemandGenerator.generate_step: publish a fresh request.
Publish(r) ==
  /\ phase = "generate"
  /\ r \notin Published
  /\ bus' = Append(bus, r)
  /\ arrival' = [arrival EXCEPT ![r] = step]
  /\ UNCHANGED <<phase, step, visible, ingested, arrivals, bestEffort, candidates,
                 deferred, retryQ, eligible, retries, mode, served, dropped,
                 rejected, counters, summary>>

\* The retry entries _ingest re-admits, and those it holds back.
DueAfter == {r \in retryQ : eligible[r] < step}
Due == {r \in retryQ : eligible[r] <= step}
HeldForgotten == {}
Held == retryQ \ Due

\* _ingest: the oldest MaxBatch requests of the bus and every retry entry whose
\* backoff has elapsed.  Only the bus is subject to the batch limit.
Ingest ==
  LET batch == Smaller(MaxBatch, Len(bus))
      polled == ToSet(SubSeq(bus, 1, batch))
  IN /\ phase = "generate"
     /\ arrivals' = polled \cup Due
     /\ bus' = SubSeq(bus, batch + 1, Len(bus))
     /\ retryQ' = Held
     /\ ingested' = [r \in Requests |-> IF r \in polled THEN step ELSE ingested[r]]
     /\ phase' = "lane"
     /\ UNCHANGED <<step, visible, arrival, bestEffort, candidates, deferred,
                    eligible, retries, mode, served, dropped, rejected,
                    counters, summary>>

\* EmergencyLane._rank: urgent arrivals it drops before ranking the others.
LaneShed == {r \in arrivals \cap Urgent : Expired(r) \/ retries[r] > LaneMaxRetries}

\* What step() passes on as best effort: the non-urgent arrivals and the spillover.
BestEffortKeepsReserved(admitted) == arrivals \ LaneShed
BestEffort(admitted) == arrivals \ (admitted \cup LaneShed)

\* EmergencyLane.reserve and the best-effort split of step(): the lane reserves
\* for some of the viable urgent requests, and the others spill over.
Lane ==
  /\ phase = "lane"
  /\ \E admitted \in SUBSET ((arrivals \cap Urgent) \ LaneShed) :
       /\ \A r \in admitted : Grantable(r)
       /\ served' = served \cup admitted
       /\ dropped' = dropped \cup LaneShed
       /\ bestEffort' = BestEffort(admitted)
       /\ counters' = Tally(counters, Cardinality(admitted), 0, Cardinality(LaneShed), 0)
  /\ arrivals' = {}
  /\ phase' = "admit"
  /\ UNCHANGED <<step, visible, bus, arrival, ingested, candidates, deferred, retryQ,
                 eligible, retries, mode, rejected, summary>>

\* AdmissionController.admit: any subset of the best-effort list is shed.
Admit ==
  /\ phase = "admit"
  /\ \E shed \in SUBSET bestEffort :
       /\ rejected' = rejected \cup shed
       /\ bestEffort' = bestEffort \ shed
       /\ counters' = Tally(counters, 0, 0, 0, Cardinality(shed))
  /\ phase' = "candidates"
  /\ UNCHANGED <<step, visible, bus, arrival, ingested, arrivals, candidates,
                 deferred, retryQ, eligible, retries, mode, served, dropped, summary>>

\* _build_candidates: requests without a legal option are rejected.
BuildCandidates ==
  LET noLegal == {r \in bestEffort : Licensed[r] = {}}
  IN /\ phase = "candidates"
     /\ candidates' = bestEffort \ noLegal
     /\ rejected' = rejected \cup noLegal
     /\ counters' = Tally(counters, 0, 0, 0, Cardinality(noLegal))
     /\ bestEffort' = {}
     /\ phase' = "schedule"
     /\ UNCHANGED <<step, visible, bus, arrival, ingested, arrivals, deferred, retryQ,
                    eligible, retries, mode, served, dropped, summary>>

\* The contract of ResourceScheduler.schedule: it drops what has expired, grants
\* airtime to some of the rest and defers the others.
Schedule(scheduler) ==
  LET late == {r \in candidates : Expired(r)}
  IN /\ phase = "schedule"
     /\ \E granted \in SUBSET (candidates \ late) :
          /\ \A r \in granted : Grantable(r)
          /\ served' = served \cup granted
          /\ deferred' = candidates \ (granted \cup late)
          /\ counters' = Tally(counters, Cardinality(granted), 0, Cardinality(late), 0)
     /\ dropped' = dropped \cup late
     /\ candidates' = {}
     /\ mode' = scheduler
     /\ phase' = "requeue"
     /\ UNCHANGED <<step, visible, bus, arrival, ingested, arrivals, bestEffort, retryQ,
                    eligible, retries, rejected, summary>>

\* Both schedulers raised: safe mode defers every candidate, late or not.
ScheduleSafe ==
  /\ phase = "schedule"
  /\ deferred' = candidates
  /\ candidates' = {}
  /\ mode' = "safe"
  /\ phase' = "requeue"
  /\ UNCHANGED <<step, visible, bus, arrival, ingested, arrivals, bestEffort, retryQ,
                 eligible, retries, served, dropped, rejected, counters, summary>>

\* _run_scheduler: the primary, the fallback when it raises, then safe mode.
RunScheduler == Schedule("normal") \/ Schedule("fallback") \/ ScheduleSafe

\* _handle_deferred drops r: its budget is spent, or the retry queue is full.
MustDropAtBudget(r) == retries[r] >= RetryBudget[r]
MustDropBudgetOff(r) == retries[r] > RetryBudget[r] \/ Cardinality(retryQ) >= QueueCapacity
MustDrop(r) == retries[r] >= RetryBudget[r] \/ Cardinality(retryQ) >= QueueCapacity

DropDeferred(r) ==
  /\ phase = "requeue" /\ r \in deferred
  /\ MustDrop(r)
  /\ dropped' = dropped \cup {r}
  /\ deferred' = deferred \ {r}
  /\ counters' = Tally(counters, 0, 0, 1, 0)
  /\ UNCHANGED <<phase, step, visible, bus, arrival, ingested, arrivals, bestEffort,
                 candidates, retryQ, eligible, retries, mode, served, rejected,
                 summary>>

\* retry_count of the re-queued copy of r.
RetryCountKept(r) == retries[r]
NextRetryCount(r) == retries[r] + 1

\* _handle_deferred re-queues r, to be re-admitted once its backoff has elapsed.
Requeue(r) ==
  /\ phase = "requeue" /\ r \in deferred
  /\ ~MustDrop(r)
  /\ retryQ' = retryQ \cup {r}
  /\ deferred' = deferred \ {r}
  /\ \E jitter \in 0..BackoffBase :
       eligible' = [eligible EXCEPT ![r] = step + Backoff(retries[r]) + jitter]
  /\ retries' = [retries EXCEPT ![r] = NextRetryCount(r)]
  /\ counters' = Tally(counters, 0, 1, 0, 0)
  /\ UNCHANGED <<phase, step, visible, bus, arrival, ingested, arrivals, bestEffort,
                 candidates, mode, served, dropped, rejected, summary>>

\* run() has another step after this one.
AnotherStepInclusive == step + 1 <= DurationSteps
AnotherStep == step + 1 < DurationSteps

\* The end of step() and of an iteration of run().
FinishStep ==
  /\ phase = "requeue" /\ deferred = {}
  /\ summary' = Tally(summary, counters.served, counters.deferred,
                      counters.dropped, counters.rejected)
  /\ counters' = NoCounts
  /\ visible' = {}
  /\ step' = step + 1
  /\ phase' = IF AnotherStep THEN "gather" ELSE "done"
  /\ UNCHANGED <<bus, arrival, ingested, arrivals, bestEffort, candidates,
                 deferred, retryQ, eligible, retries, mode, served, dropped,
                 rejected>>

Next ==
  \/ Gather
  \/ \E r \in Requests : Publish(r)
  \/ Ingest
  \/ Lane
  \/ Admit
  \/ BuildCandidates
  \/ RunScheduler
  \/ \E r \in Requests : DropDeferred(r)
  \/ \E r \in Requests : Requeue(r)
  \/ FinishStep

Spec == Init /\ [][Next]_vars

-----------------------------------------------------------------------------
(* Properties *)

\* TYPE INVARIANT.  Every container holds requests, every counter is a natural
\* number, and the clock never leaves range(duration_steps) before the run ends.
TypeOK ==
  /\ phase \in Phases /\ step \in 0..DurationSteps /\ visible \subseteq Fleets
  /\ phase = "done" <=> step = DurationSteps
  /\ bus \in Seq(Requests)
  /\ arrival \in [Requests -> Nat \cup {Never}] /\ ingested \in [Requests -> Nat]
  /\ arrivals \subseteq Requests /\ bestEffort \subseteq Requests
  /\ candidates \subseteq Requests /\ deferred \subseteq Requests
  /\ retryQ \subseteq Requests
  /\ eligible \in [Requests -> Nat] /\ retries \in [Requests -> Nat]
  /\ mode \in {"normal", "fallback", "safe"}
  /\ served \subseteq Requests /\ dropped \subseteq Requests
  /\ rejected \subseteq Requests
  /\ counters \in Counts /\ summary \in Counts

\* A request is in one place at most, and once only on the bus: no stage hands a
\* request to two successors (a lane admission that is also scheduled, a retry
\* that is also dropped), whatever the tiers decide.
OnePlace ==
  /\ Pending \cap (InFlight \cup retryQ \cup Closed) = {}
  /\ arrivals \cap (bestEffort \cup candidates \cup deferred \cup retryQ \cup Closed) = {}
  /\ bestEffort \cap (candidates \cup deferred \cup retryQ \cup Closed) = {}
  /\ candidates \cap (deferred \cup retryQ \cup Closed) = {}
  /\ deferred \cap (retryQ \cup Closed) = {}
  /\ retryQ \cap Closed = {}
  /\ served \cap (dropped \cup rejected) = {} /\ dropped \cap rejected = {}
  /\ IsInjective(bus)

\* No stage forgets a request: whatever was published is still somewhere.
NoneLost == Tracked = Published

\* Between steps nothing is in flight, and the totals run() reports add up with
\* the two backlogs to the number of requests published: no stage loses a
\* request, and none is counted under two outcomes.
CountersConserve ==
  phase \in {"gather", "done"} =>
    /\ InFlight = {}
    /\ summary.served + summary.dropped + summary.rejected
         + Cardinality(retryQ) + Len(bus) = Cardinality(Published)

\* The retry queue never outgrows queue_capacity, though any number of entries
\* may become due and be deferred again in one step.
QueueBounded == Cardinality(retryQ) <= QueueCapacity

\* The deferrals the run reports are exactly those its requests went through, and
\* no request goes through more than its budget, nor does the retry queue ever hold
\* more than it may: a retry storm is bounded.
RetriesWithinBudget == \A r \in Requests : retries[r] <= RetryBudget[r]
RetryStormBounded ==
  /\ RetriesWithinBudget /\ QueueBounded
  /\ summary.deferred + counters.deferred
       = SumFunctionOnSet(retries, Requests)

\* The first deferral costs at most the base backoff and the jitter, each further one
\* doubles the backoff up to the cap; and none costs less than the step it happens in.
DeferralCost(k) == Larger(1, Smaller(BackoffMax, BackoffBase * 2 ^ k) + BackoffBase)
DeferralTime(n) == SumFunctionOnSet([k \in 0..(n - 1) |-> DeferralCost(k)], 0..(n - 1))

\* Once drained from the bus, a request settles or the run ends within a time
\* fixed by the configuration: at every step it is still open, its age is at most
\* what its deferrals so far can account for, each at the length its number gives it.
SettleBy(r) == ingested[r] + DeferralTime(retries[r])
SettlesInTime == \A r \in InFlight \cup retryQ : step <= SettleBy(r)

\* Nothing is ever served past its deadline, in any degrade mode, however often
\* it was deferred or however long it waited on the bus.
NeverServedLate ==
  [][\A r \in served' \ served : step <= arrival[r] + DeadlineSlack[r]]_vars

\* Every request lives the life RequestLifecycle promises.
Life == [r \in Requests |->
          CASE r \in Pending -> "queued"
            [] r \in InFlight -> "deciding"
            [] r \in retryQ -> "held"
            [] r \in served -> "served"
            [] r \in dropped -> "dropped"
            [] r \in rejected -> "rejected"
            [] OTHER -> "unborn"]
Lifecycle == INSTANCE RequestLifecycle WITH life <- Life, tries <- retries
RefinesLifecycle == Lifecycle!Spec

\* config.py calls queue_capacity the "Max backlog retained across steps".
BacklogWithinCapacity ==
  phase = "gather" => Cardinality(retryQ) + Len(bus) <= QueueCapacity

\* models.py says a request may be "carried to a later step [...] until served,
\* dropped, or its deadline passes".
NotCarriedPastDeadline ==
  [][\A r \in retryQ' \ retryQ : ~Expired(r)]_vars
=============================================================================
