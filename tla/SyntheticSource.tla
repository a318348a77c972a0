--------------------------- MODULE SyntheticSource ---------------------------
(***************************************************************************)
(* SyntheticRequestSource (adapters/io/request_source.py) over a bus that  *)
(* other producers may share: each poll has DemandGenerator (demand.py)    *)
(* produce the demand of every step not produced yet, then drains a batch. *)
(* Polls come at any steps, repeated or with gaps; the generator follows a *)
(* configuration that passed the validation of config.py.                  *)
(*                                                                         *)
(* A request carries its class, its step and the surge it belongs to, 0    *)
(* for baseline demand.  Its region, size, link and urgency are left out,  *)
(* but for what makes sampling one of them fail.                           *)
(***************************************************************************)
EXTENDS InMemoryBus

CONSTANTS
  TrafficClasses,  \* enum TrafficClass
  DurationSteps,   \* config.duration_steps
  Candidates,      \* configurations somebody may write
  MaxLag,          \* bound: steps until an entry of another producer is visible
  MaxForeign,      \* bound: entries other producers publish
  MaxBaseline      \* bound: baseline arrivals of a step

ASSUME SourceAssumption ==
  DurationSteps \in Nat \ {0} /\ MaxLag \in Nat /\ MaxForeign \in Nat /\ MaxBaseline \in Nat

\* The types of config.py; what its validation adds is Valid, below.
ASSUME CandidatesAssumption ==
  Candidates \subseteq
    [mix : Seq([class : TrafficClasses, weight : Nat, minSize : Nat, maxSize : Nat]),
     surges : Seq([at : Nat, count : Nat \ {0}, class : TrafficClasses]),
     regions : Nat, rateIsZero : BOOLEAN]

VARIABLES
  config,             \* the configuration of the run
  generatedThrough,   \* _generated_through
  pc                  \* "idle", "polling", or "crashed" by an exception

vars == <<busVars, config, generatedThrough, pc>>

-----------------------------------------------------------------------------
(* A configuration: mix, the profiles in configuration order; surges; the  *)
(* number of regions with a rule; and whether the baseline rate is zero.   *)

ClassesOf(cfg) == {cfg.mix[i].class : i \in DOMAIN cfg.mix}

\* ClassProfile._check_sizes and SimulationConfig._validate.
SurgeWithinOff(cfg) == TRUE
SurgeWithin(cfg) == \A k \in DOMAIN cfg.surges : cfg.surges[k].at < DurationSteps
SizesOrderedOff(cfg) == TRUE
SizesOrdered(cfg) == \A i \in DOMAIN cfg.mix : cfg.mix[i].minSize <= cfg.mix[i].maxSize
Valid(cfg) ==
  SizesOrdered(cfg) /\ SurgeWithin(cfg) /\ \E i \in DOMAIN cfg.mix : cfg.mix[i].weight > 0

Init ==
  /\ BusInit /\ pc = "idle" /\ generatedThrough = -1
  /\ config \in {cfg \in Candidates : Valid(cfg)}

-----------------------------------------------------------------------------
(* DemandGenerator.generate_step *)

\* weighted_choice: a class of positive weight; the first when the draw is exactly 0,
\* and the last when rounding keeps the running sum below the threshold.
Drawable ==
  {config.mix[i].class :
     i \in {j \in DOMAIN config.mix : config.mix[j].weight > 0} \cup {1, Len(config.mix)}}

\* Requests of step s: baseline ones of the classes drawn, then each surge due.
Request(class, s, surge) == [class |-> class, arrival |-> s, surge |-> surge]
Baseline(s, draws) == [i \in DOMAIN draws |-> Request(draws[i], s, 0)]
Due(k, s) == config.surges[k].at = s
Surge(k, s) ==
  [i \in 1..(IF Due(k, s) THEN config.surges[k].count ELSE 0) |->
     Request(config.surges[k].class, s, k)]
Produced(s, draws) ==
  Baseline(s, draws) \o FlattenSeq([k \in DOMAIN config.surges |-> Surge(k, s)])

\* Sampling fails for a class without profile, from an empty range of sizes, and for
\* baseline demand when there is no region to draw.  What was published stays.
Samples(request) ==
  /\ \E i \in DOMAIN config.mix :
       config.mix[i].class = request.class /\ config.mix[i].minSize <= config.mix[i].maxSize
  /\ request.surge = 0 => config.regions > 0
Fails(request) == ~Samples(request)
FirstFailure(requests) == SelectInSeq(requests, Fails)
Published(requests) ==
  IF FirstFailure(requests) = 0 THEN requests
  ELSE SubSeq(requests, 1, FirstFailure(requests) - 1)

-----------------------------------------------------------------------------
(* SyntheticRequestSource.poll *)

Poll ==
  /\ pc = "idle" /\ pc' = "polling"
  /\ UNCHANGED <<busVars, config, generatedThrough>>

\* One more step is produced, until this one is.
NextToProduceLatest == step
NextToProduce == generatedThrough + 1
Generate ==
  /\ pc = "polling" /\ generatedThrough < step
  /\ generatedThrough' = NextToProduce
  /\ \E draws \in BoundedSeq(Drawable, IF config.rateIsZero THEN 0 ELSE MaxBaseline) :
       LET requests == Produced(NextToProduce, draws)
       IN  /\ PublishAll(Published(requests), NextToProduce)
           /\ pc' = IF FirstFailure(requests) = 0 THEN "polling" ELSE "crashed"
  /\ UNCHANGED config

DrainBatch ==
  /\ pc = "polling" /\ generatedThrough >= step
  /\ Drain /\ pc' = "idle"
  /\ UNCHANGED <<config, generatedThrough>>

\* Another producer of the bus; its entry is no request of the generator's.
Foreign == [class |-> "foreign", arrival |-> step, surge |-> 0]
ForeignEntries == {e \in Entries : e.request.class = "foreign"}
PublishForeign ==
  /\ pc = "idle" /\ Cardinality(ForeignEntries) < MaxForeign
  /\ \E lag \in 0..MaxLag : PublishAll(<<Foreign>>, step + lag)
  /\ UNCHANGED <<config, generatedThrough, pc>>

\* The run ends with the step before DurationSteps.
Tick ==
  /\ pc = "idle" /\ step < DurationSteps - 1
  /\ step' = step + 1
  /\ UNCHANGED <<seq, pending, drained, config, generatedThrough, pc>>

Next == Poll \/ Generate \/ DrainBatch \/ PublishForeign \/ Tick

\* The consumer polls again and again, and not forever within one step.
Spec ==
  /\ Init /\ [][Next]_vars
  /\ WF_vars(Poll) /\ WF_vars(Generate) /\ WF_vars(DrainBatch) /\ SF_vars(Tick)

-----------------------------------------------------------------------------
OfSurge(k) == {e \in Entries : e.request.surge = k}

\* However polls are spaced or repeated, the demand of a step is produced once and
\* becomes visible at that step: each surge is on the bus, or was drained, in full
\* from its own step on and not before; only a crash in its step cuts one short.
DemandOncePerStep ==
  /\ \A k \in DOMAIN config.surges :
       LET surge == config.surges[k]
       IN  /\ \A e \in OfSurge(k) : e.request.arrival = surge.at /\ e.available = surge.at
           /\ Cardinality(OfSurge(k)) =
                IF surge.at < generatedThrough \/ (surge.at = generatedThrough /\ pc # "crashed")
                THEN surge.count
                ELSE IF surge.at > generatedThrough THEN 0 ELSE Cardinality(OfSurge(k))
  /\ \A e \in Entries : e.request.arrival <= step

\* The validation is enough for all but this: a run that crashes has a surge of a class
\* without profile, due by now, or demand but no region.
CrashForCause ==
  pc = "crashed" =>
    \/ \E k \in DOMAIN config.surges :
         config.surges[k].at = generatedThrough /\ config.surges[k].class \notin ClassesOf(config)
    \/ config.regions = 0 /\ ~config.rateIsZero

\* A run that lasts as long as configured injects every surge it was configured with.
EverySurgeFires ==
  <>(\/ pc = "crashed"
     \/ \A k \in DOMAIN config.surges :
          Cardinality({i \in DOMAIN drained : drained[i].request.surge = k})
            + Cardinality({i \in DOMAIN pending : pending[i].request.surge = k})
          = config.surges[k].count)

\* A poll passes over a visible entry only when it returns a full batch of entries
\* published before it: the bus is FIFO among visible entries, uses its batches up, and
\* makes an entry wait for no more polls than those before it can fill.
PassedOverForCause ==
  [][pc = "polling" /\ pc' = "idle" =>
       \A e \in ToSet(pending) :
         e.available <= step /\ e.seq \in SeqsOf(pending') =>
           Cardinality({d \in SeqsOf(drained') \ SeqsOf(drained) : d < e.seq}) = MaxBatch]_vars
=============================================================================
