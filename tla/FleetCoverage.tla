---------------------------- MODULE FleetCoverage ----------------------------
(***************************************************************************)
(* The constellation clients (adapters/network/constellation.py) behind    *)
(* their breakers.  A fleet comes into service at one step, may fail for   *)
(* good at another, and spreads its beams over the (region, band) pairs    *)
(* the rule table licenses it for; the loop collects their snapshots.      *)
(***************************************************************************)
EXTENDS CircuitBreaker, SequencesExt

CONSTANTS Regions, Bands,   \* enum Region and Band
          Shapes,      \* clients: [sats, beams, online, fail] as FleetConfig has
                       \* them, and flaky, one that may raise at any step
          RuleTables   \* config.region_rules: sequences of [region, bands, fleets]

\* A client that never fails has a step after the last as fail.
ASSUME ShapesAssumption ==
  Shapes \subseteq [sats : Nat, beams : Nat, online : Nat, fail : Nat, flaky : BOOLEAN]

\* SimulationConfig._validate: no two rules for a region.
ASSUME RulesAssumption ==
  /\ RuleTables \subseteq Seq([region : Regions, bands : Seq(Bands), fleets : SUBSET Fleets])
  /\ \A table \in RuleTables : \A k, n \in 1..Len(table) :
       table[k].region = table[n].region => k = n

VARIABLES shape,       \* the client of each fleet
          rules,       \* the rule table of this run
          snapshot     \* beams gathered in this step

coverageVars == <<step, todo, visible, failures, openUntil, trips, streak, lastFail,
                  recoveries, shape, rules, snapshot>>

InitCoverage ==
  /\ Init
  /\ shape \in [Fleets -> Shapes]
  /\ rules \in RuleTables
  /\ snapshot = {}

\* _coverage_for_fleet: the pairs of every rule that lists the fleet, in table order.
Pairs(rule) == [k \in 1..Len(rule.bands) |-> <<rule.region, rule.bands[k]>>]
Coverage(f) ==
  FlattenSeq([k \in 1..Len(rules) |-> IF f \in rules[k].fleets THEN Pairs(rules[k]) ELSE <<>>])

\* Which pair the j-th beam of the i-th satellite illuminates (both from 0).
PairIndexPerSatellite(f, i, j) == j % Len(Coverage(f))
PairIndex(f, i, j) == (i * shape[f].beams + j) % Len(Coverage(f))

Beams(f) ==
  {[fleet |-> f, id |-> <<i, j>>, pair |-> Coverage(f)[PairIndex(f, i, j) + 1]] :
     i \in 0..shape[f].sats - 1, j \in 0..shape[f].beams - 1}

\* visible_resources raises, or answers with the beams in service, perhaps none.
OutOfServiceUnreachable(f) == step >= shape[f].fail \/ step < shape[f].online
Unreachable(f) == step >= shape[f].fail
InService(f) == step >= shape[f].online /\ Coverage(f) # <<>>

PollAnswer(f) ==
  /\ ~Unreachable(f)
  /\ Answer(f)
  /\ snapshot' = snapshot \cup IF InService(f) THEN Beams(f) ELSE {}
  /\ UNCHANGED <<shape, rules>>

PollFail(f) ==
  /\ Unreachable(f) \/ shape[f].flaky
  /\ Fail(f)
  /\ UNCHANGED <<shape, rules, snapshot>>

PollSkip(f) == Skip(f) /\ UNCHANGED <<shape, rules, snapshot>>

StartStep == NextStep /\ snapshot' = {} /\ UNCHANGED <<shape, rules>>

NextCoverage == \/ \E f \in Fleets : PollAnswer(f) \/ PollFail(f) \/ PollSkip(f)
                \/ StartStep

SpecCoverage == InitCoverage /\ [][NextCoverage]_coverageVars

-----------------------------------------------------------------------------
(* Properties *)

Gathered == todo = {}
Predictable == {f \in Fleets : ~shape[f].flaky}

\* TableRegulatoryPolicy.evaluate: what the rule of the region allows.
Legal(f, pair) ==
  \E k \in 1..Len(rules) : /\ rules[k].region = pair[1] /\ f \in rules[k].fleets
                           /\ pair[2] \in Range(rules[k].bands)

\* A gathered snapshot holds, of the fleets that fail once and for all, exactly those
\* in service at its step, whatever the other clients do: an expansion counts from
\* its very first step (a fleet not yet online answered with nothing, which no
\* breaker took for a failure), and a fleet that died is gone at once.
FleetsInService ==
  Gathered =>
    {b.fleet : b \in snapshot} \cap Predictable =
      {f \in Predictable : /\ shape[f].online <= step /\ step < shape[f].fail
                           /\ shape[f].sats > 0 /\ shape[f].beams > 0
                           /\ \E k \in 1..Len(rules) : /\ f \in rules[k].fleets
                                                       /\ rules[k].bands # <<>>}

\* The clients and the regulatory policy agree on a table they read separately: every
\* beam is legal where it shines, and a fleet with a beam for each band its rules list
\* leaves none of what is legal for it dark, however its beams divide over satellites.
BeamsCoverPolicy ==
  \A f \in {b.fleet : b \in snapshot} :
    LET lit == {b.pair : b \in {c \in snapshot : c.fleet = f}}
        legal == {p \in UNION {Range(Pairs(rules[k])) : k \in 1..Len(rules)} : Legal(f, p)}
    IN  /\ lit \subseteq legal
        /\ shape[f].sats * shape[f].beams >= Len(Coverage(f)) => lit = legal

\* The snapshot a step works on: the fleets in service, lit as the rule table allows.
SnapshotExact == FleetsInService /\ BeamsCoverPolicy
=============================================================================
