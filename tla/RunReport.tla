----------------------------- MODULE RunReport -----------------------------
(***************************************************************************)
(* What a run reports: the reason each request is turned away for          *)
(* (loop.py, emergency.py, admission.py, scheduler.py), the StepCounters   *)
(* InMemoryTelemetrySink keeps of each step, and what experiment.py and    *)
(* the command line compute from them.                                     *)
(***************************************************************************)
EXTENDS ControlLoop, Integers

VARIABLES
  reason,     \* RejectReason of the RejectedRequest a request was turned away with
  settledAt,  \* history: the step it was served or turned away in
  steps       \* the sink's steps

reportVars == <<vars, reason, settledAt, steps>>

Reasons == {"admission_shed", "no_legal_option", "no_capacity", "deadline_missed",
            "retry_budget_exhausted", "emergency_lane_full"}
None == "none"

ReportInit ==
  /\ Init /\ reason = [r \in Requests |-> None]
  /\ settledAt = [r \in Requests |-> Never] /\ steps = <<>>

\* The reason each stage turns r away for.
LaneReason(r) == IF Expired(r) THEN "deadline_missed" ELSE "retry_budget_exhausted"
RequeueReason(r) ==
  IF retries[r] >= RetryBudget[r] THEN "retry_budget_exhausted" ELSE "no_capacity"
ReasonFor(r) ==
  CASE phase = "lane" -> LaneReason(r)
    [] phase = "admit" -> "admission_shed"
    [] phase = "candidates" -> "no_legal_option"
    [] phase = "schedule" -> "deadline_missed"
    [] phase = "requeue" -> RequeueReason(r)

TurnedAway == dropped \cup rejected
Stage ==
  /\ Gather \/ Ingest \/ Lane \/ Admit \/ BuildCandidates \/ RunScheduler
     \/ \E r \in Requests : Publish(r) \/ DropDeferred(r) \/ Requeue(r)
  /\ reason' = [r \in Requests |-> IF r \in TurnedAway' \ TurnedAway THEN ReasonFor(r) ELSE reason[r]]
  /\ settledAt' = [r \in Requests |-> IF r \in Closed' \ Closed THEN step ELSE settledAt[r]]
  /\ UNCHANGED steps

\* _build_counters: rejected_by_reason counts drops and rejections alike, and the wait
\* of a served request runs from its first arrival.
SettledNow == {r \in Closed : settledAt[r] = step}
ReasonCountsOfDrops == [x \in Reasons |-> Cardinality({r \in SettledNow \cap dropped : reason[r] = x})]
ReasonCounts == [x \in Reasons |-> Cardinality({r \in SettledNow : reason[r] = x})]
Wait(r) == Larger(0, step - arrival[r])
Waits == LET now == SetToSeq(SettledNow \cap served) IN [i \in DOMAIN now |-> Wait(now[i])]

\* The utilization of a step is below _SPARE_UTILIZATION or not; it is when nobody was
\* served.
Spare == {TRUE, SettledNow \cap served = {}}
Record ==
  /\ FinishStep
  /\ \E spare \in Spare :
       steps' = Append(steps, [counts |-> counters, reasons |-> ReasonCounts,
                               waits |-> Waits, spare |-> spare])
  /\ UNCHANGED <<reason, settledAt>>

ReportNext == Stage \/ Record
ReportSpec == ReportInit /\ [][ReportNext]_reportVars

-----------------------------------------------------------------------------
(* experiment.py and _print_aggregates, over the recorded steps. *)

\* disposition_series and rejection_reason_totals, summed up.
Totals ==
  [kind \in DOMAIN NoCounts |-> SumFunction([i \in DOMAIN steps |-> steps[i].counts[kind]])]
ReasonTotals == [x \in Reasons |-> SumFunction([i \in DOMAIN steps |-> steps[i].reasons[x]])]
OfReasons(xs) == SumFunctionOnSet(ReasonTotals, xs)

\* latency_percentiles: nearest rank in the sorted waits, 0 without any.
Place(ns, i) == Cardinality({j \in DOMAIN ns : ns[j] < ns[i] \/ (ns[j] = ns[i] /\ j <= i)})
Sorted(ns) == [k \in DOMAIN ns |-> ns[CHOOSE i \in DOMAIN ns : Place(ns, i) = k]]
AllWaits == FlattenSeq([i \in DOMAIN steps |-> steps[i].waits])
SortedWaits == Sorted(AllWaits)
NearestRankDown(pct, n) == Larger(1, (pct * n) \div 100)
NearestRank(pct, n) == Larger(1, (pct * n + 99) \div 100)
Percentile(pct) == IF SortedWaits = <<>> THEN 0 ELSE SortedWaits[NearestRank(pct, Len(SortedWaits))]

\* capacity_slack_summary
ByDesign == {"admission_shed", "no_legal_option"}
Scarcity == {"no_capacity", "deadline_missed"}
ScarcityWhileIdle ==
  SumFunction([i \in DOMAIN steps |->
                 IF steps[i].spare THEN SumFunctionOnSet(steps[i].reasons, Scarcity) ELSE 0])

-----------------------------------------------------------------------------
\* The report of a run, taken step by step, is the report of its requests: the recorded
\* steps add up to the RunSummary, every request that was turned away appears under one
\* reason that its own history bears out, and what is called by design or scarcity is.
ReportReconciles ==
  phase \in {"gather", "done"} =>
    /\ Totals = summary /\ Len(steps) = step
    /\ OfReasons(Reasons) = Cardinality(dropped \cup rejected)
    /\ OfReasons(ByDesign) = Cardinality(rejected)
    /\ ReasonTotals["deadline_missed"]
         <= Cardinality({r \in dropped : settledAt[r] > arrival[r] + DeadlineSlack[r]})
    /\ ReasonTotals["retry_budget_exhausted"]
         <= Cardinality({r \in dropped : retries[r] >= Smaller(RetryBudget[r], LaneMaxRetries + 1)})
    /\ ReasonTotals["emergency_lane_full"] = 0
    /\ ScarcityWhileIdle <= Cardinality(dropped)

\* A latency percentile is the least wait within which that share of the served
\* requests was served, over the whole run; and no percentile exceeds the deadlines.
WithinWait(w) == Cardinality({r \in served : settledAt[r] - arrival[r] <= w})
LatencyAsServed ==
  phase \in {"gather", "done"} /\ served # {} =>
    \A pct \in {50, 95, 99} :
      /\ 100 * WithinWait(Percentile(pct)) >= pct * Cardinality(served)
      /\ 100 * WithinWait(Percentile(pct) - 1) < pct * Cardinality(served)
      /\ \E r \in served : Percentile(pct) <= DeadlineSlack[r]
=============================================================================
