--------------------------- MODULE MCPlanFeedback ---------------------------
(* An urgent class of small requests and a best-effort class of large ones; the *)
(* default tuning, and one without a clamp whose fairness bounds are swapped.   *)
EXTENDS PlanFeedback

CONSTANTS sos, api
MCClasses == {sos, api}
MCUrgent == {sos}
MCUnits == [c \in MCClasses |-> IF c = sos THEN 1 ELSE 2]
MCTunings ==
  {[clamp |-> 1000, fairMin |-> 50, fairMax |-> 150],
   [clamp |-> Infinite, fairMin |-> 150, fairMax |-> 50]}
MCPriority == [c \in MCClasses |-> IF c = sos THEN 6 ELSE 0]
MCPatience == [c \in MCClasses |-> IF c = sos THEN 2 ELSE 0]
=============================================================================
