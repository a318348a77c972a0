-------------------------- MODULE MCSyntheticSource --------------------------
(* Two classes, one of weight zero; a surge in the middle step and one then, later or *)
(* past the run, of a class the mix has or lacks; regions or none; valid or not.      *)
EXTENDS SyntheticSource

CONSTANTS sos, photo, api

MCProfile(class, weight, maxSize) ==
  [class |-> class, weight |-> weight, minSize |-> 1, maxSize |-> maxSize]
MCMixes ==
  {<<MCProfile(sos, w, s), MCProfile(photo, 1 - w, 2)>> : w \in 0..1, s \in 0..1} \cup {<<>>}
MCSurge(at, count, class) == [at |-> at, count |-> count, class |-> class]
MCSurges ==
  {<<>>} \cup
  {<<MCSurge(1, 3, sos), MCSurge(at, 2, class)>> : at \in 1..DurationSteps, class \in {photo, api}}
MCCandidates ==
  [mix : MCMixes, surges : MCSurges, regions : 0..1, rateIsZero : BOOLEAN]
=============================================================================
