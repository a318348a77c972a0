--------------------------- MODULE MCLearnedCurve ---------------------------
(* Three buckets; feedback that tightens strongly or weakly, and loosens. *)
EXTENDS LearnedCurve

MCSignals == {-3, -1, 0, 1, 2}
=============================================================================
