---------------------------- MODULE LearnedCurve ----------------------------
(***************************************************************************)
(* The admission curve AdaptiveOptimizer learns (optimizer.py) and how the *)
(* admission controller reads it (planning.py, admission.py), without the  *)
(* loop around them: one Learn step per planning window.                   *)
(*                                                                         *)
(* Scores are multiples of 1/ScoreTop.  Probabilities are real numbers and *)
(* are rounded down to multiples of 1/One, so that One is exactly 1.  The  *)
(* feedback, learning rate * (idle * shed - penalty * collapse) of the     *)
(* smoothed outcomes, is real too: `signal' is its whole units, of         *)
(* 2 * Buckets/One, and the fraction below one unit moves each bucket by   *)
(* some part of its grade.  Any feedback may come.                         *)
(***************************************************************************)
EXTENDS Integers, FiniteSetsExt

CONSTANTS Buckets,    \* adaptive_buckets
          One,        \* probability 1
          FloorMin,   \* adaptive_floor_min
          Signals     \* the whole units of feedback that may come

CurveAssumption ==
  /\ Buckets \in Nat \ {0} /\ One \in Nat \ {0}
  /\ FloorMin \in 0..One /\ Signals \subseteq Int

VARIABLES p,        \* the learned admit probability of each score bucket
          signal    \* whole units of the last window's feedback, 0 before there is any

Buckets1 == 1..Buckets
ScoreTop == 4 * Buckets

\* Admit everything until there is evidence.
Init == p = [i \in Buckets1 |-> One] /\ signal = 0

\* Low-score buckets move most: 2 * Buckets times (1 - midpoint of bucket i).
Grade(i) == 2 * (Buckets - i) + 1
ClampShortOfOne(x) == IF x < FloorMin THEN FloorMin ELSE IF x >= One THEN One - 1 ELSE x
Clamp(x) == IF x < FloorMin THEN FloorMin ELSE IF x > One THEN One ELSE x

\* What a fraction of a unit adds to each bucket, the fraction that rounding the
\* bucket down has hidden included: nothing, its grade, or anything between.
Parts == {part \in [Buckets1 -> 0..Grade(1)] : \A i \in Buckets1 : part[i] <= Grade(i)}

\* _learn: nudge every bucket, then keep the curve monotone in the score.
Nudged(s, part) == [i \in Buckets1 |-> Clamp(p[i] + Grade(i) * s + part[i])]
MonotoneOff(raw) == raw
Monotone(raw) == [i \in Buckets1 |-> Max({raw[j] : j \in 1..i})]

Learn ==
  \E s \in Signals, part \in Parts : signal' = s /\ p' = Monotone(Nudged(s, part))

vars == <<p, signal>>
Spec == Init /\ [][Learn]_vars
\* The loop replans again and again.
FairSpec == Spec /\ WF_vars(Learn)

\* _curve: the floor at score 0, the bucket midpoints, and (1, 1).
Curve == [k \in 0..(Buckets + 1) |->
            IF k = 0 THEN [x |-> 0, y |-> p[1]]
            ELSE IF k = Buckets + 1 THEN [x |-> ScoreTop, y |-> One]
            ELSE [x |-> 4 * k - 2, y |-> p[k]]]

\* admit_probability times 4: linear between the breakpoints around the score.
Segment(score) == CHOOSE k \in 0..Buckets : Curve[k].x <= score /\ score <= Curve[k + 1].x
AdmitProbability(score) ==
  LET lo == Curve[Segment(score)]
      hi == Curve[Segment(score) + 1]
  IN 4 * lo.y + (score - lo.x) * (4 \div (hi.x - lo.x)) * (hi.y - lo.y)

\* admit's probability under a congestion overage in percent, times 400 * ScoreTop:
\* backpressure weighs on a request by how far it is from the top score.
DampByScore(overage, score) == 100 * ScoreTop - overage * (ScoreTop - score)
Admits(score, overage) == AdmitProbability(score) * DampByScore(overage, score)

-----------------------------------------------------------------------------
\* Whatever was learned and however congested a step is, a request with a higher
\* score is never less likely to be admitted than one with a lower score.
HigherScoreNoLessLikely ==
  \A overage \in {0, 30, 100} : \A s1, s2 \in 0..ScoreTop :
    s1 <= s2 => Admits(s1, overage) <= Admits(s2, overage)

\* A burst's tightening is unlearned: if from some window on none tightens the curve,
\* and windows that shed while beams are idle keep coming, each worth at least a unit,
\* then the curve returns to admitting everything, and stays there.  Feedback that stays
\* positive but fades below every unit is no such premise: it may stall short of 1.
ShedWhileIdleRecovers ==
  <>[](signal >= 0) /\ []<>(signal >= 1) => <>[](\A i \in Buckets1 : p[i] = One)

\* optimizer.py: "the top of the curve stays pinned admit-all, so high-value
\* traffic is never shed".  Read for the top bucket, without any backpressure.
HighValueNeverShed ==
  \A score \in (ScoreTop - 2)..ScoreTop : Admits(score, 0) = 400 * ScoreTop * One
=============================================================================
