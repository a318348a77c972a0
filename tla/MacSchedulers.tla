--------------------------- MODULE MacSchedulers ---------------------------
(***************************************************************************)
(* The MAC scheduler of a run, as _build_scheduler (runtime/loop.py) picks *)
(* it from the configuration, and what the loop may rely on whichever it   *)
(* is: one call of schedule() on the same candidates and beams.            *)
(***************************************************************************)
EXTENDS SlotMac, ContentionMac

VARIABLE kind   \* config.scheduler

vars == <<size, quality, kind, queue, served, deferred, dropped, slotVars, contentionVars>>

Init == kind \in {"slot_mac", "contention_mac"} /\ GridInit /\ SlotInit /\ ContentionInit

Next ==
  /\ UNCHANGED kind
  /\ \/ kind = "slot_mac" /\ SlotNext /\ UNCHANGED contentionVars
     \/ kind = "contention_mac" /\ ContentionNext /\ UNCHANGED slotVars
Spec == Init /\ [][Next]_vars

-----------------------------------------------------------------------------
\* No beam gives away more than it has: granted RBs are disjoint, and the airtime of
\* RBs that several UEs share adds up to no more than those RBs.
BeamNotOversubscribed ==
  IF kind = "slot_mac" THEN GridConserved ELSE AirtimeShared

\* What a served request gets is what its link needs, or less for a class that
\* accepts it, and never more than its region's rule or the request cap allows.
GrantsAsAgreed ==
  IF kind = "slot_mac"
  THEN PayloadCarried /\ AirtimeWithinRegulation
  ELSE WinnersWithinCaps

\* Nobody is deferred without need.  Under granted access it does not fit any more when
\* all others are placed.  Under random access it transmitted and met a crowd on one of
\* its RBs, or it did not, and then it had no beam or one too small for it to begin with.
DeferredForCause ==
  IF kind = "slot_mac" THEN DeferredDoesNotFit ELSE CollisionsDecide /\ HeldBackForCause
=============================================================================
