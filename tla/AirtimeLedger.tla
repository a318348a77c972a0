--------------------------- MODULE AirtimeLedger ---------------------------
(***************************************************************************)
(* What one step promises about airtime, whichever tiers hand it out: each *)
(* request receives airtime at most once, on a beam it is eligible for,    *)
(* and no beam gives away more than it has (up to the rounding tolerance). *)
(***************************************************************************)
EXTENDS Integers

CONSTANTS Requests, Beams,
          Limit,          \* units a beam may give away
          MayUse          \* the <<request, beam>> pairs that are allowed

VARIABLES granted, holders

Init == granted = [b \in Beams |-> 0] /\ holders = {}

Grant(r, b) ==
  /\ r \notin holders /\ <<r, b>> \in MayUse
  /\ \E units \in 1..(Limit[b] - granted[b]) :
       granted' = [granted EXCEPT ![b] = @ + units]
  /\ holders' = holders \cup {r}

Next == \E r \in Requests, b \in Beams : Grant(r, b)

Spec == Init /\ [][Next]_<<granted, holders>>
=============================================================================
