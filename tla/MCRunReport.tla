---------------------------- MODULE MCRunReport ----------------------------
(* An urgent request, one that is legal nowhere and two others, in three steps. *)
EXTENDS RunReport

CONSTANTS sos, chat, photo, map, leo

MCRequests == {sos, chat, photo, map}
MCUrgent == {sos}
MCRetryBudget == [r \in MCRequests |-> IF r = photo THEN 0 ELSE 1]
MCDeadlineSlack == [r \in MCRequests |-> IF r = photo THEN 0 ELSE IF r = sos THEN 1 ELSE 2]
MCLicensed == [r \in MCRequests |-> IF r = map THEN {} ELSE {leo}]
=============================================================================
