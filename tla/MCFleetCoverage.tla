-------------------------- MODULE MCFleetCoverage --------------------------
(* Two fleets over two regions, each a FakeConstellation (one that never fails *)
(* has `fail' past the last step) or a client that raises whenever it likes.   *)
EXTENDS FleetCoverage

CONSTANTS leo, nextgen, us, eu, L, Ku
MCFleets == {leo, nextgen}
MCRegions == {us, eu}
MCBands == {L, Ku}
Never == DurationSteps + 1
Client(sats, beams, online, fail, flaky) ==
  [sats |-> sats, beams |-> beams, online |-> online, fail |-> fail, flaky |-> flaky]
MCShapes == {Client(2, 2, online, fail, FALSE) : online \in {0, 2}, fail \in {1, 3, Never}}
              \cup {Client(0, 2, 0, Never, FALSE), Client(3, 1, 0, Never, FALSE),
                    Client(2, 1, 0, Never, TRUE)}
Rule(r, bs, fs) == [region |-> r, bands |-> bs, fleets |-> fs]
MCRuleTables == {
  << Rule(us, <<L, Ku>>, {leo, nextgen}), Rule(eu, <<Ku>>, {leo}) >>,
  << Rule(us, <<L>>, {leo}), Rule(eu, <<>>, {nextgen}) >>,
  << Rule(us, <<L, L, Ku>>, {leo, nextgen}) >>}
=============================================================================
