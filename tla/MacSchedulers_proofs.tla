------------------------ MODULE MacSchedulers_proofs ------------------------
(***************************************************************************)
(* What the loop relies on in a MAC scheduler, for any requests, beams,    *)
(* grids, MCS tables, caps, sizes and link qualities.                      *)
(***************************************************************************)
EXTENDS MacSchedulers, DataLemmas, SequenceTheorems

-----------------------------------------------------------------------------
(* Sorting the MCS table *)

LevelOrder == {p \in Levels \X Levels : Before(p[1], p[2])}
Place(i) == Cardinality({j \in Levels : Before(j, i)})
Top == Len(McsTable)

LEMMA LevelsOfTable ==
  /\ Top \in Nat \ {0} /\ Levels = 1..Top /\ IsFiniteSet(Levels) /\ Cardinality(Levels) = Top
  /\ \A i \in Levels : McsTable[i].min \in 0..100 /\ McsTable[i].bits \in Nat \ {0}
<1>1. Top \in Nat \ {0} /\ Levels = 1..Top
  BY LinkAssumption DEF Top, Levels
<1>2. IsFiniteSet(1..Top) /\ Cardinality(1..Top) = Top
  BY <1>1, FS_Interval
<1>3. ASSUME NEW i \in Levels PROVE McsTable[i] \in [min : 0..100, bits : Nat \ {0}]
  <2> DEFINE row == [min : 0..100, bits : Nat \ {0}]
  <2>1. McsTable \in Seq(row) /\ i \in 1..Len(McsTable)
    BY <1>1, LinkAssumption DEF Top
  <2> HIDE DEF row
  <2>2. McsTable[i] \in row
    BY <2>1, ElementOfSeq
  <2> QED BY <2>2 DEF row
<1>4. \A i \in Levels : McsTable[i].min \in 0..100 /\ McsTable[i].bits \in Nat \ {0}
  BY <1>3
<1> QED BY <1>1, <1>2, <1>4

\* The table's order is total: by threshold, then by position.
LEMMA BeforeIsTotal ==
  /\ \A i \in Levels : Before(i, i)
  /\ \A i, j \in Levels : Before(i, j) \/ Before(j, i)
  /\ \A i, j \in Levels : Before(i, j) /\ Before(j, i) => i = j
  /\ \A i, j, k \in Levels : Before(i, j) /\ Before(j, k) => Before(i, k)
<1> DEFINE least(i) == McsTable[i].min
<1>1. \A i \in Levels : least(i) \in Int /\ i \in Int
  <2> SUFFICES ASSUME NEW i \in Levels PROVE McsTable[i].min \in Int /\ i \in Int
    OBVIOUS
  <2>1. McsTable[i].min \in 0..100 /\ i \in 1..Top /\ Top \in Nat
    BY LevelsOfTable
  <2> QED BY <2>1
<1>2. ASSUME NEW i \in Levels, NEW j \in Levels
      PROVE  Before(i, j) <=> (least(i) < least(j) \/ (least(i) = least(j) /\ i <= j))
  BY DEF Before
<1> HIDE DEF least
<1> QED BY <1>1, <1>2

\* The ranks of the levels are the places of the sorted table.
LEMMA PlacesOrder ==
  /\ \A i \in Levels : Place(i) \in 1..Top
  /\ \A i, j \in Levels : Before(i, j) <=> Place(i) <= Place(j)
  /\ \A i, j \in Levels : Place(i) = Place(j) => i = j
  /\ \A k \in 1..Top : \E i \in Levels : Place(i) = k
<1>1. \A i, j \in Levels : <<i, j>> \in LevelOrder <=> Before(i, j)
  BY DEF LevelOrder
<1>2. \A i \in Levels : {j \in Levels : <<j, i>> \in LevelOrder} = {j \in Levels : Before(j, i)}
  BY <1>1
<1>3. \A i \in Levels : Rank(i, Levels, LevelOrder) = Place(i)
  BY <1>2, Zenon DEF Rank, Place
<1>4. IsTotalOrder(Levels, LevelOrder)
  BY <1>1, BeforeIsTotal DEF IsTotalOrder
<1>5. IsFiniteSet(Levels) /\ Cardinality(Levels) = Top
  BY LevelsOfTable
<1>6. /\ \A i \in Levels : Rank(i, Levels, LevelOrder) \in 1..Top
      /\ \A i, j \in Levels :
           <<i, j>> \in LevelOrder <=> Rank(i, Levels, LevelOrder) <= Rank(j, Levels, LevelOrder)
      /\ \A i, j \in Levels : Rank(i, Levels, LevelOrder) = Rank(j, Levels, LevelOrder) => i = j
  BY <1>4, <1>5, RanksOrder
<1>7. \A k \in 1..Top : \E i \in Levels : Rank(i, Levels, LevelOrder) = k
  BY <1>4, <1>5, EveryRankTaken
<1> QED BY <1>1, <1>3, <1>6, <1>7, ZenonT(60)

\* The ladder holds each level at its place.
LEMMA LadderSorted ==
  /\ DOMAIN Ladder = 1..Top
  /\ \A i \in Levels : Ladder[Place(i)] = McsTable[i]
<1>1. DOMAIN Ladder = 1..Top
  BY LevelsOfTable DEF Ladder
<1>2. ASSUME NEW i \in Levels PROVE Ladder[Place(i)] = McsTable[i]
  <2> DEFINE at == CHOOSE j \in Levels : Place(j) = Place(i)
  <2>1. at \in Levels /\ Place(at) = Place(i)
    OBVIOUS
  <2>2. at = i
    BY <2>1, PlacesOrder
  <2>3. Ladder[Place(i)] = McsTable[at]
    BY LevelsOfTable, PlacesOrder DEF Ladder, Place
  <2> QED BY <2>2, <2>3
<1> QED BY <1>1, <1>2

\* The level a link of quality q is used at, as the properties have it.
Fits(q) == {i \in Levels : McsTable[i].min <= q \/ \A j \in Levels : Before(i, j)}
IsTopFit(i, q) == i \in Fits(q) /\ \A j \in Fits(q) : Before(j, i)

LEMMA EfficiencyOfTopFit ==
  ASSUME NEW q \in Int
  PROVE  \E i \in Levels : IsTopFit(i, q) /\ SpectralEfficiency(q) = McsTable[i].bits
<1>1. CASE Supported(q) = {}
  <2>1. PICK i \in Levels : Place(i) = 1
    BY PlacesOrder, LevelsOfTable
  <2>2. \A j \in Levels : Before(i, j)
    BY <2>1, PlacesOrder, LevelsOfTable
  <2>3. ASSUME NEW j \in Fits(q) PROVE j = i
    <3>1. j \in Levels /\ Place(j) \in DOMAIN Ladder
      BY PlacesOrder, LadderSorted DEF Fits
    <3>2. ~(McsTable[j].min <= q)
      <4>1. ~(Ladder[Place(j)].min <= q)
        BY <1>1, <3>1 DEF Supported
      <4> QED BY <3>1, <4>1, LadderSorted
    <3>3. Before(j, i)
      BY <3>2 DEF Fits
    <3> QED BY <2>2, <3>1, <3>3, BeforeIsTotal
  <2>4. SpectralEfficiency(q) = McsTable[i].bits
    BY <1>1, <2>1, LadderSorted DEF SpectralEfficiency
  <2> QED BY <2>2, <2>3, <2>4, BeforeIsTotal DEF IsTopFit, Fits
<1>2. CASE Supported(q) # {}
  <2> DEFINE last == Max(Supported(q))
  <2>1. /\ Supported(q) \subseteq 1..Top
        /\ \A k \in 1..Top : k \in Supported(q) <=> Ladder[k].min <= q
    BY LadderSorted DEF Supported
  <2>2. last \in Supported(q) /\ \A k \in Supported(q) : last >= k
    <3> DEFINE gaps == {n \in Nat : Top - n \in Supported(q)}
    <3>0. \A k \in Supported(q) : Top - k \in gaps
      BY <2>1, LevelsOfTable
    <3>1. gaps # {} /\ gaps \in SUBSET Nat
      BY <1>2, <3>0
    <3> HIDE DEF gaps
    <3>2. PICK n \in gaps : \A m \in gaps : n <= m
      BY <3>1, LeastNatural
    <3>3. Top - n \in Supported(q)
      BY <3>2 DEF gaps
    <3>4. \A k \in Supported(q) : Top - n >= k
      BY <2>1, <3>0, <3>1, <3>2, LevelsOfTable
    <3> QED BY <3>3, <3>4 DEF Max
  <2>3. PICK i \in Levels : Place(i) = last
    BY <2>1, <2>2, PlacesOrder
  <2>4. SpectralEfficiency(q) = McsTable[i].bits /\ McsTable[i].min <= q
    BY <1>2, <2>1, <2>2, <2>3, LadderSorted DEF SpectralEfficiency
  <2>5. ASSUME NEW j \in Fits(q) PROVE Before(j, i)
    <3>1. j \in Levels /\ Place(j) \in 1..Top /\ Ladder[Place(j)] = McsTable[j]
      BY PlacesOrder, LadderSorted DEF Fits
    <3>2. CASE McsTable[j].min <= q
      BY <2>1, <2>2, <2>3, <3>1, <3>2, PlacesOrder
    <3>3. CASE \A k \in Levels : Before(j, k)
      BY <3>3
    <3> QED BY <3>2, <3>3 DEF Fits
  <2> QED BY <2>4, <2>5 DEF IsTopFit, Fits
<1> QED BY <1>1, <1>2

-----------------------------------------------------------------------------
(* RBs *)

\* The floor of a quotient.
LEMMA QuotientBounds ==
  ASSUME NEW a \in Nat, NEW b \in Nat \ {0}
  PROVE  a \div b \in Nat /\ (a \div b) * b <= a /\ a < (a \div b + 1) * b
  OBVIOUS

LEMMA CeilDivBounds ==
  ASSUME NEW a \in Nat \ {0}, NEW b \in Nat \ {0}
  PROVE  /\ CeilDiv(a, b) \in Nat \ {0}
         /\ CeilDiv(a, b) * b >= a /\ (CeilDiv(a, b) - 1) * b < a
<1> DEFINE q == (a + b - 1) \div b
<1>1. a + b - 1 \in Nat
  OBVIOUS
<1>2. q \in Nat /\ q * b <= a + b - 1 /\ a + b - 1 < (q + 1) * b
  BY <1>1, QuotientBounds
<1> HIDE DEF q
<1>3. (q + 1) * b = q * b + b /\ (q - 1) * b = q * b - b /\ q * b \in Int
  BY <1>2
<1>4. q # 0
  BY <1>2, <1>3
<1>5. q \in Nat \ {0} /\ q * b >= a /\ (q - 1) * b < a
  BY <1>2, <1>3, <1>4
<1> QED BY <1>5 DEF CeilDiv, q

\* The sizes and rates of the requests.
LinkTypes == size \in [Requests -> Sizes] /\ quality \in [Requests -> Qualities]

LEMMA NeededRbs ==
  ASSUME LinkTypes, NEW r \in Requests
  PROVE  /\ Needed(r) \in Nat \ {0} /\ BitsPerRb(r) \in Nat \ {0}
         /\ Needed(r) * BitsPerRb(r) >= 8 * size[r]
         /\ (Needed(r) - 1) * BitsPerRb(r) < 8 * size[r]
         /\ RequestCap(r) \in Nat \ {0}
<1>1. quality[r] \in Int /\ 8 * size[r] \in Nat \ {0}
  <2>1. quality[r] \in 0..100 /\ size[r] \in Nat \ {0}
    BY LinkAssumption DEF LinkTypes
  <2> QED BY <2>1
<1>2. SpectralEfficiency(quality[r]) \in Nat \ {0}
  BY <1>1, EfficiencyOfTopFit, LevelsOfTable
<1>3. BitsPerRb(r) \in Nat \ {0}
  BY <1>2, LinkAssumption DEF BitsPerRb
<1>4. /\ Needed(r) \in Nat \ {0} /\ Needed(r) * BitsPerRb(r) >= 8 * size[r]
      /\ (Needed(r) - 1) * BitsPerRb(r) < 8 * size[r]
  BY <1>1, <1>3, CeilDivBounds DEF Needed
<1> QED BY <1>3, <1>4, GridAssumption DEF RequestCap

LEMMA FloorRbs ==
  ASSUME LinkTypes, NEW r \in Requests
  PROVE  LET most == Smaller(Needed(r), RequestCap(r))
         IN  /\ DegradeFloor(r) \in Nat \ {0} /\ DegradeFloor(r) <= most
             /\ 100 * DegradeFloor(r) >= FloorPercent * most
<1> DEFINE most == Smaller(Needed(r), RequestCap(r))
           part == FloorPercent * most
<1>1. most \in Nat \ {0}
  BY NeededRbs DEF Smaller
<1> HIDE DEF most
<1>2. part \in Nat \ {0} /\ part <= 100 * most
  BY <1>1, GridAssumption
<1> HIDE DEF part
<1>3. /\ CeilDiv(part, 100) \in Nat \ {0}
      /\ CeilDiv(part, 100) * 100 >= part /\ (CeilDiv(part, 100) - 1) * 100 < part
  BY <1>2, CeilDivBounds
<1>4. DegradeFloor(r) = CeilDiv(part, 100)
  BY DEF DegradeFloor, part, most
<1>5. CeilDiv(part, 100) <= most
  BY <1>1, <1>2, <1>3
<1> QED BY <1>1, <1>2, <1>3, <1>4, <1>5 DEF part, most

\* A regulatory cap in RBs is within the cap in airtime.
LEMMA RegulatoryRbs ==
  ASSUME NEW r \in Requests, NEW b \in Beams, NEW u \in Nat
  PROVE  /\ RegulatoryCap(r, b, u) \in Nat /\ RbUnits[b] \in Nat
         /\ RegUnits[r] # NoCap =>
              RegUnits[r] \in Nat /\ RegulatoryCap(r, b, u) * RbUnits[b] <= RegUnits[r]
<1>1. RbUnits[b] \in Nat /\ (RegUnits[r] # NoCap => RegUnits[r] \in Nat)
  BY GridAssumption
<1>2. CASE RbUnits[b] = 0
  BY <1>1, <1>2 DEF RegulatoryCap
<1>3. CASE RbUnits[b] # 0 /\ RegUnits[r] = NoCap
  BY <1>1, <1>3 DEF RegulatoryCap
<1>4. CASE RbUnits[b] # 0 /\ RegUnits[r] # NoCap
  BY <1>1, <1>4, QuotientBounds DEF RegulatoryCap
<1> QED BY <1>2, <1>3, <1>4

-----------------------------------------------------------------------------
(* Granted access *)

SlotTypes ==
  /\ LinkTypes /\ queue \subseteq Requests /\ deferred \subseteq Requests
  /\ freeRbs \in [Beams -> Nat] /\ IsFiniteSet(grants)
  /\ \A g \in grants : g.request \in Requests \ queue /\ g.beam \in Beams /\ g.rbs \in Nat

LEMMA AssignableRbs ==
  ASSUME SlotTypes, NEW r \in Requests, NEW b \in EligibleBeams[r]
  PROVE  /\ b \in Beams /\ freeRbs[b] \in Nat /\ RequestCap(r) \in Nat
         /\ RegulatoryCap(r, b, freeRbs[b]) \in Nat
         /\ Assignable(r, b) = Smaller(RequestCap(r), Smaller(freeRbs[b], RegulatoryCap(r, b, freeRbs[b])))
         /\ Assignable(r, b) \in Nat /\ Assignable(r, b) <= RequestCap(r)
         /\ Assignable(r, b) <= freeRbs[b] /\ Assignable(r, b) <= RegulatoryCap(r, b, freeRbs[b])
<1>1. b \in Beams /\ freeRbs[b] \in Nat
  BY GridAssumption DEF SlotTypes
<1>2. RequestCap(r) \in Nat /\ RegulatoryCap(r, b, freeRbs[b]) \in Nat
  BY <1>1, NeededRbs, RegulatoryRbs DEF SlotTypes
<1> QED BY <1>1, <1>2 DEF Assignable, Smaller

\* The rate RBs are counted with is the rate of the link.
LEMMA RateOfLink ==
  ASSUME LinkTypes, NEW r \in Requests
  PROVE  BitsPerRb(r) \in LinkBits(r)
<1>1. quality[r] \in Int
  <2>1. quality[r] \in 0..100
    BY LinkAssumption DEF LinkTypes
  <2> QED BY <2>1
<1>2. PICK i \in Levels : /\ IsTopFit(i, quality[r])
                         /\ SpectralEfficiency(quality[r]) = McsTable[i].bits
  BY <1>1, EfficiencyOfTopFit
<1>3. Usable(r) = Fits(quality[r])
  BY DEF Usable, Fits
<1>4. i \in Usable(r) /\ \A j \in Usable(r) : Before(j, i)
  BY <1>2, <1>3 DEF IsTopFit
<1>5. BitsPerRb(r) = SymbolsPerRb * McsTable[i].bits
  BY <1>2 DEF BitsPerRb
<1> QED BY <1>4, <1>5 DEF LinkBits

\* What PayloadCarried and AirtimeWithinRegulation say of one grant.
Carries(r, rbs, degraded) ==
  \E rate \in LinkBits(r) :
    IF degraded
    THEN /\ r \in Degradable /\ rbs * rate < 8 * size[r]
         /\ 100 * rbs >= FloorPercent * Smaller(Needed(r), RequestCap(r))
    ELSE rbs * rate >= 8 * size[r] /\ (rbs - 1) * rate < 8 * size[r]
WithinRule(r, b, rbs) ==
  b \in EligibleBeams[r] /\ (RegUnits[r] # NoCap => rbs * RbUnits[b] <= RegUnits[r])

LEMMA FullGrantAgreed ==
  ASSUME SlotTypes, NEW r \in Requests, NEW b \in BestBeams(r), FitsFully(r, b)
  PROVE  /\ Needed(r) \in Nat /\ Needed(r) <= freeRbs[b]
         /\ Carries(r, Needed(r), FALSE) /\ WithinRule(r, b, Needed(r))
<1>1. b \in EligibleBeams[r] /\ b \in Beams /\ Needed(r) <= Assignable(r, b)
  BY GridAssumption DEF BestBeams, FitsFully
<1>2. /\ Needed(r) \in Nat /\ Needed(r) <= freeRbs[b]
      /\ Needed(r) <= RegulatoryCap(r, b, freeRbs[b])
  BY <1>1, AssignableRbs, NeededRbs DEF SlotTypes
<1>3. Carries(r, Needed(r), FALSE)
  BY NeededRbs, RateOfLink DEF Carries, SlotTypes
<1>4. WithinRule(r, b, Needed(r))
  <2> DEFINE cap == RegulatoryCap(r, b, freeRbs[b])
  <2>1. /\ cap \in Nat /\ RbUnits[b] \in Nat /\ Needed(r) <= cap
        /\ RegUnits[r] # NoCap => RegUnits[r] \in Nat /\ cap * RbUnits[b] <= RegUnits[r]
    BY <1>1, <1>2, RegulatoryRbs, AssignableRbs
  <2> HIDE DEF cap
  <2>2. Needed(r) * RbUnits[b] <= cap * RbUnits[b]
    BY <1>2, <2>1
  <2> QED BY <1>1, <1>2, <2>1, <2>2 DEF WithinRule
<1> QED BY <1>2, <1>3, <1>4

LEMMA DegradedGrantAgreed ==
  ASSUME SlotTypes, NEW r \in Requests, NEW b \in BestBeams(r), FitsDegraded(r, b)
  PROVE  /\ Assignable(r, b) \in Nat /\ Assignable(r, b) <= freeRbs[b]
         /\ Carries(r, Assignable(r, b), TRUE) /\ WithinRule(r, b, Assignable(r, b))
<1> DEFINE rbs == Assignable(r, b)
           most == Smaller(Needed(r), RequestCap(r))
<1>1. /\ b \in EligibleBeams[r] /\ b \in Beams /\ r \in Degradable
      /\ rbs >= DegradeFloor(r) /\ ~FitsFully(r, b)
  BY GridAssumption DEF BestBeams, FitsDegraded
<1>2. /\ rbs \in Nat /\ rbs <= freeRbs[b] /\ rbs <= RequestCap(r)
      /\ rbs <= RegulatoryCap(r, b, freeRbs[b])
  BY <1>1, AssignableRbs
<1>3. /\ Needed(r) \in Nat \ {0} /\ BitsPerRb(r) \in Nat \ {0} /\ RequestCap(r) \in Nat
      /\ (Needed(r) - 1) * BitsPerRb(r) < 8 * size[r] /\ size[r] \in Nat
  BY NeededRbs, LinkAssumption DEF SlotTypes, LinkTypes
<1>4. rbs <= Needed(r) - 1
  BY <1>1, <1>2, <1>3 DEF FitsFully
<1>5. 100 * rbs >= FloorPercent * most
  <2>1. /\ DegradeFloor(r) \in Nat /\ 100 * DegradeFloor(r) >= FloorPercent * most
        /\ FloorPercent * most \in Int
    <3>1. most \in Nat
      BY <1>3 DEF Smaller
    <3> QED BY <3>1, FloorRbs, GridAssumption DEF SlotTypes
  <2> HIDE DEF most, rbs
  <2> QED BY <1>1, <1>2, <2>1
<1> HIDE DEF rbs
<1>6. rbs * BitsPerRb(r) < 8 * size[r]
  <2>1. rbs * BitsPerRb(r) <= (Needed(r) - 1) * BitsPerRb(r)
    BY <1>2, <1>3, <1>4
  <2> QED BY <1>2, <1>3, <2>1
<1>7. Carries(r, rbs, TRUE)
  BY <1>1, <1>5, <1>6, RateOfLink DEF Carries, SlotTypes
<1>8. WithinRule(r, b, rbs)
  <2> DEFINE cap == RegulatoryCap(r, b, freeRbs[b])
  <2>1. /\ cap \in Nat /\ RbUnits[b] \in Nat /\ rbs <= cap
        /\ RegUnits[r] # NoCap => RegUnits[r] \in Nat /\ cap * RbUnits[b] <= RegUnits[r]
    BY <1>1, <1>2, RegulatoryRbs, AssignableRbs
  <2> HIDE DEF cap
  <2>2. rbs * RbUnits[b] <= cap * RbUnits[b]
    BY <1>2, <2>1
  <2> QED BY <1>1, <1>2, <2>1, <2>2 DEF WithinRule
<1> QED BY <1>2, <1>7, <1>8 DEF rbs

\* A grant within the free RBs of a beam keeps the grid whole.
LEMMA GrantKeepsGrid ==
  ASSUME SlotTypes, GridConserved, NEW r \in Requests, Visit(r), NEW b \in Beams,
         NEW rbs \in Nat, rbs <= freeRbs[b], NEW d, Grant(r, b, rbs, d)
  PROVE  SlotTypes' /\ GridConserved'
<1> DEFINE new == [request |-> r, beam |-> b, rbs |-> rbs, degraded |-> d]
<1>1. /\ grants' = grants \cup {new} /\ new \notin grants
      /\ freeRbs' = [freeRbs EXCEPT ![b] = @ - rbs] /\ queue' = queue \ {r}
      /\ deferred' = deferred /\ size' = size /\ quality' = quality
      /\ new.request = r /\ new.beam = b /\ new.rbs = rbs
  BY DEF Grant, Visit, SlotTypes
<1> HIDE DEF new
<1>2. SlotTypes'
  <2>1. IsFiniteSet(grants')
    BY <1>1, FS_AddElement DEF SlotTypes
  <2>2. freeRbs' \in [Beams -> Nat]
    BY <1>1 DEF SlotTypes
  <2>3. \A g \in grants' : g.request \in Requests \ queue' /\ g.beam \in Beams /\ g.rbs \in Nat
    BY <1>1 DEF SlotTypes
  <2>4. LinkTypes' /\ queue' \subseteq Requests /\ deferred' \subseteq Requests
    BY <1>1 DEF SlotTypes, LinkTypes
  <2> QED BY <2>1, <2>2, <2>3, <2>4 DEF SlotTypes
<1>3. ASSUME NEW c \in Beams PROVE freeRbs'[c] >= 0 /\ RbsOn(c)' + freeRbs'[c] = RbsPerBeam
  <2> DEFINE old == [g \in {h \in grants : h.beam = c} |-> g.rbs]
             now == [g \in {h \in grants' : h.beam = c} |-> g.rbs]
  <2>1. /\ freeRbs[c] \in Nat /\ freeRbs'[c] \in Nat /\ RbsPerBeam \in Nat
        /\ SumFunction(old) + freeRbs[c] = RbsPerBeam
    BY <1>2, GridAssumption DEF SlotTypes, GridConserved, RbsOn
  <2>2. /\ DOMAIN old = {h \in grants : h.beam = c}
        /\ DOMAIN now = {h \in grants' : h.beam = c}
        /\ \A g \in DOMAIN old : old[g] \in Int /\ old[g] = g.rbs
        /\ \A g \in DOMAIN now : now[g] = g.rbs
    BY DEF SlotTypes
  <2>3. IsFiniteSet(DOMAIN old)
    BY <2>2, FS_Subset DEF SlotTypes
  <2>4. SumFunction(old) \in Int
    BY <2>2, <2>3, SumInt DEF SumFunction
  <2>5. RbsOn(c)' = SumFunction(now)
    BY DEF RbsOn
  <2> HIDE DEF old, now
  <2>6. CASE c = b
    <3>1. /\ DOMAIN now = DOMAIN old \cup {new} /\ new \notin DOMAIN old
          /\ now[new] = rbs /\ \A g \in DOMAIN old : now[g] = old[g]
      BY <1>1, <2>2, <2>6
    <3>2. SumFunction(now) = SumFunction(old) + now[new]
      BY <2>2, <2>3, <3>1, SumFunctionAdd
    <3>3. freeRbs'[c] = freeRbs[c] - rbs
      BY <1>1, <2>6 DEF SlotTypes
    <3> QED BY <2>1, <2>4, <2>5, <3>1, <3>2, <3>3
  <2>7. CASE c # b
    <3>1. freeRbs'[c] = freeRbs[c] /\ {h \in grants' : h.beam = c} = {h \in grants : h.beam = c}
      BY <1>1, <2>7 DEF SlotTypes
    <3>2. now = old
      BY <3>1 DEF now, old
    <3> QED BY <2>1, <2>5, <3>1, <3>2
  <2> QED BY <2>6, <2>7
<1> QED BY <1>2, <1>3 DEF GridConserved

\* What DeferredDoesNotFit says of one request.
NoPlace(r) ==
  \A b \in EligibleBeams[r] :
    LET room == Smaller(freeRbs[b], RegulatoryCap(r, b, freeRbs[b]))
    IN /\ Needed(r) <= RequestCap(r) => room < Needed(r)
       /\ r \in Degradable => room < DegradeFloor(r)

\* A request is deferred when even the beam offering most RBs offers too few.
LEMMA DeferredHasNoPlace ==
  ASSUME SlotTypes, NEW r \in Requests, Defer(r)
  PROVE  NoPlace(r)
<1> SUFFICES ASSUME NEW b \in EligibleBeams[r]
             PROVE  LET room == Smaller(freeRbs[b], RegulatoryCap(r, b, freeRbs[b]))
                    IN /\ Needed(r) <= RequestCap(r) => room < Needed(r)
                       /\ r \in Degradable => room < DegradeFloor(r)
  BY DEF NoPlace
<1> DEFINE room == Smaller(freeRbs[b], RegulatoryCap(r, b, freeRbs[b]))
           most == Smaller(Needed(r), RequestCap(r))
<1>1. \A c \in EligibleBeams[r] : Assignable(r, c) \in Nat /\ Assignable(r, c) <= RequestCap(r)
  BY AssignableRbs
<1>2. /\ Needed(r) \in Nat \ {0} /\ RequestCap(r) \in Nat \ {0}
      /\ DegradeFloor(r) \in Nat \ {0} /\ DegradeFloor(r) <= most
  BY NeededRbs, FloorRbs DEF SlotTypes
<1>3. room \in Nat /\ Assignable(r, b) = Smaller(RequestCap(r), room)
  BY AssignableRbs DEF Smaller
<1>4. PICK c \in EligibleBeams[r] : \A d \in EligibleBeams[r] : Assignable(r, d) <= Assignable(r, c)
  <2> DEFINE gaps == {RequestCap(r) - Assignable(r, d) : d \in EligibleBeams[r]}
  <2>1. gaps # {} /\ gaps \in SUBSET Nat
    BY <1>1, <1>2
  <2>2. PICK n \in gaps : \A m \in gaps : n <= m
    <3> HIDE DEF gaps
    <3> QED BY <2>1, LeastNatural
  <2>3. PICK c \in EligibleBeams[r] : n = RequestCap(r) - Assignable(r, c)
    BY <2>2
  <2>4. \A d \in EligibleBeams[r] : n <= RequestCap(r) - Assignable(r, d)
    BY <2>2
  <2> QED BY <1>1, <1>2, <2>3, <2>4
<1>5. /\ Needed(r) <= RequestCap(r) => Assignable(r, c) < Needed(r)
      /\ r \in Degradable => Assignable(r, c) < DegradeFloor(r)
  <2>1. CASE Assignable(r, c) = 0
    BY <1>2, <2>1
  <2>2. CASE Assignable(r, c) # 0
    <3>1. c \in BestBeams(r)
      BY <1>1, <1>4, <2>2 DEF BestBeams
    <3>2. ~FitsFully(r, c) /\ ~FitsDegraded(r, c)
      BY <3>1 DEF Defer
    <3> QED BY <1>1, <1>2, <3>2 DEF FitsFully, FitsDegraded
  <2> QED BY <2>1, <2>2
<1>6. Assignable(r, b) <= Assignable(r, c) /\ Assignable(r, b) \in Nat /\ Assignable(r, c) \in Nat
  BY <1>1, <1>4
<1> HIDE DEF room
<1>7. Needed(r) <= RequestCap(r) => room < Needed(r)
  BY <1>2, <1>3, <1>5, <1>6 DEF Smaller
<1>8. r \in Degradable => room < DegradeFloor(r)
  BY <1>2, <1>3, <1>5, <1>6 DEF Smaller
<1> QED BY <1>7, <1>8 DEF room

\* The room left for a request only shrinks.
LEMMA NoPlaceStays ==
  ASSUME SlotTypes, SlotTypes', UNCHANGED <<size, quality>>, NEW r \in Requests, NoPlace(r),
         \A b \in Beams : freeRbs'[b] <= freeRbs[b]
  PROVE  NoPlace(r)'
<1> SUFFICES ASSUME NEW b \in EligibleBeams[r]
             PROVE  LET room == Smaller(freeRbs'[b], RegulatoryCap(r, b, freeRbs'[b]))
                    IN /\ Needed(r) <= RequestCap(r) => room < Needed(r)
                       /\ r \in Degradable => room < DegradeFloor(r)
  <2>1. /\ Needed(r)' = Needed(r) /\ RequestCap(r)' = RequestCap(r)
        /\ DegradeFloor(r)' = DegradeFloor(r)
    BY DEF Needed, RequestCap, DegradeFloor, BitsPerRb
  <2>2. \A b \in EligibleBeams[r] : RegulatoryCap(r, b, freeRbs[b])' = RegulatoryCap(r, b, freeRbs'[b])
    BY DEF RegulatoryCap
  <2> QED BY <2>1, <2>2 DEF NoPlace
<1>1. /\ freeRbs[b] \in Nat /\ freeRbs'[b] \in Nat /\ freeRbs'[b] <= freeRbs[b] /\ b \in Beams
  BY GridAssumption DEF SlotTypes
<1>2. /\ RegulatoryCap(r, b, freeRbs[b]) \in Nat /\ RegulatoryCap(r, b, freeRbs'[b]) \in Nat
      /\ Smaller(freeRbs'[b], RegulatoryCap(r, b, freeRbs'[b]))
           <= Smaller(freeRbs[b], RegulatoryCap(r, b, freeRbs[b]))
  BY <1>1, RegulatoryRbs DEF RegulatoryCap, Smaller
<1>3. Needed(r) \in Nat /\ DegradeFloor(r) \in Nat
  BY NeededRbs, FloorRbs DEF SlotTypes
<1> QED BY <1>1, <1>2, <1>3 DEF NoPlace, Smaller

SlotInv ==
  /\ SlotTypes /\ GridConserved /\ PayloadCarried /\ AirtimeWithinRegulation
  /\ DeferredDoesNotFit

LEMMA SlotAgreed ==
  /\ PayloadCarried <=> \A g \in grants : Carries(g.request, g.rbs, g.degraded)
  /\ AirtimeWithinRegulation <=> \A g \in grants : WithinRule(g.request, g.beam, g.rbs)
  /\ DeferredDoesNotFit <=> \A r \in deferred : NoPlace(r)
  BY DEF PayloadCarried, Carries, AirtimeWithinRegulation, WithinRule, DeferredDoesNotFit, NoPlace

\* A grant as agreed keeps everything the properties promise.
LEMMA GrantKeepsSlotInv ==
  ASSUME SlotInv, NEW r \in Requests, Visit(r), NEW b \in Beams,
         NEW rbs \in Nat, rbs <= freeRbs[b], NEW d, Grant(r, b, rbs, d),
         Carries(r, rbs, d), WithinRule(r, b, rbs)
  PROVE  SlotInv'
<1> DEFINE new == [request |-> r, beam |-> b, rbs |-> rbs, degraded |-> d]
<1>1. SlotTypes' /\ GridConserved'
  BY GrantKeepsGrid DEF SlotInv
<1>2. /\ grants' = grants \cup {new} /\ deferred' = deferred
      /\ size' = size /\ quality' = quality
      /\ freeRbs' = [freeRbs EXCEPT ![b] = @ - rbs]
      /\ new.request = r /\ new.beam = b /\ new.rbs = rbs /\ new.degraded = d
  BY DEF Grant, Visit
<1> HIDE DEF new
<1>3. PayloadCarried'
  <2>1. ASSUME NEW g \in grants' PROVE Carries(g.request, g.rbs, g.degraded)
    BY <1>2, SlotAgreed DEF SlotInv
  <2>2. \A q, k, e : Carries(q, k, e)' <=> Carries(q, k, e)
    BY <1>2 DEF Carries, LinkBits, Usable, Needed, RequestCap, BitsPerRb
  <2>3. \A g \in grants' : Carries(g.request, g.rbs, g.degraded)'
    BY <2>1, <2>2
  <2> QED BY <2>3 DEF PayloadCarried, Carries
<1>4. AirtimeWithinRegulation'
  BY <1>2 DEF SlotInv, AirtimeWithinRegulation, WithinRule
<1>5. DeferredDoesNotFit'
  <2>1. \A c \in Beams : freeRbs'[c] <= freeRbs[c]
    BY <1>2 DEF SlotInv, SlotTypes
  <2>2. ASSUME NEW q \in deferred PROVE NoPlace(q)'
    BY <1>1, <1>2, <2>1, SlotAgreed, NoPlaceStays DEF SlotInv, SlotTypes
  <2> QED BY <1>2, <2>2 DEF DeferredDoesNotFit, NoPlace
<1> QED BY <1>1, <1>3, <1>4, <1>5 DEF SlotInv

LEMMA SlotStep ==
  ASSUME SlotInv, SlotNext
  PROVE  SlotInv'
<1>0. SlotTypes
  BY DEF SlotInv
<1>1. ASSUME NEW r \in Requests, AssignFull(r) PROVE SlotInv'
  <2>1. PICK b \in BestBeams(r) : FitsFully(r, b) /\ Grant(r, b, Needed(r), FALSE)
    BY <1>1 DEF AssignFull
  <2>2. /\ Needed(r) \in Nat /\ Needed(r) <= freeRbs[b]
        /\ Carries(r, Needed(r), FALSE) /\ WithinRule(r, b, Needed(r))
    BY <1>0, <2>1, FullGrantAgreed
  <2>3. Visit(r) /\ b \in Beams
    BY <1>1, <2>1, GridAssumption DEF AssignFull, BestBeams
  <2> QED BY <2>1, <2>2, <2>3, GrantKeepsSlotInv
<1>2. ASSUME NEW r \in Requests, AssignDegraded(r) PROVE SlotInv'
  <2>1. PICK b \in BestBeams(r) : FitsDegraded(r, b) /\ Grant(r, b, Assignable(r, b), TRUE)
    BY <1>2 DEF AssignDegraded
  <2>2. /\ Assignable(r, b) \in Nat /\ Assignable(r, b) <= freeRbs[b]
        /\ Carries(r, Assignable(r, b), TRUE) /\ WithinRule(r, b, Assignable(r, b))
    BY <1>0, <2>1, DegradedGrantAgreed
  <2>3. Visit(r) /\ b \in Beams
    BY <1>2, <2>1, GridAssumption DEF AssignDegraded, BestBeams
  <2> QED BY <2>1, <2>2, <2>3, GrantKeepsSlotInv
<1>3. ASSUME NEW r \in Requests, Visit(r), UNCHANGED <<freeRbs, grants>>,
             deferred' = deferred \/ Defer(r)
      PROVE  SlotInv'
  <2>1. /\ queue' = queue \ {r} /\ size' = size /\ quality' = quality
        /\ deferred' = deferred \/ deferred' = deferred \cup {r}
    BY <1>3 DEF Visit, Defer
  <2>2. SlotTypes'
    BY <1>0, <1>3, <2>1 DEF SlotTypes, LinkTypes
  <2>3. GridConserved' /\ AirtimeWithinRegulation'
    BY <1>3 DEF SlotInv, GridConserved, RbsOn, AirtimeWithinRegulation
  <2>4. PayloadCarried'
    BY <1>3, <2>1 DEF SlotInv, PayloadCarried, LinkBits, Usable, Needed, RequestCap, BitsPerRb
  <2>5. ASSUME NEW q \in deferred' PROVE NoPlace(q)'
    <3>1. q \in Requests /\ NoPlace(q)
      BY <1>0, <1>3, <2>1, DeferredHasNoPlace, SlotAgreed DEF SlotInv, SlotTypes
    <3>2. \A b \in Beams : freeRbs'[b] <= freeRbs[b]
      BY <1>0, <1>3 DEF SlotTypes
    <3> QED BY <1>0, <2>1, <2>2, <3>1, <3>2, NoPlaceStays
  <2> QED BY <2>2, <2>3, <2>4, <2>5 DEF SlotInv, DeferredDoesNotFit, NoPlace
<1>4. ASSUME NEW r \in Requests, Defer(r) \/ DropExpired(r) PROVE SlotInv'
  BY <1>3, <1>4 DEF Defer, DropExpired
<1> QED BY <1>1, <1>2, <1>4 DEF SlotNext

-----------------------------------------------------------------------------
(* Random access *)

\* A transmission of a viable request: as many RBs of an eligible beam as it may try.
Sends(a) ==
  LET r == a.request
      k == Attempts(r, a.beam)
  IN /\ r \in Requests /\ a.beam \in EligibleBeams[r]
     /\ a.rbs \in SUBSET Rbs /\ Cardinality(a.rbs) = k
     /\ Enough(r, k) /\ a.degraded = (k < Needed(r))

Users(b, rb) == {t \in attempts : t.beam = b /\ rb \in t.rbs}

\* Each request transmits at most once, and the grid counts the transmissions.
ContentionTypes ==
  /\ LinkTypes /\ queue \subseteq Requests /\ capture \in Nat /\ pass \in {"transmit", "receive"}
  /\ IsFiniteSet(attempts) /\ \A a \in attempts : Sends(a)
  /\ \A a, c \in attempts : a.request = c.request => a = c
  /\ occupancy \in [Beams -> [Rbs -> Nat]] /\ DOMAIN units = Requests
  /\ \A b \in Beams, rb \in Rbs : occupancy[b][rb] = Cardinality(Users(b, rb))

\* Nobody is received before all have transmitted; a winner has the share of the RBs it
\* used; a transmission that is no winner is still to be looked at, or has collided; and
\* whoever is deferred without transmitting was held back for cause.
ContentionInv ==
  /\ ContentionTypes
  /\ pass = "transmit" => served = {} /\ \A a \in attempts : a.request \notin queue
  /\ \A w \in Winners : units[w.request] = Share(w) /\ ~Collides(w) /\ w.request \notin queue
  /\ pass = "receive" => \A l \in attempts \ Winners : l.request \in queue \/ Collides(l)
  /\ HeldBackForCause

\* The part of its airtime that each user of an RB gets; unused RBs give nothing.
Part(b) ==
  [rb \in Rbs |-> IF occupancy[b][rb] = 0 THEN 0 ELSE RbUnits[b] \div occupancy[b][rb]]

LEMMA RbsFinite == IsFiniteSet(Rbs) /\ Cardinality(Rbs) = RbsPerBeam
<1>1. RbsPerBeam \in Nat
  BY GridAssumption
<1> QED BY <1>1, FS_Interval DEF Rbs

\* The parts of an RB add up to no more than the RB.
LEMMA PartBounds ==
  ASSUME ContentionTypes, NEW b \in Beams, NEW rb \in Rbs
  PROVE  /\ Part(b)[rb] \in Nat /\ RbUnits[b] \in Nat /\ occupancy[b][rb] \in Nat
         /\ Part(b)[rb] * occupancy[b][rb] <= RbUnits[b] /\ Part(b)[rb] <= RbUnits[b]
<1> DEFINE n == occupancy[b][rb]
           u == RbUnits[b]
<1>1. n \in Nat /\ u \in Nat /\ Part(b)[rb] = IF n = 0 THEN 0 ELSE u \div n
  BY GridAssumption DEF ContentionTypes, Part
<1> HIDE DEF n, u
<1>2. CASE n = 0
  BY <1>1, <1>2 DEF n, u
<1>3. CASE n # 0
  <2> DEFINE q == u \div n
  <2>1. q \in Nat /\ q * n <= u
    BY <1>1, <1>3, QuotientBounds
  <2>2. Part(b)[rb] = q
    BY <1>1, <1>3
  <2> HIDE DEF q
  <2>3. q <= q * n
    BY <1>1, <1>3, <2>1
  <2>4. q <= u
    BY <1>1, <2>1, <2>3
  <2> QED BY <1>1, <2>1, <2>2, <2>4 DEF n, u
<1> QED BY <1>2, <1>3

\* A transmission is one of the users of each of its RBs, so its share is the sum of
\* the parts.
LEMMA ShareOfParts ==
  ASSUME ContentionTypes, NEW a \in attempts
  PROVE  /\ a.beam \in Beams /\ a.rbs \in SUBSET Rbs /\ IsFiniteSet(a.rbs)
         /\ Share(a) = SumFunctionOnSet(Part(a.beam), a.rbs)
<1>1. a.beam \in Beams /\ a.rbs \in SUBSET Rbs
  BY GridAssumption DEF ContentionTypes, Sends
<1>2. IsFiniteSet(a.rbs)
  BY <1>1, RbsFinite, FS_Subset
<1> DEFINE own == [rb \in a.rbs |-> RbUnits[a.beam] \div occupancy[a.beam][rb]]
<1>3. ASSUME NEW rb \in a.rbs PROVE Part(a.beam)[rb] \in Int /\ own[rb] = Part(a.beam)[rb]
  <2>1. IsFiniteSet(Users(a.beam, rb)) /\ a \in Users(a.beam, rb)
    BY <1>1, FS_Subset DEF Users, ContentionTypes
  <2>2. Cardinality(Users(a.beam, rb)) # 0
    BY <2>1, FS_EmptySet
  <2>3. occupancy[a.beam][rb] # 0
    BY <1>1, <2>2 DEF ContentionTypes
  <2>4. Part(a.beam)[rb] \in Nat
    BY <1>1, PartBounds
  <2> QED BY <1>1, <2>3, <2>4 DEF Part
<1>4. Share(a) = SumFunctionOnSet(own, a.rbs)
  BY DEF Share, SumFunction
<1> HIDE DEF own
<1>5. SumFunctionOnSet(Part(a.beam), a.rbs) = SumFunctionOnSet(own, a.rbs)
  BY <1>2, <1>3, SumSame
<1> QED BY <1>1, <1>2, <1>4, <1>5

\* Counted by RB instead of by winner, the airtime of a beam's winners is the parts of
\* each RB that winners use, at most all of them.
LEMMA SharesFitTheBeam == ContentionInv => AirtimeShared
<1> SUFFICES ASSUME ContentionInv, NEW b \in Beams
             PROVE  SumFunction([a \in {w \in Winners : w.beam = b} |-> units[a.request]])
                      <= RbsPerBeam * RbUnits[b]
  BY DEF AirtimeShared
<1> DEFINE W == {w \in Winners : w.beam = b}
           total == [a \in W |-> units[a.request]]
           uses == [a \in W |-> a.rbs]
           spent == [rb \in Rbs |-> Part(b)[rb] * Cardinality({w \in W : rb \in uses[w]})]
<1>0. ContentionTypes
  BY DEF ContentionInv
<1>1. IsFiniteSet(W) /\ W \subseteq attempts
  BY <1>0, FS_Subset DEF ContentionTypes, Winners
<1>2. \A rb \in Rbs : Part(b)[rb] \in Int
  BY <1>0, PartBounds
<1>3. ASSUME NEW w \in W
      PROVE  uses[w] \in SUBSET Rbs /\ total[w] = SumFunctionOnSet(Part(b), uses[w])
  <2>1. w \in attempts /\ w.beam = b /\ w.rbs \in SUBSET Rbs
    BY <1>0, <1>1, ShareOfParts
  <2>2. Share(w) = SumFunctionOnSet(Part(b), w.rbs)
    BY <1>0, <2>1, ShareOfParts
  <2>3. units[w.request] = Share(w)
    BY DEF ContentionInv
  <2> QED BY <2>1, <2>2, <2>3
<1>4. ASSUME NEW rb \in Rbs PROVE spent[rb] \in Int /\ spent[rb] <= RbUnits[b]
  <2> DEFINE won == {w \in W : rb \in uses[w]}
             part == Part(b)[rb]
             n == occupancy[b][rb]
  <2>1. IsFiniteSet(Users(b, rb)) /\ won \subseteq Users(b, rb)
    BY <1>0, <1>1, FS_Subset DEF Users, ContentionTypes
  <2>2. Cardinality(won) \in Nat /\ Cardinality(won) <= Cardinality(Users(b, rb))
    BY <2>1, FS_Subset, FS_CardinalityType
  <2>3. n = Cardinality(Users(b, rb))
    BY <1>0 DEF ContentionTypes
  <2>4. part \in Nat /\ RbUnits[b] \in Nat /\ n \in Nat /\ part * n <= RbUnits[b]
    BY <1>0, PartBounds
  <2>5. spent[rb] = part * Cardinality(won)
    OBVIOUS
  <2> DEFINE k == Cardinality(won)
  <2>6. k \in Nat /\ k <= n /\ spent[rb] = part * k
    BY <2>2, <2>3, <2>5
  <2> HIDE DEF spent, part, n, won, k
  <2>7. part * k <= part * n
    BY <2>4, <2>6
  <2> QED BY <2>4, <2>6, <2>7
<1> HIDE DEF W, uses
<1>5. SumFunctionOnSet(total, W) = SumFunctionOnSet(spent, Rbs)
  <2> HIDE DEF total
  <2> QED BY <1>1, <1>2, <1>3, RbsFinite, SumTwoWays
<1>6. SumFunctionOnSet(spent, Rbs) <= RbUnits[b] * Cardinality(Rbs)
  <2>1. RbUnits[b] \in Int
    BY GridAssumption
  <2> HIDE DEF spent
  <2> QED BY <1>4, <2>1, RbsFinite, SumAtMost
<1>7. SumFunction(total) = SumFunctionOnSet(total, W)
  BY DEF SumFunction
<1> HIDE DEF total, spent
<1>8. SumFunction(total) <= RbUnits[b] * RbsPerBeam
  BY <1>5, <1>6, <1>7, RbsFinite
<1>9. RbUnits[b] * RbsPerBeam = RbsPerBeam * RbUnits[b]
  BY GridAssumption
<1> QED BY <1>8, <1>9 DEF total, W

LEMMA CollisionsDecided == ContentionInv => CollisionsDecide
<1> SUFFICES ASSUME ContentionInv PROVE CollisionsDecide
  OBVIOUS
<1>1. ASSUME NEW a \in attempts, NEW rb \in a.rbs
      PROVE  occupancy[a.beam][rb] = Crowd(a, rb) /\ Crowd(a, rb) \in Nat
  <2>1. a.beam \in Beams /\ rb \in Rbs
    BY ShareOfParts DEF ContentionInv
  <2>2. Crowd(a, rb) = Cardinality(Users(a.beam, rb))
    BY DEF Crowd, Users
  <2> QED BY <2>1, <2>2 DEF ContentionInv, ContentionTypes
<1>2. capture \in Nat /\ Winners \subseteq attempts
  BY DEF ContentionInv, ContentionTypes, Winners
<1>3. ASSUME NEW w \in Winners, NEW rb \in w.rbs PROVE Crowd(w, rb) <= capture
  <2>1. ~(occupancy[w.beam][rb] > capture)
    BY DEF ContentionInv, Collides
  <2> QED BY <1>1, <1>2, <2>1
<1>4. ASSUME Over, NEW l \in attempts \ Winners PROVE \E rb \in l.rbs : Crowd(l, rb) > capture
  <2>1. Collides(l)
    BY <1>4 DEF ContentionInv, Over
  <2> QED BY <1>1, <2>1 DEF Collides
<1> QED BY <1>3, <1>4 DEF CollisionsDecide

LEMMA WinnersAgreed == ContentionInv => WinnersWithinCaps
<1> SUFFICES ASSUME ContentionInv, NEW w \in Winners
             PROVE  /\ RegUnits[w.request] # NoCap => units[w.request] <= RegUnits[w.request]
                    /\ Cardinality(w.rbs) <= RequestCap(w.request)
                    /\ Cardinality(w.rbs) < Needed(w.request) <=> w.degraded
                    /\ w.degraded => w.request \in Degradable
  BY DEF WinnersWithinCaps
<1> DEFINE r == w.request
           b == w.beam
           k == Attempts(r, b)
           cap == RegulatoryCap(r, b, RbsPerBeam)
<1>0. ContentionTypes /\ w \in attempts /\ LinkTypes
  BY DEF ContentionInv, ContentionTypes, Winners
<1>1. /\ r \in Requests /\ b \in Beams /\ w.rbs \in SUBSET Rbs /\ IsFiniteSet(w.rbs)
      /\ Cardinality(w.rbs) = k /\ Enough(r, k) /\ w.degraded = (k < Needed(r))
  BY <1>0, ShareOfParts DEF ContentionTypes, Sends
<1>2. Needed(r) \in Nat /\ RequestCap(r) \in Nat /\ RbsPerBeam \in Nat
  BY <1>0, <1>1, NeededRbs, GridAssumption
<1>3. cap \in Nat /\ RbUnits[b] \in Nat
  BY <1>1, <1>2, RegulatoryRbs
<1>4. k \in Nat /\ k <= RequestCap(r) /\ k <= cap
  BY <1>2, <1>3 DEF Attempts, Smaller
<1>5. ASSUME RegUnits[r] # NoCap PROVE units[r] <= RegUnits[r]
  <2>1. RegUnits[r] \in Nat /\ cap * RbUnits[b] <= RegUnits[r]
    BY <1>1, <1>2, <1>5, RegulatoryRbs
  <2>2. units[r] = SumFunctionOnSet(Part(b), w.rbs)
    BY <1>0, ShareOfParts DEF ContentionInv
  <2>3. \A rb \in w.rbs : Part(b)[rb] \in Int /\ Part(b)[rb] <= RbUnits[b]
    BY <1>0, <1>1, PartBounds
  <2> HIDE DEF r, b, k, cap
  <2>4. RbUnits[b] \in Int
    BY <1>3
  <2>5. SumFunctionOnSet(Part(b), w.rbs) <= RbUnits[b] * k
    BY <1>1, <2>3, <2>4, SumAtMost
  <2>6. SumFunctionOnSet(Part(b), w.rbs) \in Int
    BY <1>1, <2>3, SumInt
  <2>7. RbUnits[b] * k <= cap * RbUnits[b]
    BY <1>3, <1>4
  <2> QED BY <1>3, <1>4, <2>1, <2>2, <2>5, <2>6, <2>7
<1> HIDE DEF k, cap
<1>6. k < Needed(r) => r \in Degradable
  BY <1>1, <1>2, <1>4 DEF Enough
<1> QED BY <1>1, <1>4, <1>5, <1>6

\* What a step that transmits nothing keeps.
LEMMA ContentionTypesKept ==
  ASSUME ContentionTypes, UNCHANGED <<size, quality, capture, attempts, occupancy>>,
         queue' \subseteq Requests, pass' \in {"transmit", "receive"}, DOMAIN units' = Requests
  PROVE  ContentionTypes' /\ \A a : Share(a)' = Share(a) /\ (Collides(a)' <=> Collides(a))
<1>1. \A a : Sends(a)' <=> Sends(a)
  BY DEF Sends, Attempts, Enough, Needed, RequestCap, DegradeFloor, BitsPerRb
<1>2. \A b, rb : Users(b, rb)' = Users(b, rb)
  BY DEF Users
<1>3. \A a \in attempts' : Sends(a)'
  BY <1>1 DEF ContentionTypes
<1>4. \A b \in Beams, rb \in Rbs : occupancy'[b][rb] = Cardinality(Users(b, rb)')
  BY <1>2 DEF ContentionTypes
<1>5. LinkTypes'
  BY DEF ContentionTypes, LinkTypes
<1>6. ContentionTypes'
  BY <1>3, <1>4, <1>5 DEF ContentionTypes
<1> QED BY <1>6 DEF Share, Collides

\* A request that holds back because of a beam it picked finds that beam too small.
LEMMA TooFewIsTooSmall ==
  ASSUME LinkTypes, NEW r \in Requests, NEW b \in EligibleBeams[r], ~Enough(r, Attempts(r, b))
  PROVE  TooSmall(r, b)
<1> DEFINE reg == RegulatoryCap(r, b, RbsPerBeam)
           room == Smaller(RbsPerBeam, reg)
           most == Smaller(Needed(r), RequestCap(r))
<1>1. b \in Beams /\ RbsPerBeam \in Nat
  BY GridAssumption
<1>2. reg \in Nat
  BY <1>1, RegulatoryRbs
<1>3. /\ Needed(r) \in Nat /\ RequestCap(r) \in Nat
      /\ DegradeFloor(r) \in Nat /\ DegradeFloor(r) <= most
  BY NeededRbs, FloorRbs
<1>4. Attempts(r, b) = Smaller(most, Smaller(reg, RbsPerBeam))
  BY DEF Attempts
<1>5. /\ ~(Attempts(r, b) >= Needed(r))
      /\ r \in Degradable => ~(Attempts(r, b) >= DegradeFloor(r))
  BY DEF Enough
<1> HIDE DEF reg
<1>6. Needed(r) <= RequestCap(r) => room < Needed(r)
  BY <1>1, <1>2, <1>3, <1>4, <1>5 DEF Smaller
<1>7. r \in Degradable => room < DegradeFloor(r)
  BY <1>1, <1>2, <1>3, <1>4, <1>5 DEF Smaller
<1> QED BY <1>6, <1>7 DEF TooSmall, reg

\* Who was held back for cause stays so: links and beams do not change, and whoever is
\* newly deferred has transmitted or found its beam too small.
LEMMA HeldBackKept ==
  ASSUME HeldBackForCause, UNCHANGED <<size, quality>>,
         \A r \in deferred' \ {a.request : a \in attempts'} :
           \/ r \in deferred \ {a.request : a \in attempts}
           \/ EligibleBeams[r] = {} \/ \E b \in EligibleBeams[r] : TooSmall(r, b)
  PROVE  HeldBackForCause'
<1>1. \A r, b : TooSmall(r, b)' <=> TooSmall(r, b)
  BY DEF TooSmall, Needed, RequestCap, BitsPerRb, DegradeFloor
<1> QED BY <1>1 DEF HeldBackForCause

LEMMA TransmitStep ==
  ASSUME ContentionInv, NEW r \in Requests, Transmit(r)
  PROVE  ContentionInv'
<1>0. /\ ContentionTypes /\ pass = "transmit" /\ r \in queue /\ queue' = queue \ {r}
      /\ UNCHANGED <<size, quality, capture, pass, units, served>>
      /\ served = {} /\ \A a \in attempts : a.request \notin queue
  BY DEF ContentionInv, Transmit, VisitIn, Visit
<1> DEFINE Sent(b, rbs) ==
              /\ attempts' = attempts \cup
                   {[request |-> r, beam |-> b, rbs |-> rbs,
                     degraded |-> Attempts(r, b) < Needed(r)]}
              /\ occupancy' = [occupancy EXCEPT ![b] =
                   [rb \in Rbs |-> @[rb] + IF rb \in rbs THEN 1 ELSE 0]]
<1>1. PICK b \in EligibleBeams[r] :
        Enough(r, Attempts(r, b)) /\ \E rbs \in kSubset(Attempts(r, b), Rbs) : Sent(b, rbs)
  BY DEF Transmit
<1>2. PICK rbs \in kSubset(Attempts(r, b), Rbs) : Enough(r, Attempts(r, b)) /\ Sent(b, rbs)
  BY <1>1
<1> DEFINE new == [request |-> r, beam |-> b, rbs |-> rbs,
                   degraded |-> Attempts(r, b) < Needed(r)]
<1>3. /\ b \in Beams /\ rbs \in SUBSET Rbs /\ Cardinality(rbs) = Attempts(r, b)
      /\ attempts' = attempts \cup {new}
      /\ new.request = r /\ new.beam = b /\ new.rbs = rbs
      /\ new.degraded = (Attempts(r, b) < Needed(r))
  BY <1>2, GridAssumption DEF kSubset
<1> HIDE DEF new
<1>4. Sends(new)
  BY <1>2, <1>3 DEF Sends
<1>5. \A a : Sends(a)' <=> Sends(a)
  BY <1>0 DEF Sends, Attempts, Enough, Needed, RequestCap, DegradeFloor, BitsPerRb
<1>6. new \notin attempts
  BY <1>0, <1>3
<1>7. ASSUME NEW c \in Beams, NEW rb \in Rbs
      PROVE  /\ occupancy'[c][rb] = occupancy[c][rb] + IF c = b /\ rb \in rbs THEN 1 ELSE 0
             /\ occupancy[c][rb] \in Nat /\ occupancy[c][rb] = Cardinality(Users(c, rb))
  BY <1>0, <1>2, <1>3 DEF ContentionTypes
<1>8. ASSUME NEW c \in Beams, NEW rb \in Rbs
      PROVE  occupancy'[c][rb] = Cardinality(Users(c, rb)')
  <2>1. IsFiniteSet(Users(c, rb)) /\ new \notin Users(c, rb)
    BY <1>0, <1>6, FS_Subset DEF Users, ContentionTypes
  <2>2. CASE c = b /\ rb \in rbs
    <3>1. Users(c, rb)' = Users(c, rb) \cup {new}
      BY <1>3, <2>2 DEF Users
    <3>2. Cardinality(Users(c, rb) \cup {new}) = Cardinality(Users(c, rb)) + 1
      BY <2>1, FS_AddElement
    <3>3. Cardinality(Users(c, rb)') = Cardinality(Users(c, rb) \cup {new})
      BY <3>1, Zenon
    <3> QED BY <1>7, <2>2, <3>2, <3>3
  <2>3. CASE ~(c = b /\ rb \in rbs)
    <3>1. Users(c, rb)' = Users(c, rb)
      BY <1>3, <2>3 DEF Users
    <3>2. Cardinality(Users(c, rb)') = Cardinality(Users(c, rb))
      BY <3>1, Zenon
    <3> QED BY <1>7, <2>3, <3>2
  <2> QED BY <2>2, <2>3
<1>9. occupancy' \in [Beams -> [Rbs -> Nat]]
  <2>1. [rb \in Rbs |-> occupancy[b][rb] + IF rb \in rbs THEN 1 ELSE 0] \in [Rbs -> Nat]
    BY <1>3, <1>7
  <2> QED BY <1>0, <1>2, <1>3, <2>1 DEF ContentionTypes
<1>10. ContentionTypes'
  <2>1. LinkTypes' /\ queue' \subseteq Requests /\ IsFiniteSet(attempts')
    BY <1>0, <1>3, FS_AddElement DEF ContentionTypes, LinkTypes
  <2>2. \A a \in attempts' : Sends(a)'
    BY <1>0, <1>3, <1>4, <1>5 DEF ContentionTypes
  <2>3. \A a, c \in attempts' : a.request = c.request => a = c
    BY <1>0, <1>3 DEF ContentionTypes
  <2>4. capture' \in Nat /\ pass' \in {"transmit", "receive"} /\ DOMAIN units' = Requests
    BY <1>0 DEF ContentionTypes
  <2> QED BY <1>8, <1>9, <2>1, <2>2, <2>3, <2>4 DEF ContentionTypes
<1>11. Winners' = {} /\ \A a \in attempts' : a.request \notin queue'
  BY <1>0, <1>3 DEF Winners
<1>12. HeldBackForCause'
  <2>1. deferred' = deferred /\ attempts \subseteq attempts' /\ HeldBackForCause
    BY <1>3 DEF Transmit, ContentionInv
  <2> QED BY <1>0, <2>1, HeldBackKept
<1> QED BY <1>0, <1>10, <1>11, <1>12 DEF ContentionInv

LEMMA ContentionStep ==
  ASSUME ContentionInv, ContentionNext
  PROVE  ContentionInv'
<1>0. ContentionTypes
  BY DEF ContentionInv
<1>1. ASSUME NEW r \in Requests, Transmit(r) PROVE ContentionInv'
  BY <1>1, TransmitStep
<1>2. ASSUME NEW r \in Requests, HoldBack(r) \/ DropLate(r) PROVE ContentionInv'
  <2>1. /\ pass = "transmit" /\ queue' = queue \ {r}
        /\ UNCHANGED <<size, quality, capture, pass, attempts, occupancy, units, served>>
    BY <1>2 DEF HoldBack, DropLate, VisitIn, Visit
  <2>2. ContentionTypes'
    BY <1>0, <2>1, ContentionTypesKept DEF ContentionTypes
  <2>3. Winners' = {} /\ served' = {} /\ \A a \in attempts' : a.request \notin queue'
    BY <2>1 DEF ContentionInv, Winners
  <2>4. ASSUME NEW q \in deferred' \ {a.request : a \in attempts'}
        PROVE  \/ q \in deferred \ {a.request : a \in attempts}
               \/ EligibleBeams[q] = {} \/ \E b \in EligibleBeams[q] : TooSmall(q, b)
    <3>1. CASE q \in deferred
      BY <2>1, <3>1
    <3>2. CASE q \notin deferred
      <4>1. /\ q = r
            /\ EligibleBeams[r] = {} \/ \E b \in EligibleBeams[r] : ~Enough(r, Attempts(r, b))
        BY <1>2, <3>2 DEF HoldBack, DropLate
      <4> QED BY <1>0, <4>1, TooFewIsTooSmall DEF ContentionTypes
    <3> QED BY <3>1, <3>2
  <2>5. HeldBackForCause'
    BY <2>1, <2>4, HeldBackKept DEF ContentionInv
  <2> QED BY <2>1, <2>2, <2>3, <2>5 DEF ContentionInv
<1>3. CASE ReceiveAll
  <2>1. /\ pass = "transmit" /\ pass' = "receive" /\ queue' = {a.request : a \in attempts}
        /\ UNCHANGED <<size, quality, capture, attempts, occupancy, units, served, deferred>>
    BY <1>3 DEF ReceiveAll, AllTransmitted
  <2>2. queue' \subseteq Requests
    BY <1>0, <2>1 DEF ContentionTypes, Sends
  <2>3. ContentionTypes'
    BY <1>0, <2>1, <2>2, ContentionTypesKept DEF ContentionTypes
  <2>4. Winners' = {} /\ \A a \in attempts' : a.request \in queue'
    BY <2>1 DEF ContentionInv, Winners
  <2>5. HeldBackForCause'
    BY <2>1, HeldBackKept DEF ContentionInv
  <2> QED BY <2>1, <2>3, <2>4, <2>5 DEF ContentionInv
<1>4. ASSUME NEW a \in attempts, Receive(a) PROVE ContentionInv'
  <2>1. /\ pass = "receive" /\ a.request \in queue /\ queue' = queue \ {a.request}
        /\ UNCHANGED <<size, quality, capture, pass, attempts, occupancy, deferred>>
        /\ served' = served \cup {a.request} /\ ~Collides(a)
        /\ units' = [units EXCEPT ![a.request] = Share(a)]
    BY <1>4 DEF Receive, VisitIn, Visit
  <2>2. a.request \in DOMAIN units /\ \A c \in attempts : c.request = a.request => c = a
    BY <1>0 DEF ContentionTypes, Sends
  <2>3. DOMAIN units' = Requests /\ queue' \subseteq Requests
    BY <1>0, <2>1 DEF ContentionTypes
  <2>4. ContentionTypes' /\ \A c : Share(c)' = Share(c) /\ (Collides(c)' <=> Collides(c))
    BY <1>0, <2>1, <2>3, ContentionTypesKept DEF ContentionTypes
  <2>5. \A w \in Winners' : w = a \/ (w \in Winners /\ w.request # a.request)
    BY <2>1, <2>2 DEF Winners
  <2>6. \A w \in Winners' : units'[w.request] = Share(w) /\ ~Collides(w) /\ w.request \notin queue'
    BY <2>1, <2>2, <2>5 DEF ContentionInv
  <2>7. \A l \in attempts' \ Winners' : l.request \in queue' \/ Collides(l)
    BY <2>1, <2>2 DEF ContentionInv, Winners
  <2>8. /\ \A w \in Winners' :
             units'[w.request] = Share(w)' /\ ~Collides(w)' /\ w.request \notin queue'
        /\ \A l \in attempts' \ Winners' : l.request \in queue' \/ Collides(l)'
    BY <2>4, <2>6, <2>7
  <2>9. HeldBackForCause'
    BY <2>1, HeldBackKept DEF ContentionInv
  <2> QED BY <2>1, <2>4, <2>8, <2>9 DEF ContentionInv
<1>5. ASSUME NEW a \in attempts, Lose(a) PROVE ContentionInv'
  <2>1. /\ pass = "receive" /\ a.request \in queue /\ queue' = queue \ {a.request}
        /\ UNCHANGED <<size, quality, capture, pass, attempts, occupancy, units, served>>
        /\ Collides(a) /\ deferred' = deferred \cup {a.request}
    BY <1>5 DEF Lose, VisitIn, Visit
  <2>2. \A c \in attempts : c.request = a.request => c = a
    BY <1>0 DEF ContentionTypes
  <2>3. ContentionTypes' /\ \A c : Share(c)' = Share(c) /\ (Collides(c)' <=> Collides(c))
    BY <1>0, <2>1, ContentionTypesKept DEF ContentionTypes
  <2>4. Winners' = Winners
    BY <2>1 DEF Winners
  <2>5. /\ \A w \in Winners' :
             units'[w.request] = Share(w)' /\ ~Collides(w)' /\ w.request \notin queue'
        /\ \A l \in attempts' \ Winners' : l.request \in queue' \/ Collides(l)'
    BY <2>1, <2>2, <2>3, <2>4 DEF ContentionInv
  <2>6. \A q \in deferred' \ {c.request : c \in attempts'} :
          q \in deferred \ {c.request : c \in attempts}
    BY <2>1
  <2>7. HeldBackForCause'
    BY <2>1, <2>6, HeldBackKept DEF ContentionInv
  <2> QED BY <2>1, <2>3, <2>5, <2>7 DEF ContentionInv
<1> QED BY <1>1, <1>2, <1>3, <1>4, <1>5 DEF ContentionNext

-----------------------------------------------------------------------------
(* Either scheduler *)

MacInv ==
  /\ kind \in {"slot_mac", "contention_mac"}
  /\ kind = "slot_mac" => SlotInv
  /\ kind = "contention_mac" => ContentionInv

LEMMA MacInitially == Init => MacInv
<1> SUFFICES ASSUME Init PROVE MacInv
  OBVIOUS
<1>1. /\ LinkTypes /\ queue = Requests /\ served = {} /\ deferred = {} /\ grants = {}
      /\ freeRbs = [b \in Beams |-> RbsPerBeam] /\ RbsPerBeam \in Nat
  BY GridAssumption DEF Init, GridInit, SlotInit, LinkTypes
<1>2. SlotInv
  <2>1. SlotTypes
    BY <1>1, FS_EmptySet DEF SlotTypes
  <2>2. GridConserved
    <3>1. ASSUME NEW b \in Beams PROVE RbsOn(b) = 0
      <4> DEFINE none == [g \in {h \in grants : h.beam = b} |-> g.rbs]
      <4>1. DOMAIN none = {}
        BY <1>1
      <4> HIDE DEF none
      <4>2. SumFunction(none) = 0
        BY <4>1, SumEmpty DEF SumFunction
      <4> QED BY <4>2 DEF RbsOn, none
    <3> QED BY <1>1, <3>1 DEF GridConserved
  <2> QED BY <1>1, <2>1, <2>2
        DEF SlotInv, PayloadCarried, AirtimeWithinRegulation, DeferredDoesNotFit
<1>3. ContentionInv
  <2>1. /\ attempts = {} /\ pass = "transmit" /\ capture \in Nat
        /\ occupancy = [b \in Beams |-> [rb \in Rbs |-> 0]] /\ DOMAIN units = Requests
    BY ContentionAssumption DEF Init, ContentionInit
  <2>2. \A b \in Beams, rb \in Rbs : Users(b, rb) = {} /\ occupancy[b][rb] = 0
    BY <2>1 DEF Users
  <2>3. ContentionTypes
    BY <1>1, <2>1, <2>2, FS_EmptySet DEF ContentionTypes
  <2> QED BY <1>1, <2>1, <2>3 DEF ContentionInv, Winners, HeldBackForCause
<1> QED BY <1>2, <1>3 DEF Init, MacInv

LEMMA MacStutter ==
  ASSUME MacInv, UNCHANGED vars
  PROVE  MacInv'
<1>1. /\ UNCHANGED <<kind, size, quality, queue, served, deferred>>
      /\ UNCHANGED <<freeRbs, grants>>
      /\ UNCHANGED <<capture, pass, attempts, occupancy, units>>
  BY DEF vars, slotVars, contentionVars
<1>2. ASSUME SlotInv PROVE SlotInv'
  <2>1. SlotTypes' /\ GridConserved' /\ AirtimeWithinRegulation'
    BY <1>1, <1>2
       DEF SlotInv, SlotTypes, LinkTypes, GridConserved, RbsOn, AirtimeWithinRegulation
  <2>2. PayloadCarried'
    BY <1>1, <1>2 DEF SlotInv, PayloadCarried, LinkBits, Usable, Needed, RequestCap, BitsPerRb
  <2>3. DeferredDoesNotFit'
    BY <1>1, <1>2
       DEF SlotInv, DeferredDoesNotFit, Needed, RequestCap, BitsPerRb, DegradeFloor
  <2> QED BY <2>1, <2>2, <2>3 DEF SlotInv
<1>3. ASSUME ContentionInv PROVE ContentionInv'
  <2>1. ContentionTypes' /\ \A c : Share(c)' = Share(c) /\ (Collides(c)' <=> Collides(c))
    BY <1>1, <1>3, ContentionTypesKept DEF ContentionInv, ContentionTypes
  <2>2. Winners' = Winners
    BY <1>1 DEF Winners
  <2>3. HeldBackForCause'
    BY <1>1, <1>3, HeldBackKept DEF ContentionInv
  <2> QED BY <1>1, <1>3, <2>1, <2>2, <2>3 DEF ContentionInv
<1> QED BY <1>1, <1>2, <1>3 DEF MacInv

LEMMA MacStep ==
  ASSUME MacInv, [Next]_vars
  PROVE  MacInv'
<1>1. CASE UNCHANGED vars
  BY <1>1, MacStutter
<1>2. CASE Next
  <2>1. CASE kind = "slot_mac" /\ SlotNext
    BY <1>2, <2>1, SlotStep DEF MacInv, Next
  <2>2. CASE kind = "contention_mac" /\ ContentionNext
    BY <1>2, <2>2, ContentionStep DEF MacInv, Next
  <2> QED BY <1>2, <2>1, <2>2 DEF Next
<1> QED BY <1>1, <1>2

LEMMA MacInvariant == Spec => []MacInv
  BY MacInitially, MacStep, PTL DEF Spec

-----------------------------------------------------------------------------
\* Whatever scheduler runs and whatever it picks at random, no beam gives away more
\* airtime than its grid has.
THEOREM BeamsNeverOversubscribed == Spec => []BeamNotOversubscribed
<1>1. MacInv => BeamNotOversubscribed
  BY SharesFitTheBeam DEF MacInv, SlotInv, BeamNotOversubscribed
<1> QED BY <1>1, MacInvariant, PTL

\* A grant carries its payload at the rate of the link, or less for a class that
\* accepts it, within the caps of its region and of the configuration.
THEOREM GrantsAlwaysAsAgreed == Spec => []GrantsAsAgreed
<1>1. MacInv => GrantsAsAgreed
  BY WinnersAgreed DEF MacInv, SlotInv, GrantsAsAgreed
<1> QED BY <1>1, MacInvariant, PTL

\* Under granted access a deferred request does not fit even when all others have been
\* placed.  Under random access it met more transmissions than an RB can separate, or it
\* never transmitted, and then it had no beam or one too small for it even if alone there.
THEOREM AlwaysDeferredForCause == Spec => []DeferredForCause
<1>1. MacInv => DeferredForCause
  BY CollisionsDecided DEF MacInv, SlotInv, ContentionInv, DeferredForCause
<1> QED BY <1>1, MacInvariant, PTL
=============================================================================
