------------------------------ MODULE BatchProofs ------------------------------
(***************************************************************************)
(* Theorems about batches: the plan of difficulties, the evidence of the   *)
(* detectors, the files that are written, their scores, and what a batch   *)
(* that met no other request leaves, for any number of runs, requests,     *)
(* threads and kills, any weights and any features.                        *)
(***************************************************************************)
EXTENDS BatchJob, FiniteSetTheorems, WellFoundedInduction, TLAPS

Weights == {w \in [1 .. 4 -> Nat] : w[1] + w[2] + w[3] + w[4] > 0}

-----------------------------------------------------------------------------
(* Shares and remainders *)

LEMMA DivisionLaw ==
    ASSUME NEW a \in Nat, NEW sum \in Nat \ {0}
    PROVE  a \div sum \in Nat /\ a % sum \in Nat /\ a % sum < sum /\ a = (a \div sum) * sum + (a % sum)
BY SMT

LEMMA Distributes ==
    ASSUME NEW a \in Int, NEW b \in Int, NEW c \in Int, NEW d \in Int, NEW n \in Int
    PROVE  a * n + b * n + c * n + d * n = (a + b + c + d) * n
BY SMT

LEMMA SmallMultiple ==
    ASSUME NEW m \in Int, NEW sum \in Nat \ {0}, m * sum >= 0, m * sum < 4 * sum
    PROVE  m \in {0, 1, 2, 3}
<1>1. ASSUME m >= 4 PROVE m * sum >= 4 * sum BY <1>1, SMT
<1>2. ASSUME m <= -1 PROVE m * sum <= -sum BY <1>2, SMT
<1> QED BY <1>1, <1>2

LEMMA Shares ==
    ASSUME NEW w \in Weights, NEW total \in Nat
    PROVE  /\ WeightSum(w) \in Nat \ {0}
           /\ \A i \in 1 .. 4 :
                /\ w[i] \in Nat /\ w[i] * total \in Nat
                /\ WholeShare(w, total, i) \in Nat /\ Remainder(w, total, i) \in Nat
                /\ Remainder(w, total, i) < WeightSum(w)
                /\ w[i] * total = WholeShare(w, total, i) * WeightSum(w) + Remainder(w, total, i)
<1>1. WeightSum(w) \in Nat \ {0} /\ \A i \in 1 .. 4 : w[i] \in Nat BY DEF Weights, WeightSum
<1>2. ASSUME NEW i \in 1 .. 4 PROVE w[i] * total \in Nat BY <1>1
<1> QED BY <1>1, <1>2, DivisionLaw DEF WholeShare, Remainder

LEMMA RemaindersAddUp ==
    ASSUME NEW w \in Weights, NEW total \in Nat
    PROVE  /\ Remaining(w, total) \in {0, 1, 2, 3}
           /\ Remainder(w, total, 1) + Remainder(w, total, 2) + Remainder(w, total, 3) + Remainder(w, total, 4)
                = Remaining(w, total) * WeightSum(w)
<1> DEFINE q(i) == WholeShare(w, total, i)
           r(i) == Remainder(w, total, i)
           sum == WeightSum(w)
           left == Remaining(w, total)
<1>1. sum \in Nat \ {0} /\ \A i \in 1 .. 4 : /\ w[i] \in Nat /\ q(i) \in Nat /\ r(i) \in Nat /\ r(i) < sum
                                             /\ w[i] * total = q(i) * sum + r(i)
    BY Shares
<1>2. left \in Int /\ left = total - (q(1) + q(2) + q(3) + q(4)) BY <1>1 DEF Remaining
<1>3. w[1] * total + w[2] * total + w[3] * total + w[4] * total = sum * total
    BY <1>1, Distributes DEF WeightSum
<1>4. q(1) * sum + q(2) * sum + q(3) * sum + q(4) * sum = (q(1) + q(2) + q(3) + q(4)) * sum
    BY <1>1, Distributes
<1>5. (total - (q(1) + q(2) + q(3) + q(4))) * sum = total * sum - (q(1) + q(2) + q(3) + q(4)) * sum
    <2>1. \A a, b, c \in Int : (a - b) * c = a * c - b * c BY SMT
    <2> HIDE DEF q, sum
    <2> QED BY <1>1, <2>1
<1>6. r(1) + r(2) + r(3) + r(4) = left * sum
    <2>1. sum * total = total * sum BY <1>1
    <2>2. \A i \in 1 .. 4 : q(i) * sum \in Int BY <1>1
    <2>3. total * sum \in Int /\ (q(1) + q(2) + q(3) + q(4)) * sum \in Int BY <1>1
    <2> HIDE DEF q, r, sum, left
    <2> QED BY <1>1, <1>2, <1>3, <1>4, <1>5, <2>1, <2>2, <2>3
<1>7. left \in {0, 1, 2, 3}
    <2>1. left * sum >= 0 /\ left * sum < 4 * sum
        <3> HIDE DEF q, r, sum, left
        <3> QED BY <1>1, <1>6
    <2> HIDE DEF sum, left
    <2> QED BY <1>1, <1>2, <2>1, SmallMultiple
<1> QED BY <1>6, <1>7

-----------------------------------------------------------------------------
(* Ranks *)

\* As many difficulties get one run more as runs are left.
LEMMA RankedLeft ==
    ASSUME NEW w \in Weights, NEW total \in Nat, NEW left \in {0, 1, 2, 3}
    PROVE  LET extra(i) == IF Rank(w, total, i) < left THEN 1 ELSE 0
           IN  extra(1) + extra(2) + extra(3) + extra(4) = left
<1>1. \A i \in 1 .. 4 : Remainder(w, total, i) \in Nat BY Shares
<1>2. CASE left = 0 BY <1>1, <1>2 DEF Rank, Beats, RankedBefore
<1>3. CASE left = 1 BY <1>1, <1>3 DEF Rank, Beats, RankedBefore
<1>4. CASE left = 2 BY <1>1, <1>4 DEF Rank, Beats, RankedBefore
<1>5. CASE left = 3 BY <1>1, <1>5 DEF Rank, Beats, RankedBefore
<1> QED BY <1>2, <1>3, <1>4, <1>5

\* One without a remainder does not.
LEMMA NoneForNothing ==
    ASSUME NEW w \in Weights, NEW total \in Nat, NEW i \in 1 .. 4,
           Remainder(w, total, i) = 0
    PROVE  ~(Rank(w, total, i) < Remaining(w, total))
<1> DEFINE sum == WeightSum(w)
           r(j) == Remainder(w, total, j)
<1>1. sum \in Nat \ {0} /\ \A j \in 1 .. 4 : r(j) \in Nat /\ r(j) < sum BY Shares
<1>2. r(1) + r(2) + r(3) + r(4) = Remaining(w, total) * sum /\ Remaining(w, total) \in {0, 1, 2, 3}
    BY RemaindersAddUp
<1>3. Rank(w, total, i) >= (IF r(1) > 0 THEN 1 ELSE 0) + (IF r(2) > 0 THEN 1 ELSE 0)
                           + (IF r(3) > 0 THEN 1 ELSE 0) + (IF r(4) > 0 THEN 1 ELSE 0)
    BY <1>1 DEF Rank, Beats, RankedBefore
<1>4. Rank(w, total, i) \in Nat BY DEF Rank, Beats
<1> HIDE DEF sum, r
<1>5. CASE Remaining(w, total) = 0 BY <1>4, <1>5
<1>6. CASE Remaining(w, total) = 1 BY <1>1, <1>2, <1>3, <1>4, <1>6
<1>7. CASE Remaining(w, total) = 2 BY <1>1, <1>2, <1>3, <1>4, <1>7
<1>8. CASE Remaining(w, total) = 3 BY <1>1, <1>2, <1>3, <1>4, <1>8
<1> QED BY <1>2, <1>5, <1>6, <1>7, <1>8

-----------------------------------------------------------------------------
(* The plan *)

\* The plan of difficulties has as many runs as asked for, each difficulty less
\* than one run away from its share, and none without a weight.
LEMMA CountsExact ==
    ASSUME NEW w \in Weights, NEW total \in Nat
    PROVE  LET count(i) == WeightedCount(w, total, i)
               sum == WeightSum(w)
           IN  /\ count(1) + count(2) + count(3) + count(4) = total
               /\ \A i \in 1 .. 4 :
                    /\ count(i) * sum < w[i] * total + sum
                    /\ w[i] * total < count(i) * sum + sum
                    /\ w[i] = 0 => count(i) = 0
<1> DEFINE sum == WeightSum(w)
           q(i) == WholeShare(w, total, i)
           r(i) == Remainder(w, total, i)
           left == Remaining(w, total)
           extra(i) == IF Rank(w, total, i) < left THEN 1 ELSE 0
           count(i) == WeightedCount(w, total, i)
<1>1. sum \in Nat \ {0} /\ \A i \in 1 .. 4 : /\ w[i] \in Nat /\ q(i) \in Nat /\ r(i) \in Nat /\ r(i) < sum
                                             /\ w[i] * total = q(i) * sum + r(i)
    BY Shares
<1>2. left \in {0, 1, 2, 3} /\ left = total - (q(1) + q(2) + q(3) + q(4))
    BY RemaindersAddUp DEF Remaining
<1>3. \A i \in 1 .. 4 : count(i) = q(i) + extra(i) BY DEF WeightedCount
<1>4. extra(1) + extra(2) + extra(3) + extra(4) = left BY <1>2, RankedLeft
<1>5. \A i \in 1 .. 4 : r(i) = 0 => extra(i) = 0 BY NoneForNothing
<1>6. \A i \in 1 .. 4 : extra(i) \in {0, 1} OBVIOUS
<1>7. count(1) + count(2) + count(3) + count(4) = total
    <2> HIDE DEF q, r, sum, left, extra, count
    <2>1. q(1) \in Int /\ q(2) \in Int /\ q(3) \in Int /\ q(4) \in Int BY <1>1
    <2>2. extra(1) \in Int /\ extra(2) \in Int /\ extra(3) \in Int /\ extra(4) \in Int BY <1>6
    <2>3. count(1) = q(1) + extra(1) /\ count(2) = q(2) + extra(2) /\ count(3) = q(3) + extra(3) /\ count(4) = q(4) + extra(4)
        BY <1>3
    <2> QED BY <1>2, <1>4, <2>1, <2>2, <2>3
<1>8. ASSUME NEW i \in 1 .. 4
      PROVE  /\ count(i) * sum < w[i] * total + sum
             /\ w[i] * total < count(i) * sum + sum
             /\ w[i] = 0 => count(i) = 0
    <2>1. count(i) * sum = q(i) * sum + extra(i) * sum
        <3>1. \A a, b, c \in Int : (a + b) * c = a * c + b * c BY SMT
        <3> HIDE DEF q, r, sum, left, extra, count
        <3> QED BY <1>1, <1>3, <1>6, <3>1
    <2>2. extra(i) * sum \in {0, sum} /\ (extra(i) = 0 => extra(i) * sum = 0)
        <3> HIDE DEF q, r, sum, left, extra, count
        <3> QED BY <1>1, <1>6
    <2>3. q(i) * sum \in Nat BY <1>1
    <2>4. count(i) * sum < w[i] * total + sum /\ w[i] * total < count(i) * sum + sum
        <3> HIDE DEF q, r, sum, left, extra, count
        <3> QED BY <1>1, <1>5, <1>6, <2>1, <2>2, <2>3
    <2>5. ASSUME w[i] = 0 PROVE count(i) = 0
        <3>1. w[i] * total = 0 BY <2>5
        <3>2. q(i) * sum = 0 /\ r(i) = 0 BY <1>1, <2>3, <3>1
        <3>3. q(i) = 0
            <4>1. \A a, b \in Nat : a # 0 /\ b # 0 => a * b # 0 BY SMT
            <4> HIDE DEF q, sum
            <4> QED BY <1>1, <3>2, <4>1
        <3> QED BY <1>3, <1>5, <3>2, <3>3
    <2> QED BY <2>4, <2>5
<1> QED BY <1>7, <1>8

\* The plan of difficulties is exact in every batch, for any number of runs and
\* any difficulty weights.
THEOREM PlansAreExact == Spec => []MixExact
<1>1. Init => MixExact
    <2> SUFFICES ASSUME Init PROVE MixExact OBVIOUS
    <2>1. PICK w \in WeightSets : mix = [weights |-> w, counts |-> [i \in 1 .. 4 |-> WeightedCount(w, Total, i)]]
        BY DEF Init, Mixes
    <2>2. w \in Weights /\ Total \in Nat BY WeightsCount, TotalPositive DEF Weights
    <2>3. mix.weights = w /\ \A i \in 1 .. 4 : mix.counts[i] = WeightedCount(w, Total, i) BY <2>1
    <2> QED BY <2>2, <2>3, CountsExact DEF MixExact
<1>2. MixExact /\ [Next]_vars => MixExact'
    <2> SUFFICES ASSUME MixExact, [Next]_vars PROVE MixExact' OBVIOUS
    <2>1. UNCHANGED mix
        BY DEF Next, Step, RunBatch, TakeRun, FinishRun, OpenFile, FillFile, Killed, Normalize, CopyFile, Record, vars, given
    <2> QED BY <2>1 DEF MixExact
<1> QED BY <1>1, <1>2, PTL DEF Spec

-----------------------------------------------------------------------------
(* The evidence of the detectors *)

LEMMA RoundedBelow ==
    ASSUME NEW n \in Int, NEW d \in {120, 700, 96, 1100}, n >= 0, 2 * n < 2 * Alarm * d - d
    PROVE  Rounded(n, d) < Alarm
BY DEF Rounded, Alarm

LEMMA SpoofingNeedsAWall ==
    ASSUME NEW f, IsMeasured(f), Spoofing(f) >= Alarm
    PROVE  f.wall >= 46660
<1> DEFINE wall == Least(f.wall, 8 * Unit)
           lived == IF 1 <= f.lifetime /\ f.lifetime <= 10 THEN 2000 ELSE 500
           cancels == Most(Least(f.cancelToTrade, 3 * Unit), 3 * f.cancelProbability)
           pressure == Least(Magnitude(f.imbalance), 5000)
           n == 9 * wall + 120 * lived + 4 * cancels + 24 * pressure
<1>1. f.wall \in Nat /\ f.cancelToTrade \in Nat /\ f.cancelProbability \in Nat /\ f.cancelProbability <= 10000 /\ f.imbalance \in Int
    BY DEF IsMeasured, Unit
<1>2. wall \in Nat /\ (f.wall < 46660 => wall < 46660) BY <1>1 DEF Least, Unit
<1>3. lived \in Nat /\ lived <= 2000 OBVIOUS
<1>4. cancels \in Nat /\ cancels <= 30000
    <2>1. Least(f.cancelToTrade, 3 * Unit) \in Nat /\ Least(f.cancelToTrade, 3 * Unit) <= 30000 BY <1>1 DEF Least, Unit
    <2>2. 3 * f.cancelProbability \in Nat /\ 3 * f.cancelProbability <= 30000 BY <1>1
    <2> QED BY <2>1, <2>2 DEF Most
<1>5. pressure \in Nat /\ pressure <= 5000 BY <1>1 DEF Least, Magnitude
<1>6. Spoofing(f) = Rounded(n, 120) BY DEF Spoofing
<1> HIDE DEF wall, lived, cancels, pressure
<1>7. n \in Int /\ n >= 0 BY <1>2, <1>3, <1>4, <1>5
<1>8. Rounded(n, 120) \in Int BY <1>7 DEF Rounded
<1>9. ASSUME f.wall < 46660 PROVE n <= 899931 BY <1>2, <1>3, <1>4, <1>5, <1>9
<1> HIDE DEF n
<1> QED BY <1>1, <1>6, <1>7, <1>8, <1>9, RoundedBelow DEF Alarm

LEMMA LayeringNeedsLayers ==
    ASSUME NEW f, IsMeasured(f), Layering(f) >= Alarm
    PROVE  f.large >= 3
<1> SUFFICES ASSUME f.large < 3 PROVE Layering(f) < Alarm
    BY DEF Layering, Layers, Rounded, Alarm, IsMeasured, Least, Most, Magnitude, Unit
<1> DEFINE depth == IF 5 * Most(f.bids, f.asks) > 7 * Least(f.bids, f.asks) THEN 2000 ELSE 700
           n == 21 * Least(f.wall, 5 * Unit) + 300 * Least(Magnitude(f.imbalance), 3500)
                + 105 * Least(f.replenishment, Unit) + 700 * (depth + Layers(f))
<1>1. n \in Int /\ n >= 0 /\ n <= 4550000 BY DEF IsMeasured, Layers, Least, Most, Magnitude, Unit
<1>2. Layering(f) = Rounded(n, 700) BY DEF Layering
<1> HIDE DEF n
<1> QED BY <1>1, <1>2, RoundedBelow DEF Alarm

LEMMA StuffingNeedsARate ==
    ASSUME NEW f, IsMeasured(f), QuoteStuffing(f) >= Alarm
    PROVE  f.rate >= 119988
<1> SUFFICES ASSUME f.rate < 119988 PROVE QuoteStuffing(f) < Alarm
    BY DEF QuoteStuffing, Rounded, Alarm, IsMeasured, Least, Unit
<1> DEFINE n == 4 * Least(f.rate, 18 * Unit) + 3 * Least(f.cancelToTrade, 8 * Unit)
<1>1. n \in Int /\ n >= 0 /\ n <= 719948 BY DEF IsMeasured, Least, Unit
<1>2. QuoteStuffing(f) = Rounded(n, 96) BY DEF QuoteStuffing
<1> HIDE DEF n
<1> QED BY <1>1, <1>2, RoundedBelow DEF Alarm

LEMMA ShockNeedsALoss ==
    ASSUME NEW f, IsMeasured(f), LiquidityShock(f) >= Alarm
    PROVE  f.depthChange <= -199950
<1> SUFFICES ASSUME f.depthChange > -199950 PROVE LiquidityShock(f) < Alarm
    BY DEF LiquidityShock, Rounded, Alarm, IsMeasured, Least, Magnitude, Unit
<1> DEFINE n == 11 * Least(Magnitude(Least(f.depthChange, 0)), 45 * Unit) + 385 * Least(f.spread, Unit)
                + 400 * Least(Magnitude(f.imbalance), 5500)
<1>1. n \in Int /\ n >= 0 /\ n <= 8249439 BY DEF IsMeasured, Least, Magnitude, Unit
<1>2. LiquidityShock(f) = Rounded(n, 1100) BY DEF LiquidityShock
<1> HIDE DEF n
<1> QED BY <1>1, <1>2, RoundedBelow DEF Alarm

LEMMA EvidenceConclusive ==
    ASSUME NEW f, IsMeasured(f), NEW d \in Alerts(f)
    PROVE  Conclusive(d, Evidence(f)[d])
<1>1. Evidence(f)[d] = CASE d = "spoofing_like" -> SpoofingEvidence(f)
                         [] d = "layering_like" -> LayeringEvidence(f)
                         [] d = "quote_stuffing" -> QuoteEvidence(f)
                         [] d = "liquidity_shock" -> ShockEvidence(f)
    BY DEF Evidence
<1>2. d \in {"spoofing_like", "layering_like", "quote_stuffing", "liquidity_shock"} BY DEF Alerts
<1>3. CASE d = "spoofing_like"
    <2>1. Spoofing(f) >= Alarm BY <1>3 DEF Alerts
    <2>2. Evidence(f)[d].wall = f.wall BY <1>1, <1>3 DEF SpoofingEvidence
    <2> QED BY <1>3, <2>1, <2>2, SpoofingNeedsAWall DEF Conclusive
<1>4. CASE d = "layering_like"
    <2>1. Layering(f) >= Alarm BY <1>4 DEF Alerts
    <2>2. Evidence(f)[d].large = f.large BY <1>1, <1>4 DEF LayeringEvidence
    <2> QED BY <1>4, <2>1, <2>2, LayeringNeedsLayers DEF Conclusive
<1>5. CASE d = "quote_stuffing"
    <2>1. QuoteStuffing(f) >= Alarm BY <1>5 DEF Alerts
    <2>2. Evidence(f)[d].rate = f.rate BY <1>1, <1>5 DEF QuoteEvidence
    <2> QED BY <1>5, <2>1, <2>2, StuffingNeedsARate DEF Conclusive
<1>6. CASE d = "liquidity_shock"
    <2>1. LiquidityShock(f) >= Alarm BY <1>6 DEF Alerts
    <2>2. Evidence(f)[d].depthChange = f.depthChange BY <1>1, <1>6 DEF ShockEvidence
    <2> QED BY <1>6, <2>1, <2>2, ShockNeedsALoss DEF Conclusive
<1> QED BY <1>2, <1>3, <1>4, <1>5, <1>6

\* Supporting signals alone never raise an alarm, whatever the features: what a
\* batch keeps of a layering alert shows three large levels, and so on.
THEOREM AlarmsShowTheirReason == Spec => []AlertsNeedEvidence
<1>1. ReadingsConclusive BY SessionsMeasured, EvidenceConclusive DEF ReadingsConclusive
<1>2. ASSUME NEW s \in DOMAIN Sessions, NEW session \in Sessions[s], NEW e \in Observed(session).evidence
      PROVE  Conclusive(e[1], e[2])
    <2> DEFINE shown == [t \in DOMAIN session.ticks |-> Evidence(TickFeatures(session, t))]
    <2>1. Observed(session).evidence = ShownOf(shown) BY DEF Observed, KeptOf, Kept
    <2>2. PICK t \in DOMAIN shown : \E d \in DOMAIN shown[t] : e = <<d, shown[t][d]>> BY <1>2, <2>1 DEF ShownOf
    <2>3. shown[t] = Evidence(TickFeatures(session, t)) /\ t \in DOMAIN session.ticks BY <2>2
    <2>4. PICK d \in DOMAIN Evidence(TickFeatures(session, t)) : e = <<d, Evidence(TickFeatures(session, t))[d]>>
        BY <2>2, <2>3
    <2>5. d \in Alerts(TickFeatures(session, t)) BY DEF Evidence
    <2>6. IsMeasured(TickFeatures(session, t)) BY <2>3, SessionsMeasured DEF IsSession
    <2> QED BY <2>4, <2>5, <2>6, EvidenceConclusive
<1>3. Init => AlertsNeedEvidence
    <2> SUFFICES ASSUME Init, NEW r \in Runs, NEW e \in outcome[r].evidence PROVE Conclusive(e[1], e[2])
        BY <1>1 DEF AlertsNeedEvidence
    <2>1. plan[r] \in DOMAIN Sessions /\ outcome[r] \in Outcomes[plan[r]] BY SessionsMeasured DEF Init
    <2>2. PICK session \in Sessions[plan[r]] : outcome[r] = Observed(session) BY <2>1 DEF Outcomes
    <2> QED BY <1>2, <2>1, <2>2
<1>4. AlertsNeedEvidence /\ [Next]_vars => AlertsNeedEvidence'
    <2> SUFFICES ASSUME AlertsNeedEvidence, [Next]_vars PROVE AlertsNeedEvidence' OBVIOUS
    <2>1. UNCHANGED outcome
        BY DEF Next, Step, RunBatch, TakeRun, FinishRun, OpenFile, FillFile, Killed, Normalize, CopyFile, Record, vars, given
    <2> QED BY <2>1 DEF AlertsNeedEvidence, ReadingsConclusive
<1> QED BY <1>3, <1>4, PTL DEF Spec

-----------------------------------------------------------------------------
(* The order of the results *)

LEMMA LeastOf ==
    ASSUME NEW S \in SUBSET Nat, S # {}
    PROVE  \E n \in S : \A m \in S : n <= m
<1>1. IsWellFoundedOn(OpToRel(<, Nat), Nat) BY NatLessThanWellFounded
<1>2. PICK n \in S : \A m \in S : <<m, n>> \notin OpToRel(<, Nat) BY <1>1, WFMin
<1>3. \A m \in S : ~(m < n) BY <1>2 DEF OpToRel
<1> QED BY <1>3

Increasing(order) == \A i, j \in DOMAIN order : i < j => order[i] < order[j]

\* Numbers from one to n in increasing order are the numbers in their places.
LEMMA IncreasingInPlace ==
    ASSUME NEW n \in Nat, NEW order \in [1 .. n -> 1 .. n], Increasing(order), NEW i \in 1 .. n
    PROVE  order[i] = i
<1>1. ASSUME NEW k \in 1 .. n, order[k] < k PROVE FALSE
    <2> DEFINE low == {j \in 1 .. n : order[j] < j}
    <2>1. PICK j \in low : \A m \in low : j <= m
        <3>1. low \in SUBSET Nat /\ low # {} BY <1>1
        <3> HIDE DEF low
        <3> QED BY <3>1, LeastOf
    <2>2. j # 1 BY <2>1
    <2>3. j - 1 \in 1 .. n /\ ~(j <= j - 1) BY <2>1, <2>2
    <2>4. order[j - 1] >= j - 1 BY <2>1, <2>3
    <2>5. order[j - 1] < order[j] BY <2>1, <2>3 DEF Increasing
    <2> QED BY <2>1, <2>3, <2>4, <2>5
<1>2. ASSUME NEW k \in 1 .. n, order[k] > k PROVE FALSE
    <2> DEFINE high == {d \in 0 .. n : n - d \in 1 .. n /\ order[n - d] > n - d}
    <2>1. PICK d \in high : \A m \in high : d <= m
        <3>1. n - k \in 0 .. n /\ n - (n - k) = k OBVIOUS
        <3>2. n - k \in high BY <1>2, <3>1
        <3>3. high \in SUBSET Nat OBVIOUS
        <3> HIDE DEF high
        <3> QED BY <3>2, <3>3, LeastOf
    <2>2. d # 0 BY <2>1
    <2>3. d - 1 \in 0 .. n /\ n - (d - 1) \in 1 .. n /\ ~(d <= d - 1) BY <2>1, <2>2
    <2>4. order[n - (d - 1)] <= n - (d - 1)
        <3>1. d - 1 \notin high BY <2>1, <2>3
        <3>2. order[n - (d - 1)] \in 1 .. n BY <2>3
        <3> QED BY <2>3, <3>1, <3>2
    <2>5. order[n - d] < order[n - (d - 1)] BY <2>1, <2>3 DEF Increasing
    <2> QED BY <2>1, <2>3, <2>4, <2>5
<1> QED BY <1>1, <1>2

InPlace == [r \in Runs |-> r]

\* In whatever order all runs came, they are written in theirs.
LEMMA SortedInPlace ==
    ASSUME NEW results, ToSet(results) = Runs
    PROVE  InOrder(results) = InPlace
<1> DEFINE order == InOrder(results)
<1>1. Total \in Nat /\ Runs = 1 .. Total BY TotalPositive DEF Runs
<1>2. Cardinality(Runs) = Total BY <1>1, TotalPositive, FS_Interval
<1>3. order = CHOOSE o \in [1 .. Total -> 1 .. Total] : Increasing(o)
    BY <1>1, <1>2 DEF InOrder, Increasing
<1>4. InPlace \in [1 .. Total -> 1 .. Total] /\ Increasing(InPlace) BY <1>1 DEF InPlace, Increasing
<1> HIDE DEF order
<1>5. order \in [1 .. Total -> 1 .. Total] /\ Increasing(order) BY <1>3, <1>4
<1>6. \A i \in 1 .. Total : order[i] = i BY <1>1, <1>5, IncreasingInPlace
<1>7. order = InPlace BY <1>1, <1>4, <1>5, <1>6 DEF InPlace
<1> QED BY <1>7 DEF order

LEMMA EarliestIsOne ==
    ASSUME NEW S \in SUBSET Nat, S # {}
    PROVE  Earliest(S) \in S
BY LeastOf DEF Earliest

-----------------------------------------------------------------------------
(* The processes and the files *)

Fields == {"pc", "pending", "running", "results", "at", "open", "alone"}

\* A run is waiting, being played or played, and played once.
Playing(p) ==
    /\ p.results \in Seq(Runs) /\ p.pending \in SUBSET Runs /\ p.running \in SUBSET Runs
    /\ p.pending \cap p.running = {}
    /\ p.pending \cup p.running \cup ToSet(p.results) = Runs
    /\ Len(p.results) + Cardinality(p.pending) + Cardinality(p.running) = Total

\* Who writes has all results, and left the files before the one it is at.
ProcGood(p, there) ==
    /\ DOMAIN p = Fields
    /\ p.pc = "running" => Playing(p) /\ p.at = 1
    /\ p.pc = "writing" =>
          /\ ToSet(p.results) = Runs
          /\ p.at \in 1 .. 5 /\ \A i \in 1 .. 5 : i < p.at => Files[i] \in there
          /\ p.open => Files[p.at] \in there

FilesInv ==
    /\ proc = [q \in Requests |-> proc[q]]
    /\ \A q \in Requests : ProcGood(proc[q], DOMAIN disk)
    /\ DOMAIN disk \in SUBSET Names
    /\ FilesTellTheRuns

LEMMA FilesAre ==
    /\ Len(Files) = 5 /\ \A i \in 1 .. 5 : Files[i] \in Names
    /\ Names = {Files[1], Files[2], Files[3], Files[4], Files[5]}
    /\ Files[5] = "manifest" /\ \A i \in 1 .. 4 : Files[i] # "manifest"
BY DEF Files, Names

\* What an undisturbed batch would write does not change.
LEMMA ExpectedKept ==
    ASSUME UNCHANGED given
    PROVE  \A f : Expected(f)' = Expected(f)
BY DEF given, Expected, Written, AlertRows, ScoreRow, RatesOf, Scored, Detected, Attack, Runs

LEMMA GoodGrows ==
    ASSUME NEW p, NEW there, ProcGood(p, there), NEW more, there \subseteq more
    PROVE  ProcGood(p, more)
BY DEF ProcGood

LEMMA FreshIsGood ==
    ASSUME NEW there, NEW pc, pc \notin {"running", "writing"}
    PROVE  ProcGood([Fresh EXCEPT !.pc = pc], there)
BY DEF ProcGood, Fresh, Fields

\* A step that changes one process and no file.
LEMMA OneProcess ==
    ASSUME FilesInv, UNCHANGED <<given, disk>>, NEW q \in Requests, NEW p, Becomes(q, p), ProcGood(p, DOMAIN disk)
    PROVE  FilesInv'
<1>1. proc' = [o \in Requests |-> proc'[o]] /\ proc'[q] = p /\ \A o \in Requests : o # q => proc'[o] = proc[o]
    BY DEF Becomes, FilesInv
<1>2. FilesTellTheRuns' BY ExpectedKept DEF FilesInv, FilesTellTheRuns
<1> QED BY <1>1, <1>2 DEF FilesInv, Names, Files

\* A step that puts a file there, whole or torn.
LEMMA OneFile ==
    ASSUME FilesInv, UNCHANGED given, NEW i \in 1 .. 5, NEW content, content = Torn \/ content = Expected(Files[i]),
           disk' = Put(disk, Files[i], content),
           i = 5 => \A j \in 1 .. 4 : Files[j] \in DOMAIN disk
    PROVE  /\ FilesTellTheRuns' /\ DOMAIN disk' \in SUBSET Names
           /\ DOMAIN disk' = DOMAIN disk \cup {Files[i]}
<1>1. /\ DOMAIN disk' = DOMAIN disk \cup {Files[i]}
      /\ \A f \in DOMAIN disk' : disk'[f] = IF f = Files[i] THEN content ELSE disk[f]
    BY DEF Put
<1>2. \A f \in DOMAIN disk' : disk'[f] = Torn \/ disk'[f] = Expected(f)'
    BY <1>1, ExpectedKept DEF FilesInv, FilesTellTheRuns
<1>3. DOMAIN disk' \in SUBSET Names BY <1>1, FilesAre DEF FilesInv
<1>4. "manifest" \in DOMAIN disk' => DOMAIN disk' = Names
    <2>1. CASE i = 5 BY <1>1, <1>3, <2>1, FilesAre
    <2>2. CASE i # 5
        <3>1. i \in 1 .. 4 BY <2>2
        <3>2. Files[i] # "manifest" BY <3>1, FilesAre
        <3>3. "manifest" \in DOMAIN disk' => "manifest" \in DOMAIN disk BY <1>1, <3>2
        <3> QED BY <1>1, <1>3, <3>3 DEF FilesInv, FilesTellTheRuns
    <2> QED BY <2>1, <2>2
<1>5. FilesTellTheRuns' BY <1>2, <1>4 DEF FilesTellTheRuns, Names, Files
<1> QED BY <1>1, <1>3, <1>5

LEMMA TakeKeepsFiles ==
    ASSUME FilesInv, NEW q \in Requests, TakeRun(q)
    PROVE  FilesInv'
<1>1. PICK p : p = proc[q] OBVIOUS
<1>2. /\ p.pc = "running" /\ p.pending # {} /\ DOMAIN p = Fields /\ Playing(p) /\ p.at = 1
    BY <1>1 DEF TakeRun, FilesInv, ProcGood
<1>3. PICK r : r = Earliest(p.pending) OBVIOUS
<1>4. Runs \in SUBSET Nat /\ IsFiniteSet(Runs)
    BY TotalPositive, FS_Interval DEF Runs
<1>5. r \in p.pending BY <1>2, <1>3, <1>4, EarliestIsOne DEF Playing
<1> DEFINE next == [p EXCEPT !.pending = @ \ {r}, !.running = @ \cup {r}]
<1>6. Becomes(q, next) /\ UNCHANGED <<given, disk>> BY <1>1, <1>3 DEF TakeRun
<1>7. /\ DOMAIN next = Fields /\ next.pc = "running" /\ next.at = 1 /\ next.results = p.results
      /\ next.pending = p.pending \ {r} /\ next.running = p.running \cup {r}
    BY <1>2 DEF Fields
<1> HIDE DEF next
<1>8. Playing(next)
    <2>1. IsFiniteSet(p.pending) /\ IsFiniteSet(p.running) BY <1>2, <1>4, FS_Subset DEF Playing
    <2>2. Cardinality(next.pending) = Cardinality(p.pending) - 1 /\ Cardinality(p.pending) \in Nat
        BY <1>5, <1>7, <2>1, FS_RemoveElement, FS_CardinalityType
    <2>3. Cardinality(next.running) = Cardinality(p.running) + 1 /\ Cardinality(p.running) \in Nat
        BY <1>2, <1>5, <1>7, <2>1, FS_AddElement, FS_CardinalityType DEF Playing
    <2>4. Len(p.results) \in Nat BY <1>2 DEF Playing
    <2>5. Len(next.results) + Cardinality(next.pending) + Cardinality(next.running) = Total
        BY <1>2, <1>7, <2>2, <2>3, <2>4 DEF Playing
    <2> QED BY <1>2, <1>5, <1>7, <2>5 DEF Playing
<1>9. ProcGood(next, DOMAIN disk) BY <1>7, <1>8 DEF ProcGood
<1> QED BY <1>6, <1>9, OneProcess

LEMMA FinishKeepsFiles ==
    ASSUME FilesInv, NEW q \in Requests, NEW r \in Runs, FinishRun(q, r)
    PROVE  FilesInv'
<1>1. PICK p : p = proc[q] OBVIOUS
<1>2. /\ p.pc = "running" /\ r \in p.running /\ DOMAIN p = Fields /\ Playing(p) /\ p.at = 1
    BY <1>1 DEF FinishRun, FilesInv, ProcGood
<1>3. IsFiniteSet(Runs) BY TotalPositive, FS_Interval DEF Runs
<1> DEFINE next == [p EXCEPT !.running = @ \ {r}, !.results = Append(@, r)]
<1>4. Becomes(q, next) /\ UNCHANGED <<given, disk>> BY <1>1 DEF FinishRun
<1>5. /\ DOMAIN next = Fields /\ next.pc = "running" /\ next.at = 1 /\ next.pending = p.pending
      /\ next.running = p.running \ {r} /\ next.results = Append(p.results, r)
    BY <1>2 DEF Fields
<1> HIDE DEF next
<1>6. /\ next.results \in Seq(Runs) /\ Len(next.results) = Len(p.results) + 1 /\ Len(p.results) \in Nat
      /\ ToSet(next.results) = ToSet(p.results) \cup {r}
    <2>1. p.results \in Seq(Runs) BY <1>2 DEF Playing
    <2>2. /\ next.results \in Seq(Runs) /\ Len(next.results) = Len(p.results) + 1 /\ Len(p.results) \in Nat
          /\ \A i \in 1 .. Len(p.results) : next.results[i] = p.results[i]
          /\ next.results[Len(p.results) + 1] = r
        BY <1>5, <2>1
    <2>3. DOMAIN p.results = 1 .. Len(p.results) /\ DOMAIN next.results = 1 .. Len(p.results) + 1 BY <2>1, <2>2
    <2>4. ASSUME NEW x \in ToSet(next.results) PROVE x \in ToSet(p.results) \cup {r}
        <3>1. PICK i \in 1 .. Len(p.results) + 1 : x = next.results[i] BY <2>3 DEF ToSet
        <3>2. CASE i = Len(p.results) + 1 BY <2>2, <3>1, <3>2
        <3>3. CASE i # Len(p.results) + 1
            <4>1. i \in 1 .. Len(p.results) BY <2>2, <3>1, <3>3
            <4> QED BY <2>2, <2>3, <3>1, <4>1 DEF ToSet
        <3> QED BY <3>2, <3>3
    <2>5. ASSUME NEW x \in ToSet(p.results) PROVE x \in ToSet(next.results)
        <3>1. PICK i \in 1 .. Len(p.results) : x = p.results[i] BY <2>3 DEF ToSet
        <3>2. i \in DOMAIN next.results BY <2>2, <2>3, <3>1
        <3> QED BY <2>2, <3>1, <3>2 DEF ToSet
    <2>6. r \in ToSet(next.results)
        <3>1. Len(p.results) + 1 \in DOMAIN next.results BY <2>2, <2>3
        <3> QED BY <2>2, <3>1 DEF ToSet
    <2>7. ToSet(next.results) = ToSet(p.results) \cup {r} BY <2>4, <2>5, <2>6
    <2> QED BY <2>2, <2>7
<1>7. Playing(next)
    <2>1. IsFiniteSet(p.running) /\ IsFiniteSet(p.pending) BY <1>2, <1>3, FS_Subset DEF Playing
    <2>2. Cardinality(next.running) = Cardinality(p.running) - 1 /\ Cardinality(p.running) \in Nat
        <3>1. Cardinality(p.running \ {r}) = Cardinality(p.running) - 1 BY <1>2, <2>1, FS_RemoveElement
        <3>2. Cardinality(p.running) \in Nat BY <2>1, FS_CardinalityType
        <3> QED BY <1>5, <3>1, <3>2
    <2>3. Cardinality(p.pending) \in Nat BY <2>1, FS_CardinalityType
    <2>4. Len(next.results) + Cardinality(next.pending) + Cardinality(next.running) = Total
        BY <1>2, <1>5, <1>6, <2>2, <2>3 DEF Playing
    <2> QED BY <1>2, <1>5, <1>6, <2>4 DEF Playing
<1>8. ProcGood(next, DOMAIN disk) BY <1>5, <1>7 DEF ProcGood
<1> QED BY <1>4, <1>8, OneProcess

\* A process opens its first file when all runs are played.
LEMMA AllPlayed ==
    ASSUME NEW p, Playing(p), Len(p.results) = Total
    PROVE  ToSet(p.results) = Runs
<1>1. IsFiniteSet(Runs) BY TotalPositive, FS_Interval DEF Runs
<1>2. IsFiniteSet(p.pending) /\ IsFiniteSet(p.running) BY <1>1, FS_Subset DEF Playing
<1>3. Cardinality(p.pending) \in Nat /\ Cardinality(p.running) \in Nat BY <1>2, FS_CardinalityType
<1>4. Cardinality(p.pending) = 0 /\ Cardinality(p.running) = 0 BY <1>3, TotalPositive DEF Playing
<1>5. p.pending = {} /\ p.running = {} BY <1>2, <1>4, FS_EmptySet
<1> QED BY <1>5 DEF Playing

LEMMA OpenKeepsFiles ==
    ASSUME FilesInv, NEW q \in Requests, OpenFile(q)
    PROVE  FilesInv'
<1>1. PICK p : p = proc[q] OBVIOUS
<1>2. DOMAIN p = Fields /\ ToSet(p.results) = Runs /\ p.at \in 1 .. 5
      /\ \A j \in 1 .. 5 : j < p.at => Files[j] \in DOMAIN disk
    <2>1. ProcGood(p, DOMAIN disk) BY <1>1 DEF FilesInv
    <2>2. CASE p.pc = "running" /\ Len(p.results) = Total BY <2>1, <2>2, AllPlayed DEF ProcGood
    <2>3. CASE p.pc = "writing" BY <2>1, <2>3 DEF ProcGood
    <2> QED BY <1>1, <2>2, <2>3 DEF OpenFile
<1>3. UNCHANGED given /\ disk' = Put(disk, Files[p.at], Torn) BY <1>1 DEF OpenFile
<1>4. p.at = 5 => \A j \in 1 .. 4 : Files[j] \in DOMAIN disk BY <1>2
<1>5. PICK i \in 1 .. 5 : i = p.at BY <1>2
<1>6. FilesTellTheRuns' /\ DOMAIN disk' \in SUBSET Names /\ DOMAIN disk' = DOMAIN disk \cup {Files[p.at]}
    BY <1>3, <1>4, <1>5, OneFile
<1>7. PICK there : there = DOMAIN disk' OBVIOUS
<1>8. PICK alone : alone = (Writers(q) = {}) OBVIOUS
<1> DEFINE next == [p EXCEPT !.pc = "writing", !.open = TRUE, !.alone = alone]
<1>9. proc' = [o \in Requests |->
                  IF o = q THEN next
                  ELSE IF o \in Writers(q) THEN [proc[o] EXCEPT !.alone = FALSE] ELSE proc[o]]
    BY <1>1, <1>8 DEF OpenFile
<1>10. ProcGood(next, there)
    <2>1. DOMAIN next = Fields /\ next.pc = "writing" /\ next.results = p.results /\ next.at = p.at
        BY <1>2 DEF Fields
    <2> HIDE DEF next
    <2> QED BY <1>2, <1>6, <1>7, <2>1 DEF ProcGood
<1> HIDE DEF next
<1>11. ASSUME NEW o \in Requests PROVE ProcGood([proc[o] EXCEPT !.alone = FALSE], there) /\ ProcGood(proc[o], there)
    <2>1. PICK x : x = proc[o] OBVIOUS
    <2>2. ProcGood(x, there) BY <1>6, <1>7, <2>1, GoodGrows DEF FilesInv
    <2> DEFINE y == [x EXCEPT !.alone = FALSE]
    <2>3. /\ DOMAIN y = Fields /\ y.pc = x.pc /\ y.results = x.results /\ y.at = x.at /\ y.open = x.open
          /\ y.pending = x.pending /\ y.running = x.running
        BY <2>2 DEF ProcGood, Fields
    <2> HIDE DEF y
    <2>4. ProcGood(y, there) BY <2>2, <2>3 DEF ProcGood, Playing
    <2> QED BY <2>1, <2>2, <2>4 DEF y
<1>12. \A o \in Requests : ProcGood(proc'[o], there) BY <1>9, <1>10, <1>11
<1>13. proc' = [o \in Requests |-> proc'[o]] BY <1>9
<1> QED BY <1>6, <1>7, <1>12, <1>13 DEF FilesInv, ProcGood, Playing, Names, Files, Runs

LEMMA FillKeepsFiles ==
    ASSUME FilesInv, NEW q \in Requests, FillFile(q)
    PROVE  FilesInv'
<1>1. PICK p : p = proc[q] OBVIOUS
<1>2. /\ p.pc = "writing" /\ p.open /\ DOMAIN p = Fields /\ ToSet(p.results) = Runs /\ p.at \in 1 .. 5
      /\ \A j \in 1 .. 5 : j < p.at => Files[j] \in DOMAIN disk
      /\ Files[p.at] \in DOMAIN disk
    BY <1>1 DEF FillFile, FilesInv, ProcGood
<1>3. PICK i \in 1 .. 5 : i = p.at BY <1>2
<1>4. Written(Files[i], InOrder(p.results)) = Expected(Files[i]) BY <1>2, SortedInPlace DEF Expected, InPlace
<1>5. PICK content \in {Expected(Files[i]), Torn} : disk' = Put(disk, Files[i], content)
    BY <1>1, <1>3, <1>4 DEF FillFile
<1>6. UNCHANGED given BY DEF FillFile
<1>7. i = 5 => \A j \in 1 .. 4 : Files[j] \in DOMAIN disk BY <1>2, <1>3
<1>8. /\ FilesTellTheRuns' /\ DOMAIN disk' \in SUBSET Names
      /\ DOMAIN disk' = DOMAIN disk \cup {Files[i]}
    BY <1>5, <1>6, <1>7, OneFile
<1>9. PICK there : there = DOMAIN disk' OBVIOUS
<1> DEFINE next == IF p.at < Len(Files) THEN [p EXCEPT !.at = @ + 1, !.open = FALSE] ELSE [Fresh EXCEPT !.pc = "copying"]
<1>10. Becomes(q, next) BY <1>1 DEF FillFile
<1>11. ProcGood(next, there)
    <2>1. CASE p.at < 5
        <3> DEFINE y == [p EXCEPT !.at = @ + 1, !.open = FALSE]
        <3>1. /\ DOMAIN y = Fields /\ y.pc = "writing" /\ y.results = p.results /\ y.at = p.at + 1 /\ ~y.open
            BY <1>2 DEF Fields
        <3>2. next = y BY <2>1, FilesAre
        <3> HIDE DEF y
        <3>3. \A j \in 1 .. 5 : j < y.at => Files[j] \in there BY <1>2, <1>8, <1>9, <3>1
        <3>4. ProcGood(y, there) BY <1>2, <2>1, <3>1, <3>3 DEF ProcGood
        <3> QED BY <3>2, <3>4
    <2>2. CASE ~(p.at < 5) BY <2>2, FilesAre, FreshIsGood
    <2> QED BY <2>1, <2>2
<1> HIDE DEF next
<1>12. ASSUME NEW o \in Requests PROVE ProcGood(proc'[o], there)
    <2>1. proc'[q] = next /\ (o # q => proc'[o] = proc[o]) BY <1>10 DEF Becomes, FilesInv
    <2>2. ProcGood(proc[o], there) BY <1>8, <1>9, GoodGrows DEF FilesInv
    <2> QED BY <1>11, <2>1, <2>2
<1>13. proc' = [o \in Requests |-> proc'[o]] BY <1>10 DEF Becomes, FilesInv
<1> QED BY <1>8, <1>9, <1>12, <1>13 DEF FilesInv, ProcGood, Playing, Names, Files, Runs

\* What neither plays runs nor writes files of the batch.
LEMMA OthersKeepFiles ==
    ASSUME FilesInv, NEW q \in Requests,
           RunBatch(q) \/ Killed(q) \/ Normalize(q) \/ CopyFile(q) \/ Record(q)
    PROVE  FilesInv'
<1>1. CASE RunBatch(q)
    <2> DEFINE next == [Fresh EXCEPT !.pc = "running", !.pending = Runs]
    <2>1. Becomes(q, next) /\ UNCHANGED <<given, disk>> BY <1>1 DEF RunBatch
    <2>2. /\ DOMAIN next = Fields /\ next.pc = "running" /\ next.at = 1 /\ next.results = <<>>
          /\ next.pending = Runs /\ next.running = {}
        BY DEF Fresh, Fields
    <2> HIDE DEF next
    <2>3. Playing(next)
        <3>1. Cardinality(Runs) = Total /\ Total \in Nat /\ Cardinality({}) = 0
            BY TotalPositive, FS_Interval, FS_EmptySet DEF Runs
        <3>2. next.results \in Seq(Runs) /\ Len(next.results) = 0 /\ ToSet(next.results) = {} BY <2>2 DEF ToSet
        <3> QED BY <2>2, <3>1, <3>2 DEF Playing
    <2>4. ProcGood(next, DOMAIN disk) BY <2>2, <2>3 DEF ProcGood
    <2> QED BY <2>1, <2>4, OneProcess
<1>2. CASE Killed(q)
    <2>1. PICK pc \in {ExitFailed, "failed"} : Becomes(q, [Fresh EXCEPT !.pc = pc]) BY <1>2 DEF Killed
    <2>2. pc \notin {"running", "writing"} BY DEF ExitFailed
    <2>3. UNCHANGED <<given, disk>> BY <1>2 DEF Killed
    <2>4. ProcGood([Fresh EXCEPT !.pc = pc], DOMAIN disk) BY <2>2, FreshIsGood
    <2> QED BY <2>1, <2>3, <2>4, OneProcess
<1>3. CASE Normalize(q)
    <2>1. Becomes(q, [Fresh EXCEPT !.pc = "normalizing"]) /\ UNCHANGED <<given, disk>> BY <1>3 DEF Normalize
    <2> QED BY <2>1, FreshIsGood, OneProcess
<1>4. CASE CopyFile(q)
    <2>1. PICK p : p = proc[q] OBVIOUS
    <2>2. p.pc \in {"copying", "normalizing"} /\ DOMAIN p = Fields /\ UNCHANGED <<given, disk>>
        BY <1>4, <2>1 DEF CopyFile, FilesInv, ProcGood
    <2>3. Becomes(q, IF p.at < Len(Files) THEN [p EXCEPT !.at = @ + 1]
                     ELSE [Fresh EXCEPT !.pc = IF p.pc = "copying" THEN "recording" ELSE "normalized"])
        BY <1>4, <2>1 DEF CopyFile
    <2>4. CASE p.at < Len(Files)
        <3> DEFINE next == [p EXCEPT !.at = @ + 1]
        <3>1. DOMAIN next = Fields /\ next.pc = p.pc BY <2>2 DEF Fields
        <3> HIDE DEF next
        <3>2. ProcGood(next, DOMAIN disk) BY <2>2, <3>1 DEF ProcGood
        <3>3. Becomes(q, next) BY <2>3, <2>4 DEF next
        <3> QED BY <2>2, <3>2, <3>3, OneProcess
    <2>5. CASE ~(p.at < Len(Files))
        <3>1. PICK pc \in {"recording", "normalized"} : Becomes(q, [Fresh EXCEPT !.pc = pc]) BY <2>3, <2>5
        <3>2. ProcGood([Fresh EXCEPT !.pc = pc], DOMAIN disk) BY FreshIsGood
        <3> QED BY <2>2, <3>1, <3>2, OneProcess
    <2> QED BY <2>4, <2>5
<1>5. CASE Record(q)
    <2>1. PICK pc \in {"completed", "failed"} : Becomes(q, [Fresh EXCEPT !.pc = pc]) BY <1>5 DEF Record
    <2>2. UNCHANGED <<given, disk>> BY <1>5 DEF Record
    <2>3. ProcGood([Fresh EXCEPT !.pc = pc], DOMAIN disk) BY FreshIsGood
    <2> QED BY <2>1, <2>2, <2>3, OneProcess
<1> QED BY <1>1, <1>2, <1>3, <1>4, <1>5

LEMMA FilesInvHolds ==
    /\ Init => FilesInv
    /\ FilesInv /\ [Next]_vars => FilesInv'
<1>1. Init => FilesInv
    <2> SUFFICES ASSUME Init PROVE FilesInv OBVIOUS
    <2>1. proc = [q \in Requests |-> Fresh] /\ DOMAIN disk = {} BY DEF Init
    <2>2. ProcGood(Fresh, DOMAIN disk)
        <3>1. DOMAIN Fresh = Fields /\ Fresh.pc = "idle" BY DEF Fresh, Fields
        <3> QED BY <3>1 DEF ProcGood
    <2>3. FilesTellTheRuns BY <2>1 DEF FilesTellTheRuns
    <2> QED BY <2>1, <2>2, <2>3 DEF FilesInv
<1>2. FilesInv /\ [Next]_vars => FilesInv'
    <2> SUFFICES ASSUME FilesInv, [Next]_vars PROVE FilesInv' OBVIOUS
    <2>1. ASSUME NEW q \in Requests, Step(q) PROVE FilesInv'
        <3>1. CASE TakeRun(q) BY <3>1, TakeKeepsFiles
        <3>2. CASE \E r \in Runs : FinishRun(q, r) BY <3>2, FinishKeepsFiles
        <3>3. CASE OpenFile(q) BY <3>3, OpenKeepsFiles
        <3>4. CASE FillFile(q) BY <3>4, FillKeepsFiles
        <3>5. CASE RunBatch(q) \/ Killed(q) \/ Normalize(q) \/ CopyFile(q) \/ Record(q) BY <3>5, OthersKeepFiles
        <3> QED BY <2>1, <3>1, <3>2, <3>3, <3>4, <3>5 DEF Step
    <2>2. CASE UNCHANGED vars
        <3>1. UNCHANGED <<given, proc, disk>> BY <2>2 DEF vars, given
        <3>2. FilesTellTheRuns' BY <3>1, ExpectedKept DEF FilesInv, FilesTellTheRuns
        <3> QED BY <3>1, <3>2 DEF FilesInv, ProcGood, Playing, Names, Files, Runs
    <2> QED BY <2>1, <2>2 DEF Next
<1> QED BY <1>1, <1>2

\* Whatever threads, batches and kills do to each other, a file of the output
\* directory holds all runs in their order or is torn, and none is missing beside
\* a manifest.
THEOREM FilesTellEveryRun == Spec => []FilesTellTheRuns
<1>3. FilesInv => FilesTellTheRuns BY DEF FilesInv
<1> QED BY <1>3, FilesInvHolds, PTL DEF Spec

-----------------------------------------------------------------------------
(* The scores *)

\* A window is none, or two ticks.
LEMMA WindowIsOfTicks ==
    ASSUME NEW label, IsLabel(label), PrimaryWindow(label) # None
    PROVE  /\ PrimaryWindow(label)[1] \in Int /\ PrimaryWindow(label)[2] \in Int
           /\ PrimaryWindow(label)[1] <= PrimaryWindow(label)[2]
<1> DEFINE window == PrimaryWindow(label)
           listed == IF label.windows = <<>> THEN None ELSE Bounds(label.windows[1][1], label.windows[1][2])
<1>1. ASSUME NEW start \in Int \cup {None}, NEW stop \in Int \cup {None, 0}, Bounds(start, stop) # None
      PROVE  /\ Bounds(start, stop)[1] \in Int /\ Bounds(start, stop)[2] \in Int
             /\ Bounds(start, stop)[1] <= Bounds(start, stop)[2]
    <2>1. start \in Int /\ stop \in Int /\ Bounds(start, stop) = <<start, Latest(start, stop)>> BY <1>1 DEF Bounds
    <2> QED BY <2>1 DEF Latest
<1>2. CASE listed # None
    <2>1. window = listed BY <1>2 DEF PrimaryWindow
    <2>2. label.windows # <<>> /\ listed = Bounds(label.windows[1][1], label.windows[1][2]) BY <1>2
    <2>3. label.windows[1][1] \in Int \cup {None} /\ label.windows[1][2] \in Int \cup {None} BY <2>2 DEF IsLabel
    <2> HIDE DEF listed
    <2> QED BY <1>1, <1>2, <2>1, <2>2, <2>3
<1>3. CASE listed = None
    <2>1. window = Bounds(label.start, Either(label.actualEnd, label.expectedEnd)) BY <1>3 DEF PrimaryWindow
    <2>2. label.start \in Int \cup {None} /\ Either(label.actualEnd, label.expectedEnd) \in Int \cup {None}
        BY DEF IsLabel, Either
    <2> HIDE DEF window
    <2> QED BY <1>1, <2>1, <2>2 DEF window
<1> QED BY <1>2, <1>3

\* An alert on time is in the window, and one that is late, or none, leaves it empty.
LEMMA TimingTellsOverlap ==
    ASSUME NEW alerts \in SUBSET Nat, IsFiniteSet(alerts), NEW label, label # None => IsLabel(label), NEW named,
           Evaluation(alerts, label, named).overlap # None
    PROVE  LET score == Evaluation(alerts, label, named)
           IN  /\ score.timing = "on_time" => score.overlap[1] > 0
               /\ score.timing \in {"late", "missed"} => score.overlap[1] = 0
<1> DEFINE score == Evaluation(alerts, label, named)
           window == PrimaryWindow(label)
           positive == IF window = None THEN {} ELSE Ticks(window)
           both == alerts \cap positive
<1>1. label # None BY DEF Evaluation
<1>2. score.overlap = Overlap(alerts, positive) /\ score.timing = Timing(alerts, window) BY <1>1 DEF Evaluation
<1>3. score.overlap[1] = Cardinality(both) BY <1>2 DEF Overlap
<1>4. IsFiniteSet(both) BY FS_Subset
<1>5. Cardinality(both) \in Nat /\ (Cardinality(both) = 0 <=> both = {}) BY <1>4, FS_CardinalityType, FS_EmptySet
<1>6. PICK first : first = Earliest(alerts) OBVIOUS
<1>7. alerts # {} => first \in alerts /\ first \in Nat /\ \A t \in alerts : first <= t
    BY <1>6, LeastOf DEF Earliest
<1>8. window # None => window[1] \in Int /\ window[2] \in Int /\ positive = window[1] .. window[2]
    BY <1>1, WindowIsOfTicks DEF Ticks
<1>9. score.timing = IF alerts = {} THEN "missed" ELSE IF window = None THEN "not_applicable"
                     ELSE IF first < window[1] THEN "early" ELSE IF first <= window[2] THEN "on_time" ELSE "late"
    BY <1>2, <1>6 DEF Timing
<1> HIDE DEF score, window, positive
<1>10. ASSUME score.timing = "on_time" PROVE both # {}
    <2>1. alerts # {} /\ window # None /\ ~(first < window[1]) /\ first <= window[2]
        <3>1. alerts # {} BY <1>9, <1>10
        <3>2. window # None BY <1>9, <1>10, <3>1
        <3>3. ~(first < window[1]) BY <1>9, <1>10, <3>1, <3>2
        <3> QED BY <1>9, <1>10, <3>1, <3>2, <3>3
    <2>2. first \in positive BY <1>7, <1>8, <2>1
    <2> QED BY <1>7, <2>1, <2>2
<1>11. ASSUME score.timing \in {"late", "missed"} PROVE both = {}
    <2>1. CASE alerts = {} BY <2>1
    <2>2. CASE alerts # {}
        <3>1. window # None BY <1>9, <1>11, <2>2
        <3>2. ~(first <= window[2])
            <4>1. CASE first < window[1] BY <1>9, <1>11, <2>2, <3>1, <4>1
            <4>2. CASE ~(first < window[1]) BY <1>9, <1>11, <2>2, <3>1, <4>2
            <4> QED BY <4>1, <4>2
        <3>3. \A t \in alerts : t \notin positive BY <1>7, <1>8, <2>2, <3>1, <3>2
        <3> QED BY <3>3
    <2> QED BY <2>1, <2>2
<1> HIDE DEF both
<1> QED BY <1>3, <1>5, <1>10, <1>11 DEF score

\* The rates of a batch are those of its confusion matrix, from the numbers of
\* runs and of runs with an alert.
LEMMA RatesAgree ==
    ASSUME NEW n \in Nat \ {0}, NEW k \in Nat, k <= n
    PROVE  LET attack == BinaryRates([tp |-> k, fp |-> 0, fn |-> n - k, tn |-> 0])
               normal == BinaryRates([tp |-> 0, fp |-> k, fn |-> 0, tn |-> n - k])
               own == {"recall", "f1", "specificity", "falsePositiveRate"}
           IN  /\ \A rate \in own \cup {"precision"} : SameRate(BatchRates(n, k, TRUE)[rate], attack[rate])
               /\ \A rate \in own : SameRate(BatchRates(n, k, FALSE)[rate], normal[rate])
<1> DEFINE attack == BinaryRates([tp |-> k, fp |-> 0, fn |-> n - k, tn |-> 0])
           normal == BinaryRates([tp |-> 0, fp |-> k, fn |-> 0, tn |-> n - k])
           a == BatchRates(n, k, TRUE)
           b == BatchRates(n, k, FALSE)
           precision == IF k > 0 THEN <<1, 1>> ELSE None
<1>1. SameRate(None, None) /\ \A x, y \in Nat : SameRate(<<x, y>>, <<x, y>>) BY DEF SameRate
<1>2. \A x, y \in Nat : <<x, y>> # None BY NoneIsNoRate
<1>3. /\ a["recall"] = <<k, n>> /\ a["specificity"] = None /\ a["falsePositiveRate"] = None
      /\ a["precision"] = precision /\ a["f1"] = HarmonicMean(precision, <<k, n>>)
      /\ b["recall"] = None /\ b["f1"] = HarmonicMean(None, None)
      /\ b["specificity"] = <<n - k, n>> /\ b["falsePositiveRate"] = <<k, n>>
    BY DEF BatchRates
<1>4. /\ attack["recall"] = Fraction(k, k + (n - k)) /\ attack["specificity"] = Fraction(0, 0 + 0)
      /\ attack["falsePositiveRate"] = Fraction(0, 0 + 0) /\ attack["precision"] = Fraction(k, k + 0)
      /\ attack["f1"] = HarmonicMean(Fraction(k, k + 0), Fraction(k, k + (n - k)))
      /\ normal["recall"] = Fraction(0, 0 + 0) /\ normal["f1"] = HarmonicMean(Fraction(0, 0 + k), Fraction(0, 0 + 0))
      /\ normal["specificity"] = Fraction(n - k, n - k + k) /\ normal["falsePositiveRate"] = Fraction(k, k + (n - k))
    BY DEF BinaryRates
<1>5. /\ k + (n - k) = n /\ n - k + k = n /\ 0 + 0 = 0 /\ k + 0 = k /\ 0 + k = k /\ n # 0 OBVIOUS
<1>6. Fraction(k, n) = <<k, n>> /\ Fraction(0, 0) = None /\ Fraction(n - k, n) = <<n - k, n>> BY <1>5 DEF Fraction
<1> HIDE DEF a, b, attack, normal
<1>7. /\ SameRate(a["recall"], attack["recall"]) /\ SameRate(a["specificity"], attack["specificity"])
      /\ SameRate(a["falsePositiveRate"], attack["falsePositiveRate"])
    BY <1>1, <1>3, <1>4, <1>5, <1>6
<1>8. /\ SameRate(b["recall"], normal["recall"]) /\ SameRate(b["specificity"], normal["specificity"])
      /\ SameRate(b["falsePositiveRate"], normal["falsePositiveRate"])
    BY <1>1, <1>3, <1>4, <1>5, <1>6
<1>9. SameRate(a["precision"], attack["precision"])
    <2>1. CASE k = 0 BY <1>1, <1>3, <1>4, <1>5, <1>6, <2>1
    <2>2. CASE k > 0
        <3>1. Fraction(k, k) = <<k, k>> BY <2>2 DEF Fraction
        <3>2. SameRate(<<1, 1>>, <<k, k>>) BY <1>2 DEF SameRate
        <3> QED BY <1>3, <1>4, <1>5, <2>2, <3>1, <3>2
    <2> QED BY <2>1, <2>2
<1>10. SameRate(a["f1"], attack["f1"])
    <2>1. CASE k = 0
        <3>1. HarmonicMean(None, <<0, n>>) = <<0, 1>> BY <1>2 DEF HarmonicMean
        <3>2. a["f1"] = <<0, 1>> /\ attack["f1"] = <<0, 1>> BY <1>3, <1>4, <1>5, <1>6, <2>1, <3>1
        <3> QED BY <1>1, <3>2
    <2>2. CASE k > 0
        <3>1. Fraction(k, k) = <<k, k>> BY <2>2 DEF Fraction
        <3>2. HarmonicMean(<<1, 1>>, <<k, n>>) = <<2 * 1 * k, 1 * n + k * 1>> BY <1>2, <2>2 DEF HarmonicMean
        <3>3. HarmonicMean(<<k, k>>, <<k, n>>) = <<2 * k * k, k * n + k * k>> BY <1>2, <2>2 DEF HarmonicMean
        <3>4. a["f1"] = <<2 * k, n + k>> BY <1>3, <2>2, <3>2
        <3>5. attack["f1"] = <<2 * k * k, k * n + k * k>> BY <1>4, <1>5, <1>6, <3>1, <3>3
        <3>6. /\ 2 * k \in Nat /\ n + k \in Nat /\ 2 * k * k \in Nat /\ k * n + k * k \in Nat
              /\ (2 * k) * (k * n + k * k) = (2 * k * k) * (n + k)
            BY SMT
        <3>7. \A w, x, y, z \in Nat : w * z = y * x => SameRate(<<w, x>>, <<y, z>>) BY <1>2 DEF SameRate
        <3> QED BY <3>4, <3>5, <3>6, <3>7
    <2> QED BY <2>1, <2>2
<1>11. SameRate(b["f1"], normal["f1"])
    <2>1. b["f1"] = None BY <1>3 DEF HarmonicMean
    <2>2. HarmonicMean(Fraction(0, k), None) = None BY DEF HarmonicMean
    <2> QED BY <1>1, <1>4, <1>5, <1>6, <2>1, <2>2
<1> QED BY <1>7, <1>8, <1>9, <1>10, <1>11 DEF a, b, attack, normal

\* A run is of one of the sessions of its scenario.
Observing == \A r \in Runs : \E session \in Sessions[plan[r]] : IsSession(session) /\ outcome[r] = Observed(session)

LEMMA ScoresOfObserved ==
    ASSUME Observing, NEW r \in Runs, Scored(r).overlap # None
    PROVE  /\ Scored(r).timing = "on_time" => Scored(r).overlap[1] > 0
           /\ Scored(r).timing \in {"late", "missed"} => Scored(r).overlap[1] = 0
<1>1. PICK session \in Sessions[plan[r]] : IsSession(session) /\ outcome[r] = Observed(session) BY DEF Observing
<1>2. outcome[r].label = session.label BY <1>1 DEF Observed, KeptOf, Kept
<1>3. outcome[r].alerts \subseteq DOMAIN session.ticks BY <1>1 DEF Observed, KeptOf, Kept
<1>4. outcome[r].alerts \in SUBSET Nat /\ IsFiniteSet(outcome[r].alerts) BY <1>1, <1>3, FS_Subset DEF IsSession
<1>5. outcome[r].label # None => IsLabel(outcome[r].label) BY <1>1, <1>2 DEF IsSession
<1> QED BY <1>4, <1>5, TimingTellsOverlap DEF Scored

\* What the batch computes from the numbers of runs.
LEMMA RatesOfScenario ==
    ASSUME NEW s \in {plan[r] : r \in Runs}
    PROVE  LET runs == {r \in Runs : plan[r] = s}
               rates == RatesOf(s)
               binary == BinaryRates(Confusion(runs, [r \in Runs |-> Attack(r)], [r \in Runs |-> Detected(r)]))
           IN  /\ \A rate \in {"recall", "f1", "specificity", "falsePositiveRate"} :
                    SameRate(rates[rate], binary[rate])
               /\ s # Normal => SameRate(rates.precision, binary.precision)
<1> DEFINE runs == {r \in Runs : plan[r] = s}
           found == {r \in runs : Detected(r)}
           n == Cardinality(runs)
           k == Cardinality(found)
           truth == [r \in Runs |-> Attack(r)]
           predicted == [r \in Runs |-> Detected(r)]
           c == Confusion(runs, truth, predicted)
<1>1. IsFiniteSet(Runs) BY TotalPositive, FS_Interval DEF Runs
<1>2. IsFiniteSet(runs) /\ IsFiniteSet(found) BY <1>1, FS_Subset
<1>3. runs # {} OBVIOUS
<1>4. n \in Nat \ {0} /\ k \in Nat /\ k <= n BY <1>2, <1>3, FS_CardinalityType, FS_EmptySet, FS_Subset
<1>5. found \in SUBSET runs OBVIOUS
<1>6. \A r \in found : predicted[r] = TRUE BY DEF Detected
<1>7. \A r \in runs \ found : predicted[r] = FALSE BY DEF Detected
<1>8. (s # Normal => \A r \in runs : truth[r] = TRUE) /\ (s = Normal => \A r \in runs : truth[r] = FALSE)
    BY DEF Attack
<1>9. RatesOf(s) = BatchRates(n, k, s # Normal) BY DEF RatesOf
<1>10. Cardinality(runs \ found) = n - k
    <2>1. runs \cap found = found BY <1>5
    <2> HIDE DEF runs, found
    <2> QED BY <1>2, <2>1, FS_Difference
<1>11. Cardinality({}) = 0 BY FS_EmptySet
<1> DEFINE tp == {r \in runs : truth[r] = TRUE /\ predicted[r] = TRUE}
           fp == {r \in runs : truth[r] = FALSE /\ predicted[r] = TRUE}
           fn == {r \in runs : truth[r] = TRUE /\ predicted[r] = FALSE}
           tn == {r \in runs : truth[r] = FALSE /\ predicted[r] = FALSE}
<1>12. c = [tp |-> Cardinality(tp), fp |-> Cardinality(fp), fn |-> Cardinality(fn), tn |-> Cardinality(tn)]
    BY DEF Confusion
\* When all runs have the same truth, the matrix has the runs that were found and
\* those that were not.
<1> HIDE DEF truth, predicted, found, runs, c
<1>13. CASE s # Normal
    <2>1. \A r \in runs : r \in tp <=> r \in found BY <1>5, <1>6, <1>7, <1>8, <1>13
    <2>2. \A r \in runs : r \in fn <=> r \in runs \ found BY <1>5, <1>6, <1>7, <1>8, <1>13
    <2>3. fp = {} /\ tn = {} BY <1>8, <1>13
    <2>4. tp \subseteq runs /\ fn \subseteq runs OBVIOUS
    <2> HIDE DEF tp, fp, fn, tn
    <2>5. tp = found /\ fn = runs \ found BY <1>5, <2>1, <2>2, <2>4
    <2>6. c = [tp |-> k, fp |-> 0, fn |-> n - k, tn |-> 0] BY <1>10, <1>11, <1>12, <2>3, <2>5
    <2> HIDE DEF n, k
    <2>7. RatesOf(s) = BatchRates(n, k, TRUE) BY <1>9, <1>13
    <2>8. /\ \A rate \in {"recall", "f1", "specificity", "falsePositiveRate"} :
                SameRate(RatesOf(s)[rate], BinaryRates(c)[rate])
          /\ SameRate(RatesOf(s)["precision"], BinaryRates(c)["precision"])
        BY <1>4, <2>6, <2>7, RatesAgree
    <2> QED BY <2>8 DEF c, runs, truth, predicted
<1>14. CASE s = Normal
    <2>1. \A r \in runs : r \in fp <=> r \in found BY <1>5, <1>6, <1>7, <1>8, <1>14
    <2>2. \A r \in runs : r \in tn <=> r \in runs \ found BY <1>5, <1>6, <1>7, <1>8, <1>14
    <2>3. tp = {} /\ fn = {} BY <1>8, <1>14
    <2>4. fp \subseteq runs /\ tn \subseteq runs OBVIOUS
    <2> HIDE DEF tp, fp, fn, tn
    <2>5. fp = found /\ tn = runs \ found BY <1>5, <2>1, <2>2, <2>4
    <2>6. c = [tp |-> 0, fp |-> k, fn |-> 0, tn |-> n - k] BY <1>10, <1>11, <1>12, <2>3, <2>5
    <2> HIDE DEF n, k
    <2>7. RatesOf(s) = BatchRates(n, k, FALSE) BY <1>9, <1>14
    <2>8. \A rate \in {"recall", "f1", "specificity", "falsePositiveRate"} :
                SameRate(RatesOf(s)[rate], BinaryRates(c)[rate])
        BY <1>4, <2>6, <2>7, RatesAgree
    <2> QED BY <1>14, <2>8 DEF c, runs, truth, predicted
<1> QED BY <1>13, <1>14

LEMMA ObservingHolds ==
    /\ Init => Observing
    /\ Observing /\ [Next]_vars => Observing'
<1>1. Init => Observing
    <2> SUFFICES ASSUME Init, NEW r \in Runs
                 PROVE  \E session \in Sessions[plan[r]] : IsSession(session) /\ outcome[r] = Observed(session)
        BY DEF Observing
    <2>1. plan[r] \in DOMAIN Sessions /\ outcome[r] \in Outcomes[plan[r]] BY SessionsMeasured DEF Init
    <2>2. PICK session \in Sessions[plan[r]] : outcome[r] = Observed(session) BY <2>1 DEF Outcomes
    <2> QED BY <2>1, <2>2, SessionsMeasured
<1>2. Observing /\ [Next]_vars => Observing'
    <2> SUFFICES ASSUME Observing, [Next]_vars PROVE Observing' OBVIOUS
    <2>1. UNCHANGED <<plan, outcome>>
        BY DEF Next, Step, RunBatch, TakeRun, FinishRun, OpenFile, FillFile, Killed, Normalize, CopyFile, Record, vars, given
    <2> QED BY <2>1 DEF Observing, Runs
<1> QED BY <1>1, <1>2

\* Timing and overlap of a run agree, and the rates of a batch are those of its
\* confusion matrix, for any sessions, labels and number of runs.
THEOREM ScoresAlwaysAgree == Spec => []ScoresAgree
<1>3. Observing => ScoresAgree
    <2> SUFFICES ASSUME Observing PROVE ScoresAgree OBVIOUS
    <2>1. ASSUME NEW score \in {Scored(r) : r \in Runs}, score.overlap # None
          PROVE  /\ score.timing = "on_time" => score.overlap[1] > 0
                 /\ score.timing \in {"late", "missed"} => score.overlap[1] = 0
        BY <2>1, ScoresOfObserved
    <2> QED BY <2>1, RatesOfScenario DEF ScoresAgree
<1> QED BY <1>3, ObservingHolds, PTL DEF Spec

-----------------------------------------------------------------------------
(* A batch that met no other *)

\* What lets a batch finish whole, with the directory d and the artifacts c: what
\* it has passed is whole there.
WholeIn(directory, f) == f \in DOMAIN directory /\ directory[f] = Expected(f)

OnItsWay(p, d, c) ==
    /\ p.pc = "writing" =>
          /\ \A i \in 1 .. 5 : i < p.at => WholeIn(d, Files[i])
          /\ p.open => p.alone = TRUE
    /\ p.pc = "copying" =>
          /\ p.at \in 1 .. 5
          /\ \A i \in 1 .. 5 : WholeIn(d, Files[i])
          /\ \A i \in 1 .. 5 : i < p.at => WholeIn(c, Files[i])
    /\ p.pc = "recording" => \A i \in 1 .. 5 : WholeIn(c, Files[i])

Met(q) == q \in shared

AloneInv ==
    /\ FilesInv
    /\ jobs \in Seq({"completed", "failed"})
    /\ DOMAIN copy \subseteq Names
    /\ \A q \in Requests : proc[q].open => proc[q].pc = "writing"
    /\ \A q, o \in Requests : q # o /\ Active(q) /\ Active(o) => Met(q) /\ Met(o)
    /\ \A q \in Requests : ~Met(q) => OnItsWay(proc[q], disk, copy)

LEMMA FilesDiffer ==
    \A i, j \in 1 .. 5 : Files[i] = Files[j] => i = j
BY DEF Files

\* Putting a whole file into a directory leaves the others as they were.
LEMMA WholeAfterPut ==
    ASSUME NEW d, NEW i \in 1 .. 5, NEW content,
           NEW j \in 1 .. 5, IF j = i THEN content = Expected(Files[i]) ELSE WholeIn(d, Files[j])
    PROVE  WholeIn(Put(d, Files[i], content), Files[j])
<1>1. i # j => Files[i] # Files[j] BY FilesDiffer
<1> QED BY <1>1 DEF WholeIn, Put

\* A step is of one process: the others keep their place, and who begins while
\* another is under way has met it.
LEMMA OneSteps ==
    ASSUME AloneInv, NEW q \in Requests, Step(q)
    PROVE  /\ shared \subseteq shared'
           /\ \A o \in Requests : o # q => /\ proc'[o].pc = proc[o].pc /\ proc'[o].open = proc[o].open
                                           /\ Active(o) => Met(o)' /\ (Active(q)' => Met(q)')
<1>1. shared \subseteq shared'
    BY DEF Step, RunBatch, TakeRun, FinishRun, OpenFile, FillFile, Killed, Normalize, CopyFile, Record, Arrives
<1>2. ASSUME NEW o \in Requests, o # q PROVE proc'[o].pc = proc[o].pc /\ proc'[o].open = proc[o].open
    <2>1. CASE OpenFile(q)
        <3>1. proc'[o] = proc[o] \/ proc'[o] = [proc[o] EXCEPT !.alone = FALSE] BY <1>2, <2>1 DEF OpenFile
        <3>2. DOMAIN proc[o] = Fields BY DEF AloneInv, FilesInv, ProcGood
        <3> QED BY <3>1, <3>2 DEF Fields
    <2>2. CASE ~OpenFile(q)
        <3>1. \E p : Becomes(q, p)
            BY <2>2 DEF Step, RunBatch, TakeRun, FinishRun, FillFile, Killed, Normalize, CopyFile, Record
        <3> QED BY <1>2, <3>1 DEF Becomes, AloneInv, FilesInv
    <2> QED BY <2>1, <2>2
<1>3. ASSUME NEW o \in Requests, o # q, Active(o) PROVE Met(o)' /\ (Active(q)' => Met(q)')
    <2>1. CASE RunBatch(q) \/ Normalize(q)
        <3>1. Arrives(q) /\ o \in {x \in Requests : Active(x)} BY <1>3, <2>1 DEF RunBatch, Normalize
        <3> QED BY <3>1 DEF Arrives, Met
    <2>2. CASE ~(RunBatch(q) \/ Normalize(q))
        <3>1. Active(q)
            BY <2>2 DEF Step, TakeRun, FinishRun, OpenFile, FillFile, Killed, CopyFile, Record, Active
        <3>2. Met(o) /\ Met(q) BY <1>3, <3>1 DEF AloneInv
        <3> QED BY <1>1, <3>2 DEF Met
    <2> QED BY <2>1, <2>2
<1> QED BY <1>1, <1>2, <1>3

\* What is left to show of a step is what it does to its own process.
LEMMA OwnStepSuffices ==
    ASSUME AloneInv, FilesInv', UNCHANGED given, NEW q \in Requests, Step(q),
           jobs' \in Seq({"completed", "failed"}), DOMAIN copy' \subseteq Names,
           proc'[q].open => proc'[q].pc = "writing",
           ~Met(q) => OnItsWay(proc'[q], disk', copy')
    PROVE  AloneInv'
<1>1. /\ shared \subseteq shared'
      /\ \A o \in Requests : o # q => /\ proc'[o].pc = proc[o].pc /\ proc'[o].open = proc[o].open
                                      /\ Active(o) => Met(o)' /\ (Active(q)' => Met(q)')
    BY OneSteps
<1>2. ASSUME NEW o \in Requests PROVE proc'[o].open => proc'[o].pc = "writing"
    BY <1>1 DEF AloneInv
<1>3. ASSUME NEW o \in Requests, NEW x \in Requests, o # x, Active(o)', Active(x)' PROVE Met(o)' /\ Met(x)'
    <2>1. \A y \in Requests : y # q /\ Active(y)' => Active(y) BY <1>1 DEF Active
    <2>2. CASE o = q BY <1>1, <1>3, <2>1, <2>2
    <2>3. CASE x = q BY <1>1, <1>3, <2>1, <2>3
    <2>4. CASE o # q /\ x # q BY <1>1, <1>3, <2>1, <2>4
    <2> QED BY <2>2, <2>3, <2>4
<1>4. ASSUME NEW o \in Requests, ~Met(o)' PROVE OnItsWay(proc'[o], disk', copy')
    <2>1. CASE o = q BY <1>1, <1>4, <2>1 DEF Met
    <2>2. CASE o # q
        <3>1. ~Active(o) BY <1>1, <1>4, <2>2
        <3>2. proc'[o].pc \notin {"writing", "copying", "recording"} BY <1>1, <2>2, <3>1 DEF Active
        <3> QED BY <3>2 DEF OnItsWay
    <2> QED BY <2>1, <2>2
<1>5. \A f : Expected(f)' = Expected(f) BY ExpectedKept
<1>6. \A o \in Requests : ~Met(o)' => OnItsWay(proc[o], disk, copy)' BY <1>4, <1>5 DEF OnItsWay, WholeIn
<1>7. DOMAIN copy' \subseteq Names' BY DEF Names, Files
<1> QED BY <1>2, <1>3, <1>6, <1>7 DEF AloneInv

\* A process that neither writes, copies nor records has nothing to show.
LEMMA NothingToShow ==
    ASSUME NEW p, NEW d, NEW c, p.pc \notin {"writing", "copying", "recording"}
    PROVE  OnItsWay(p, d, c)
BY DEF OnItsWay

LEMMA OpenIsAlone ==
    ASSUME AloneInv, NEW q \in Requests, OpenFile(q), FilesInv'
    PROVE  AloneInv'
<1>1. PICK p : p = proc[q] OBVIOUS
<1>2. /\ DOMAIN p = Fields /\ p.pc \in {"running", "writing"} /\ p.at \in 1 .. 5
    <2>1. ProcGood(p, DOMAIN disk) /\ p.pc \in {"running", "writing"} BY <1>1 DEF OpenFile, AloneInv, FilesInv
    <2>2. 1 \in 1 .. 5 OBVIOUS
    <2> QED BY <2>1, <2>2 DEF ProcGood
<1>10. p.pc = "running" => p.at = 1 BY <1>1 DEF AloneInv, FilesInv, ProcGood
<1>3. PICK i \in 1 .. 5 : i = p.at BY <1>2
<1>4. PICK alone : alone = (Writers(q) = {}) OBVIOUS
<1>5. proc'[q] = [p EXCEPT !.pc = "writing", !.open = TRUE, !.alone = alone] BY <1>1, <1>4 DEF OpenFile
<1>6. proc'[q].pc = "writing" /\ proc'[q].at = i /\ proc'[q].alone = alone BY <1>2, <1>3, <1>5 DEF Fields
<1>7. ASSUME ~Met(q) PROVE OnItsWay(proc'[q], disk', copy')
    <2>1. OnItsWay(p, disk, copy) /\ Active(q) BY <1>1, <1>2, <1>7 DEF AloneInv, Active
    <2>2. \A j \in 1 .. 5 : j < i => WholeIn(disk, Files[j]) BY <1>2, <1>3, <1>10, <2>1 DEF OnItsWay
    <2>3. disk' = Put(disk, Files[i], Torn) BY <1>1, <1>3 DEF OpenFile
    <2>4. \A j \in 1 .. 5 : j < i => WholeIn(disk', Files[j]) BY <2>2, <2>3, WholeAfterPut
    <2>5. Writers(q) = {}
        <3> SUFFICES ASSUME NEW o \in Writers(q) PROVE FALSE OBVIOUS
        <3>1. o \in Requests /\ o # q /\ proc[o].pc = "writing" BY DEF Writers, AloneInv
        <3>2. Active(o) BY <3>1 DEF Active
        <3> QED BY <1>7, <2>1, <3>1, <3>2 DEF AloneInv
    <2>6. alone = TRUE BY <1>4, <2>5
    <2> QED BY <1>6, <2>4, <2>6 DEF OnItsWay
<1>8. UNCHANGED given /\ copy' = copy /\ jobs' = jobs /\ Step(q) BY DEF OpenFile, Step
<1> QED BY <1>6, <1>7, <1>8, OwnStepSuffices DEF AloneInv

LEMMA FillIsAlone ==
    ASSUME AloneInv, NEW q \in Requests, FillFile(q), FilesInv'
    PROVE  AloneInv'
<1>1. PICK p : p = proc[q] OBVIOUS
<1>2. DOMAIN p = Fields /\ p.pc = "writing" /\ p.open /\ p.at \in 1 .. 5 /\ ToSet(p.results) = Runs
    BY <1>1 DEF FillFile, AloneInv, FilesInv, ProcGood
<1>3. PICK i \in 1 .. 5 : i = p.at BY <1>2
<1>4. Written(Files[i], InOrder(p.results)) = Expected(Files[i]) BY <1>2, SortedInPlace DEF Expected, InPlace
<1> DEFINE y == [p EXCEPT !.at = @ + 1, !.open = FALSE]
           z == [Fresh EXCEPT !.pc = "copying"]
<1>5. proc'[q] = IF i < 5 THEN y ELSE z BY <1>1, <1>3, FilesAre DEF FillFile, Becomes, AloneInv, FilesInv
<1>6. y.pc = "writing" /\ y.at = i + 1 /\ y.open = FALSE BY <1>2, <1>3 DEF Fields
<1>7. z.pc = "copying" /\ z.at = 1 /\ z.open = FALSE BY DEF Fresh
<1> HIDE DEF y, z
<1>8. proc'[q].open => proc'[q].pc = "writing" BY <1>5, <1>6, <1>7
<1>9. ASSUME ~Met(q) PROVE OnItsWay(proc'[q], disk', copy')
    <2>1. OnItsWay(p, disk, copy) BY <1>1, <1>9 DEF AloneInv
    <2>2. p.alone = TRUE /\ \A j \in 1 .. 5 : j < i => WholeIn(disk, Files[j]) BY <1>2, <1>3, <2>1 DEF OnItsWay
    <2>3. disk' = Put(disk, Files[i], Expected(Files[i])) BY <1>1, <1>3, <1>4, <2>2 DEF FillFile
    <2>4. \A j \in 1 .. 5 : j < i + 1 => WholeIn(disk', Files[j])
        <3> SUFFICES ASSUME NEW j \in 1 .. 5, j < i + 1 PROVE WholeIn(disk', Files[j]) OBVIOUS
        <3>1. j = i \/ j < i OBVIOUS
        <3> QED BY <2>2, <2>3, <3>1, WholeAfterPut
    <2>5. CASE i < 5 BY <1>5, <1>6, <2>4, <2>5 DEF OnItsWay
    <2>6. CASE ~(i < 5)
        <3>1. \A j \in 1 .. 5 : j < i + 1 BY <2>6
        <3> QED BY <1>5, <1>7, <2>4, <2>6, <3>1 DEF OnItsWay
    <2> QED BY <2>5, <2>6
<1>10. UNCHANGED given /\ copy' = copy /\ jobs' = jobs /\ Step(q) BY DEF FillFile, Step
<1> QED BY <1>8, <1>9, <1>10, OwnStepSuffices DEF AloneInv

LEMMA CopyIsAlone ==
    ASSUME AloneInv, NEW q \in Requests, CopyFile(q), FilesInv'
    PROVE  AloneInv'
<1>1. PICK p : p = proc[q] OBVIOUS
<1>2. DOMAIN p = Fields /\ p.pc \in {"copying", "normalizing"} /\ (p.open => p.pc = "writing")
    BY <1>1 DEF CopyFile, AloneInv, FilesInv, ProcGood
<1> DEFINE y == [p EXCEPT !.at = @ + 1]
           z == [Fresh EXCEPT !.pc = IF p.pc = "copying" THEN "recording" ELSE "normalized"]
<1>3. proc'[q] = IF p.at < 5 THEN y ELSE z BY <1>1, FilesAre DEF CopyFile, Becomes, AloneInv, FilesInv
<1>4. y.pc = p.pc /\ y.at = p.at + 1 /\ y.open = p.open BY <1>2 DEF Fields
<1>5. z.pc = (IF p.pc = "copying" THEN "recording" ELSE "normalized") /\ z.open = FALSE BY DEF Fresh
<1> HIDE DEF y, z
<1>6. ~proc'[q].open BY <1>2, <1>3, <1>4, <1>5
<1>7. DOMAIN copy' \subseteq Names
    <2>1. copy' = copy \/ \E f \in DOMAIN disk : copy' = Put(copy, f, disk[f]) BY DEF CopyFile
    <2> QED BY <2>1 DEF Put, AloneInv, FilesInv
<1>8. ASSUME ~Met(q) PROVE OnItsWay(proc'[q], disk', copy')
    <2>1. CASE p.pc = "normalizing"
        <3>1. proc'[q].pc \in {"normalizing", "normalized"} BY <1>3, <1>4, <1>5, <2>1
        <3> QED BY <3>1, NothingToShow
    <2>2. CASE p.pc = "copying"
        <3>1. OnItsWay(p, disk, copy) BY <1>1, <1>8 DEF AloneInv
        <3>2. /\ p.at \in 1 .. 5 /\ \A j \in 1 .. 5 : WholeIn(disk, Files[j])
              /\ \A j \in 1 .. 5 : j < p.at => WholeIn(copy, Files[j])
            BY <2>2, <3>1 DEF OnItsWay
        <3>3. PICK i \in 1 .. 5 : i = p.at BY <3>2
        <3>4. Files[i] \in DOMAIN disk /\ disk[Files[i]] = Expected(Files[i]) BY <3>2 DEF WholeIn
        <3>5. copy' = Put(copy, Files[i], Expected(Files[i])) /\ disk' = disk BY <1>1, <3>3, <3>4 DEF CopyFile
        <3>6. \A j \in 1 .. 5 : j < i + 1 => WholeIn(copy', Files[j])
            <4> SUFFICES ASSUME NEW j \in 1 .. 5, j < i + 1 PROVE WholeIn(copy', Files[j]) OBVIOUS
            <4>1. j = i \/ j < i OBVIOUS
            <4> QED BY <3>2, <3>3, <3>5, <4>1, WholeAfterPut
        <3>7. CASE i < 5
            <4>1. i + 1 \in 1 .. 5 BY <3>7
            <4> QED BY <1>3, <1>4, <2>2, <3>2, <3>3, <3>5, <3>6, <3>7, <4>1 DEF OnItsWay
        <3>8. CASE ~(i < 5)
            <4>1. \A j \in 1 .. 5 : j < i + 1 BY <3>8
            <4> QED BY <1>3, <1>5, <2>2, <3>3, <3>6, <3>8, <4>1 DEF OnItsWay
        <3> QED BY <3>7, <3>8
    <2> QED BY <1>2, <2>1, <2>2
<1>9. UNCHANGED given /\ jobs' = jobs /\ Step(q) BY DEF CopyFile, Step
<1> QED BY <1>6, <1>7, <1>8, <1>9, OwnStepSuffices DEF AloneInv

LEMMA OthersAreAlone ==
    ASSUME AloneInv, NEW q \in Requests, FilesInv',
           \/ RunBatch(q) \/ TakeRun(q) \/ (\E r \in Runs : FinishRun(q, r))
           \/ Killed(q) \/ Normalize(q) \/ Record(q)
    PROVE  AloneInv'
<1>1. PICK p : p = proc[q] OBVIOUS
<1>2. DOMAIN p = Fields /\ (p.open => p.pc = "writing") BY <1>1 DEF AloneInv, FilesInv, ProcGood
<1>3. proc'[q].pc \notin {"writing", "copying", "recording"} /\ ~proc'[q].open
    <2>1. CASE TakeRun(q) \/ \E r \in Runs : FinishRun(q, r)
        <3>1. p.pc = "running" BY <1>1, <2>1 DEF TakeRun, FinishRun
        <3>2. \A next : Becomes(q, next) => proc'[q] = next BY DEF Becomes, AloneInv, FilesInv
        <3>3. proc'[q].pc = p.pc /\ proc'[q].open = p.open
            <4>1. CASE TakeRun(q)
                <5>1. PICK r : Becomes(q, [p EXCEPT !.pending = @ \ {r}, !.running = @ \cup {r}])
                    BY <1>1, <4>1 DEF TakeRun
                <5> QED BY <1>2, <3>2, <5>1 DEF Fields
            <4>2. CASE \E r \in Runs : FinishRun(q, r)
                <5>1. PICK r : Becomes(q, [p EXCEPT !.running = @ \ {r}, !.results = Append(@, r)])
                    BY <1>1, <4>2 DEF FinishRun
                <5> QED BY <1>2, <3>2, <5>1 DEF Fields
            <4> QED BY <2>1, <4>1, <4>2
        <3> QED BY <1>2, <3>1, <3>3
    <2>2. CASE RunBatch(q)
        <3>1. proc'[q] = [Fresh EXCEPT !.pc = "running", !.pending = Runs]
            BY <2>2 DEF RunBatch, Becomes, AloneInv, FilesInv
        <3> QED BY <3>1 DEF Fresh
    <2>3. CASE Killed(q) \/ Normalize(q) \/ Record(q)
        <3>1. PICK pc \in {"recording_failure", "failed", "normalizing", "completed"} : proc'[q] = [Fresh EXCEPT !.pc = pc]
            BY <2>3 DEF Killed, Normalize, Record, Becomes, ExitFailed, AloneInv, FilesInv
        <3> QED BY <3>1 DEF Fresh
    <2> QED BY <2>1, <2>2, <2>3
<1>4. OnItsWay(proc'[q], disk', copy') BY <1>3, NothingToShow
<1>5. jobs' = jobs \/ \E status \in {"completed", "failed"} : jobs' = Append(jobs, status)
    BY DEF RunBatch, TakeRun, FinishRun, Killed, Normalize, Record
<1>6. jobs' \in Seq({"completed", "failed"}) BY <1>5 DEF AloneInv
<1>7. UNCHANGED given /\ copy' = copy /\ Step(q)
    BY DEF RunBatch, TakeRun, FinishRun, Killed, Normalize, Record, Step
<1> QED BY <1>3, <1>4, <1>6, <1>7, OwnStepSuffices DEF AloneInv

-----------------------------------------------------------------------------
(* What the summary counts *)

LEMMA CountFromOne ==
    ASSUME NEW N \in Nat, NEW S, 1 \in S, \A n \in 1 .. (N - 1) : n \in S => n + 1 \in S
    PROVE  \A n \in 1 .. N : n \in S
<1> DEFINE without == {n \in 1 .. N : n \notin S}
<1>1. SUFFICES ASSUME without # {} PROVE FALSE OBVIOUS
<1>2. without \in SUBSET Nat OBVIOUS
<1> HIDE DEF without
<1>3. PICK m \in without : \A n \in without : m <= n BY <1>1, <1>2, LeastOf
<1>4. m \in 1 .. N /\ m \notin S /\ m # 1 BY DEF without
<1>5. m - 1 \in 1 .. (N - 1) BY <1>4
<1>6. m - 1 \in S
    <2> SUFFICES ASSUME m - 1 \notin S PROVE FALSE OBVIOUS
    <2>1. m - 1 \in without BY <1>5 DEF without
    <2>2. m <= m - 1 BY <1>3, <2>1
    <2> QED BY <1>4, <2>2
<1>7. (m - 1) + 1 \in S BY <1>5, <1>6
<1> QED BY <1>4, <1>7

\* What the recursion of FlattenSeq asks of a function that joins n sequences.
Joins(f, seqs, n) == f = [i \in 1 .. n |-> IF i = 1 THEN seqs[i] ELSE f[i - 1] \o seqs[i]]

LEMMA JoinsExist ==
    ASSUME NEW N \in Nat \ {0}, NEW seqs
    PROVE  \E f : Joins(f, seqs, N)
<1> DEFINE can == {n \in 1 .. N : \E f : Joins(f, seqs, n)}
<1>1. 1 \in can
    <2>1. PICK f : f = [i \in 1 .. 1 |-> seqs[i]] OBVIOUS
    <2>2. Joins(f, seqs, 1) BY <2>1 DEF Joins
    <2> QED BY <2>2
<1>2. ASSUME NEW n \in 1 .. (N - 1), n \in can PROVE n + 1 \in can
    <2>1. PICK f : Joins(f, seqs, n) BY <1>2
    <2>2. \A i \in 1 .. n : f[i] = IF i = 1 THEN seqs[i] ELSE f[i - 1] \o seqs[i] BY <2>1 DEF Joins
    <2>3. PICK next : next = f[n] \o seqs[n + 1] OBVIOUS
    <2>4. PICK g : g = [i \in 1 .. (n + 1) |-> IF i = n + 1 THEN next ELSE f[i]] OBVIOUS
    <2>5. ASSUME NEW i \in 1 .. (n + 1) PROVE g[i] = IF i = 1 THEN seqs[i] ELSE g[i - 1] \o seqs[i]
        <3>1. CASE i = n + 1
            <4>1. g[i] = next /\ g[i - 1] = f[n] /\ i # 1 BY <2>4, <3>1
            <4> QED BY <2>3, <3>1, <4>1
        <3>2. CASE i \in 2 .. n
            <4>1. g[i] = f[i] /\ g[i - 1] = f[i - 1] BY <2>4, <3>2
            <4> QED BY <2>2, <3>2, <4>1
        <3>3. CASE i = 1
            <4>1. g[i] = f[1] BY <2>4, <3>3
            <4> QED BY <2>2, <3>3, <4>1
        <3> QED BY <3>1, <3>2, <3>3
    <2>6. g = [i \in 1 .. (n + 1) |-> g[i]] BY <2>4
    <2>7. Joins(g, seqs, n + 1) BY <2>5, <2>6 DEF Joins
    <2> QED BY <2>7
<1> HIDE DEF can
<1>3. N \in can
    <2>1. \A n \in 1 .. N : n \in can BY <1>1, <1>2, CountFromOne
    <2> QED BY <2>1
<1> QED BY <1>3 DEF can

\* Joined rows are as many as there are: none only when every part has none.
LEMMA JoinedRows ==
    ASSUME NEW N \in Nat \ {0}, NEW seqs, Len(seqs) = N, \A i \in 1 .. N : seqs[i] \in Seq(Nat)
    PROVE  /\ Len(FlattenSeq(seqs)) \in Nat
           /\ Len(FlattenSeq(seqs)) > 0 <=> \E i \in 1 .. N : Len(seqs[i]) > 0
<1> DEFINE F == CHOOSE f : f = [i \in 1 .. N |-> IF i = 1 THEN seqs[i] ELSE f[i - 1] \o seqs[i]]
<1>1. FlattenSeq(seqs) = F[N] BY DEF FlattenSeq
<1>2. \E f : f = [i \in 1 .. N |-> IF i = 1 THEN seqs[i] ELSE f[i - 1] \o seqs[i]] BY JoinsExist DEF Joins
<1>3. F = [i \in 1 .. N |-> IF i = 1 THEN seqs[i] ELSE F[i - 1] \o seqs[i]] BY <1>2
<1> HIDE DEF F
<1>4. F[1] = seqs[1] /\ \A n \in 1 .. (N - 1) : F[n + 1] = F[n] \o seqs[n + 1]
    <2>1. \A i \in 1 .. N : F[i] = IF i = 1 THEN seqs[i] ELSE F[i - 1] \o seqs[i] BY <1>3
    <2>2. 1 \in 1 .. N OBVIOUS
    <2>3. ASSUME NEW n \in 1 .. (N - 1) PROVE F[n + 1] = F[n] \o seqs[n + 1]
        <3>1. n + 1 \in 1 .. N /\ n + 1 # 1 /\ (n + 1) - 1 = n OBVIOUS
        <3> QED BY <2>1, <3>1
    <2> QED BY <2>1, <2>2, <2>3
<1> DEFINE joined == {n \in 1 .. N : /\ F[n] \in Seq(Nat)
                                     /\ Len(F[n]) > 0 <=> \E i \in 1 .. n : Len(seqs[i]) > 0}
<1>5. 1 \in joined BY <1>4
<1>6. ASSUME NEW n \in 1 .. (N - 1), n \in joined PROVE n + 1 \in joined
    <2>9. n + 1 \in 1 .. N OBVIOUS
    <2>1. F[n + 1] = F[n] \o seqs[n + 1] /\ F[n] \in Seq(Nat) /\ seqs[n + 1] \in Seq(Nat) BY <1>4, <1>6, <2>9
    <2>11. PICK z : z = F[n + 1] OBVIOUS
    <2>10. PICK x \in Seq(Nat), y \in Seq(Nat) : x = F[n] /\ y = seqs[n + 1] /\ z = F[n + 1] /\ z = x \o y BY <2>1, <2>11
    <2>2. z \in Seq(Nat) /\ Len(z) = Len(x) + Len(y) /\ Len(x) \in Nat /\ Len(y) \in Nat BY <2>10
    <2>3. Len(z) > 0 <=> Len(x) > 0 \/ Len(y) > 0 BY <2>2
    <2>4. Len(F[n + 1]) > 0 <=> Len(F[n]) > 0 \/ Len(seqs[n + 1]) > 0 BY <2>3, <2>10
    <2>5. Len(F[n]) > 0 <=> \E i \in 1 .. n : Len(seqs[i]) > 0 BY <1>6
    <2>6. \A i \in 1 .. n + 1 : i = n + 1 \/ i \in 1 .. n OBVIOUS
    <2>7. n + 1 \in 1 .. n + 1 /\ \A i \in 1 .. n : i \in 1 .. n + 1 OBVIOUS
    <2>8. Len(F[n + 1]) > 0 <=> \E i \in 1 .. n + 1 : Len(seqs[i]) > 0 BY <2>4, <2>5, <2>6, <2>7
    <2> QED BY <2>2, <2>8, <2>9, <2>10
<1> HIDE DEF joined
<1>7. N \in joined
    <2>1. \A n \in 1 .. N : n \in joined BY <1>5, <1>6, CountFromOne
    <2> QED BY <2>1
<1> QED BY <1>1, <1>7 DEF joined

\* A run has rows of alerts when it has alerts.
LEMMA RowsOfAlerts ==
    ASSUME Observing, NEW r \in Runs
    PROVE  /\ AlertRows(r) \in Seq(Nat)
           /\ Len(AlertRows(r)) > 0 <=> Detected(r)
<1>1. PICK session : IsSession(session) /\ outcome[r] = Observed(session) BY DEF Observing
<1>2. PICK ev : ev = [t \in DOMAIN session.ticks |-> Evidence(TickFeatures(session, t))] OBVIOUS
<1>3. PICK shown : shown = ShownOf(ev) OBVIOUS
<1>4. outcome[r].alerts = {t \in DOMAIN ev : DOMAIN ev[t] # {}} /\ outcome[r].detectors = {e[1] : e \in shown}
    BY <1>1, <1>2, <1>3 DEF Observed, KeptOf, Kept
<1>5. PICK D : D = outcome[r].detectors OBVIOUS
<1>6. \A t \in DOMAIN ev : DOMAIN ev[t] \subseteq {"spoofing_like", "layering_like", "quote_stuffing", "liquidity_shock"}
    BY <1>2 DEF Evidence, Alerts
<1>7. \A d : d \in D <=> \E t \in DOMAIN ev : d \in DOMAIN ev[t]
    <2>1. ASSUME NEW d \in D PROVE \E t \in DOMAIN ev : d \in DOMAIN ev[t]
        <3>1. PICK e \in shown : d = e[1] BY <1>4, <1>5
        <3> QED BY <1>3, <3>1 DEF ShownOf
    <2>2. ASSUME NEW t \in DOMAIN ev, NEW d \in DOMAIN ev[t] PROVE d \in D
        <3>1. <<d, ev[t][d]>> \in shown BY <1>3 DEF ShownOf
        <3> QED BY <1>4, <1>5, <3>1
    <2> QED BY <2>1, <2>2
<1>8. IsFiniteSet(D)
    <2>1. D \subseteq {"spoofing_like", "layering_like", "quote_stuffing", "liquidity_shock"} BY <1>6, <1>7
    <2>2. IsFiniteSet({"spoofing_like", "layering_like", "quote_stuffing", "liquidity_shock"})
        <3>1. IsFiniteSet({} \cup {"spoofing_like"}) BY FS_EmptySet, FS_AddElement
        <3>2. IsFiniteSet({"spoofing_like"} \cup {"layering_like"}) BY <3>1, FS_AddElement
        <3>3. IsFiniteSet({"spoofing_like", "layering_like"} \cup {"quote_stuffing"}) BY <3>2, FS_AddElement
        <3>4. IsFiniteSet({"spoofing_like", "layering_like", "quote_stuffing"} \cup {"liquidity_shock"})
            BY <3>3, FS_AddElement
        <3> QED BY <3>4
    <2> QED BY <2>1, <2>2, FS_Subset
<1>9. D # {} <=> outcome[r].alerts # {} BY <1>4, <1>7
<1>10. Cardinality(D) \in Nat /\ (Cardinality(D) = 0 <=> D = {}) BY <1>8, FS_CardinalityType, FS_EmptySet
<1>11. PICK n \in Nat : n = Cardinality(D) BY <1>10
<1>12. AlertRows(r) = [d \in 1 .. n |-> r] BY <1>5, <1>11 DEF AlertRows
<1>13. r \in Nat BY TotalPositive DEF Runs
<1>14. [d \in 1 .. n |-> r] \in Seq(Nat) /\ Len([d \in 1 .. n |-> r]) = n BY <1>13
<1> QED BY <1>9, <1>10, <1>11, <1>12, <1>14 DEF Detected

\* The summary of whole artifacts counts what the runs gave.
LEMMA WholeSummary ==
    ASSUME Observing
    PROVE  /\ Cardinality({i \in DOMAIN Expected("labels") : Expected("labels")[i][2]}) =
                Cardinality({r \in Runs : Attack(r)})
           /\ (Len(Expected("alerts")) > 0) <=> \E r \in Runs : Detected(r)
<1>1. Total \in Nat \ {0} /\ Runs = 1 .. Total BY TotalPositive DEF Runs
<1>2. Expected("labels") = [r \in Runs |-> <<r, Attack(r)>>] BY DEF Expected, Written
<1>3. {i \in DOMAIN Expected("labels") : Expected("labels")[i][2]} = {r \in Runs : Attack(r)} 
    <2>1. DOMAIN Expected("labels") = Runs BY <1>2
    <2>2. ASSUME NEW r \in Runs PROVE Expected("labels")[r][2] = Attack(r)
        <3>1. Expected("labels")[r] = <<r, Attack(r)>> BY <1>2
        <3> QED BY <3>1
    <2> HIDE DEF Expected
    <2> QED BY <2>1, <2>2
<1> DEFINE rows == [r \in Runs |-> AlertRows(r)]
<1>4. Expected("alerts") = FlattenSeq(rows) BY DEF Expected, Written
<1>5. Len(rows) = Total BY <1>1
<1>6. \A r \in Runs : rows[r] \in Seq(Nat) /\ (Len(rows[r]) > 0 <=> Detected(r)) BY RowsOfAlerts
<1> HIDE DEF rows
<1>7. Len(FlattenSeq(rows)) > 0 <=> \E i \in 1 .. Total : Len(rows[i]) > 0 BY <1>1, <1>5, <1>6, JoinedRows
<1> QED BY <1>1, <1>3, <1>4, <1>6, <1>7

\* A request becomes completed by recording a batch that was copied.
LEMMA CompletesByRecord ==
    ASSUME AloneInv, [Next]_vars, NEW q \in Requests, proc[q].pc # "completed", proc'[q].pc = "completed"
    PROVE  /\ proc[q].pc = "recording" /\ jobs' = Append(jobs, "completed")
           /\ UNCHANGED <<given, copy>> /\ shared' = shared
<1>1. ~UNCHANGED vars
    <2> SUFFICES ASSUME UNCHANGED vars PROVE FALSE OBVIOUS
    <2>1. proc' = proc BY DEF vars
    <2> QED BY <2>1
<1>2. PICK o \in Requests : Step(o) BY <1>1 DEF Next
<1>3. o = q BY <1>2, OneSteps
<1>4. PICK p : p = proc[q] OBVIOUS
<1>5. DOMAIN p = Fields BY <1>4 DEF AloneInv, FilesInv, ProcGood
<1>6. \A next : Becomes(q, next) => proc'[q] = next BY DEF Becomes, AloneInv, FilesInv
<1>7. ASSUME RunBatch(q) PROVE FALSE
    <2>1. proc'[q] = [Fresh EXCEPT !.pc = "running", !.pending = Runs] BY <1>6, <1>7 DEF RunBatch
    <2> QED BY <2>1 DEF Fresh
<1>8. ASSUME TakeRun(q) PROVE FALSE
    <2>1. PICK r : Becomes(q, [p EXCEPT !.pending = @ \ {r}, !.running = @ \cup {r}]) BY <1>4, <1>8 DEF TakeRun
    <2>2. proc'[q].pc = p.pc BY <1>5, <1>6, <2>1 DEF Fields
    <2> QED BY <1>4, <2>2
<1>9. ASSUME NEW r \in Runs, FinishRun(q, r) PROVE FALSE
    <2>1. Becomes(q, [p EXCEPT !.running = @ \ {r}, !.results = Append(@, r)]) BY <1>4, <1>9 DEF FinishRun
    <2>2. proc'[q].pc = p.pc BY <1>5, <1>6, <2>1 DEF Fields
    <2> QED BY <1>4, <2>2
<1>10. ASSUME OpenFile(q) PROVE FALSE
    <2>1. PICK alone : alone = (Writers(q) = {}) OBVIOUS
    <2>2. proc'[q] = [p EXCEPT !.pc = "writing", !.open = TRUE, !.alone = alone] BY <1>4, <1>10, <2>1 DEF OpenFile
    <2>3. proc'[q].pc = "writing" BY <1>5, <2>2 DEF Fields
    <2> QED BY <2>3
<1>11. ASSUME FillFile(q) PROVE FALSE
    <2>1. p.pc = "writing" /\ Becomes(q, IF p.at < Len(Files) THEN [p EXCEPT !.at = @ + 1, !.open = FALSE]
                                         ELSE [Fresh EXCEPT !.pc = "copying"])
        BY <1>4, <1>11 DEF FillFile
    <2>2. proc'[q].pc \in {"writing", "copying"}
        <3>1. CASE p.at < Len(Files) BY <1>5, <1>6, <2>1, <3>1 DEF Fields
        <3>2. CASE ~(p.at < Len(Files)) BY <1>6, <2>1, <3>2 DEF Fresh
        <3> QED BY <3>1, <3>2
    <2> QED BY <2>2
<1>12. ASSUME Killed(q) PROVE FALSE
    <2>1. PICK pc \in {"recording_failure", "failed"} : Becomes(q, [Fresh EXCEPT !.pc = pc])
        BY <1>12 DEF Killed, ExitFailed
    <2>2. proc'[q].pc = pc BY <1>6, <2>1 DEF Fresh
    <2> QED BY <2>2
<1>13. ASSUME Normalize(q) PROVE FALSE
    <2>1. proc'[q] = [Fresh EXCEPT !.pc = "normalizing"] BY <1>6, <1>13 DEF Normalize
    <2> QED BY <2>1 DEF Fresh
<1>14. ASSUME CopyFile(q) PROVE FALSE
    <2>1. /\ p.pc \in {"copying", "normalizing"}
          /\ Becomes(q, IF p.at < Len(Files) THEN [p EXCEPT !.at = @ + 1]
                        ELSE [Fresh EXCEPT !.pc = IF p.pc = "copying" THEN "recording" ELSE "normalized"])
        BY <1>4, <1>14 DEF CopyFile
    <2>2. proc'[q].pc \in {"copying", "normalizing", "recording", "normalized"}
        <3>1. CASE p.at < Len(Files) BY <1>5, <1>6, <2>1, <3>1 DEF Fields
        <3>2. CASE ~(p.at < Len(Files)) BY <1>6, <2>1, <3>2 DEF Fresh
        <3> QED BY <3>1, <3>2
    <2> QED BY <2>2
<1>15. CASE Record(q)
    <2>1. PICK status : status = IF p.pc = "recording" THEN "completed" ELSE "failed" OBVIOUS
    <2>2. /\ p.pc \in {"recording", "recording_failure"} /\ UNCHANGED <<given, copy>> /\ shared' = shared
          /\ jobs' = Append(jobs, status) /\ Becomes(q, [Fresh EXCEPT !.pc = status])
        BY <1>4, <1>15, <2>1 DEF Record
    <2>3. proc'[q].pc = status BY <1>6, <2>2 DEF Fresh
    <2> QED BY <1>4, <2>1, <2>2, <2>3
<1> QED BY <1>2, <1>3, <1>7, <1>8, <1>9, <1>10, <1>11, <1>12, <1>13, <1>14, <1>15 DEF Step

LEMMA AloneHolds ==
    /\ Init => AloneInv
    /\ AloneInv /\ [Next]_vars => AloneInv'
<1>1. ASSUME Init PROVE AloneInv
    <2>1. /\ FilesInv /\ proc = [q \in Requests |-> Fresh] /\ DOMAIN copy = {} /\ jobs = <<>>
        BY <1>1, FilesInvHolds DEF Init
    <2>2. jobs \in Seq({"completed", "failed"}) BY <2>1
    <2>3. Fresh.pc = "idle" /\ Fresh.open = FALSE BY DEF Fresh
    <2>4. \A q \in Requests : proc[q] = Fresh /\ OnItsWay(proc[q], disk, copy) BY <2>1, <2>3, NothingToShow
    <2> QED BY <2>1, <2>2, <2>3, <2>4 DEF AloneInv, Active
<1>2. ASSUME AloneInv, [Next]_vars PROVE AloneInv'
    <2>1. FilesInv' BY <1>2, FilesInvHolds DEF AloneInv
    <2>2. ASSUME NEW q \in Requests, Step(q) PROVE AloneInv'
        <3>1. CASE OpenFile(q) BY <1>2, <2>1, <3>1, OpenIsAlone
        <3>2. CASE FillFile(q) BY <1>2, <2>1, <3>2, FillIsAlone
        <3>3. CASE CopyFile(q) BY <1>2, <2>1, <3>3, CopyIsAlone
        <3>4. CASE \/ RunBatch(q) \/ TakeRun(q) \/ (\E r \in Runs : FinishRun(q, r))
                   \/ Killed(q) \/ Normalize(q) \/ Record(q)
            BY <1>2, <2>1, <3>4, OthersAreAlone
        <3> QED BY <2>2, <3>1, <3>2, <3>3, <3>4 DEF Step
    <2>3. CASE UNCHANGED vars
        <3>1. /\ UNCHANGED given /\ proc' = proc /\ disk' = disk /\ copy' = copy
              /\ jobs' = jobs /\ shared' = shared
            BY <2>3 DEF vars, given
        <3>2. \A f : Expected(f)' = Expected(f) BY <3>1, ExpectedKept
        <3>3. \A q \in Requests : ~Met(q)' => OnItsWay(proc[q], disk, copy)'
            BY <1>2, <3>1, <3>2 DEF AloneInv, OnItsWay, WholeIn, Met
        <3>4. \A q, o \in Requests : q # o /\ Active(q)' /\ Active(o)' => Met(q)' /\ Met(o)'
            BY <1>2, <3>1 DEF AloneInv, Active, Met
        <3>5. Names' = Names BY DEF Names, Files
        <3> QED BY <1>2, <2>1, <3>1, <3>3, <3>4, <3>5 DEF AloneInv
    <2> QED BY <1>2, <2>2, <2>3 DEF Next
<1> QED BY <1>1, <1>2

\* CompletedAloneIsWhole: whatever earlier batches left in the directory and among
\* the artifacts, torn files and all, a batch that met no other request replaces
\* every file of both before it is recorded, and the summary counts its runs.
THEOREM LoneBatchesAreWhole == Spec => CompletedAloneIsWhole
<1>1. Init => AloneInv /\ Observing BY AloneHolds, ObservingHolds
<1>2. AloneInv /\ Observing /\ [Next]_vars => (AloneInv /\ Observing)' BY AloneHolds, ObservingHolds
<1> DEFINE Whole ==
             \A q \in Requests \ shared' :
               (proc[q].pc # "completed" /\ proc'[q].pc = "completed") =>
                  /\ DOMAIN copy' = Names /\ \A f \in Names : copy'[f] = Expected(f)
                  /\ Summary'.attacks = Cardinality({r \in Runs : Attack(r)})
                  /\ (Summary'.alerts > 0) <=> \E r \in Runs : Detected(r)
                  /\ Summary'.failedRuns = 0
<1>3. AloneInv /\ Observing /\ [Next]_vars => Whole
    <2> SUFFICES ASSUME AloneInv, Observing, [Next]_vars, NEW q \in Requests \ shared',
                        proc[q].pc # "completed", proc'[q].pc = "completed"
                 PROVE  /\ DOMAIN copy' = Names /\ \A f \in Names : copy'[f] = Expected(f)
                        /\ Summary'.attacks = Cardinality({r \in Runs : Attack(r)})
                        /\ (Summary'.alerts > 0) <=> \E r \in Runs : Detected(r)
                        /\ Summary'.failedRuns = 0
        OBVIOUS
    <2>1. /\ proc[q].pc = "recording" /\ jobs' = Append(jobs, "completed") /\ copy' = copy /\ shared' = shared
        BY CompletesByRecord
    <2>2. OnItsWay(proc[q], disk, copy) BY <2>1 DEF AloneInv, Met
    <2>3. \A i \in 1 .. 5 : WholeIn(copy', Files[i]) BY <2>1, <2>2 DEF OnItsWay
    <2>4. \A f \in Names : f \in DOMAIN copy' /\ copy'[f] = Expected(f) BY <2>3, FilesAre DEF WholeIn
    <2>5. DOMAIN copy' = Names BY <2>1, <2>4 DEF AloneInv
    <2>6. "labels" \in Names /\ "alerts" \in Names BY DEF Names, Files
    <2>7. Rows("labels")' = Expected("labels") /\ Rows("alerts")' = Expected("alerts") BY <2>4, <2>6 DEF Rows
    <2>8. /\ Summary'.attacks = Cardinality({i \in DOMAIN Expected("labels") : Expected("labels")[i][2]})
          /\ Summary'.alerts = Len(Expected("alerts"))
          /\ Summary'.failedRuns = IF jobs' # <<>> /\ jobs'[Len(jobs')] = "failed" THEN 1 ELSE 0
        BY <2>7 DEF Summary
    <2>9. jobs'[Len(jobs')] = "completed"
        <3>1. jobs \in Seq({"completed", "failed"}) BY DEF AloneInv
        <3> QED BY <2>1, <3>1
    <2> QED BY <2>4, <2>5, <2>8, <2>9, WholeSummary
<1> QED BY <1>1, <1>2, <1>3, PTL DEF Spec, CompletedAloneIsWhole

=============================================================================
