------------------------------- MODULE Detectors -------------------------------
(***************************************************************************)
(* What the detectors see of a tick and how they score it.  A book is a    *)
(* pair of sides, best level first, of prices and quantities in whole      *)
(* units; an event has an agent, an order (or neither) and the words its   *)
(* message is searched for.  Features and confidences are whole numbers of *)
(* ten-thousandths, the precision the code rounds to.                      *)
(***************************************************************************)
EXTENDS Integers, Sequences, FiniteSets, SequencesExt

CONSTANT Nobody    \* the agent or the order an event does not have

Unit == 10000
Least(a, b) == IF a < b THEN a ELSE b
Most(a, b) == IF a > b THEN a ELSE b
Magnitude(n) == IF n < 0 THEN -n ELSE n

\* n / d to the nearest ten-thousandth, for n >= 0 and d > 0.
Ratio(n, d) == (2 * Unit * n + d) \div (2 * d)
SignedRatio(n, d) == IF n < 0 THEN -Ratio(-n, d) ELSE Ratio(n, d)

-----------------------------------------------------------------------------
(* Features *)

TopN == 5
Top(levels) == SubSeq(levels, 1, Least(TopN, Len(levels)))
Quantity(levels) == FoldLeft(LAMBDA sum, level : sum + level[2], 0, levels)
TopDepth(book) == Quantity(Top(book.bids)) + Quantity(Top(book.asks))

Imbalance(book) ==
    LET bids == Quantity(Top(book.bids)) IN
    LET asks == Quantity(Top(book.asks)) IN
    IF bids + asks = 0 THEN 0 ELSE SignedRatio(bids - asks, bids + asks)

SpreadBps(book) ==
    IF book.bids = <<>> \/ book.asks = <<>> THEN 0
    ELSE Ratio(2 * Unit * (book.asks[1][1] - book.bids[1][1]), book.asks[1][1] + book.bids[1][1])

DepthChange(book, before) ==
    IF before = 0 THEN 0 ELSE SignedRatio(100 * (TopDepth(book) - before), before)

\* The side of the largest level: of equals, the first bid.
LargestOf(levels) == FoldLeft(LAMBDA most, level : Most(most, level[2]), 0, levels)
WallSide(book) == IF LargestOf(Top(book.asks)) > LargestOf(Top(book.bids)) THEN Top(book.asks) ELSE Top(book.bids)

\* The first of the largest levels of a side, and the sizes of the others in order.
WallAt(side) ==
    CHOOSE i \in DOMAIN side : side[i][2] = LargestOf(side) /\ \A j \in 1 .. i - 1 : side[j][2] < side[i][2]
OtherSizes(side, wall) ==
    SortSeq([i \in 1 .. Len(side) - 1 |-> side[IF i < wall THEN i ELSE i + 1][2]], <)

\* Twice the median of the other levels; without any, of a unit.
TwiceMedian(sizes) ==
    IF sizes = <<>> THEN 2 ELSE sizes[(Len(sizes) + 1) \div 2] + sizes[(Len(sizes) + 2) \div 2]
NearbyTwice(side) == TwiceMedian(OtherSizes(side, WallAt(side)))

WallRatio(side) == IF side = <<>> THEN Unit ELSE Ratio(2 * LargestOf(side), NearbyTwice(side))

\* Levels of that side that are half as large again as their neighbours.
LargeLevels(side) ==
    IF side = <<>> THEN 0 ELSE Cardinality({i \in DOMAIN side : 4 * side[i][2] >= 3 * NearbyTwice(side)})

Saying(events, words) == Len(SelectSeq(events, LAMBDA e : e.says \cap words # {}))
Placements == {"placed", "updated", "maintained"}
Replenishments == {"maintained", "replenish", "updated"}

\* An order is known from its first event until it is cancelled or executed.
Seen(tracker, tick, events) ==
    FoldLeft(LAMBDA acc, e :
               IF e.order = Nobody THEN acc
               ELSE IF e.says \cap {"cancel", "execut"} # {}
               THEN [first |-> [o \in DOMAIN acc.first \ {e.order} |-> acc.first[o]],
                     lifetimes |-> acc.lifetimes \cup (IF e.order \in DOMAIN acc.first THEN {tick - acc.first[e.order]} ELSE {})]
               ELSE [acc EXCEPT !.first = [o \in DOMAIN @ \cup {e.order} |-> IF o \in DOMAIN @ THEN @[o] ELSE tick]],
             [first |-> tracker, lifetimes |-> {}], events)

\* The longest lifetime of an order that ended or is known, in ticks.
Longest(seen, tick) ==
    LET lifetimes == seen.lifetimes \cup {tick - seen.first[o] : o \in DOMAIN seen.first}
    IN  IF lifetimes = {} THEN 0 ELSE CHOOSE n \in lifetimes : \A m \in lifetimes : m <= n

\* How far the largest level is from the best one of its side.
Distance(book, side) ==
    IF book.bids = <<>> \/ book.asks = <<>> THEN 0
    ELSE Ratio(2 * Unit * Magnitude(side[WallAt(side)][1] - side[1][1]), book.asks[1][1] + book.bids[1][1])

TicksPerSecond == 2
\* Side switching is left out.
Features(book, before, events, longest) ==
    LET cancels == Saying(events, {"cancel"})
        trades == Saying(events, {"execut"})
        placed == Most(1, Saying(events, Placements))
        side == WallSide(book)
    IN  [wall |-> WallRatio(side), large |-> LargeLevels(side), distance |-> Distance(book, side),
         imbalance |-> Imbalance(book), spread |-> SpreadBps(book), depthChange |-> DepthChange(book, before),
         bids |-> Quantity(Top(book.bids)), asks |-> Quantity(Top(book.asks)),
         lifetime |-> longest, rate |-> TicksPerSecond * Len(events) * Unit,
         cancelToTrade |-> Ratio(cancels, Most(1, trades)),
         cancelProbability |-> Ratio(cancels, Most(1, cancels + trades)),
         executions |-> Ratio(trades, placed),
         replenishment |-> Ratio(Saying(events, Replenishments), placed),
         agents |-> {e.agent : e \in ToSet(events)} \ {Nobody},
         orders |-> {e.order : e \in ToSet(events)} \ {Nobody}]

\* The ranges of features: of two numbers of events the larger one divides.
IsMeasured(f) ==
    /\ {f.wall, f.large, f.spread, f.bids, f.asks, f.lifetime, f.rate, f.cancelToTrade, f.replenishment,
        f.cancelProbability} \subseteq Nat
    /\ {f.imbalance, f.depthChange} \subseteq Int
    /\ f.cancelProbability <= Unit

-----------------------------------------------------------------------------
(* Scores: the weighted sum of the components, each cut off at one.  They   *)
(* are sums of fractions with the denominators 120, 700, 96 and 1100.       *)

Rounded(n, d) == (2 * n + d) \div (2 * d)

Spoofing(f) ==
    LET lived == IF 1 <= f.lifetime /\ f.lifetime <= 10 THEN 2000 ELSE 500
    IN  Rounded(9 * Least(f.wall, 8 * Unit) + 120 * lived
                + 4 * Most(Least(f.cancelToTrade, 3 * Unit), 3 * f.cancelProbability)
                + 24 * Least(Magnitude(f.imbalance), 5000), 120)

\* mutant: two large levels are layers
LayersTwo(f) == IF f.large >= 2 THEN 3500 ELSE 0
Layers(f) == IF f.large >= 3 THEN 3500 ELSE 0
Layering(f) ==
    LET depth == IF 5 * Most(f.bids, f.asks) > 7 * Least(f.bids, f.asks) THEN 2000 ELSE 700
    IN  Rounded(21 * Least(f.wall, 5 * Unit) + 300 * Least(Magnitude(f.imbalance), 3500)
                + 105 * Least(f.replenishment, Unit) + 700 * (depth + Layers(f)), 700)

QuoteStuffing(f) == Rounded(4 * Least(f.rate, 18 * Unit) + 3 * Least(f.cancelToTrade, 8 * Unit), 96)

LiquidityShock(f) ==
    Rounded(11 * Least(Magnitude(Least(f.depthChange, 0)), 45 * Unit) + 385 * Least(f.spread, Unit)
            + 400 * Least(Magnitude(f.imbalance), 5500), 1100)

Alarm == 7500
\* The detectors of the aggregate that alert on a tick.
Alerts(f) ==
    {d \in {"spoofing_like", "layering_like", "quote_stuffing", "liquidity_shock"} :
        CASE d = "spoofing_like" -> Spoofing(f) >= Alarm
          [] d = "layering_like" -> Layering(f) >= Alarm
          [] d = "quote_stuffing" -> QuoteStuffing(f) >= Alarm
          [] d = "liquidity_shock" -> LiquidityShock(f) >= Alarm}

\* What the evidence of each detector shows.
SpoofingEvidence(f) ==
    [wall |-> f.wall, lifetime |-> f.lifetime, cancelToTrade |-> f.cancelToTrade,
     cancelProbability |-> f.cancelProbability, distance |-> f.distance, executions |-> f.executions,
     agents |-> f.agents, orders |-> f.orders]
LayeringEvidence(f) ==
    [dominant |-> Most(f.bids, f.asks), imbalance |-> f.imbalance, large |-> f.large,
     replenishment |-> f.replenishment, agents |-> f.agents, orders |-> f.orders]
QuoteEvidence(f) == [rate |-> f.rate, cancelToTrade |-> f.cancelToTrade, agents |-> {}, orders |-> {}]
ShockEvidence(f) == [depthChange |-> f.depthChange, spread |-> f.spread, agents |-> {}, orders |-> {}]

Evidence(f) ==
    [d \in Alerts(f) |->
        CASE d = "spoofing_like" -> SpoofingEvidence(f)
          [] d = "layering_like" -> LayeringEvidence(f)
          [] d = "quote_stuffing" -> QuoteEvidence(f)
          [] d = "liquidity_shock" -> ShockEvidence(f)]

-----------------------------------------------------------------------------
(* A session: the depth before it, and a book and events for each tick *)

\* The orders known at the end of each tick, and the lifetimes it saw.
Followed(session) ==
    LET f[t \in 0 .. Len(session.ticks)] ==
          IF t = 0 THEN [first |-> <<>>, lifetimes |-> {}]
          ELSE Seen(f[t - 1].first, t, session.ticks[t].events)
    IN  f

TickFeatures(session, t) ==
    Features(session.ticks[t].book,
             IF t = 1 THEN session.before ELSE TopDepth(session.ticks[t - 1].book),
             session.ticks[t].events, Longest(Followed(session)[t], t))

\* Each detector that alerted on a tick, with what it shows.
ShownOf(evidence) == UNION {{<<d, evidence[t][d]>> : d \in DOMAIN evidence[t]} : t \in DOMAIN evidence}
NamedIn(shown) ==
    [agents |-> UNION {e[2].agents : e \in shown}, orders |-> UNION {e[2].orders : e \in shown}]
Kept(evidence, shown, label) ==
    [alerts |-> {t \in DOMAIN evidence : DOMAIN evidence[t] # {}}, detectors |-> {e[1] : e \in shown},
     evidence |-> shown, named |-> NamedIn(shown), label |-> label]
KeptOf(evidence, label) == Kept(evidence, ShownOf(evidence), label)

\* What the batch keeps of a session: ticks with an alert, the detectors that
\* alerted, their evidence, and whom it named.
Observed(session) == KeptOf([t \in DOMAIN session.ticks |-> Evidence(TickFeatures(session, t))], session.label)
=============================================================================
