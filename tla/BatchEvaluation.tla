---------------------------- MODULE BatchEvaluation ----------------------------
(***************************************************************************)
(* What a batch of runs is planned from, and how its runs are scored:      *)
(* exact plans of scenarios and difficulties, alerts against the labelled  *)
(* window, and the rates of each scenario.  Rates are pairs of a numerator *)
(* and a denominator, or None; the code rounds them to four decimals.      *)
(***************************************************************************)
EXTENDS Integers, Sequences, FiniteSets

CONSTANT None

-----------------------------------------------------------------------------
(* Plans *)

\* exact_balanced_plan: values[index % len(values)], before the shuffle.
BalancedPlan(total, values) == [i \in 1 .. total |-> values[((i - 1) % Len(values)) + 1]]

\* exact_weighted_plan: easy, medium, hard and adversarial, in this order; the
\* weights are whole numbers with a positive sum.
WeightSum(w) == w[1] + w[2] + w[3] + w[4]
WholeShare(w, total, i) == (w[i] * total) \div WeightSum(w)
Remainder(w, total, i) == (w[i] * total) % WeightSum(w)
Remaining(w, total) ==
    total - (WholeShare(w, total, 1) + WholeShare(w, total, 2)
             + WholeShare(w, total, 3) + WholeShare(w, total, 4))

\* Ranked by remainder; of equals the earlier goes first.
RankedBefore(w, total, j, i) ==
    \/ Remainder(w, total, j) > Remainder(w, total, i)
    \/ Remainder(w, total, j) = Remainder(w, total, i) /\ j < i
Beats(w, total, j, i) == IF RankedBefore(w, total, j, i) THEN 1 ELSE 0
\* mutant: the ranking is the wrong way round
RankLast(w, total, i) ==
    Beats(w, total, i, 1) + Beats(w, total, i, 2) + Beats(w, total, i, 3) + Beats(w, total, i, 4)
Rank(w, total, i) ==
    Beats(w, total, 1, i) + Beats(w, total, 2, i) + Beats(w, total, 3, i) + Beats(w, total, 4, i)

WeightedCount(w, total, i) ==
    WholeShare(w, total, i) + (IF Rank(w, total, i) < Remaining(w, total) THEN 1 ELSE 0)

\* A seeded shuffle follows, so the plan may have any order.
Occurrences(s, x) == Cardinality({i \in DOMAIN s : s[i] = x})
Shuffled(s, t) == DOMAIN s = DOMAIN t /\ \A i \in DOMAIN s : Occurrences(s, s[i]) = Occurrences(t, s[i])

-----------------------------------------------------------------------------
(* One run against its label *)

Latest(a, b) == IF a > b THEN a ELSE b
Earliest(S) == CHOOSE t \in S : \A u \in S : t <= u

\* mutant: the last tick of a window is left out
TicksOpen(window) == window[1] .. (window[2] - 1)
Ticks(window) == window[1] .. window[2]

\* _bounds: a window that would end before it starts ends where it starts.
Bounds(start, end) == IF start = None \/ end = None THEN None ELSE <<start, Latest(start, end)>>

Either(a, b) == IF a \in {None, 0} THEN b ELSE a
\* _primary_window: the first listed window, or the ends of the label.
PrimaryWindow(label) ==
    LET listed == IF label.windows = <<>> THEN None ELSE Bounds(label.windows[1][1], label.windows[1][2])
    IN  IF listed # None THEN listed
        ELSE Bounds(label.start, Either(label.actualEnd, label.expectedEnd))

\* _attribution: precision and recall of what was named.
Attribution(predicted, truth) ==
    LET matches == Cardinality(predicted \cap truth)
    IN  IF truth = {} THEN <<None, None>>
        ELSE <<IF predicted = {} THEN None ELSE <<matches, Cardinality(predicted)>>,
               <<matches, Cardinality(truth)>> >>

Timing(alerts, window) ==
    IF alerts = {} THEN "missed"
    ELSE IF window = None THEN "not_applicable"
    ELSE IF Earliest(alerts) < window[1] THEN "early"
    ELSE IF Earliest(alerts) <= window[2] THEN "on_time" ELSE "late"

Overlap(alerts, positive) ==
    IF alerts \cup positive = {} THEN None
    ELSE <<Cardinality(alerts \cap positive), Cardinality(alerts \cup positive)>>

\* Phases without both ends are not scored.
Phases(alerts, label) ==
    LET scored == {p \in DOMAIN label.phases : Bounds(label.phases[p][1], label.phases[p][2]) # None}
    IN  [p \in scored |-> alerts \cap Ticks(Bounds(label.phases[p][1], label.phases[p][2])) # {}]

\* evaluate_detection
Evaluation(alerts, label, named) ==
    IF label = None
    THEN [overlap |-> None, timing |-> IF alerts = {} THEN "not_applicable" ELSE "false_positive",
          agents |-> <<None, None>>, orders |-> <<None, None>>, phases |-> <<>>]
    ELSE LET window == PrimaryWindow(label)
         IN  [overlap |-> Overlap(alerts, IF window = None THEN {} ELSE Ticks(window)),
              timing |-> Timing(alerts, window),
              agents |-> Attribution(named.agents, label.agents),
              orders |-> Attribution(named.orders, label.orders),
              phases |-> Phases(alerts, label)]

-----------------------------------------------------------------------------
(* Rates *)

Fraction(n, d) == IF d = 0 THEN None ELSE <<n, d>>
SameRate(a, b) == IF None \in {a, b} THEN a = b ELSE a[1] * b[2] = b[1] * a[2]

\* The harmonic mean; without precision, zero if nothing was recalled.
HarmonicMean(precision, recall) ==
    IF precision # None /\ recall # None /\ precision[1] + recall[1] # 0
    THEN <<2 * precision[1] * recall[1], precision[1] * recall[2] + recall[1] * precision[2]>>
    ELSE IF recall # None /\ recall[1] = 0 THEN <<0, 1>> ELSE None

\* binary_classification_metrics
BinaryRates(c) ==
    [precision |-> Fraction(c.tp, c.tp + c.fp), recall |-> Fraction(c.tp, c.tp + c.fn),
     f1 |-> HarmonicMean(Fraction(c.tp, c.tp + c.fp), Fraction(c.tp, c.tp + c.fn)),
     specificity |-> Fraction(c.tn, c.tn + c.fp), falsePositiveRate |-> Fraction(c.fp, c.fp + c.tn)]

\* The detector tournament counts a confusion matrix from truth and prediction.
Confusion(runs, truth, predicted) ==
    LET count(t, p) == Cardinality({r \in runs : truth[r] = t /\ predicted[r] = p})
    IN  [tp |-> count(TRUE, TRUE), fp |-> count(FALSE, TRUE), fn |-> count(TRUE, FALSE), tn |-> count(FALSE, FALSE)]

\* _aggregate_metrics of the batch job, by the number of runs and of runs with an alert.
BatchRates(n, detections, attack) ==
    LET precision == IF attack /\ detections > 0 THEN <<1, 1>> ELSE None
        recall == IF attack THEN <<detections, n>> ELSE None
    IN  [precision |-> precision, recall |-> recall, f1 |-> HarmonicMean(precision, recall),
         specificity |-> IF attack THEN None ELSE <<n - detections, n>>,
         falsePositiveRate |-> IF attack THEN None ELSE <<detections, n>>]
=============================================================================
