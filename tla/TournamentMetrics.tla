-------------------------- MODULE TournamentMetrics --------------------------
(***************************************************************************)
(* DetectorTournamentMetrics: which tournaments are in flight, which have  *)
(* been counted, and the gauge and counter made of them.  A call holds the *)
(* lock of the metrics, so it is one step.  Durations, numbers of          *)
(* scenarios and artifact collections are further counters of the same     *)
(* calls and are left out.                                                 *)
(***************************************************************************)
EXTENDS Integers, Sequences, FiniteSets

CONSTANTS
    Ids,         \* tournament ids
    NoMode,      \* of a tournament that is not in flight
    DedupLimit   \* _TERMINAL_METRIC_DEDUP_LIMIT
ASSUME MetricsAssumption == DedupLimit \in Nat \ {0} /\ NoMode \notin {"local_mock", "local", "nebius_serverless_job"}

VARIABLES
    active,    \* mode of each tournament in flight
    terminal,  \* ids of counted tournaments, the oldest first
    gauge,     \* detector_tournament_in_flight
    runs,      \* detector_tournament_runs_total
    evicted    \* history: the ids that terminal forgot
metrics == <<active, terminal, gauge, runs, evicted>>

Modes == {"local_mock", "local", "nebius_serverless_job"}
Unfinished == {"queued", "running"}
Finished == {"completed", "failed"}
Responses == [status : Unfinished \cup Finished, mode : Modes, collected : BOOLEAN]

IsCounted(t) == \E i \in DOMAIN terminal : terminal[i] = t
InFlight(mode) == {t \in Ids : active[t] = mode}

NoRuns == [m \in Modes |-> [o \in Finished |-> 0]]
MetricsInit ==
    /\ active = [t \in Ids |-> NoMode] /\ terminal = <<>> /\ evicted = {}
    /\ gauge = [m \in Modes |-> 0] /\ runs = NoRuns

MetricsRestart ==
    /\ active' = [t \in Ids |-> NoMode] /\ terminal' = <<>> /\ evicted' = {}
    /\ gauge' = [m \in Modes |-> 0] /\ runs' = NoRuns

\* A counted tournament stays out, whatever a late observation says.
\* mutant: it comes back
ActiveAlways(t, r) == IF r.status \in Finished THEN NoMode ELSE r.mode
ActiveAfter(t, r) ==
    IF r.status \in Finished \/ (active[t] = NoMode /\ IsCounted(t)) THEN NoMode ELSE r.mode

\* The modes whose gauge is written again.
\* mutant: a tournament that changes its mode leaves the gauge of the old one
RenderedNew(t, r) == IF ActiveAfter(t, r) = active[t] THEN {} ELSE {r.mode}
Rendered(t, r) == IF ActiveAfter(t, r) = active[t] THEN {} ELSE {active[t], r.mode} \ {NoMode}

\* What the memory of counted tournaments holds after t: the oldest gives way.
TerminalAfter(t) == Append(IF Len(terminal) >= DedupLimit THEN Tail(terminal) ELSE terminal, t)

Observe(t, r) ==
    /\ active' = [active EXCEPT ![t] = ActiveAfter(t, r)]
    /\ gauge' = [m \in Modes |-> IF m \in Rendered(t, r) THEN Cardinality(InFlight(m)') ELSE gauge[m]]
    /\ IF r.status \in Finished /\ ~IsCounted(t)
       THEN /\ terminal' = TerminalAfter(t)
            /\ evicted' = IF Len(terminal) >= DedupLimit THEN evicted \cup {Head(terminal)} ELSE evicted
            /\ runs' = [runs EXCEPT ![r.mode][r.status] = @ + 1]
       ELSE UNCHANGED <<terminal, evicted, runs>>
=============================================================================
