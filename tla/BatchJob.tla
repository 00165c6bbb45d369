-------------------------------- MODULE BatchJob --------------------------------
(***************************************************************************)
(* Local batches of one experiment.  Each request starts a process that    *)
(* plays the planned runs in a pool of threads, writes its output files    *)
(* one after another into the directory of the experiment, and is copied   *)
(* by the backend when it has ended well.  Requests may overlap, in one    *)
(* directory; a process may be killed at any time.  What a run gives       *)
(* depends on its number alone.  Trades and the written report are left    *)
(* out; a copy of a file is one step.                                      *)
(***************************************************************************)
EXTENDS BatchEvaluation, Detectors

CONSTANTS
    Torn,           \* a file that is being written, or was left unfinished
    Requests,       \* requests for a batch, or for normalizing its artifacts
    Total,          \* runs of a batch
    Scenarios,      \* the scenarios of the experiment, in order
    WeightSets,     \* difficulty mixes
    MaxWorkers,
    Sessions,       \* what the market of each scenario may do, with the label of the scenario
    Readings,       \* features the detectors are asked about beside those of the sessions
    MaxKills        \* bound: processes that are killed, or whose runs raise

ASSUME TotalPositive == Total \in Nat \ {0}
ASSUME WeightsCount ==
    WeightSets \subseteq {w \in [1 .. 4 -> Nat] : w[1] + w[2] + w[3] + w[4] > 0}
\* A label names ticks, or leaves them open.
IsLabel(label) ==
    /\ {label.start, label.actualEnd, label.expectedEnd} \subseteq Int \cup {None}
    /\ label.windows # <<>> => {label.windows[1][1], label.windows[1][2]} \subseteq Int \cup {None}
IsSession(session) ==
    /\ DOMAIN session.ticks \subseteq Nat /\ IsFiniteSet(DOMAIN session.ticks)
    /\ \A t \in DOMAIN session.ticks : IsMeasured(TickFeatures(session, t))
    /\ session.label # None => IsLabel(session.label)
ASSUME NoneIsNoRate == None \notin Nat \X Nat
ASSUME SessionsMeasured ==
    /\ ToSet(Scenarios) \subseteq DOMAIN Sessions
    /\ \A s \in DOMAIN Sessions : \A session \in Sessions[s] : IsSession(session)
    /\ \A f \in Readings : IsMeasured(f)

VARIABLES
    plan, mix,      \* the scenario of each run, and how many runs have which difficulty
    outcome,        \* what each run gives
    disk, copy,     \* the output directory, and the artifacts of the experiment
    jobs,           \* the status of each recorded batch, in order
    proc,           \* the requests
    kills, shared   \* history: requests that were under way together

vars == <<plan, mix, outcome, disk, copy, jobs, proc, kills, shared>>
given == <<plan, mix, outcome>>

Runs == 1 .. Total

\* What a run keeps of its session.
Outcomes == [s \in DOMAIN Sessions |-> {Observed(session) : session \in Sessions[s]}]
Normal == "normal_market"
Attack(r) == plan[r] # Normal
\* The order in which main writes them; the manifest comes last.
Files == <<"events", "labels", "alerts", "metrics", "manifest">>
Names == {Files[i] : i \in DOMAIN Files}

-----------------------------------------------------------------------------
(* What is written, from the results in the order of the files *)

\* A detector that alerted has one row, for its last alert.
AlertRows(r) == [d \in 1 .. Cardinality(outcome[r].detectors) |-> r]
Detected(r) == outcome[r].alerts # {}

RatesOf(scenario) ==
    LET runs == {r \in Runs : plan[r] = scenario}
    IN  BatchRates(Cardinality(runs), Cardinality({r \in runs : Detected(r)}), scenario # Normal)

Timings == {"early", "on_time", "late", "missed"}
Scored(r) == Evaluation(outcome[r].alerts, outcome[r].label, outcome[r].named)
\* A row of detector_metrics.csv.
ScoreRow(scenario) ==
    LET runs == {r \in Runs : plan[r] = scenario}
    IN  [rates |-> RatesOf(scenario),
         timings |-> [t \in Timings |-> Cardinality({r \in runs : Scored(r).timing = t})],
         phases |-> [p \in UNION {DOMAIN Scored(r).phases : r \in runs} |->
                       Cardinality({r \in runs : p \in DOMAIN Scored(r).phases /\ Scored(r).phases[p]})]]

Written(file, order) ==
    CASE file = "events" -> order
      [] file = "labels" -> [i \in DOMAIN order |-> <<order[i], Attack(order[i])>>]
      [] file = "alerts" -> FlattenSeq([i \in DOMAIN order |-> AlertRows(order[i])])
      [] file = "metrics" -> [s \in {plan[r] : r \in ToSet(order)} |-> ScoreRow(s)]
      [] file = "manifest" -> <<[s \in {plan[r] : r \in Runs} |-> Occurrences(plan, s)], mix.counts>>

\* mutant: the results are written in the order in which they came
InOrderAsCame(results) == results
\* results.sort by run id
InOrder(results) ==
    LET kept == ToSet(results)
    IN  CHOOSE order \in [1 .. Cardinality(kept) -> kept] : \A i, j \in DOMAIN order : i < j => order[i] < order[j]

\* A directory maps the files it has to what they hold.
Put(directory, file, content) ==
    [f \in DOMAIN directory \cup {file} |-> IF f = file THEN content ELSE directory[f]]

-----------------------------------------------------------------------------
(* The process of a batch *)

Fresh == [pc |-> "idle", pending |-> {}, running |-> {}, results |-> <<>>, at |-> 1, open |-> FALSE, alone |-> TRUE]
Active(q) == proc[q].pc \notin {"idle", "completed", "normalized", "failed"}
Becomes(q, p) == proc' = [proc EXCEPT ![q] = p]

Arrives(q) ==
    LET others == {o \in Requests : Active(o)}
    IN  shared' = IF others = {} THEN shared ELSE shared \cup others \cup {q}

RunBatch(q) ==
    /\ proc[q] = Fresh /\ Arrives(q)
    /\ Becomes(q, [Fresh EXCEPT !.pc = "running", !.pending = Runs])
    /\ UNCHANGED <<given, disk, copy, jobs, kills>>

\* Runs are submitted in order to as many threads as there are.
TakeRun(q) ==
    /\ proc[q].pc = "running" /\ proc[q].pending # {}
    /\ Cardinality(proc[q].running) < MaxWorkers
    /\ LET r == Earliest(proc[q].pending)
       IN  Becomes(q, [proc[q] EXCEPT !.pending = @ \ {r}, !.running = @ \cup {r}])
    /\ UNCHANGED <<given, disk, copy, jobs, kills, shared>>

FinishRun(q, r) ==
    /\ proc[q].pc = "running" /\ r \in proc[q].running
    /\ Becomes(q, [proc[q] EXCEPT !.running = @ \ {r}, !.results = Append(@, r)])
    /\ UNCHANGED <<given, disk, copy, jobs, kills, shared>>

\* Processes that write the file q is about to open.
Writers(q) == {o \in Requests \ {q} : proc[o].open /\ proc[o].at = proc[q].at}

\* Opening a file empties it, under whoever else is writing it.
OpenFile(q) ==
    /\ \/ proc[q].pc = "running" /\ Len(proc[q].results) = Total
       \/ proc[q].pc = "writing" /\ ~proc[q].open
    /\ disk' = Put(disk, Files[proc[q].at], Torn)
    /\ proc' = [o \in Requests |->
                  IF o = q THEN [proc[q] EXCEPT !.pc = "writing", !.open = TRUE, !.alone = Writers(q) = {}]
                  ELSE IF o \in Writers(q) THEN [proc[o] EXCEPT !.alone = FALSE]
                  ELSE proc[o]]
    /\ UNCHANGED <<given, copy, jobs, kills, shared>>

\* What two processes write at once may come out as rows of both.
FillFile(q) ==
    /\ proc[q].pc = "writing" /\ proc[q].open
    /\ LET f == Files[proc[q].at]
           whole == Written(f, InOrder(proc[q].results))
       IN  \E content \in (IF proc[q].alone THEN {whole} ELSE {whole, Torn}) :
             disk' = Put(disk, f, content)
    /\ Becomes(q, IF proc[q].at < Len(Files) THEN [proc[q] EXCEPT !.at = @ + 1, !.open = FALSE]
                  ELSE [Fresh EXCEPT !.pc = "copying"])
    /\ UNCHANGED <<given, copy, jobs, kills, shared>>

\* mutant: artifacts are normalized whatever the batch returned
ExitCopies == "copying"
\* Only a batch that returned zero is normalized.
ExitFailed == "recording_failure"

\* A run that raises, or a process that is killed; one that takes longer than
\* two minutes is killed too, but the exception leaves no record of it.
Killed(q) ==
    /\ proc[q].pc \in {"running", "writing"} /\ kills < MaxKills
    /\ kills' = kills + 1
    /\ \E pc \in {ExitFailed, "failed"} : Becomes(q, [Fresh EXCEPT !.pc = pc])
    /\ UNCHANGED <<given, disk, copy, jobs, shared>>

-----------------------------------------------------------------------------
(* The backend *)

\* normalize_artifacts: on request, whatever the directory holds.
Normalize(q) ==
    /\ proc[q] = Fresh /\ Arrives(q)
    /\ \E b \in Requests : proc[b] # Fresh
    /\ Becomes(q, [Fresh EXCEPT !.pc = "normalizing"])
    /\ UNCHANGED <<given, disk, copy, jobs, kills>>

\* A file that is missing leaves the copy of an earlier batch.
CopyFile(q) ==
    /\ proc[q].pc \in {"copying", "normalizing"}
    /\ LET f == Files[proc[q].at]
       IN  copy' = IF f \in DOMAIN disk THEN Put(copy, f, disk[f]) ELSE copy
    /\ Becomes(q, IF proc[q].at < Len(Files) THEN [proc[q] EXCEPT !.at = @ + 1]
                  ELSE [Fresh EXCEPT !.pc = IF proc[q].pc = "copying" THEN "recording" ELSE "normalized"])
    /\ UNCHANGED <<given, disk, jobs, kills, shared>>

Record(q) ==
    /\ proc[q].pc \in {"recording", "recording_failure"}
    /\ LET status == IF proc[q].pc = "recording" THEN "completed" ELSE "failed"
       IN  jobs' = Append(jobs, status) /\ Becomes(q, [Fresh EXCEPT !.pc = status])
    /\ UNCHANGED <<given, disk, copy, kills, shared>>

\* aggregate_experiment: the copies, or else the output directory itself; all
\* batches of an experiment have the same bounds, so the last one decides.
Rows(file) == IF file \in DOMAIN copy THEN copy[file] ELSE disk[file]
Summary ==
    [attacks |-> Cardinality({i \in DOMAIN Rows("labels") : Rows("labels")[i][2]}),
     alerts |-> Len(Rows("alerts")),
     leaderboard |-> Rows("metrics"),
     failedRuns |-> IF jobs # <<>> /\ jobs[Len(jobs)] = "failed" THEN 1 ELSE 0]

-----------------------------------------------------------------------------
Mixes == {[weights |-> w, counts |-> [i \in 1 .. 4 |-> WeightedCount(w, Total, i)]] : w \in WeightSets}

Init ==
    /\ plan \in {p \in [Runs -> ToSet(Scenarios)] : Shuffled(p, BalancedPlan(Total, Scenarios))}
    /\ mix \in Mixes
    /\ outcome \in {o \in [Runs -> UNION {Outcomes[s] : s \in ToSet(Scenarios)}] :
                      \A r \in Runs : o[r] \in Outcomes[plan[r]]}
    /\ disk = <<>> /\ copy = <<>> /\ jobs = <<>>
    /\ proc = [q \in Requests |-> Fresh] /\ kills = 0 /\ shared = {}

Step(q) ==
    \/ RunBatch(q) \/ TakeRun(q) \/ (\E r \in Runs : FinishRun(q, r))
    \/ OpenFile(q) \/ FillFile(q) \/ Killed(q)
    \/ Normalize(q) \/ CopyFile(q) \/ Record(q)
Next == \E q \in Requests : Step(q)
Spec == Init /\ [][Next]_vars

-----------------------------------------------------------------------------
(* Properties *)

\* What an undisturbed batch of the experiment would write.
Expected(file) == Written(file, [r \in Runs |-> r])

(* In whatever order threads finish, and however batches of the experiment *)
(* overlap or die, a file holds all runs in their order, or it is torn by  *)
(* a batch that has not finished it; the manifest is never there without   *)
(* the other files.                                                        *)
FilesTellTheRuns ==
    /\ \A f \in DOMAIN disk : disk[f] = Torn \/ disk[f] = Expected(f)
    /\ "manifest" \in DOMAIN disk => DOMAIN disk = Names

(* A batch that met no other request is recorded as completed only when    *)
(* the artifacts of the experiment are whole, whatever earlier batches     *)
(* left in the directory, and the summary counts what its runs gave.       *)
CompletedAloneIsWhole ==
    [][\A q \in Requests \ shared' :
         (proc[q].pc # "completed" /\ proc'[q].pc = "completed") =>
            /\ DOMAIN copy' = Names /\ \A f \in Names : copy'[f] = Expected(f)
            /\ Summary'.attacks = Cardinality({r \in Runs : Attack(r)})
            /\ (Summary'.alerts > 0) <=> \E r \in Runs : Detected(r)
            /\ Summary'.failedRuns = 0]_vars

(* The plan of difficulties has as many runs as asked for, no difficulty   *)
(* is more than one run away from its share, and one whose weight is zero  *)
(* is never played.                                                        *)
MixExact ==
    LET w == mix.weights
        sum == WeightSum(w)
    IN  /\ mix.counts[1] + mix.counts[2] + mix.counts[3] + mix.counts[4] = Total
        /\ \A i \in 1 .. 4 :
             /\ mix.counts[i] * sum < w[i] * Total + sum
             /\ w[i] * Total < mix.counts[i] * sum + sum
             /\ w[i] = 0 => mix.counts[i] = 0

(* Supporting signals alone never raise an alarm, however strong they are: *)
(* the evidence of a layering alert shows three large levels, of spoofing  *)
(* a wall, of quote stuffing a rate of messages and of a liquidity shock a *)
(* loss of depth.                                                          *)
Conclusive(d, shown) ==
    /\ d = "layering_like" => shown.large >= 3
    /\ d = "spoofing_like" => shown.wall >= 46660
    /\ d = "quote_stuffing" => shown.rate >= 119988
    /\ d = "liquidity_shock" => shown.depthChange <= -199950
ReadingsConclusive == \A f \in Readings : \A d \in Alerts(f) : Conclusive(d, Evidence(f)[d])
AlertsNeedEvidence ==
    /\ ReadingsConclusive
    /\ \A r \in Runs : \A e \in outcome[r].evidence : Conclusive(e[1], e[2])

(* Timing and overlap of a run's alerts are computed apart and agree, and  *)
(* the rates the batch computes are those of its confusion matrix, except  *)
(* that it gives normal markets with false alarms no precision.            *)
ScoresAgree ==
    /\ \A score \in {Scored(r) : r \in Runs} :
         score.overlap # None =>
            /\ score.timing = "on_time" => score.overlap[1] > 0
            /\ score.timing \in {"late", "missed"} => score.overlap[1] = 0
    /\ \A s \in {plan[r] : r \in Runs} :
         LET runs == {r \in Runs : plan[r] = s}
             rates == RatesOf(s)
             binary == BinaryRates(Confusion(runs, [r \in Runs |-> Attack(r)], [r \in Runs |-> Detected(r)]))
         IN  /\ \A rate \in {"recall", "f1", "specificity", "falsePositiveRate"} :
                  SameRate(rates[rate], binary[rate])
             /\ s # Normal => SameRate(rates.precision, binary.precision)
=============================================================================
