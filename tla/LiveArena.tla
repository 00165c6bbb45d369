------------------------------ MODULE LiveArena ------------------------------
(***************************************************************************)
(* The live arena (LiveArenaService): requests, the scheduler and the      *)
(* comparison endpoint change one running market under one monitor, so     *)
(* each public method is one step; a comparison, which holds the monitor   *)
(* for many ticks, is a script of steps that nothing interleaves with.     *)
(* Of the book only the orders of abuse scenarios are kept, and which      *)
(* records of the source were applied to it; what the detectors see in it  *)
(* is any subset of the detectors.  A load may be refused, or throw after  *)
(* it closed what was open.                                                *)
(***************************************************************************)
EXTENDS ReplaySources, FiniteSets

CONSTANTS
    Families,        \* scenario families operators launch
    Detectors,
    NoScenario,
    JournalMayFail,  \* whether writing a line of the journal may throw
    MaxTick,         \* bound: no tick of the synthetic market after this one
    MaxLaunches,     \* bound on the scenario counter
    ComparisonTicks  \* max_ticks of a comparison request

VARIABLES
    source,           \* [type, kernel, csv, lobster]: what is loaded, and how
    runtime,          \* what resetRuntime renews
    scenarioCounter, incidentCounter,
    script,           \* what is left of a comparison, in order
    torn              \* some request threw half-way since the last resetRuntime

vars == <<source, runtime, scenarioCounter, incidentCounter, script, torn>>
counters == <<scenarioCounter, incidentCounter>>

AllFamilies == {"spoofing_like_wall", "layering_like", "quote_stuffing", "liquidity_evaporation"}
SourceTypes == {"none", "historical", "hybrid"}
ASSUME ArenaAssumption ==
    /\ Families \subseteq AllFamilies /\ IsFiniteSet(Detectors) /\ JournalMayFail \in BOOLEAN
    /\ MaxTick \in Nat /\ MaxLaunches \in Nat
    /\ ComparisonTicks \in Nat \ {0} /\ ComparisonTicks <= 100000
Synthetic == "synthetic"  \* the market of newMatchingEngine

\* The source plays on its own: a LOBSTER data set the kernel does not replay.
Display(s) == LobsterLoaded(s.lobster) /\ ~s.kernel
Replaying(s) == CsvLoaded(s.csv) \/ s.kernel
\* The kernel is to replay a LOBSTER data set that failed to load again.
Dangling(s) == s.kernel /\ ~LobsterLoaded(s.lobster)
ReplayedDataset(s) == IF CsvLoaded(s.csv) THEN s.csv.dataset ELSE s.lobster.dataset

NewRuntime(market) ==
    [running |-> FALSE, tick |-> 0, scenario |-> NoScenario, resting |-> {},
     incidents |-> <<>>, incidentKeys |-> {}, market |-> market, applied |-> <<>>]

-----------------------------------------------------------------------------
(* Scenarios *)

Age(scenario, tick) == IF tick > scenario.start THEN tick - scenario.start ELSE 0

\* The synthetic market gives the orders of every scenario the same ids.
OrderId(scenario, suffix) == <<suffix, IF Replaying(source) THEN scenario.id ELSE 0>>

\* The last tick of the manipulation window, from groundTruthLabel.
LabelEnd(scenario) ==
    scenario.start + CASE scenario.family = "spoofing_like_wall" -> 3
                       [] scenario.family = "layering_like" -> 4
                       [] scenario.family = "quote_stuffing" -> 5
                       [] scenario.family = "liquidity_evaporation" -> 1

\* The resting abuse orders after the scenario acted: the three layers are
\* placed and cancelled together and stand as one, the orders of quote
\* stuffing leave within the tick, and evaporation takes away whole levels.

\* mutant: the wall is cancelled one tick late
SpoofedLonger(scenario, tick, resting) ==
    LET wall == {OrderId(scenario, "WALL")}
    IN  IF Age(scenario, tick) <= 3 THEN resting \cup wall ELSE resting \ wall
Spoofed(scenario, tick, resting) ==
    LET wall == {OrderId(scenario, "WALL")}
    IN  IF Age(scenario, tick) < 3 THEN resting \cup wall ELSE resting \ wall
Layered(scenario, tick, resting) ==
    LET layers == {OrderId(scenario, "LAYER")}
    IN  IF Age(scenario, tick) < 4 THEN resting \cup layers ELSE resting \ layers
AfterScenario(scenario, tick, resting) ==
    IF scenario = NoScenario THEN {resting}
    ELSE CASE scenario.family = "spoofing_like_wall" -> {Spoofed(scenario, tick, resting)}
           [] scenario.family = "layering_like" -> {Layered(scenario, tick, resting)}
           [] scenario.family = "quote_stuffing" -> {resting}
           [] scenario.family = "liquidity_evaporation" ->
                IF Age(scenario, tick) = 1 THEN SUBSET resting ELSE {resting}

-----------------------------------------------------------------------------
(* buildState: every published state runs the detectors, and each detector *)
(* that fires makes one incident of the scenario of the moment.            *)

NewIncidents(r, alerts) ==
    LET new == SetToSeq({d \in alerts : <<r.scenario.id, d>> \notin r.incidentKeys})
    IN  [i \in DOMAIN new |->
            [id |-> incidentCounter + i, scenario |-> r.scenario.id, detector |-> new[i]]]

WithIncidents(r, new) ==
    [r EXCEPT !.incidents = @ \o new,
              !.incidentKeys = @ \cup {<<new[i].scenario, new[i].detector>> : i \in DOMAIN new}]

BuildState(s, r) ==
    \/ /\ r.scenario = NoScenario \/ Dangling(s)
       /\ runtime' = r
       /\ UNCHANGED incidentCounter
    \/ /\ r.scenario # NoScenario /\ ~Dangling(s)
       /\ \E alerts \in SUBSET Detectors :
            LET new == NewIncidents(r, alerts)
            IN  /\ runtime' = WithIncidents(r, new)
                /\ incidentCounter' = incidentCounter + Len(new)

\* mutant: the reset forgets the keys of reported incidents
ResetRuntimeKeepsKeys(s, market) ==
    /\ source' = s
    /\ BuildState(s, [NewRuntime(market) EXCEPT !.incidentKeys = runtime.incidentKeys])
    /\ torn' = FALSE
    /\ UNCHANGED scenarioCounter
ResetRuntime(s, market) ==
    /\ source' = s
    /\ BuildState(s, NewRuntime(market))
    /\ torn' = FALSE
    /\ UNCHANGED scenarioCounter

\* The request throws with the sources left as s.
Tear(s) ==
    /\ source' = s
    /\ torn' = TRUE
    /\ UNCHANGED counters

-----------------------------------------------------------------------------
(* One tick *)

\* Orders of scenarios trade with agents and CSV records; rows of LOBSTER
\* only set their own levels.
TradedAway == IF source.kernel THEN {{}} ELSE SUBSET runtime.resting

AfterBatch ==
    IF CsvLoaded(source.csv)
    THEN [source EXCEPT !.csv = CsvAfterBatch(@)]
    ELSE [source EXCEPT !.lobster = LobsterAfterBatch(@)]
Batch == IF CsvLoaded(source.csv) THEN CsvBatch(source.csv) ELSE LobsterBatch(source.lobster)
AtEof(s) == IF CsvLoaded(s.csv) THEN CsvEof(s.csv) ELSE LobsterEof(s.lobster)

\* The abuse orders after tick: of a replay, history acts before the
\* scenario, and a control run has no scenario phase.
RestingAfter(tick) ==
    UNION {IF Replaying(source) /\ source.type # "hybrid"
           THEN {runtime.resting \ gone}
           ELSE AfterScenario(runtime.scenario, tick, runtime.resting \ gone) : gone \in TradedAway}

ReplayTick ==
    /\ Replaying(source) /\ ~Dangling(source) /\ ~AtEof(source)
    /\ source' = AfterBatch
    /\ \E resting \in RestingAfter(runtime.tick + 1) :
         BuildState(source', [runtime EXCEPT !.tick = @ + 1,
                                             !.applied = @ \o Batch,
                                             !.resting = resting,
                                             !.running = @ /\ ~AtEof(source')])
    /\ UNCHANGED torn

Over == Replaying(source) /\ ~Dangling(source) /\ AtEof(source)
Stopped == [runtime EXCEPT !.running = FALSE]
\* mutant: a replay that is over stays running
ReplayOverRuns == Over /\ UNCHANGED <<source, runtime, incidentCounter, torn>>
ReplayOver == Over /\ runtime' = Stopped /\ UNCHANGED <<source, incidentCounter, torn>>

SyntheticTick ==
    /\ ~Replaying(source) /\ runtime.tick < MaxTick
    /\ \E resting \in RestingAfter(runtime.tick + 1) :
         BuildState(source, [runtime EXCEPT !.tick = @ + 1, !.resting = resting])
    /\ UNCHANGED <<source, torn>>

\* Writing an agent event throws in the middle of the tick, and nothing is
\* published: the event of the scenario after it acted, or in the synthetic
\* market that of an intent, before it acts.
AbortedTick ==
    /\ JournalMayFail /\ runtime.scenario # NoScenario
    /\ ~Dangling(source)
    /\ IF Replaying(source)
       THEN /\ ~AtEof(source) /\ source.type = "hybrid"
            /\ Age(runtime.scenario, runtime.tick + 1) \in 1..5
       ELSE runtime.tick < MaxTick
    /\ source' = IF Replaying(source) THEN AfterBatch ELSE source
    /\ \E resting \in RestingAfter(runtime.tick + 1)
                        \cup (IF Replaying(source) THEN {} ELSE SUBSET runtime.resting) :
         runtime' = [runtime EXCEPT !.tick = @ + 1,
                                    !.applied = IF Replaying(source) THEN @ \o Batch ELSE @,
                                    !.resting = resting]
    /\ torn' = TRUE
    /\ UNCHANGED incidentCounter

\* The source has no rows to give: the clock moves and the tick throws.
DanglingTick ==
    /\ Dangling(source) /\ runtime.tick < MaxTick
    /\ runtime' = [runtime EXCEPT !.tick = @ + 1]
    /\ UNCHANGED <<source, incidentCounter, torn>>

Advance ==
    /\ ReplayTick \/ ReplayOver \/ SyntheticTick \/ AbortedTick \/ DanglingTick
    /\ UNCHANGED scenarioCounter

-----------------------------------------------------------------------------
(* Requests *)

Idle == script = <<>>  \* no comparison holds the monitor
SetLobster(l) ==
    /\ source' = [source EXCEPT !.lobster = l]
    /\ UNCHANGED <<runtime, counters, torn>>

State ==
    /\ Idle /\ ~Display(source)
    /\ BuildState(source, runtime)
    /\ UNCHANGED <<source, scenarioCounter, script, torn>>

StartRunning ==
    \/ Display(source) /\ SetLobster(LobsterStarted(source.lobster))
    \/ /\ ~Display(source)
       /\ BuildState(source, [runtime EXCEPT !.running = TRUE])
       /\ UNCHANGED <<source, scenarioCounter, torn>>
Start == Idle /\ StartRunning /\ UNCHANGED script

Pause ==
    /\ Idle /\ UNCHANGED script
    /\ \/ Display(source) /\ SetLobster([source.lobster EXCEPT !.running = FALSE])
       \/ /\ ~Display(source)
          /\ BuildState(source, [runtime EXCEPT !.running = FALSE])
          /\ UNCHANGED <<source, scenarioCounter, torn>>

Reset ==
    /\ Idle /\ UNCHANGED script
    /\ \/ /\ Display(source)
          /\ SetLobster(LobsterOpened(source.lobster.dataset))
       \/ /\ CsvLoaded(source.csv)
          /\ ResetRuntime([source EXCEPT !.csv.cursor = 0], source.csv.dataset)
       \/ /\ source.kernel /\ ~Dangling(source)
          /\ ResetRuntime([source EXCEPT !.lobster = LobsterOpened(@.dataset)], source.lobster.dataset)
       \/ /\ ~LobsterLoaded(source.lobster) /\ ~Replaying(source)
          /\ ResetRuntime(source, Synthetic)

\* The files of a LOBSTER data set no longer pass their checks.
ResetFails ==
    /\ Idle /\ UNCHANGED script
    /\ LobsterLoaded(source.lobster)
    /\ Tear([source EXCEPT !.lobster = LobsterClosed])
    /\ UNCHANGED runtime

\* mutant: the guard on the hybrid source is gone
LaunchScenarioAnywhere(family) ==
    /\ ~Display(source) /\ ~Dangling(source)
    /\ scenarioCounter < MaxLaunches
    /\ scenarioCounter' = scenarioCounter + 1
    /\ runtime' = [runtime EXCEPT
                     !.scenario = [id |-> scenarioCounter', family |-> family, start |-> runtime.tick + 1],
                     !.running = TRUE]
    /\ UNCHANGED <<source, incidentCounter>>
LaunchScenario(family) ==
    /\ ~Display(source)
    /\ Replaying(source) => source.type = "hybrid" /\ ~Dangling(source)
    /\ scenarioCounter < MaxLaunches
    /\ scenarioCounter' = scenarioCounter + 1
    /\ runtime' = [runtime EXCEPT
                     !.scenario = [id |-> scenarioCounter', family |-> family, start |-> runtime.tick + 1],
                     !.running = TRUE]
    /\ UNCHANGED <<source, incidentCounter>>

Launch(family) ==
    /\ Idle /\ UNCHANGED <<script, torn>>
    /\ LaunchScenario(family)

\* One of the three lines of a launch is not written: the caller gets an
\* error, and the scenario stays armed.
LaunchFails(family) ==
    /\ Idle /\ UNCHANGED script
    /\ JournalMayFail
    /\ LaunchScenario(family)
    /\ torn' = TRUE

\* A hybrid run whose data set is gone has no id to derive a seed from; the
\* scenario was counted before.
DanglingLaunch ==
    /\ Idle /\ UNCHANGED script
    /\ Dangling(source) /\ source.type = "hybrid"
    /\ scenarioCounter < MaxLaunches
    /\ scenarioCounter' = scenarioCounter + 1 /\ torn' = TRUE
    /\ UNCHANGED <<source, runtime, incidentCounter>>

OpenedSource(type, d) ==
    IF d \in CsvDatasets
    THEN [type |-> type, kernel |-> FALSE, csv |-> CsvOpened(d), lobster |-> LobsterClosed]
    ELSE [type |-> type, kernel |-> TRUE, csv |-> CsvClosed, lobster |-> LobsterOpened(d)]

\* The sources a load that throws leaves: a CSV data set is read before it
\* replaces another, a LOBSTER data set after the old one was closed,
\* unless its id is refused; hybrid is set last for LOBSTER.
FailedSources(type, d) ==
    IF d \in CsvDatasets
    THEN {[source EXCEPT !.type = type, !.kernel = FALSE, !.lobster = LobsterClosed]}
    ELSE {[source EXCEPT !.type = IF type = "historical" THEN type ELSE @,
                         !.kernel = FALSE, !.csv = CsvClosed, !.lobster = l] :
            l \in {source.lobster, LobsterClosed}}

Load(type, d) == ResetRuntime(OpenedSource(type, d), d)
LoadFails(type, d) ==
    /\ \E s \in FailedSources(type, d) : Tear(s)
    /\ runtime' = Stopped

LoadDataSource ==
    /\ Idle /\ UNCHANGED script
    /\ \E type \in {"historical", "hybrid"}, d \in Datasets : Load(type, d) \/ LoadFails(type, d)

LoadSynthetic ==
    /\ Idle /\ UNCHANGED script
    /\ ResetRuntime([type |-> "none", kernel |-> FALSE, csv |-> CsvClosed, lobster |-> LobsterClosed],
                    Synthetic)

\* An unknown source type is refused after the run was paused.
RejectSource ==
    /\ Idle
    /\ runtime' = Stopped
    /\ UNCHANGED <<source, counters, script, torn>>

\* The scheduler, twice a second.
ScheduledTick ==
    /\ Idle /\ UNCHANGED script
    /\ \/ Display(source) /\ SetLobster(LobsterAdvanced(source.lobster))
       \/ ~Display(source) /\ runtime.running /\ Advance

\* The endpoint that steps the arena whether it runs or not, and publishes
\* the state after the end of a replay too.
InternalStep ==
    /\ Idle /\ UNCHANGED script
    /\ \/ Display(source) /\ SetLobster(LobsterAdvanced(LobsterStarted(source.lobster)))
       \/ ~Display(source) /\ ~Over /\ Advance
       \/ ~Display(source) /\ Over /\ BuildState(source, Stopped) /\ UNCHANGED <<source, scenarioCounter, torn>>

-----------------------------------------------------------------------------
(* Comparison: a control run and a hybrid run of one data set, twice *)

BothRuns(d, family) ==
    <<<<"zero counters">>,
      <<"load", "historical", d>>, <<"start">>, <<"run", ComparisonTicks>>,
      <<"load", "hybrid", d>>, <<"launch", family>>, <<"run", ComparisonTicks>>>>

RunReplayComparison ==
    /\ Idle
    /\ \E d \in Datasets, family \in Families : script' = BothRuns(d, family) \o BothRuns(d, family)
    /\ UNCHANGED <<source, runtime, counters, torn>>

Call(name) == ~Idle /\ Head(script)[1] = name
Done == script' = Tail(script)
Throw == script' = <<>>

ZeroCounters ==
    /\ Call("zero counters") /\ Done
    /\ scenarioCounter' = 0 /\ incidentCounter' = 0
    /\ UNCHANGED <<source, runtime, torn>>

RunLoad ==
    /\ Call("load")
    /\ LET type == Head(script)[2]
           d == Head(script)[3]
       IN  \/ Load(type, d) /\ Done
           \/ LoadFails(type, d) /\ Throw

RunLaunch ==
    /\ Call("launch")
    /\ LaunchScenario(Head(script)[2])
    /\ \/ UNCHANGED torn /\ Done
       \/ JournalMayFail /\ torn' = TRUE /\ Throw

RunStart == Call("start") /\ StartRunning /\ Done

\* Nothing pauses the arena again when a tick of the comparison throws.
RunTick ==
    /\ Call("run") /\ runtime.running /\ Head(script)[2] > 0
    /\ Advance
    /\ \/ ~torn' /\ script' = <<<<"run", Head(script)[2] - 1>>>> \o Tail(script)
       \/ JournalMayFail /\ Throw

RunEnd ==
    /\ Call("run") /\ Done
    /\ ~runtime.running \/ Head(script)[2] = 0
    /\ runtime' = Stopped
    /\ UNCHANGED <<source, counters, torn>>

RunScript == ZeroCounters \/ RunLoad \/ RunLaunch \/ RunStart \/ RunTick \/ RunEnd

-----------------------------------------------------------------------------
Init ==
    /\ source = [type |-> "none", kernel |-> FALSE, csv |-> CsvClosed, lobster |-> LobsterClosed]
    /\ runtime = NewRuntime(Synthetic)
    /\ scenarioCounter = 0 /\ incidentCounter = 0
    /\ script = <<>> /\ torn = FALSE

Request ==
    \/ State \/ Start \/ Pause \/ Reset \/ ResetFails
    \/ LoadDataSource \/ LoadSynthetic \/ RejectSource \/ RunReplayComparison
    \/ \E family \in Families : Launch(family) \/ LaunchFails(family)
    \/ DanglingLaunch
Next == Request \/ ScheduledTick \/ InternalStep \/ RunScript

Spec == Init /\ [][Next]_vars
\* The scheduler keeps ticking, and a comparison goes on while it holds
\* the monitor; requests are never owed.
FairSpec == Spec /\ WF_vars(ScheduledTick) /\ WF_vars(RunScript)

-----------------------------------------------------------------------------
(* Properties *)

\* The book a replay writes to has seen exactly the records the source has
\* handed out, each once, in the order of their timestamps, and the records
\* of one participant in the order of the source; at the end of the file
\* that is all of them. The LOBSTER source reads one row ahead, and its
\* end of file is seen before the last row was applied.
Record(i) ==
    IF CsvLoaded(source.csv)
    THEN CsvRecords[source.csv.dataset][i] ELSE LobsterRecords[source.lobster.dataset][i]
HandedOut ==
    IF CsvLoaded(source.csv) THEN source.csv.cursor
    ELSE IF source.lobster.started THEN source.lobster.position ELSE 0
RecordCount ==
    IF CsvLoaded(source.csv) THEN CsvRows(source.csv) ELSE LobsterRows(source.lobster)
RecordsAppliedOnce ==
    Replaying(source) /\ ~Dangling(source) =>
      /\ ToSet(runtime.applied) = 1..HandedOut /\ Len(runtime.applied) = HandedOut
      /\ AtEof(source) => HandedOut = RecordCount
      /\ \A i, j \in 1..HandedOut : i < j =>
           /\ Record(runtime.applied[i]).time <= Record(runtime.applied[j]).time
           /\ Record(runtime.applied[i]).actor = Record(runtime.applied[j]).actor =>
                runtime.applied[i] < runtime.applied[j]

\* A control run holds no scenario and no abuse order, whatever ran before
\* it in the same service.
ControlRunsClean ==
    ~torn /\ Replaying(source) /\ source.type = "historical" =>
      runtime.scenario = NoScenario /\ runtime.resting = {}

\* Once the window of its label is over, no order of the active scenario
\* rests, although launches replace each other, agents trade with them, and
\* in the synthetic market scenarios inherit each other's orders.
ActiveScenarioCleansUp ==
    ~torn /\ runtime.scenario # NoScenario /\ runtime.tick >= LabelEnd(runtime.scenario) =>
      CASE runtime.scenario.family = "spoofing_like_wall" ->
             OrderId(runtime.scenario, "WALL") \notin runtime.resting
        [] runtime.scenario.family = "layering_like" ->
             OrderId(runtime.scenario, "LAYER") \notin runtime.resting
        [] OTHER -> TRUE

\* However the state is polled and comparisons renumber scenarios, an
\* incident is found by its id, a detector reports a scenario once, and what
\* it reports for a later scenario is not taken for one that was reported:
\* no key belongs to a scenario that is still to be launched.
IncidentsTellScenariosApart ==
    Idle /\ ~torn =>
      /\ \A i, j \in DOMAIN runtime.incidents :
           i # j => /\ runtime.incidents[i].id # runtime.incidents[j].id
                    /\ \/ runtime.incidents[i].scenario # runtime.incidents[j].scenario
                       \/ runtime.incidents[i].detector # runtime.incidents[j].detector
      /\ \A i \in DOMAIN runtime.incidents : runtime.incidents[i].id <= incidentCounter
      /\ \A key \in runtime.incidentKeys : key[1] <= scenarioCounter

\* A replay that is left running comes to its end.
Playing == Replaying(source) /\ ~Dangling(source) /\ runtime.running
ReplayEnds == Playing ~> ~Playing

=============================================================================
