---------------------------- MODULE ReferenceArena ----------------------------
(***************************************************************************)
(* The Python arena around the book: requests and the tick loop take turns *)
(* at one lock (first come, first served); a tick holds it while it waits  *)
(* for the agents.  What a tick and a request leave in files: the rows of  *)
(* the event stream, of labels and of incidents.  An append may fail.      *)
(* A log entry keeps its tick and its kind; orders are counted.            *)
(***************************************************************************)
EXTENDS Naturals, Sequences, SequencesExt

CONSTANTS
    Agents,        \* the agents of the manager
    Families,      \* the scenarios that can be started
    Detectors,     \* the detectors in the order of their scores, a sequence
    StageAt,       \* at_tick of the stage rules, a sequence that starts with 0
    None,          \* no scenario
    MaxTick, MaxResets, MaxScenarios, MaxWaiting, MaxFaults  \* bounds
ASSUME ReferenceArenaAssumption ==
    /\ StageAt \in Seq(Nat) /\ StageAt # <<>> /\ StageAt[1] = 0
    /\ MaxTick \in Nat /\ MaxResets \in Nat /\ MaxScenarios \in Nat
    /\ MaxWaiting \in Nat /\ MaxFaults \in Nat
    /\ {None, "start", "pause", "reset", "tick"} \cap Families = {}
    /\ IsFiniteSet(Agents)
    /\ Detectors \in Seq(Range(Detectors)) /\ IsInjective(Detectors)

VARIABLES
    running, loop, waiting,         \* the flag, the loop task, and who waits for the lock
    tick, generation, log, persisted, \* the clock, the stream, its log and how much of it is in the file
    scenario, counter, labels,      \* the active scenario, ScenarioController._counter, the labels persisted last
    incidents,                      \* incidents in memory
    state,                          \* the state that was built last
    streamFile, labelFile, incidentFile, \* the append-only files
    faults, late                    \* appends that failed; ticks begun since the arena was told to stand still

market == <<tick, generation, log, persisted>>
memory == <<scenario, counter, labels, incidents>>
files == <<streamFile, labelFile, incidentFile>>
vars == <<running, loop, waiting, market, memory, state, files, faults, late>>

Calls == {"start", "pause", "reset"} \cup Families
Faulty == faults < MaxFaults
Row(n) == [stream |-> generation, seq |-> n]

-----------------------------------------------------------------------------
(* Scenarios: ScenarioController and ScenarioBase *)

Started(family) == [id |-> counter + 1, family |-> family, start |-> tick + 1, stage |-> 1, entered |-> {}]

StageFor(s, t) ==
    LET elapsed == IF t > s.start THEN t - s.start ELSE 0
    IN  CHOOSE i \in DOMAIN StageAt : StageAt[i] <= elapsed
            /\ \A j \in DOMAIN StageAt : StageAt[j] <= elapsed => j <= i

\* A scenario stays active when it is done.
Advanced(s, t) ==
    IF s = None THEN None
    ELSE [s EXCEPT !.stage = StageFor(s, t), !.entered = @ \cup {StageFor(s, t)}]

\* What the label of a scenario says: the stages whose events it lists.
Label(s) == [scenario |-> s.id, entered |-> s.entered]

-----------------------------------------------------------------------------
(* _build_state: label and incidents of the active scenario, then the state *)

Known(s, d) == \E i \in DOMAIN incidents : incidents[i].scenario = s.id /\ incidents[i].detector = d

\* _maybe_create_incident: what fired and is not yet an incident of this scenario.
Unreported(s, fired) == {d \in fired : ~Known(s, d)}
Before(d, e) == \E i, j \in DOMAIN Detectors : i < j /\ Detectors[i] = d /\ Detectors[j] = e

\* The first n of these, in the order of the detectors.
FirstOf(new, n) ==
    {ds \in [1 .. n -> new] :
        /\ \A i, j \in 1 .. n : i < j => Before(ds[i], ds[j])
        /\ \A d \in new, i \in 1 .. n : Before(d, ds[i]) => \E j \in 1 .. n : ds[j] = d}

Incidents(s, ds) ==
    [i \in DOMAIN ds |-> [number |-> Len(incidents) + i, scenario |-> s.id, detector |-> ds[i]]]

LabelIsNew(s) == Label(s) \notin labels

\* The label persisted last takes the place of the scenario's earlier one.
Remembered(s) == {Label(s)} \cup {l \in labels : l.scenario # s.id}

\* mutant: an incident whose row fails is forgotten
InMemoryWritten(made, cut) == incidents \o (IF cut = "incident" THEN SubSeq(made, 1, Len(made) - 1) ELSE made)
\* The incident is remembered before its row is written.
InMemory(made, cut) == incidents \o made

\* The appends succeed up to `cut`; after a failed one nothing else happens.
Build(s, t, entries, run, fired, cut) ==
    /\ cut = "label" => s # None /\ LabelIsNew(s)
    /\ cut = "incident" => s # None /\ Unreported(s, fired) # {}
    /\ labels' = IF s = None THEN labels ELSE Remembered(s)
    /\ labelFile' = IF s # None /\ LabelIsNew(s) /\ cut # "label" THEN Append(labelFile, Label(s)) ELSE labelFile
    /\ IF s = None \/ cut = "label" THEN UNCHANGED <<incidents, incidentFile>>
       ELSE \E n \in 0 .. Cardinality(Unreported(s, fired)) : \E ds \in FirstOf(Unreported(s, fired), n) :
               LET made == Incidents(s, ds)
               IN  /\ IF cut = "incident" THEN n > 0 ELSE n = Cardinality(Unreported(s, fired))
                   /\ incidents' = InMemory(made, cut)
                   /\ \/ incidentFile' = incidentFile \o made
                      \/ cut = "incident" /\ incidentFile' = incidentFile \o Front(made)
    /\ state' = IF cut = "none" THEN [tick |-> t, running |-> run, entries |-> entries] ELSE state

Cuts == IF Faulty THEN {"none", "label", "incident"} ELSE {"none"}
Count(cut) == faults' = IF cut = "none" THEN faults ELSE faults + 1

-----------------------------------------------------------------------------
(* Requests, once they hold the lock *)

\* The loop task is made when there is none, or the last one has ended.
Revive == loop' = IF loop \in {"none", "ended"} THEN "asleep" ELSE loop

Start(fired, cut) ==
    /\ running' = TRUE /\ late' = 0
    /\ Build(scenario, tick, Len(log), TRUE, fired, cut) /\ Count(cut)
    /\ IF cut = "none" THEN Revive ELSE UNCHANGED loop
    /\ UNCHANGED <<market, scenario, counter, streamFile>>

Pause(fired, cut) ==
    /\ running' = FALSE
    /\ Build(scenario, tick, Len(log), FALSE, fired, cut) /\ Count(cut)
    /\ UNCHANGED <<market, scenario, counter, streamFile, loop, late>>

\* mutant: reset starts to count scenarios from one again
CounterAfterResetZero == 0
CounterAfterReset == counter

\* mutant: reset forgets that nothing of the new stream is persisted
PersistedAfterResetKept == persisted
PersistedAfterReset == 0

\* The next stream, an empty log and book; scenario ids count on.
Reset ==
    /\ generation < MaxResets
    /\ running' = FALSE /\ tick' = 0 /\ generation' = generation + 1
    /\ log' = <<>> /\ persisted' = PersistedAfterReset
    /\ scenario' = None /\ counter' = CounterAfterReset /\ labels' = {} /\ incidents' = <<>>
    /\ state' = [tick |-> 0, running |-> FALSE, entries |-> 0]
    /\ UNCHANGED <<files, loop, faults, late>>

\* The attack, its label or its event cannot be written: the scenario is
\* active, the arena does not run.
ArmingFails(s) ==
    /\ Faulty /\ faults' = faults + 1
    /\ \/ UNCHANGED <<labels, labelFile>>
       \/ labels' = Remembered(s) /\ UNCHANGED labelFile
       \/ labels' = Remembered(s) /\ labelFile' = Append(labelFile, Label(s))
    /\ UNCHANGED <<running, loop, late, incidents, state, incidentFile>>

\* The label is persisted when the scenario is armed; only then the arena runs.
StartScenario(family, fired, cut) ==
    /\ counter < MaxScenarios
    /\ counter' = counter + 1 /\ scenario' = Started(family)
    /\ \/ ArmingFails(Started(family))
       \/ /\ cut # "label" /\ running' = TRUE /\ late' = 0 /\ Revive
          /\ Build(Started(family), tick, Len(log), TRUE, fired, cut) /\ Count(cut)
    /\ UNCHANGED <<market, streamFile>>

Handle(c) ==
    \/ c = "reset" /\ Reset
    \/ \E fired \in SUBSET Range(Detectors), cut \in Cuts :
          \/ c = "start" /\ Start(fired, cut)
          \/ c = "pause" /\ Pause(fired, cut)
          \/ c \in Families /\ StartScenario(c, fired, cut)

-----------------------------------------------------------------------------
(* The lock *)

\* mutant: requests do not take the lock
FreeAlways == TRUE
Free == loop # "deciding"

Call(c) ==
    IF Free /\ waiting = <<>> THEN Handle(c) /\ UNCHANGED waiting
    ELSE /\ Len(waiting) < MaxWaiting /\ waiting' = Append(waiting, c)
         /\ UNCHANGED <<running, loop, market, memory, state, files, faults, late>>

Serve ==
    /\ Free /\ waiting # <<>> /\ Head(waiting) # "tick"
    /\ Handle(Head(waiting)) /\ waiting' = Tail(waiting)

-----------------------------------------------------------------------------
(* The loop *)

BeginTick ==
    /\ loop' = "deciding" /\ tick' = tick + 1
    /\ late' = IF running THEN late ELSE late + 1
    /\ UNCHANGED <<running, generation, log, persisted, memory, state, files, faults>>

\* mutant: the loop does not look at the flag
WillTickAlways == loop = "asleep" /\ tick < MaxTick
\* The flag is read before the lock is taken, and not again.
WillTick == loop = "asleep" /\ running /\ tick < MaxTick

Wake ==
    /\ WillTick
    /\ IF waiting = <<>> THEN BeginTick /\ UNCHANGED waiting
       ELSE /\ loop' = "queued" /\ waiting' = Append(waiting, "tick")
            /\ UNCHANGED <<running, market, memory, state, files, faults, late>>

TakeTurn ==
    /\ loop = "queued" /\ Head(waiting) = "tick"
    /\ BeginTick /\ waiting' = Tail(waiting)

\* collect_intents: the agents that answered in time change the book, then
\* comes what the scenario did, and the snapshot.
Entries(done) ==
    log \o [i \in 1 .. Cardinality(done) |-> [tick |-> tick, kind |-> "order"]]
        \o <<[tick |-> tick, kind |-> "snapshot"]>>

\* _persist_exchange_stream up to row n; a snapshot goes to a second file as
\* well, and only then the row counts.
Persist(n, torn, entries) ==
    /\ streamFile' = streamFile \o [i \in 1 .. (IF torn THEN n + 1 ELSE n) - persisted |-> Row(persisted + i)]
    /\ persisted' = n

StreamFails(entries) ==
    \E n \in persisted .. Len(entries) - 1, torn \in BOOLEAN :
        /\ Faulty /\ faults' = faults + 1
        /\ torn => entries[n + 1].kind = "snapshot"
        /\ Persist(n, torn, entries)
        /\ loop' = "ended"
        /\ UNCHANGED <<labels, incidents, state, labelFile, incidentFile>>

\* A tick event, a label, an incident or the tick's snapshot cannot be written.
TickFails(s, entries, fired) ==
    \E cut \in {"event", "label", "incident", "none"} :
        /\ Faulty /\ faults' = faults + 1
        /\ Persist(Len(entries), FALSE, entries)
        /\ IF cut = "event" THEN UNCHANGED <<labels, incidents, state, labelFile, incidentFile>>
           ELSE Build(s, tick, Len(entries), TRUE, fired, cut)
        /\ loop' = "ended"

TickEnds(s, entries, fired) ==
    /\ Persist(Len(entries), FALSE, entries)
    /\ Build(s, tick, Len(entries), TRUE, fired, "none")
    /\ loop' = "asleep" /\ UNCHANGED faults

\* The rest of the tick, once the agents answered or ran out of time.  An
\* exception ends the loop task and nothing else.
Finish ==
    /\ loop = "deciding"
    /\ \E done \in SUBSET Agents, fired \in SUBSET Range(Detectors) :
          LET entries == Entries(done)
              s == Advanced(scenario, tick)
          IN  /\ log' = entries /\ scenario' = s
              /\ \/ StreamFails(entries) \/ TickFails(s, entries, fired) \/ TickEnds(s, entries, fired)
    /\ UNCHANGED <<running, waiting, tick, generation, counter, late>>

\* stop cancels the loop task without the lock, also while it waits for the agents.
Stop ==
    /\ loop \notin {"none", "ended"}
    /\ running' = FALSE /\ loop' = "ended" /\ waiting' = SelectSeq(waiting, LAMBDA c : c # "tick")
    /\ UNCHANGED <<market, memory, state, files, faults, late>>

Init ==
    /\ running = FALSE /\ loop = "none" /\ waiting = <<>>
    /\ tick = 0 /\ generation = 0 /\ log = <<>> /\ persisted = 0
    /\ scenario = None /\ counter = 0 /\ labels = {} /\ incidents = <<>>
    /\ state = [tick |-> 0, running |-> FALSE, entries |-> 0]
    /\ streamFile = <<>> /\ labelFile = <<>> /\ incidentFile = <<>>
    /\ faults = 0 /\ late = 0

Next == (\E c \in Calls : Call(c)) \/ Serve \/ Wake \/ TakeTurn \/ Finish \/ Stop
Spec == Init /\ [][Next]_vars

-----------------------------------------------------------------------------
(* Properties *)

\* A published state shows whole ticks: it holds every event of the ticks it
\* counts, though requests come in the middle of a tick and ticks fail half way.
PublishedWhole == state.entries = Cardinality({i \in DOMAIN log : log[i].tick <= state.tick})

\* An arena that was told to stand still begins at most one more tick, the one
\* whose loop had read the flag and waited for the lock.
OneLateTick == late <= 1

\* The last row of the present stream in the file, and the rows that repeat the one before.
LastRow == IF streamFile # <<>> /\ Last(streamFile).stream = generation THEN Last(streamFile).seq ELSE 0
Repeated == {i \in 2 .. Len(streamFile) : streamFile[i] = streamFile[i - 1]}

\* However many ticks fail while they write, the file has the events of one stream
\* after those of the other, each stream from its first event on and without a gap;
\* what is counted is in the file, without a failure all that is in the log; and a
\* failure repeats at most the row it failed at.
StreamFileComplete ==
    /\ streamFile # <<>> => streamFile[1].seq = 1
    /\ \A i \in 2 .. Len(streamFile) :
          IF streamFile[i].stream = streamFile[i - 1].stream
          THEN streamFile[i].seq \in {streamFile[i - 1].seq, streamFile[i - 1].seq + 1}
          ELSE streamFile[i].stream > streamFile[i - 1].stream /\ streamFile[i].seq = 1
    /\ Cardinality(Repeated) <= faults
    /\ persisted <= LastRow /\ LastRow <= Len(log)
    /\ faults = 0 => LastRow = Len(log)

\* The label rows of a scenario tell its stages in order and none twice, and
\* what a detector finds in it is in the incident file at most once, across
\* resets and whatever fails while a row is written.
ScenarioRowsOnce ==
    /\ \A i, j \in DOMAIN labelFile :
          i < j /\ labelFile[i].scenario = labelFile[j].scenario
              => labelFile[i].entered \subseteq labelFile[j].entered /\ labelFile[i].entered # labelFile[j].entered
    /\ \A i, j \in DOMAIN incidentFile :
          i # j => \/ incidentFile[i].scenario # incidentFile[j].scenario
                    \/ incidentFile[i].detector # incidentFile[j].detector
=============================================================================
