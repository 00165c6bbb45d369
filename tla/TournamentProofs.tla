--------------------------- MODULE TournamentProofs ---------------------------
(***************************************************************************)
(* Theorems about tournaments and their metrics, for any number of         *)
(* tournaments, threads, refreshes and faults, and any limit of memory.    *)
(***************************************************************************)
EXTENDS Tournament, FiniteSetTheorems, TLAPS

WorkersTyped ==
    /\ worker \in [Workers -> [at : Places, op : Ops, id : Ids \cup {NoId}, new : Responses]]
    /\ \A w \in Workers : worker[w].id = NoId <=> worker[w].at = "idle"

MetricsTyped ==
    /\ active \in [Ids -> Modes \cup {NoMode}] /\ terminal \in Seq(Ids) /\ Len(terminal) <= DedupLimit
    /\ runs \in [Modes -> [Finished -> Int]]

RestTyped ==
    /\ file \in [Ids -> Responses \cup {Missing, Torn}]
    /\ job \in [Ids -> {"none", "queued", "running", "completed", "failed"}]

\* A counted tournament is not in flight: whatever is observed late.
CountedAreOut == \A t \in Ids : IsCounted(t) => active[t] = NoMode

MetricsInv == MetricsTyped /\ CountedAreOut /\ GaugeCountsInFlight
IInv == WorkersTyped /\ RestTyped /\ MetricsInv

-----------------------------------------------------------------------------
(* The metrics *)

LEMMA ResponsesHaveFields ==
    ASSUME NEW r \in Responses
    PROVE  r.status \in Unfinished \cup Finished /\ r.mode \in Modes /\ r.mode # NoMode
<1> QED BY MetricsAssumption DEF Responses, Modes

LEMMA ObserveKeepsActive ==
    ASSUME MetricsInv, NEW t \in Ids, NEW r \in Responses, Observe(t, r)
    PROVE  /\ active' \in [Ids -> Modes \cup {NoMode}]
           /\ active'[t] = ActiveAfter(t, r)
           /\ \A u \in Ids \ {t} : active'[u] = active[u]
<1>1. ActiveAfter(t, r) \in Modes \cup {NoMode}
    BY ResponsesHaveFields DEF ActiveAfter
<1> QED BY <1>1 DEF MetricsInv, MetricsTyped, Observe

LEMMA TerminalGrows ==
    ASSUME MetricsTyped, NEW t \in Ids
    PROVE  /\ TerminalAfter(t) \in Seq(Ids)
           /\ Len(TerminalAfter(t)) <= DedupLimit
           /\ TerminalAfter(t)[Len(TerminalAfter(t))] = t
           /\ Len(TerminalAfter(t)) \in DOMAIN TerminalAfter(t)
           /\ \A u \in Ids \ {t} :
                (\E i \in DOMAIN TerminalAfter(t) : TerminalAfter(t)[i] = u) => IsCounted(u)
<1> DEFINE kept == IF Len(terminal) >= DedupLimit THEN Tail(terminal) ELSE terminal
<1>1. terminal \in Seq(Ids) /\ Len(terminal) <= DedupLimit /\ DedupLimit \in Nat \ {0}
    BY MetricsAssumption DEF MetricsTyped
<1>2. /\ kept \in Seq(Ids) /\ Len(kept) < DedupLimit
      /\ \A i \in 1..Len(kept) : \E j \in 1..Len(terminal) : kept[i] = terminal[j]
    <2>1. CASE Len(terminal) >= DedupLimit
        <3>1. terminal # <<>> BY <1>1, <2>1
        <3>2. Tail(terminal) \in Seq(Ids) /\ Len(Tail(terminal)) = Len(terminal) - 1 BY <1>1, <3>1
        <3>3. \A i \in 1..Len(Tail(terminal)) : i + 1 \in 1..Len(terminal) /\ Tail(terminal)[i] = terminal[i + 1]
            BY <1>1, <3>1, <3>2
        <3>4. \A i \in 1..Len(Tail(terminal)) : \E j \in 1..Len(terminal) : Tail(terminal)[i] = terminal[j]
            BY <3>3
        <3> QED BY <1>1, <2>1, <3>2, <3>4
    <2>2. CASE ~(Len(terminal) >= DedupLimit) BY <1>1, <2>2
    <2> QED BY <2>1, <2>2
<1> HIDE DEF kept
<1>3. TerminalAfter(t) = Append(kept, t) BY DEF TerminalAfter, kept
<1>4. /\ Append(kept, t) \in Seq(Ids) /\ Len(Append(kept, t)) = Len(kept) + 1
      /\ Append(kept, t)[Len(kept) + 1] = t
      /\ \A i \in 1..Len(kept) : Append(kept, t)[i] = kept[i]
      /\ DOMAIN Append(kept, t) = 1..(Len(kept) + 1)
    BY <1>2
<1>5. ASSUME NEW u \in Ids \ {t}, NEW i \in 1..(Len(kept) + 1), Append(kept, t)[i] = u
      PROVE  IsCounted(u)
    <2>1. i \in 1..Len(kept) BY <1>2, <1>4, <1>5
    <2>2. DOMAIN terminal = 1..Len(terminal) BY <1>1
    <2> QED BY <1>2, <1>4, <1>5, <2>1, <2>2 DEF IsCounted
<1> QED BY <1>1, <1>2, <1>3, <1>4, <1>5

\* The memory of counted tournaments after an observation.
LEMMA ObserveCounts ==
    ASSUME MetricsInv, NEW t \in Ids, NEW r \in Responses, Observe(t, r)
    PROVE  /\ terminal' \in Seq(Ids) /\ Len(terminal') <= DedupLimit
           /\ runs' \in [Modes -> [Finished -> Int]]
           /\ \A u \in Ids \ {t} : IsCounted(u)' => IsCounted(u)
           /\ IsCounted(t)' <=> (IsCounted(t) \/ r.status \in Finished)
<1>1. CASE r.status \in Finished /\ ~IsCounted(t)
    <2>1. terminal' = TerminalAfter(t) /\ runs' = [runs EXCEPT ![r.mode][r.status] = @ + 1]
        BY <1>1 DEF Observe
    <2>2. runs' \in [Modes -> [Finished -> Int]]
        BY <1>1, <2>1, ResponsesHaveFields DEF MetricsInv, MetricsTyped
    <2>3. /\ TerminalAfter(t) \in Seq(Ids) /\ Len(TerminalAfter(t)) <= DedupLimit
          /\ \A u \in Ids \ {t} : (\E i \in DOMAIN TerminalAfter(t) : TerminalAfter(t)[i] = u) => IsCounted(u)
          /\ \E i \in DOMAIN TerminalAfter(t) : TerminalAfter(t)[i] = t
        BY <1>1, TerminalGrows DEF MetricsInv
    <2>4. \A u \in Ids : IsCounted(u)' <=> \E i \in DOMAIN TerminalAfter(t) : TerminalAfter(t)[i] = u
        BY <2>1 DEF IsCounted
    <2> QED BY <1>1, <2>1, <2>2, <2>3, <2>4
<1>2. CASE ~(r.status \in Finished /\ ~IsCounted(t))
    <2>1. UNCHANGED <<terminal, runs>> BY <1>2 DEF Observe
    <2> QED BY <1>2, <2>1 DEF MetricsInv, MetricsTyped, IsCounted
<1> QED BY <1>1, <1>2

LEMMA ObserveKeepsMetrics ==
    ASSUME MetricsInv, NEW t \in Ids, NEW r \in Responses, Observe(t, r)
    PROVE  MetricsInv'
<1>1. /\ active' \in [Ids -> Modes \cup {NoMode}]
      /\ active'[t] = ActiveAfter(t, r)
      /\ \A u \in Ids \ {t} : active'[u] = active[u]
    BY ObserveKeepsActive
<1>2. CountedAreOut'
    <2>1. IsCounted(t)' => active'[t] = NoMode
        BY <1>1, ObserveCounts DEF ActiveAfter, MetricsInv, CountedAreOut
    <2>2. \A u \in Ids \ {t} : IsCounted(u)' => active'[u] = NoMode
        BY <1>1, ObserveCounts DEF MetricsInv, CountedAreOut
    <2> QED BY <2>1, <2>2 DEF CountedAreOut
<1>3. ASSUME NEW m \in Modes PROVE gauge'[m] = Cardinality(InFlight(m)')
    <2>1. CASE m \in Rendered(t, r) BY <2>1 DEF Observe
    <2>2. CASE m \notin Rendered(t, r)
        <3>1. gauge'[m] = Cardinality(InFlight(m)) BY <2>2 DEF Observe, MetricsInv, GaugeCountsInFlight
        <3>2. active'[t] = m <=> active[t] = m
            BY <1>1, <2>2, MetricsAssumption DEF Rendered, ActiveAfter, Modes
        <3>3. InFlight(m)' = InFlight(m) BY <1>1, <3>2 DEF InFlight
        <3> QED BY <3>1, <3>3
    <2> QED BY <2>1, <2>2
<1> QED BY <1>1, <1>2, <1>3, ObserveCounts DEF MetricsInv, MetricsTyped, GaugeCountsInFlight
-----------------------------------------------------------------------------
(* The threads *)

LEMMA InitEstablishes == Init => IInv
<1> SUFFICES ASSUME Init PROVE IInv OBVIOUS
<1> USE DEF Init, MetricsInit
<1>1. WorkersTyped BY TournamentAssumption DEF WorkersTyped, Idle, Places, Ops, NoResponse, Responses, Unfinished, Modes
<1>2. RestTyped BY DEF RestTyped
<1>3. MetricsTyped BY MetricsAssumption DEF MetricsTyped, NoRuns
<1>4. CountedAreOut BY DEF CountedAreOut
<1>5. GaugeCountsInFlight
    <2>1. ASSUME NEW m \in Modes PROVE gauge[m] = Cardinality(InFlight(m))
        <3>1. InFlight(m) = {} BY MetricsAssumption DEF InFlight, Modes
        <3> QED BY <3>1, FS_EmptySet
    <2> QED BY <2>1 DEF GaugeCountsInFlight
<1> QED BY <1>1, <1>2, <1>3, <1>4, <1>5 DEF IInv, MetricsInv

\* The responses that are written, each of them a response.
LEMMA NewResponses ==
    /\ Mock \in Responses /\ [Mock EXCEPT !.mode = "local"] \in Responses /\ [Mock EXCEPT !.mode = "local_mock"] \in Responses
    /\ QueuedLocal \in Responses /\ Submitted \in Responses /\ Refused \in Responses /\ NoResponse \in Responses
    /\ \A r \in Responses, s \in Unfinished \cup Finished : [r EXCEPT !.status = s] \in Responses
    /\ \A r \in Responses : Collected(r) \subseteq Responses
<1> USE DEF Responses, Unfinished, Finished, Modes
<1>1. \A r \in Responses, s \in Unfinished \cup Finished : [r EXCEPT !.status = s] \in Responses OBVIOUS
<1>2. \A r \in Responses : [r EXCEPT !.status = "completed", !.collected = TRUE] \in Responses OBVIOUS
<1>3. /\ Mock \in Responses /\ QueuedLocal \in Responses /\ Submitted \in Responses
      /\ Refused \in Responses /\ NoResponse \in Responses
    BY DEF Mock, QueuedLocal, Submitted, Refused, NoResponse
<1>4. [Mock EXCEPT !.mode = "local"] \in Responses /\ [Mock EXCEPT !.mode = "local_mock"] \in Responses BY DEF Mock
<1>5. \A r \in Responses : [r EXCEPT !.status = "failed"] \in Responses /\ [r EXCEPT !.status = "running"] \in Responses
    BY <1>1
<1>6. ASSUME NEW r \in Responses PROVE Collected(r) \subseteq Responses
    <2> HIDE DEF Responses, Unfinished, Finished, Modes
    <2> QED BY <1>2, <1>5 DEF Collected
<1> QED BY <1>1, <1>3, <1>4, <1>6

LEMMA WritesTyped ==
    ASSUME WorkersTyped, NEW w \in Workers, NEW op \in Ops, NEW t \in Ids, NEW r \in Responses, Writes(w, op, t, r)
    PROVE  WorkersTyped'
BY TournamentAssumption DEF WorkersTyped, Writes, Places

LEMMA GoesTyped ==
    ASSUME WorkersTyped, NEW w \in Workers, worker[w].at # "idle", NEW place \in Places \ {"idle"}, Goes(w, place)
    PROVE  WorkersTyped'
BY DEF WorkersTyped, Goes

LEMMA RestsTyped ==
    ASSUME WorkersTyped, NEW w \in Workers, Rests(w)
    PROVE  WorkersTyped'
BY TournamentAssumption, NewResponses DEF WorkersTyped, Rests, Idle, Places, Ops

LEMMA BusyThread ==
    ASSUME WorkersTyped, NEW w \in Workers, worker[w].at # "idle"
    PROVE  worker[w].id \in Ids /\ worker[w].op \in Ops /\ worker[w].new \in Responses
BY DEF WorkersTyped

LEMMA NextKeeps == IInv /\ [Next]_vars => IInv'
<1> SUFFICES ASSUME IInv, [Next]_vars PROVE IInv' OBVIOUS
<1> USE DEF IInv
<1>u. ASSUME UNCHANGED metrics PROVE MetricsInv'
    BY <1>u DEF metrics, MetricsInv, MetricsTyped, CountedAreOut, GaugeCountsInFlight, IsCounted, InFlight
<1>1. ASSUME NEW w \in Workers, NEW t \in Ids, Start(w, t) PROVE IInv'
    <2>1. \E r \in Responses : Writes(w, "start", t, r)
        BY <1>1, NewResponses DEF Start, Submit
    <2>2. WorkersTyped' BY <2>1, WritesTyped DEF Ops
    <2>3. RestTyped' BY <1>1 DEF Start, Submit, RestTyped
    <2> QED BY <1>1, <1>u, <2>2, <2>3 DEF Start
<1>2. ASSUME NEW w \in Workers, Announce(w) PROVE IInv'
    <2>1. WorkersTyped'
        BY <1>2, RestsTyped DEF Announce, WorkersTyped, Places, Ops
    <2> QED BY <1>2, <1>u, <2>1 DEF Announce, RestTyped
<1>3. ASSUME NEW w \in Workers, Truncate(w) PROVE IInv'
    <2>1. WorkersTyped' BY <1>3, GoesTyped DEF Truncate, Places
    <2> QED BY <1>3, <1>u, <2>1 DEF Truncate, RestTyped
<1>4. ASSUME NEW w \in Workers, Fill(w) PROVE IInv'
    <2>1. WorkersTyped' BY <1>4, GoesTyped, RestsTyped DEF Fill, Places
    <2>2. RestTyped' BY <1>4, BusyThread DEF Fill, RestTyped
    <2> QED BY <1>4, <1>u, <2>1, <2>2 DEF Fill
<1>5. ASSUME NEW w \in Workers, Tell(w) PROVE IInv'
    <2>1. WorkersTyped' BY <1>5, GoesTyped, RestsTyped DEF Tell, Places
    <2>2. Observe(worker[w].id, worker[w].new) BY <1>5 DEF Tell, Observed
    <2>3. worker[w].id \in Ids /\ worker[w].new \in Responses BY <1>5, BusyThread DEF Tell
    <2>4. MetricsInv' BY <2>2, <2>3, ObserveKeepsMetrics
    <2> QED BY <1>5, <2>1, <2>4 DEF Tell, RestTyped
<1>6. ASSUME NEW w \in Workers, ReadQueued(w) PROVE IInv'
    <2>1. WorkersTyped'
        <3>1. CASE file[worker[w].id] = QueuedLocal
            <4>1. [QueuedLocal EXCEPT !.status = "running"] \in Responses BY NewResponses DEF Unfinished
            <4>2. Writes(w, "complete", worker[w].id, [QueuedLocal EXCEPT !.status = "running"])
                BY <1>6, <3>1 DEF ReadQueued
            <4>3. worker[w].id \in Ids BY <1>6, BusyThread DEF ReadQueued
            <4> QED BY <4>1, <4>2, <4>3, WritesTyped DEF Ops
        <3>2. CASE file[worker[w].id] # QueuedLocal BY <1>6, <3>2, RestsTyped DEF ReadQueued
        <3> QED BY <3>1, <3>2
    <2> QED BY <1>6, <1>u, <2>1 DEF ReadQueued, RestTyped
<1>7. ASSUME NEW w \in Workers, Claim(w) PROVE IInv'
    <2>1. worker[w].id \in Ids BY <1>7, BusyThread DEF Claim
    <2>2. WorkersTyped' BY <1>7, <2>1, GoesTyped, WritesTyped, NewResponses DEF Claim, BusyAnswers, Places, Ops
    <2> QED BY <1>7, <1>u, <2>2 DEF Claim, RestTyped
<1>8. ASSUME NEW w \in Workers, RunLocal(w) PROVE IInv'
    <2>1. worker[w].id \in Ids BY <1>8, BusyThread DEF RunLocal
    <2>2. \E r \in Responses : Writes(w, "complete", worker[w].id, r) BY <1>8, NewResponses DEF RunLocal
    <2>3. WorkersTyped' BY <2>1, <2>2, WritesTyped DEF Ops
    <2> QED BY <1>8, <1>u, <2>3 DEF RunLocal, RestTyped
<1>9. ASSUME NEW w \in Workers, Release(w) PROVE IInv'
    <2>1. WorkersTyped' BY <1>9, GoesTyped DEF Release, Places
    <2> QED BY <1>9, <1>u, <2>1 DEF Release, RestTyped
<1>10. ASSUME NEW w \in Workers, NEW t \in Ids, Refresh(w, t) PROVE IInv'
    <2>1. WorkersTyped' BY <1>10, TournamentAssumption DEF Refresh, WorkersTyped, Places, Ops
    <2> QED BY <1>10, <1>u, <2>1 DEF Refresh, RestTyped
<1>11. ASSUME NEW w \in Workers, Poll(w) PROVE IInv'
    <2>1. worker[w].id \in Ids /\ worker[w].new \in Responses BY <1>11, BusyThread DEF Poll
    <2>2. Answers(worker[w].id, worker[w].new) \subseteq Responses
        <3>1. job[worker[w].id] \in {"none", "queued", "running", "completed", "failed"} BY <2>1 DEF RestTyped
        <3>2. \A s \in {job[worker[w].id], worker[w].new.status} \ {"none"} : s \in Unfinished \cup Finished
            BY <2>1, <3>1, ResponsesHaveFields DEF Unfinished, Finished
        <3>3. ASSUME NEW s \in {job[worker[w].id], worker[w].new.status} \ {"none"}
              PROVE  (IF s = "completed" THEN Collected(worker[w].new) ELSE {[worker[w].new EXCEPT !.status = s]})
                       \subseteq Responses
            BY <2>1, <3>2, NewResponses
        <3> QED BY <3>3 DEF Answers
    <2>3. \E op \in Ops, r \in Responses : Writes(w, op, worker[w].id, r)
        BY <1>11, <2>1, <2>2 DEF Poll, Ops
    <2>4. WorkersTyped' BY <2>1, <2>3, WritesTyped
    <2> QED BY <1>11, <1>u, <2>4 DEF Poll, RestTyped
<1>12. ASSUME NEW w \in Workers, Throw(w) PROVE IInv'
    <2>1. WorkersTyped' BY <1>12, RestsTyped DEF Throw
    <2> QED BY <1>12, <1>u, <2>1 DEF Throw, RestTyped
<1>13. ASSUME NEW t \in Ids, JobAdvances(t) PROVE IInv'
    <2>1. RestTyped' BY <1>13 DEF JobAdvances, RestTyped
    <2> QED BY <1>13, <1>u, <2>1 DEF JobAdvances, WorkersTyped
<1>14. ASSUME Restart PROVE IInv'
    <2>1. WorkersTyped'
        BY <1>14, TournamentAssumption, NewResponses DEF Restart, WorkersTyped, Idle, Places, Ops
    <2>2. MetricsTyped' BY <1>14, MetricsAssumption DEF Restart, MetricsRestart, MetricsTyped, NoRuns
    <2>3. CountedAreOut' BY <1>14 DEF Restart, MetricsRestart, CountedAreOut
    <2>4. ASSUME NEW m \in Modes PROVE gauge'[m] = Cardinality(InFlight(m)')
        <3>1. InFlight(m)' = {} BY <1>14, MetricsAssumption DEF Restart, MetricsRestart, InFlight, Modes
        <3> QED BY <1>14, <3>1, FS_EmptySet DEF Restart, MetricsRestart
    <2> QED BY <1>14, <2>1, <2>2, <2>3, <2>4 DEF Restart, RestTyped, MetricsInv, GaugeCountsInFlight
<1>15. CASE UNCHANGED vars
    BY <1>15, <1>u DEF vars, WorkersTyped, RestTyped
<1> QED
    BY <1>1, <1>2, <1>3, <1>4, <1>5, <1>6, <1>7, <1>8, <1>9, <1>10, <1>11, <1>12, <1>13, <1>14, <1>15 DEF Next, Step

LEMMA Invariant == Spec => []IInv
BY InitEstablishes, NextKeeps, PTL DEF Spec

\* The gauge of every mode shows what is in flight, whatever is observed late,
\* out of order or under another mode.
THEOREM GaugeTellsTruth == Spec => []GaugeCountsInFlight
<1>1. IInv => GaugeCountsInFlight BY DEF IInv, MetricsInv
<1> QED BY <1>1, Invariant, PTL

-----------------------------------------------------------------------------
(* The lock of the local runner *)

HoldersHold == \A w \in Workers : worker[w].at \in {"run", "release"} => lock = w
OneRunner == \A v, w \in Workers : worker[v].at = "run" /\ worker[w].at = "run" => v = w

LEMMA LockKept == IInv /\ HoldersHold /\ [Next]_vars => HoldersHold'
<1> SUFFICES ASSUME IInv, HoldersHold, [Next]_vars PROVE HoldersHold' OBVIOUS
<1> USE DEF HoldersHold
<1>t. worker \in [Workers -> [at : Places, op : Ops, id : Ids \cup {NoId}, new : Responses]] BY DEF IInv, WorkersTyped
<1>1. ASSUME NEW w \in Workers, UNCHANGED lock,
             \A v \in Workers \ {w} : worker'[v] = worker[v],
             worker'[w].at \notin {"run", "release"}
      PROVE  HoldersHold'
    BY <1>1
<1>2. ASSUME NEW w \in Workers, \E t \in Ids : Start(w, t) \/ Refresh(w, t) PROVE HoldersHold'
    BY <1>t, <1>1, <1>2 DEF Start, Submit, Writes, Refresh
<1>3. ASSUME NEW w \in Workers, Announce(w) \/ Truncate(w) \/ ReadQueued(w) \/ RunLocal(w) \/ Poll(w) \/ Tell(w)
      PROVE  HoldersHold'
    BY <1>t, <1>1, <1>3 DEF Announce, Truncate, ReadQueued, RunLocal, Poll, Tell, Writes, Goes, Rests, Idle
<1>4. ASSUME NEW w \in Workers, Fill(w) PROVE HoldersHold'
    BY <1>t, <1>4 DEF Fill, Goes, Rests, Idle
<1>5. ASSUME NEW w \in Workers, Claim(w) PROVE HoldersHold'
    BY <1>t, <1>5, TournamentAssumption DEF Claim, BusyAnswers, Writes, Goes
<1>6. ASSUME NEW w \in Workers, Release(w) PROVE HoldersHold'
    BY <1>t, <1>6 DEF Release, Goes
<1>7. ASSUME NEW w \in Workers, Throw(w) PROVE HoldersHold'
    BY <1>t, <1>7 DEF Throw, LockAfterThrow, Rests, Idle
<1>8. ASSUME Restart PROVE HoldersHold'
    BY <1>8 DEF Restart, Idle
<1>9. ASSUME UNCHANGED vars \/ \E t \in Ids : JobAdvances(t) PROVE HoldersHold'
    BY <1>9 DEF vars, JobAdvances
<1> QED BY <1>2, <1>3, <1>4, <1>5, <1>6, <1>7, <1>8, <1>9 DEF Next, Step

\* At most one thread is inside the local runner, also when requests throw and
\* others find it busy.
THEOREM RunnerIsExclusive == Spec => []OneRunner
<1>1. Init => HoldersHold BY DEF Init, HoldersHold, Idle
<1>2. HoldersHold => OneRunner BY DEF HoldersHold, OneRunner
<1> QED BY <1>1, <1>2, LockKept, Invariant, PTL DEF Spec

-----------------------------------------------------------------------------
(* The refinement *)

LEMMA ObserveIsTallied ==
    ASSUME MetricsInv, NEW t \in Ids, NEW r \in Responses, Observe(t, r)
    PROVE  [Tally!Next]_<<{u \in Ids : active[u] # NoMode}, {u \in Ids : IsCounted(u)}, runs>>
<1> DEFINE flying == {u \in Ids : active[u] # NoMode}
           known == {u \in Ids : IsCounted(u)}
<1>1. /\ active' \in [Ids -> Modes \cup {NoMode}]
      /\ active'[t] = ActiveAfter(t, r)
      /\ \A u \in Ids \ {t} : active'[u] = active[u]
    BY ObserveKeepsActive
<1>2. r.mode \in Modes /\ r.mode # NoMode /\ r.status \in Unfinished \cup Finished BY ResponsesHaveFields
<1>3. CASE r.status \in Finished /\ ~IsCounted(t)
    <2>1. flying' = flying \ {t} BY <1>1, <1>3 DEF ActiveAfter
    <2>2. /\ \A u \in Ids \ {t} : IsCounted(u)' => IsCounted(u)
          /\ IsCounted(t)'
        BY <1>3, ObserveCounts
    <2>3. PICK remembered \in SUBSET known : known' = remembered \cup {t}
        <3>1. known' \ {t} \in SUBSET known /\ known' = (known' \ {t}) \cup {t} BY <2>2
        <3> QED BY <3>1
    <2>4. runs' = [runs EXCEPT ![r.mode][r.status] = @ + 1] BY <1>3 DEF Observe
    <2>5. Tally!Count(t, r.mode, r.status) BY <1>3, <2>1, <2>3, <2>4 DEF Tally!Count
    <2> QED BY <1>2, <1>3, <2>5 DEF Tally!Next
<1>4. CASE ~(r.status \in Finished /\ ~IsCounted(t))
    <2>1. UNCHANGED <<terminal, runs>> BY <1>4 DEF Observe
    <2>2. known' = known BY <2>1 DEF IsCounted
    <2>3. CASE IsCounted(t)
        <3>1. active[t] = NoMode BY <2>3 DEF MetricsInv, CountedAreOut
        <3>2. flying' = flying BY <1>1, <2>3, <3>1 DEF ActiveAfter
        <3> QED BY <2>1, <2>2, <3>2
    <2>4. CASE ~IsCounted(t)
        <3>1. r.status \notin Finished BY <1>4, <2>4
        <3>2. flying' = flying \cup {t} BY <1>1, <1>2, <2>4, <3>1 DEF ActiveAfter
        <3>3. Tally!Enter(t) BY <2>1, <2>2, <2>4, <3>2 DEF Tally!Enter
        <3> QED BY <3>3 DEF Tally!Next
    <2> QED BY <2>3, <2>4
<1> QED BY <1>3, <1>4

\* The metrics implement their tally: a tournament is counted when it ends and
\* not again while it is remembered, and is never in flight and counted.
THEOREM MetricsKeepTheirPromise == Spec => KeepsTally
<1> DEFINE shown == <<{t \in Ids : active[t] # NoMode}, {t \in Ids : IsCounted(t)}, runs>>
<1>1. Init => Tally!Init
    BY DEF Init, MetricsInit, Tally!Init, Tally!NoRuns, NoRuns, IsCounted
<1>2. IInv /\ [Next]_vars => [Tally!Next]_shown
    <2> SUFFICES ASSUME IInv, [Next]_vars PROVE [Tally!Next]_shown OBVIOUS
    <2>1. ASSUME UNCHANGED metrics PROVE UNCHANGED shown BY <2>1 DEF metrics, IsCounted
    <2>2. ASSUME NEW w \in Workers, Tell(w) PROVE [Tally!Next]_shown
        <3>1. Observe(worker[w].id, worker[w].new) BY <2>2 DEF Tell, Observed
        <3>2. worker[w].id \in Ids /\ worker[w].new \in Responses BY <2>2, BusyThread DEF Tell, IInv
        <3> QED BY <3>1, <3>2, ObserveIsTallied DEF IInv
    <2>3. ASSUME Restart PROVE Tally!Restart
        BY <2>3 DEF Restart, MetricsRestart, Tally!Restart, Tally!NoRuns, NoRuns, IsCounted
    <2>4. ASSUME NEW w \in Workers, Step(w), ~Tell(w) PROVE UNCHANGED metrics
        BY <2>4 DEF Step, Announce, Truncate, Fill, ReadQueued, Claim, RunLocal, Release, Poll
    <2>5. ASSUME NEW w \in Workers, Throw(w) \/ \E t \in Ids : Start(w, t) \/ Refresh(w, t) PROVE UNCHANGED metrics
        BY <2>5 DEF Throw, Start, Refresh
    <2>6. ASSUME NEW t \in Ids, JobAdvances(t) PROVE UNCHANGED metrics BY <2>6 DEF JobAdvances
    <2>7. CASE UNCHANGED vars BY <2>1, <2>7 DEF vars
    <2> HIDE DEF shown
    <2> QED BY <2>1, <2>2, <2>3, <2>4, <2>5, <2>6, <2>7 DEF Next, Tally!Next
<1>3. IInv /\ [Next]_vars
         => [Tally!Next]_<<{t \in Ids : active[t] # NoMode}, {t \in Ids : IsCounted(t)}, runs>>
    BY <1>2
<1> QED BY <1>1, <1>3, Invariant, PTL DEF Spec, KeepsTally, Tally!Spec
=============================================================================
