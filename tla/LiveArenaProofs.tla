---------------------------- MODULE LiveArenaProofs ----------------------------
(***************************************************************************)
(* Theorems of the live arena, for all data sets, detectors, families of   *)
(* scenarios and bounds.  Every step of the arena is of one of six kinds,  *)
(* whatever request, tick or part of a comparison it comes from: it renews *)
(* the runtime, polls, ticks, launches, zeroes the counters or leaves a    *)
(* torn arena (StepKinds); each theorem looks at the kinds only.           *)
(***************************************************************************)
EXTENDS LiveArena, TLAPS, FiniteSetTheorems, WellFoundedInduction

Scenarios == [id : Nat, family : AllFamilies, start : Nat]
Incidents == [id : Nat, scenario : Nat, detector : Detectors]
IsRuntime(r) ==
    /\ DOMAIN r = {"running", "tick", "scenario", "resting", "incidents", "incidentKeys", "market",
                   "applied"}
    /\ r.tick \in Nat /\ (r.scenario = NoScenario \/ r.scenario \in Scenarios)
    /\ r.incidents \in Seq(Incidents) /\ r.incidentKeys \subseteq Nat \X Detectors
    /\ r.applied \in Seq(Nat)
Calls ==
    {<<"zero counters">>, <<"start">>} \cup ({"load"} \X SourceTypes \X Datasets)
      \cup ({"launch"} \X Families) \cup ({"run"} \X Nat)

IsCsv(c) ==
    /\ DOMAIN c = {"dataset", "cursor"}
    /\ c.dataset \in CsvDatasets \cup {NoDataset} /\ c.cursor \in Nat
IsLobster(l) ==
    /\ DOMAIN l = {"dataset", "position", "started", "eof", "running"}
    /\ l.dataset \in LobsterDatasets \cup {NoDataset} /\ l.position \in Nat
IsSource(s) ==
    /\ DOMAIN s = {"type", "kernel", "csv", "lobster"}
    /\ IsCsv(s.csv) /\ IsLobster(s.lobster)

\* What a LOBSTER source that the kernel replays is like after any number of
\* batches.
InFile(l) ==
    /\ l.position \in 1..LobsterRows(l)
    /\ ~l.started => l.position = 1
    /\ l.eof <=> l.position >= LobsterRows(l)

\* A CSV data set and a LOBSTER data set are never loaded at the same time.
SourceFits(s) ==
    /\ IsSource(s)
    /\ CsvLoaded(s.csv) => ~s.kernel /\ ~LobsterLoaded(s.lobster) /\ s.csv.cursor <= CsvRows(s.csv)
    /\ s.kernel /\ LobsterLoaded(s.lobster) => InFile(s.lobster)

\* The state's types, and that only a request that threw leaves the kernel
\* with a data set to replay and no rows.
Shape ==
    /\ SourceFits(source) /\ IsRuntime(runtime)
    /\ scenarioCounter \in Nat /\ incidentCounter \in Nat /\ torn \in BOOLEAN
    /\ ~torn => ~Dangling(source)

-----------------------------------------------------------------------------
(* Incidents *)

\* The incidents of r are told apart by id and by key, and number of
\* incidents and of scenarios are ahead of all that was given out.
Numbered(r, incidents, scenarios) ==
    /\ \A i, j \in DOMAIN r.incidents :
         i # j => /\ r.incidents[i].id # r.incidents[j].id
                  /\ \/ r.incidents[i].scenario # r.incidents[j].scenario
                     \/ r.incidents[i].detector # r.incidents[j].detector
    /\ \A i \in DOMAIN r.incidents :
         /\ r.incidents[i].id <= incidents
         /\ <<r.incidents[i].scenario, r.incidents[i].detector>> \in r.incidentKeys
    /\ \A key \in r.incidentKeys : key[1] <= scenarios
    /\ r.scenario # NoScenario => r.scenario.id <= scenarios

\* What is published of r: nothing but incidents is added to it.
Shows(r) ==
    /\ IsRuntime(runtime') /\ incidentCounter' \in Nat
    /\ runtime'.tick = r.tick /\ runtime'.scenario = r.scenario
    /\ runtime'.resting = r.resting /\ runtime'.applied = r.applied
    /\ Numbered(r, incidentCounter, scenarioCounter) =>
         Numbered(runtime', incidentCounter', scenarioCounter)

LEMMA SequenceOfSet ==
    ASSUME NEW S, IsFiniteSet(S)
    PROVE  /\ SetToSeq(S) \in Seq(S)
           /\ \A i, j \in DOMAIN SetToSeq(S) : SetToSeq(S)[i] = SetToSeq(S)[j] => i = j
  <1> DEFINE n == Cardinality(S)
  <1>1. n \in Nat /\ ExistsBijection(1 .. n, S)
    BY FS_CardinalityType
  <1>2. \E f \in [1 .. n -> S] : IsInjective(f)
    BY <1>1 DEF ExistsBijection, Bijection, Injection
  <1>3. SetToSeq(S) \in [1 .. n -> S] /\ IsInjective(SetToSeq(S))
    BY <1>2 DEF SetToSeq
  <1> HIDE DEF n
  <1> QED
    BY <1>1, <1>3 DEF IsInjective

LEMMA BuildShows ==
    ASSUME NEW s, NEW r, IsFiniteSet(Detectors), IsRuntime(r), incidentCounter \in Nat, BuildState(s, r)
    PROVE  Shows(r)
  <1>1. CASE runtime' = r /\ UNCHANGED incidentCounter
    BY <1>1 DEF Shows
  <1>2. ASSUME r.scenario # NoScenario, NEW alerts \in SUBSET Detectors,
               runtime' = WithIncidents(r, NewIncidents(r, alerts)),
               incidentCounter' = incidentCounter + Len(NewIncidents(r, alerts))
        PROVE  Shows(r)
    <2> DEFINE S == {d \in alerts : <<r.scenario.id, d>> \notin r.incidentKeys}
               named == SetToSeq(S)
               new == NewIncidents(r, alerts)
    <2>1. r.scenario \in Scenarios /\ r.scenario.id \in Nat
      BY <1>2 DEF IsRuntime, Scenarios
    <2>2. IsFiniteSet(S)
      BY FS_Subset
    <2>3. named \in Seq(S) /\ \A i, j \in DOMAIN named : named[i] = named[j] => i = j
      BY <2>2, SequenceOfSet
    <2>4. new = [i \in DOMAIN named |-> [id |-> incidentCounter + i, scenario |-> r.scenario.id, detector |-> named[i]]]
      BY DEF NewIncidents
    <2>5. S \subseteq Detectors /\ \A d \in S : <<r.scenario.id, d>> \notin r.incidentKeys
      OBVIOUS
    <2> HIDE DEF S, named
    <2>6. /\ Len(named) \in Nat /\ DOMAIN named = 1 .. Len(named)
          /\ \A i \in 1 .. Len(named) : named[i] \in S
      BY <2>3
    <2>7. /\ new \in Seq(Incidents)
          /\ Len(new) = Len(named) /\ DOMAIN new = 1 .. Len(named)
      <3>1. ASSUME NEW i \in 1 .. Len(named)
            PROVE  [id |-> incidentCounter + i, scenario |-> r.scenario.id, detector |-> named[i]] \in Incidents
        BY <2>1, <2>5, <2>6 DEF Incidents
      <3>2. new = [i \in 1 .. Len(named) |->
                     [id |-> incidentCounter + i, scenario |-> r.scenario.id, detector |-> named[i]]]
        BY <2>4, <2>6
      <3> HIDE DEF new
      <3>3. new \in [1 .. Len(named) -> Incidents]
        BY <3>1, <3>2
      <3> QED
        BY <2>6, <3>3
    <2>8. \A i \in 1 .. Len(named) :
            /\ new[i].id = incidentCounter + i /\ new[i].scenario = r.scenario.id
            /\ new[i].detector = named[i]
      BY <2>4, <2>6
    <2> HIDE DEF new
    <2> DEFINE keys == {<<new[i].scenario, new[i].detector>> : i \in DOMAIN new}
    <2>9. keys \subseteq Nat \X Detectors /\ \A key \in keys : key[1] = r.scenario.id
      BY <2>1, <2>5, <2>6, <2>7, <2>8
    <2>10. \A i \in DOMAIN new : <<new[i].scenario, new[i].detector>> \in keys
      OBVIOUS
    <2>11. /\ runtime' = [r EXCEPT !.incidents = @ \o new, !.incidentKeys = @ \cup keys]
           /\ incidentCounter' = incidentCounter + Len(named)
      BY <1>2, <2>7 DEF WithIncidents, new
    <2> HIDE DEF keys
    <2>12. r.incidents \in Seq(Incidents) /\ r.incidentKeys \in SUBSET (Nat \X Detectors)
      BY DEF IsRuntime
    <2>13. r.incidents \o new \in Seq(Incidents) /\ r.incidentKeys \cup keys \in SUBSET (Nat \X Detectors)
      BY <2>7, <2>9, <2>12
    <2>14. /\ IsRuntime(runtime')
           /\ runtime'.tick = r.tick /\ runtime'.scenario = r.scenario
           /\ runtime'.resting = r.resting /\ runtime'.applied = r.applied
           /\ runtime'.incidents = r.incidents \o new
           /\ runtime'.incidentKeys = r.incidentKeys \cup keys
      <3> DEFINE a == r.incidents \o new
                 b == r.incidentKeys \cup keys
      <3>1. runtime' = [r EXCEPT !.incidents = a, !.incidentKeys = b]
        BY <2>11
      <3> HIDE DEF a, b
      <3>2. /\ DOMAIN runtime' = DOMAIN r
            /\ runtime'.tick = r.tick /\ runtime'.scenario = r.scenario
            /\ runtime'.resting = r.resting /\ runtime'.applied = r.applied
            /\ runtime'.incidents = a /\ runtime'.incidentKeys = b
        BY <3>1 DEF IsRuntime
      <3>3. a \in Seq(Incidents) /\ b \subseteq Nat \X Detectors
        BY <2>13 DEF a, b
      <3>4. IsRuntime(runtime')
        BY <3>2, <3>3 DEF IsRuntime
      <3> QED
        BY <3>2, <3>4 DEF a, b
    <2>15. incidentCounter' \in Nat
      BY <2>6, <2>11
    <2>16. ASSUME Numbered(r, incidentCounter, scenarioCounter)
           PROVE  Numbered(runtime', incidentCounter', scenarioCounter)
      <3> DEFINE old == r.incidents
                 all == old \o new
      <3>1. /\ Len(old) \in Nat /\ DOMAIN old = 1 .. Len(old)
            /\ DOMAIN all = 1 .. Len(old) + Len(named)
            /\ \A i \in 1 .. Len(old) : all[i] = old[i]
            /\ \A i \in Len(old) + 1 .. Len(old) + Len(named) :
                 i - Len(old) \in 1 .. Len(named) /\ all[i] = new[i - Len(old)]
        BY <2>6, <2>7, <2>12
      <3>2. \A i \in 1 .. Len(old) :
              /\ old[i].id \in Nat /\ old[i].id <= incidentCounter
              /\ <<old[i].scenario, old[i].detector>> \in r.incidentKeys
        <4>1. \A i \in 1 .. Len(old) : old[i] \in Incidents
          BY <2>12
        <4>2. \A i \in DOMAIN old :
                /\ old[i].id <= incidentCounter
                /\ <<old[i].scenario, old[i].detector>> \in r.incidentKeys
          BY <2>16 DEF Numbered
        <4> HIDE DEF old, all
        <4> QED
          BY <3>1, <4>1, <4>2 DEF Incidents
      <3> HIDE DEF old, all
      <3>3. \A i \in DOMAIN all :
              /\ all[i].id <= incidentCounter + Len(named)
              /\ <<all[i].scenario, all[i].detector>> \in r.incidentKeys \cup keys
        <4> TAKE i \in DOMAIN all
        <4>1. CASE i \in 1 .. Len(old)
          BY <2>6, <3>1, <3>2, <4>1
        <4>2. CASE i \in Len(old) + 1 .. Len(old) + Len(named)
          BY <2>6, <2>7, <2>8, <2>10, <3>1, <4>2
        <4> QED
          BY <2>6, <3>1, <4>1, <4>2
      <3>4. ASSUME NEW i \in DOMAIN all, NEW j \in DOMAIN all, i < j
            PROVE  /\ all[i].id # all[j].id
                   /\ all[i].scenario # all[j].scenario \/ all[i].detector # all[j].detector
        <4>1. CASE j \in 1 .. Len(old)
          <5>1. i \in DOMAIN old /\ j \in DOMAIN old /\ i # j
            BY <3>1, <3>4, <4>1
          <5> QED
            BY <2>16, <3>1, <4>1, <5>1 DEF Numbered, old
        <4>2. CASE i \in 1 .. Len(old) /\ j \in Len(old) + 1 .. Len(old) + Len(named)
          <5>1. j - Len(old) \in 1 .. Len(named) /\ all[j] = new[j - Len(old)] /\ all[i] = old[i]
            BY <3>1, <4>2
          <5>2. all[i].id # all[j].id
            <6>1. all[j].id = incidentCounter + (j - Len(old)) /\ j - Len(old) > 0
              BY <2>6, <2>8, <5>1
            <6>2. all[i].id \in Nat /\ all[i].id <= incidentCounter
              BY <3>2, <4>2, <5>1
            <6> QED
              BY <3>1, <6>1, <6>2
          <5>3. <<all[j].scenario, all[j].detector>> \notin r.incidentKeys
            BY <2>5, <2>6, <2>8, <5>1
          <5> QED
            BY <3>2, <4>2, <5>1, <5>2, <5>3
        <4>3. CASE i \in Len(old) + 1 .. Len(old) + Len(named) /\ j \in Len(old) + 1 .. Len(old) + Len(named)
          <5>1. /\ i - Len(old) \in 1 .. Len(named) /\ all[i] = new[i - Len(old)]
                /\ j - Len(old) \in 1 .. Len(named) /\ all[j] = new[j - Len(old)]
                /\ i - Len(old) # j - Len(old)
            BY <3>1, <3>4, <4>3
          <5>2. named[i - Len(old)] # named[j - Len(old)]
            BY <2>3, <2>6, <5>1
          <5> QED
            BY <2>8, <5>1, <5>2
        <4> QED
          BY <2>6, <3>1, <3>4, <4>1, <4>2, <4>3
      <3>5. \A key \in r.incidentKeys \cup keys : key[1] <= scenarioCounter
        BY <1>2, <2>9, <2>16 DEF Numbered
      <3>6. runtime'.scenario # NoScenario => runtime'.scenario.id <= scenarioCounter
        BY <2>14, <2>16 DEF Numbered
      <3>7. \A i, j \in DOMAIN all :
              i # j => /\ all[i].id # all[j].id
                       /\ all[i].scenario # all[j].scenario \/ all[i].detector # all[j].detector
        BY <2>6, <3>1, <3>4
      <3> QED
        <4>1. runtime'.incidents = all /\ runtime'.incidentKeys = r.incidentKeys \cup keys
          BY <2>14 DEF all, old
        <4>2. incidentCounter' = incidentCounter + Len(named)
          BY <2>11
        <4> QED
          BY <3>3, <3>5, <3>6, <3>7, <4>1, <4>2, Zenon DEF Numbered
    <2> QED
      BY <2>14, <2>15, <2>16 DEF Shows
  <1> QED
    BY <1>1, <1>2 DEF BuildState

-----------------------------------------------------------------------------
(* Sources *)

LEMMA Files ==
    /\ \A d \in CsvDatasets :
         /\ CsvRecords[d] \in Seq([time : Int, actor : Int]) /\ Len(CsvRecords[d]) \in Nat \ {0}
         /\ \A i, j \in 1 .. Len(CsvRecords[d]) :
              i < j => CsvRecords[d][i].time <= CsvRecords[d][j].time
    /\ \A d \in LobsterDatasets :
         /\ LobsterRecords[d] \in Seq([time : Int, actor : Int]) /\ Len(LobsterRecords[d]) \in Nat \ {0}
         /\ \A i, j \in 1 .. Len(LobsterRecords[d]) :
              i < j => LobsterRecords[d][i].time <= LobsterRecords[d][j].time
    /\ NoDataset \notin CsvDatasets /\ NoDataset \notin LobsterDatasets
    /\ CsvDatasets \cap LobsterDatasets = {}
    /\ RowsPerTick \in Nat \ {0}
  <1> DEFINE all == {CsvRecords[d] : d \in CsvDatasets} \cup {LobsterRecords[d] : d \in LobsterDatasets}
  <1>1. \A records \in all :
          /\ records \in Seq([time : Int, actor : Int]) /\ Len(records) > 0
          /\ \A i, j \in 1 .. Len(records) : i < j => records[i].time <= records[j].time
    BY SourcesAssumption
  <1>2. /\ \A d \in CsvDatasets : CsvRecords[d] \in all
        /\ \A d \in LobsterDatasets : LobsterRecords[d] \in all
    OBVIOUS
  <1> HIDE DEF all
  <1>3. \A records \in all : Len(records) \in Nat \ {0}
    BY <1>1
  <1>4. /\ NoDataset \notin CsvDatasets /\ NoDataset \notin LobsterDatasets
        /\ CsvDatasets \cap LobsterDatasets = {} /\ RowsPerTick \in Nat \ {0}
    BY SourcesAssumption DEF Datasets
  <1>5. ASSUME NEW d \in CsvDatasets
        PROVE  /\ CsvRecords[d] \in Seq([time : Int, actor : Int]) /\ Len(CsvRecords[d]) \in Nat \ {0}
               /\ \A i, j \in 1 .. Len(CsvRecords[d]) :
                    i < j => CsvRecords[d][i].time <= CsvRecords[d][j].time
    BY <1>1, <1>2, <1>3
  <1>6. ASSUME NEW d \in LobsterDatasets
        PROVE  /\ LobsterRecords[d] \in Seq([time : Int, actor : Int]) /\ Len(LobsterRecords[d]) \in Nat \ {0}
               /\ \A i, j \in 1 .. Len(LobsterRecords[d]) :
                    i < j => LobsterRecords[d][i].time <= LobsterRecords[d][j].time
    BY <1>1, <1>2, <1>3
  <1> QED
    BY <1>4, <1>5, <1>6

LEMMA ReadsTo ==
    ASSUME NEW l, NEW row \in Nat, IsLobster(l)
    PROVE  LET r == ReadTo(l, row)
           IN  /\ IsLobster(r) /\ r.dataset = l.dataset /\ r.position = row
               /\ (r.started <=> l.started) /\ (r.eof <=> l.eof \/ row >= LobsterRows(l))
  BY DEF ReadTo, IsLobster

LEMMA OpenedFits ==
    ASSUME NEW d \in LobsterDatasets
    PROVE  LET l == LobsterOpened(d)
           IN  /\ IsLobster(l) /\ l.dataset = d /\ LobsterLoaded(l) /\ InFile(l) /\ ~l.started
  <1> DEFINE c == [LobsterClosed EXCEPT !.dataset = d]
  <1>1. /\ IsLobster(c) /\ c.dataset = d /\ ~c.started /\ ~c.eof
    BY DEF IsLobster, LobsterClosed
  <1>2. LobsterOpened(d) = ReadTo(c, 1)
    BY DEF LobsterOpened
  <1> HIDE DEF c
  <1>3. LobsterRows(c) \in Nat \ {0} /\ d # NoDataset
    BY <1>1, Files DEF LobsterRows
  <1> DEFINE l == ReadTo(c, 1)
  <1>4. /\ IsLobster(l) /\ l.dataset = c.dataset /\ l.position = 1
        /\ (l.started <=> c.started) /\ (l.eof <=> c.eof \/ 1 >= LobsterRows(c))
    BY <1>1, ReadsTo
  <1> HIDE DEF l
  <1>5. LobsterRows(l) = LobsterRows(c)
    BY <1>4 DEF LobsterRows
  <1>6. IsLobster(l) /\ l.dataset = d /\ LobsterLoaded(l) /\ InFile(l) /\ ~l.started
    BY <1>1, <1>3, <1>4, <1>5 DEF InFile, LobsterLoaded
  <1> QED
    BY <1>2, <1>6 DEF l

LEMMA ClosedFits ==
    /\ IsLobster(LobsterClosed) /\ ~LobsterLoaded(LobsterClosed)
    /\ IsCsv(CsvClosed) /\ ~CsvLoaded(CsvClosed)
  BY DEF IsLobster, LobsterClosed, LobsterLoaded, IsCsv, CsvClosed, CsvLoaded

\* The rows the kernel has written to the book.
Written(l) == IF l.started THEN l.position ELSE 0

\* The next rows of a file that is not at its end.
LEMMA LobsterGoesOn ==
    ASSUME NEW l, IsLobster(l), LobsterLoaded(l), InFile(l), ~LobsterEof(l)
    PROVE  /\ KernelFirst(l) = Written(l) + 1 /\ KernelLast(l) \in Written(l) + 1 .. LobsterRows(l)
           /\ Written(l) \in Nat
           /\ IsLobster(LobsterAfterBatch(l)) /\ LobsterAfterBatch(l).dataset = l.dataset
           /\ InFile(LobsterAfterBatch(l)) /\ LobsterAfterBatch(l).started
           /\ LobsterAfterBatch(l).position = KernelLast(l)
  <1> DEFINE r == ReadTo(l, KernelLast(l))
  <1>1. l.dataset \in LobsterDatasets
    BY DEF IsLobster, LobsterLoaded
  <1>2. LobsterRows(l) \in Nat \ {0} /\ RowsPerTick \in Nat \ {0}
    BY <1>1, Files DEF LobsterRows
  <1>3. KernelFirst(l) = Written(l) + 1 /\ Written(l) \in Nat /\ Written(l) < LobsterRows(l)
    BY <1>2 DEF InFile, LobsterEof, KernelFirst, Written, IsLobster
  <1>4. KernelLast(l) \in Written(l) + 1 .. LobsterRows(l) /\ KernelLast(l) \in Nat \ {0}
    BY <1>2, <1>3 DEF KernelLast, Least
  <1>5. l.position <= KernelLast(l)
    BY <1>2, <1>3, <1>4 DEF InFile, Written, IsLobster
  <1>6. /\ IsLobster(r) /\ r.dataset = l.dataset /\ r.position = KernelLast(l)
        /\ (r.eof <=> l.eof \/ KernelLast(l) >= LobsterRows(l))
    BY <1>4, ReadsTo
  <1>7. r.eof <=> KernelLast(l) >= LobsterRows(l)
    BY <1>2, <1>4, <1>5, <1>6 DEF InFile, IsLobster
  <1> HIDE DEF r
  <1> DEFINE q == [r EXCEPT !.started = TRUE]
  <1>8. /\ IsLobster(q) /\ q.dataset = l.dataset /\ q.position = KernelLast(l) /\ q.started
        /\ (q.eof <=> r.eof)
    BY <1>6 DEF IsLobster
  <1>9. q = LobsterAfterBatch(l)
    BY DEF LobsterAfterBatch, r
  <1> HIDE DEF q
  <1>10. LobsterRows(q) = LobsterRows(l)
    BY <1>8 DEF LobsterRows
  <1>11. InFile(q)
    BY <1>2, <1>3, <1>4, <1>7, <1>8, <1>10 DEF InFile
  <1> QED
    BY <1>3, <1>4, <1>8, <1>9, <1>11

LEMMA CsvGoesOn ==
    ASSUME NEW c, IsCsv(c), CsvLoaded(c), c.cursor <= CsvRows(c), ~CsvEof(c)
    PROVE  /\ CsvEnd(c) \in c.cursor + 1 .. CsvRows(c) /\ c.cursor \in Nat
           /\ IsCsv(CsvAfterBatch(c)) /\ CsvAfterBatch(c).dataset = c.dataset
           /\ CsvAfterBatch(c).cursor = CsvEnd(c)
  <1>1. c.dataset \in CsvDatasets /\ c.cursor \in Nat
    BY DEF IsCsv, CsvLoaded
  <1>2. CsvRows(c) \in Nat \ {0} /\ RowsPerTick \in Nat \ {0}
    BY <1>1, Files DEF CsvRows
  <1>3. CsvEnd(c) \in c.cursor + 1 .. CsvRows(c) /\ CsvEnd(c) \in Nat
    BY <1>1, <1>2 DEF CsvEnd, CsvEof, Least
  <1> QED
    BY <1>1, <1>3 DEF IsCsv, CsvAfterBatch

-----------------------------------------------------------------------------
(* Records *)

LEMMA LeastOf ==
    ASSUME NEW S \in SUBSET Nat, S # {}
    PROVE  \E m \in S : \A n \in S : m <= n
  <1>1. IsWellFoundedOn(OpToRel(<, Nat), Nat)
    BY NatLessThanWellFounded
  <1>2. PICK m \in S : \A n \in S : ~(<<n, m>> \in OpToRel(<, Nat))
    BY <1>1, WFMin
  <1>3. \A n \in S : ~(n < m)
    BY <1>2 DEF OpToRel
  <1> QED
    BY <1>3

LEMMA UpTo ==
    ASSUME NEW N \in Nat, NEW S, 0 \in S, \A n \in 0 .. N - 1 : n \in S => n + 1 \in S
    PROVE  \A n \in 0 .. N : n \in S
  <1> DEFINE without == {n \in 0 .. N : n \notin S}
  <1>1. SUFFICES ASSUME without # {} PROVE FALSE
    OBVIOUS
  <1>2. without \in SUBSET Nat
    OBVIOUS
  <1> HIDE DEF without
  <1>3. PICK n \in without : \A m \in without : n <= m
    BY <1>1, <1>2, LeastOf
  <1> QED
    BY <1>3 DEF without

\* The records a + 1 to a + n of R, each once, in the order of Sooner.
IsBatch(R, f, a, n) ==
    /\ f \in [1 .. n -> a + 1 .. a + n]
    /\ \A v \in a + 1 .. a + n : \E k \in 1 .. n : f[k] = v
    /\ \A i, j \in 1 .. n : i < j => Sooner(R, f[i], f[j])

LEMMA Elements ==
    ASSUME NEW S, NEW s \in Seq(S)
    PROVE  \A i \in 1 .. Len(s) : s[i] \in S
  OBVIOUS

LEMMA SoonerOrders ==
    ASSUME NEW R \in Seq([time : Int, actor : Int])
    PROVE  /\ \A i, j \in 1 .. Len(R) : i # j => Sooner(R, i, j) \/ Sooner(R, j, i)
           /\ \A i, j, k \in 1 .. Len(R) : Sooner(R, i, j) /\ Sooner(R, j, k) => Sooner(R, i, k)
  <1>1. ASSUME NEW i \in 1 .. Len(R) PROVE R[i].time \in Int /\ R[i].actor \in Int
    <2>1. R[i] \in [time : Int, actor : Int]
      BY Elements
    <2> QED
      BY <2>1
  <1>2. ASSUME NEW i \in 1 .. Len(R), NEW j \in 1 .. Len(R), i # j
        PROVE  Sooner(R, i, j) \/ Sooner(R, j, i)
    <2>1. R[i].time \in Int /\ R[i].actor \in Int /\ R[j].time \in Int /\ R[j].actor \in Int
      BY <1>1
    <2> QED
      BY <1>2, <2>1 DEF Sooner
  <1>3. ASSUME NEW i \in 1 .. Len(R), NEW j \in 1 .. Len(R), NEW k \in 1 .. Len(R),
               Sooner(R, i, j), Sooner(R, j, k)
        PROVE  Sooner(R, i, k)
    <2>1. /\ R[i].time \in Int /\ R[i].actor \in Int /\ R[j].time \in Int /\ R[j].actor \in Int
          /\ R[k].time \in Int /\ R[k].actor \in Int
      BY <1>1
    <2>2. /\ R[i].time < R[j].time
             \/ (R[i].time = R[j].time /\ (R[i].actor < R[j].actor \/ (R[i].actor = R[j].actor /\ i < j)))
          /\ R[j].time < R[k].time
             \/ (R[j].time = R[k].time /\ (R[j].actor < R[k].actor \/ (R[j].actor = R[k].actor /\ j < k)))
      BY <1>3 DEF Sooner
    <2>3. R[i].time < R[k].time
          \/ (R[i].time = R[k].time /\ (R[i].actor < R[k].actor \/ (R[i].actor = R[k].actor /\ i < k)))
      <3>1. PICK t1, t2, t3, a1, a2, a3 \in Int :
              /\ t1 = R[i].time /\ t2 = R[j].time /\ t3 = R[k].time
              /\ a1 = R[i].actor /\ a2 = R[j].actor /\ a3 = R[k].actor
        BY <2>1
      <3>2. /\ t1 < t2 \/ (t1 = t2 /\ (a1 < a2 \/ (a1 = a2 /\ i < j)))
            /\ t2 < t3 \/ (t2 = t3 /\ (a2 < a3 \/ (a2 = a3 /\ j < k)))
        BY <2>2, <3>1, Zenon
      <3>3. i \in Int /\ j \in Int /\ k \in Int
        OBVIOUS
      <3>4. t1 < t3 \/ (t1 = t3 /\ (a1 < a3 \/ (a1 = a3 /\ i < k)))
        BY <3>2, <3>3
      <3> QED
        BY <3>1, <3>4, Zenon
    <2> QED
      BY <2>3 DEF Sooner
  <1> QED
    BY <1>2, <1>3

\* One more record finds its place among those that are in order.
LEMMA Inserted ==
    ASSUME NEW R \in Seq([time : Int, actor : Int]), NEW a \in Nat, NEW n \in Nat, NEW f,
           a + n + 1 <= Len(R), IsBatch(R, f, a, n)
    PROVE  \E g : IsBatch(R, g, a, n + 1)
  <1> DEFINE new == a + n + 1
             later == {k \in 1 .. n + 1 : k = n + 1 \/ Sooner(R, new, f[k])}
  <1>1. later \in SUBSET Nat /\ later # {}
    <2>1. n + 1 \in later
      OBVIOUS
    <2>2. \A k \in later : k \in Nat
      OBVIOUS
    <2> HIDE DEF later
    <2> QED
      BY <2>1, <2>2
  <1>2. PICK p \in later : \A k \in later : p <= k
    BY <1>1, LeastOf
  <1>3. p \in 1 .. n + 1 /\ (p # n + 1 => Sooner(R, new, f[p]))
    OBVIOUS
  <1>4. \A k \in 1 .. n : f[k] \in a + 1 .. a + n /\ f[k] \in 1 .. Len(R) /\ f[k] # new
    <2>1. \A k \in 1 .. n : f[k] \in a + 1 .. a + n
      BY DEF IsBatch
    <2>2. new = a + n + 1 /\ new <= Len(R) /\ Len(R) \in Nat
      OBVIOUS
    <2> HIDE DEF new, later
    <2>3. \A v \in a + 1 .. a + n : v \in 1 .. Len(R) /\ v # new
      BY <2>2
    <2> QED
      BY <2>1, <2>3
  <1>5. Len(R) \in Nat /\ new \in 1 .. Len(R)
    OBVIOUS
  <1>6. \A k \in 1 .. n : k < p => Sooner(R, f[k], new)
    <2> TAKE k \in 1 .. n
    <2>1. HAVE k < p
    <2>2. k \notin later
      BY <1>2, <1>3, <2>1
    <2>3. ~Sooner(R, new, f[k])
      BY <2>2
    <2> QED
      BY <1>4, <1>5, <2>3, SoonerOrders
  <1>7. \A k \in 1 .. n : k >= p => Sooner(R, new, f[k])
    <2> TAKE k \in 1 .. n
    <2>1. HAVE k >= p
    <2>2. p \in 1 .. n /\ Sooner(R, new, f[p])
      BY <1>3, <2>1
    <2>3. CASE k = p
      BY <2>2, <2>3
    <2>4. CASE p < k
      <3>1. Sooner(R, f[p], f[k])
        BY <2>2, <2>4 DEF IsBatch
      <3> QED
        BY <1>4, <1>5, <2>2, <3>1, SoonerOrders
    <2> QED
      BY <1>3, <2>1, <2>3, <2>4
  <1> HIDE DEF new, later
  <1> DEFINE g == [k \in 1 .. n + 1 |-> IF k < p THEN f[k] ELSE IF k = p THEN new ELSE f[k - 1]]
  <1>8. new = a + n + 1
    BY DEF new
  <1>9. g \in [1 .. n + 1 -> a + 1 .. a + (n + 1)]
    <2>1. ASSUME NEW k \in 1 .. n + 1
          PROVE  (IF k < p THEN f[k] ELSE IF k = p THEN new ELSE f[k - 1]) \in a + 1 .. a + (n + 1)
      <3>1. CASE k < p
        <4>1. k \in 1 .. n
          BY <1>3, <3>1
        <4>2. f[k] \in a + 1 .. a + n
          BY <1>4, <4>1
        <4> QED
          BY <3>1, <4>2
      <3>2. CASE k = p
        BY <1>8, <3>2
      <3>3. CASE k > p
        <4>1. k - 1 \in 1 .. n
          BY <1>3, <3>3
        <4>2. f[k - 1] \in a + 1 .. a + n
          BY <1>4, <4>1
        <4>3. f[k - 1] \in a + 1 .. a + (n + 1)
          BY <4>2
        <4>4. ~(k < p) /\ k # p
          BY <1>3, <3>3
        <4> QED
          BY <4>3, <4>4
      <3> QED
        BY <1>3, <3>1, <3>2, <3>3
    <2> QED
      BY <2>1
  <1>10. \A v \in a + 1 .. a + (n + 1) : \E k \in 1 .. n + 1 : g[k] = v
    <2> TAKE v \in a + 1 .. a + (n + 1)
    <2>1. CASE v = new
      BY <1>3, <2>1
    <2>2. CASE v \in a + 1 .. a + n
      <3>1. PICK k \in 1 .. n : f[k] = v
        BY <2>2 DEF IsBatch
      <3>2. CASE k < p
        BY <1>3, <3>1, <3>2
      <3>3. CASE k >= p
        <4>1. k + 1 \in 1 .. n + 1 /\ ~(k + 1 < p) /\ k + 1 # p /\ (k + 1) - 1 = k
          BY <1>3, <3>3
        <4> QED
          BY <3>1, <4>1
      <3> QED
        BY <1>3, <3>2, <3>3
    <2> QED
      BY <1>8, <2>1, <2>2
  <1>11. ASSUME NEW i \in 1 .. n + 1, NEW j \in 1 .. n + 1, i < j
         PROVE  Sooner(R, g[i], g[j])
    <2>1. /\ g[i] = (IF i < p THEN f[i] ELSE IF i = p THEN new ELSE f[i - 1])
          /\ g[j] = (IF j < p THEN f[j] ELSE IF j = p THEN new ELSE f[j - 1])
      OBVIOUS
    <2>2. \A k, m \in 1 .. n : k < m => Sooner(R, f[k], f[m])
      BY DEF IsBatch
    <2> HIDE DEF g
    <2>3. CASE j < p
      <3>1. i \in 1 .. n /\ j \in 1 .. n /\ i < p
        BY <1>3, <1>11, <2>3
      <3> QED
        BY <1>11, <2>1, <2>2, <2>3, <3>1
    <2>4. CASE j = p
      <3>1. i \in 1 .. n /\ i < p /\ ~(j < p)
        BY <1>3, <1>11, <2>4
      <3> QED
        BY <1>6, <2>1, <2>4, <3>1
    <2>5. CASE j > p
      <3>1. j - 1 \in 1 .. n /\ j - 1 >= p /\ ~(j < p) /\ j # p
        BY <1>3, <2>5
      <3>2. CASE i < p
        <4>1. i \in 1 .. n /\ i < j - 1
          BY <1>3, <3>1, <3>2
        <4> QED
          BY <2>1, <2>2, <3>1, <3>2, <4>1
      <3>3. CASE i = p
        <4>1. ~(i < p)
          BY <1>3, <3>3
        <4> QED
          BY <1>7, <2>1, <3>1, <3>3, <4>1
      <3>4. CASE i > p
        <4>1. i - 1 \in 1 .. n /\ ~(i < p) /\ i # p /\ i - 1 < j - 1
          BY <1>3, <1>11, <3>4
        <4> QED
          BY <2>1, <2>2, <3>1, <4>1
      <3> QED
        BY <1>3, <3>2, <3>3, <3>4
    <2> QED
      BY <1>3, <2>3, <2>4, <2>5
  <1> HIDE DEF g
  <1>12. \A i, j \in 1 .. n + 1 : i < j => Sooner(R, g[i], g[j])
    BY <1>11
  <1>13. IsBatch(R, g, a, n + 1)
    BY <1>9, <1>10, <1>12 DEF IsBatch
  <1> QED
    BY <1>13

\* A batch has an order, whatever times and participants its records share.
LEMMA BatchExists ==
    ASSUME NEW R \in Seq([time : Int, actor : Int]), NEW a \in Nat, NEW N \in Nat, a + N <= Len(R)
    PROVE  \E f : IsBatch(R, f, a, N)
  <1> DEFINE S == {n \in 0 .. N : \E f : IsBatch(R, f, a, n)}
  <1>1. 0 \in S
    <2>1. PICK f : f = [k \in 1 .. 0 |-> a]
      OBVIOUS
    <2>2. IsBatch(R, f, a, 0)
      BY <2>1 DEF IsBatch
    <2>3. \E g : IsBatch(R, g, a, 0)
      BY <2>2, Zenon
    <2> QED
      BY <2>3
  <1>2. ASSUME NEW n \in 0 .. N - 1, n \in S PROVE n + 1 \in S
    <2>1. PICK f : IsBatch(R, f, a, n)
      BY <1>2
    <2>2. n \in Nat /\ a + n + 1 <= Len(R) /\ n + 1 \in 0 .. N
      OBVIOUS
    <2>3. \E g : IsBatch(R, g, a, n + 1)
      BY <2>1, <2>2, Inserted
    <2> QED
      BY <2>2, <2>3
  <1> HIDE DEF S
  <1>3. \A n \in 0 .. N : n \in S
    BY <1>1, <1>2, UpTo
  <1>4. N \in S
    BY <1>3
  <1> QED
    BY <1>4 DEF S

LEMMA CsvBatchFits ==
    ASSUME NEW c, IsCsv(c), CsvLoaded(c), c.cursor <= CsvRows(c), ~CsvEof(c)
    PROVE  IsBatch(CsvRecords[c.dataset], CsvBatch(c), c.cursor, CsvEnd(c) - c.cursor)
  <1> DEFINE R == CsvRecords[c.dataset]
             a == c.cursor
             e == CsvEnd(c)
  <1>1. c.dataset \in CsvDatasets
    BY DEF IsCsv, CsvLoaded
  <1>2. R \in Seq([time : Int, actor : Int]) /\ Len(R) \in Nat \ {0} /\ CsvRows(c) = Len(R)
    BY <1>1, Files DEF CsvRows
  <1>3. a \in Nat /\ e \in a + 1 .. Len(R)
    BY <1>2, CsvGoesOn
  <1> DEFINE Fits(f) == /\ ToSet(f) = (a + 1) .. e
                        /\ \A i, j \in DOMAIN f : i < j => Sooner(R, f[i], f[j])
  <1>4. CsvBatch(c) = CHOOSE f \in [1 .. (e - a) -> (a + 1) .. e] : Fits(f)
    BY DEF CsvBatch
  <1> HIDE DEF R, a, e
  <1>5. e - a \in Nat /\ a + (e - a) = e /\ a + (e - a) <= Len(R)
    BY <1>2, <1>3
  <1>6. PICK f : IsBatch(R, f, a, e - a)
    BY <1>2, <1>3, <1>5, BatchExists
  <1>7. f \in [1 .. (e - a) -> (a + 1) .. e] /\ Fits(f)
    BY <1>5, <1>6 DEF IsBatch, ToSet
  <1> DEFINE b == CHOOSE h \in [1 .. (e - a) -> (a + 1) .. e] : Fits(h)
  <1>8. b \in [1 .. (e - a) -> (a + 1) .. e] /\ Fits(b)
    <2> HIDE DEF Fits
    <2> QED
      BY <1>7
  <1> HIDE DEF b
  <1>9. IsBatch(R, b, a, e - a)
    BY <1>5, <1>8 DEF IsBatch, ToSet
  <1> QED
    BY <1>4, <1>9 DEF R, a, e, b

-----------------------------------------------------------------------------
(* The kinds of steps *)

\* The comparison is about to load.
LoadIsNext == ~Idle /\ Head(script)[1] = "load"

FreshSource(s) ==
    /\ SourceFits(s) /\ ~Dangling(s)
    /\ CsvLoaded(s.csv) => s.csv.cursor = 0
    /\ s.kernel => ~s.lobster.started
Renews ==
    /\ FreshSource(source') /\ torn' = FALSE /\ UNCHANGED counters
    /\ \E market : runtime' = NewRuntime(market)
Polls ==
    /\ Shows(runtime) /\ UNCHANGED <<scenarioCounter, torn>>
    /\ \/ source' = source
       \/ /\ SourceFits(source') /\ Display(source') /\ source'.csv = source.csv
          /\ Display(source) /\ ~CsvLoaded(source.csv)
Ticks ==
    /\ ~Dangling(source) /\ UNCHANGED scenarioCounter
    /\ IF Replaying(source)
       THEN ~AtEof(source) /\ source' = AfterBatch /\ runtime'.applied = runtime.applied \o Batch
       ELSE source' = source /\ runtime'.applied = runtime.applied
    /\ IsRuntime(runtime') /\ incidentCounter' \in Nat
    /\ runtime'.tick = runtime.tick + 1 /\ runtime'.scenario = runtime.scenario
    /\ torn' = TRUE \/ (torn' = torn /\ runtime'.resting \in RestingAfter(runtime.tick + 1))
    /\ Numbered(runtime, incidentCounter, scenarioCounter) =>
         Numbered(runtime', incidentCounter', scenarioCounter)
Launches ==
    /\ \E family \in Families : LaunchScenario(family)
    /\ torn' = TRUE \/ torn' = torn
Zeroes ==
    /\ UNCHANGED <<source, runtime, torn>>
    /\ scenarioCounter' = 0 /\ incidentCounter' = 0
    /\ LoadIsNext'
\* A load or a reset threw, or the kernel ticks or launches without a data set.
Breaks ==
    /\ torn' = TRUE /\ UNCHANGED incidentCounter
    /\ scenarioCounter' \in {scenarioCounter, scenarioCounter + 1}
    /\ SourceFits(source') /\ IsRuntime(runtime') /\ runtime'.applied = runtime.applied
    /\ Replaying(source') /\ ~Dangling(source') =>
         CsvLoaded(source.csv) /\ source'.csv = source.csv

LEMMA Halted ==
    ASSUME NEW r, NEW b, IsRuntime(r)
    PROVE  LET q == [r EXCEPT !.running = b]
           IN  /\ IsRuntime(q) /\ q.tick = r.tick /\ q.scenario = r.scenario /\ q.resting = r.resting
               /\ q.incidents = r.incidents /\ q.incidentKeys = r.incidentKeys /\ q.applied = r.applied
  BY DEF IsRuntime

\* Publishing the runtime with another flag is publishing it.
LEMMA BuildPolls ==
    ASSUME NEW b, NEW s, Shape, UNCHANGED <<source, scenarioCounter, torn>>,
           BuildState(s, [runtime EXCEPT !.running = b]) \/ BuildState(s, runtime)
    PROVE  Polls
  <1> DEFINE q == [runtime EXCEPT !.running = b]
  <1>1. /\ IsRuntime(runtime) /\ incidentCounter \in Nat /\ IsFiniteSet(Detectors)
    BY ArenaAssumption DEF Shape
  <1>2. CASE BuildState(s, runtime)
    BY <1>1, <1>2, BuildShows DEF Polls
  <1>3. CASE BuildState(s, q)
    <2>1. /\ IsRuntime(q) /\ q.tick = runtime.tick /\ q.scenario = runtime.scenario
          /\ q.resting = runtime.resting /\ q.incidents = runtime.incidents
          /\ q.incidentKeys = runtime.incidentKeys /\ q.applied = runtime.applied
      BY <1>1, Halted
    <2> HIDE DEF q
    <2>2. Shows(q)
      BY <1>1, <1>3, <2>1, BuildShows
    <2>3. Numbered(runtime, incidentCounter, scenarioCounter) =>
            Numbered(q, incidentCounter, scenarioCounter)
      BY <2>1 DEF Numbered
    <2>4. Shows(runtime)
      BY <2>1, <2>2, <2>3 DEF Shows
    <2> QED
      BY <2>4 DEF Polls
  <1> QED
    BY <1>2, <1>3

LEMMA StandsPolls ==
    ASSUME Shape, UNCHANGED <<source, incidentCounter, scenarioCounter, torn>>,
           runtime' = runtime \/ runtime' = Stopped
    PROVE  Polls
  <1>1. IsRuntime(runtime) /\ incidentCounter' \in Nat
    BY DEF Shape
  <1>2. PICK q : q = runtime'
    OBVIOUS
  <1>3. /\ IsRuntime(q) /\ q.tick = runtime.tick /\ q.scenario = runtime.scenario
        /\ q.resting = runtime.resting /\ q.incidents = runtime.incidents
        /\ q.incidentKeys = runtime.incidentKeys /\ q.applied = runtime.applied
    <2>1. CASE runtime' = runtime
      BY <1>1, <1>2, <2>1
    <2>2. CASE runtime' = Stopped
      <3>1. q = [runtime EXCEPT !.running = FALSE]
        BY <1>2, <2>2 DEF Stopped
      <3> QED
        BY <1>1, <3>1, Halted
    <2> QED
      BY <2>1, <2>2
  <1>4. Numbered(runtime, incidentCounter, scenarioCounter) =>
          Numbered(q, incidentCounter, scenarioCounter)
    BY <1>3 DEF Numbered
  <1>5. Shows(runtime)
    BY <1>1, <1>2, <1>3, <1>4 DEF Shows
  <1> QED
    BY <1>5 DEF Polls

LEMMA DisplayPolls ==
    ASSUME NEW l, Shape, Display(source), IsLobster(l), LobsterLoaded(l), SetLobster(l)
    PROVE  Polls
  <1>1. IsRuntime(runtime) /\ incidentCounter' \in Nat /\ SourceFits(source)
    BY DEF Shape, SetLobster, counters
  <1>2. Shows(runtime)
    BY <1>1 DEF Shows, SetLobster, counters
  <1>3. /\ IsSource(source) /\ ~source.kernel /\ ~CsvLoaded(source.csv)
    BY <1>1 DEF SourceFits, Display
  <1>4. /\ IsSource(source') /\ source'.lobster = l /\ source'.csv = source.csv
        /\ source'.kernel = source.kernel
    BY <1>3 DEF SetLobster, IsSource
  <1>5. SourceFits(source') /\ Display(source')
    BY <1>3, <1>4 DEF SourceFits, Display
  <1> QED
    BY <1>2, <1>3, <1>4, <1>5 DEF Polls, SetLobster, counters

LEMMA ResetRenews ==
    ASSUME NEW s, NEW market, FreshSource(s), ResetRuntime(s, market)
    PROVE  Renews
  <1>1. source' = s /\ BuildState(s, NewRuntime(market)) /\ torn' = FALSE /\ UNCHANGED scenarioCounter
    BY DEF ResetRuntime
  <1>2. NewRuntime(market).scenario = NoScenario
    BY DEF NewRuntime
  <1>3. runtime' = NewRuntime(market) /\ UNCHANGED incidentCounter
    BY <1>1, <1>2 DEF BuildState
  <1>4. \E m : runtime' = NewRuntime(m)
    BY <1>3, Zenon
  <1> QED
    BY <1>1, <1>3, <1>4 DEF Renews, counters

LEMMA OpenedIsFresh ==
    ASSUME NEW type, NEW d \in Datasets
    PROVE  FreshSource(OpenedSource(type, d))
  <1> DEFINE s == OpenedSource(type, d)
  <1>1. CASE d \in CsvDatasets
    <2>1. s = [type |-> type, kernel |-> FALSE, csv |-> CsvOpened(d), lobster |-> LobsterClosed]
      BY <1>1 DEF OpenedSource
    <2> HIDE DEF s
    <2>2. /\ DOMAIN s = {"type", "kernel", "csv", "lobster"} /\ ~s.kernel
          /\ s.csv = CsvOpened(d) /\ s.lobster = LobsterClosed
      BY <2>1
    <2>3. IsCsv(s.csv) /\ s.csv.dataset = d /\ s.csv.cursor = 0
      BY <1>1, <2>2 DEF IsCsv, CsvOpened
    <2>4. CsvRows(s.csv) \in Nat
      BY <1>1, <2>3, Files DEF CsvRows
    <2> QED
      BY <2>2, <2>3, <2>4, ClosedFits DEF FreshSource, SourceFits, IsSource, Dangling, s
  <1>2. CASE d \notin CsvDatasets
    <2>1. s = [type |-> type, kernel |-> TRUE, csv |-> CsvClosed, lobster |-> LobsterOpened(d)]
      BY <1>2 DEF OpenedSource
    <2>2. d \in LobsterDatasets
      BY <1>2 DEF Datasets
    <2> HIDE DEF s
    <2>3. /\ DOMAIN s = {"type", "kernel", "csv", "lobster"} /\ s.kernel
          /\ s.csv = CsvClosed /\ s.lobster = LobsterOpened(d)
      BY <2>1
    <2>4. IsLobster(s.lobster) /\ LobsterLoaded(s.lobster) /\ InFile(s.lobster) /\ ~s.lobster.started
      BY <2>2, <2>3, OpenedFits
    <2> QED
      BY <2>3, <2>4, ClosedFits DEF FreshSource, SourceFits, IsSource, Dangling, s
  <1> QED
    BY <1>1, <1>2

LEMMA LoadFailsBreaks ==
    ASSUME NEW type, NEW d, Shape, LoadFails(type, d)
    PROVE  Breaks
  <1>1. PICK s \in FailedSources(type, d) : Tear(s)
    BY DEF LoadFails
  <1>2. SourceFits(source) /\ IsSource(source) /\ IsRuntime(runtime)
    BY DEF Shape, SourceFits
  <1>3. PICK q : q = runtime'
    OBVIOUS
  <1>4. q = [runtime EXCEPT !.running = FALSE]
    BY <1>3 DEF LoadFails, Stopped
  <1>5. IsRuntime(q) /\ q.applied = runtime.applied
    BY <1>2, <1>4, Halted
  <1>6. CASE s = [source EXCEPT !.type = type, !.kernel = FALSE, !.lobster = LobsterClosed]
    <2>1. /\ IsSource(s) /\ ~s.kernel /\ s.csv = source.csv /\ s.lobster = LobsterClosed
      BY <1>2, <1>6, ClosedFits DEF IsSource
    <2>2. SourceFits(s) /\ (Replaying(s) => CsvLoaded(source.csv))
      BY <1>2, <2>1, ClosedFits DEF SourceFits, Replaying
    <2> QED
      BY <1>1, <1>3, <1>5, <2>1, <2>2 DEF Breaks, Tear, counters
  <1>7. ASSUME NEW l \in {source.lobster, LobsterClosed}, NEW t,
               s = [source EXCEPT !.type = t, !.kernel = FALSE, !.csv = CsvClosed, !.lobster = l]
        PROVE  Breaks
    <2>1. IsLobster(l)
      BY <1>2, ClosedFits DEF IsSource
    <2>2. /\ IsSource(s) /\ ~s.kernel /\ s.csv = CsvClosed /\ s.lobster = l
      BY <1>2, <1>7, <2>1, ClosedFits DEF IsSource
    <2>3. SourceFits(s) /\ ~Replaying(s)
      BY <1>2, <2>2, ClosedFits DEF SourceFits, Replaying
    <2> QED
      BY <1>1, <1>3, <1>5, <2>2, <2>3 DEF Breaks, Tear, counters
  <1>8. CASE d \in CsvDatasets
    BY <1>1, <1>6, <1>8 DEF FailedSources
  <1>9. CASE d \notin CsvDatasets
    <2>1. PICK l \in {source.lobster, LobsterClosed} :
            s = [source EXCEPT !.type = IF type = "historical" THEN type ELSE @,
                               !.kernel = FALSE, !.csv = CsvClosed, !.lobster = l]
      BY <1>1, <1>9 DEF FailedSources
    <2>2. \E t : s = [source EXCEPT !.type = t, !.kernel = FALSE, !.csv = CsvClosed, !.lobster = l]
      BY <2>1
    <2> QED
      BY <1>7, <2>2
  <1> QED
    BY <1>8, <1>9

LEMMA LoadKinds ==
    ASSUME NEW type, NEW d \in Datasets, Shape, Load(type, d) \/ LoadFails(type, d)
    PROVE  Renews \/ Breaks
  <1>1. CASE Load(type, d)
    BY <1>1, OpenedIsFresh, ResetRenews DEF Load
  <1>2. CASE LoadFails(type, d)
    BY <1>2, LoadFailsBreaks
  <1> QED
    BY <1>1, <1>2

LEMMA ResetKinds ==
    ASSUME Shape, Reset \/ ResetFails
    PROVE  Renews \/ Polls \/ Breaks
  <1>1. SourceFits(source) /\ IsSource(source) /\ IsLobster(source.lobster) /\ IsCsv(source.csv)
    BY DEF Shape, SourceFits, IsSource
  <1> DEFINE l == LobsterOpened(source.lobster.dataset)
  <1>2. ASSUME LobsterLoaded(source.lobster)
        PROVE  IsLobster(l) /\ LobsterLoaded(l) /\ InFile(l) /\ ~l.started
    <2>1. source.lobster.dataset \in LobsterDatasets
      BY <1>1, <1>2 DEF IsLobster, LobsterLoaded
    <2> QED
      BY <2>1, OpenedFits
  <1> HIDE DEF l
  <1>3. ASSUME Display(source), SetLobster(l) PROVE Polls
    BY <1>2, <1>3, DisplayPolls DEF Display
  <1>4. ASSUME CsvLoaded(source.csv), NEW s, s = [source EXCEPT !.csv.cursor = 0]
        PROVE  FreshSource(s)
    <2>1. /\ DOMAIN s = {"type", "kernel", "csv", "lobster"} /\ s.kernel = source.kernel
          /\ s.csv = [source.csv EXCEPT !.cursor = 0] /\ s.lobster = source.lobster
      BY <1>1, <1>4 DEF IsSource
    <2>2. IsCsv(s.csv) /\ s.csv.dataset = source.csv.dataset /\ s.csv.cursor = 0
      BY <1>1, <2>1 DEF IsCsv
    <2>3. CsvRows(s.csv) \in Nat
      BY <1>1, <1>4, <2>2, Files DEF CsvRows, CsvLoaded, IsCsv
    <2>4. ~source.kernel /\ ~LobsterLoaded(source.lobster)
      BY <1>1, <1>4 DEF SourceFits
    <2> QED
      BY <1>1, <2>1, <2>2, <2>3, <2>4 DEF FreshSource, SourceFits, IsSource, Dangling
  <1>5. ASSUME source.kernel, ~Dangling(source), NEW s, s = [source EXCEPT !.lobster = l]
        PROVE  FreshSource(s)
    <2>1. LobsterLoaded(source.lobster)
      BY <1>5 DEF Dangling
    <2>2. /\ DOMAIN s = {"type", "kernel", "csv", "lobster"} /\ s.kernel = source.kernel
          /\ s.csv = source.csv /\ s.lobster = l
      BY <1>1, <1>5 DEF IsSource
    <2>3. ~CsvLoaded(source.csv)
      BY <1>1, <1>5 DEF SourceFits
    <2> QED
      BY <1>1, <1>2, <1>5, <2>1, <2>2, <2>3 DEF FreshSource, SourceFits, IsSource, Dangling
  <1>6. ASSUME ~LobsterLoaded(source.lobster), ~Replaying(source) PROVE FreshSource(source)
    BY <1>1, <1>6 DEF FreshSource, Replaying, Dangling
  <1>7. CASE Reset
    <2>1. CASE Display(source) /\ SetLobster(l)
      BY <1>3, <2>1
    <2>2. CASE CsvLoaded(source.csv) /\ ResetRuntime([source EXCEPT !.csv.cursor = 0], source.csv.dataset)
      BY <1>4, <2>2, ResetRenews
    <2>3. CASE /\ source.kernel /\ ~Dangling(source)
               /\ ResetRuntime([source EXCEPT !.lobster = l], source.lobster.dataset)
      BY <1>5, <2>3, ResetRenews
    <2>4. CASE ~LobsterLoaded(source.lobster) /\ ~Replaying(source) /\ ResetRuntime(source, Synthetic)
      BY <1>6, <2>4, ResetRenews
    <2> QED
      BY <1>7, <2>1, <2>2, <2>3, <2>4 DEF Reset, l
  <1>8. CASE ResetFails
    <2>1. PICK s : s = source'
      OBVIOUS
    <2>2. /\ s = [source EXCEPT !.lobster = LobsterClosed] /\ torn' = TRUE /\ UNCHANGED counters
          /\ UNCHANGED runtime /\ LobsterLoaded(source.lobster)
      BY <1>8, <2>1 DEF ResetFails, Tear
    <2>3. /\ IsSource(s) /\ s.kernel = source.kernel /\ s.csv = source.csv /\ s.lobster = LobsterClosed
      BY <1>1, <2>2, ClosedFits DEF IsSource
    <2>4. ~CsvLoaded(source.csv)
      BY <1>1, <2>2 DEF SourceFits
    <2>5. SourceFits(s) /\ ~(Replaying(s) /\ ~Dangling(s))
      BY <2>3, <2>4, ClosedFits DEF SourceFits, Replaying, Dangling
    <2>6. IsRuntime(runtime') /\ runtime'.applied = runtime.applied
      BY <2>2 DEF Shape
    <2> QED
      BY <2>1, <2>2, <2>5, <2>6 DEF Breaks, counters
  <1> QED
    BY <1>7, <1>8

\* One batch of the source that is replayed.
LEMMA BatchGoesOn ==
    ASSUME SourceFits(source), Replaying(source), ~Dangling(source), ~AtEof(source)
    PROVE  /\ Batch \in Seq(Nat)
           /\ SourceFits(AfterBatch) /\ ~Dangling(AfterBatch)
           /\ AfterBatch.kernel = source.kernel /\ AfterBatch.type = source.type
           /\ AfterBatch.csv.dataset = source.csv.dataset
           /\ AfterBatch.lobster.dataset = source.lobster.dataset
  <1>1. IsSource(source) /\ IsLobster(source.lobster) /\ IsCsv(source.csv)
    BY DEF SourceFits, IsSource
  <1>2. CASE CsvLoaded(source.csv)
    <2> DEFINE c == source.csv
               after == CsvAfterBatch(c)
    <2>1. ~CsvEof(c) /\ c.cursor <= CsvRows(c) /\ ~source.kernel /\ ~LobsterLoaded(source.lobster)
      BY <1>2 DEF SourceFits, AtEof
    <2>2. /\ CsvEnd(c) \in c.cursor + 1 .. CsvRows(c) /\ c.cursor \in Nat
          /\ IsCsv(after) /\ after.dataset = c.dataset /\ after.cursor = CsvEnd(c)
      BY <1>1, <1>2, <2>1, CsvGoesOn
    <2>3. IsBatch(CsvRecords[c.dataset], CsvBatch(c), c.cursor, CsvEnd(c) - c.cursor)
      BY <1>1, <1>2, <2>1, CsvBatchFits
    <2>4. Batch \in Seq(Nat)
      <3>1. PICK a, n, b : a = c.cursor /\ n = CsvEnd(c) - c.cursor /\ b = CsvBatch(c)
        OBVIOUS
      <3>2. c.dataset \in CsvDatasets
        BY <1>1, <1>2 DEF IsCsv, CsvLoaded
      <3>3. CsvRows(c) \in Nat
        BY <3>2, Files DEF CsvRows
      <3>4. a \in Nat /\ n \in Nat
        BY <2>2, <3>1, <3>3
      <3>5. b \in [1 .. n -> a + 1 .. a + n]
        BY <2>3, <3>1 DEF IsBatch
      <3>6. b \in Seq(Nat)
        BY <3>4, <3>5
      <3> QED
        BY <1>2, <3>1, <3>6 DEF Batch
    <2> HIDE DEF c, after
    <2>5. AfterBatch = [source EXCEPT !.csv = after]
      BY <1>2 DEF AfterBatch, c, after
    <2>6. /\ IsSource(AfterBatch) /\ AfterBatch.csv = after /\ AfterBatch.kernel = source.kernel
          /\ AfterBatch.type = source.type /\ AfterBatch.lobster = source.lobster
      BY <1>1, <2>2, <2>5 DEF IsSource
    <2>7. CsvRows(after) = CsvRows(c) /\ CsvRows(c) \in Nat
      <3>1. c.dataset \in CsvDatasets
        BY <1>1, <1>2 DEF IsCsv, CsvLoaded, c
      <3> QED
        BY <2>2, <3>1, Files DEF CsvRows
    <2>8. SourceFits(AfterBatch) /\ ~Dangling(AfterBatch)
      BY <2>1, <2>2, <2>6, <2>7 DEF SourceFits, Dangling
    <2> QED
      BY <2>2, <2>4, <2>6, <2>8 DEF c
  <1>3. CASE ~CsvLoaded(source.csv)
    <2> DEFINE l == source.lobster
               after == LobsterAfterBatch(l)
    <2>1. ~LobsterEof(l) /\ InFile(l) /\ source.kernel /\ LobsterLoaded(l)
      BY <1>3 DEF SourceFits, AtEof, Replaying, Dangling
    <2>2. /\ KernelFirst(l) = Written(l) + 1 /\ KernelLast(l) \in Written(l) + 1 .. LobsterRows(l)
          /\ Written(l) \in Nat
          /\ IsLobster(after) /\ after.dataset = l.dataset /\ InFile(after) /\ after.started
      BY <1>1, <2>1, LobsterGoesOn
    <2>3. Batch \in Seq(Nat)
      <3>1. PICK w, e : w = Written(l) /\ e = KernelLast(l)
        OBVIOUS
      <3>2. l.dataset \in LobsterDatasets
        BY <1>1, <2>1 DEF IsLobster, LobsterLoaded
      <3>3. LobsterRows(l) \in Nat
        BY <3>2, Files DEF LobsterRows
      <3>4. w \in Nat /\ e \in Nat /\ e > w /\ KernelFirst(l) = w + 1
        BY <2>2, <3>1, <3>3
      <3>5. Batch = [k \in 1 .. (e - (w + 1) + 1) |-> (w + 1) + k - 1]
        BY <1>3, <3>1, <3>4 DEF Batch, LobsterBatch
      <3> QED
        BY <3>4, <3>5
    <2> HIDE DEF l, after
    <2>4. AfterBatch = [source EXCEPT !.lobster = after]
      BY <1>3 DEF AfterBatch, l, after
    <2>5. /\ IsSource(AfterBatch) /\ AfterBatch.csv = source.csv /\ AfterBatch.kernel = source.kernel
          /\ AfterBatch.type = source.type /\ AfterBatch.lobster = after
      BY <1>1, <2>2, <2>4 DEF IsSource
    <2>6. LobsterLoaded(after)
      BY <2>1, <2>2 DEF LobsterLoaded
    <2>7. SourceFits(AfterBatch) /\ ~Dangling(AfterBatch)
      BY <1>3, <2>1, <2>2, <2>5, <2>6 DEF SourceFits, Dangling
    <2> QED
      BY <2>2, <2>3, <2>5, <2>7 DEF l
  <1> QED
    BY <1>2, <1>3

\* What is numbered depends on three parts of a runtime.
LEMMA NumberedAlike ==
    ASSUME NEW r, NEW q, q.scenario = r.scenario, q.incidents = r.incidents, q.incidentKeys = r.incidentKeys,
           NEW i, NEW j, Numbered(r, i, j)
    PROVE  Numbered(q, i, j)
  BY Zenon DEF Numbered

LEMMA Ticked ==
    ASSUME NEW q, Shape, DOMAIN q = DOMAIN runtime, q.tick = runtime.tick + 1, q.scenario = runtime.scenario,
           q.incidents = runtime.incidents, q.incidentKeys = runtime.incidentKeys, q.applied \in Seq(Nat)
    PROVE  /\ IsRuntime(q)
           /\ Numbered(runtime, incidentCounter, scenarioCounter) =>
                Numbered(q, incidentCounter, scenarioCounter)
  <1>1. IsRuntime(q)
    BY DEF IsRuntime, Shape
  <1>2. Numbered(runtime, incidentCounter, scenarioCounter) =>
          Numbered(q, incidentCounter, scenarioCounter)
    BY NumberedAlike
  <1> QED
    BY <1>1, <1>2

LEMMA AdvanceKinds ==
    ASSUME Shape, Advance
    PROVE  Ticks \/ Polls \/ Breaks
  <1>1. /\ SourceFits(source) /\ IsRuntime(runtime) /\ incidentCounter \in Nat /\ IsFiniteSet(Detectors)
        /\ runtime.applied \in Seq(Nat)
    BY ArenaAssumption DEF Shape, IsRuntime
  <1>2. UNCHANGED scenarioCounter
    BY DEF Advance
  <1>3. CASE ReplayTick
    <2>1. PICK resting \in RestingAfter(runtime.tick + 1) :
            BuildState(source', [runtime EXCEPT !.tick = @ + 1, !.applied = @ \o Batch, !.resting = resting,
                                                !.running = @ /\ ~AtEof(source')])
      BY <1>3 DEF ReplayTick
    <2>2. /\ Replaying(source) /\ ~Dangling(source) /\ ~AtEof(source) /\ source' = AfterBatch
          /\ UNCHANGED torn
      BY <1>3 DEF ReplayTick
    <2>3. Batch \in Seq(Nat)
      BY <1>1, <2>2, BatchGoesOn
    <2>4. PICK applied, running : applied = runtime.applied \o Batch
                                  /\ running = (runtime.running /\ ~AtEof(source'))
      OBVIOUS
    <2>5. applied \in Seq(Nat)
      BY <1>1, <2>3, <2>4
    <2>6. PICK q : q = [runtime EXCEPT !.tick = @ + 1, !.applied = applied, !.resting = resting,
                                       !.running = running]
      OBVIOUS
    <2>7. BuildState(source', q)
      BY <2>1, <2>4, <2>6
    <2>8. /\ DOMAIN q = DOMAIN runtime /\ q.tick = runtime.tick + 1 /\ q.scenario = runtime.scenario
          /\ q.resting = resting /\ q.applied = applied /\ q.incidents = runtime.incidents
          /\ q.incidentKeys = runtime.incidentKeys
      BY <1>1, <2>6 DEF IsRuntime
    <2>11. /\ IsRuntime(q)
           /\ Numbered(runtime, incidentCounter, scenarioCounter) =>
                Numbered(q, incidentCounter, scenarioCounter)
      BY <2>5, <2>8, Ticked
    <2>9. PICK s : s = source'
      OBVIOUS
    <2>10. Shows(q)
      BY <1>1, <2>7, <2>11, <2>9, BuildShows
    <2> QED
      BY <1>2, <2>2, <2>4, <2>8, <2>11, <2>10 DEF Shows, Ticks
  <1>4. CASE ReplayOver
    <2>1. UNCHANGED <<source, incidentCounter, scenarioCounter, torn>> /\ runtime' = Stopped
      BY <1>2, <1>4 DEF ReplayOver
    <2> QED
      BY <2>1, StandsPolls
  <1>5. CASE SyntheticTick
    <2>1. PICK resting \in RestingAfter(runtime.tick + 1) :
            BuildState(source, [runtime EXCEPT !.tick = @ + 1, !.resting = resting])
      BY <1>5 DEF SyntheticTick
    <2>2. /\ ~Replaying(source) /\ ~Dangling(source) /\ UNCHANGED <<source, torn>>
      BY <1>5 DEF SyntheticTick, Replaying, Dangling
    <2>3. PICK q : q = [runtime EXCEPT !.tick = @ + 1, !.resting = resting]
      OBVIOUS
    <2>4. /\ DOMAIN q = DOMAIN runtime /\ q.tick = runtime.tick + 1 /\ q.scenario = runtime.scenario
          /\ q.resting = resting /\ q.applied = runtime.applied /\ q.incidents = runtime.incidents
          /\ q.incidentKeys = runtime.incidentKeys
      BY <1>1, <2>3 DEF IsRuntime
    <2>5. IsRuntime(q)
      BY <1>1, <2>4 DEF IsRuntime
    <2>6. Numbered(runtime, incidentCounter, scenarioCounter) =>
            Numbered(q, incidentCounter, scenarioCounter)
      BY <2>4 DEF Numbered
    <2>7. Shows(q)
      BY <1>1, <2>1, <2>3, <2>5, BuildShows
    <2> QED
      BY <1>2, <2>2, <2>4, <2>6, <2>7 DEF Shows, Ticks
  <1>6. CASE AbortedTick
    <2> DEFINE applied == IF Replaying(source) THEN runtime.applied \o Batch ELSE runtime.applied
    <2>1. /\ ~Dangling(source) /\ torn' = TRUE /\ UNCHANGED incidentCounter
          /\ source' = (IF Replaying(source) THEN AfterBatch ELSE source)
          /\ Replaying(source) => ~AtEof(source)
      BY <1>6 DEF AbortedTick
    <2>2. PICK resting : runtime' = [runtime EXCEPT !.tick = @ + 1, !.applied = applied, !.resting = resting]
      BY <1>6 DEF AbortedTick
    <2>3. applied \in Seq(Nat)
      <3>1. CASE Replaying(source)
        <4>1. Batch \in Seq(Nat)
          BY <1>1, <2>1, <3>1, BatchGoesOn
        <4> QED
          BY <1>1, <3>1, <4>1
      <3>2. CASE ~Replaying(source)
        BY <1>1, <3>2
      <3> QED
        BY <3>1, <3>2
    <2>4. PICK q, a : q = runtime' /\ a = applied
      OBVIOUS
    <2> HIDE DEF applied
    <2>5. /\ DOMAIN q = DOMAIN runtime /\ q.tick = runtime.tick + 1 /\ q.scenario = runtime.scenario
          /\ q.resting = resting /\ q.applied = a /\ q.incidents = runtime.incidents
          /\ q.incidentKeys = runtime.incidentKeys
      BY <1>1, <2>2, <2>4 DEF IsRuntime
    <2>6. /\ IsRuntime(q)
          /\ Numbered(runtime, incidentCounter, scenarioCounter) =>
               Numbered(q, incidentCounter, scenarioCounter)
      BY <2>3, <2>4, <2>5, Ticked
    <2>7. Numbered(runtime, incidentCounter, scenarioCounter) =>
            Numbered(runtime', incidentCounter', scenarioCounter)
      BY <1>2, <2>1, <2>4, <2>6
    <2>8. /\ Replaying(source) => runtime'.applied = runtime.applied \o Batch
          /\ ~Replaying(source) => runtime'.applied = runtime.applied
      BY <2>4, <2>5 DEF applied
    <2>9. /\ IsRuntime(runtime') /\ runtime'.tick = runtime.tick + 1
          /\ runtime'.scenario = runtime.scenario /\ incidentCounter' \in Nat
      BY <1>1, <2>1, <2>4, <2>5, <2>6
    <2>10. IF Replaying(source)
           THEN ~AtEof(source) /\ source' = AfterBatch /\ runtime'.applied = runtime.applied \o Batch
           ELSE source' = source /\ runtime'.applied = runtime.applied
      BY <2>1, <2>8
    <2> QED
      BY <1>2, <2>1, <2>7, <2>9, <2>10 DEF Ticks
  <1>7. CASE DanglingTick
    <2>1. /\ Dangling(source) /\ UNCHANGED <<source, incidentCounter, torn>>
          /\ runtime' = [runtime EXCEPT !.tick = @ + 1]
      BY <1>7 DEF DanglingTick
    <2>2. torn = TRUE
      BY <2>1 DEF Shape
    <2>3. PICK q : q = runtime'
      OBVIOUS
    <2>4. q = [runtime EXCEPT !.tick = @ + 1]
      BY <2>1, <2>3
    <2>5. IsRuntime(q) /\ q.applied = runtime.applied
      BY <1>1, <2>4 DEF IsRuntime
    <2> QED
      BY <1>1, <1>2, <2>1, <2>2, <2>3, <2>5 DEF Breaks, counters
  <1> QED
    BY <1>3, <1>4, <1>5, <1>6, <1>7 DEF Advance

LEMMA LobsterPlays ==
    ASSUME NEW l, IsLobster(l), LobsterLoaded(l)
    PROVE  /\ IsLobster(LobsterStarted(l)) /\ LobsterLoaded(LobsterStarted(l))
           /\ IsLobster(LobsterAdvanced(l)) /\ LobsterLoaded(LobsterAdvanced(l))
           /\ IsLobster([l EXCEPT !.running = FALSE]) /\ LobsterLoaded([l EXCEPT !.running = FALSE])
  <1>1. l.dataset \in LobsterDatasets /\ l.position \in Nat
    BY DEF IsLobster, LobsterLoaded
  <1>2. LobsterRows(l) \in Nat \ {0} /\ RowsPerTick \in Nat \ {0}
    BY <1>1, Files DEF LobsterRows
  <1>3. Least(LobsterRows(l), l.position + RowsPerTick) \in Nat
    BY <1>1, <1>2 DEF Least
  <1>4. PICK row \in Nat : row = Least(LobsterRows(l), l.position + RowsPerTick)
    BY <1>3
  <1>5. IsLobster(ReadTo(l, row)) /\ ReadTo(l, row).dataset = l.dataset
    BY ReadsTo
  <1>6. IsLobster(LobsterAdvanced(l)) /\ LobsterLoaded(LobsterAdvanced(l))
    BY <1>4, <1>5 DEF LobsterAdvanced, LobsterLoaded
  <1>7. IsLobster(LobsterStarted(l)) /\ LobsterLoaded(LobsterStarted(l))
    BY DEF LobsterStarted, IsLobster, LobsterLoaded
  <1>8. IsLobster([l EXCEPT !.running = FALSE]) /\ LobsterLoaded([l EXCEPT !.running = FALSE])
    BY DEF IsLobster, LobsterLoaded
  <1> QED
    BY <1>6, <1>7, <1>8

LEMMA StartKinds ==
    ASSUME Shape, StartRunning
    PROVE  Polls
  <1>1. IsLobster(source.lobster)
    BY DEF Shape, SourceFits, IsSource
  <1>2. CASE Display(source) /\ SetLobster(LobsterStarted(source.lobster))
    <2>1. LobsterLoaded(source.lobster)
      BY <1>2 DEF Display
    <2> QED
      BY <1>1, <1>2, <2>1, LobsterPlays, DisplayPolls
  <1>3. CASE /\ BuildState(source, [runtime EXCEPT !.running = TRUE])
             /\ UNCHANGED <<source, scenarioCounter, torn>>
    BY <1>3, BuildPolls
  <1> QED
    BY <1>2, <1>3 DEF StartRunning

LEMMA RequestKinds ==
    ASSUME Shape, Request
    PROVE  Renews \/ Polls \/ Launches \/ Breaks
  <1>1. IsLobster(source.lobster)
    BY DEF Shape, SourceFits, IsSource
  <1>2. CASE State
    <2>1. BuildState(source, runtime) /\ UNCHANGED <<source, scenarioCounter, torn>>
      BY <1>2 DEF State
    <2> QED
      BY <2>1, BuildPolls
  <1>3. CASE Start
    BY <1>3, StartKinds DEF Start
  <1>4. CASE Pause
    <2>1. CASE Display(source) /\ SetLobster([source.lobster EXCEPT !.running = FALSE])
      <3>1. LobsterLoaded(source.lobster)
        BY <2>1 DEF Display
      <3> QED
        BY <1>1, <2>1, <3>1, LobsterPlays, DisplayPolls
    <2>2. CASE /\ BuildState(source, [runtime EXCEPT !.running = FALSE])
               /\ UNCHANGED <<source, scenarioCounter, torn>>
      BY <2>2, BuildPolls
    <2> QED
      BY <1>4, <2>1, <2>2 DEF Pause
  <1>5. CASE Reset \/ ResetFails
    BY <1>5, ResetKinds
  <1>6. CASE LoadDataSource
    BY <1>6, LoadKinds DEF LoadDataSource
  <1>7. CASE LoadSynthetic
    <2> DEFINE s == [type |-> "none", kernel |-> FALSE, csv |-> CsvClosed, lobster |-> LobsterClosed]
    <2>1. /\ DOMAIN s = {"type", "kernel", "csv", "lobster"} /\ ~s.kernel
          /\ s.csv = CsvClosed /\ s.lobster = LobsterClosed
      OBVIOUS
    <2> HIDE DEF s
    <2>2. FreshSource(s)
      BY <2>1, ClosedFits DEF FreshSource, SourceFits, IsSource, Dangling
    <2>3. ResetRuntime(s, Synthetic)
      BY <1>7 DEF LoadSynthetic, s
    <2> QED
      BY <2>2, <2>3, ResetRenews
  <1>8. CASE RejectSource
    <2>1. UNCHANGED <<source, incidentCounter, scenarioCounter, torn>> /\ runtime' = Stopped
      BY <1>8 DEF RejectSource, counters
    <2> QED
      BY <2>1, StandsPolls
  <1>9. CASE RunReplayComparison
    <2>1. UNCHANGED <<source, incidentCounter, scenarioCounter, torn, runtime>>
      BY <1>9 DEF RunReplayComparison, counters
    <2> QED
      BY <2>1, StandsPolls
  <1>10. CASE \E family \in Families : Launch(family) \/ LaunchFails(family)
    BY <1>10 DEF Launch, LaunchFails, Launches
  <1>11. CASE DanglingLaunch
    BY <1>11 DEF DanglingLaunch, Breaks, Shape
  <1> QED
    BY <1>2, <1>3, <1>4, <1>5, <1>6, <1>7, <1>8, <1>9, <1>10, <1>11 DEF Request

LEMMA PlayKinds ==
    ASSUME Shape, ScheduledTick \/ InternalStep
    PROVE  Ticks \/ Polls \/ Breaks
  <1>1. IsLobster(source.lobster)
    BY DEF Shape, SourceFits, IsSource
  <1>2. ASSUME Display(source) PROVE LobsterLoaded(source.lobster)
    BY <1>2 DEF Display
  <1>3. CASE Display(source) /\ SetLobster(LobsterAdvanced(source.lobster))
    BY <1>1, <1>2, <1>3, LobsterPlays, DisplayPolls
  <1>4. CASE Display(source) /\ SetLobster(LobsterAdvanced(LobsterStarted(source.lobster)))
    <2>1. PICK l : l = LobsterStarted(source.lobster)
      OBVIOUS
    <2>2. IsLobster(l) /\ LobsterLoaded(l)
      BY <1>1, <1>2, <1>4, <2>1, LobsterPlays
    <2>3. IsLobster(LobsterAdvanced(l)) /\ LobsterLoaded(LobsterAdvanced(l))
      BY <2>2, LobsterPlays
    <2> QED
      BY <1>4, <2>1, <2>3, DisplayPolls
  <1>5. CASE Advance
    BY <1>5, AdvanceKinds
  <1>6. CASE BuildState(source, Stopped) /\ UNCHANGED <<source, scenarioCounter, torn>>
    BY <1>6, BuildPolls DEF Stopped
  <1> QED
    BY <1>3, <1>4, <1>5, <1>6 DEF ScheduledTick, InternalStep

\* What the elements of a comparison are, and that its counters are zeroed
\* just before a load.
IsScript(s) ==
    /\ s \in Seq(Calls)
    /\ \A i \in 1 .. Len(s) :
         s[i][1] = "zero counters" => i + 1 \in 1 .. Len(s) /\ s[i + 1][1] = "load"

LEMMA FirstCall ==
    ASSUME IsScript(script), ~Idle
    PROVE  /\ Len(script) \in Nat \ {0} /\ Head(script) = script[1]
           /\ Head(script)[1] = "load" => Head(script)[3] \in Datasets
           /\ Head(script)[1] = "launch" => Head(script)[2] \in Families
           /\ Head(script)[1] = "run" => Head(script)[2] \in Nat
  <1>1. script \in Seq(Calls) /\ script # <<>>
    BY DEF IsScript, Idle
  <1>2. Len(script) \in Nat \ {0} /\ Head(script) = script[1] /\ Head(script) \in Calls
    BY <1>1
  <1>3. PICK c : c = Head(script)
    OBVIOUS
  <1>4. \/ c = <<"zero counters">> \/ c = <<"start">>
        \/ c \in {"load"} \X SourceTypes \X Datasets
        \/ c \in {"launch"} \X Families \/ c \in {"run"} \X Nat
    BY <1>2, <1>3, Zenon DEF Calls
  <1>5. /\ c[1] = "load" => c[3] \in Datasets
        /\ c[1] = "launch" => c[2] \in Families
        /\ c[1] = "run" => c[2] \in Nat
    <2>1. CASE c = <<"zero counters">> \/ c = <<"start">>
      <3>1. <<"zero counters">>[1] = "zero counters" /\ <<"start">>[1] = "start"
        OBVIOUS
      <3>2. c[1] = "zero counters" \/ c[1] = "start"
        BY <2>1, <3>1, Zenon
      <3> QED
        BY <3>2
    <2>2. CASE c \in {"load"} \X SourceTypes \X Datasets
      BY <2>2
    <2>3. CASE c \in {"launch"} \X Families
      BY <2>3
    <2>4. CASE c \in {"run"} \X Nat
      BY <2>4
    <2> QED
      BY <1>4, <2>1, <2>2, <2>3, <2>4
  <1> QED
    BY <1>2, <1>3, <1>5

LEMMA ScriptKinds ==
    ASSUME Shape, IsScript(script), RunScript
    PROVE  Renews \/ Polls \/ Ticks \/ Launches \/ Zeroes \/ Breaks
  <1>1. CASE ZeroCounters
    <2>1. /\ ~Idle /\ Head(script)[1] = "zero counters" /\ script' = Tail(script)
          /\ UNCHANGED <<source, runtime, torn>> /\ scenarioCounter' = 0 /\ incidentCounter' = 0
      BY <1>1 DEF ZeroCounters, Call, Done
    <2>2. Len(script) \in Nat \ {0} /\ Head(script) = script[1] /\ script \in Seq(Calls)
      BY <2>1, FirstCall DEF IsScript
    <2>3. 2 \in 1 .. Len(script) /\ script[2][1] = "load"
      <3>3. script[1][1] = "zero counters"
        BY <2>1, <2>2, Zenon
      <3>4. 1 \in 1 .. Len(script) /\ 1 + 1 = 2
        BY <2>2
      <3>1. 1 \in 1 .. Len(script) /\ script[1][1] = "zero counters" /\ 1 + 1 = 2
        BY <3>3, <3>4
      <3>2. 1 + 1 \in 1 .. Len(script) /\ script[1 + 1][1] = "load"
        BY <3>1 DEF IsScript
      <3> QED
        BY <3>1, <3>2
    <2>4. script' # <<>> /\ Head(script') = script[2]
      <3>1. PICK t : t = Tail(script)
        OBVIOUS
      <3>2. t \in Seq(Calls) /\ Len(t) = Len(script) - 1 /\ t[1] = script[2]
        BY <2>2, <2>3, <3>1
      <3>3. t # <<>> /\ Head(t) = script[2]
        BY <2>2, <2>3, <3>2
      <3> QED
        BY <2>1, <3>1, <3>3
    <2> QED
      BY <2>1, <2>3, <2>4 DEF Zeroes, LoadIsNext, Idle
  <1>2. CASE RunLoad
    <2>1. ~Idle /\ Head(script)[1] = "load"
      BY <1>2 DEF RunLoad, Call
    <2>2. Head(script)[3] \in Datasets
      BY <2>1, FirstCall
    <2>3. PICK type, d : type = Head(script)[2] /\ d = Head(script)[3]
      OBVIOUS
    <2>4. Load(type, d) \/ LoadFails(type, d)
      BY <1>2, <2>3 DEF RunLoad
    <2> QED
      BY <2>2, <2>3, <2>4, LoadKinds
  <1>3. CASE RunLaunch
    <2>1. ~Idle /\ Head(script)[1] = "launch"
      BY <1>3 DEF RunLaunch, Call
    <2>2. Head(script)[2] \in Families
      BY <2>1, FirstCall
    <2>3. LaunchScenario(Head(script)[2]) /\ (torn' = TRUE \/ torn' = torn)
      BY <1>3 DEF RunLaunch
    <2> QED
      BY <2>2, <2>3 DEF Launches
  <1>4. CASE RunStart
    BY <1>4, StartKinds DEF RunStart
  <1>5. CASE RunTick
    BY <1>5, AdvanceKinds DEF RunTick
  <1>6. CASE RunEnd
    <2>1. UNCHANGED <<source, incidentCounter, scenarioCounter, torn>> /\ runtime' = Stopped
      BY <1>6 DEF RunEnd, counters
    <2> QED
      BY <2>1, StandsPolls
  <1> QED
    BY <1>1, <1>2, <1>3, <1>4, <1>5, <1>6 DEF RunScript

\* Every step is of one of the kinds.
LEMMA StepKinds ==
    ASSUME Shape, IsScript(script), [Next]_vars
    PROVE  Renews \/ Polls \/ Ticks \/ Launches \/ Zeroes \/ Breaks
  <1>1. CASE UNCHANGED vars
    <2>1. UNCHANGED <<source, incidentCounter, scenarioCounter, torn, runtime>>
      BY <1>1 DEF vars
    <2> QED
      BY <2>1, StandsPolls
  <1>2. CASE Next
    BY <1>2, RequestKinds, PlayKinds, ScriptKinds DEF Next
  <1> QED
    BY <1>1, <1>2

LEMMA Joined ==
    ASSUME NEW S, NEW s \in Seq(S), NEW t \in Seq(S)
    PROVE  /\ s \o t \in Seq(S) /\ Len(s \o t) = Len(s) + Len(t)
           /\ Len(s) \in Nat /\ Len(t) \in Nat
           /\ \A i \in 1 .. Len(s) : (s \o t)[i] = s[i]
           /\ \A i \in 1 .. Len(s) + Len(t) :
                i > Len(s) => (s \o t)[i] = t[i - Len(s)] /\ i - Len(s) \in 1 .. Len(t)
  OBVIOUS

LEMMA ScriptStep ==
    ASSUME IsScript(script), [Next]_vars
    PROVE  IsScript(script')
  <1>1. CASE script' = script
    BY <1>1
  <1>2. CASE script' = <<>>
    <2>1. <<>> \in Seq(Calls) /\ 1 .. Len(<<>>) = {}
      OBVIOUS
    <2>2. IsScript(<<>>)
      BY <2>1 DEF IsScript
    <2> QED
      BY <1>2, <2>2
  <1>3. ASSUME ~Idle
        PROVE  /\ IsScript(Tail(script)) /\ Tail(script) \in Seq(Calls)
               /\ script \in Seq(Calls) /\ Len(script) \in Nat \ {0}
    <2>1. script \in Seq(Calls) /\ Len(script) \in Nat \ {0}
      BY <1>3, FirstCall DEF IsScript
    <2>2. /\ Tail(script) \in Seq(Calls) /\ Len(Tail(script)) = Len(script) - 1
          /\ \A i \in 1 .. Len(script) - 1 : Tail(script)[i] = script[i + 1]
      BY <2>1
    <2> DEFINE t == Tail(script)
    <2>4. /\ t \in Seq(Calls) /\ Len(t) = Len(script) - 1
          /\ \A i \in 1 .. Len(script) - 1 : t[i] = script[i + 1]
      BY <2>2
    <2> HIDE DEF t
    <2>3. ASSUME NEW i \in 1 .. Len(t), t[i][1] = "zero counters"
          PROVE  i + 1 \in 1 .. Len(t) /\ t[i + 1][1] = "load"
      <3>1. i + 1 \in 1 .. Len(script) /\ t[i] = script[i + 1] /\ i \in 1 .. Len(script) - 1
        <4>1. i \in 1 .. Len(script) - 1
          BY <2>1, <2>4
        <4> QED
          BY <2>1, <2>4, <4>1
      <3>2. (i + 1) + 1 \in 1 .. Len(script) /\ script[(i + 1) + 1][1] = "load"
        BY <2>3, <3>1 DEF IsScript
      <3>3. i + 1 \in 1 .. Len(script) - 1
        BY <2>1, <3>1, <3>2
      <3>4. i + 1 \in 1 .. Len(t) /\ t[i + 1] = script[(i + 1) + 1]
        BY <2>4, <3>3
      <3> QED
        BY <3>2, <3>4
    <2> QED
      BY <2>1, <2>2, <2>3 DEF IsScript, t
  <1>4. ASSUME ~Idle, NEW n \in Nat PROVE IsScript(<<<<"run", n>>>> \o Tail(script))
    <2> DEFINE t == Tail(script)
               c == <<"run", n>>
               u == <<c>> \o t
    <2>1. IsScript(t) /\ t \in Seq(Calls)
      BY <1>3, <1>4
    <2>2. c \in Calls /\ c[1] # "zero counters"
      BY DEF Calls
    <2> HIDE DEF t, c
    <2>3. /\ u \in Seq(Calls) /\ Len(t) \in Nat /\ Len(u) = Len(t) + 1 /\ u[1] = c
          /\ \A i \in 1 .. Len(t) : u[i + 1] = t[i]
      <3>1. PICK one : one = <<c>>
        OBVIOUS
      <3>2. one \in Seq(Calls) /\ Len(one) = 1 /\ one[1] = c
        <4>1. \A S, e : e \in S => <<e>> \in Seq(S) /\ Len(<<e>>) = 1 /\ <<e>>[1] = e
          OBVIOUS
        <4> QED
          BY <2>2, <3>1, <4>1, Zenon
      <3>3. /\ one \o t \in Seq(Calls) /\ Len(one \o t) = Len(one) + Len(t) /\ Len(t) \in Nat
            /\ \A i \in 1 .. Len(one) : (one \o t)[i] = one[i]
            /\ \A i \in 1 .. Len(one) + Len(t) :
                 i > Len(one) => (one \o t)[i] = t[i - Len(one)]
        BY <2>1, <3>2, Joined
      <3>4. \A i \in 1 .. Len(t) : i + 1 \in 1 .. 1 + Len(t) /\ i + 1 > 1 /\ (i + 1) - 1 = i
        BY <3>3
      <3>5. u = one \o t
        BY <3>1
      <3> HIDE DEF u
      <3> QED
        BY <3>2, <3>3, <3>4, <3>5
    <2> HIDE DEF u
    <2>4. ASSUME NEW i \in 1 .. Len(u), u[i][1] = "zero counters"
          PROVE  i + 1 \in 1 .. Len(u) /\ u[i + 1][1] = "load"
      <3>1. i # 1
        BY <2>2, <2>3, <2>4
      <3>2. i - 1 \in 1 .. Len(t) /\ u[(i - 1) + 1] = t[i - 1] /\ (i - 1) + 1 = i
        BY <2>3, <3>1
      <3>3. (i - 1) + 1 \in 1 .. Len(t) /\ t[(i - 1) + 1][1] = "load"
        BY <2>1, <2>4, <3>2 DEF IsScript
      <3>4. i \in 1 .. Len(t) /\ t[i][1] = "load"
        BY <3>2, <3>3
      <3> QED
        BY <2>3, <3>4
    <2>5. IsScript(u)
      BY <2>3, <2>4 DEF IsScript
    <2> QED
      BY <2>5 DEF u, t, c
  <1>5. ASSUME NEW d \in Datasets, NEW family \in Families
        PROVE  IsScript(BothRuns(d, family) \o BothRuns(d, family))
    <2> DEFINE r == BothRuns(d, family)
    <2>1. ComparisonTicks \in Nat
      BY ArenaAssumption
    <2>2. /\ r \in Seq(Calls) /\ Len(r) = 7
          /\ r[1] = <<"zero counters">> /\ r[2] = <<"load", "historical", d>> /\ r[3] = <<"start">>
          /\ r[4] = <<"run", ComparisonTicks>> /\ r[5] = <<"load", "hybrid", d>>
          /\ r[6] = <<"launch", family>> /\ r[7] = <<"run", ComparisonTicks>>
      <3>1. PICK c1, c2, c3, c4, c5, c6 :
              /\ c1 = <<"zero counters">> /\ c2 = <<"load", "historical", d>> /\ c3 = <<"start">>
              /\ c4 = <<"run", ComparisonTicks>> /\ c5 = <<"load", "hybrid", d>>
              /\ c6 = <<"launch", family>>
        OBVIOUS
      <3>2. /\ c1 \in Calls /\ c3 \in Calls
        BY <3>1, Zenon DEF Calls
      <3>3. c2 \in Calls /\ c5 \in Calls
        BY <3>1 DEF Calls, SourceTypes
      <3>4. c4 \in Calls /\ c6 \in Calls
        BY <2>1, <3>1 DEF Calls
      <3>5. r = <<c1, c2, c3, c4, c5, c6, c4>>
        BY <3>1, Zenon DEF BothRuns
      <3>6. /\ r \in Seq(Calls) /\ Len(r) = 7 /\ r[1] = c1 /\ r[2] = c2 /\ r[3] = c3
            /\ r[4] = c4 /\ r[5] = c5 /\ r[6] = c6 /\ r[7] = c4
        BY <3>2, <3>3, <3>4, <3>5
      <3> QED
        BY <3>1, <3>6, Zenon
    <2> HIDE DEF r
    <2> DEFINE u == r \o r
    <2>3. /\ u \in Seq(Calls) /\ Len(u) = 14
          /\ \A i \in 1 .. 7 : u[i] = r[i] /\ u[i + 7] = r[i]
      <3>1. /\ u \in Seq(Calls) /\ Len(u) = Len(r) + Len(r)
            /\ \A i \in 1 .. Len(r) : u[i] = r[i]
            /\ \A i \in 1 .. Len(r) + Len(r) : i > Len(r) => u[i] = r[i - Len(r)]
        BY <2>2, Joined
      <3>2. Len(r) = 7
        BY <2>2
      <3>3. \A i \in 1 .. 7 : i + 7 \in 1 .. 14 /\ i + 7 > 7 /\ (i + 7) - 7 = i
        OBVIOUS
      <3> HIDE DEF u
      <3> QED
        BY <3>1, <3>2, <3>3
    <2> HIDE DEF u
    <2>4. r[2][1] = "load"
      <3>1. <<"load", "historical", d>>[1] = "load"
        OBVIOUS
      <3> QED
        BY <2>2, <3>1, Zenon
    <2>5. \A i \in 1 .. 7 : r[i][1] = "zero counters" => i = 1
      <3>1. /\ r[2][1] = "load" /\ r[3][1] = "start" /\ r[4][1] = "run" /\ r[5][1] = "load"
            /\ r[6][1] = "launch" /\ r[7][1] = "run"
        <4>1. /\ <<"load", "historical", d>>[1] = "load" /\ <<"start">>[1] = "start"
              /\ <<"run", ComparisonTicks>>[1] = "run" /\ <<"load", "hybrid", d>>[1] = "load"
              /\ <<"launch", family>>[1] = "launch"
          OBVIOUS
        <4> QED
          BY <2>2, <4>1, Zenon
      <3>2. \A i \in 1 .. 7 : i = 1 \/ i = 2 \/ i = 3 \/ i = 4 \/ i = 5 \/ i = 6 \/ i = 7
        OBVIOUS
      <3> QED
        BY <3>1, <3>2
    <2>6. ASSUME NEW i \in 1 .. Len(u), u[i][1] = "zero counters"
          PROVE  i + 1 \in 1 .. Len(u) /\ u[i + 1][1] = "load"
      <3>1. CASE i \in 1 .. 7
        <4>1. i = 1
          BY <2>3, <2>5, <2>6, <3>1
        <4> QED
          BY <2>3, <2>4, <4>1
      <3>2. CASE i \in 8 .. 14
        <4>1. i - 7 \in 1 .. 7 /\ (i - 7) + 7 = i
          BY <3>2
        <4>2. u[i] = r[i - 7]
          BY <2>3, <4>1
        <4>3. i = 8
          <5>1. i - 7 = 1
            BY <2>5, <2>6, <4>1, <4>2, Zenon
          <5> QED
            BY <3>2, <5>1
        <4>4. u[9] = r[2]
          BY <2>3
        <4> QED
          BY <2>3, <2>4, <4>3, <4>4
      <3> QED
        BY <2>3, <3>1, <3>2
    <2>7. IsScript(u)
      BY <2>3, <2>6 DEF IsScript
    <2> QED
      BY <2>7 DEF u, r
  <1>6. CASE UNCHANGED vars
    BY <1>1, <1>6 DEF vars
  <1>7. CASE Request
    <2>1. CASE RunReplayComparison
      BY <1>5, <2>1 DEF RunReplayComparison
    <2>2. CASE ~RunReplayComparison
      <3>1. script' = script
        BY <1>7, <2>2 DEF Request, State, Start, Pause, Reset, ResetFails, LoadDataSource, LoadSynthetic,
                          RejectSource, Launch, LaunchFails, DanglingLaunch
      <3> QED
        BY <1>1, <3>1
    <2> QED
      BY <2>1, <2>2
  <1>8. CASE ScheduledTick \/ InternalStep
    BY <1>1, <1>8 DEF ScheduledTick, InternalStep
  <1>9. CASE RunScript
    <2>1. ~Idle
      BY <1>9 DEF RunScript, ZeroCounters, RunLoad, RunLaunch, RunStart, RunTick, RunEnd, Call
    <2>2. CASE ZeroCounters \/ RunLoad \/ RunLaunch \/ RunStart \/ RunEnd
      <3>1. script' = Tail(script) \/ script' = <<>>
        BY <2>2 DEF ZeroCounters, RunLoad, RunLaunch, RunStart, RunEnd, Done, Throw
      <3> QED
        BY <1>2, <1>3, <2>1, <3>1
    <2>3. CASE RunTick
      <3>1. Head(script)[2] \in Nat /\ Head(script)[2] > 0
        BY <2>1, <2>3, FirstCall DEF RunTick, Call
      <3>2. Head(script)[2] - 1 \in Nat
        BY <3>1
      <3>3. script' = <<<<"run", Head(script)[2] - 1>>>> \o Tail(script) \/ script' = <<>>
        BY <2>3 DEF RunTick, Throw
      <3> QED
        BY <1>2, <1>4, <2>1, <3>2, <3>3
    <2> QED
      BY <1>9, <2>2, <2>3 DEF RunScript
  <1> QED
    BY <1>6, <1>7, <1>8, <1>9 DEF Next

\* A load that is next is the next thing to happen.
LEMMA LoadHappens ==
    ASSUME Shape, IsScript(script), LoadIsNext, [Next]_vars
    PROVE  Renews \/ Breaks \/ UNCHANGED vars
  <1>1. ~Idle /\ Head(script)[1] = "load"
    BY DEF LoadIsNext
  <1>2. CASE Request \/ ScheduledTick \/ InternalStep
    BY <1>1, <1>2 DEF Request, State, Start, Pause, Reset, ResetFails, LoadDataSource, LoadSynthetic,
                      RejectSource, RunReplayComparison, Launch, LaunchFails, DanglingLaunch, ScheduledTick, InternalStep
  <1>3. CASE RunScript
    <2>1. RunLoad
      BY <1>1, <1>3 DEF RunScript, ZeroCounters, RunLaunch, RunStart, RunTick, RunEnd, Call
    <2>2. Head(script)[3] \in Datasets
      BY <1>1, FirstCall
    <2>3. PICK type, d : type = Head(script)[2] /\ d = Head(script)[3]
      OBVIOUS
    <2>4. Load(type, d) \/ LoadFails(type, d)
      BY <2>1, <2>3 DEF RunLoad
    <2> QED
      BY <2>2, <2>3, <2>4, LoadKinds
  <1> QED
    BY <1>2, <1>3 DEF Next

LEMMA RenewedRuntime ==
    ASSUME NEW market
    PROVE  /\ IsRuntime(NewRuntime(market)) /\ NewRuntime(market).scenario = NoScenario
           /\ NewRuntime(market).resting = {} /\ NewRuntime(market).applied = <<>>
           /\ NewRuntime(market).incidents = <<>> /\ NewRuntime(market).incidentKeys = {}
  <1> DEFINE r == NewRuntime(market)
  <1>1. /\ DOMAIN r = {"running", "tick", "scenario", "resting", "incidents", "incidentKeys", "market", "applied"}
        /\ r.tick = 0 /\ r.scenario = NoScenario /\ r.resting = {} /\ r.applied = <<>>
        /\ r.incidents = <<>> /\ r.incidentKeys = {}
    BY DEF NewRuntime
  <1> HIDE DEF r
  <1>2. <<>> \in Seq(Incidents) /\ <<>> \in Seq(Nat)
    OBVIOUS
  <1>3. IsRuntime(r)
    BY <1>1, <1>2 DEF IsRuntime
  <1> QED
    BY <1>1, <1>3 DEF r

LEMMA Launched ==
    ASSUME NEW family \in Families, Shape, LaunchScenario(family)
    PROVE  /\ IsRuntime(runtime') /\ runtime'.resting = runtime.resting /\ runtime'.tick = runtime.tick
           /\ runtime'.applied = runtime.applied /\ runtime'.incidents = runtime.incidents
           /\ runtime'.incidentKeys = runtime.incidentKeys
           /\ runtime'.scenario.id = scenarioCounter + 1 /\ runtime'.scenario.family = family
           /\ runtime'.scenario.start = runtime.tick + 1
           /\ scenarioCounter' = scenarioCounter + 1 /\ UNCHANGED <<source, incidentCounter>>
           /\ scenarioCounter \in Nat /\ runtime.tick \in Nat
           /\ Replaying(source) => source.type = "hybrid"
  <1> DEFINE scenario == [id |-> scenarioCounter', family |-> family, start |-> runtime.tick + 1]
  <1>1. /\ IsRuntime(runtime) /\ scenarioCounter \in Nat /\ runtime.tick \in Nat
    BY DEF Shape, IsRuntime
  <1>2. /\ scenarioCounter' = scenarioCounter + 1 /\ UNCHANGED <<source, incidentCounter>>
        /\ runtime' = [runtime EXCEPT !.scenario = scenario, !.running = TRUE]
        /\ Replaying(source) => source.type = "hybrid"
    BY DEF LaunchScenario
  <1>3. family \in AllFamilies
    BY ArenaAssumption
  <1>4. /\ scenario \in Scenarios /\ scenario.id = scenarioCounter + 1 /\ scenario.family = family
        /\ scenario.start = runtime.tick + 1
    BY <1>1, <1>2, <1>3 DEF Scenarios
  <1> HIDE DEF scenario
  <1>5. PICK q : q = runtime'
    OBVIOUS
  <1>6. /\ DOMAIN q = DOMAIN runtime /\ q.tick = runtime.tick /\ q.scenario = scenario
        /\ q.resting = runtime.resting /\ q.applied = runtime.applied
        /\ q.incidents = runtime.incidents /\ q.incidentKeys = runtime.incidentKeys
    BY <1>1, <1>2, <1>5 DEF IsRuntime
  <1>7. IsRuntime(q)
    BY <1>1, <1>4, <1>6 DEF IsRuntime
  <1> QED
    BY <1>1, <1>2, <1>4, <1>5, <1>6, <1>7

LEMMA ShapeStep ==
    ASSUME Shape, IsScript(script), [Next]_vars
    PROVE  Shape'
  <1>1. CASE Renews
    <2>1. PICK market : runtime' = NewRuntime(market)
      BY <1>1 DEF Renews
    <2> QED
      BY <1>1, <2>1, RenewedRuntime DEF Renews, FreshSource, Shape, counters
  <1>2. CASE Polls
    BY <1>2 DEF Polls, Shows, Shape, Display, Dangling
  <1>3. CASE Ticks
    <2>1. SourceFits(source') /\ ~Dangling(source')
      <3>1. CASE Replaying(source)
        <4>1. SourceFits(AfterBatch) /\ ~Dangling(AfterBatch) /\ source' = AfterBatch
          BY <1>3, <3>1, BatchGoesOn DEF Ticks, Shape
        <4>2. PICK s : s = AfterBatch
          OBVIOUS
        <4> QED
          BY <4>1, <4>2
      <3>2. CASE ~Replaying(source)
        BY <1>3, <3>2 DEF Ticks, Shape
      <3> QED
        BY <3>1, <3>2
    <2>2. /\ IsRuntime(runtime') /\ scenarioCounter' \in Nat /\ incidentCounter' \in Nat /\ torn' \in BOOLEAN
      BY <1>3 DEF Ticks, Shape
    <2> QED
      BY <2>1, <2>2 DEF Shape
  <1>4. CASE Launches
    <2>1. PICK family \in Families : LaunchScenario(family)
      BY <1>4 DEF Launches
    <2>2. /\ IsRuntime(runtime') /\ scenarioCounter' = scenarioCounter + 1 /\ UNCHANGED <<source, incidentCounter>>
      BY <2>1, Launched
    <2>3. /\ SourceFits(source) /\ scenarioCounter \in Nat /\ incidentCounter \in Nat /\ torn \in BOOLEAN
          /\ (~torn => ~Dangling(source)) /\ (torn' = TRUE \/ torn' = torn)
      BY <1>4 DEF Launches, Shape
    <2>4. SourceFits(source') /\ (Dangling(source') => Dangling(source))
      BY <2>2, <2>3
    <2>5. torn' \in BOOLEAN /\ (~torn' => ~torn)
      BY <2>3
    <2>6. scenarioCounter' \in Nat /\ incidentCounter' \in Nat
      BY <2>2, <2>3
    <2> QED
      BY <2>2, <2>3, <2>4, <2>5, <2>6 DEF Shape
  <1>5. CASE Zeroes
    BY <1>5 DEF Zeroes, Shape
  <1>6. CASE Breaks
    BY <1>6 DEF Breaks, Shape, counters
  <1> QED
    BY <1>1, <1>2, <1>3, <1>4, <1>5, <1>6, StepKinds

LEMMA Begins ==
    ASSUME Init
    PROVE  /\ Shape /\ IsScript(script) /\ ~Replaying(source) /\ runtime = NewRuntime(Synthetic)
  <1>1. /\ IsRuntime(runtime) /\ runtime = NewRuntime(Synthetic)
    BY RenewedRuntime DEF Init
  <1>2. source = [type |-> "none", kernel |-> FALSE, csv |-> CsvClosed, lobster |-> LobsterClosed]
    BY DEF Init
  <1>3. /\ DOMAIN source = {"type", "kernel", "csv", "lobster"} /\ ~source.kernel
        /\ source.csv = CsvClosed /\ source.lobster = LobsterClosed
    BY <1>2
  <1>4. SourceFits(source) /\ ~Dangling(source) /\ ~Replaying(source)
    BY <1>3, ClosedFits DEF SourceFits, IsSource, Dangling, Replaying
  <1>5. IsScript(<<>>)
    <2>1. <<>> \in Seq(Calls) /\ 1 .. Len(<<>>) = {}
      OBVIOUS
    <2> QED
      BY <2>1 DEF IsScript
  <1> QED
    BY <1>1, <1>4, <1>5 DEF Init, Shape

-----------------------------------------------------------------------------
(* Incidents of different scenarios *)

\* Zeroing the counters makes old incidents look new, until the load that
\* comes next forgets them.
NumberInv == ~torn => Numbered(runtime, incidentCounter, scenarioCounter) \/ LoadIsNext

LEMMA NumberStep ==
    ASSUME Shape, IsScript(script), NumberInv, [Next]_vars
    PROVE  NumberInv'
  <1>1. ASSUME NEW market PROVE \A i, j : Numbered(NewRuntime(market), i, j)
    BY RenewedRuntime DEF Numbered
  <1>2. CASE Renews
    BY <1>1, <1>2 DEF Renews, NumberInv
  <1>3. CASE Breaks
    BY <1>3 DEF Breaks, NumberInv
  <1>4. CASE Zeroes
    BY <1>4 DEF Zeroes, NumberInv
  <1>5. CASE UNCHANGED vars
    BY <1>5 DEF vars, NumberInv, LoadIsNext, Idle
  <1>6. CASE LoadIsNext
    BY <1>2, <1>3, <1>5, <1>6, LoadHappens
  <1>7. CASE ~LoadIsNext
    <2>1. CASE torn'
      BY <2>1 DEF NumberInv
    <2>2. ASSUME ~torn', Polls PROVE NumberInv'
      BY <1>7, <2>2 DEF Polls, Shows, NumberInv
    <2>3. ASSUME ~torn', Ticks PROVE NumberInv'
      BY <1>7, <2>3 DEF Ticks, NumberInv
    <2>4. ASSUME ~torn', Launches PROVE NumberInv'
      <3>1. PICK family \in Families : LaunchScenario(family)
        BY <2>4 DEF Launches
      <3>2. /\ runtime'.incidents = runtime.incidents /\ runtime'.incidentKeys = runtime.incidentKeys
            /\ runtime'.scenario.id = scenarioCounter + 1
            /\ scenarioCounter' = scenarioCounter + 1 /\ UNCHANGED incidentCounter
            /\ scenarioCounter \in Nat
        BY <3>1, Launched
      <3>3. Numbered(runtime, incidentCounter, scenarioCounter)
        BY <1>7, <2>4 DEF Launches, NumberInv
      <3>4. \A key \in runtime.incidentKeys : key[1] \in Nat /\ key[1] <= scenarioCounter
        BY <3>3 DEF Shape, IsRuntime, Numbered
      <3>5. \A key \in runtime.incidentKeys : key[1] <= scenarioCounter + 1
        BY <3>2, <3>4
      <3>6. Numbered(runtime', incidentCounter', scenarioCounter')
        <4>1. PICK q, n, m : q = runtime' /\ n = incidentCounter' /\ m = scenarioCounter'
          OBVIOUS
        <4>2. /\ q.incidents = runtime.incidents /\ q.incidentKeys = runtime.incidentKeys
              /\ q.scenario.id = scenarioCounter + 1 /\ m = scenarioCounter + 1 /\ n = incidentCounter
          BY <3>2, <4>1
        <4>3. q.scenario.id <= m /\ \A key \in q.incidentKeys : key[1] <= m
          BY <3>2, <3>5, <4>2
        <4>4. Numbered(q, n, m)
          BY <3>3, <4>2, <4>3, Zenon DEF Numbered
        <4> QED
          BY <4>1, <4>4
      <3> QED
        BY <3>6 DEF NumberInv
    <2> QED
      BY <1>2, <1>3, <1>4, <2>1, <2>2, <2>3, <2>4, StepKinds
  <1> QED
    BY <1>6, <1>7

\* An incident is found by its id and a detector reports a scenario once,
\* whoever polls, resets, loads and compares.
THEOREM IncidentsStayApart == Spec => []IncidentsTellScenariosApart
  <1> DEFINE Inv == Shape /\ IsScript(script) /\ NumberInv
  <1>1. Init => Inv
    <2>1. ASSUME Init PROVE Numbered(runtime, incidentCounter, scenarioCounter)
      BY <2>1, Begins, RenewedRuntime DEF Numbered
    <2> QED
      BY <2>1, Begins DEF NumberInv
  <1>2. Inv /\ [Next]_vars => Inv'
    BY ShapeStep, ScriptStep, NumberStep
  <1>3. Inv => IncidentsTellScenariosApart
    BY DEF NumberInv, LoadIsNext, Numbered, IncidentsTellScenariosApart
  <1> QED
    BY <1>1, <1>2, <1>3, PTL DEF Spec

-----------------------------------------------------------------------------
(* Control runs and scenarios that are over *)

Controlled ==
    Replaying(source) /\ source.type # "hybrid" =>
      runtime.scenario = NoScenario /\ runtime.resting = {}
CleanedUp ==
    runtime.scenario # NoScenario =>
      /\ runtime.scenario.family = "spoofing_like_wall" /\ runtime.tick >= runtime.scenario.start + 3 =>
           OrderId(runtime.scenario, "WALL") \notin runtime.resting
      /\ runtime.scenario.family = "layering_like" /\ runtime.tick >= runtime.scenario.start + 4 =>
           OrderId(runtime.scenario, "LAYER") \notin runtime.resting
CleanInv == ~torn => Controlled /\ CleanedUp

\* A tick goes on with the source it had.
LEMMA TickKeepsSource ==
    ASSUME Shape, Ticks
    PROVE  (Replaying(source') <=> Replaying(source)) /\ source'.type = source.type
  <1>1. CASE Replaying(source)
    <2>1. PICK s : s = AfterBatch
      OBVIOUS
    <2>2. /\ s.kernel = source.kernel /\ s.type = source.type /\ s.csv.dataset = source.csv.dataset
      BY <1>1, <2>1, BatchGoesOn DEF Ticks, Shape
    <2>3. source' = s
      BY <1>1, <2>1 DEF Ticks
    <2> QED
      BY <2>2, <2>3 DEF Replaying, CsvLoaded
  <1>2. CASE ~Replaying(source)
    BY <1>2 DEF Ticks
  <1> QED
    BY <1>1, <1>2

\* The orders that a scenario whose window is over leaves, in its last tick
\* and after it.
LEMMA ScenarioLeaves ==
    ASSUME NEW scenario \in Scenarios, scenario # NoScenario, NEW tick \in Nat, NEW before,
           NEW after \in AfterScenario(scenario, tick, before)
    PROVE  /\ scenario.family = "spoofing_like_wall" /\ tick >= scenario.start + 3 =>
                OrderId(scenario, "WALL") \notin after
           /\ scenario.family = "layering_like" /\ tick >= scenario.start + 4 =>
                OrderId(scenario, "LAYER") \notin after
  <1>1. scenario.start \in Nat
    BY DEF Scenarios
  <1>2. ASSUME scenario.family = "spoofing_like_wall", tick >= scenario.start + 3
        PROVE  OrderId(scenario, "WALL") \notin after
    <2>1. after = Spoofed(scenario, tick, before)
      BY <1>2 DEF AfterScenario
    <2>2. ~(Age(scenario, tick) < 3)
      BY <1>1, <1>2 DEF Age
    <2> QED
      BY <2>1, <2>2 DEF Spoofed
  <1>3. ASSUME scenario.family = "layering_like", tick >= scenario.start + 4
        PROVE  OrderId(scenario, "LAYER") \notin after
    <2>1. after = Layered(scenario, tick, before)
      BY <1>3 DEF AfterScenario
    <2>2. ~(Age(scenario, tick) < 4)
      BY <1>1, <1>3 DEF Age
    <2> QED
      BY <2>1, <2>2 DEF Layered
  <1> QED
    BY <1>2, <1>3

LEMMA TickCleans ==
    ASSUME Shape, Ticks, ~torn, ~torn', CleanInv
    PROVE  CleanInv'
  <1>1. /\ Replaying(source') <=> Replaying(source)
        /\ source'.type = source.type
    BY TickKeepsSource
  <1>2. /\ runtime'.tick = runtime.tick + 1 /\ runtime'.scenario = runtime.scenario
        /\ runtime'.resting \in RestingAfter(runtime.tick + 1)
    BY DEF Ticks
  <1>3. Controlled
    BY DEF CleanInv
  <1>4. CASE Replaying(source) /\ source.type # "hybrid"
    <2>1. PICK gone \in TradedAway : runtime'.resting \in {runtime.resting \ gone}
      BY <1>2, <1>4 DEF RestingAfter
    <2>2. runtime'.scenario = NoScenario /\ runtime'.resting = {}
      BY <1>2, <1>3, <1>4, <2>1 DEF Controlled
    <2> QED
      BY <2>2 DEF CleanInv, Controlled, CleanedUp
  <1>5. CASE ~(Replaying(source) /\ source.type # "hybrid")
    <2>1. PICK gone \in TradedAway :
            runtime'.resting \in AfterScenario(runtime.scenario, runtime.tick + 1, runtime.resting \ gone)
      BY <1>2, <1>5 DEF RestingAfter
    <2>2. Controlled'
      BY <1>1, <1>5 DEF Controlled
    <2>3. ASSUME runtime.scenario # NoScenario PROVE CleanedUp'
      <3>1. runtime.scenario \in Scenarios /\ runtime.tick + 1 \in Nat
        BY <2>3 DEF Shape, IsRuntime
      <3>2. /\ runtime.scenario.family = "spoofing_like_wall" /\ runtime.tick + 1 >= runtime.scenario.start + 3 =>
                 OrderId(runtime.scenario, "WALL") \notin runtime'.resting
            /\ runtime.scenario.family = "layering_like" /\ runtime.tick + 1 >= runtime.scenario.start + 4 =>
                 OrderId(runtime.scenario, "LAYER") \notin runtime'.resting
        BY <2>1, <2>3, <3>1, ScenarioLeaves
      <3>3. \A suffix : OrderId(runtime.scenario, suffix)' = OrderId(runtime.scenario, suffix)
        BY <1>1, <1>2 DEF OrderId
      <3> QED
        BY <1>2, <3>2, <3>3 DEF CleanedUp
    <2>4. ASSUME runtime.scenario = NoScenario PROVE CleanedUp'
      BY <1>2, <2>4 DEF CleanedUp
    <2> QED
      BY <2>2, <2>3, <2>4 DEF CleanInv
  <1> QED
    BY <1>4, <1>5

LEMMA CleanStep ==
    ASSUME Shape, IsScript(script), CleanInv, [Next]_vars
    PROVE  CleanInv'
  <1>1. CASE torn'
    BY <1>1 DEF CleanInv
  <1>2. ASSUME ~torn', Renews PROVE CleanInv'
    <2>1. PICK market : runtime' = NewRuntime(market)
      BY <1>2 DEF Renews
    <2>2. runtime'.scenario = NoScenario /\ runtime'.resting = {}
      BY <2>1, RenewedRuntime
    <2> QED
      BY <2>2 DEF CleanInv, Controlled, CleanedUp
  <1>3. ASSUME ~torn', Polls PROVE CleanInv'
    <2>1. /\ Controlled /\ CleanedUp
          /\ runtime'.tick = runtime.tick /\ runtime'.scenario = runtime.scenario
          /\ runtime'.resting = runtime.resting
      BY <1>3 DEF CleanInv, Polls, Shows
    <2>2. /\ Replaying(source') <=> Replaying(source)
          /\ Replaying(source) => source' = source
      BY <1>3 DEF Polls, Display, Replaying
    <2>3. \A suffix : OrderId(runtime.scenario, suffix)' = OrderId(runtime.scenario, suffix)
      BY <2>1, <2>2 DEF OrderId
    <2>4. Controlled'
      BY <2>1, <2>2 DEF Controlled
    <2>5. CleanedUp'
      BY <2>1, <2>3 DEF CleanedUp
    <2> QED
      BY <2>4, <2>5 DEF CleanInv
  <1>4. ASSUME ~torn', Ticks PROVE CleanInv'
    <2>1. ~torn
      BY <1>4 DEF Ticks
    <2> QED
      BY <1>4, <2>1, TickCleans
  <1>5. ASSUME ~torn', Launches PROVE CleanInv'
    <2>1. PICK family \in Families : LaunchScenario(family)
      BY <1>5 DEF Launches
    <2>2. /\ runtime'.tick = runtime.tick /\ runtime'.scenario.start = runtime.tick + 1 /\ runtime.tick \in Nat
          /\ UNCHANGED source
          /\ Replaying(source) => source.type = "hybrid"
      BY <2>1, Launched
    <2>3. Controlled'
      BY <2>2 DEF Controlled
    <2>4. CleanedUp'
      BY <2>2 DEF CleanedUp
    <2> QED
      BY <2>3, <2>4 DEF CleanInv
  <1>6. ASSUME ~torn', Zeroes PROVE CleanInv'
    BY <1>6 DEF Zeroes, CleanInv, Controlled, CleanedUp, OrderId
  <1> QED
    BY <1>1, <1>2, <1>3, <1>4, <1>5, <1>6, StepKinds DEF Breaks

LEMMA CleanBegins ==
    ASSUME Init
    PROVE  CleanInv
  <1>1. ~Replaying(source) /\ runtime.scenario = NoScenario
    BY Begins, RenewedRuntime
  <1> QED
    BY <1>1 DEF CleanInv, Controlled, CleanedUp

LEMMA ScriptedClean == Spec => [](Shape /\ IsScript(script) /\ CleanInv)
  <1>1. Init => Shape /\ IsScript(script) /\ CleanInv
    BY Begins, CleanBegins
  <1>2. Shape /\ IsScript(script) /\ CleanInv /\ [Next]_vars => (Shape /\ IsScript(script) /\ CleanInv)'
    BY ShapeStep, ScriptStep, CleanStep
  <1> QED
    BY <1>1, <1>2, PTL DEF Spec

\* A control run holds no scenario and none of its orders, whatever the
\* service ran before it.
THEOREM ControlsStayClean == Spec => []ControlRunsClean
  <1>1. CleanInv => ControlRunsClean
    BY DEF CleanInv, Controlled, ControlRunsClean
  <1> QED
    BY <1>1, ScriptedClean, PTL

\* Once the window of the active scenario is over, in the market of a replay
\* or the synthetic one, none of its orders rests.
THEOREM ScenariosCleanUp == Spec => []ActiveScenarioCleansUp
  <1>1. ASSUME Shape, CleanInv, ~torn, runtime.scenario # NoScenario,
               runtime.tick >= LabelEnd(runtime.scenario)
        PROVE  CASE runtime.scenario.family = "spoofing_like_wall" ->
                      OrderId(runtime.scenario, "WALL") \notin runtime.resting
                 [] runtime.scenario.family = "layering_like" ->
                      OrderId(runtime.scenario, "LAYER") \notin runtime.resting
                 [] OTHER -> TRUE
    <2>1. CleanedUp
      BY <1>1 DEF CleanInv
    <2>2. CASE runtime.scenario.family = "spoofing_like_wall"
      <3>1. LabelEnd(runtime.scenario) = runtime.scenario.start + 3
        BY <2>2 DEF LabelEnd
      <3> QED
        BY <1>1, <2>1, <2>2, <3>1 DEF CleanedUp
    <2>3. CASE runtime.scenario.family = "layering_like"
      <3>1. LabelEnd(runtime.scenario) = runtime.scenario.start + 4
        BY <2>3 DEF LabelEnd
      <3> QED
        BY <1>1, <2>1, <2>3, <3>1 DEF CleanedUp
    <2>4. CASE runtime.scenario.family # "spoofing_like_wall" /\ runtime.scenario.family # "layering_like"
      BY <2>4
    <2> QED
      BY <2>2, <2>3, <2>4
  <1>2. Shape /\ CleanInv => ActiveScenarioCleansUp
    BY <1>1 DEF ActiveScenarioCleansUp
  <1> QED
    BY <1>2, ScriptedClean, PTL

-----------------------------------------------------------------------------
(* Records applied to the book *)

IsFile(R) ==
    /\ R \in Seq([time : Int, actor : Int])
    /\ \A i, j \in 1 .. Len(R) : i < j => R[i].time <= R[j].time

\* j may come after i: not earlier, and not before it for its participant.
Follows(R, i, j) == R[i].time <= R[j].time /\ (R[i].actor = R[j].actor => i < j)

\* The records a + 1 to a + n, each once, in an order they may be applied in.
IsRun(R, f, a, n) ==
    /\ f \in Seq(Nat) /\ Len(f) = n
    /\ \A k \in 1 .. n : f[k] \in a + 1 .. a + n
    /\ \A v \in a + 1 .. a + n : \E k \in 1 .. n : f[k] = v
    /\ \A i, j \in 1 .. n : i < j => Follows(R, f[i], f[j])

LEMMA FileOrders ==
    ASSUME NEW R, IsFile(R)
    PROVE  /\ \A i, j \in 1 .. Len(R) : i < j => Follows(R, i, j)
           /\ \A i, j \in 1 .. Len(R) : Sooner(R, i, j) => Follows(R, i, j)
  <1>1. ASSUME NEW i \in 1 .. Len(R) PROVE R[i].time \in Int /\ R[i].actor \in Int
    <2>1. R \in Seq([time : Int, actor : Int])
      BY DEF IsFile
    <2>2. R[i] \in [time : Int, actor : Int]
      BY <2>1, Elements
    <2> QED
      BY <2>2
  <1>2. Len(R) \in Nat
    BY DEF IsFile
  <1>3. \A i, j \in 1 .. Len(R) : i < j => Follows(R, i, j)
    BY DEF IsFile, Follows
  <1>4. ASSUME NEW i \in 1 .. Len(R), NEW j \in 1 .. Len(R), Sooner(R, i, j)
        PROVE  Follows(R, i, j)
    <2>1. /\ R[i].time \in Int /\ R[i].actor \in Int
          /\ R[j].time \in Int /\ R[j].actor \in Int
      BY <1>1
    <2>2. CASE R[i].time < R[j].time
      <3>1. ~(j < i)
        BY <2>1, <2>2 DEF IsFile
      <3>2. i # j
        BY <2>1, <2>2
      <3> QED
        BY <1>2, <2>1, <2>2, <3>1, <3>2 DEF Follows
    <2>3. CASE R[i].time = R[j].time
      BY <1>4, <2>1, <2>3 DEF Sooner, Follows
    <2> QED
      BY <1>4, <2>1, <2>2, <2>3 DEF Sooner
  <1> QED
    BY <1>3, <1>4

LEMMA Extended ==
    ASSUME NEW R, IsFile(R), NEW a \in Nat, NEW m \in Nat, a + m <= Len(R),
           NEW p, IsRun(R, p, 0, a), NEW b, IsRun(R, b, a, m)
    PROVE  IsRun(R, p \o b, 0, a + m)
  <1> DEFINE q == p \o b
  <1>1. /\ p \in Seq(Nat) /\ Len(p) = a /\ b \in Seq(Nat) /\ Len(b) = m
        /\ \A k \in 1 .. a : p[k] \in 1 .. a
        /\ \A k \in 1 .. m : b[k] \in a + 1 .. a + m
    BY DEF IsRun
  <1>2. /\ q \in Seq(Nat) /\ Len(q) = a + m
        /\ \A i \in 1 .. a : q[i] = p[i]
        /\ \A i \in 1 .. a + m : i > a => q[i] = b[i - a] /\ i - a \in 1 .. m
    <2>1. /\ p \o b \in Seq(Nat) /\ Len(p \o b) = Len(p) + Len(b)
          /\ \A i \in 1 .. Len(p) : (p \o b)[i] = p[i]
          /\ \A i \in 1 .. Len(p) + Len(b) :
               i > Len(p) => (p \o b)[i] = b[i - Len(p)] /\ i - Len(p) \in 1 .. Len(b)
      <3>1. p \in Seq(Nat) /\ b \in Seq(Nat)
        BY <1>1
      <3> QED
        BY <3>1, Joined
    <2>2. Len(p) = a /\ Len(b) = m
      BY <1>1
    <2>3. q = p \o b
      OBVIOUS
    <2> HIDE DEF q
    <2> QED
      BY <2>1, <2>2, <2>3
  <1>3. \A k \in 1 .. m : k + a \in 1 .. a + m /\ k + a > a /\ (k + a) - a = k
    OBVIOUS
  <1> HIDE DEF q
  <1>4. ASSUME NEW k \in 1 .. a + m PROVE q[k] \in 1 .. a + m
    <2>1. CASE k <= a
      <3>1. k \in 1 .. a
        BY <2>1
      <3>2. q[k] \in 1 .. a
        BY <1>1, <1>2, <3>1
      <3> QED
        BY <3>2
    <2>2. CASE k > a
      <3>1. q[k] \in a + 1 .. a + m
        BY <1>1, <1>2, <2>2
      <3> QED
        BY <3>1
    <2> QED
      BY <2>1, <2>2
  <1>5. ASSUME NEW v \in 1 .. a + m PROVE \E k \in 1 .. a + m : q[k] = v
    <2>1. CASE v <= a
      <3>1. v \in 0 + 1 .. 0 + a
        BY <2>1
      <3>2. PICK k \in 1 .. a : p[k] = v
        BY <3>1 DEF IsRun
      <3>3. k \in 1 .. a + m /\ q[k] = v
        BY <1>2, <3>2
      <3> QED
        BY <3>3
    <2>2. CASE v > a
      <3>1. v \in a + 1 .. a + m
        BY <2>2
      <3>2. PICK k \in 1 .. m : b[k] = v
        BY <3>1 DEF IsRun
      <3>3. k + a \in 1 .. a + m /\ q[k + a] = v
        BY <1>2, <1>3, <3>2
      <3> QED
        BY <3>3
    <2> QED
      BY <2>1, <2>2
  <1>6. ASSUME NEW i \in 1 .. a + m, NEW j \in 1 .. a + m, i < j
        PROVE  Follows(R, q[i], q[j])
    <2>1. CASE j <= a
      <3>1. i \in 1 .. a /\ j \in 1 .. a
        BY <1>6, <2>1
      <3>2. Follows(R, p[i], p[j])
        BY <1>6, <3>1 DEF IsRun
      <3> QED
        BY <1>2, <3>1, <3>2
    <2>2. CASE i > a
      <3>1. j > a /\ i - a < j - a
        BY <1>6, <2>2
      <3>2. /\ q[i] = b[i - a] /\ i - a \in 1 .. m
            /\ q[j] = b[j - a] /\ j - a \in 1 .. m
        BY <1>2, <2>2, <3>1
      <3>3. Follows(R, b[i - a], b[j - a])
        BY <3>1, <3>2 DEF IsRun
      <3> QED
        BY <3>2, <3>3
    <2>3. CASE i <= a /\ j > a
      <3>1. i \in 1 .. a /\ q[i] \in 1 .. a
        <4>1. i \in 1 .. a
          BY <2>3
        <4> QED
          BY <1>1, <1>2, <4>1
      <3>2. q[j] \in a + 1 .. a + m
        <4>1. q[j] = b[j - a] /\ j - a \in 1 .. m
          BY <1>2, <2>3
        <4> QED
          BY <1>1, <4>1
      <3>3. Len(R) \in Nat
        BY DEF IsFile
      <3>4. q[i] \in 1 .. Len(R) /\ q[j] \in 1 .. Len(R) /\ q[i] < q[j]
        BY <3>1, <3>2, <3>3
      <3> QED
        BY <3>4, FileOrders
    <2> QED
      BY <2>1, <2>2, <2>3
  <1>7. \A v \in 0 + 1 .. 0 + (a + m) : \E k \in 1 .. a + m : q[k] = v
    <2>1. 0 + 1 = 1 /\ 0 + (a + m) = a + m
      OBVIOUS
    <2> QED
      BY <1>5, <2>1
  <1>8. \A k \in 1 .. a + m : q[k] \in 0 + 1 .. 0 + (a + m)
    BY <1>4
  <1>9. \A i, j \in 1 .. a + m : i < j => Follows(R, q[i], q[j])
    BY <1>6
  <1>10. IsRun(R, q, 0, a + m)
    BY <1>2, <1>7, <1>8, <1>9 DEF IsRun
  <1> QED
    BY <1>10 DEF q

RecordsOf(s) ==
    IF CsvLoaded(s.csv) THEN CsvRecords[s.csv.dataset] ELSE LobsterRecords[s.lobster.dataset]
Handed(s) == IF CsvLoaded(s.csv) THEN s.csv.cursor ELSE Written(s.lobster)
AppliedInv ==
    Replaying(source) /\ ~Dangling(source) =>
      IsRun(RecordsOf(source), runtime.applied, 0, Handed(source))

LEMMA ReplayedFile ==
    ASSUME NEW s, IsSource(s), Replaying(s), ~Dangling(s)
    PROVE  IsFile(RecordsOf(s))
  <1>1. CASE CsvLoaded(s.csv)
    <2>1. s.csv.dataset \in CsvDatasets
      BY <1>1 DEF IsSource, IsCsv, CsvLoaded
    <2> QED
      BY <1>1, <2>1, Files DEF IsFile, RecordsOf
  <1>2. CASE ~CsvLoaded(s.csv)
    <2>1. s.lobster.dataset \in LobsterDatasets
      BY <1>2 DEF IsSource, IsLobster, LobsterLoaded, Replaying, Dangling
    <2> QED
      BY <1>2, <2>1, Files DEF IsFile, RecordsOf
  <1> QED
    BY <1>1, <1>2

\* A batch hands out the next records, in an order they may be applied in.
LEMMA BatchIsRun ==
    ASSUME SourceFits(source), Replaying(source), ~Dangling(source), ~AtEof(source)
    PROVE  \E m \in Nat :
             /\ Handed(source) \in Nat /\ Handed(source) + m <= Len(RecordsOf(source))
             /\ Handed(AfterBatch) = Handed(source) + m
             /\ RecordsOf(AfterBatch) = RecordsOf(source)
             /\ IsRun(RecordsOf(source), Batch, Handed(source), m)
  <1>1. IsSource(source) /\ IsLobster(source.lobster) /\ IsCsv(source.csv)
    BY DEF SourceFits, IsSource
  <1>2. IsFile(RecordsOf(source))
    BY <1>1, ReplayedFile
  <1>3. Batch \in Seq(Nat)
    BY BatchGoesOn
  <1>4. CASE CsvLoaded(source.csv)
    <2> DEFINE c == source.csv
               a == c.cursor
               m == CsvEnd(c) - a
               R == RecordsOf(source)
    <2>1. ~CsvEof(c) /\ c.cursor <= CsvRows(c) /\ c.dataset \in CsvDatasets
      BY <1>1, <1>4 DEF SourceFits, AtEof, IsCsv, CsvLoaded
    <2>2. /\ CsvEnd(c) \in a + 1 .. CsvRows(c) /\ a \in Nat
          /\ CsvAfterBatch(c).dataset = c.dataset /\ CsvAfterBatch(c).cursor = CsvEnd(c)
      BY <1>1, <1>4, <2>1, CsvGoesOn
    <2>3. R = CsvRecords[c.dataset] /\ CsvRows(c) = Len(R) /\ Len(R) \in Nat
      BY <1>4, <2>1, Files DEF RecordsOf, CsvRows
    <2>4. IsBatch(R, Batch, a, m)
      BY <1>1, <1>4, <2>1, <2>3, CsvBatchFits DEF Batch
    <2>5. PICK s : s = AfterBatch
      OBVIOUS
    <2>6. s.csv = CsvAfterBatch(c) /\ s.lobster = source.lobster
      BY <1>1, <1>4, <2>5 DEF AfterBatch, IsSource
    <2>7. Handed(source) = a /\ Handed(s) = CsvEnd(c) /\ RecordsOf(s) = R
      BY <1>4, <2>2, <2>6 DEF Handed, RecordsOf, CsvLoaded
    <2> HIDE DEF c, R
    <2>8. CsvEnd(c) = a + m /\ m \in Nat /\ a + m <= Len(R)
      BY <2>2, <2>3
    <2> HIDE DEF a, m
    <2>9. IsRun(R, Batch, a, m)
      <3>1. PICK b : b = Batch
        OBVIOUS
      <3>2. /\ b \in [1 .. m -> a + 1 .. a + m] /\ b \in Seq(Nat)
            /\ \A v \in a + 1 .. a + m : \E k \in 1 .. m : b[k] = v
            /\ \A i, j \in 1 .. m : i < j => Sooner(R, b[i], b[j])
        BY <1>3, <2>4, <3>1 DEF IsBatch
      <3>3. Len(b) = m
        BY <2>8, <3>2
      <3>4. \A k \in 1 .. m : b[k] \in a + 1 .. a + m
        BY <3>2
      <3>5. ASSUME NEW k \in 1 .. m PROVE b[k] \in 1 .. Len(R)
        BY <2>2, <2>3, <2>8, <3>4 DEF a
      <3>6. \A i, j \in 1 .. m : i < j => Follows(R, b[i], b[j])
        BY <1>2, <3>2, <3>5, FileOrders DEF R
      <3>7. IsRun(R, b, a, m)
        BY <3>2, <3>3, <3>4, <3>6 DEF IsRun
      <3> QED
        BY <3>1, <3>7
    <2>10. a \in Nat
      BY <2>2 DEF a
    <2> QED
      BY <2>5, <2>7, <2>8, <2>9, <2>10 DEF R
  <1>5. CASE ~CsvLoaded(source.csv)
    <2> DEFINE l == source.lobster
               a == Written(l)
               m == KernelLast(l) - a
               R == RecordsOf(source)
    <2>1. ~LobsterEof(l) /\ InFile(l) /\ source.kernel /\ LobsterLoaded(l) /\ l.dataset \in LobsterDatasets
      BY <1>1, <1>5 DEF SourceFits, AtEof, Replaying, Dangling, IsLobster, LobsterLoaded
    <2>2. /\ KernelFirst(l) = a + 1 /\ KernelLast(l) \in a + 1 .. LobsterRows(l) /\ a \in Nat
          /\ LobsterAfterBatch(l).dataset = l.dataset /\ LobsterAfterBatch(l).started
          /\ LobsterAfterBatch(l).position = KernelLast(l)
      BY <1>1, <2>1, LobsterGoesOn
    <2>3. R = LobsterRecords[l.dataset] /\ LobsterRows(l) = Len(R) /\ Len(R) \in Nat
      BY <1>5, <2>1, Files DEF RecordsOf, LobsterRows
    <2>4. Batch = [k \in 1 .. (KernelLast(l) - (a + 1) + 1) |-> (a + 1) + k - 1]
      BY <1>5, <2>2 DEF Batch, LobsterBatch
    <2>5. PICK s : s = AfterBatch
      OBVIOUS
    <2>6. s.lobster = LobsterAfterBatch(l) /\ s.csv = source.csv
      BY <1>1, <1>5, <2>5 DEF AfterBatch, IsSource
    <2>7. Handed(source) = a /\ Handed(s) = KernelLast(l) /\ RecordsOf(s) = R
      BY <1>5, <2>2, <2>6 DEF Handed, RecordsOf, Written
    <2> HIDE DEF l, R
    <2>8. KernelLast(l) = a + m /\ m \in Nat /\ a + m <= Len(R) /\ a \in Nat
      BY <2>2, <2>3
    <2>9. Batch = [k \in 1 .. m |-> a + k]
      <3>1. PICK e, w : e = KernelLast(l) /\ w = a
        OBVIOUS
      <3>2. e \in Nat /\ w \in Nat /\ e - (w + 1) + 1 = e - w /\ \A k \in 1 .. (e - w) : (w + 1) + k - 1 = w + k
        BY <2>2, <2>3, <3>1
      <3>3. Batch = [k \in 1 .. (e - (w + 1) + 1) |-> (w + 1) + k - 1] /\ m = e - w
        BY <2>4, <3>1
      <3> QED
        BY <3>1, <3>2, <3>3
    <2> HIDE DEF a, m
    <2>10. IsRun(R, Batch, a, m)
      <3>1. PICK b : b = Batch
        OBVIOUS
      <3>2. /\ b \in Seq(Nat) /\ b = [k \in 1 .. m |-> a + k]
        BY <1>3, <2>9, <3>1
      <3>3. Len(b) = m /\ \A k \in 1 .. m : b[k] = a + k
        BY <2>8, <3>2
      <3>4. \A k \in 1 .. m : b[k] \in a + 1 .. a + m
        BY <2>8, <3>3
      <3>5. ASSUME NEW v \in a + 1 .. a + m PROVE \E k \in 1 .. m : b[k] = v
        <4>1. v - a \in 1 .. m /\ a + (v - a) = v
          BY <2>8
        <4> QED
          BY <3>3, <4>1
      <3>6. ASSUME NEW i \in 1 .. m, NEW j \in 1 .. m, i < j PROVE Follows(R, b[i], b[j])
        <4>1. b[i] \in 1 .. Len(R) /\ b[j] \in 1 .. Len(R) /\ b[i] < b[j]
          BY <2>3, <2>8, <3>3, <3>6
        <4> QED
          BY <1>2, <4>1, FileOrders DEF R
      <3>7. IsRun(R, b, a, m)
        BY <3>2, <3>3, <3>4, <3>5, <3>6 DEF IsRun
      <3> QED
        BY <3>1, <3>7
    <2> QED
      BY <2>5, <2>7, <2>8, <2>10 DEF R
  <1> QED
    BY <1>4, <1>5

LEMMA AppliedStep ==
    ASSUME Shape, IsScript(script), AppliedInv, [Next]_vars
    PROVE  AppliedInv'
  <1>1. CASE Renews
    <2>1. PICK market : runtime' = NewRuntime(market)
      BY <1>1 DEF Renews
    <2>2. runtime'.applied = <<>>
      BY <2>1, RenewedRuntime
    <2>3. Replaying(source') => Handed(source') = 0
      BY <1>1 DEF Renews, FreshSource, Handed, Written, Replaying
    <2>4. \A R : IsRun(R, <<>>, 0, 0)
      <3>1. <<>> \in Seq(Nat) /\ Len(<<>>) = 0 /\ 1 .. 0 = {} /\ 0 + 1 .. 0 + 0 = {}
        OBVIOUS
      <3> QED
        BY <3>1 DEF IsRun
    <2> QED
      BY <2>2, <2>3, <2>4 DEF AppliedInv
  <1>2. CASE Polls
    <2>1. runtime'.applied = runtime.applied /\ (Replaying(source') => source' = source)
      BY <1>2 DEF Polls, Shows, Display, Replaying
    <2> QED
      BY <2>1 DEF AppliedInv
  <1>3. CASE Ticks
    <2>1. CASE Replaying(source)
      <3>1. /\ ~Dangling(source) /\ ~AtEof(source) /\ source' = AfterBatch
            /\ runtime'.applied = runtime.applied \o Batch /\ SourceFits(source) /\ IsSource(source)
        BY <1>3, <2>1 DEF Ticks, Shape, SourceFits
      <3>2. PICK m \in Nat :
              /\ Handed(source) \in Nat /\ Handed(source) + m <= Len(RecordsOf(source))
              /\ Handed(AfterBatch) = Handed(source) + m
              /\ RecordsOf(AfterBatch) = RecordsOf(source)
              /\ IsRun(RecordsOf(source), Batch, Handed(source), m)
        BY <2>1, <3>1, BatchIsRun
      <3>3. IsFile(RecordsOf(source)) /\ IsRun(RecordsOf(source), runtime.applied, 0, Handed(source))
        BY <2>1, <3>1, ReplayedFile DEF AppliedInv
      <3>4. IsRun(RecordsOf(source), runtime.applied \o Batch, 0, Handed(source) + m)
        BY <3>2, <3>3, Extended
      <3>5. PICK s : s = AfterBatch
        OBVIOUS
      <3>6. IsRun(RecordsOf(s), runtime'.applied, 0, Handed(s))
        BY <3>1, <3>2, <3>4, <3>5
      <3> QED
        BY <3>1, <3>5, <3>6 DEF AppliedInv
    <2>2. CASE ~Replaying(source)
      BY <1>3, <2>2 DEF Ticks, AppliedInv
    <2> QED
      BY <2>1, <2>2
  <1>4. CASE Launches
    <2>1. PICK family \in Families : LaunchScenario(family)
      BY <1>4 DEF Launches
    <2>2. runtime'.applied = runtime.applied /\ source' = source
      BY <2>1, Launched
    <2> QED
      BY <2>2 DEF AppliedInv
  <1>5. CASE Zeroes
    BY <1>5 DEF Zeroes, AppliedInv
  <1>6. CASE Breaks
    <2>1. SUFFICES ASSUME Replaying(source'), ~Dangling(source')
                   PROVE  IsRun(RecordsOf(source'), runtime'.applied, 0, Handed(source'))
      BY DEF AppliedInv
    <2>2. CsvLoaded(source.csv) /\ source'.csv = source.csv /\ runtime'.applied = runtime.applied
      BY <1>6, <2>1 DEF Breaks
    <2>3. Replaying(source) /\ ~Dangling(source)
      BY <2>2 DEF Shape, SourceFits, Replaying, Dangling
    <2>4. RecordsOf(source') = RecordsOf(source) /\ Handed(source') = Handed(source)
      BY <2>2 DEF RecordsOf, Handed
    <2> QED
      BY <2>2, <2>3, <2>4 DEF AppliedInv
  <1> QED
    BY <1>1, <1>2, <1>3, <1>4, <1>5, <1>6, StepKinds

\* Whatever requests, ticks and comparisons come, and however they fail, the
\* book of a replay has seen each record that was handed out once, in order.
THEOREM RecordsOnceInOrder == Spec => []RecordsAppliedOnce
  <1> DEFINE Inv == Shape /\ IsScript(script) /\ AppliedInv
  <1>1. Init => Inv
    BY Begins DEF AppliedInv
  <1>2. Inv /\ [Next]_vars => Inv'
    BY ShapeStep, ScriptStep, AppliedStep
  <1>3. ASSUME Shape, AppliedInv, Replaying(source), ~Dangling(source)
        PROVE  /\ ToSet(runtime.applied) = 1 .. HandedOut /\ Len(runtime.applied) = HandedOut
               /\ AtEof(source) => HandedOut = RecordCount
               /\ \A i, j \in 1 .. HandedOut : i < j =>
                    /\ Record(runtime.applied[i]).time <= Record(runtime.applied[j]).time
                    /\ Record(runtime.applied[i]).actor = Record(runtime.applied[j]).actor =>
                         runtime.applied[i] < runtime.applied[j]
    <2>1. /\ HandedOut = Handed(source) /\ \A i : Record(i) = RecordsOf(source)[i]
      BY DEF HandedOut, Handed, Written, Record, RecordsOf
    <2>2. IsRun(RecordsOf(source), runtime.applied, 0, HandedOut)
      BY <1>3, <2>1 DEF AppliedInv
    <2>3. AtEof(source) => HandedOut = RecordCount
      <3>1. SourceFits(source) /\ IsCsv(source.csv) /\ IsLobster(source.lobster)
        BY <1>3 DEF Shape, SourceFits, IsSource
      <3>2. CASE CsvLoaded(source.csv)
        <4>1. CsvRows(source.csv) \in Nat /\ source.csv.cursor \in Nat /\ source.csv.cursor <= CsvRows(source.csv)
          BY <3>1, <3>2, Files DEF CsvRows, IsCsv, CsvLoaded, SourceFits
        <4> QED
          BY <3>2, <4>1 DEF AtEof, CsvEof, HandedOut, RecordCount
      <3>3. CASE ~CsvLoaded(source.csv)
        <4>1. LobsterLoaded(source.lobster) /\ InFile(source.lobster)
          BY <1>3, <3>1, <3>3 DEF SourceFits, Replaying, Dangling
        <4>2. LobsterRows(source.lobster) \in Nat
          BY <3>1, <4>1, Files DEF LobsterRows, IsLobster, LobsterLoaded
        <4> QED
          BY <3>3, <4>1, <4>2 DEF AtEof, LobsterEof, InFile, HandedOut, RecordCount
      <3> QED
        BY <3>2, <3>3
    <2>4. PICK f, n, R : f = runtime.applied /\ n = HandedOut /\ R = RecordsOf(source)
      OBVIOUS
    <2>5. /\ f \in Seq(Nat) /\ Len(f) = n
          /\ \A k \in 1 .. n : f[k] \in 0 + 1 .. 0 + n
          /\ \A v \in 0 + 1 .. 0 + n : \E k \in 1 .. n : f[k] = v
          /\ \A i, j \in 1 .. n : i < j => Follows(R, f[i], f[j])
      BY <2>2, <2>4 DEF IsRun
    <2>6. ToSet(f) = 1 .. n
      <3>1. n \in Nat /\ 0 + 1 = 1 /\ 0 + n = n /\ DOMAIN f = 1 .. n
        BY <2>5
      <3> QED
        BY <2>5, <3>1 DEF ToSet
    <2>7. \A i, j \in 1 .. n : i < j =>
            /\ Record(f[i]).time <= Record(f[j]).time
            /\ Record(f[i]).actor = Record(f[j]).actor => f[i] < f[j]
      BY <2>1, <2>4, <2>5 DEF Follows
    <2> QED
      BY <2>3, <2>4, <2>5, <2>6, <2>7
  <1>4. Inv => RecordsAppliedOnce
    BY <1>3 DEF RecordsAppliedOnce
  <1> QED
    BY <1>1, <1>2, <1>4, PTL DEF Spec
=============================================================================
