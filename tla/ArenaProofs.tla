------------------------------ MODULE ArenaProofs ------------------------------
(***************************************************************************)
(* Proofs about the reference arena, for any number of agents, detectors,  *)
(* scenarios, resets, ticks and failing appends.  The four parts of the    *)
(* inductive invariant are each kept by every step on their own, so each   *)
(* has a theorem of its own.                                               *)
(***************************************************************************)
EXTENDS ReferenceArena, FiniteSetTheorems, SequenceTheorems, WellFoundedInduction, TLAPS

-----------------------------------------------------------------------------
(* Sequences *)

LEMMA Enumerated ==
    ASSUME NEW S, NEW n \in Nat, NEW f \in [1 .. n -> S]
    PROVE  f \in Seq(S) /\ Len(f) = n
OBVIOUS

LEMMA Joined ==
    ASSUME NEW S, NEW s \in Seq(S), NEW t \in Seq(S)
    PROVE  /\ s \o t \in Seq(S) /\ Len(s \o t) = Len(s) + Len(t)
           /\ Len(s) \in Nat /\ Len(t) \in Nat
           /\ \A i \in 1 .. Len(s) : (s \o t)[i] = s[i]
           /\ \A i \in 1 .. Len(s) + Len(t) : i > Len(s) => (s \o t)[i] = t[i - Len(s)] /\ i - Len(s) \in 1 .. Len(t)
OBVIOUS

LEMMA NothingJoined ==
    ASSUME NEW S, NEW s \in Seq(S)
    PROVE  s \o <<>> = s
OBVIOUS

LEMMA Appended ==
    ASSUME NEW S, NEW s \in Seq(S), NEW e \in S
    PROVE  /\ Append(s, e) \in Seq(S) /\ Len(Append(s, e)) = Len(s) + 1 /\ Len(s) \in Nat
           /\ \A i \in 1 .. Len(s) : Append(s, e)[i] = s[i]
           /\ Append(s, e)[Len(s) + 1] = e
OBVIOUS

\* All of a sequence but its last element.
LEMMA Shortened ==
    ASSUME NEW S, NEW s \in Seq(S), Len(s) > 0
    PROVE  /\ Front(s) \in Seq(S) /\ Len(Front(s)) = Len(s) - 1
           /\ \A i \in 1 .. Len(s) - 1 : Front(s)[i] = s[i]
<1> DEFINE l == Len(s) - 1
           f == SubSeq(s, 1, l)
<1>1. 1 \in Int /\ l \in Int /\ \A i \in 1 .. l : s[i] \in S OBVIOUS
<1>2. /\ f \in Seq(S) /\ Len(f) = IF 1 <= l THEN l - 1 + 1 ELSE 0
      /\ \A i \in 1 .. l - 1 + 1 : f[i] = s[1 + i - 1]
    BY <1>1, SubSeqProperties
<1>3. l \in Nat OBVIOUS
<1>4. Front(s) = f BY DEF Front
<1> HIDE DEF f, l
<1>5. Len(f) = l BY <1>2, <1>3
<1>6. ASSUME NEW i \in 1 .. l PROVE f[i] = s[i]
    <2>1. i \in 1 .. l - 1 + 1 /\ 1 + i - 1 = i BY <1>3
    <2>2. f[i] = s[1 + i - 1] BY <1>2, <2>1
    <2> QED BY <2>1, <2>2
<1>7. /\ Front(s) \in Seq(S) /\ Len(Front(s)) = l
      /\ \A i \in 1 .. l : Front(s)[i] = s[i]
    BY <1>2, <1>4, <1>5, <1>6
<1> QED BY <1>7 DEF l

\* A set of natural numbers that is not empty has a least element.
LEMMA LeastOf ==
    ASSUME NEW S \in SUBSET Nat, S # {}
    PROVE  \E m \in S : \A n \in S : m <= n
<1>1. IsWellFoundedOn(OpToRel(<, Nat), Nat) BY NatLessThanWellFounded
<1>2. PICK m \in S : \A n \in S : ~(<<n, m>> \in OpToRel(<, Nat)) BY <1>1, WFMin
<1>3. \A n \in S : ~(n < m) BY <1>2 DEF OpToRel
<1> QED BY <1>3

LEMMA CardinalityOfFront ==
    ASSUME NEW n \in Nat
    PROVE  Cardinality(1 .. n) = n
<1>1. 1 \in Int /\ n \in Int OBVIOUS
<1>2. Cardinality(1 .. n) = IF 1 > n THEN 0 ELSE n - 1 + 1 BY <1>1, FS_Interval
<1> QED BY <1>2

-----------------------------------------------------------------------------
(* Late ticks *)

\* A loop that is queued has read the flag, and has not begun a tick since.
LateInv ==
    /\ late \in {0, 1}
    /\ running => late = 0
    /\ loop = "queued" => late = 0

LEMMA HandleKeepsLate ==
    ASSUME LateInv, NEW c, Handle(c)
    PROVE  LateInv'
<1>1. CASE Reset BY <1>1 DEF Reset, LateInv
<1>2. ASSUME NEW fired, NEW cut, Start(fired, cut) PROVE LateInv'
    BY <1>2 DEF Start, Revive, LateInv
<1>3. ASSUME NEW fired, NEW cut, Pause(fired, cut) PROVE LateInv'
    BY <1>3 DEF Pause, LateInv
<1>4. ASSUME NEW family, NEW fired, NEW cut, StartScenario(family, fired, cut) PROVE LateInv'
    <2>1. CASE ArmingFails(Started(family)) BY <2>1 DEF ArmingFails, LateInv
    <2>2. CASE running' = TRUE /\ late' = 0 /\ Revive BY <2>2 DEF Revive, LateInv
    <2> QED BY <1>4, <2>1, <2>2 DEF StartScenario
<1> QED BY <1>1, <1>2, <1>3, <1>4 DEF Handle

\* An arena that was told to stand still begins at most one more tick, though
\* the flag is read before the lock is taken and never again.
THEOREM AtMostOneLateTick == Spec => []OneLateTick
<1>1. Init => LateInv BY DEF Init, LateInv
<1>2. LateInv /\ [Next]_vars => LateInv'
    <2> SUFFICES ASSUME LateInv, [Next]_vars PROVE LateInv' OBVIOUS
    <2>1. ASSUME NEW c \in Calls, Call(c) PROVE LateInv'
        <3>1. CASE Handle(c) BY <3>1, HandleKeepsLate
        <3>2. CASE UNCHANGED <<running, loop, late>> BY <3>2 DEF LateInv
        <3> QED BY <2>1, <3>1, <3>2 DEF Call
    <2>2. CASE Serve BY <2>2, HandleKeepsLate DEF Serve
    <2>3. CASE Wake BY <2>3 DEF Wake, WillTick, BeginTick, LateInv
    <2>4. CASE TakeTurn BY <2>4 DEF TakeTurn, BeginTick, LateInv
    <2>5. CASE Finish
        <3>1. UNCHANGED <<running, late>> /\ loop' \in {"ended", "asleep"}
            BY <2>5 DEF Finish, StreamFails, TickFails, TickEnds
        <3> QED BY <3>1 DEF LateInv
    <2>6. CASE Stop BY <2>6 DEF Stop, LateInv
    <2>7. CASE UNCHANGED vars BY <2>7 DEF vars, LateInv
    <2> QED BY <2>1, <2>2, <2>3, <2>4, <2>5, <2>6, <2>7 DEF Next
<1>3. LateInv => OneLateTick BY DEF LateInv, OneLateTick
<1> QED BY <1>1, <1>2, <1>3, PTL DEF Spec

-----------------------------------------------------------------------------
(* Published states *)

LogRow == [tick : Nat, kind : {"order", "snapshot"}]

\* The log is in the order of its ticks, and what the last state counts is the
\* front of it; a tick that is under way is not yet published.
PublishInv ==
    /\ tick \in Nat
    /\ log \in Seq(LogRow)
    /\ \A i \in 1 .. Len(log) : log[i].tick <= tick
    /\ state \in [tick : 0 .. tick, running : BOOLEAN, entries : 0 .. Len(log)]
    /\ \A i \in 1 .. Len(log) : log[i].tick <= state.tick <=> i <= state.entries
    /\ loop = "deciding" => state.tick < tick

\* What a state shows when it was built, whichever append failed.
LEMMA BuildShows ==
    ASSUME NEW s, NEW t, NEW n, NEW run, NEW fired, NEW cut, Build(s, t, n, run, fired, cut)
    PROVE  state' \in {state, [tick |-> t, running |-> run, entries |-> n]}
BY DEF Build

\* A request builds the state of the present tick or none.
LEMMA RequestShows ==
    ASSUME NEW c, Handle(c), ~Reset
    PROVE  /\ \E run \in BOOLEAN : state' \in {state, [tick |-> tick, running |-> run, entries |-> Len(log)]}
           /\ UNCHANGED <<tick, log>>
           /\ loop' \in {loop, "asleep"}
<1>1. ASSUME NEW fired, NEW cut, Start(fired, cut)
      PROVE  /\ state' \in {state, [tick |-> tick, running |-> TRUE, entries |-> Len(log)]}
             /\ UNCHANGED <<tick, log>>
             /\ loop' \in {loop, "asleep"}
    BY <1>1, BuildShows DEF Start, Revive, market
<1>2. ASSUME NEW fired, NEW cut, Pause(fired, cut)
      PROVE  /\ state' \in {state, [tick |-> tick, running |-> FALSE, entries |-> Len(log)]}
             /\ UNCHANGED <<tick, log>>
             /\ loop' \in {loop, "asleep"}
    BY <1>2, BuildShows DEF Pause, market
<1>3. ASSUME NEW family, NEW fired, NEW cut, StartScenario(family, fired, cut)
      PROVE  /\ state' \in {state, [tick |-> tick, running |-> TRUE, entries |-> Len(log)]}
             /\ UNCHANGED <<tick, log>>
             /\ loop' \in {loop, "asleep"}
    BY <1>3, BuildShows DEF StartScenario, ArmingFails, Revive, market
<1> QED BY <1>1, <1>2, <1>3 DEF Handle

LEMMA HandleKeepsPublished ==
    ASSUME PublishInv, NEW c, Handle(c), Free
    PROVE  PublishInv'
<1>1. CASE Reset BY <1>1 DEF Reset, PublishInv, Free
<1>2. CASE ~Reset
    <2>1. PICK run \in BOOLEAN : state' \in {state, [tick |-> tick, running |-> run, entries |-> Len(log)]}
        BY <1>2, RequestShows
    <2>2. UNCHANGED <<tick, log>> /\ loop' # "deciding" BY <1>2, RequestShows DEF Free
    <2>3. Len(log) \in Nat BY DEF PublishInv
    <2>4. CASE state' = state BY <2>2, <2>4 DEF PublishInv
    <2>5. CASE state' = [tick |-> tick, running |-> run, entries |-> Len(log)]
        BY <2>2, <2>3, <2>5 DEF PublishInv
    <2> QED BY <2>1, <2>4, <2>5
<1> QED BY <1>1, <1>2

\* The rest of a tick appends events of that tick, the snapshot last.
LEMMA EntriesGrow ==
    ASSUME tick \in Nat, log \in Seq(LogRow), NEW done \in SUBSET Agents, IsFiniteSet(Agents)
    PROVE  /\ Entries(done) \in Seq(LogRow)
           /\ Len(Entries(done)) > Len(log)
           /\ \A i \in 1 .. Len(log) : Entries(done)[i] = log[i]
           /\ \A i \in 1 .. Len(Entries(done)) : i > Len(log) => Entries(done)[i].tick = tick
<1> DEFINE orders == [i \in 1 .. Cardinality(done) |-> [tick |-> tick, kind |-> "order"]]
           snapshot == <<[tick |-> tick, kind |-> "snapshot"]>>
<1>1. Cardinality(done) \in Nat BY FS_Subset, FS_CardinalityType
<1>2. orders \in [1 .. Cardinality(done) -> LogRow] BY <1>1 DEF LogRow
<1>3. orders \in Seq(LogRow) /\ Len(orders) = Cardinality(done) BY <1>1, <1>2, Enumerated
<1>4. \A i \in 1 .. Len(orders) : orders[i].tick = tick BY <1>1, <1>3
<1>5. snapshot \in Seq(LogRow) /\ Len(snapshot) = 1 /\ snapshot[1].tick = tick BY DEF LogRow
<1>6. Entries(done) = (log \o orders) \o snapshot BY DEF Entries
<1> HIDE DEF orders, snapshot
<1> DEFINE front == log \o orders
<1>7. /\ front \in Seq(LogRow) /\ Len(front) = Len(log) + Len(orders)
      /\ Len(log) \in Nat /\ Len(orders) \in Nat
      /\ \A i \in 1 .. Len(log) : front[i] = log[i]
      /\ \A i \in 1 .. Len(log) + Len(orders) : i > Len(log) => front[i] = orders[i - Len(log)] /\ i - Len(log) \in 1 .. Len(orders)
    BY <1>3, Joined
<1> HIDE DEF front
<1>8. Entries(done) = front \o snapshot BY <1>6 DEF front
<1>9. /\ Entries(done) \in Seq(LogRow) /\ Len(Entries(done)) = Len(front) + 1
      /\ \A i \in 1 .. Len(front) : Entries(done)[i] = front[i]
      /\ \A i \in 1 .. Len(front) + 1 : i > Len(front) => Entries(done)[i] = snapshot[i - Len(front)] /\ i - Len(front) \in 1 .. 1
    <2>1. front \in Seq(LogRow) /\ snapshot \in Seq(LogRow) BY <1>5, <1>7
    <2>2. /\ front \o snapshot \in Seq(LogRow) /\ Len(front \o snapshot) = Len(front) + Len(snapshot)
          /\ \A i \in 1 .. Len(front) : (front \o snapshot)[i] = front[i]
          /\ \A i \in 1 .. Len(front) + Len(snapshot) :
                i > Len(front) => (front \o snapshot)[i] = snapshot[i - Len(front)] /\ i - Len(front) \in 1 .. Len(snapshot)
        BY <2>1, Joined
    <2> QED BY <1>5, <1>8, <2>2
<1>10. ASSUME NEW i \in 1 .. Len(Entries(done)), i > Len(log) PROVE Entries(done)[i].tick = tick
    <2>1. CASE i <= Len(front)
        BY <1>4, <1>7, <1>9, <1>10, <2>1
    <2>2. CASE i > Len(front) BY <1>5, <1>7, <1>9, <1>10, <2>2
    <2> QED BY <1>7, <2>1, <2>2
<1>11. \A i \in 1 .. Len(log) : Entries(done)[i] = log[i] BY <1>7, <1>9
<1> QED BY <1>7, <1>9, <1>10, <1>11

LEMMA FinishKeepsPublished ==
    ASSUME PublishInv, Finish
    PROVE  PublishInv'
<1>1. PICK done \in SUBSET Agents, fired \in SUBSET Range(Detectors) :
        /\ log' = Entries(done) /\ UNCHANGED tick
        /\ \/ StreamFails(Entries(done))
           \/ TickFails(Advanced(scenario, tick), Entries(done), fired)
           \/ TickEnds(Advanced(scenario, tick), Entries(done), fired)
    BY DEF Finish
<1>2. state' \in {state, [tick |-> tick, running |-> TRUE, entries |-> Len(Entries(done))]}
    <2>1. CASE StreamFails(Entries(done)) BY <2>1 DEF StreamFails
    <2>2. CASE TickFails(Advanced(scenario, tick), Entries(done), fired) BY <2>2, BuildShows DEF TickFails
    <2>3. CASE TickEnds(Advanced(scenario, tick), Entries(done), fired) BY <2>3, BuildShows DEF TickEnds
    <2> QED BY <1>1, <2>1, <2>2, <2>3
<1>3. loop' # "deciding" BY <1>1 DEF StreamFails, TickFails, TickEnds
<1>4. /\ Entries(done) \in Seq(LogRow) /\ Len(Entries(done)) > Len(log)
      /\ \A i \in 1 .. Len(log) : Entries(done)[i] = log[i]
      /\ \A i \in 1 .. Len(Entries(done)) : i > Len(log) => Entries(done)[i].tick = tick
    BY EntriesGrow, ReferenceArenaAssumption DEF PublishInv
<1>5. Len(log) \in Nat /\ Len(Entries(done)) \in Nat BY <1>4 DEF PublishInv
<1>6. state.tick < tick BY DEF Finish, PublishInv
<1>7. \A i \in 1 .. Len(log') : log'[i].tick <= tick BY <1>1, <1>4, <1>5 DEF PublishInv
<1>8. CASE state' = state
    <2>1. \A i \in 1 .. Len(log') : log'[i].tick <= state.tick <=> i <= state.entries
        BY <1>1, <1>4, <1>5, <1>6 DEF PublishInv
    <2> QED BY <1>1, <1>3, <1>4, <1>5, <1>7, <1>8, <2>1 DEF PublishInv
<1>9. CASE state' = [tick |-> tick, running |-> TRUE, entries |-> Len(Entries(done))]
    BY <1>1, <1>3, <1>4, <1>5, <1>7, <1>9 DEF PublishInv
<1> QED BY <1>2, <1>8, <1>9

\* A published state shows whole ticks, though requests come in the middle of a
\* tick and ticks fail half way.
THEOREM StatesShowWholeTicks == Spec => []PublishedWhole
<1>1. Init => PublishInv BY DEF Init, PublishInv
<1>2. PublishInv /\ [Next]_vars => PublishInv'
    <2> SUFFICES ASSUME PublishInv, [Next]_vars PROVE PublishInv' OBVIOUS
    <2>1. ASSUME NEW c \in Calls, Call(c) PROVE PublishInv'
        <3>1. CASE Free /\ Handle(c) BY <3>1, HandleKeepsPublished
        <3>2. CASE UNCHANGED <<loop, market, state>> BY <3>2 DEF PublishInv, market
        <3> QED BY <2>1, <3>1, <3>2 DEF Call
    <2>2. CASE Serve BY <2>2, HandleKeepsPublished DEF Serve
    <2>3. ASSUME BeginTick PROVE PublishInv'
        <3>1. tick' = tick + 1 /\ UNCHANGED <<log, state>> BY <2>3 DEF BeginTick
        <3>2. tick \in Nat /\ state.tick \in 0 .. tick BY DEF PublishInv
        <3>3. tick' \in Nat /\ state'.tick < tick' BY <3>1, <3>2
        <3>4. state' \in [tick : 0 .. tick', running : BOOLEAN, entries : 0 .. Len(log')]
            BY <3>1, <3>2 DEF PublishInv
        <3>5. log' \in Seq(LogRow) BY <3>1 DEF PublishInv
        <3>6. \A i \in 1 .. Len(log) : log[i].tick \in Nat
            <4> SUFFICES ASSUME NEW i \in 1 .. Len(log) PROVE log[i].tick \in Nat OBVIOUS
            <4>1. log[i] \in LogRow BY DEF PublishInv
            <4> QED BY <4>1 DEF LogRow
        <3>7. \A i \in 1 .. Len(log') : log'[i].tick <= tick' BY <3>1, <3>2, <3>6 DEF PublishInv
        <3>8. \A i \in 1 .. Len(log') : log'[i].tick <= state'.tick <=> i <= state'.entries
            BY <3>1 DEF PublishInv
        <3> QED BY <3>3, <3>4, <3>5, <3>7, <3>8 DEF PublishInv
    <2>4. CASE Wake
        <3>1. CASE BeginTick BY <2>3, <3>1
        <3>2. CASE loop' = "queued" /\ UNCHANGED <<market, state>> BY <3>2 DEF PublishInv, market
        <3> QED BY <2>4, <3>1, <3>2 DEF Wake
    <2>5. CASE TakeTurn BY <2>3, <2>5 DEF TakeTurn
    <2>6. CASE Finish BY <2>6, FinishKeepsPublished
    <2>7. CASE Stop BY <2>7 DEF Stop, PublishInv, market
    <2>8. CASE UNCHANGED vars BY <2>8 DEF vars, PublishInv, market
    <2> QED BY <2>1, <2>2, <2>4, <2>5, <2>6, <2>7, <2>8 DEF Next
<1>3. PublishInv => PublishedWhole
    <2> SUFFICES ASSUME PublishInv PROVE state.entries = Cardinality({i \in DOMAIN log : log[i].tick <= state.tick})
        BY DEF PublishedWhole
    <2>1. state.entries \in Nat /\ state.entries <= Len(log) /\ DOMAIN log = 1 .. Len(log) BY DEF PublishInv
    <2>2. {i \in DOMAIN log : log[i].tick <= state.tick} = 1 .. state.entries BY <2>1 DEF PublishInv
    <2>3. Cardinality(1 .. state.entries) = state.entries BY <2>1, CardinalityOfFront
    <2> QED BY <2>2, <2>3
<1> QED BY <1>1, <1>2, <1>3, PTL DEF Spec

-----------------------------------------------------------------------------
(* The stream file *)

FileRow == [stream : Nat, seq : Nat]

\* One row follows another: the same again, the next, or the first of a later stream.
Follows(r, q) ==
    IF q.stream = r.stream THEN q.seq \in {r.seq, r.seq + 1}
    ELSE q.stream > r.stream /\ q.seq = 1

\* Behind what is counted the file has at most one row more, and a failure has
\* paid for it, as for every row that repeats the one before.
FileInv ==
    /\ tick \in Nat /\ generation \in Nat /\ persisted \in Nat /\ faults \in Nat
    /\ log \in Seq(LogRow)
    /\ streamFile \in Seq(FileRow)
    /\ \A i \in 1 .. Len(streamFile) : streamFile[i].stream <= generation
    /\ streamFile # <<>> => streamFile[1].seq = 1
    /\ \A i \in 2 .. Len(streamFile) : Follows(streamFile[i - 1], streamFile[i])
    /\ LastRow \in {persisted, persisted + 1} /\ LastRow <= Len(log)
    /\ Cardinality(Repeated) + (LastRow - persisted) <= faults
    /\ faults = 0 => LastRow = Len(log)

LEMMA RepeatedCounted ==
    ASSUME streamFile \in Seq(FileRow)
    PROVE  IsFiniteSet(Repeated) /\ Cardinality(Repeated) \in Nat
<1>1. Len(streamFile) \in Nat OBVIOUS
<1>2. IsFiniteSet(2 .. Len(streamFile)) BY <1>1, FS_Interval
<1>3. Repeated \subseteq 2 .. Len(streamFile) BY DEF Repeated
<1> QED BY <1>2, <1>3, FS_Subset, FS_CardinalityType

\* A request leaves the stream file alone, unless it starts a new stream.
LEMMA RequestLeavesFile ==
    ASSUME FileInv, NEW c, Handle(c), ~Reset
    PROVE  UNCHANGED <<tick, generation, log, persisted, streamFile>> /\ faults' \in {faults, faults + 1}
<1>1. ASSUME NEW fired, NEW cut, Start(fired, cut)
      PROVE  UNCHANGED <<tick, generation, log, persisted, streamFile>> /\ faults' \in {faults, faults + 1}
    BY <1>1 DEF Start, Count, market
<1>2. ASSUME NEW fired, NEW cut, Pause(fired, cut)
      PROVE  UNCHANGED <<tick, generation, log, persisted, streamFile>> /\ faults' \in {faults, faults + 1}
    BY <1>2 DEF Pause, Count, market
<1>3. ASSUME NEW family, NEW fired, NEW cut, StartScenario(family, fired, cut)
      PROVE  UNCHANGED <<tick, generation, log, persisted, streamFile>> /\ faults' \in {faults, faults + 1}
    BY <1>3 DEF StartScenario, ArmingFails, Count, market
<1> QED BY <1>1, <1>2, <1>3 DEF Handle

LEMMA SameFile ==
    ASSUME FileInv, UNCHANGED <<tick, generation, log, persisted, streamFile>>, faults' \in {faults, faults + 1}
    PROVE  FileInv'
<1>1. LastRow' = LastRow BY DEF LastRow
<1>2. Repeated' = Repeated BY DEF Repeated
<1>3. Cardinality(Repeated) \in Nat BY RepeatedCounted DEF FileInv
<1>4. LastRow \in Nat BY DEF FileInv
<1> QED BY <1>1, <1>2, <1>3, <1>4 DEF FileInv

LEMMA ResetKeepsFile ==
    ASSUME FileInv, Reset
    PROVE  FileInv'
<1>1. /\ tick' = 0 /\ generation' = generation + 1 /\ log' = <<>> /\ persisted' = 0
      /\ UNCHANGED <<streamFile, faults>>
    BY DEF Reset, PersistedAfterReset, files
<1>2. \A i \in 1 .. Len(streamFile) : streamFile[i].stream <= generation /\ streamFile[i].stream \in Nat
    <2> SUFFICES ASSUME NEW i \in 1 .. Len(streamFile)
                 PROVE  streamFile[i].stream <= generation /\ streamFile[i].stream \in Nat
        OBVIOUS
    <2>1. streamFile[i] \in FileRow BY DEF FileInv
    <2> QED BY <2>1 DEF FileInv, FileRow
<1>3. LastRow' = 0
    <2>1. CASE streamFile = <<>> BY <1>1, <2>1 DEF LastRow
    <2>2. CASE streamFile # <<>>
        <3>1. Len(streamFile) \in 1 .. Len(streamFile) BY <2>2 DEF FileInv
        <3>2. Last(streamFile).stream <= generation /\ Last(streamFile).stream \in Nat BY <1>2, <3>1 DEF Last
        <3>3. generation \in Nat BY DEF FileInv
        <3>4. Last(streamFile).stream # generation + 1 BY <3>2, <3>3
        <3> QED BY <1>1, <3>4 DEF LastRow
    <2> QED BY <2>1, <2>2
<1>4. Repeated' = Repeated BY <1>1 DEF Repeated
<1>5. Cardinality(Repeated) \in Nat BY RepeatedCounted DEF FileInv
<1>6. Cardinality(Repeated) <= faults BY <1>5 DEF FileInv
<1>7. log' \in Seq(LogRow) /\ Len(log') = 0 BY <1>1
<1>8. \A i \in 1 .. Len(streamFile) : streamFile[i].stream <= generation + 1 BY <1>2 DEF FileInv
<1> QED BY <1>1, <1>3, <1>4, <1>5, <1>6, <1>7, <1>8 DEF FileInv

\* The rows a tick appends: at most the first of them repeats the last one of
\* the file, and only when that one was not counted.
LEMMA RowsAppended ==
    ASSUME FileInv, NEW k \in Nat, k > 0, generation' = generation,
           streamFile' = streamFile \o [i \in 1 .. k |-> Row(persisted + i)]
    PROVE  /\ streamFile' \in Seq(FileRow)
           /\ \A i \in 1 .. Len(streamFile') : streamFile'[i].stream <= generation
           /\ streamFile'[1].seq = 1
           /\ \A i \in 2 .. Len(streamFile') : Follows(streamFile'[i - 1], streamFile'[i])
           /\ LastRow' = persisted + k
           /\ Cardinality(Repeated') <= Cardinality(Repeated) + (LastRow - persisted)
           /\ Cardinality(Repeated') \in Nat
<1> DEFINE rows == [i \in 1 .. k |-> Row(persisted + i)]
           m == Len(streamFile)
<1>1. /\ persisted \in Nat /\ generation \in Nat /\ streamFile \in Seq(FileRow) /\ m \in Nat
      /\ LastRow \in {persisted, persisted + 1}
    BY DEF FileInv
<1>2. rows \in [1 .. k -> FileRow] BY <1>1 DEF Row, FileRow
<1>3. rows \in Seq(FileRow) /\ Len(rows) = k BY <1>2, Enumerated
<1>4. \A i \in 1 .. k : rows[i].stream = generation /\ rows[i].seq = persisted + i BY DEF Row
<1>5. \A i \in 1 .. k : rows[i] = [stream |-> generation, seq |-> persisted + i] BY DEF Row
<1>6. streamFile' = streamFile \o rows OBVIOUS
<1> HIDE DEF rows
<1>7. /\ streamFile' \in Seq(FileRow) /\ Len(streamFile') = m + k
      /\ \A i \in 1 .. m : streamFile'[i] = streamFile[i]
      /\ \A i \in 1 .. m + k : i > m => streamFile'[i] = rows[i - m] /\ i - m \in 1 .. k
    <2>1. /\ streamFile \o rows \in Seq(FileRow) /\ Len(streamFile \o rows) = Len(streamFile) + Len(rows)
          /\ \A i \in 1 .. Len(streamFile) : (streamFile \o rows)[i] = streamFile[i]
          /\ \A i \in 1 .. Len(streamFile) + Len(rows) :
                i > Len(streamFile) => (streamFile \o rows)[i] = rows[i - Len(streamFile)] /\ i - Len(streamFile) \in 1 .. Len(rows)
        BY <1>1, <1>3, Joined
    <2> QED BY <1>3, <1>6, <2>1
<1>8. ASSUME NEW i \in 1 .. Len(streamFile') PROVE streamFile'[i].stream <= generation
    <2>1. CASE i <= m BY <1>1, <1>7, <2>1 DEF FileInv
    <2>2. CASE i > m
        <3>1. streamFile'[i] = rows[i - m] /\ i - m \in 1 .. k BY <1>1, <1>7, <2>2
        <3> QED BY <1>1, <1>4, <3>1
    <2> QED BY <1>1, <1>7, <2>1, <2>2
\* the row before the first new one
<1>9. ASSUME m > 0
      PROVE  /\ streamFile[m] \in FileRow /\ streamFile[m].stream <= generation
             /\ LastRow = IF streamFile[m].stream = generation THEN streamFile[m].seq ELSE 0
    <2>1. m \in 1 .. m /\ streamFile # <<>> BY <1>1, <1>9
    <2>2. streamFile[m] \in FileRow /\ streamFile[m].stream <= generation BY <1>1, <2>1 DEF FileInv
    <2> QED BY <2>1, <2>2 DEF LastRow, Last
<1>10. m = 0 => persisted = 0
    <2>1. m = 0 => LastRow = 0 BY <1>1 DEF LastRow
    <2> QED BY <1>1, <2>1
<1>11. streamFile'[1].seq = 1
    <2>1. CASE m = 0
        <3>1. 1 \in 1 .. m + k /\ 1 > m BY <1>1, <2>1
        <3>2. streamFile'[1] = rows[1] BY <1>7, <2>1, <3>1
        <3> QED BY <1>4, <1>10, <2>1, <3>2
    <2>2. CASE m > 0
        <3>1. 1 \in 1 .. m /\ streamFile # <<>> BY <1>1, <2>2
        <3> QED BY <1>7, <3>1 DEF FileInv
    <2> QED BY <1>1, <2>1, <2>2
<1>12. streamFile'[m + 1] = [stream |-> generation, seq |-> persisted + 1]
    <2>1. m + 1 \in 1 .. m + k /\ m + 1 > m /\ (m + 1) - m = 1 BY <1>1
    <2> QED BY <1>5, <1>7, <2>1
<1>13. ASSUME NEW i \in 2 .. Len(streamFile') PROVE Follows(streamFile'[i - 1], streamFile'[i])
    <2>1. CASE i <= m
        <3>1. i \in 2 .. m /\ i \in 1 .. m /\ i - 1 \in 1 .. m BY <1>1, <2>1
        <3>2. streamFile'[i] = streamFile[i] /\ streamFile'[i - 1] = streamFile[i - 1] BY <1>7, <3>1
        <3> QED BY <3>1, <3>2 DEF FileInv
    <2>2. CASE i = m + 1
        <3>1. m > 0 /\ i - 1 = m /\ m \in 1 .. m BY <1>1, <2>2
        <3>2. streamFile'[i - 1] = streamFile[m] BY <1>7, <3>1
        <3>3. streamFile[m].stream \in Nat /\ streamFile[m].seq \in Nat BY <1>9, <3>1 DEF FileRow
        <3>4. CASE streamFile[m].stream = generation
            <4>1. LastRow = streamFile[m].seq BY <1>9, <3>1, <3>4
            <4>2. persisted + 1 \in {streamFile[m].seq, streamFile[m].seq + 1} BY <1>1, <3>3, <4>1
            <4> QED BY <1>12, <2>2, <3>2, <3>4, <4>2 DEF Follows
        <3>5. CASE streamFile[m].stream # generation
            <4>1. LastRow = 0 BY <1>9, <3>1, <3>5
            <4>2. persisted = 0 BY <1>1, <4>1
            <4>3. generation > streamFile[m].stream BY <1>1, <1>9, <3>1, <3>3, <3>5
            <4> QED BY <1>12, <2>2, <3>2, <3>5, <4>2, <4>3 DEF Follows
        <3> QED BY <3>4, <3>5
    <2>3. CASE i > m + 1
        <3>1. i \in 1 .. m + k /\ i > m /\ i - 1 \in 1 .. m + k /\ i - 1 > m BY <1>1, <1>7, <2>3
        <3>2. streamFile'[i] = rows[i - m] /\ i - m \in 1 .. k BY <1>7, <3>1
        <3>3. streamFile'[i - 1] = rows[(i - 1) - m] /\ (i - 1) - m \in 1 .. k BY <1>7, <3>1
        <3>4. persisted + (i - m) = (persisted + ((i - 1) - m)) + 1 BY <1>1, <3>1
        <3> QED BY <1>4, <3>2, <3>3, <3>4 DEF Follows
    <2> QED BY <1>1, <1>7, <2>1, <2>2, <2>3
<1>14. LastRow' = persisted + k
    <2>1. m + k \in 1 .. m + k /\ m + k > m /\ (m + k) - m = k BY <1>1
    <2>2. streamFile'[m + k] = rows[k] BY <1>7, <2>1
    <2>3. k \in 1 .. k OBVIOUS
    <2>4. streamFile' # <<>>
        <3>1. Len(streamFile') # 0 BY <1>1, <1>7
        <3>2. Len(<<>>) = 0 OBVIOUS
        <3> QED BY <3>1, <3>2
    <2> QED BY <1>4, <1>7, <2>2, <2>3, <2>4 DEF LastRow, Last
<1>15. ASSUME NEW i \in Repeated' PROVE i \in Repeated \/ (i = m + 1 /\ LastRow = persisted + 1)
    <2>1. i \in 2 .. m + k /\ streamFile'[i] = streamFile'[i - 1] BY <1>7, <1>15 DEF Repeated
    <2>2. CASE i <= m
        <3>1. i \in 2 .. m /\ i \in 1 .. m /\ i - 1 \in 1 .. m BY <1>1, <2>1, <2>2
        <3> QED BY <1>7, <2>1, <3>1 DEF Repeated
    <2>3. CASE i = m + 1
        <3>1. m > 0 /\ i - 1 = m /\ m \in 1 .. m BY <1>1, <2>1, <2>3
        <3>2. streamFile[m] = [stream |-> generation, seq |-> persisted + 1] BY <1>7, <1>12, <2>1, <2>3, <3>1
        <3> QED BY <1>9, <2>3, <3>1, <3>2
    <2>4. CASE i > m + 1
        <3>1. i \in 1 .. m + k /\ i > m /\ i - 1 \in 1 .. m + k /\ i - 1 > m BY <1>1, <2>1, <2>4
        <3>2. streamFile'[i] = rows[i - m] /\ i - m \in 1 .. k BY <1>7, <3>1
        <3>3. streamFile'[i - 1] = rows[(i - 1) - m] /\ (i - 1) - m \in 1 .. k BY <1>7, <3>1
        <3>4. persisted + (i - m) # persisted + ((i - 1) - m) BY <1>1, <3>1
        <3> QED BY <1>4, <2>1, <3>2, <3>3, <3>4
    <2> QED BY <1>1, <2>1, <2>2, <2>3, <2>4
<1>16. IsFiniteSet(Repeated) /\ Cardinality(Repeated) \in Nat BY <1>1, RepeatedCounted
<1>17. Cardinality(Repeated') <= Cardinality(Repeated) + (LastRow - persisted) /\ Cardinality(Repeated') \in Nat
    <2>1. CASE LastRow = persisted
        <3>1. Repeated' \subseteq Repeated BY <1>1, <1>15, <2>1
        <3>2. Cardinality(Repeated') <= Cardinality(Repeated) /\ Cardinality(Repeated') \in Nat
            BY <1>16, <3>1, FS_Subset, FS_CardinalityType
        <3> QED BY <1>1, <1>16, <2>1, <3>2
    <2>2. CASE LastRow = persisted + 1
        <3>1. Repeated' \subseteq Repeated \cup {m + 1} BY <1>15
        <3>2. IsFiniteSet(Repeated \cup {m + 1})
              /\ Cardinality(Repeated \cup {m + 1}) = IF m + 1 \in Repeated THEN Cardinality(Repeated) ELSE Cardinality(Repeated) + 1
            BY <1>16, FS_AddElement
        <3>3. Cardinality(Repeated') <= Cardinality(Repeated \cup {m + 1}) /\ Cardinality(Repeated') \in Nat
            BY <3>1, <3>2, FS_Subset, FS_CardinalityType
        <3>4. Cardinality(Repeated') <= Cardinality(Repeated) + 1 BY <1>16, <3>2, <3>3
        <3>5. LastRow - persisted = 1 BY <1>1, <2>2
        <3> QED BY <3>3, <3>4, <3>5
    <2> QED BY <1>1, <2>1, <2>2
<1> QED BY <1>7, <1>8, <1>11, <1>13, <1>14, <1>17

LEMMA FinishKeepsFile ==
    ASSUME FileInv, Finish
    PROVE  FileInv'
<1>1. PICK done \in SUBSET Agents, fired \in SUBSET Range(Detectors) :
        /\ log' = Entries(done) /\ UNCHANGED <<tick, generation>>
        /\ \/ StreamFails(Entries(done))
           \/ TickFails(Advanced(scenario, tick), Entries(done), fired)
           \/ TickEnds(Advanced(scenario, tick), Entries(done), fired)
    BY DEF Finish
<1>2. /\ Entries(done) \in Seq(LogRow) /\ Len(Entries(done)) \in Nat
      /\ Len(log) \in Nat /\ Len(Entries(done)) > Len(log)
    BY EntriesGrow, ReferenceArenaAssumption DEF FileInv
<1>3. PICK n \in persisted .. Len(Entries(done)), torn \in BOOLEAN :
        /\ Persist(n, torn, Entries(done))
        /\ \/ faults' = faults /\ n = Len(Entries(done)) /\ ~torn
           \/ faults' = faults + 1 /\ n < Len(Entries(done))
           \/ faults' = faults + 1 /\ n = Len(Entries(done)) /\ ~torn
    <2>1. persisted \in Nat /\ persisted <= Len(log) BY DEF FileInv
    <2>2. Len(Entries(done)) \in persisted .. Len(Entries(done)) BY <1>2, <2>1
    <2>3. CASE StreamFails(Entries(done))
        <3>1. PICK n \in persisted .. Len(Entries(done)) - 1, torn \in BOOLEAN :
                faults' = faults + 1 /\ Persist(n, torn, Entries(done))
            BY <2>3 DEF StreamFails
        <3>2. n \in persisted .. Len(Entries(done)) /\ n < Len(Entries(done)) BY <1>2, <2>1, <3>1
        <3> QED BY <3>1, <3>2
    <2>4. CASE TickFails(Advanced(scenario, tick), Entries(done), fired) BY <2>2, <2>4 DEF TickFails
    <2>5. CASE TickEnds(Advanced(scenario, tick), Entries(done), fired) BY <2>2, <2>5 DEF TickEnds
    <2> QED BY <1>1, <2>3, <2>4, <2>5
<1>4. /\ persisted \in Nat /\ faults \in Nat /\ generation \in Nat /\ n \in Nat
      /\ LastRow \in {persisted, persisted + 1} /\ LastRow <= Len(log)
      /\ Cardinality(Repeated) + (LastRow - persisted) <= faults
      /\ Cardinality(Repeated) \in Nat
    BY <1>2, <1>3, RepeatedCounted DEF FileInv
<1> DEFINE k == (IF torn THEN n + 1 ELSE n) - persisted
<1>5. persisted' = n /\ streamFile' = streamFile \o [i \in 1 .. k |-> Row(persisted + i)] BY <1>3 DEF Persist
<1>6. k \in Nat BY <1>3, <1>4
<1>7. persisted + k = IF torn THEN n + 1 ELSE n BY <1>3, <1>4
<1>8. tick' \in Nat /\ generation' \in Nat /\ persisted' \in Nat /\ faults' \in Nat /\ log' \in Seq(LogRow)
    BY <1>1, <1>2, <1>3, <1>4, <1>5 DEF FileInv
<1> HIDE DEF k
<1>9. CASE k = 0
    <2>1. streamFile' = streamFile
        <3>1. [i \in 1 .. k |-> Row(persisted + i)] = <<>> BY <1>9
        <3>2. streamFile \in Seq(FileRow) BY DEF FileInv
        <3>3. streamFile \o <<>> = streamFile BY <3>2, NothingJoined
        <3> QED BY <1>5, <3>1, <3>3
    <2>2. n = persisted BY <1>3, <1>4, <1>7, <1>9
    <2>3. faults' = faults + 1 BY <1>2, <1>3, <1>4, <2>2
    <2>4. LastRow' = LastRow /\ Repeated' = Repeated BY <1>1, <2>1 DEF LastRow, Repeated
    <2>5. \A i \in 1 .. Len(streamFile') : streamFile'[i].stream <= generation' BY <1>1, <2>1 DEF FileInv
    <2>6. LastRow' <= Len(log') BY <1>1, <1>2, <1>4, <2>4
    <2>7. Cardinality(Repeated') + (LastRow' - persisted') <= faults' BY <1>4, <1>5, <2>2, <2>3, <2>4
    <2>8. streamFile' \in Seq(FileRow) /\ (streamFile' # <<>> => streamFile'[1].seq = 1)
          /\ \A i \in 2 .. Len(streamFile') : Follows(streamFile'[i - 1], streamFile'[i])
        BY <2>1 DEF FileInv
    <2>9. LastRow' \in {persisted', persisted' + 1} BY <1>4, <1>5, <2>2, <2>4
    <2>10. faults' # 0 BY <1>4, <2>3
    <2> QED BY <1>8, <2>5, <2>6, <2>7, <2>8, <2>9, <2>10 DEF FileInv
<1>10. CASE k > 0
    <2>1. generation' = generation BY <1>1
    <2>2. /\ streamFile' \in Seq(FileRow)
          /\ \A i \in 1 .. Len(streamFile') : streamFile'[i].stream <= generation
          /\ streamFile'[1].seq = 1
          /\ \A i \in 2 .. Len(streamFile') : Follows(streamFile'[i - 1], streamFile'[i])
          /\ LastRow' = persisted + k
          /\ Cardinality(Repeated') <= Cardinality(Repeated) + (LastRow - persisted)
          /\ Cardinality(Repeated') \in Nat
        BY <1>5, <1>6, <1>10, <2>1, RowsAppended
    <2>3. LastRow' = IF torn THEN persisted' + 1 ELSE persisted' BY <1>5, <1>7, <2>2
    <2>4. LastRow' <= Len(log') BY <1>1, <1>2, <1>3, <1>4, <1>5, <2>3
    <2>5. Cardinality(Repeated') <= faults BY <1>4, <2>2
    <2>6. Cardinality(Repeated') + (LastRow' - persisted') <= faults'
        BY <1>2, <1>3, <1>4, <1>5, <2>2, <2>3, <2>5
    <2>7. faults' = 0 => LastRow' = Len(log') BY <1>1, <1>3, <1>4, <1>5, <2>3
    <2>8. LastRow' \in {persisted', persisted' + 1} BY <2>3
    <2> QED BY <1>8, <2>1, <2>2, <2>4, <2>6, <2>7, <2>8 DEF FileInv
<1> QED BY <1>6, <1>9, <1>10

\* Whatever fails while it is written, the file has every stream from its first
\* event on and without a gap, and repeats at most the rows the failures were at.
THEOREM StreamFileTellsTheStreams == Spec => []StreamFileComplete
<1>1. Init => FileInv
    <2> SUFFICES ASSUME Init PROVE FileInv OBVIOUS
    <2>1. LastRow = 0 BY DEF Init, LastRow
    <2>2. Repeated = {} BY DEF Init, Repeated
    <2>3. Cardinality(Repeated) = 0 BY <2>2, FS_EmptySet
    <2>4. streamFile = <<>> /\ Len(streamFile) = 0 /\ log = <<>> /\ Len(log) = 0 BY DEF Init
    <2> QED BY <2>1, <2>3, <2>4 DEF Init, FileInv
<1>2. FileInv /\ [Next]_vars => FileInv'
    <2> SUFFICES ASSUME FileInv, [Next]_vars PROVE FileInv' OBVIOUS
    <2>1. ASSUME NEW c, Handle(c) PROVE FileInv'
        <3>1. CASE Reset BY <3>1, ResetKeepsFile
        <3>2. CASE ~Reset BY <2>1, <3>2, RequestLeavesFile, SameFile
        <3> QED BY <3>1, <3>2
    <2>2. ASSUME UNCHANGED <<market, files, faults>> PROVE FileInv'
        BY <2>2, SameFile DEF market, files
    <2>3. ASSUME NEW c \in Calls, Call(c) PROVE FileInv' BY <2>1, <2>2, <2>3 DEF Call
    <2>4. CASE Serve BY <2>1, <2>4 DEF Serve
    <2>5. ASSUME BeginTick PROVE FileInv'
        <3>1. tick' = tick + 1 /\ UNCHANGED <<generation, log, persisted, streamFile, faults>>
            BY <2>5 DEF BeginTick, files
        <3>2. LastRow' = LastRow /\ Repeated' = Repeated BY <3>1 DEF LastRow, Repeated
        <3> QED BY <3>1, <3>2 DEF FileInv
    <2>6. CASE Wake BY <2>2, <2>5, <2>6 DEF Wake
    <2>7. CASE TakeTurn BY <2>5, <2>7 DEF TakeTurn
    <2>8. CASE Finish BY <2>8, FinishKeepsFile
    <2>9. CASE Stop BY <2>2, <2>9 DEF Stop
    <2>10. CASE UNCHANGED vars BY <2>2, <2>10 DEF vars
    <2> QED BY <2>3, <2>4, <2>6, <2>7, <2>8, <2>9, <2>10 DEF Next
<1>3. FileInv => StreamFileComplete
    <2> SUFFICES ASSUME FileInv PROVE StreamFileComplete OBVIOUS
    <2>1. Cardinality(Repeated) \in Nat BY RepeatedCounted DEF FileInv
    <2>2. Cardinality(Repeated) <= faults /\ persisted <= LastRow BY <2>1 DEF FileInv
    <2> QED BY <2>2 DEF FileInv, Follows, StreamFileComplete
<1> QED BY <1>1, <1>2, <1>3, PTL DEF Spec

-----------------------------------------------------------------------------
(* The rows of labels and incidents *)

Stages == DOMAIN StageAt

LabelRow == [scenario : Nat, entered : SUBSET Stages]
IncidentRow == [number : Nat, scenario : Nat, detector : Range(Detectors)]

IsScenario(s, ids) ==
    /\ s = [id |-> s.id, family |-> s.family, start |-> s.start, stage |-> s.stage, entered |-> s.entered]
    /\ s.id \in Nat /\ s.id <= ids /\ s.start \in Nat /\ s.entered \subseteq Stages

LabelsInOrder(file) ==
    \A i, j \in 1 .. Len(file) :
        i < j /\ file[i].scenario = file[j].scenario
            => file[i].entered \subseteq file[j].entered /\ file[i].entered # file[j].entered

NoneTwice(file) ==
    \A i, j \in 1 .. Len(file) :
        i # j => file[i].scenario # file[j].scenario \/ file[i].detector # file[j].detector

\* The labels in the file tell no more of the scenario than it is, and what
\* tells as much is the one that was persisted last.
LabelsFit(s, file, kept) ==
    \A i \in 1 .. Len(file) :
        file[i].scenario = s.id
            => /\ file[i].entered \subseteq s.entered
               /\ file[i].entered = s.entered => Label(s) \in kept

\* Every incident in the file is one that is remembered.
IncidentsFit(s, file, remembered) ==
    \A i \in 1 .. Len(file) :
        file[i].scenario = s.id
            => \E j \in 1 .. Len(remembered) :
                  remembered[j].scenario = s.id /\ remembered[j].detector = file[i].detector

\* The files, against the scenario s and the number of scenarios so far.
RowsFit(s, ids, labelRows, kept, incidentRows, remembered) ==
    /\ labelRows \in Seq(LabelRow) /\ incidentRows \in Seq(IncidentRow) /\ remembered \in Seq(IncidentRow)
    /\ \A i \in 1 .. Len(labelRows) : labelRows[i].scenario <= ids
    /\ \A i \in 1 .. Len(incidentRows) : incidentRows[i].scenario <= ids
    /\ LabelsInOrder(labelRows) /\ NoneTwice(incidentRows)
    /\ s # None => /\ IsScenario(s, ids)
                   /\ LabelsFit(s, labelRows, kept)
                   /\ IncidentsFit(s, incidentRows, remembered)

RowsInv ==
    /\ tick \in Nat /\ counter \in Nat
    /\ RowsFit(scenario, counter, labelFile, labels, incidentFile, incidents)

\* The stage of a scenario is one of the rules.
LEMMA StageIsOne ==
    ASSUME NEW s, s.start \in Nat, NEW t \in Nat
    PROVE  StageFor(s, t) \in Stages
<1> DEFINE elapsed == IF t > s.start THEN t - s.start ELSE 0
           reached == {i \in DOMAIN StageAt : StageAt[i] <= elapsed}
           left == {n \in Nat : \E i \in reached : n = Len(StageAt) - i}
<1>1. StageAt \in Seq(Nat) /\ StageAt # <<>> /\ StageAt[1] = 0 BY ReferenceArenaAssumption
<1>2. elapsed \in Nat OBVIOUS
<1>3. DOMAIN StageAt = 1 .. Len(StageAt) /\ Len(StageAt) \in Nat /\ Len(StageAt) > 0 BY <1>1
<1>4. 1 \in reached BY <1>1, <1>2, <1>3
<1>5. Len(StageAt) - 1 \in left BY <1>3, <1>4
<1>6. PICK m \in left : \A n \in left : m <= n BY <1>5, LeastOf
<1>7. PICK i \in reached : m = Len(StageAt) - i BY <1>6
<1>8. ASSUME NEW j \in reached PROVE j <= i
    <2>1. j \in 1 .. Len(StageAt) /\ i \in 1 .. Len(StageAt) BY <1>3
    <2>2. Len(StageAt) - j \in left BY <1>3, <2>1
    <2>3. m <= Len(StageAt) - j BY <1>6, <2>2
    <2> QED BY <1>3, <1>7, <2>1, <2>3
<1>9. \E i_1 \in DOMAIN StageAt : StageAt[i_1] <= elapsed /\ \A j \in DOMAIN StageAt : StageAt[j] <= elapsed => j <= i_1
    BY <1>7, <1>8
<1> HIDE DEF elapsed
<1>10. StageFor(s, t) = CHOOSE i_1 \in DOMAIN StageAt : StageAt[i_1] <= elapsed /\ \A j \in DOMAIN StageAt : StageAt[j] <= elapsed => j <= i_1
    BY DEF StageFor, elapsed
<1> QED BY <1>9, <1>10 DEF Stages

LEMMA AdvancedFits ==
    ASSUME NEW s, NEW t \in Nat, NEW ids, NEW labelRows, NEW kept, NEW incidentRows, NEW remembered,
           RowsFit(s, ids, labelRows, kept, incidentRows, remembered)
    PROVE  RowsFit(Advanced(s, t), ids, labelRows, kept, incidentRows, remembered)
<1>1. CASE s = None BY <1>1 DEF Advanced
<1>2. CASE s # None
    <2> DEFINE u == Advanced(s, t)
    <2>1. IsScenario(s, ids) /\ LabelsFit(s, labelRows, kept) /\ IncidentsFit(s, incidentRows, remembered)
        BY <1>2 DEF RowsFit
    <2>2. StageFor(s, t) \in Stages BY <2>1, StageIsOne DEF IsScenario
    <2>3. u = [id |-> s.id, family |-> s.family, start |-> s.start,
               stage |-> StageFor(s, t), entered |-> s.entered \cup {StageFor(s, t)}]
        BY <1>2, <2>1 DEF Advanced, IsScenario
    <2> HIDE DEF u
    <2>4. IsScenario(u, ids) BY <2>1, <2>2, <2>3 DEF IsScenario
    <2>5. ASSUME NEW i \in 1 .. Len(labelRows), labelRows[i].scenario = u.id
          PROVE  /\ labelRows[i].entered \subseteq u.entered
                 /\ labelRows[i].entered = u.entered => Label(u) \in kept
        <3>1. labelRows[i].scenario = s.id BY <2>3, <2>5
        <3>2. labelRows[i].entered \subseteq s.entered /\ (labelRows[i].entered = s.entered => Label(s) \in kept)
            BY <2>1, <3>1 DEF LabelsFit
        <3>3. s.entered \subseteq u.entered BY <2>3
        <3>4. CASE labelRows[i].entered = u.entered
            <4>1. s.entered = u.entered BY <3>2, <3>3, <3>4
            <4>2. Label(s) = Label(u) BY <2>3, <4>1 DEF Label
            <4> QED BY <3>2, <3>3, <3>4, <4>1, <4>2
        <3> QED BY <3>2, <3>3, <3>4
    <2>6. LabelsFit(u, labelRows, kept) BY <2>5 DEF LabelsFit
    <2>7. IncidentsFit(u, incidentRows, remembered) BY <2>1, <2>3 DEF IncidentsFit
    <2>8. RowsFit(u, ids, labelRows, kept, incidentRows, remembered) BY <2>4, <2>6, <2>7 DEF RowsFit
    <2> QED BY <2>8 DEF u
<1> QED BY <1>1, <1>2

\* No row tells of a scenario whose id is new.
LEMMA StartedFits ==
    ASSUME RowsInv, NEW family
    PROVE  RowsFit(Started(family), counter + 1, labelFile, labels, incidentFile, incidents)
<1>1. \A i \in 1 .. Len(labelFile) : labelFile[i] \in LabelRow /\ labelFile[i].scenario <= counter
    BY DEF RowsInv, RowsFit
<1>2. \A i \in 1 .. Len(incidentFile) : incidentFile[i] \in IncidentRow /\ incidentFile[i].scenario <= counter
    BY DEF RowsInv, RowsFit
<1>3. \A i \in 1 .. Len(labelFile) : labelFile[i].scenario <= counter + 1 /\ labelFile[i].scenario # counter + 1
    <2> SUFFICES ASSUME NEW i \in 1 .. Len(labelFile)
                 PROVE  labelFile[i].scenario <= counter + 1 /\ labelFile[i].scenario # counter + 1
        OBVIOUS
    <2>1. labelFile[i].scenario \in Nat /\ labelFile[i].scenario <= counter BY <1>1 DEF LabelRow
    <2> QED BY <2>1 DEF RowsInv
<1>4. \A i \in 1 .. Len(incidentFile) : incidentFile[i].scenario <= counter + 1 /\ incidentFile[i].scenario # counter + 1
    <2> SUFFICES ASSUME NEW i \in 1 .. Len(incidentFile)
                 PROVE  incidentFile[i].scenario <= counter + 1 /\ incidentFile[i].scenario # counter + 1
        OBVIOUS
    <2>1. incidentFile[i].scenario \in Nat /\ incidentFile[i].scenario <= counter BY <1>2 DEF IncidentRow
    <2> QED BY <2>1 DEF RowsInv
<1>5. Started(family).id = counter + 1 /\ IsScenario(Started(family), counter + 1)
    BY DEF Started, IsScenario, RowsInv
<1>6. LabelsFit(Started(family), labelFile, labels) BY <1>3, <1>5 DEF LabelsFit
<1>7. IncidentsFit(Started(family), incidentFile, incidents) BY <1>4, <1>5 DEF IncidentsFit
<1> QED BY <1>3, <1>4, <1>5, <1>6, <1>7 DEF RowsInv, RowsFit

\* A label that is not the one persisted last tells more than every row of its scenario.
LEMMA LabelAdded ==
    ASSUME NEW s, NEW ids, IsScenario(s, ids), NEW file \in Seq(LabelRow), NEW kept, NEW next, Label(s) \in next,
           \A i \in 1 .. Len(file) : file[i].scenario <= ids,
           LabelsInOrder(file), LabelsFit(s, file, kept), Label(s) \notin kept
    PROVE  /\ Append(file, Label(s)) \in Seq(LabelRow)
           /\ \A i \in 1 .. Len(Append(file, Label(s))) : Append(file, Label(s))[i].scenario <= ids
           /\ LabelsInOrder(Append(file, Label(s)))
           /\ LabelsFit(s, Append(file, Label(s)), next)
<1> DEFINE longer == Append(file, Label(s))
           n == Len(file)
<1>1. Label(s) \in LabelRow BY DEF Label, LabelRow, IsScenario
<1>2. /\ longer \in Seq(LabelRow) /\ Len(longer) = n + 1 /\ n \in Nat
      /\ \A i \in 1 .. n : longer[i] = file[i]
      /\ longer[n + 1] = Label(s)
    BY <1>1, Appended
<1> HIDE DEF longer
<1>3. Label(s).scenario = s.id /\ Label(s).entered = s.entered BY DEF Label
<1>4. ASSUME NEW i \in 1 .. n + 1 PROVE longer[i].scenario <= ids
    BY <1>2, <1>3 DEF IsScenario
<1>5. ASSUME NEW i \in 1 .. n, file[i].scenario = s.id
      PROVE  file[i].entered \subseteq s.entered /\ file[i].entered # s.entered
    BY <1>5 DEF LabelsFit
<1>6. ASSUME NEW i \in 1 .. n + 1, NEW j \in 1 .. n + 1, i < j, longer[i].scenario = longer[j].scenario
      PROVE  longer[i].entered \subseteq longer[j].entered /\ longer[i].entered # longer[j].entered
    <2>1. CASE j \in 1 .. n
        <3>1. i \in 1 .. n BY <1>2, <1>6, <2>1
        <3>2. longer[i] = file[i] /\ longer[j] = file[j] BY <1>2, <2>1, <3>1
        <3> QED BY <1>6, <2>1, <3>1, <3>2 DEF LabelsInOrder
    <2>2. CASE j = n + 1
        <3>1. i \in 1 .. n BY <1>2, <1>6, <2>2
        <3>2. longer[i] = file[i] /\ longer[j] = Label(s) BY <1>2, <2>2, <3>1
        <3>3. file[i].scenario = s.id BY <1>3, <1>6, <3>2
        <3> QED BY <1>3, <1>5, <3>1, <3>2, <3>3
    <2> QED BY <1>2, <2>1, <2>2
<1>7. LabelsInOrder(longer) BY <1>2, <1>6 DEF LabelsInOrder
<1>8. ASSUME NEW i \in 1 .. n + 1, longer[i].scenario = s.id
      PROVE  longer[i].entered \subseteq s.entered /\ (longer[i].entered = s.entered => Label(s) \in next)
    <2>1. CASE i \in 1 .. n BY <1>2, <1>5, <1>8, <2>1
    <2>2. CASE i = n + 1 BY <1>2, <1>3, <2>2
    <2> QED BY <1>2, <2>1, <2>2
<1>9. LabelsFit(s, longer, next) BY <1>2, <1>8 DEF LabelsFit
<1> QED BY <1>2, <1>4, <1>7, <1>9 DEF longer

\* Rows of incidents that are all remembered, each for the first time.
LEMMA IncidentsAdded ==
    ASSUME NEW s, NEW ids, s.id <= ids, NEW file \in Seq(IncidentRow), NEW inc \in Seq(IncidentRow),
           NEW made \in Seq(IncidentRow), NEW part \in Seq(IncidentRow),
           \A i \in 1 .. Len(file) : file[i].scenario <= ids,
           NoneTwice(file), IncidentsFit(s, file, inc),
           Len(part) <= Len(made), \A i \in 1 .. Len(part) : part[i] = made[i],
           \A i \in 1 .. Len(made) : made[i].scenario = s.id,
           \A i \in 1 .. Len(made), j \in 1 .. Len(inc) :
               ~(inc[j].scenario = s.id /\ inc[j].detector = made[i].detector),
           \A i, j \in 1 .. Len(made) : i # j => made[i].detector # made[j].detector
    PROVE  /\ file \o part \in Seq(IncidentRow) /\ inc \o made \in Seq(IncidentRow)
           /\ \A i \in 1 .. Len(file \o part) : (file \o part)[i].scenario <= ids
           /\ NoneTwice(file \o part)
           /\ IncidentsFit(s, file \o part, inc \o made)
<1> DEFINE rows == file \o part
           all == inc \o made
           m == Len(file)
           k == Len(part)
<1>1. /\ rows \in Seq(IncidentRow) /\ Len(rows) = m + k /\ m \in Nat /\ k \in Nat
      /\ \A i \in 1 .. m : rows[i] = file[i]
      /\ \A i \in 1 .. m + k : i > m => rows[i] = part[i - m] /\ i - m \in 1 .. k
    BY Joined
<1>2. /\ all \in Seq(IncidentRow) /\ Len(all) = Len(inc) + Len(made)
      /\ Len(inc) \in Nat /\ Len(made) \in Nat
      /\ \A i \in 1 .. Len(inc) : all[i] = inc[i]
      /\ \A i \in 1 .. Len(inc) + Len(made) : i > Len(inc) => all[i] = made[i - Len(inc)] /\ i - Len(inc) \in 1 .. Len(made)
    BY Joined
<1> HIDE DEF rows, all
<1>3. ASSUME NEW i \in 1 .. m + k, i > m
      PROVE  i - m \in 1 .. Len(made) /\ rows[i] = made[i - m] /\ rows[i].scenario = s.id
    <2>1. rows[i] = part[i - m] /\ i - m \in 1 .. k BY <1>1, <1>3
    <2>2. i - m \in 1 .. Len(made) BY <1>1, <1>2, <2>1
    <2>3. part[i - m] = made[i - m] BY <2>1
    <2> QED BY <2>1, <2>2, <2>3
<1>4. ASSUME NEW i \in 1 .. m + k PROVE rows[i].scenario <= ids
    <2>1. CASE i \in 1 .. m BY <1>1, <2>1
    <2>2. CASE i > m BY <1>3, <2>2
    <2> QED BY <1>1, <2>1, <2>2
\* an old row and a new one
<1>5. ASSUME NEW i \in 1 .. m, NEW j \in 1 .. m + k, j > m
      PROVE  rows[i].scenario # rows[j].scenario \/ rows[i].detector # rows[j].detector
    <2>1. rows[i] = file[i] BY <1>1
    <2>2. j - m \in 1 .. Len(made) /\ rows[j] = made[j - m] /\ rows[j].scenario = s.id BY <1>3, <1>5
    <2>3. CASE file[i].scenario = s.id
        <3>1. PICK l \in 1 .. Len(inc) : inc[l].scenario = s.id /\ inc[l].detector = file[i].detector
            BY <2>3 DEF IncidentsFit
        <3>2. inc[l].detector # made[j - m].detector BY <2>2, <3>1
        <3> QED BY <2>1, <2>2, <3>1, <3>2
    <2>4. CASE file[i].scenario # s.id BY <2>1, <2>2, <2>4
    <2> QED BY <2>3, <2>4
<1>6. ASSUME NEW i \in 1 .. m + k, NEW j \in 1 .. m + k, i # j
      PROVE  rows[i].scenario # rows[j].scenario \/ rows[i].detector # rows[j].detector
    <2>1. CASE i \in 1 .. m /\ j \in 1 .. m BY <1>1, <1>6, <2>1 DEF NoneTwice
    <2>2. CASE i \in 1 .. m /\ j > m BY <1>5, <2>2
    <2>3. CASE i > m /\ j \in 1 .. m
        <3>1. rows[j].scenario # rows[i].scenario \/ rows[j].detector # rows[i].detector BY <1>5, <2>3
        <3> QED BY <3>1
    <2>4. CASE i > m /\ j > m
        <3>1. i - m \in 1 .. Len(made) /\ rows[i] = made[i - m] BY <1>3, <2>4
        <3>2. j - m \in 1 .. Len(made) /\ rows[j] = made[j - m] BY <1>3, <2>4
        <3>3. i - m # j - m BY <1>1, <1>6
        <3> QED BY <3>1, <3>2, <3>3
    <2> QED BY <1>1, <2>1, <2>2, <2>3, <2>4
<1>7. NoneTwice(rows) BY <1>1, <1>6 DEF NoneTwice
<1>8. ASSUME NEW i \in 1 .. m + k, rows[i].scenario = s.id
      PROVE  \E j \in 1 .. Len(all) : all[j].scenario = s.id /\ all[j].detector = rows[i].detector
    <2>1. CASE i \in 1 .. m
        <3>1. rows[i] = file[i] BY <1>1, <2>1
        <3>2. PICK l \in 1 .. Len(inc) : inc[l].scenario = s.id /\ inc[l].detector = file[i].detector
            BY <1>8, <2>1, <3>1 DEF IncidentsFit
        <3>3. l \in 1 .. Len(all) /\ all[l] = inc[l] BY <1>2, <3>2
        <3> QED BY <3>1, <3>2, <3>3
    <2>2. CASE i > m
        <3>1. i - m \in 1 .. Len(made) /\ rows[i] = made[i - m] BY <1>3, <2>2
        <3> DEFINE l == Len(inc) + (i - m)
        <3>2. l \in 1 .. Len(inc) + Len(made) /\ l > Len(inc) /\ l - Len(inc) = i - m BY <1>1, <1>2, <3>1
        <3>3. all[l] = made[i - m] /\ l \in 1 .. Len(all) BY <1>2, <3>2
        <3> QED BY <1>8, <3>1, <3>3
    <2>3. i \in 1 .. m \/ i > m BY <1>1
    <2> QED BY <2>1, <2>2, <2>3
<1>9. IncidentsFit(s, rows, all) BY <1>1, <1>8 DEF IncidentsFit
<1> QED BY <1>1, <1>2, <1>4, <1>7, <1>9 DEF rows, all

\* What fired and is not known yet is made one incident each.
LEMMA IncidentsMade ==
    ASSUME NEW s, s.id \in Nat, NEW fired \in SUBSET Range(Detectors), NEW n \in Nat,
           NEW ds \in FirstOf(Unreported(s, fired), n), incidents \in Seq(IncidentRow)
    PROVE  /\ Incidents(s, ds) \in Seq(IncidentRow) /\ Len(Incidents(s, ds)) = n
           /\ \A i \in 1 .. n : Incidents(s, ds)[i].scenario = s.id /\ Incidents(s, ds)[i].detector = ds[i]
           /\ \A i \in 1 .. n, j \in 1 .. Len(incidents) :
                 ~(incidents[j].scenario = s.id /\ incidents[j].detector = ds[i])
           /\ \A i, j \in 1 .. n : i # j => ds[i] # ds[j]
<1>1. /\ ds \in [1 .. n -> Unreported(s, fired)]
      /\ \A i, j \in 1 .. n : i < j => Before(ds[i], ds[j])
    BY DEF FirstOf
<1>2. DOMAIN ds = 1 .. n /\ \A i \in 1 .. n : ds[i] \in fired /\ ~Known(s, ds[i]) BY <1>1 DEF Unreported
<1>3. Incidents(s, ds) = [i \in 1 .. n |-> [number |-> Len(incidents) + i, scenario |-> s.id, detector |-> ds[i]]]
    BY <1>2 DEF Incidents
<1>4. Len(incidents) \in Nat OBVIOUS
<1>5. Incidents(s, ds) \in [1 .. n -> IncidentRow] BY <1>2, <1>3, <1>4 DEF IncidentRow
<1>6. Incidents(s, ds) \in Seq(IncidentRow) /\ Len(Incidents(s, ds)) = n BY <1>5, Enumerated
<1>7. \A i \in 1 .. n : Incidents(s, ds)[i].scenario = s.id /\ Incidents(s, ds)[i].detector = ds[i] BY <1>3
<1>8. \A i \in 1 .. n, j \in 1 .. Len(incidents) : ~(incidents[j].scenario = s.id /\ incidents[j].detector = ds[i])
    BY <1>2 DEF Known
<1>9. ASSUME NEW d, Before(d, d) PROVE FALSE
    BY <1>9, ReferenceArenaAssumption DEF Before, IsInjective
<1>10. ASSUME NEW i \in 1 .. n, NEW j \in 1 .. n, i # j PROVE ds[i] # ds[j]
    <2>1. i < j \/ j < i BY <1>10
    <2>2. Before(ds[i], ds[j]) \/ Before(ds[j], ds[i]) BY <1>1, <2>1
    <2> QED BY <1>9, <2>2
<1> QED BY <1>6, <1>7, <1>8, <1>10

LEMMA BuildKeepsRows ==
    ASSUME NEW s, NEW ids \in Nat, RowsFit(s, ids, labelFile, labels, incidentFile, incidents),
           NEW t, NEW entries, NEW run, NEW fired \in SUBSET Range(Detectors), NEW cut,
           Build(s, t, entries, run, fired, cut)
    PROVE  RowsFit(s, ids, labelFile', labels', incidentFile', incidents')
<1>1. CASE s = None
    <2>1. UNCHANGED <<labelFile, labels, incidentFile, incidents>> BY <1>1 DEF Build
    <2> QED BY <1>1, <2>1 DEF RowsFit
<1>2. CASE s # None
    <2>1. IsScenario(s, ids) /\ LabelsFit(s, labelFile, labels) /\ IncidentsFit(s, incidentFile, incidents)
        BY <1>2 DEF RowsFit
    <2>2. Label(s) \in labels' BY <1>2 DEF Build, Remembered
    <2>3. /\ labelFile' \in Seq(LabelRow)
          /\ \A i \in 1 .. Len(labelFile') : labelFile'[i].scenario <= ids
          /\ LabelsInOrder(labelFile')
          /\ LabelsFit(s, labelFile', labels')
        <3>1. CASE LabelIsNew(s) /\ cut # "label"
            <4>1. labelFile' = Append(labelFile, Label(s)) BY <1>2, <3>1 DEF Build
            <4>2. Label(s) \notin labels BY <3>1 DEF LabelIsNew
            <4>3. /\ labelFile \in Seq(LabelRow) /\ LabelsInOrder(labelFile)
                  /\ \A i \in 1 .. Len(labelFile) : labelFile[i].scenario <= ids
                BY DEF RowsFit
            <4>4. PICK file, kept, next : file = labelFile /\ kept = labels /\ next = labels' OBVIOUS
            <4>5. /\ Append(file, Label(s)) \in Seq(LabelRow)
                  /\ \A i \in 1 .. Len(Append(file, Label(s))) : Append(file, Label(s))[i].scenario <= ids
                  /\ LabelsInOrder(Append(file, Label(s)))
                  /\ LabelsFit(s, Append(file, Label(s)), next)
                <5>1. file \in Seq(LabelRow) /\ LabelsInOrder(file) /\ LabelsFit(s, file, kept)
                      /\ Label(s) \in next /\ Label(s) \notin kept
                      /\ \A i \in 1 .. Len(file) : file[i].scenario <= ids
                    BY <2>1, <2>2, <4>2, <4>3, <4>4
                <5> QED BY <2>1, <5>1, LabelAdded
            <4> QED BY <4>1, <4>4, <4>5
        <3>2. CASE ~(LabelIsNew(s) /\ cut # "label")
            <4>1. labelFile' = labelFile BY <1>2, <3>2 DEF Build
            <4>2. LabelsFit(s, labelFile, labels') BY <2>1, <2>2 DEF LabelsFit
            <4> QED BY <4>1, <4>2 DEF RowsFit
        <3> QED BY <3>1, <3>2
    <2>4. /\ incidentFile' \in Seq(IncidentRow) /\ incidents' \in Seq(IncidentRow)
          /\ \A i \in 1 .. Len(incidentFile') : incidentFile'[i].scenario <= ids
          /\ NoneTwice(incidentFile')
          /\ IncidentsFit(s, incidentFile', incidents')
        <3>1. CASE cut = "label"
            <4>1. UNCHANGED <<incidents, incidentFile>> BY <3>1 DEF Build
            <4> QED BY <2>1, <4>1 DEF RowsFit
        <3>2. CASE cut # "label"
            <4>1. PICK n \in 0 .. Cardinality(Unreported(s, fired)) : \E ds \in FirstOf(Unreported(s, fired), n) :
                    /\ IF cut = "incident" THEN n > 0 ELSE n = Cardinality(Unreported(s, fired))
                    /\ incidents' = InMemory(Incidents(s, ds), cut)
                    /\ \/ incidentFile' = incidentFile \o Incidents(s, ds)
                       \/ cut = "incident" /\ incidentFile' = incidentFile \o Front(Incidents(s, ds))
                BY <1>2, <3>2 DEF Build
            <4>2. PICK ds \in FirstOf(Unreported(s, fired), n) :
                    /\ IF cut = "incident" THEN n > 0 ELSE n = Cardinality(Unreported(s, fired))
                    /\ incidents' = incidents \o Incidents(s, ds)
                    /\ \/ incidentFile' = incidentFile \o Incidents(s, ds)
                       \/ cut = "incident" /\ incidentFile' = incidentFile \o Front(Incidents(s, ds))
                BY <4>1 DEF InMemory
            <4>3. n \in Nat BY <4>1
            <4>4. /\ incidentFile \in Seq(IncidentRow) /\ incidents \in Seq(IncidentRow) /\ NoneTwice(incidentFile)
                  /\ \A i \in 1 .. Len(incidentFile) : incidentFile[i].scenario <= ids
                BY DEF RowsFit
            <4>5. s.id \in Nat /\ s.id <= ids BY <2>1 DEF IsScenario
            <4>6. PICK file, inc, made : file = incidentFile /\ inc = incidents /\ made = Incidents(s, ds) OBVIOUS
            <4>7. /\ made \in Seq(IncidentRow) /\ Len(made) = n
                  /\ \A i \in 1 .. n : made[i].scenario = s.id /\ made[i].detector = ds[i]
                  /\ \A i \in 1 .. n, j \in 1 .. Len(inc) :
                        ~(inc[j].scenario = s.id /\ inc[j].detector = ds[i])
                  /\ \A i, j \in 1 .. n : i # j => ds[i] # ds[j]
                BY <4>3, <4>4, <4>5, <4>6, IncidentsMade
            <4>8. PICK part : incidentFile' = file \o part /\ (part = made \/ (n > 0 /\ part = Front(made)))
                <5>1. CASE incidentFile' = incidentFile \o Incidents(s, ds)
                    <6>1. incidentFile' = file \o made BY <4>6, <5>1
                    <6> QED BY <6>1
                <5>2. CASE cut = "incident" /\ incidentFile' = incidentFile \o Front(Incidents(s, ds))
                    <6>1. n > 0 BY <4>2, <5>2
                    <6>2. incidentFile' = file \o Front(made) BY <4>6, <5>2
                    <6> QED BY <6>1, <6>2
                <5> QED BY <4>2, <5>1, <5>2
            <4>9. /\ part \in Seq(IncidentRow) /\ Len(part) <= Len(made)
                  /\ \A i \in 1 .. Len(part) : part[i] = made[i]
                <5>1. CASE part = made BY <4>3, <4>7, <5>1
                <5>2. CASE n > 0 /\ part = Front(made)
                    <6>1. /\ Front(made) \in Seq(IncidentRow) /\ Len(Front(made)) = Len(made) - 1
                          /\ \A i \in 1 .. Len(made) - 1 : Front(made)[i] = made[i]
                        BY <4>7, <5>2, Shortened
                    <6> QED BY <4>3, <4>7, <5>2, <6>1
                <5> QED BY <4>8, <5>1, <5>2
            <4>10. \A i \in 1 .. Len(made) : made[i].scenario = s.id BY <4>7
            <4>11. \A i \in 1 .. Len(made), j \in 1 .. Len(inc) :
                      ~(inc[j].scenario = s.id /\ inc[j].detector = made[i].detector)
                BY <4>7
            <4>12. \A i, j \in 1 .. Len(made) : i # j => made[i].detector # made[j].detector BY <4>7
            <4>13. /\ file \in Seq(IncidentRow) /\ inc \in Seq(IncidentRow)
                   /\ \A i \in 1 .. Len(file) : file[i].scenario <= ids
                   /\ NoneTwice(file) /\ IncidentsFit(s, file, inc)
                BY <2>1, <4>4, <4>6
            <4>14. /\ file \o part \in Seq(IncidentRow) /\ inc \o made \in Seq(IncidentRow)
                   /\ \A i \in 1 .. Len(file \o part) : (file \o part)[i].scenario <= ids
                   /\ NoneTwice(file \o part)
                   /\ IncidentsFit(s, file \o part, inc \o made)
                BY <4>5, <4>7, <4>9, <4>10, <4>11, <4>12, <4>13, IncidentsAdded
            <4>15. incidents' = inc \o made BY <4>2, <4>6
            <4> QED BY <4>8, <4>14, <4>15
        <3> QED BY <3>1, <3>2
    <2> QED BY <1>2, <2>1, <2>3, <2>4 DEF RowsFit
<1> QED BY <1>1, <1>2

LEMMA HandleKeepsRows ==
    ASSUME RowsInv, NEW c, Handle(c)
    PROVE  RowsInv'
<1>1. CASE Reset
    <2>1. /\ tick' = 0 /\ UNCHANGED <<counter, labelFile, incidentFile>>
          /\ scenario' = None /\ labels' = {} /\ incidents' = <<>>
        BY <1>1 DEF Reset, CounterAfterReset, files
    <2>2. incidents' \in Seq(IncidentRow) BY <2>1
    <2>3. RowsFit(scenario', counter', labelFile', labels', incidentFile', incidents')
        BY <2>1, <2>2 DEF RowsInv, RowsFit
    <2> QED BY <2>1, <2>3 DEF RowsInv
<1>2. ASSUME NEW fired \in SUBSET Range(Detectors), NEW cut, NEW run,
             Build(scenario, tick, Len(log), run, fired, cut), UNCHANGED <<tick, scenario, counter>>
      PROVE  RowsInv'
    <2>1. PICK s, ids, t, entries : s = scenario /\ ids = counter /\ t = tick /\ entries = Len(log) OBVIOUS
    <2>2. /\ ids \in Nat /\ RowsFit(s, ids, labelFile, labels, incidentFile, incidents)
          /\ Build(s, t, entries, run, fired, cut)
        BY <1>2, <2>1 DEF RowsInv
    <2>3. RowsFit(s, ids, labelFile', labels', incidentFile', incidents') BY <2>2, BuildKeepsRows
    <2>4. s = scenario' /\ ids = counter' BY <1>2, <2>1
    <2> QED BY <1>2, <2>3, <2>4 DEF RowsInv
<1>3. ASSUME NEW fired \in SUBSET Range(Detectors), NEW cut, Start(fired, cut) PROVE RowsInv'
    BY <1>2, <1>3 DEF Start, market
<1>4. ASSUME NEW fired \in SUBSET Range(Detectors), NEW cut, Pause(fired, cut) PROVE RowsInv'
    BY <1>2, <1>4 DEF Pause, market
<1>5. ASSUME NEW fired \in SUBSET Range(Detectors), NEW cut, NEW family, StartScenario(family, fired, cut)
      PROVE  RowsInv'
    <2>1. PICK s, ids, t, entries : s = Started(family) /\ ids = counter + 1 /\ t = tick /\ entries = Len(log) OBVIOUS
    <2>2. ids \in Nat /\ RowsFit(s, ids, labelFile, labels, incidentFile, incidents)
        BY <2>1, StartedFits DEF RowsInv
    <2>3. scenario' = s /\ counter' = ids /\ tick' = tick BY <1>5, <2>1 DEF StartScenario, market
    <2>4. RowsFit(s, ids, labelFile', labels', incidentFile', incidents')
        <3>1. CASE Build(Started(family), tick, Len(log), TRUE, fired, cut)
            <4>1. Build(s, t, entries, TRUE, fired, cut) BY <2>1, <3>1
            <4> QED BY <2>2, <4>1, BuildKeepsRows
        <3>2. CASE ArmingFails(Started(family))
            <4>1. UNCHANGED <<incidents, incidentFile>> BY <3>2 DEF ArmingFails
            <4>2. IsScenario(s, ids) BY <2>1 DEF RowsInv, Started, IsScenario
            <4>3. \A i \in 1 .. Len(labelFile) : labelFile[i].scenario # s.id
                <5> SUFFICES ASSUME NEW i \in 1 .. Len(labelFile) PROVE labelFile[i].scenario # s.id OBVIOUS
                <5>1. labelFile[i] \in LabelRow /\ labelFile[i].scenario <= counter BY DEF RowsInv, RowsFit
                <5>2. labelFile[i].scenario \in Nat BY <5>1 DEF LabelRow
                <5>3. s.id = counter + 1 BY <2>1 DEF Started
                <5> QED BY <5>1, <5>2, <5>3 DEF RowsInv
            <4>4. /\ labelFile \in Seq(LabelRow) /\ LabelsInOrder(labelFile)
                  /\ \A i \in 1 .. Len(labelFile) : labelFile[i].scenario <= ids
                BY <2>2 DEF RowsFit
            <4>5. CASE labelFile' = labelFile
                <5>1. LabelsFit(s, labelFile', labels') BY <4>3, <4>5 DEF LabelsFit
                <5>2. s # None => IsScenario(s, ids) /\ LabelsFit(s, labelFile', labels')
                                    /\ IncidentsFit(s, incidentFile', incidents')
                    BY <2>2, <4>1, <4>2, <5>1 DEF RowsFit
                <5> QED BY <2>2, <4>1, <4>5, <5>2 DEF RowsFit
            <4>6. CASE labels' = Remembered(Started(family)) /\ labelFile' = Append(labelFile, Label(Started(family)))
                <5>1. PICK file, kept, next : file = labelFile /\ kept = {} /\ next = labels' OBVIOUS
                <5>2. Label(s) \in next BY <2>1, <4>6, <5>1 DEF Remembered
                <5>3. LabelsFit(s, file, kept) BY <4>3, <5>1 DEF LabelsFit
                <5>4. Label(s) \notin kept BY <5>1
                <5>5. /\ file \in Seq(LabelRow) /\ LabelsInOrder(file)
                      /\ \A i \in 1 .. Len(file) : file[i].scenario <= ids
                    BY <4>4, <5>1
                <5>6. /\ Append(file, Label(s)) \in Seq(LabelRow)
                      /\ \A i \in 1 .. Len(Append(file, Label(s))) : Append(file, Label(s))[i].scenario <= ids
                      /\ LabelsInOrder(Append(file, Label(s)))
                      /\ LabelsFit(s, Append(file, Label(s)), next)
                    BY <4>2, <5>2, <5>3, <5>4, <5>5, LabelAdded
                <5>7. labelFile' = Append(file, Label(s)) BY <2>1, <4>6, <5>1
                <5>8. s # None => IsScenario(s, ids) /\ LabelsFit(s, labelFile', labels')
                                    /\ IncidentsFit(s, incidentFile', incidents')
                    BY <2>2, <4>1, <4>2, <5>1, <5>6, <5>7 DEF RowsFit
                <5> QED BY <2>2, <4>1, <5>6, <5>7, <5>8 DEF RowsFit
            <4> QED BY <3>2, <4>5, <4>6 DEF ArmingFails
        <3> QED BY <1>5, <3>1, <3>2 DEF StartScenario
    <2>5. tick' \in Nat /\ counter' \in Nat BY <2>2, <2>3 DEF RowsInv
    <2> QED BY <2>3, <2>4, <2>5 DEF RowsInv
<1> QED BY <1>1, <1>3, <1>4, <1>5 DEF Handle

LEMMA FinishKeepsRows ==
    ASSUME RowsInv, Finish
    PROVE  RowsInv'
<1>1. PICK done \in SUBSET Agents, fired \in SUBSET Range(Detectors) :
        /\ scenario' = Advanced(scenario, tick) /\ UNCHANGED <<tick, counter>>
        /\ \/ StreamFails(Entries(done))
           \/ TickFails(Advanced(scenario, tick), Entries(done), fired)
           \/ TickEnds(Advanced(scenario, tick), Entries(done), fired)
    BY DEF Finish
<1>2. PICK s, ids, t, entries : s = Advanced(scenario, tick) /\ ids = counter /\ t = tick /\ entries = Entries(done)
    OBVIOUS
<1>3. ids \in Nat /\ RowsFit(s, ids, labelFile, labels, incidentFile, incidents)
    BY <1>2, AdvancedFits DEF RowsInv
<1>4. CASE UNCHANGED <<labels, incidents, labelFile, incidentFile>>
    <2>1. RowsFit(s, ids, labelFile', labels', incidentFile', incidents') BY <1>3, <1>4
    <2> QED BY <1>1, <1>2, <2>1 DEF RowsInv
<1>5. ASSUME NEW cut, Build(Advanced(scenario, tick), tick, Len(Entries(done)), TRUE, fired, cut) PROVE RowsInv'
    <2>1. PICK n : n = Len(Entries(done)) OBVIOUS
    <2>2. Build(s, t, n, TRUE, fired, cut) BY <1>2, <1>5, <2>1
    <2>3. RowsFit(s, ids, labelFile', labels', incidentFile', incidents') BY <1>3, <2>2, BuildKeepsRows
    <2> QED BY <1>1, <1>2, <2>3 DEF RowsInv
<1>6. CASE StreamFails(Entries(done)) BY <1>4, <1>6 DEF StreamFails
<1>7. CASE TickFails(Advanced(scenario, tick), Entries(done), fired) BY <1>4, <1>5, <1>7 DEF TickFails
<1>8. CASE TickEnds(Advanced(scenario, tick), Entries(done), fired) BY <1>5, <1>8 DEF TickEnds
<1> QED BY <1>1, <1>6, <1>7, <1>8

\* No scenario has two label rows that tell the same, nor two incidents of one
\* detector in the file, over resets and whatever fails while a row is written.
THEOREM RowsTellScenariosOnce == Spec => []ScenarioRowsOnce
<1>1. Init => RowsInv
    BY DEF Init, RowsInv, RowsFit, LabelsInOrder, NoneTwice
<1>2. RowsInv /\ [Next]_vars => RowsInv'
    <2> SUFFICES ASSUME RowsInv, [Next]_vars PROVE RowsInv' OBVIOUS
    <2>1. ASSUME UNCHANGED <<scenario, counter, labels, incidents, labelFile, incidentFile>>, tick' \in Nat PROVE RowsInv'
        BY <2>1 DEF RowsInv
    <2>2. ASSUME UNCHANGED <<market, memory, files>> PROVE RowsInv'
        BY <2>1, <2>2 DEF RowsInv, market, memory, files
    <2>3. ASSUME NEW c \in Calls, Call(c) PROVE RowsInv' BY <2>2, <2>3, HandleKeepsRows DEF Call
    <2>4. CASE Serve BY <2>4, HandleKeepsRows DEF Serve
    <2>5. ASSUME BeginTick PROVE RowsInv' BY <2>1, <2>5 DEF BeginTick, memory, files, RowsInv
    <2>6. CASE Wake BY <2>2, <2>5, <2>6 DEF Wake
    <2>7. CASE TakeTurn BY <2>5, <2>7 DEF TakeTurn
    <2>8. CASE Finish BY <2>8, FinishKeepsRows
    <2>9. CASE Stop BY <2>2, <2>9 DEF Stop
    <2>10. CASE UNCHANGED vars BY <2>2, <2>10 DEF vars
    <2> QED BY <2>3, <2>4, <2>6, <2>7, <2>8, <2>9, <2>10 DEF Next
<1>3. RowsInv => ScenarioRowsOnce
    <2> SUFFICES ASSUME RowsInv PROVE ScenarioRowsOnce OBVIOUS
    <2>1. DOMAIN labelFile = 1 .. Len(labelFile) /\ DOMAIN incidentFile = 1 .. Len(incidentFile)
        BY DEF RowsInv, RowsFit
    <2> QED BY <2>1 DEF RowsInv, RowsFit, LabelsInOrder, NoneTwice, ScenarioRowsOnce
<1> QED BY <1>1, <1>2, <1>3, PTL DEF Spec

=============================================================================
