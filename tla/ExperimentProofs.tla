--------------------------- MODULE ExperimentProofs ---------------------------
(***************************************************************************)
(* Theorems about the requests of one experiment, for any number of        *)
(* threads, jobs and requests.  What a thread carries (rows it has read, a *)
(* manifest it will save) was true once; the invariant says that it stays  *)
(* true, because what it rests on only grows.                              *)
(***************************************************************************)
EXTENDS ExperimentJobs, TLAPS

Places == {"idle", "command", "batch", "append", "save", "saveCollected", "savePending", "collect", "mark", "poll", "confirmed", "unconfirmed"}
Starting == {"command", "batch", "append"}
Rows == [id : 0..MaxJobs, cloud : BOOLEAN, status : JobStatuses]
Threads == [at : Places, op : Ops \cup {"none"}, copy : Experiments, rows : Seq(Jobs), next : Nat \ {0}, row : Rows]
RemoteStatuses == JobStatuses \cup {"none", "orphan"}

\* What a completed row, a submitted manifest and a failed one rest on.
Granted == {j \in JobIds : "artifacts" \in confirmed \/ (fetch = "command" /\ remote.job[j] = "completed")}
Begun == {j \in JobIds : remote.job[j] # "none"}
AtCommand(j) == \E w \in Workers : worker[w].at = "command" /\ worker[w].row.id = j
Lost == {j \in JobIds : j <= launched /\ remote.job[j] \in {"none", "failed", "orphan"} /\ ~AtCommand(j)}

RowsGood(rows, pos, granted) ==
    /\ rows \in Seq(Jobs)
    /\ \A i \in DOMAIN rows : pos[rows[i].id] # 0
    /\ \A i, k \in DOMAIN rows : i < k => pos[rows[i].id] < pos[rows[k].id]
    /\ \A i \in DOMAIN rows : rows[i].cloud /\ rows[i].status = "completed" => rows[i].id \in granted

CopyGood(copy, begun, lost, grounds) ==
    /\ copy \in Experiments
    /\ copy.status = "submitted" => copy.batch \in begun
    /\ copy.status = "failed" => copy.batch \in lost
    /\ copy.status = "completed" => grounds # {}

Typed ==
    /\ launched \in 0 .. MaxJobs
    /\ remote \in [job : [JobIds -> RemoteStatuses], output : Contents]
    /\ fetch \in Fetches

\* A row is appended after its job was started.
Listing ==
    /\ appended \in Nat /\ nth \in [JobIds -> Nat] /\ behind \in [JobIds -> Nat]
    /\ \A j \in JobIds : nth[j] <= appended /\ behind[j] <= appended
    /\ \A j \in JobIds : nth[j] # 0 => behind[j] < nth[j]

NotYet == \A j \in JobIds : j > launched => remote.job[j] = "none" /\ nth[j] = 0

ThreadGood(thread, pos, granted, begun, lost, grounds) ==
    /\ RowsGood(thread.rows, pos, granted)
    /\ CopyGood(thread.copy, begun, lost, grounds)
    /\ thread.at \in {"saveCollected", "mark", "confirmed"} => "artifacts" \in grounds

ThreadsGood ==
    /\ worker \in [Workers -> Threads]
    /\ \A w \in Workers : ThreadGood(worker[w], nth, Granted, Begun, Lost, confirmed)

\* A job that a thread starts is its own, and has no row yet.
StarterGood(w) ==
    worker[w].at \in Starting =>
        /\ worker[w].row.id \in JobIds /\ worker[w].row.id <= launched /\ nth[worker[w].row.id] = 0
        /\ worker[w].at \in {"command", "batch"} => remote.job[worker[w].row.id] = "none"
        /\ worker[w].at = "batch" => ~worker[w].row.cloud
        /\ worker[w].at = "append" => ~worker[w].row.cloud \/ worker[w].row.status # "completed"
        /\ \A v \in Workers \ {w} : worker[v].at \in Starting => worker[v].row.id # worker[w].row.id
StartersGood == \A w \in Workers : StarterGood(w)

IInv ==
    /\ Typed
    /\ Listing
    /\ NotYet
    /\ RowsGood(jobs, nth, Granted)
    /\ experiment # Missing => CopyGood(experiment, Begun, Lost, confirmed)
    /\ ThreadsGood
    /\ StartersGood

-----------------------------------------------------------------------------
(* Steps that start no job *)

\* No thread comes to start a job, and one that starts stays as it is.
Calm == \A v \in Workers : worker'[v].at \in Starting => worker'[v] = worker[v]

LEMMA CalmMove ==
    ASSUME IInv, NEW w \in Workers, NEW T, worker' = [worker EXCEPT ![w] = T], T.at \notin Starting
    PROVE  Calm
BY DEF IInv, ThreadsGood, Calm

LEMMA CalmMoves ==
    ASSUME IInv, NEW w \in Workers, NEW place \in Places \ Starting, NEW status, NEW copy,
           \/ Rests(w) \/ Goes(w, place) \/ RowBecomes(w, status)
           \/ worker' = [worker EXCEPT ![w] = [@ EXCEPT !.at = place, !.copy = copy]]
    PROVE  Calm
<1>1. worker[w] \in Threads BY DEF IInv, ThreadsGood
<1>2. CASE Rests(w)
    <2>1. Idle.at \notin Starting BY DEF Idle, Starting
    <2> QED BY <1>2, <2>1, CalmMove DEF Rests
<1>3. CASE Goes(w, place)
    <2> DEFINE T == [worker[w] EXCEPT !.at = place]
    <2>1. T.at = place BY <1>1 DEF Threads
    <2>2. worker' = [worker EXCEPT ![w] = T] BY <1>3 DEF Goes
    <2> HIDE DEF T
    <2> QED BY <2>1, <2>2, CalmMove
<1>4. CASE RowBecomes(w, status)
    <2> DEFINE rows == Restated(worker[w].rows, worker[w].next, status)
               next == worker[w].next + 1
               T == [worker[w] EXCEPT !.rows = rows, !.next = next, !.at = "poll"]
    <2>1. worker' = [worker EXCEPT ![w] = T] BY <1>4 DEF RowBecomes
    <2>2. T.at \notin Starting
        <3> HIDE DEF rows, next
        <3> QED BY <1>1 DEF Threads, Starting
    <2> HIDE DEF T
    <2> QED BY <2>1, <2>2, CalmMove
<1>5. CASE worker' = [worker EXCEPT ![w] = [@ EXCEPT !.at = place, !.copy = copy]]
    <2> DEFINE T == [worker[w] EXCEPT !.at = place, !.copy = copy]
    <2>1. T.at = place BY <1>1 DEF Threads
    <2>2. worker' = [worker EXCEPT ![w] = T] BY <1>5
    <2> HIDE DEF T
    <2> QED BY <2>1, <2>2, CalmMove
<1> QED BY <1>2, <1>3, <1>4, <1>5

LEMMA CalmSteps ==
    ASSUME IInv, NEW w \in Workers,
           \/ BatchWrites(w) \/ Save(w) \/ Collect(w) \/ CollectGivenUp(w) \/ Mark(w) \/ PollNext(w) \/ PollJob(w)
           \/ AfterCollect(w) \/ WriteJobs(w)
    PROVE  Calm
<1>r. ASSUME Rests(w) PROVE Calm
    <2>1. "poll" \in Places \ Starting BY DEF Places, Starting
    <2> QED BY <1>r, <2>1, CalmMoves
<1>g. ASSUME NEW place \in Places \ Starting, Goes(w, place) PROVE Calm BY <1>g, CalmMoves
<1>b. ASSUME NEW status, RowBecomes(w, status) PROVE Calm
    <2>1. "poll" \in Places \ Starting BY DEF Places, Starting
    <2> QED BY <1>b, <2>1, CalmMoves
<1>1. CASE BatchWrites(w) BY <1>1 DEF BatchWrites, Calm
<1>2. CASE Save(w)
    <2>1. Rests(w) \/ Goes(w, "mark") \/ Goes(w, "unconfirmed") BY <1>2 DEF Save
    <2> QED BY <2>1, <1>r, <1>g, <1>b DEF Places, Starting
<1>3. CASE Collect(w)
    <2>1. \/ Rests(w) \/ Goes(w, "unconfirmed")
          \/ \E source, content : CollectedFrom(w, source, content)
        BY <1>3 DEF Collect
    <2>2. \/ Rests(w) \/ Goes(w, "unconfirmed")
          \/ \E copy : worker' = [worker EXCEPT ![w] = [@ EXCEPT !.at = "saveCollected", !.copy = copy]]
          \/ \E copy : worker' = [worker EXCEPT ![w] = [@ EXCEPT !.at = "savePending", !.copy = copy]]
        BY <2>1 DEF CollectedFrom
    <2>3. "saveCollected" \in Places \ Starting /\ "savePending" \in Places \ Starting
          /\ "unconfirmed" \in Places \ Starting
        BY DEF Places, Starting
    <2>4. ASSUME NEW place \in Places \ Starting, NEW copy,
                 worker' = [worker EXCEPT ![w] = [@ EXCEPT !.at = place, !.copy = copy]]
          PROVE  Calm
        BY <2>4, CalmMoves
    <2>5. CASE Rests(w) \/ Goes(w, "unconfirmed") BY <2>3, <2>5, <1>r, <1>g
    <2> QED BY <2>2, <2>3, <2>4, <2>5
<1>4. CASE CollectGivenUp(w) BY <1>4, <1>r DEF CollectGivenUp
<1>5. CASE Mark(w)
    <2>1. Rests(w) \/ Goes(w, "confirmed") BY <1>5 DEF Mark
    <2> QED BY <2>1, <1>r, <1>g, <1>b DEF Places, Starting
<1>6. CASE PollNext(w) \/ AfterCollect(w)
    <2>1. \E status : RowBecomes(w, status) BY <1>6 DEF PollNext, AfterCollect
    <2> QED BY <2>1, <1>r, <1>g, <1>b DEF Places, Starting
<1>7. CASE PollJob(w)
    <2>1. Rests(w) \/ Goes(w, "collect") \/ \E status : RowBecomes(w, status) BY <1>7 DEF PollJob
    <2> QED BY <2>1, <1>r, <1>g, <1>b DEF Places, Starting
<1>8. CASE WriteJobs(w) BY <1>8, <1>r DEF WriteJobs
<1> QED BY <1>1, <1>2, <1>3, <1>4, <1>5, <1>6, <1>7, <1>8

-----------------------------------------------------------------------------
(* What was true stays true *)

Grows ==
    /\ \A j \in JobIds : nth[j] # 0 => nth'[j] = nth[j]
    /\ Granted \subseteq Granted' /\ Begun \subseteq Begun' /\ Lost \subseteq Lost' /\ confirmed \subseteq confirmed'

\* What every step keeps besides what threads carry.
Kept ==
    /\ Grows
    /\ Typed' /\ Listing' /\ NotYet' /\ StartersGood'

LEMMA RowsStay ==
    ASSUME NEW rows, NEW f, NEW g, NEW G, NEW H, RowsGood(rows, f, G), G \subseteq H,
           \A j \in JobIds : f[j] # 0 => g[j] = f[j]
    PROVE  RowsGood(rows, g, H)
<1>1. \A i \in DOMAIN rows : rows[i] \in Jobs BY DEF RowsGood
<1>2. \A i \in DOMAIN rows : rows[i].id \in JobIds BY <1>1 DEF Jobs
<1>3. \A i \in DOMAIN rows : g[rows[i].id] = f[rows[i].id] /\ f[rows[i].id] # 0 BY <1>2 DEF RowsGood
<1> QED BY <1>3 DEF RowsGood

LEMMA CopyStays ==
    ASSUME NEW copy, NEW S, NEW T, NEW L, NEW M, NEW C, NEW D, CopyGood(copy, S, L, C), S \subseteq T, L \subseteq M, C \subseteq D
    PROVE  CopyGood(copy, T, M, D)
BY DEF CopyGood

LEMMA Carried ==
    ASSUME IInv, Grows, NEW w \in Workers
    PROVE  worker[w] \in Threads /\ ThreadGood(worker[w], nth', Granted', Begun', Lost', confirmed')
<1>2. worker[w] \in Threads /\ ThreadGood(worker[w], nth, Granted, Begun, Lost, confirmed)
    BY DEF IInv, ThreadsGood
<1>3. RowsGood(worker[w].rows, nth', Granted') BY <1>2, RowsStay DEF Grows, ThreadGood
<1>4. CopyGood(worker[w].copy, Begun', Lost', confirmed') BY <1>2, CopyStays DEF Grows, ThreadGood
<1>5. worker[w].at \in {"saveCollected", "mark", "confirmed"} => "artifacts" \in confirmed' BY <1>2 DEF Grows, ThreadGood
<1> QED BY <1>2, <1>3, <1>4, <1>5 DEF ThreadGood

LEMMA CalmKept ==
    ASSUME IInv, Calm, UNCHANGED <<launched, listing, fetch>>, confirmed \subseteq confirmed',
           remote' \in [job : [JobIds -> RemoteStatuses], output : Contents],
           \A j \in JobIds : \/ remote'.job[j] = remote.job[j]
                             \/ /\ remote.job[j] \in {"queued", "running"}
                                /\ remote'.job[j] \notin {"none"}
    PROVE  Kept
<1>1. UNCHANGED <<appended, nth, behind>> BY DEF listing
<1>2. Typed' /\ Listing' BY <1>1 DEF IInv, Typed, Listing
<1>3. NotYet' BY <1>1 DEF IInv, NotYet
<1>4. \A j \in JobIds : AtCommand(j)' => AtCommand(j) BY DEF AtCommand, Calm, Starting
<1>5. Granted \subseteq Granted' /\ Begun \subseteq Begun' /\ Lost \subseteq Lost'
    BY <1>4 DEF Granted, Begun, Lost
<1>6. \A w \in Workers : worker'[w].at \in Starting => worker'[w] = worker[w] BY DEF Calm
<1>7. ASSUME NEW w \in Workers PROVE StarterGood(w)'
    <2> SUFFICES ASSUME worker'[w].at \in Starting PROVE StarterGood(w)' BY DEF StarterGood
    <2>1. worker'[w] = worker[w] /\ StarterGood(w) BY <1>6 DEF IInv, StartersGood
    <2>2. \A v \in Workers \ {w} : worker'[v].at \in Starting => worker'[v].row.id # worker'[w].row.id
        BY <1>6, <2>1 DEF StarterGood
    <2>3. worker[w].row.id \in JobIds /\ worker[w].row.id <= launched /\ nth[worker[w].row.id] = 0
        BY <2>1 DEF StarterGood
    <2>4. worker[w].at \in {"command", "batch"} => remote'.job[worker[w].row.id] = "none"
        BY <2>1, <2>3 DEF StarterGood
    <2>5. /\ worker[w].at = "batch" => ~worker[w].row.cloud
          /\ worker[w].at = "append" => ~worker[w].row.cloud \/ worker[w].row.status # "completed"
        BY <2>1 DEF StarterGood
    <2> QED BY <1>1, <2>1, <2>2, <2>3, <2>4, <2>5 DEF StarterGood
<1> QED BY <1>1, <1>2, <1>3, <1>5, <1>7 DEF Kept, Grows, StartersGood

\* A request that starts a job takes the next number, which nobody has.
LEMMA BeginKept ==
    ASSUME IInv, NEW w \in Workers, NEW op \in Ops, Begin(w, op)
    PROVE  Kept
<1> USE JobsAssumption
<1> DEFINE T == [at |-> Entry(op), op |-> op, copy |-> CopyFor(op),
                 rows |-> IF op = "refresh" THEN jobs ELSE <<>>, next |-> 1, row |-> RowFor(op)]
<1>1. worker' = [worker EXCEPT ![w] = T] /\ UNCHANGED <<appended, nth, remote, fetch, confirmed>> BY DEF Begin
<1>2. worker \in [Workers -> Threads] BY DEF IInv, ThreadsGood
<1>3. T.at = Entry(op) /\ T.row = RowFor(op) OBVIOUS
<1> HIDE DEF T
<1>4. CASE op \notin {"submit", "local"}
    <2>1. T.at \notin Starting BY <1>3, <1>4 DEF Entry, Ops, Starting
    <2>2. Calm BY <1>1, <2>1, CalmMove
    <2>3. UNCHANGED <<launched, listing>> BY <1>1, <1>4 DEF Begin, listing
    <2> QED BY <1>1, <2>2, <2>3, CalmKept DEF IInv, Typed
<1>5. CASE op \in {"submit", "local"}
    <2>1. /\ launched < MaxJobs /\ launched' = launched + 1
          /\ behind' = [behind EXCEPT ![launched + 1] = appended]
        BY <1>5 DEF Begin
    <2>2. launched \in Nat /\ launched + 1 \in JobIds BY <2>1 DEF IInv, Typed, JobIds
    <2>3. T.row.id = launched + 1 /\ (T.at = "batch" => ~T.row.cloud) /\ T.at \in {"command", "batch"}
        <3>1. RowFor(op) = [id |-> launched + 1, cloud |-> op = "submit", status |-> "queued"] BY <1>5 DEF RowFor
        <3>2. Entry(op) = IF op = "submit" THEN "command" ELSE "batch" BY <1>5 DEF Entry
        <3>3. RowFor(op).id = launched + 1 BY <3>1
        <3>4. op # "submit" => ~RowFor(op).cloud
            <4> SUFFICES ASSUME op # "submit" PROVE ~RowFor(op).cloud OBVIOUS
            <4>1. (op = "submit") = FALSE OBVIOUS
            <4>2. RowFor(op) = [id |-> launched + 1, cloud |-> FALSE, status |-> "queued"] BY <3>1, <4>1, Zenon
            <4> QED BY <4>2
        <3> QED BY <1>3, <1>5, <3>2, <3>3, <3>4
    <2>4. remote.job[launched + 1] = "none" /\ nth[launched + 1] = 0 BY <2>2 DEF IInv, NotYet, JobIds
    <2>5. worker'[w] = T /\ \A v \in Workers \ {w} : worker'[v] = worker[v] BY <1>1, <1>2
    <2>6. Typed' BY <1>1, <2>1, <2>2 DEF IInv, Typed, JobIds
    <2>7. Listing'
        <3>1. behind' \in [JobIds -> Nat] /\ behind'[launched + 1] = appended
              /\ \A j \in JobIds \ {launched + 1} : behind'[j] = behind[j]
            BY <2>1, <2>2 DEF IInv, Listing
        <3> QED BY <1>1, <2>2, <2>4, <3>1 DEF IInv, Listing
    <2>8. NotYet' BY <1>1, <2>1, <2>2 DEF IInv, NotYet, JobIds
    <2>9. \A j \in JobIds : AtCommand(j)' => AtCommand(j) \/ j = launched + 1 BY <2>3, <2>5 DEF AtCommand
    <2>10. Lost \subseteq Lost'
        <3>1. \A j \in Lost : j <= launched' /\ j # launched + 1 /\ j \in JobIds BY <2>1, <2>2 DEF Lost, JobIds
        <3> QED BY <1>1, <2>9, <3>1 DEF Lost
    <2>11. Grows BY <1>1, <2>10 DEF Grows, Granted, Begun
    <2>12. ASSUME NEW v \in Workers \ {w}, worker[v].at \in Starting
           PROVE  worker[v].row.id \in JobIds /\ worker[v].row.id <= launched
        BY <2>12 DEF IInv, StartersGood, StarterGood
    <2>13. ASSUME NEW v \in Workers PROVE StarterGood(v)'
        <3>1. CASE v = w
            <4>1. \A u \in Workers \ {w} : worker'[u].at \in Starting => worker'[u].row.id # launched + 1
                BY <2>2, <2>5, <2>12 DEF JobIds
            <4> QED BY <1>1, <2>1, <2>2, <2>3, <2>4, <2>5, <3>1, <4>1 DEF StarterGood, JobIds
        <3>2. CASE v # w
            <4> SUFFICES ASSUME worker[v].at \in Starting PROVE StarterGood(v)' BY <2>5, <3>2 DEF StarterGood
            <4>1. StarterGood(v) BY DEF IInv, StartersGood
            <4>2. worker[v].row.id \in JobIds /\ worker[v].row.id <= launched /\ worker[v].row.id # launched + 1
                BY <2>2, <2>12, <3>2 DEF JobIds
            <4>3. worker[v].row.id <= launched' BY <2>1, <2>2, <4>2 DEF JobIds
            <4>4. \A u \in Workers \ {v} : worker'[u].at \in Starting => worker'[u].row.id # worker[v].row.id
                BY <2>3, <2>5, <4>1, <4>2 DEF StarterGood
            <4> QED BY <1>1, <2>5, <3>2, <4>1, <4>2, <4>3, <4>4 DEF StarterGood
        <3> QED BY <3>1, <3>2
    <2> QED BY <2>6, <2>7, <2>8, <2>11, <2>13 DEF Kept, StartersGood
<1> QED BY <1>4, <1>5

\* The work of a thread that starts a job is over: its job gets an outcome.
LEMMA WorkKept ==
    ASSUME IInv, NEW w \in Workers, NEW status \in JobStatuses, NEW copyStatus, WillAppend(w, status, copyStatus),
           worker[w].at \in {"command", "batch"}, worker[w].at = "command" => status # "completed",
           UNCHANGED <<launched, listing, fetch>>, confirmed \subseteq confirmed',
           NEW said \in RemoteStatuses,
           \/ worker[w].at = "command" /\ said # "none" /\ remote' = [remote EXCEPT !.job = [@ EXCEPT ![worker[w].row.id] = said]]
           \/ worker[w].at = "batch" /\ remote' = remote
    PROVE  Kept
<1> DEFINE id == worker[w].row.id
           row == [worker[w].row EXCEPT !.status = status]
           T == [worker[w] EXCEPT !.at = "append", !.copy = Launched(w, copyStatus), !.row = row]
<1>1. worker \in [Workers -> Threads] /\ worker[w] \in Threads /\ worker[w].row \in Rows
    BY DEF IInv, ThreadsGood, Threads
<1>2. row.id = id /\ row.cloud = worker[w].row.cloud /\ row.status = status BY <1>1 DEF Rows
<1>3. worker' = [worker EXCEPT ![w] = T] BY DEF WillAppend
<1>4. T.at = "append" /\ T.row = row
    <2> HIDE DEF row
    <2> QED BY <1>1 DEF Threads
<1>5. worker'[w].at = "append" /\ worker'[w].row = row /\ \A v \in Workers \ {w} : worker'[v] = worker[v]
    <2> HIDE DEF T, row
    <2> QED BY <1>1, <1>3, <1>4
<1> HIDE DEF T, row
<1>6. StarterGood(w) /\ worker[w].at \in Starting BY DEF IInv, StartersGood, Starting
<1>7. id \in JobIds /\ id <= launched /\ nth[id] = 0 /\ remote.job[id] = "none" BY <1>6 DEF StarterGood
<1>8. UNCHANGED <<appended, nth, behind>> BY DEF listing
<1>9. /\ remote' \in [job : [JobIds -> RemoteStatuses], output : Contents]
      /\ \A j \in JobIds \ {id} : remote'.job[j] = remote.job[j]
    BY <1>7 DEF IInv, Typed
<1>10. Typed' /\ Listing' BY <1>8, <1>9 DEF IInv, Typed, Listing
<1>11. NotYet'
    <2>1. \A j \in JobIds : j > launched => j # id BY <1>7, JobsAssumption DEF JobIds, IInv, Typed
    <2> QED BY <1>8, <1>9, <2>1 DEF IInv, NotYet
<1>12. \A j \in JobIds : AtCommand(j)' => AtCommand(j) BY <1>5 DEF AtCommand
<1>13. Granted \subseteq Granted' /\ Begun \subseteq Begun' BY <1>7, <1>9 DEF Granted, Begun
<1>14. Lost \subseteq Lost'
    <2>1. CASE worker[w].at = "command"
        <3>1. AtCommand(id) BY <2>1 DEF AtCommand
        <3> QED BY <1>9, <1>12, <3>1 DEF Lost
    <2>2. CASE worker[w].at = "batch" BY <1>12, <2>2 DEF Lost
    <2> QED BY <2>1, <2>2
<1>15. Grows BY <1>8, <1>13, <1>14 DEF Grows
<1>16. ASSUME NEW v \in Workers PROVE StarterGood(v)'
    <2>1. CASE v = w
        <3>1. \A u \in Workers \ {w} : worker'[u].at \in Starting => worker'[u].row.id # id
            BY <1>5, <1>6 DEF StarterGood
        <3>2. ~worker'[w].row.cloud \/ worker'[w].row.status # "completed" BY <1>2, <1>5, <1>6 DEF StarterGood
        <3> QED BY <1>2, <1>5, <1>7, <1>8, <2>1, <3>1, <3>2 DEF StarterGood
    <2>2. CASE v # w
        <3> SUFFICES ASSUME worker[v].at \in Starting PROVE StarterGood(v)' BY <1>5, <2>2 DEF StarterGood
        <3>1. StarterGood(v) /\ worker[v].row.id \in JobIds /\ worker[v].row.id # id
            BY <1>6, <2>2 DEF IInv, StartersGood, StarterGood
        <3>2. \A u \in Workers \ {v} : worker'[u].at \in Starting => worker'[u].row.id # worker[v].row.id
            BY <1>2, <1>5, <3>1 DEF StarterGood
        <3> QED BY <1>5, <1>8, <1>9, <2>2, <3>1, <3>2 DEF StarterGood
    <2> QED BY <2>1, <2>2
<1> QED BY <1>10, <1>11, <1>15, <1>16 DEF Kept, StartersGood

LEMMA SubmitKept ==
    ASSUME IInv, NEW w \in Workers, SubmitJob(w)
    PROVE  Kept
<1>1. PICK outcome \in CommandOutcomes : \E job \in JobAfter(outcome) :
          /\ WillAppend(w, RowAfter(outcome), IF RowAfter(outcome) = "failed" THEN "failed" ELSE "submitted")
          /\ remote' = [remote EXCEPT !.job = [@ EXCEPT ![worker[w].row.id] = job]]
    BY DEF SubmitJob
<1>2. PICK job \in JobAfter(outcome) :
          /\ WillAppend(w, RowAfter(outcome), IF RowAfter(outcome) = "failed" THEN "failed" ELSE "submitted")
          /\ remote' = [remote EXCEPT !.job = [@ EXCEPT ![worker[w].row.id] = job]]
    BY <1>1
<1>3. RowAfter(outcome) \in JobStatuses /\ RowAfter(outcome) # "completed"
    BY DEF CommandOutcomes, RowAfter, JobStatuses
<1>4. job \in RemoteStatuses /\ job # "none" BY DEF CommandOutcomes, JobAfter, RemoteStatuses, JobStatuses
<1>5. worker[w].at = "command" /\ UNCHANGED <<launched, listing, fetch, confirmed>> BY DEF SubmitJob, history
<1> QED BY <1>2, <1>3, <1>4, <1>5, WorkKept

LEMMA BatchKept ==
    ASSUME IInv, NEW w \in Workers, RunBatch(w)
    PROVE  Kept
<1>1. PICK status \in {"completed", "failed"} : WillAppend(w, status, status) BY DEF RunBatch
<1>2. worker[w].at = "batch" /\ UNCHANGED <<launched, listing, fetch, remote>> /\ confirmed \subseteq confirmed'
    BY DEF RunBatch
<1>3. status \in JobStatuses /\ "none" \in RemoteStatuses BY DEF JobStatuses, RemoteStatuses
<1> QED BY <1>1, <1>2, <1>3, WorkKept

\* The row that is appended comes last, and after all that its job found there.
LEMMA AppendKept ==
    ASSUME IInv, NEW w \in Workers, AppendRow(w)
    PROVE  Kept
<1> DEFINE id == worker[w].row.id
           T == [worker[w] EXCEPT !.at = "save", !.row = NoRow]
<1>1. worker \in [Workers -> Threads] /\ worker[w] \in Threads BY DEF IInv, ThreadsGood
<1>2. worker' = [worker EXCEPT ![w] = T] /\ worker[w].at = "append" BY DEF AppendRow
<1>3. T.at = "save" BY <1>1 DEF Threads
<1>4. worker'[w].at = "save" /\ \A v \in Workers \ {w} : worker'[v] = worker[v]
    <2> HIDE DEF T
    <2> QED BY <1>1, <1>2, <1>3
<1> HIDE DEF T
<1>5. StarterGood(w) /\ worker[w].at \in Starting BY <1>2 DEF IInv, StartersGood, Starting
<1>6. id \in JobIds /\ id <= launched /\ nth[id] = 0 BY <1>5 DEF StarterGood
<1>7. /\ appended' = appended + 1 /\ nth' = [nth EXCEPT ![id] = appended + 1]
      /\ UNCHANGED <<launched, behind, remote, fetch, confirmed>>
    BY DEF AppendRow, history
<1>8. nth' \in [JobIds -> Nat] /\ nth'[id] = appended + 1 /\ \A j \in JobIds \ {id} : nth'[j] = nth[j]
    BY <1>6, <1>7 DEF IInv, Listing
<1>9. Typed' BY <1>7 DEF IInv, Typed
<1>10. Listing' BY <1>6, <1>7, <1>8 DEF IInv, Listing
<1>11. NotYet'
    <2>1. \A j \in JobIds : j > launched => j # id BY <1>6, JobsAssumption DEF JobIds, IInv, Typed
    <2> QED BY <1>7, <1>8, <2>1 DEF IInv, NotYet
<1>12. \A j \in JobIds : AtCommand(j)' => AtCommand(j) BY <1>4 DEF AtCommand
<1>13. Grows BY <1>6, <1>7, <1>8, <1>12 DEF Grows, Granted, Begun, Lost
<1>14. ASSUME NEW v \in Workers PROVE StarterGood(v)'
    <2> SUFFICES ASSUME worker'[v].at \in Starting PROVE StarterGood(v)' BY DEF StarterGood
    <2>1. v # w /\ worker'[v] = worker[v] BY <1>4 DEF Starting
    <2>2. StarterGood(v) /\ worker[v].row.id \in JobIds /\ worker[v].row.id # id
        BY <1>5, <2>1 DEF IInv, StartersGood, StarterGood
    <2>3. \A u \in Workers \ {v} : worker'[u].at \in Starting => worker'[u].row.id # worker[v].row.id
        BY <1>4, <2>1, <2>2 DEF StarterGood, Starting
    <2> QED BY <1>7, <1>8, <2>1, <2>2, <2>3 DEF StarterGood
<1> QED BY <1>9, <1>10, <1>11, <1>13, <1>14 DEF Kept, StartersGood

LEMMA RemoteKept ==
    ASSUME IInv, NEW j \in JobIds, RemoteAdvances(j)
    PROVE  Kept
<1>1. UNCHANGED <<worker, launched, listing, fetch, confirmed>> BY DEF RemoteAdvances, history
<1>2. \/ remote' = [remote EXCEPT !.output = "some"] \/ remote' = [remote EXCEPT !.output = "all"]
      \/ /\ remote.job[j] \in {"queued", "running"}
         /\ \E s \in {"running", "failed", "completed"} : remote' = [remote EXCEPT !.job = [@ EXCEPT ![j] = s]]
    BY DEF RemoteAdvances
<1>3. Calm BY <1>1 DEF Calm
<1>4. CASE remote'.job = remote.job /\ remote' \in [job : [JobIds -> RemoteStatuses], output : Contents]
    BY <1>1, <1>3, <1>4, CalmKept
<1>5. ASSUME NEW c \in {"some", "all"}, remote' = [remote EXCEPT !.output = c] PROVE Kept
    BY <1>4, <1>5 DEF Contents, IInv, Typed
<1>6. ASSUME NEW s \in {"running", "failed", "completed"}, remote.job[j] \in {"queued", "running"},
             remote' = [remote EXCEPT !.job = [@ EXCEPT ![j] = s]]
      PROVE  Kept
    <2>1. /\ remote'.job \in [JobIds -> RemoteStatuses] /\ remote'.output = remote.output
          /\ remote'.job[j] = s
          /\ \A i \in JobIds \ {j} : remote'.job[i] = remote.job[i]
        BY <1>6 DEF RemoteStatuses, JobStatuses, IInv, Typed
    <2>2. remote' \in [job : [JobIds -> RemoteStatuses], output : Contents] BY <1>6, <2>1 DEF IInv, Typed
    <2> QED BY <1>1, <1>3, <1>6, <2>1, <2>2, CalmKept
<1> QED BY <1>2, <1>5, <1>6

LEMMA StepsKept ==
    ASSUME IInv, [Next]_vars
    PROVE  Kept
<1>1. ASSUME Calm, UNCHANGED <<launched, listing, remote, fetch>>, confirmed \subseteq confirmed' PROVE Kept
    BY <1>1, CalmKept DEF IInv, Typed
<1>2. ASSUME NEW w \in Workers,
             \/ BatchWrites(w) \/ Save(w) \/ Collect(w) \/ CollectGivenUp(w) \/ Mark(w) \/ PollNext(w) \/ PollJob(w)
             \/ AfterCollect(w) \/ WriteJobs(w)
      PROVE  Kept
    <2>1. UNCHANGED <<launched, listing, remote, fetch>> /\ confirmed \subseteq confirmed'
        BY <1>2 DEF BatchWrites, Save, Collect, CollectGivenUp, Mark, PollNext, PollJob, AfterCollect, WriteJobs, history
    <2>2. Calm BY <1>2, CalmSteps
    <2> QED BY <1>1, <2>1, <2>2
<1>3. ASSUME Delete \/ UNCHANGED vars PROVE Kept
    <2>1. UNCHANGED <<launched, listing, remote, fetch, worker, confirmed>> BY <1>3 DEF Delete, vars, listing, history
    <2>2. Calm BY <2>1 DEF Calm
    <2> QED BY <1>1, <2>1, <2>2
<1> QED BY <1>2, <1>3, BeginKept, SubmitKept, BatchKept, AppendKept, RemoteKept DEF Next, Step

-----------------------------------------------------------------------------
(* What a thread carries after its step *)

\* One thread moves on: when what it carries is good, all threads are.
LEMMA OneThreadMoves ==
    ASSUME IInv, Grows, NEW w \in Workers, NEW T \in Threads, worker' = [worker EXCEPT ![w] = T],
           ThreadGood(T, nth', Granted', Begun', Lost', confirmed')
    PROVE  ThreadsGood'
<1>1. worker \in [Workers -> Threads] BY DEF IInv, ThreadsGood
<1>2. worker'[w] = T /\ \A v \in Workers \ {w} : worker'[v] = worker[v] BY <1>1
<1>3. \A v \in Workers \ {w} : ThreadGood(worker'[v], nth', Granted', Begun', Lost', confirmed')
    BY <1>2, Carried
<1>4. \A v \in Workers : ThreadGood(worker'[v], nth', Granted', Begun', Lost', confirmed') BY <1>2, <1>3
<1> QED BY <1>1, <1>4 DEF ThreadsGood

\* A thread at rest, or at a place that asks for nothing, keeps what it carries.
LEMMA IdleGood ==
    ASSUME NEW f, NEW G, NEW S, NEW L, NEW C
    PROVE  Idle \in Threads /\ ThreadGood(Idle, f, G, S, L, C)
<1>1. <<>> \in Seq(Jobs) /\ DOMAIN <<>> = {} OBVIOUS
<1>2. Created \in Experiments BY JobsAssumption DEF Created, Experiments, Statuses
<1>3. RowsGood(<<>>, f, G) BY <1>1 DEF RowsGood
<1>4. CopyGood(Created, S, L, C) BY <1>2 DEF CopyGood, Created
<1>5. NoRow \in Rows BY JobsAssumption DEF NoRow, Rows, JobStatuses
<1> QED BY <1>1, <1>2, <1>3, <1>4, <1>5 DEF Idle, Threads, ThreadGood, Places

LEMMA AppendKeepsRows ==
    ASSUME NEW rows, NEW n \in Nat, NEW f \in [JobIds -> Nat], NEW G, NEW job \in Jobs, RowsGood(rows, f, G),
           f[job.id] = n + 1, \A i \in DOMAIN rows : f[rows[i].id] <= n,
           job.cloud /\ job.status = "completed" => job.id \in G
    PROVE  RowsGood(Append(rows, job), f, G)
<1> DEFINE next == Append(rows, job)
<1>1. rows \in Seq(Jobs) /\ Len(rows) \in Nat BY DEF RowsGood
<1>2. next \in Seq(Jobs) /\ DOMAIN next = 1 .. Len(rows) + 1 /\ next[Len(rows) + 1] = job
      /\ \A i \in DOMAIN rows : next[i] = rows[i] /\ i \in 1 .. Len(rows)
    BY <1>1
<1> HIDE DEF next
<1>3. \A i \in DOMAIN next : i = Len(rows) + 1 \/ i \in DOMAIN rows BY <1>1, <1>2
<1>4. \A i \in DOMAIN rows : f[rows[i].id] \in Nat /\ f[rows[i].id] < n + 1
    <2>1. \A i \in DOMAIN rows : rows[i] \in Jobs BY <1>1
    <2>2. \A i \in DOMAIN rows : rows[i].id \in JobIds BY <2>1 DEF Jobs
    <2> QED BY <2>2
<1>5. \A i \in DOMAIN next : f[next[i].id] # 0 BY <1>2, <1>3 DEF RowsGood
<1>6. ASSUME NEW i \in DOMAIN next, NEW k \in DOMAIN next, i < k PROVE f[next[i].id] < f[next[k].id]
    <2>1. i \in DOMAIN rows BY <1>1, <1>2, <1>3, <1>6
    <2>2. CASE k = Len(rows) + 1 BY <1>2, <1>4, <2>1, <2>2
    <2>3. CASE k \in DOMAIN rows BY <1>2, <1>6, <2>1, <2>3 DEF RowsGood
    <2> QED BY <1>3, <2>2, <2>3
<1>7. \A i \in DOMAIN next : next[i].cloud /\ next[i].status = "completed" => next[i].id \in G
    BY <1>2, <1>3 DEF RowsGood
<1>8. RowsGood(next, f, G) BY <1>2, <1>5, <1>6, <1>7 DEF RowsGood
<1> QED BY <1>8 DEF next

\* Statuses change, ids and order do not.
LEMMA RestatedRowsGood ==
    ASSUME NEW rows, NEW next \in Seq(Jobs), NEW f, NEW G, RowsGood(rows, f, G), DOMAIN next = DOMAIN rows,
           \A i \in DOMAIN rows : next[i].id = rows[i].id /\ next[i].cloud = rows[i].cloud,
           \A i \in DOMAIN rows : next[i].status = rows[i].status \/ (next[i].status = "completed" => rows[i].id \in G)
    PROVE  RowsGood(next, f, G)
BY DEF RowsGood

\* What the provider is heard to say is what the job is.
LEMMA HeardIsSaid ==
    ASSUME NEW j, NEW word \in Says(j), NEW status \in Heard(word)
    PROVE  status = remote.job[j]
BY DEF Says, Heard, Words

LEMMA ThreadRests ==
    ASSUME IInv, Grows, NEW w \in Workers, Rests(w)
    PROVE  ThreadsGood'
<1>1. Idle \in Threads /\ ThreadGood(Idle, nth', Granted', Begun', Lost', confirmed') BY IdleGood DEF Grows
<1> QED BY <1>1, OneThreadMoves DEF Rests

LEMMA ThreadGoes ==
    ASSUME IInv, Grows, NEW w \in Workers, NEW place \in Places, Goes(w, place),
           place \in {"saveCollected", "mark", "confirmed"} => "artifacts" \in confirmed'
    PROVE  ThreadsGood'
<1> DEFINE T == [worker[w] EXCEPT !.at = place]
<1>1. worker[w] \in Threads /\ ThreadGood(worker[w], nth', Granted', Begun', Lost', confirmed') BY Carried
<1>2. T \in Threads /\ T.at = place /\ T.copy = worker[w].copy /\ T.rows = worker[w].rows BY <1>1 DEF Threads
<1>3. ThreadGood(T, nth', Granted', Begun', Lost', confirmed') BY <1>1, <1>2 DEF ThreadGood
<1> QED BY <1>2, <1>3, OneThreadMoves DEF Goes

LEMMA ThreadWillSave ==
    ASSUME IInv, Grows, NEW w \in Workers, NEW place \in Places, NEW copy,
           worker' = [worker EXCEPT ![w] = [@ EXCEPT !.at = place, !.copy = copy]],
           CopyGood(copy, Begun', Lost', confirmed'),
           place \in {"saveCollected", "mark", "confirmed"} => "artifacts" \in confirmed'
    PROVE  ThreadsGood'
<1> DEFINE T == [worker[w] EXCEPT !.at = place, !.copy = copy]
<1>1. worker[w] \in Threads /\ ThreadGood(worker[w], nth', Granted', Begun', Lost', confirmed') BY Carried
<1>2. copy \in Experiments BY DEF CopyGood
<1>3. T \in Threads /\ T.at = place /\ T.copy = copy /\ T.rows = worker[w].rows BY <1>1, <1>2 DEF Threads
<1>4. ThreadGood(T, nth', Granted', Begun', Lost', confirmed') BY <1>1, <1>3 DEF ThreadGood
<1> QED BY <1>3, <1>4, OneThreadMoves

LEMMA ThreadRestates ==
    ASSUME IInv, Grows, NEW w \in Workers, NEW status \in JobStatuses, RowBecomes(w, status),
           \/ worker[w].next \notin DOMAIN worker[w].rows \/ status = Row(w).status
           \/ (status = "completed" => Row(w).id \in Granted')
    PROVE  ThreadsGood'
<1> DEFINE rows == worker[w].rows
           n == worker[w].next
           next == Restated(rows, n, status)
           T == [worker[w] EXCEPT !.rows = next, !.next = n + 1, !.at = "poll"]
<1>1. worker[w] \in Threads /\ ThreadGood(worker[w], nth', Granted', Begun', Lost', confirmed') BY Carried
<1>2. rows \in Seq(Jobs) /\ n \in Nat \ {0} BY <1>1 DEF Threads
<1>3. \A i \in DOMAIN rows : rows[i] \in Jobs BY <1>2
<1>4. n \in DOMAIN rows => [rows[n] EXCEPT !.status = status] \in Jobs BY <1>3 DEF Jobs
<1>5. next \in Seq(Jobs) /\ DOMAIN next = DOMAIN rows
    <2>1. CASE n \in DOMAIN rows BY <1>2, <1>4, <2>1 DEF Restated
    <2>2. CASE n \notin DOMAIN rows
        <3>1. next = rows BY <1>2, <2>2 DEF Restated
        <3> QED BY <1>2, <3>1
    <2> QED BY <2>1, <2>2
<1>6. /\ \A i \in DOMAIN rows : next[i].id = rows[i].id /\ next[i].cloud = rows[i].cloud
      /\ \A i \in DOMAIN rows \ {n} : next[i].status = rows[i].status
      /\ n \in DOMAIN rows => next[n].status = status
    BY <1>2, <1>3 DEF Jobs, Restated
<1>7. RowsGood(next, nth', Granted')
    <2>1. RowsGood(rows, nth', Granted') BY <1>1 DEF ThreadGood
    <2>2. \A i \in DOMAIN rows : next[i].status = rows[i].status \/ (next[i].status = "completed" => rows[i].id \in Granted')
        BY <1>6 DEF Row
    <2> HIDE DEF next, rows
    <2> QED BY <1>5, <1>6, <2>1, <2>2, RestatedRowsGood
<1>8. T \in Threads /\ T.at = "poll" /\ T.copy = worker[w].copy /\ T.rows = next
    <2>1. n + 1 \in Nat \ {0} BY <1>2
    <2> HIDE DEF next, n
    <2> QED BY <1>1, <1>5, <2>1 DEF Threads, Places
<1>9. ThreadGood(T, nth', Granted', Begun', Lost', confirmed') BY <1>1, <1>7, <1>8 DEF ThreadGood
<1>10. worker' = [worker EXCEPT ![w] = T] BY DEF RowBecomes
<1> HIDE DEF T
<1> QED BY <1>8, <1>9, <1>10, OneThreadMoves

-----------------------------------------------------------------------------
(* The invariant *)

Good ==
    /\ RowsGood(jobs, nth, Granted)
    /\ experiment # Missing => CopyGood(experiment, Begun, Lost, confirmed)
    /\ ThreadsGood

LEMMA RowOfThread ==
    ASSUME IInv, NEW w \in Workers, worker[w].next <= Len(worker[w].rows)
    PROVE  worker[w].next \in DOMAIN worker[w].rows /\ Row(w) \in Jobs
<1>1. worker[w].rows \in Seq(Jobs) /\ worker[w].next \in Nat \ {0} BY DEF IInv, ThreadsGood, Threads
<1> QED BY <1>1 DEF Row

\* A request begins with what it reads, which is good.
LEMMA BeginKeeps ==
    ASSUME IInv, Grows, NEW w \in Workers, NEW op \in Ops, Begin(w, op)
    PROVE  ThreadsGood'
<1> DEFINE rows == IF op = "refresh" THEN jobs ELSE <<>>
           T == [at |-> Entry(op), op |-> op, copy |-> CopyFor(op), rows |-> rows, next |-> 1, row |-> RowFor(op)]
<1>1. experiment # Missing /\ worker' = [worker EXCEPT ![w] = T] BY DEF Begin
<1>2. CopyGood(experiment, Begun', Lost', confirmed') BY <1>1, CopyStays DEF IInv, Grows
<1>3. CopyGood(CopyFor(op), Begun', Lost', confirmed')
    <2>1. CopyGood(Created, Begun', Lost', confirmed') BY IdleGood DEF Grows, ThreadGood, Idle
    <2>2. CopyGood([experiment EXCEPT !.status = "manifest_generated"], Begun', Lost', confirmed')
        BY <1>2 DEF CopyGood, Experiments, Statuses
    <2> QED BY <1>2, <2>1, <2>2 DEF CopyFor, Annotated
<1>4. RowsGood(rows, nth', Granted')
    <2>2. RowsGood(jobs, nth', Granted') BY RowsStay DEF IInv, Grows
    <2>3. RowsGood(<<>>, nth', Granted') BY IdleGood DEF Grows, ThreadGood, Idle
    <2> QED BY <2>2, <2>3
<1>5. Entry(op) \in Places \ {"saveCollected", "mark", "confirmed"} BY DEF Entry, Ops, Places
<1>6. CopyFor(op) \in Experiments /\ rows \in Seq(Jobs) BY <1>3, <1>4 DEF CopyGood, RowsGood
<1> HIDE DEF rows
<1>9. RowFor(op) \in Rows
    <2>1. launched + 1 \in 0 .. MaxJobs \/ op \notin {"submit", "local"} BY JobsAssumption DEF Begin, IInv, Typed
    <2> QED BY <2>1, JobsAssumption DEF RowFor, NoRow, Rows, JobStatuses
<1>7. T \in Threads BY <1>5, <1>6, <1>9 DEF Threads
<1>8. ThreadGood(T, nth', Granted', Begun', Lost', confirmed') BY <1>3, <1>4, <1>5 DEF ThreadGood
<1> QED BY <1>1, <1>7, <1>8, OneThreadMoves

\* Rows and manifest that a step leaves alone stay good.
LEMMA LeftAlone ==
    ASSUME IInv, Grows
    PROVE  /\ jobs' = jobs => RowsGood(jobs', nth', Granted')
           /\ experiment' = experiment => (experiment' # Missing => CopyGood(experiment', Begun', Lost', confirmed'))
           /\ worker' = worker => ThreadsGood'
<1>2. RowsGood(jobs, nth', Granted') BY RowsStay DEF IInv, Grows
<1>3. experiment # Missing => CopyGood(experiment, Begun', Lost', confirmed') BY CopyStays DEF IInv, Grows
<1>4. ASSUME worker' = worker PROVE ThreadsGood' BY <1>4, Carried DEF IInv, ThreadsGood
<1> QED BY <1>2, <1>3, <1>4

\* The work is over: the thread will append its row, and then save a manifest
\* that names it.
LEMMA WorkKeeps ==
    ASSUME IInv, Grows, NEW w \in Workers, worker[w].at \in Starting,
           NEW rowStatus \in JobStatuses, NEW status, WillAppend(w, rowStatus, status),
           CopyGood(Launched(w, status), Begun', Lost', confirmed')
    PROVE  ThreadsGood'
<1> DEFINE copy == Launched(w, status)
           row == [worker[w].row EXCEPT !.status = rowStatus]
           T == [worker[w] EXCEPT !.at = "append", !.copy = copy, !.row = row]
<1>1. worker[w] \in Threads /\ ThreadGood(worker[w], nth', Granted', Begun', Lost', confirmed') BY Carried
<1>2. row \in Rows
    <2>1. worker[w].row \in Rows BY <1>1 DEF Threads
    <2> QED BY <2>1 DEF Rows
<1>3. copy \in Experiments BY DEF CopyGood
<1>4. worker' = [worker EXCEPT ![w] = T] BY DEF WillAppend
<1>5. T \in Threads /\ T.at = "append" /\ T.copy = copy /\ T.rows = worker[w].rows
    <2> HIDE DEF copy, row
    <2> QED BY <1>1, <1>2, <1>3 DEF Threads, Places
<1>6. ThreadGood(T, nth', Granted', Begun', Lost', confirmed')
    <2> HIDE DEF T
    <2> QED BY <1>1, <1>5 DEF ThreadGood
<1> HIDE DEF T
<1> QED BY <1>4, <1>5, <1>6, OneThreadMoves

LEMMA LaunchedTyped ==
    ASSUME IInv, NEW w \in Workers, worker[w].at \in Starting, NEW status \in Statuses
    PROVE  /\ Launched(w, status) = [status |-> status, batch |-> worker[w].row.id]
           /\ Launched(w, status) \in Experiments
           /\ worker[w].row.id \in JobIds /\ worker[w].row.id <= launched
<1>1. StarterGood(w) BY DEF IInv, StartersGood
<1>2. worker[w].row.id \in JobIds /\ worker[w].row.id <= launched BY <1>1 DEF StarterGood
<1>3. Launched(w, status) = [status |-> status, batch |-> worker[w].row.id] BY DEF Launched
<1>4. worker[w].row.id \in 0 .. MaxJobs BY <1>2, JobsAssumption DEF JobIds
<1> QED BY <1>2, <1>3, <1>4 DEF Experiments

\* The thread that has left the command was the only one with its job.
LEMMA OwnJob ==
    ASSUME IInv, NEW w \in Workers, worker[w].at \in Starting, NEW status, NEW copyStatus, WillAppend(w, status, copyStatus),
           NEW id \in JobIds, id = worker[w].row.id
    PROVE  ~AtCommand(id)'
<1>1. worker[w] \in Threads /\ worker \in [Workers -> Threads] BY DEF IInv, ThreadsGood
<1> DEFINE row == [worker[w].row EXCEPT !.status = status]
           copy == Launched(w, copyStatus)
           T == [worker[w] EXCEPT !.at = "append", !.copy = copy, !.row = row]
<1>2. worker' = [worker EXCEPT ![w] = T] BY DEF WillAppend
<1>3. T.at = "append"
    <2> HIDE DEF row, copy
    <2> QED BY <1>1 DEF Threads
<1> HIDE DEF T
<1>4. worker'[w].at = "append" /\ \A v \in Workers \ {w} : worker'[v] = worker[v] BY <1>1, <1>2, <1>3
<1>5. StarterGood(w) BY DEF IInv, StartersGood
<1>6. \A v \in Workers \ {w} : worker[v].at = "command" => worker[v].row.id # worker[w].row.id
    BY <1>5 DEF StarterGood, Starting
<1>7. \A v \in Workers : worker'[v].at = "command" => worker'[v].row.id # id BY <1>4, <1>6
<1> QED BY <1>7 DEF AtCommand

LEMMA SubmitKeeps ==
    ASSUME IInv, Grows, NEW w \in Workers, SubmitJob(w)
    PROVE  Good'
<1>1a. PICK outcome \in CommandOutcomes : \E job \in JobAfter(outcome) :
          /\ WillAppend(w, RowAfter(outcome), IF RowAfter(outcome) = "failed" THEN "failed" ELSE "submitted")
          /\ remote' = [remote EXCEPT !.job = [@ EXCEPT ![worker[w].row.id] = job]]
    BY DEF SubmitJob
<1>1. PICK job \in JobAfter(outcome) :
          /\ WillAppend(w, RowAfter(outcome), IF RowAfter(outcome) = "failed" THEN "failed" ELSE "submitted")
          /\ remote' = [remote EXCEPT !.job = [@ EXCEPT ![worker[w].row.id] = job]]
    BY <1>1a
<1> DEFINE rowStatus == RowAfter(outcome)
           status == IF rowStatus = "failed" THEN "failed" ELSE "submitted"
<1>2. rowStatus \in JobStatuses BY DEF CommandOutcomes, RowAfter, JobStatuses
<1>3. worker[w].at \in Starting /\ UNCHANGED <<experiment, jobs, launched>> BY DEF SubmitJob, Starting
<1>4. status \in Statuses BY DEF Statuses
<1>5a. PICK id \in JobIds : id = worker[w].row.id BY <1>3, <1>4, LaunchedTyped
<1>5. /\ Launched(w, status) = [status |-> status, batch |-> id]
      /\ Launched(w, status) \in Experiments /\ id <= launched
    BY <1>3, <1>4, <1>5a, LaunchedTyped
<1>6. remote'.job[id] = job BY <1>1, <1>5a DEF IInv, Typed
<1>7. job # "none" /\ (rowStatus = "failed" => job \in {"failed", "orphan"})
    BY DEF CommandOutcomes, JobAfter, RowAfter
<1>8. id \in Begun' BY <1>5, <1>6, <1>7 DEF Begun
<1>9. ~AtCommand(id)' BY <1>1, <1>3, <1>5a, OwnJob
<1>10. rowStatus = "failed" => id \in Lost' BY <1>3, <1>5, <1>6, <1>7, <1>9 DEF Lost
<1>11. WillAppend(w, rowStatus, status) BY <1>1
<1> HIDE DEF rowStatus
<1>12. CopyGood(Launched(w, status), Begun', Lost', confirmed')
    BY <1>5, <1>8, <1>10 DEF CopyGood
<1> HIDE DEF status
<1>13. ThreadsGood' BY <1>2, <1>3, <1>11, <1>12, WorkKeeps
<1> QED BY <1>3, <1>13, LeftAlone DEF Good

LEMMA BatchKeeps ==
    ASSUME IInv, Grows, NEW w \in Workers, RunBatch(w)
    PROVE  Good'
<1>1. PICK status \in {"completed", "failed"} : WillAppend(w, status, status) /\ (status = "completed" => confirmed' # {})
    BY DEF RunBatch
<1>2. worker[w].at \in Starting /\ worker[w].at = "batch" /\ UNCHANGED <<experiment, jobs, launched, remote>>
    BY DEF RunBatch, Starting
<1>3. status \in JobStatuses /\ status \in Statuses BY DEF JobStatuses, Statuses
<1>4a. PICK id \in JobIds : id = worker[w].row.id BY <1>2, <1>3, LaunchedTyped
<1>4. /\ Launched(w, status) = [status |-> status, batch |-> id]
      /\ Launched(w, status) \in Experiments /\ id <= launched
    BY <1>2, <1>3, <1>4a, LaunchedTyped
<1>5. remote.job[id] = "none" BY <1>2, <1>4a DEF IInv, StartersGood, StarterGood
<1>6. ~AtCommand(id)' BY <1>1, <1>2, <1>4a, OwnJob
<1>7. id \in Lost' BY <1>2, <1>4, <1>5, <1>6 DEF Lost
<1>8. CopyGood(Launched(w, status), Begun', Lost', confirmed') BY <1>1, <1>4, <1>7 DEF CopyGood
<1>9. ThreadsGood' BY <1>1, <1>2, <1>3, <1>8, WorkKeeps
<1> QED BY <1>2, <1>9, LeftAlone DEF Good

\* Appending a row that is not a confirmed cloud job.
LEMMA AppendKeeps ==
    ASSUME IInv, Grows, NEW w \in Workers, AppendRow(w)
    PROVE  Good'
<1> DEFINE row == worker[w].row
           T == [worker[w] EXCEPT !.at = "save", !.row = NoRow]
<1>1. worker[w] \in Threads /\ ThreadGood(worker[w], nth', Granted', Begun', Lost', confirmed') BY Carried
<1>2. worker' = [worker EXCEPT ![w] = T] /\ worker[w].at = "append" /\ jobs' = Append(jobs, row) /\ UNCHANGED experiment
      /\ nth' = [nth EXCEPT ![row.id] = appended + 1]
    BY DEF AppendRow
<1>3. NoRow \in Rows BY JobsAssumption DEF NoRow, Rows, JobStatuses
<1>4. T \in Threads /\ T.at = "save" /\ T.copy = worker[w].copy /\ T.rows = worker[w].rows
    BY <1>1, <1>3 DEF Threads, Places
<1>5. ThreadsGood'
    <2> HIDE DEF T
    <2>1. ThreadGood(T, nth', Granted', Begun', Lost', confirmed') BY <1>1, <1>4 DEF ThreadGood
    <2> QED BY <1>2, <1>4, <2>1, OneThreadMoves
<1>6. StarterGood(w) BY DEF IInv, StartersGood
<1>7. row.id \in JobIds /\ nth[row.id] = 0 /\ (~row.cloud \/ row.status # "completed")
    BY <1>2, <1>6 DEF StarterGood, Starting
<1>8. row \in Jobs
    <2>1. row \in Rows BY <1>1 DEF Threads
    <2> HIDE DEF row
    <2> QED BY <1>7, <2>1 DEF Rows, Jobs
<1>9. appended \in Nat /\ nth' \in [JobIds -> Nat] /\ nth'[row.id] = appended + 1
    BY <1>2, <1>7 DEF IInv, Listing
<1>10. RowsGood(jobs, nth', Granted') /\ RowsGood(jobs, nth, Granted) BY RowsStay DEF IInv, Grows
<1>11. \A i \in DOMAIN jobs : nth'[jobs[i].id] <= appended
    <2>1. \A i \in DOMAIN jobs : jobs[i] \in Jobs BY <1>10 DEF RowsGood
    <2>2. \A i \in DOMAIN jobs : jobs[i].id \in JobIds BY <2>1 DEF Jobs
    <2>3. \A i \in DOMAIN jobs : nth'[jobs[i].id] = nth[jobs[i].id] BY <1>10, <2>2 DEF RowsGood, Grows
    <2> QED BY <2>2, <2>3 DEF IInv, Listing
<1> HIDE DEF row
<1>12. RowsGood(Append(jobs, row), nth', Granted') BY <1>7, <1>8, <1>9, <1>10, <1>11, AppendKeepsRows
<1> QED BY <1>2, <1>5, <1>12, LeftAlone DEF Good

LEMMA SaveKeeps ==
    ASSUME IInv, Grows, NEW w \in Workers, Save(w)
    PROVE  Good'
<1>1. worker[w] \in Threads /\ ThreadGood(worker[w], nth', Granted', Begun', Lost', confirmed') BY Carried
<1>2. CopyGood(experiment', Begun', Lost', confirmed') BY <1>1 DEF Save, ThreadGood
<1>3. ThreadsGood'
    <2>1. CASE worker[w].at = "saveCollected"
        <3>1. Goes(w, "mark") /\ "artifacts" \in confirmed' BY <1>1, <2>1 DEF Save, ThreadGood
        <3> QED BY <3>1, ThreadGoes DEF Places
    <2>2. CASE worker[w].at # "saveCollected"
        <3>1. Goes(w, "unconfirmed") \/ Rests(w) BY <2>2 DEF Save
        <3> QED BY <3>1, ThreadGoes, ThreadRests DEF Places
    <2> QED BY <2>1, <2>2
<1>4. UNCHANGED jobs BY DEF Save
<1> QED BY <1>2, <1>3, <1>4, LeftAlone DEF Good

LEMMA CollectKeeps ==
    ASSUME IInv, Grows, NEW w \in Workers, Collect(w)
    PROVE  Good'
<1>1. UNCHANGED <<experiment, jobs>> BY DEF Collect
<1>2. CASE experiment = Missing
    <2>1. Goes(w, "unconfirmed") \/ Rests(w) BY <1>2 DEF Collect
    <2> QED BY <1>1, <2>1, ThreadGoes, ThreadRests, LeftAlone DEF Places, Good
<1>3. CASE experiment # Missing
    <2>1. CopyGood(experiment, Begun', Lost', confirmed') BY <1>1, <1>3, LeftAlone
    <2>2. PICK source, content : CollectedFrom(w, source, content) /\ (content = "all" => "artifacts" \in confirmed')
        BY <1>3 DEF Collect
    <2>3. CASE content = "all"
        <3> DEFINE copy == [experiment EXCEPT !.status = "completed"]
        <3>1. CopyGood(copy, Begun', Lost', confirmed')
            BY <2>1, <2>2, <2>3 DEF CopyGood, Experiments, Statuses
        <3>2. worker' = [worker EXCEPT ![w] = [@ EXCEPT !.at = "saveCollected", !.copy = copy]]
            BY <2>2, <2>3 DEF CollectedFrom
        <3> HIDE DEF copy
        <3>3. ThreadsGood' BY <2>2, <2>3, <3>1, <3>2, ThreadWillSave DEF Places
        <3> QED BY <1>1, <3>3, LeftAlone DEF Good
    <2>4. CASE content # "all"
        <3> DEFINE copy == [experiment EXCEPT !.status = "cloud_artifacts_pending"]
        <3>1. CopyGood(copy, Begun', Lost', confirmed') BY <2>1 DEF CopyGood, Experiments, Statuses
        <3>2. worker' = [worker EXCEPT ![w] = [@ EXCEPT !.at = "savePending", !.copy = copy]]
            BY <2>2, <2>4 DEF CollectedFrom
        <3> HIDE DEF copy
        <3>3. ThreadsGood' BY <3>1, <3>2, ThreadWillSave DEF Places
        <3> QED BY <1>1, <3>3, LeftAlone DEF Good
    <2> QED BY <2>3, <2>4
<1> QED BY <1>2, <1>3

\* A thread marks a row only after it has seen a full set of artifacts.
LEMMA MarkKeeps ==
    ASSUME IInv, Grows, NEW w \in Workers, Mark(w)
    PROVE  Good'
<1>1. "artifacts" \in confirmed' BY Carried DEF Mark, ThreadGood
<1>2. jobs \in Seq(Jobs) /\ RowsGood(jobs, nth, Granted) BY DEF IInv, RowsGood
<1>3. jobs' \in Seq(Jobs) /\ DOMAIN jobs' = DOMAIN jobs
    <2>1. \A i \in DOMAIN jobs : jobs[i] \in Jobs BY <1>2
    <2>2. \A i \in DOMAIN jobs : [jobs[i] EXCEPT !.status = "completed"] \in Jobs BY <2>1 DEF Jobs, JobStatuses
    <2> QED BY <1>2, <2>1, <2>2 DEF Mark, Marked
<1>4. \A i \in DOMAIN jobs : /\ jobs'[i].id = jobs[i].id /\ jobs'[i].cloud = jobs[i].cloud
                             /\ jobs'[i].status = jobs[i].status \/ jobs[i].id \in Granted'
    <2>1. \A i \in DOMAIN jobs : jobs[i] \in Jobs BY <1>2
    <2>2. \A i \in DOMAIN jobs : jobs[i].id \in Granted' BY <1>1, <2>1 DEF Jobs, Granted
    <2> QED BY <2>1, <2>2 DEF Mark, Marked, Jobs
<1>5. RowsGood(jobs, nth', Granted')
    BY <1>2, RowsStay DEF Grows
<1>6. RowsGood(jobs', nth', Granted') BY <1>3, <1>4, <1>5, RestatedRowsGood
<1>7. ThreadsGood'
    <2>1. Goes(w, "confirmed") \/ Rests(w) BY DEF Mark
    <2> QED BY <1>1, <2>1, ThreadGoes, ThreadRests DEF Places
<1> QED BY <1>6, <1>7, LeftAlone DEF Good, Mark

LEMMA PollKeeps ==
    ASSUME IInv, Grows, NEW w \in Workers, PollNext(w) \/ PollJob(w)
    PROVE  Good'
<1>1. UNCHANGED <<experiment, jobs, remote, fetch>> /\ worker[w].next <= Len(worker[w].rows)
    BY DEF PollNext, PollJob
<1>2. worker[w].next \in DOMAIN worker[w].rows /\ Row(w) \in Jobs BY <1>1, RowOfThread
<1>3. Row(w).id \in JobIds /\ Row(w).status \in JobStatuses BY <1>2 DEF Jobs
<1>4. ThreadsGood'
    <2>1. CASE Goes(w, "collect") \/ Rests(w) BY <2>1, ThreadGoes, ThreadRests DEF Places
    <2>2. CASE RowBecomes(w, Row(w).status) BY <1>2, <1>3, <2>2, ThreadRestates
    <2>3. CASE RowBecomes(w, "running") BY <1>2, <2>3, ThreadRestates DEF JobStatuses
    <2>4. ASSUME NEW word \in Says(Row(w).id), NEW status \in Heard(word), RowBecomes(w, status),
                 ~(status = "completed" /\ fetch = "uri"), ~(status = "completed" /\ fetch = "none")
          PROVE  ThreadsGood'
        <3>1. status \in JobStatuses BY DEF Heard, Words, JobStatuses
        <3>2. status = remote.job[Row(w).id] BY HeardIsSaid
        <3>3. status = "completed" => fetch = "command" BY <2>4 DEF IInv, Typed, Fetches
        <3>4. status = "completed" => Row(w).id \in Granted' BY <1>1, <1>3, <3>2, <3>3 DEF Granted
        <3> QED BY <1>2, <2>4, <3>1, <3>4, ThreadRestates
    <2>5. ASSUME PollNext(w) PROVE RowBecomes(w, Row(w).status) BY <2>5 DEF PollNext
    <2>6. ASSUME PollJob(w), ~Rests(w)
          PROVE  \E word \in Says(Row(w).id) :
                     \E status \in IF Heard(word) = {} THEN {Row(w).status} ELSE Heard(word) :
                        \/ Goes(w, "collect") \/ RowBecomes(w, "running")
                        \/ /\ RowBecomes(w, status)
                           /\ ~(status = "completed" /\ fetch = "uri") /\ ~(status = "completed" /\ fetch = "none")
        BY <2>6 DEF PollJob
    <2> QED BY <2>1, <2>2, <2>3, <2>4, <2>5, <2>6
<1> QED BY <1>1, <1>4, LeftAlone DEF Good

LEMMA AfterCollectKeeps ==
    ASSUME IInv, Grows, NEW w \in Workers, AfterCollect(w)
    PROVE  Good'
<1>1. UNCHANGED <<experiment, jobs>> BY DEF AfterCollect
<1>2. CASE worker[w].at = "confirmed"
    <2>1. RowBecomes(w, "completed") BY <1>2 DEF AfterCollect
    <2>2. "artifacts" \in confirmed' BY <1>2, Carried DEF ThreadGood
    <2>3. worker[w].next \in DOMAIN worker[w].rows => Row(w).id \in Granted'
        <3>1. worker[w].rows \in Seq(Jobs) BY Carried DEF Threads
        <3>2. worker[w].next \in DOMAIN worker[w].rows => Row(w) \in Jobs BY <3>1 DEF Row
        <3> QED BY <2>2, <3>2 DEF Jobs, Granted
    <2>4. ThreadsGood' BY <2>1, <2>3, ThreadRestates DEF JobStatuses
    <2> QED BY <1>1, <2>4, LeftAlone DEF Good
<1>3. CASE worker[w].at # "confirmed"
    <2>1. RowBecomes(w, "running") BY <1>3 DEF AfterCollect
    <2>2. ThreadsGood' BY <2>1, ThreadRestates DEF JobStatuses
    <2> QED BY <1>1, <2>2, LeftAlone DEF Good
<1> QED BY <1>2, <1>3

LEMMA WriteKeeps ==
    ASSUME IInv, Grows, NEW w \in Workers, WriteJobs(w)
    PROVE  Good'
<1>1. RowsGood(jobs', nth', Granted') BY Carried DEF WriteJobs, ThreadGood
<1>2. ThreadsGood' BY ThreadRests DEF WriteJobs
<1> QED BY <1>1, <1>2, LeftAlone DEF WriteJobs, Good

LEMMA InitGood == Init => IInv
<1> SUFFICES ASSUME Init PROVE IInv OBVIOUS
<1>1. Typed BY JobsAssumption DEF Init, Typed, RemoteStatuses, Contents
<1>2. NotYet /\ Listing BY DEF Init, NotYet, Listing
<1>3. Idle \in Threads /\ ThreadGood(Idle, nth, Granted, Begun, Lost, confirmed) BY IdleGood
<1>5. RowsGood(jobs, nth, Granted) BY <1>3 DEF Init, ThreadGood, Idle
<1>6. CopyGood(experiment, Begun, Lost, confirmed) BY <1>3 DEF Init, ThreadGood, Idle
<1>7. ThreadsGood BY <1>3 DEF Init, ThreadsGood
<1>8. StartersGood BY DEF Init, StartersGood, StarterGood, Starting, Idle
<1> QED BY <1>1, <1>2, <1>5, <1>6, <1>7, <1>8 DEF IInv

LEMMA StepKeeps == IInv /\ [Next]_vars => IInv'
<1> SUFFICES ASSUME IInv, [Next]_vars PROVE IInv' OBVIOUS
<1>1. Kept /\ Grows BY StepsKept DEF Kept
<1>2. ASSUME NEW w \in Workers, NEW op \in Ops, Begin(w, op) PROVE Good'
    <2>1. UNCHANGED <<experiment, jobs>> BY <1>2 DEF Begin
    <2> QED BY <1>1, <1>2, <2>1, BeginKeeps, LeftAlone DEF Good
<1>3. ASSUME NEW w \in Workers, CollectGivenUp(w) PROVE Good'
    <2>1. UNCHANGED <<experiment, jobs>> /\ Rests(w) BY <1>3 DEF CollectGivenUp
    <2> QED BY <1>1, <2>1, ThreadRests, LeftAlone DEF Good
<1>8. ASSUME NEW w \in Workers, BatchWrites(w) PROVE Good'
    <2>1. UNCHANGED <<experiment, jobs, worker>> BY <1>8 DEF BatchWrites
    <2> QED BY <1>1, <2>1, LeftAlone DEF Good
<1>4. ASSUME NEW w \in Workers, Step(w) PROVE Good'
    BY <1>1, <1>3, <1>4, <1>8, SubmitKeeps, BatchKeeps, AppendKeeps, SaveKeeps, CollectKeeps, MarkKeeps, PollKeeps,
       AfterCollectKeeps, WriteKeeps DEF Step
<1>5. ASSUME Delete PROVE Good'
    <2>1. experiment' = Missing /\ jobs' = <<>> /\ UNCHANGED worker BY <1>5 DEF Delete
    <2>2. RowsGood(jobs', nth', Granted') BY <1>1, <2>1, IdleGood DEF Grows, ThreadGood, Idle
    <2> QED BY <1>1, <2>1, <2>2, LeftAlone DEF Good
<1>6. ASSUME \/ \E j \in JobIds : RemoteAdvances(j)
             \/ UNCHANGED vars
      PROVE  Good'
    <2>1. UNCHANGED <<experiment, jobs, worker>> BY <1>6 DEF RemoteAdvances, vars
    <2> QED BY <1>1, <2>1, LeftAlone DEF Good
<1>7. Good' BY <1>2, <1>4, <1>5, <1>6 DEF Next
<1> QED BY <1>1, <1>7 DEF IInv, Good, Kept

-----------------------------------------------------------------------------
(* Theorems *)

\* However many requests submit, run batches, refresh, mark and append without
\* a lock, jobs.jsonl lists every job once, in the order the rows were appended:
\* before every job that was started after its row was there.
THEOREM RowsKeepTheirOrder == Spec => []RowsInOrder
<1>1. IInv => RowsInOrder
    <2> SUFFICES ASSUME IInv, NEW i \in DOMAIN jobs, NEW k \in DOMAIN jobs
                 PROVE  /\ i < k => jobs[i].id # jobs[k].id /\ nth[jobs[i].id] < nth[jobs[k].id]
                        /\ nth[jobs[i].id] <= behind[jobs[k].id] => i < k
        BY DEF RowsInOrder
    <2>1. jobs \in Seq(Jobs) /\ RowsGood(jobs, nth, Granted) BY DEF IInv, RowsGood
    <2>2. i \in Int /\ k \in Int /\ jobs[i] \in Jobs /\ jobs[k] \in Jobs BY <2>1
    <2>3. jobs[i].id \in JobIds /\ jobs[k].id \in JobIds BY <2>2 DEF Jobs
    <2>4. nth[jobs[i].id] \in Nat /\ nth[jobs[k].id] \in Nat /\ behind[jobs[k].id] \in Nat
          /\ behind[jobs[k].id] < nth[jobs[k].id]
        BY <2>1, <2>3 DEF IInv, Listing, RowsGood
    <2>5. i < k => nth[jobs[i].id] < nth[jobs[k].id] BY <2>1 DEF RowsGood
    <2>6. k < i => nth[jobs[k].id] < nth[jobs[i].id] BY <2>1 DEF RowsGood
    <2>7. i = k => nth[jobs[i].id] = nth[jobs[k].id] OBVIOUS
    <2> QED BY <2>2, <2>4, <2>5, <2>6, <2>7
<1> QED BY InitGood, StepKeeps, <1>1, PTL DEF Spec

\* A stale copy of the manifest that is saved late still names a job for which
\* its status was true.
THEOREM StaleCopiesAgree == Spec => []StatusTellsBatch
<1>1. IInv => StatusTellsBatch
    <2> SUFFICES ASSUME IInv, experiment # Missing PROVE StatusTellsBatch BY DEF StatusTellsBatch
    <2>1. CopyGood(experiment, Begun, Lost, confirmed) BY DEF IInv
    <2>2. \A j \in JobIds : j # 0 BY DEF JobIds
    <2> QED BY <2>1, <2>2 DEF CopyGood, Begun, Lost, StatusTellsBatch
<1> QED BY InitGood, StepKeeps, <1>1, PTL DEF Spec

\* No manifest and no row of a cloud job is called completed without what
\* confirms it, whatever the provider does and whichever request saves last.
THEOREM CompletionIsEarned == Spec => []CompletionConfirmed
<1>1. IInv => CompletionConfirmed BY DEF IInv, RowsGood, CopyGood, Granted, CompletionConfirmed
<1> QED BY InitGood, StepKeeps, <1>1, PTL DEF Spec

-----------------------------------------------------------------------------
(* Outcomes while requests come one at a time *)

\* The rows say how job j ended.
Told(rows, j) == \E i \in DOMAIN rows : rows[i].id = j /\ Ended(rows[i])

\* A refresh carries the outcomes that were there when it began, and the row it
\* works on is none of them until it says how that job ended.
AtWork == {"collect", "saveCollected", "savePending", "mark", "confirmed", "unconfirmed"}
Carries(thread, known) ==
    /\ thread.at \in {"poll", "confirmed", "unconfirmed"} => thread.op = "refresh"
    /\ thread.op = "refresh" =>
          /\ \A j \in known : Told(thread.rows, j)
          /\ thread.at \in AtWork /\ thread.next \in DOMAIN thread.rows => ~Ended(thread.rows[thread.next])

OneAtWork == \A v, w \in Workers : worker[v] # Idle /\ worker[w] # Idle => v = w

AloneInv ==
    ~overlapped /\ ~deleted =>
        /\ OneAtWork
        /\ \A j \in settled : Told(jobs, j)
        /\ \A w \in Workers : Carries(worker[w], settled)

LEMMA IdleCarries == \A known : Carries(Idle, known)
BY DEF Carries, Idle, AtWork

\* A row that had not ended, or keeps its status, may be stated anew.
LEMMA RestatedTells ==
    ASSUME NEW rows \in Seq(Jobs), NEW n, NEW status, NEW j, Told(rows, j),
           n \in DOMAIN rows => ~Ended(rows[n]) \/ status = rows[n].status
    PROVE  Told(Restated(rows, n, status), j)
<1>1. PICK i \in DOMAIN rows : rows[i].id = j /\ Ended(rows[i]) BY DEF Told
<1>2. rows[i] \in Jobs OBVIOUS
<1> DEFINE next == Restated(rows, n, status)
<1>3. DOMAIN next = DOMAIN rows BY DEF Restated
<1>4. CASE i = n
    <2>1. next[i] = [rows[i] EXCEPT !.status = status] BY <1>4 DEF Restated
    <2>2. next[i].id = j /\ next[i].status = rows[i].status BY <1>1, <1>2, <1>4, <2>1 DEF Jobs
    <2> QED BY <1>1, <1>3, <2>2 DEF Told, Ended
<1>5. CASE i # n
    <2>1. next[i] = rows[i] BY <1>5 DEF Restated
    <2> QED BY <1>1, <1>3, <2>1 DEF Told
<1> QED BY <1>4, <1>5

\* The thread at work moves, and keeps what it carries.
LEMMA WorkerMoves ==
    ASSUME IInv, AloneInv, NEW w \in Workers, worker[w] # Idle, NEW T, worker' = [worker EXCEPT ![w] = T],
           UNCHANGED <<overlapped, settled, deleted>>,
           ~overlapped /\ ~deleted => Carries(T, settled) /\ \A j \in settled : Told(jobs', j)
    PROVE  AloneInv'
<1> SUFFICES ASSUME ~overlapped, ~deleted
             PROVE  OneAtWork' /\ (\A j \in settled : Told(jobs', j)) /\ \A v \in Workers : Carries(worker'[v], settled)
    BY DEF AloneInv
<1>1. worker \in [Workers -> Threads] BY DEF IInv, ThreadsGood
<1>2. worker'[w] = T /\ \A v \in Workers \ {w} : worker'[v] = worker[v] BY <1>1
<1>3. \A v \in Workers \ {w} : worker[v] = Idle BY DEF AloneInv, OneAtWork
<1>4. OneAtWork' BY <1>2, <1>3 DEF OneAtWork
<1>5. \A v \in Workers : Carries(worker'[v], settled) BY <1>2 DEF AloneInv
<1> QED BY <1>4, <1>5

LEMMA WorkerRests ==
    ASSUME IInv, AloneInv, NEW w \in Workers, worker[w] # Idle, Rests(w), UNCHANGED <<overlapped, settled, deleted>>,
           ~overlapped /\ ~deleted => \A j \in settled : Told(jobs', j)
    PROVE  AloneInv'
BY IdleCarries, WorkerMoves DEF Rests

LEMMA WorkerGoes ==
    ASSUME IInv, AloneInv, NEW w \in Workers, worker[w] # Idle, NEW place \in Places \ {"poll"}, Goes(w, place),
           UNCHANGED <<overlapped, settled, deleted>>,
           place \in {"confirmed", "unconfirmed"} => worker[w].op = "refresh",
           worker[w].at \in AtWork \/ ~Ended(Row(w)) \/ worker[w].op # "refresh",
           ~overlapped /\ ~deleted => \A j \in settled : Told(jobs', j)
    PROVE  AloneInv'
<1> DEFINE T == [worker[w] EXCEPT !.at = place]
<1>1. worker[w] \in Threads BY DEF IInv, ThreadsGood
<1>2. T.at = place /\ T.op = worker[w].op /\ T.rows = worker[w].rows /\ T.next = worker[w].next BY <1>1 DEF Threads
<1>3. worker' = [worker EXCEPT ![w] = T] BY DEF Goes
<1>4. ASSUME ~overlapped, ~deleted PROVE Carries(T, settled)
    <2>1. Carries(worker[w], settled) BY <1>4 DEF AloneInv
    <2> HIDE DEF T
    <2> QED BY <1>2, <2>1 DEF Carries, Row
<1> HIDE DEF T
<1> QED BY <1>3, <1>4, WorkerMoves

LEMMA WorkerWillSave ==
    ASSUME IInv, AloneInv, NEW w \in Workers, worker[w] # Idle,
           NEW place \in {"save", "saveCollected", "savePending"}, NEW copy,
           worker' = [worker EXCEPT ![w] = [@ EXCEPT !.at = place, !.copy = copy]],
           UNCHANGED <<overlapped, settled, deleted>>,
           worker[w].at \in AtWork \/ place = "save",
           ~overlapped /\ ~deleted => \A j \in settled : Told(jobs', j)
    PROVE  AloneInv'
<1> DEFINE T == [worker[w] EXCEPT !.at = place, !.copy = copy]
<1>1. worker[w] \in Threads BY DEF IInv, ThreadsGood
<1>2. T.at = place /\ T.op = worker[w].op /\ T.rows = worker[w].rows /\ T.next = worker[w].next BY <1>1 DEF Threads
<1>3. worker' = [worker EXCEPT ![w] = T] OBVIOUS
<1>4. ASSUME ~overlapped, ~deleted PROVE Carries(T, settled)
    <2>1. Carries(worker[w], settled) BY <1>4 DEF AloneInv
    <2> HIDE DEF T
    <2> QED BY <1>2, <2>1 DEF Carries, AtWork
<1> HIDE DEF T
<1> QED BY <1>3, <1>4, WorkerMoves

LEMMA WorkerRestates ==
    ASSUME IInv, AloneInv, NEW w \in Workers, worker[w] # Idle, NEW status, RowBecomes(w, status),
           UNCHANGED <<overlapped, settled, deleted, jobs>>,
           worker[w].at \in {"poll", "confirmed", "unconfirmed"},
           worker[w].at \in AtWork \/ ~Ended(Row(w)) \/ status = Row(w).status
    PROVE  AloneInv'
<1> DEFINE rows == worker[w].rows
           n == worker[w].next
           T == [worker[w] EXCEPT !.rows = Restated(rows, n, status), !.next = n + 1, !.at = "poll"]
<1>1. worker[w] \in Threads BY DEF IInv, ThreadsGood
<1>2. T.at = "poll" /\ T.op = worker[w].op /\ T.rows = Restated(rows, n, status) BY <1>1 DEF Threads
<1>3. worker' = [worker EXCEPT ![w] = T] BY DEF RowBecomes
<1>4. ASSUME ~overlapped, ~deleted PROVE Carries(T, settled)
    <2>1. Carries(worker[w], settled) BY <1>4 DEF AloneInv
    <2>2. worker[w].op = "refresh" /\ \A j \in settled : Told(rows, j) BY <2>1 DEF Carries
    <2>3. n \in DOMAIN rows => ~Ended(rows[n]) \/ status = rows[n].status BY <2>1 DEF Carries, Row
    <2>4. rows \in Seq(Jobs) BY <1>1 DEF Threads
    <2>5. \A j \in settled : Told(Restated(rows, n, status), j) BY <2>2, <2>3, <2>4, RestatedTells
    <2> HIDE DEF T
    <2> QED BY <1>2, <2>2, <2>5 DEF Carries, AtWork
<1>5. ~overlapped /\ ~deleted => \A j \in settled : Told(jobs', j) BY DEF AloneInv
<1> HIDE DEF T
<1> QED BY <1>3, <1>4, <1>5, WorkerMoves

\* A new row adds to what the rows tell; a mark only touches open rows.
LEMMA AppendTells ==
    ASSUME NEW rows \in Seq(Jobs), NEW job, NEW j, Told(rows, j)
    PROVE  Told(Append(rows, job), j)
<1>1. PICK i \in DOMAIN rows : rows[i].id = j /\ Ended(rows[i]) BY DEF Told
<1>2. i \in DOMAIN Append(rows, job) /\ Append(rows, job)[i] = rows[i] OBVIOUS
<1> QED BY <1>1, <1>2 DEF Told

LEMMA MarkedTells ==
    ASSUME NEW j, Told(jobs, j)
    PROVE  Told(Marked, j)
<1>1. PICK i \in DOMAIN jobs : jobs[i].id = j /\ Ended(jobs[i]) BY DEF Told
<1>2. i \notin LastOpen BY <1>1 DEF LastOpen, Open, Ended
<1>3. DOMAIN Marked = DOMAIN jobs /\ Marked[i] = jobs[i] BY <1>2 DEF Marked
<1> QED BY <1>1, <1>3 DEF Told

LEMMA StepAlone ==
    ASSUME IInv, AloneInv, NEW w \in Workers, Step(w)
    PROVE  AloneInv'
<1>1. worker[w] \in Threads BY DEF IInv, ThreadsGood
<1>2. worker[w] # Idle
    <2>1. SubmitJob(w) \/ BatchWrites(w) \/ RunBatch(w) \/ AppendRow(w) \/ Save(w) \/ Collect(w) \/ CollectGivenUp(w) => worker[w].at # "idle"
        BY DEF SubmitJob, BatchWrites, RunBatch, AppendRow, Save, Collect, CollectGivenUp
    <2>2. Mark(w) \/ PollNext(w) \/ PollJob(w) \/ AfterCollect(w) \/ WriteJobs(w) => worker[w].at # "idle"
        BY DEF Mark, PollNext, PollJob, AfterCollect, WriteJobs
    <2>3. Idle.at = "idle" BY DEF Idle
    <2> QED BY <2>1, <2>2, <2>3 DEF Step
<1>3. UNCHANGED <<overlapped, settled, deleted>>
    BY DEF Step, SubmitJob, BatchWrites, RunBatch, AppendRow, Save, Collect, CollectGivenUp, Mark, PollNext, PollJob, AfterCollect, WriteJobs, history
<1>4. jobs \in Seq(Jobs) BY DEF IInv, RowsGood
<1>5. ~overlapped /\ ~deleted => \A j \in settled : Told(jobs, j) BY DEF AloneInv
<1>6. ASSUME UNCHANGED jobs PROVE ~overlapped /\ ~deleted => \A j \in settled : Told(jobs', j) BY <1>5, <1>6
<1>7. ASSUME NEW job, jobs' = Append(jobs, job) PROVE ~overlapped /\ ~deleted => \A j \in settled : Told(jobs', j)
    BY <1>4, <1>5, <1>7, AppendTells
<1>10. CASE SubmitJob(w) \/ RunBatch(w)
    <2>1. PICK status, copyStatus : WillAppend(w, status, copyStatus) BY <1>10 DEF SubmitJob, RunBatch
    <2>2. UNCHANGED jobs /\ worker[w].at \in {"command", "batch"} BY <1>10 DEF SubmitJob, RunBatch
    <2> DEFINE row == [worker[w].row EXCEPT !.status = status]
               copy == Launched(w, copyStatus)
               T == [worker[w] EXCEPT !.at = "append", !.copy = copy, !.row = row]
    <2>3. worker' = [worker EXCEPT ![w] = T] BY <2>1 DEF WillAppend
    <2>4. T.at = "append" /\ T.op = worker[w].op /\ T.rows = worker[w].rows /\ T.next = worker[w].next
        <3> HIDE DEF row, copy
        <3> QED BY <1>1 DEF Threads
    <2>5. ASSUME ~overlapped, ~deleted PROVE Carries(T, settled)
        <3>1. Carries(worker[w], settled) BY <2>5 DEF AloneInv
        <3> HIDE DEF T
        <3> QED BY <2>4, <3>1 DEF Carries, AtWork
    <2> HIDE DEF T
    <2> QED BY <1>2, <1>3, <1>6, <2>2, <2>3, <2>5, WorkerMoves
<1>9. CASE BatchWrites(w)
    <2>1. UNCHANGED <<jobs, worker>> BY <1>9 DEF BatchWrites
    <2> QED BY <1>3, <2>1 DEF AloneInv, OneAtWork
<1>11. CASE AppendRow(w)
    <2> DEFINE T == [worker[w] EXCEPT !.at = "save", !.row = NoRow]
    <2>1. worker' = [worker EXCEPT ![w] = T] /\ jobs' = Append(jobs, worker[w].row) BY <1>11 DEF AppendRow
    <2>2. T.at = "save" /\ T.op = worker[w].op /\ T.rows = worker[w].rows /\ T.next = worker[w].next
        BY <1>1 DEF Threads
    <2>3. ASSUME ~overlapped, ~deleted PROVE Carries(T, settled)
        <3>1. Carries(worker[w], settled) BY <2>3 DEF AloneInv
        <3> HIDE DEF T
        <3> QED BY <2>2, <3>1 DEF Carries, AtWork
    <2> HIDE DEF T
    <2> QED BY <1>2, <1>3, <1>7, <2>1, <2>3, WorkerMoves
<1>12. CASE Save(w)
    <2>1. UNCHANGED jobs BY <1>12 DEF Save
    <2>2. CASE worker[w].at = "saveCollected"
        <3>1. Goes(w, "mark") /\ worker[w].at \in AtWork BY <1>12, <2>2 DEF Save, AtWork
        <3> QED BY <1>2, <1>3, <1>6, <2>1, <3>1, WorkerGoes DEF Places
    <2>3. CASE worker[w].at = "savePending" /\ worker[w].op = "refresh"
        <3>1. Goes(w, "unconfirmed") /\ worker[w].at \in AtWork BY <1>12, <2>3 DEF Save, AtWork
        <3> QED BY <1>2, <1>3, <1>6, <2>1, <2>3, <3>1, WorkerGoes DEF Places
    <2>4. CASE worker[w].at # "saveCollected" /\ ~(worker[w].at = "savePending" /\ worker[w].op = "refresh")
        <3>1. Rests(w) BY <1>12, <2>4 DEF Save
        <3> QED BY <1>2, <1>3, <1>6, <2>1, <3>1, WorkerRests
    <2> QED BY <2>2, <2>3, <2>4
<1>13. CASE Collect(w)
    <2>1. UNCHANGED jobs /\ worker[w].at \in AtWork BY <1>13 DEF Collect, AtWork
    <2>2. CASE experiment = Missing
        <3>1. CASE worker[w].op = "refresh"
            <4>1. Goes(w, "unconfirmed") BY <1>13, <2>2, <3>1 DEF Collect
            <4> QED BY <1>2, <1>3, <1>6, <2>1, <3>1, <4>1, WorkerGoes DEF Places
        <3>2. CASE worker[w].op # "refresh"
            <4>1. Rests(w) BY <1>13, <2>2, <3>2 DEF Collect
            <4> QED BY <1>2, <1>3, <1>6, <2>1, <4>1, WorkerRests
        <3> QED BY <3>1, <3>2
    <2>3. CASE experiment # Missing
        <3>1. PICK source, content : CollectedFrom(w, source, content) BY <1>13, <2>3 DEF Collect
        <3>2. PICK place \in {"saveCollected", "savePending"} : \E copy :
                  worker' = [worker EXCEPT ![w] = [@ EXCEPT !.at = place, !.copy = copy]]
            BY <3>1 DEF CollectedFrom
        <3>3. PICK copy : worker' = [worker EXCEPT ![w] = [@ EXCEPT !.at = place, !.copy = copy]] BY <3>2
        <3> QED BY <1>2, <1>3, <1>6, <2>1, <3>3, WorkerWillSave
    <2> QED BY <2>2, <2>3
<1>14. CASE CollectGivenUp(w) BY <1>2, <1>3, <1>6, <1>14, WorkerRests DEF CollectGivenUp
<1>15. CASE Mark(w)
    <2>1. ~overlapped /\ ~deleted => \A j \in settled : Told(jobs', j) BY <1>5, <1>15, MarkedTells DEF Mark
    <2>2. CASE worker[w].op = "refresh"
        <3>1. Goes(w, "confirmed") /\ worker[w].at \in AtWork BY <1>15, <2>2 DEF Mark, AtWork
        <3> QED BY <1>2, <1>3, <2>1, <2>2, <3>1, WorkerGoes DEF Places
    <2>3. CASE worker[w].op # "refresh"
        <3>1. Rests(w) BY <1>15, <2>3 DEF Mark
        <3> QED BY <1>2, <1>3, <2>1, <3>1, WorkerRests
    <2> QED BY <2>2, <2>3
<1>16. CASE PollNext(w)
    <2>1. RowBecomes(w, Row(w).status) /\ UNCHANGED jobs /\ worker[w].at = "poll" BY <1>16 DEF PollNext
    <2> QED BY <1>2, <1>3, <2>1, WorkerRestates
<1>17. CASE PollJob(w)
    <2>1. UNCHANGED jobs /\ worker[w].at = "poll" /\ ~Ended(Row(w)) BY <1>17 DEF PollJob, Pollable, Open, Ended
    <2>2. Rests(w) \/ Goes(w, "collect") \/ \E status : RowBecomes(w, status) BY <1>17 DEF PollJob
    <2>3. CASE Goes(w, "collect") BY <1>2, <1>3, <1>6, <2>1, <2>3, WorkerGoes DEF Places
    <2>4. CASE \E status : RowBecomes(w, status) BY <1>2, <1>3, <2>1, <2>4, WorkerRestates
    <2>5. CASE Rests(w) BY <1>2, <1>3, <1>6, <2>1, <2>5, WorkerRests
    <2> QED BY <2>2, <2>3, <2>4, <2>5
<1>18. CASE AfterCollect(w)
    <2>1. PICK status : RowBecomes(w, status) BY <1>18 DEF AfterCollect
    <2>2. UNCHANGED jobs /\ worker[w].at \in {"confirmed", "unconfirmed"} BY <1>18 DEF AfterCollect
    <2> QED BY <1>2, <1>3, <2>1, <2>2, WorkerRestates DEF AtWork
<1>19. CASE WriteJobs(w)
    <2>1. ~overlapped /\ ~deleted => Carries(worker[w], settled) BY DEF AloneInv
    <2>2. ~overlapped /\ ~deleted => \A j \in settled : Told(jobs', j) BY <1>19, <2>1 DEF WriteJobs, Carries
    <2> QED BY <1>2, <1>3, <1>19, <2>2, WorkerRests DEF WriteJobs
<1> QED BY <1>9, <1>10, <1>11, <1>12, <1>13, <1>14, <1>15, <1>16, <1>17, <1>18, <1>19 DEF Step

\* A request that begins alone finds every other thread at rest, and starts
\* from the rows as they are.
LEMMA BeginAlone ==
    ASSUME IInv, NEW w \in Workers, NEW op \in Ops, Begin(w, op)
    PROVE  AloneInv'
<1> SUFFICES ASSUME ~overlapped'
             PROVE  OneAtWork' /\ (\A j \in settled' : Told(jobs', j)) /\ \A v \in Workers : Carries(worker'[v], settled')
    BY DEF AloneInv
<1> DEFINE T == [at |-> Entry(op), op |-> op, copy |-> CopyFor(op),
                 rows |-> IF op = "refresh" THEN jobs ELSE <<>>, next |-> 1, row |-> RowFor(op)]
<1>1. \A v \in Workers : worker[v] = Idle BY DEF Begin, Arrives
<1>2. worker \in [Workers -> Threads] BY DEF IInv, ThreadsGood
<1>3. worker'[w] = T /\ \A v \in Workers \ {w} : worker'[v] = Idle BY <1>1, <1>2 DEF Begin
<1>4. OneAtWork' BY <1>3 DEF OneAtWork
<1>5. jobs' = jobs /\ settled' = {jobs[i].id : i \in {k \in DOMAIN jobs : Ended(jobs[k])}} BY DEF Begin, Arrives
<1>6. \A j \in settled' : Told(jobs', j) BY <1>5 DEF Told
<1>7. Entry(op) \notin {"confirmed", "unconfirmed"} /\ (Entry(op) = "poll" <=> op = "refresh")
      /\ (op = "refresh" => Entry(op) \notin AtWork)
    BY DEF Entry, Ops, AtWork
<1>8. Carries(T, settled')
    <2>1. T.at = Entry(op) /\ T.op = op /\ (op = "refresh" => T.rows = jobs) OBVIOUS
    <2> HIDE DEF T
    <2> QED BY <1>5, <1>6, <1>7, <2>1 DEF Carries
<1> HIDE DEF T
<1> QED BY <1>3, <1>4, <1>6, <1>8, IdleCarries

\* While requests come one at a time, no refresh, mark or new row takes away
\* how a job ended, for any number of rows and requests.
THEOREM OutcomesStayAlone == Spec => []OutcomeKeptAlone
<1>1. Init => AloneInv
    <2> SUFFICES ASSUME Init PROVE AloneInv OBVIOUS
    <2>1. settled = {} /\ \A w \in Workers : worker[w] = Idle BY DEF Init
    <2> QED BY <2>1, IdleCarries DEF AloneInv, OneAtWork
<1>2. IInv /\ AloneInv /\ [Next]_vars => AloneInv'
    <2> SUFFICES ASSUME IInv, AloneInv, [Next]_vars PROVE AloneInv' OBVIOUS
    <2>1. ASSUME NEW w \in Workers, NEW op \in Ops, Begin(w, op) PROVE AloneInv' BY <2>1, BeginAlone
    <2>2. ASSUME NEW w \in Workers, Step(w) PROVE AloneInv' BY <2>2, StepAlone
    <2>3. ASSUME Delete PROVE AloneInv' BY <2>3 DEF Delete, AloneInv
    <2>4. ASSUME UNCHANGED <<jobs, worker, overlapped, settled, deleted>> PROVE AloneInv'
        BY <2>4 DEF AloneInv, OneAtWork
    <2>5. ASSUME NEW j \in JobIds, RemoteAdvances(j) PROVE AloneInv' BY <2>4, <2>5 DEF RemoteAdvances, history
    <2>6. ASSUME UNCHANGED vars PROVE AloneInv' BY <2>4, <2>6 DEF vars, history
    <2> QED BY <2>1, <2>2, <2>3, <2>5, <2>6 DEF Next
<1>3. AloneInv => OutcomeKeptAlone BY DEF AloneInv, Told, OutcomeKeptAlone
<1> QED BY InitGood, StepKeeps, <1>1, <1>2, <1>3, PTL DEF Spec
=============================================================================
