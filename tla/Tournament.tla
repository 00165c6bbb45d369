------------------------------ MODULE Tournament ------------------------------
(***************************************************************************)
(* Detector tournaments: request threads queue, run and refresh them, each *)
(* reading and writing one JSON file per tournament without a lock between *)
(* the read and the write.  The file is truncated before it is filled.     *)
(* A thread that finished queueing a local tournament goes on to run it    *)
(* (the background task of the request).                                   *)
(***************************************************************************)
EXTENDS TournamentMetrics

CONSTANTS
    Workers,       \* request threads
    NoWorker, NoId,
    Missing, Torn, \* no file; a file truncated and not yet written
    MaxRefreshes,  \* bound on refresh requests that reach the provider
    MaxFaults      \* bound on requests that throw and on restarts
ASSUME TournamentAssumption ==
    /\ MaxRefreshes \in Nat /\ MaxFaults \in Nat
    /\ NoWorker \notin Workers /\ NoId \notin Ids
    /\ {Missing, Torn} \cap Responses = {}

VARIABLES
    file,     \* tournament.json of each tournament
    worker,   \* what each thread is about to do, to which tournament, with what it read and what it writes
    lock,     \* _LOCAL_TOURNAMENT_LOCK
    job,      \* external: the job of a tournament at the provider
    history,  \* tournaments announced in the history of runs
    refreshes, faults

vars == <<metrics, file, worker, lock, job, history, refreshes, faults>>

NoResponse == [status |-> "queued", mode |-> "local", collected |-> FALSE]
Idle == [at |-> "idle", op |-> "none", id |-> NoId, new |-> NoResponse]
Places == {"idle", "truncate", "fill", "release", "observe", "announce", "read", "claim", "run", "poll"}
Ops == {"none", "start", "complete", "refresh", "restate"}

QueuedLocal == [status |-> "queued", mode |-> "local", collected |-> FALSE]
Mock == [status |-> "completed", mode |-> "local_mock", collected |-> TRUE]
Submitted == [status |-> "queued", mode |-> "nebius_serverless_job", collected |-> FALSE]
Refused == [status |-> "failed", mode |-> "nebius_serverless_job", collected |-> FALSE]
Busy(t) == \E w \in Workers : worker[w].id = t

Goes(w, place) == worker' = [worker EXCEPT ![w].at = place]
Writes(w, op, t, r) == worker' = [worker EXCEPT ![w] = [at |-> "truncate", op |-> op, id |-> t, new |-> r]]
Rests(w) == worker' = [worker EXCEPT ![w] = Idle]

Init ==
    /\ MetricsInit
    /\ file = [t \in Ids |-> Missing]
    /\ worker = [w \in Workers |-> Idle]
    /\ lock = NoWorker
    /\ job = [t \in Ids |-> "none"]
    /\ history = {} /\ refreshes = 0 /\ faults = 0

-----------------------------------------------------------------------------
(* Queueing a tournament *)

\* The provider takes the job, or the command fails.
Submit(w, t) ==
    \/ Writes(w, "start", t, Submitted) /\ job' = [job EXCEPT ![t] = "queued"]
    \/ Writes(w, "start", t, Refused) /\ UNCHANGED job

\* queue_tournament answers with a mock at once, queues a local run, or
\* submits a job to the provider, which may refuse it.
Start(w, t) ==
    /\ worker[w] = Idle /\ file[t] = Missing /\ job[t] = "none" /\ ~Busy(t)
    /\ \/ \E r \in {Mock, QueuedLocal} : Writes(w, "start", t, r) /\ UNCHANGED job
       \/ Submit(w, t)
    /\ UNCHANGED <<metrics, file, lock, history, refreshes, faults>>

\* The background task runs only after the request was announced.
Announce(w) ==
    /\ worker[w].at = "announce"
    /\ history' = history \cup {worker[w].id}
    /\ IF worker[w].new.status = "queued" /\ worker[w].new.mode # "nebius_serverless_job"
       THEN worker' = [worker EXCEPT ![w].at = "read", ![w].op = "complete"]
       ELSE Rests(w)
    /\ UNCHANGED <<metrics, file, lock, job, refreshes, faults>>

-----------------------------------------------------------------------------
(* Writing a response: _persist_tournament, then the metrics *)

Truncate(w) ==
    /\ worker[w].at = "truncate"
    /\ file' = [file EXCEPT ![worker[w].id] = Torn]
    /\ Goes(w, "fill")
    /\ UNCHANGED <<metrics, lock, job, history, refreshes, faults>>

\* A refresh that could not reach the provider writes and tells nobody.
Fill(w) ==
    /\ worker[w].at = "fill"
    /\ file' = [file EXCEPT ![worker[w].id] = worker[w].new]
    /\ IF worker[w].op = "restate" THEN Rests(w) ELSE Goes(w, IF lock = w THEN "release" ELSE "observe")
    /\ UNCHANGED <<metrics, lock, job, history, refreshes, faults>>

Observed(w) == Observe(worker[w].id, worker[w].new)

Tell(w) ==
    /\ worker[w].at = "observe"
    /\ Observed(w)
    /\ IF worker[w].op = "start" THEN Goes(w, "announce")
       ELSE IF worker[w].op = "complete" /\ worker[w].new.status = "running" THEN Goes(w, "claim")
       ELSE Rests(w)
    /\ UNCHANGED <<file, lock, job, history, refreshes, faults>>

-----------------------------------------------------------------------------
(* complete_queued_tournament *)

ReadQueued(w) ==
    /\ worker[w].at = "read"
    /\ LET t == worker[w].id
       IN  IF file[t] = QueuedLocal
           THEN Writes(w, "complete", t, [file[t] EXCEPT !.status = "running"])
           ELSE Rests(w)
    /\ UNCHANGED <<metrics, file, lock, job, history, refreshes, faults>>

\* Whoever finds the runner busy answers with a mock.
\* mutant: it gives up, and the tournament stays running
BusyGivesUp(w) == Rests(w)
BusyAnswers(w) == Writes(w, "complete", worker[w].id, Mock)

Claim(w) ==
    /\ worker[w].at = "claim"
    /\ \/ lock = NoWorker /\ lock' = w /\ Goes(w, "run")
       \/ lock # NoWorker /\ BusyAnswers(w) /\ UNCHANGED lock
    /\ UNCHANGED <<metrics, file, job, history, refreshes, faults>>

\* The runner succeeds, or fails and is replaced by a mock.
RunLocal(w) ==
    /\ worker[w].at = "run"
    /\ \E mode \in {"local", "local_mock"} : Writes(w, "complete", worker[w].id, [Mock EXCEPT !.mode = mode])
    /\ UNCHANGED <<metrics, file, lock, job, history, refreshes, faults>>

Release(w) ==
    /\ worker[w].at = "release"
    /\ lock' = NoWorker
    /\ Goes(w, "observe")
    /\ UNCHANGED <<metrics, file, job, history, refreshes, faults>>

-----------------------------------------------------------------------------
(* refresh_tournament *)

Refreshable(r) == r.mode = "nebius_serverless_job" /\ r.status # "failed"

Refresh(w, t) ==
    /\ worker[w] = Idle /\ refreshes < MaxRefreshes
    /\ file[t] \in Responses /\ Refreshable(file[t])
    /\ worker' = [worker EXCEPT ![w] = [at |-> "poll", op |-> "refresh", id |-> t, new |-> file[t]]]
    /\ refreshes' = refreshes + 1
    /\ UNCHANGED <<metrics, file, lock, job, history, faults>>

\* What a completed job leaves: artifacts that cannot be fetched, some of
\* them, or all of them.
Collected(r) ==
    {[r EXCEPT !.status = "failed"], [r EXCEPT !.status = "running"],
     [r EXCEPT !.status = "completed", !.collected = TRUE]}

\* An answer that cannot be parsed stands for the status read before.
Answers(t, r) ==
    UNION {IF s = "completed" THEN Collected(r) ELSE {[r EXCEPT !.status = s]} : s \in {job[t], r.status} \ {"none"}}

Poll(w) ==
    /\ worker[w].at = "poll"
    /\ LET t == worker[w].id
           r == worker[w].new
       IN  \/ \E answer \in Answers(t, r) : Writes(w, "refresh", t, answer)
           \/ Writes(w, "restate", t, r)
    /\ UNCHANGED <<metrics, file, lock, job, history, refreshes, faults>>

JobAdvances(t) ==
    /\ \/ job[t] = "queued" /\ \E s \in {"running", "failed"} : job' = [job EXCEPT ![t] = s]
       \/ job[t] = "running" /\ \E s \in {"completed", "failed"} : job' = [job EXCEPT ![t] = s]
    /\ UNCHANGED <<metrics, file, worker, lock, history, refreshes, faults>>

-----------------------------------------------------------------------------
(* Faults *)

\* A write, an append, the runner or the collection of artifacts throws; the
\* lock is released on the way out.
LockAfterThrow(w) == IF lock = w THEN NoWorker ELSE lock

Throw(w) ==
    /\ faults < MaxFaults
    /\ worker[w].at \in {"truncate", "fill", "announce", "run", "poll"}
    /\ lock' = LockAfterThrow(w)
    /\ Rests(w)
    /\ faults' = faults + 1
    /\ UNCHANGED <<metrics, file, job, history, refreshes>>

\* Metrics, lock and background tasks are gone; nothing picks up the files.
Restart ==
    /\ faults < MaxFaults
    /\ MetricsRestart
    /\ worker' = [w \in Workers |-> Idle]
    /\ lock' = NoWorker
    /\ faults' = faults + 1
    /\ UNCHANGED <<file, job, history, refreshes>>

Step(w) ==
    Announce(w) \/ Truncate(w) \/ Fill(w) \/ Tell(w) \/ ReadQueued(w) \/ Claim(w) \/ RunLocal(w) \/ Release(w) \/ Poll(w)

Next ==
    \/ \E w \in Workers : Step(w) \/ Throw(w) \/ \E t \in Ids : Start(w, t) \/ Refresh(w, t)
    \/ \E t \in Ids : JobAdvances(t)
    \/ Restart

Spec == Init /\ [][Next]_vars

\* A thread goes on; requests and the provider need not.
FairSpec == Spec /\ \A w \in Workers : WF_vars(Step(w))

-----------------------------------------------------------------------------
(* Properties *)

\* The gauge of a mode shows the number of tournaments of that mode in flight,
\* also after a tournament changed its mode on the way (a local run that was
\* replaced by a mock) or was observed late.
GaugeCountsInFlight == \A m \in Modes : gauge[m] = Cardinality(InFlight(m))

\* A local tournament that was queued ends, if nothing throws and the process
\* is not restarted.
LocalEnds ==
    \A t \in Ids :
        file[t] = QueuedLocal ~> faults > 0 \/ (file[t] \in Responses /\ file[t].status = "completed")

\* The metrics keep their promise: see TournamentTally.
Tally == INSTANCE TournamentTally
    WITH inFlight <- {t \in Ids : active[t] # NoMode}, counted <- {t \in Ids : IsCounted(t)}, Outcomes <- Finished
KeepsTally == Tally!Spec
=============================================================================
