---------------------------- MODULE ExperimentJobs ----------------------------
(***************************************************************************)
(* One managed experiment: its manifest (experiment.json), the rows of     *)
(* jobs.jsonl, the directories that batches write, and the requests of     *)
(* ExperimentManager and NebiusExperimentOrchestrator.  Each request reads *)
(* the manifest (or the rows), works for seconds to minutes, and saves the *)
(* copy it read with its changes; no lock is held.  Requests on different  *)
(* experiments share nothing.  A save is one step; the best-effort copy of *)
(* each job into the evidence archive is left out.                         *)
(***************************************************************************)
EXTENDS Integers, Sequences

CONSTANTS
    Workers,   \* request threads
    Missing,   \* no manifest, so the experiment is unknown
    MaxJobs,      \* bound on batches and submissions
    MaxRequests   \* bound on requests
ASSUME JobsAssumption == MaxJobs \in Nat /\ MaxRequests \in Nat

VARIABLES
    experiment,  \* manifest: status, and the last batch or job (0: none)
    jobs,        \* rows of jobs.jsonl
    files,       \* what local-batch and cloud-batch hold of the expected files
    worker,
    launched,    \* jobs started so far; a job is its number
    remote,      \* external: the jobs of the provider, and what they wrote to object storage
    fetch,       \* settings: artifacts come by command template, from the output URI, or not at all
    appended,    \* history: rows appended so far
    nth,         \* history: the row of a job was the how many-th to be appended (0: not yet)
    behind,      \* history: rows that had been appended when a job was started
    confirmed,   \* history: what may confirm a completion: a batch that succeeded, a full set of artifacts
    overlapped,  \* history: two requests have been under way together
    settled,     \* history: jobs that had ended when a request began alone
    deleted,     \* history: the experiment was deleted
    requests     \* requests so far

history == <<confirmed, overlapped, settled, deleted>>
listing == <<appended, nth, behind>>
vars == <<experiment, jobs, files, worker, launched, listing, remote, fetch, history, requests>>

Statuses == {"manifest_generated", "submitted", "cloud_artifacts_pending", "completed", "failed"}
JobStatuses == {"queued", "running", "completed", "failed", "real_nebius_pending"}
Contents == {"none", "some", "all"}
Fetches == {"command", "uri", "none"}
JobIds == 1..MaxJobs
Experiments == [status : Statuses, batch : 0..MaxJobs]
Jobs == [id : JobIds, cloud : BOOLEAN, status : JobStatuses]

Created == [status |-> "manifest_generated", batch |-> 0]
NoFiles == [local |-> "none", cloud |-> "none"]
NoRow == [id |-> 0, cloud |-> FALSE, status |-> "queued"]
Idle == [at |-> "idle", op |-> "none", copy |-> Created, rows |-> <<>>, next |-> 1, row |-> NoRow]

Ended(job) == job.status \in {"completed", "failed"}
Open(job) == job.cloud /\ job.status \in {"queued", "running"}

Goes(w, place) == worker' = [worker EXCEPT ![w] = [@ EXCEPT !.at = place]]
Rests(w) == worker' = [worker EXCEPT ![w] = Idle]

Init ==
    /\ experiment = Created /\ jobs = <<>> /\ files = NoFiles
    /\ worker = [w \in Workers |-> Idle]
    /\ launched = 0 /\ appended = 0
    /\ nth = [j \in JobIds |-> 0] /\ behind = [j \in JobIds |-> 0]
    /\ remote = [job |-> [j \in JobIds |-> "none"], output |-> "none"]
    /\ fetch \in Fetches
    /\ confirmed = {} /\ overlapped = FALSE /\ settled = {} /\ deleted = FALSE /\ requests = 0

-----------------------------------------------------------------------------
(* Reading the manifest *)

\* Where each request goes after it read the manifest.
Entry(op) ==
    CASE op = "submit" -> "command"
      [] op = "local" -> "batch"
      [] op = "refresh" -> "poll"
      [] op = "collect" -> "collect"
      [] op \in {"manifest", "annotate"} -> "save"

Ops == {"submit", "local", "refresh", "collect", "manifest", "annotate"}

\* Normalizing, investigating and aggregating (and rendering the job
\* configuration) add paths and metrics; the status they save is the one read.
Annotated == experiment

\* Generating the manifest again resets the status.
CopyFor(op) ==
    CASE op = "manifest" -> [experiment EXCEPT !.status = "manifest_generated"]
      [] op \in {"refresh", "collect"} -> Created  \* read again when they collect
      [] OTHER -> Annotated

Arrives ==
    /\ overlapped' = (overlapped \/ \E v \in Workers : worker[v] # Idle)
    /\ settled' = IF overlapped' THEN {} ELSE {jobs[i].id : i \in {k \in DOMAIN jobs : Ended(jobs[k])}}

\* A submission and a batch take their time stamp (and a batch its id) before
\* the work: their job is numbered then, its row follows when it is known how
\* the work went.
RowFor(op) ==
    IF op \in {"submit", "local"} THEN [id |-> launched + 1, cloud |-> op = "submit", status |-> "queued"] ELSE NoRow

Begin(w, op) ==
    /\ worker[w] = Idle /\ experiment # Missing
    /\ op \in {"submit", "local"} => launched < MaxJobs
    /\ requests < MaxRequests
    /\ worker' = [worker EXCEPT ![w] =
           [at |-> Entry(op), op |-> op, copy |-> CopyFor(op),
            rows |-> IF op = "refresh" THEN jobs ELSE <<>>, next |-> 1, row |-> RowFor(op)]]
    /\ IF op \in {"submit", "local"}
       THEN launched' = launched + 1 /\ behind' = [behind EXCEPT ![launched + 1] = appended]
       ELSE UNCHANGED <<launched, behind>>
    /\ Arrives
    /\ requests' = requests + 1
    /\ UNCHANGED <<experiment, jobs, files, appended, nth, remote, fetch, confirmed, deleted>>

Delete ==
    /\ experiment # Missing
    /\ experiment' = Missing /\ jobs' = <<>> /\ files' = NoFiles
    /\ deleted' = TRUE
    /\ Arrives
    /\ UNCHANGED <<worker, launched, listing, remote, fetch, confirmed, requests>>

-----------------------------------------------------------------------------
(* New rows *)

\* mutant: the manifest gets the status, and keeps the batch it named
LaunchedKeepsBatch(w, status) == [worker[w].copy EXCEPT !.status = status]
Launched(w, status) == [status |-> status, batch |-> worker[w].row.id]

\* The work is over: the row is to be appended, and then the copy saved.
WillAppend(w, rowStatus, status) ==
    worker' = [worker EXCEPT ![w] = [@ EXCEPT !.at = "append", !.copy = Launched(w, status),
                                              !.row = [worker[w].row EXCEPT !.status = rowStatus]]]

\* A command template is not configured, runs, fails (also when its variables
\* are unknown), or is given up after two minutes although the provider may
\* have taken the job.
CommandOutcomes == {"unset", "ran", "failed", "lost"}

RowAfter(outcome) ==
    CASE outcome = "unset" -> "real_nebius_pending"
      [] outcome = "ran" -> "queued"
      [] outcome \in {"failed", "lost"} -> "failed"

\* The job at the provider.  An id that cannot be read from the answer is made
\* up: such a job ("orphan") cannot be asked about.
JobAfter(outcome) ==
    CASE outcome = "unset" -> {"real_nebius_pending"}
      [] outcome = "ran" -> {"queued", "orphan"}
      [] outcome = "failed" -> {"failed"}
      [] outcome = "lost" -> {"orphan"}

\* The command takes up to two minutes.
SubmitJob(w) ==
    /\ worker[w].at = "command"
    /\ \E outcome \in CommandOutcomes : \E job \in JobAfter(outcome) :
         /\ WillAppend(w, RowAfter(outcome), IF RowAfter(outcome) = "failed" THEN "failed" ELSE "submitted")
         /\ remote' = [remote EXCEPT !.job = [@ EXCEPT ![worker[w].row.id] = job]]
    /\ UNCHANGED <<experiment, jobs, files, launched, listing, fetch, history, requests>>

\* run_local_batch: for minutes the batch writes its directory, file after file.
BatchWrites(w) ==
    /\ worker[w].at = "batch" /\ files.local = "none"
    /\ files' = [files EXCEPT !.local = "some"]
    /\ UNCHANGED <<experiment, jobs, worker, launched, listing, remote, fetch, history, requests>>

RunBatch(w) ==
    /\ worker[w].at = "batch"
    /\ \E content \in Contents, ok \in BOOLEAN :
         /\ IF ok THEN content # "none" ELSE content # "all"
         /\ files' = [files EXCEPT !.local = IF content = "none" THEN @ ELSE content]
         /\ WillAppend(w, IF ok THEN "completed" ELSE "failed", IF ok THEN "completed" ELSE "failed")
         /\ confirmed' = IF ok THEN confirmed \cup {"batch"} ELSE confirmed
    /\ UNCHANGED <<experiment, jobs, launched, listing, remote, fetch, overlapped, settled, deleted, requests>>

AppendRow(w) ==
    /\ worker[w].at = "append"
    /\ jobs' = Append(jobs, worker[w].row)
    /\ appended' = appended + 1 /\ nth' = [nth EXCEPT ![worker[w].row.id] = appended + 1]
    /\ worker' = [worker EXCEPT ![w] = [@ EXCEPT !.at = "save", !.row = NoRow]]
    /\ UNCHANGED <<experiment, files, launched, behind, remote, fetch, history, requests>>

-----------------------------------------------------------------------------
(* Saving the copy *)

Save(w) ==
    /\ worker[w].at \in {"save", "saveCollected", "savePending"}
    /\ experiment' = worker[w].copy
    /\ CASE worker[w].at = "saveCollected" -> Goes(w, "mark")
         [] worker[w].at = "savePending" /\ worker[w].op = "refresh" -> Goes(w, "unconfirmed")
         [] OTHER -> Rests(w)
    /\ UNCHANGED <<jobs, files, launched, listing, remote, fetch, history, requests>>

-----------------------------------------------------------------------------
(* collect_artifacts, also called by refresh *)

\* Directories are looked at in this order; one with any expected file is taken.
Mounted == IF files.local # "none" THEN "local" ELSE IF files.cloud # "none" THEN "cloud" ELSE "none"

\* Files copied, or a copy that was cut short.
FetchOutcomes == IF fetch = "none" \/ remote.output = "none" THEN {files.cloud} ELSE {remote.output, "some", files.cloud}

\* mutant: some of the files are enough
CollectedSome(w, source, content) ==
    IF content # "none"
    THEN worker' = [worker EXCEPT ![w] = [@ EXCEPT !.at = "saveCollected", !.copy = [experiment EXCEPT !.status = "completed"]]]
    ELSE worker' = [worker EXCEPT ![w] = [@ EXCEPT !.at = "savePending", !.copy = [experiment EXCEPT !.status = "cloud_artifacts_pending"]]]
CollectedFrom(w, source, content) ==
    IF content = "all"
    THEN worker' = [worker EXCEPT ![w] = [@ EXCEPT !.at = "saveCollected", !.copy = [experiment EXCEPT !.status = "completed"]]]
    ELSE worker' = [worker EXCEPT ![w] = [@ EXCEPT !.at = "savePending", !.copy = [experiment EXCEPT !.status = "cloud_artifacts_pending"]]]

Collect(w) ==
    /\ worker[w].at = "collect"
    /\ IF experiment = Missing
       THEN /\ IF worker[w].op = "refresh" THEN Goes(w, "unconfirmed") ELSE Rests(w)
            /\ UNCHANGED <<files, confirmed>>
       ELSE \E content \in IF Mounted = "none" THEN FetchOutcomes ELSE {files[Mounted]} :
              LET source == IF Mounted = "none" THEN "cloud" ELSE Mounted
              IN  /\ files' = [files EXCEPT ![source] = content]
                  /\ CollectedFrom(w, source, content)
                  /\ confirmed' = IF content = "all" THEN confirmed \cup {"artifacts"} ELSE confirmed
    /\ UNCHANGED <<experiment, jobs, launched, listing, remote, fetch, overlapped, settled, deleted, requests>>

\* A synchronization that is given up after five minutes ends the request, a
\* refresh with it, whatever it has copied.
CollectGivenUp(w) ==
    /\ worker[w].at = "collect" /\ experiment # Missing
    /\ fetch = "uri" /\ Mounted = "none"
    /\ \E content \in FetchOutcomes : files' = [files EXCEPT !.cloud = content]
    /\ Rests(w)
    /\ UNCHANGED <<experiment, jobs, launched, listing, remote, fetch, history, requests>>

LastOpen == {i \in DOMAIN jobs : Open(jobs[i]) /\ \A k \in DOMAIN jobs : Open(jobs[k]) => k <= i}

\* _mark_latest_cloud_job_completed goes through the rows backwards.
\* mutant: and writes them as it met them
MarkedBackwards == [i \in DOMAIN jobs |->
    LET k == Len(jobs) + 1 - i IN IF k \in LastOpen THEN [jobs[k] EXCEPT !.status = "completed"] ELSE jobs[k]]
Marked == [i \in DOMAIN jobs |-> IF i \in LastOpen THEN [jobs[i] EXCEPT !.status = "completed"] ELSE jobs[i]]

Mark(w) ==
    /\ worker[w].at = "mark"
    /\ jobs' = Marked
    /\ IF worker[w].op = "refresh" THEN Goes(w, "confirmed") ELSE Rests(w)
    /\ UNCHANGED <<experiment, files, launched, listing, remote, fetch, history, requests>>

-----------------------------------------------------------------------------
(* refresh *)

Row(w) == worker[w].rows[worker[w].next]
Restated(rows, n, status) == [rows EXCEPT ![n] = [@ EXCEPT !.status = status]]
RowBecomes(w, status) ==
    LET thread == worker[w]
    IN  worker' = [worker EXCEPT ![w] = [thread EXCEPT !.rows = Restated(thread.rows, thread.next, status),
                                                       !.next = thread.next + 1, !.at = "poll"]]

\* mutant: rows that ended are polled again
PollableAny(job) == job.cloud /\ job.status # "real_nebius_pending"
Pollable(job) == Open(job)

PollNext(w) ==
    /\ worker[w].at = "poll" /\ worker[w].next <= Len(worker[w].rows)
    /\ ~Pollable(Row(w)) \/ experiment = Missing
    /\ RowBecomes(w, Row(w).status)
    /\ UNCHANGED <<experiment, jobs, files, launched, listing, remote, fetch, history, requests>>

\* What the status command says of a job: the provider has more words than
\* statuses, and may answer what is none of them.
Words == [queued |-> {"queued", "pending"}, running |-> {"running", "started"}, completed |-> {"completed", "succeeded"},
          failed |-> {"failed", "cancelled"}, real_nebius_pending |-> {"real_nebius_pending"}]
Says(j) == IF remote.job[j] \in DOMAIN Words THEN Words[remote.job[j]] \cup {"unreadable"} ELSE {"unreadable"}
Heard(word) == {status \in DOMAIN Words : word \in Words[status]}

\* _refresh_submitted_job: a status command that fails or says nothing known
\* leaves the row; failing commands for logs or artifacts end the request.
PollJob(w) ==
    /\ worker[w].at = "poll" /\ worker[w].next <= Len(worker[w].rows)
    /\ Pollable(Row(w)) /\ experiment # Missing
    /\ \/ \E word \in Says(Row(w).id) :
            \E status \in IF Heard(word) = {} THEN {Row(w).status} ELSE Heard(word) :
              CASE status = "completed" /\ fetch = "uri" -> Goes(w, "collect")
                [] status = "completed" /\ fetch = "none" -> RowBecomes(w, "running")
                [] OTHER -> RowBecomes(w, status)
       \/ Rests(w)
    /\ UNCHANGED <<experiment, jobs, files, launched, listing, remote, fetch, history, requests>>

AfterCollect(w) ==
    /\ worker[w].at \in {"confirmed", "unconfirmed"}
    /\ RowBecomes(w, IF worker[w].at = "confirmed" THEN "completed" ELSE "running")
    /\ UNCHANGED <<experiment, jobs, files, launched, listing, remote, fetch, history, requests>>

\* The rows as they were read, refreshed; rows appended since are lost.
WriteJobs(w) ==
    /\ worker[w].at = "poll" /\ worker[w].next > Len(worker[w].rows)
    /\ jobs' = worker[w].rows
    /\ Rests(w)
    /\ UNCHANGED <<experiment, files, launched, listing, remote, fetch, history, requests>>

-----------------------------------------------------------------------------
(* The provider *)

RemoteAdvances(j) ==
    /\ \/ remote.job[j] = "queued" /\ \E s \in {"running", "failed"} : remote' = [remote EXCEPT !.job = [@ EXCEPT ![j] = s]]
       \/ remote.job[j] \in {"running", "orphan"} /\ remote.output # "all" /\ \E c \in {"some", "all"} : remote' = [remote EXCEPT !.output = c]
       \/ remote.job[j] = "running" /\ remote' = [remote EXCEPT !.job = [@ EXCEPT ![j] = "failed"]]
       \/ remote.job[j] = "running" /\ remote.output = "all" /\ remote' = [remote EXCEPT !.job = [@ EXCEPT ![j] = "completed"]]
    /\ UNCHANGED <<experiment, jobs, files, worker, launched, listing, fetch, history, requests>>

Step(w) ==
    \/ SubmitJob(w) \/ BatchWrites(w) \/ RunBatch(w) \/ AppendRow(w) \/ Save(w)
    \/ Collect(w) \/ CollectGivenUp(w) \/ Mark(w)
    \/ PollNext(w) \/ PollJob(w) \/ AfterCollect(w) \/ WriteJobs(w)

Next ==
    \/ \E w \in Workers : Step(w) \/ \E op \in Ops : Begin(w, op)
    \/ Delete
    \/ \E j \in JobIds : RemoteAdvances(j)

Spec == Init /\ [][Next]_vars

-----------------------------------------------------------------------------
(* Properties *)

\* However submissions, batches, refreshes and marks overlap, jobs.jsonl lists
\* each job once, and rows in the order they were appended.  Jobs that were
\* under way together may so be listed against the order they were started
\* in; a job whose row was appended when another was started is listed before
\* it: "the latest job" means what it says for jobs that did not overlap.
RowsInOrder ==
    \A i, k \in DOMAIN jobs :
        /\ i < k => jobs[i].id # jobs[k].id /\ nth[jobs[i].id] < nth[jobs[k].id]
        /\ nth[jobs[i].id] <= behind[jobs[k].id] => i < k

\* Status and batch of the manifest belong together although every request
\* saves an old copy: one that says submitted or failed names the job that was.
StatusTellsBatch ==
    experiment # Missing =>
        /\ experiment.status = "submitted" => experiment.batch # 0 /\ remote.job[experiment.batch] \notin {"none"}
        /\ experiment.status = "failed" => experiment.batch # 0 /\ remote.job[experiment.batch] \in {"none", "failed", "orphan"}

\* No row of a cloud job and no manifest says completed before a full set of
\* artifacts was seen, or the artifacts command succeeded for a job that the
\* provider calls completed.
CompletionConfirmed ==
    /\ experiment # Missing /\ experiment.status = "completed" => confirmed # {}
    /\ \A i \in DOMAIN jobs :
         jobs[i].cloud /\ jobs[i].status = "completed" =>
             "artifacts" \in confirmed \/ (fetch = "command" /\ remote.job[jobs[i].id] = "completed")

\* While requests come one at a time, a job that had ended stays in
\* jobs.jsonl with an outcome, until the experiment is deleted.
OutcomeKeptAlone ==
    ~overlapped /\ ~deleted =>
        \A j \in settled : \E i \in DOMAIN jobs : jobs[i].id = j /\ Ended(jobs[i])
=============================================================================
