----------------------------- MODULE DataIngestion -----------------------------
(***************************************************************************)
(* The import of LOBSTER files by the backend.  A candidate is a folder    *)
(* that holds a pair of files; a request to import a window of it is       *)
(* accepted by the service and carried out by a background task: one task  *)
(* at a time checks the pair, reads it again for its digests, and once     *)
(* more to convert it in a temporary directory, writes the manifest last   *)
(* and renames the directory.  The registry is whatever directory has a    *)
(* manifest.  Files may be delivered again, also between two readings,     *)
(* writes fail and the process stops at any moment.                        *)
(*                                                                         *)
(* The files of all candidates have the same name and state the session    *)
(* [0, SessionEnd), and a row is one byte: a pair of another length is the *)
(* only one whose sizes differ.  Names that do not parse are left out.     *)
(***************************************************************************)
EXTENDS LobsterPairs

CONSTANTS
    Candidates,     \* the folders below the raw directory
    Requests,       \* the requests the service works on at a time
    Windows,        \* the windows that are asked for
    Recorded,       \* the pairs that tell what an exchange did, see GenuineIsAccepted
    Altered,        \* the other pairs that are delivered
    Half, Gone,     \* one file of two, and none
    NoRequest,
    MaxDeliveries,  \* bound on deliveries
    MaxFaults       \* bound on failed writes and restarts

\* Pairs are named by their place in this sequence.
Pairs == Recorded \o Altered
Deliveries == DOMAIN Pairs
Genuine == DOMAIN Recorded
IsPair(pair) ==
    /\ \A rows \in {pair.messages, pair.books} : Len(rows) \in Nat /\ DOMAIN rows = 1 .. Len(rows)
    /\ \A i \in DOMAIN pair.messages : pair.messages[i].time \in Int
IsWindow(window) == window \in Int \X Int
ASSUME IngestionAssumption ==
    /\ \A p, q \in Deliveries : Pairs[p] = Pairs[q] => p = q
    /\ \A p \in Deliveries : IsPair(Pairs[p])
    /\ \A window \in Windows : IsWindow(window)
    /\ {Half, Gone} \cap Deliveries = {} /\ NoRequest \notin Requests

VARIABLES
    raw,         \* what each folder of the raw directory holds
    datasets,    \* the directories under their final name
    leftovers,   \* temporary directories with a manifest that a restart left
    jobs,        \* _jobs: "none", "importing" or "failed" per candidate
    lock,        \* _import_lock: the request whose task holds it
    at,          \* how far each request and its task is
    request,     \* what it asked for, and whether it saw the candidate imported by another
    dir,         \* what its task read and wrote in the temporary directory
    deliveries, faults
vars == <<raw, datasets, leftovers, jobs, lock, at, request, dir, deliveries, faults>>

Full == <<0, SessionEnd>>
NoDirectory == <<>>
AtWork == {"waiting", "checked", "converting", "converted", "registered", "refused", "succeeded", "failed"}
HoldsLock == {"checked", "converting", "converted", "registered"}

\* iter_manifests: a temporary directory is listed once it has a manifest.
Listed == datasets \cup leftovers \cup {dir[r] : r \in {r \in Requests : at[r] = "registered"}}

-----------------------------------------------------------------------------
(* Discovery *)

Bytes(p) == <<Len(Pairs[p].messages), Len(Pairs[p].books)>>

\* discover_candidates and candidates(): files that were imported as a whole
\* are known again by folder, name and size; a job in progress or failed shows
\* through unless the files were imported.
ImportedAs(c) == {d \in Listed : d.source = c /\ d.window = Full /\ Bytes(d.pair) = Bytes(raw[c])}
Status(c) ==
    CASE raw[c] = Gone -> "unknown"
      [] raw[c] \in Deliveries /\ ImportedAs(c) # {} -> "imported"
      [] raw[c] \in Deliveries /\ ImportedAs(c) = {} -> IF jobs[c] = "none" THEN "ready" ELSE jobs[c]
      [] raw[c] = Half -> IF jobs[c] = "none" THEN "invalid" ELSE jobs[c]

\* The reports of validate_pair that let a pair pass, and how many rows they count.
Passing == {pw \in Deliveries \X Windows : Valid(Pairs[pw[1]], pw[2])}
Reports == {[pair |-> pw[1], window |-> pw[2], count |-> Validated(Pairs[pw[1]], pw[2]).count] : pw \in Passing}

AllowedWindow(w) == 0 <= w[1] /\ w[1] < w[2] /\ w[2] <= SessionEnd

-----------------------------------------------------------------------------
(* Requests: begin_import, in two steps that other requests may separate    *)

\* Candidates are listed outside of any lock.  An unknown or invalid one and a
\* window outside of the session are refused, and what was imported as a whole
\* is answered at once.
Ask(r, c, w) ==
    /\ at[r] = "idle" /\ at' = [at EXCEPT ![r] = "asked"]
    /\ Status(c) \notin {"unknown", "invalid"} /\ AllowedWindow(w)
    /\ ~(Status(c) = "imported" /\ w = Full)
    /\ request' = [request EXCEPT ![r] = [candidate |-> c, window |-> w, busy |-> Status(c) = "importing"]]
    /\ UNCHANGED <<raw, datasets, leftovers, jobs, lock, dir, deliveries, faults>>

\* mutant: the status listed before decides
SeenImporting(q) == q.busy
AlreadyImporting(q) == jobs[q.candidate] = "importing"

\* Under the job lock.  While a candidate is imported, a request for any
\* window of it is answered with "importing" and dropped.
Accept(r) ==
    /\ at[r] = "asked"
    /\ IF AlreadyImporting(request[r])
       THEN at' = [at EXCEPT ![r] = "idle"] /\ request' = [request EXCEPT ![r] = NoRequest] /\ UNCHANGED jobs
       ELSE /\ jobs' = [jobs EXCEPT ![request[r].candidate] = "importing"]
            /\ at' = [at EXCEPT ![r] = "waiting"] /\ UNCHANGED request
    /\ UNCHANGED <<raw, datasets, leftovers, lock, dir, deliveries, faults>>

-----------------------------------------------------------------------------
(* The background task: execute_import, import_candidate, convert_pair      *)

Goes(r, stage) == at' = [at EXCEPT ![r] = stage]
WithoutDirectory(r) == dir' = [dir EXCEPT ![r] = NoDirectory]
Exists(pair, window) == \E d \in datasets : d.window = window /\ d.pair = pair

\* mutant: the lock is not given back on an error
LockKept == lock
LockAfterError == NoRequest

\* With the lock taken: the files are gone or incomplete, or the pair is not
\* valid, or it is and its rows are counted.
Start(r) ==
    LET c == request[r].candidate
        w == request[r].window
        pair == raw[c]
        passing == {p \in Reports : p.pair = pair /\ p.window = w}
    IN  /\ at[r] = "waiting" /\ lock = NoRequest
        /\ \/ pair \in {Half, Gone} /\ Goes(r, "failed") /\ UNCHANGED <<lock, dir>>
           \/ /\ pair \in Deliveries /\ passing = {} /\ Goes(r, "refused")
              /\ dir' = [dir EXCEPT ![r] = [checked |-> pair]] /\ UNCHANGED lock
           \/ \E p \in passing :
                 /\ Goes(r, "checked") /\ lock' = r
                 /\ dir' = [dir EXCEPT ![r] =
                       [source |-> c, window |-> w, checked |-> pair, count |-> p.count,
                        pair |-> Gone, read |-> Gone, rows |-> <<>>]]
        /\ UNCHANGED <<raw, datasets, leftovers, jobs, request, deliveries, faults>>

\* The files are read for their digests, which name the dataset: it is there,
\* or a temporary directory is made.
Identify(r) ==
    LET pair == raw[request[r].candidate]
    IN  /\ at[r] = "checked"
        /\ \/ pair \in {Half, Gone} /\ Goes(r, "failed") /\ lock' = LockAfterError /\ WithoutDirectory(r)
           \/ /\ pair \in Deliveries /\ Exists(pair, request[r].window)
              /\ Goes(r, "succeeded") /\ lock' = NoRequest /\ WithoutDirectory(r)
           \/ /\ pair \in Deliveries /\ ~Exists(pair, request[r].window)
              /\ Goes(r, "converting") /\ dir' = [dir EXCEPT ![r].pair = pair] /\ UNCHANGED lock
        /\ UNCHANGED <<raw, datasets, leftovers, jobs, request, deliveries, faults>>

\* Both parquet files, from a reading of whatever is there now.
Convert(r) ==
    LET files == raw[request[r].candidate]
        w == request[r].window
        readable == files \in Deliveries /\ Convertible(Pairs[files], w)
    IN  /\ at[r] = "converting"
        /\ \/ /\ readable /\ Goes(r, "converted") /\ UNCHANGED lock
              /\ dir' = [dir EXCEPT ![r].read = files, ![r].rows = Converted(Pairs[files], w)]
           \/ ~readable /\ Goes(r, "failed") /\ lock' = LockAfterError /\ WithoutDirectory(r)
        /\ UNCHANGED <<raw, datasets, leftovers, jobs, request, deliveries, faults>>

WriteManifest(r) ==
    /\ at[r] = "converted" /\ Goes(r, "registered")
    /\ UNCHANGED <<raw, datasets, leftovers, jobs, lock, request, dir, deliveries, faults>>

Rename(r) ==
    /\ at[r] = "registered" /\ Goes(r, "succeeded")
    /\ datasets' = datasets \cup {dir[r]}
    /\ lock' = NoRequest /\ WithoutDirectory(r)
    /\ UNCHANGED <<raw, leftovers, jobs, request, deliveries, faults>>

\* A read or write fails: the temporary directory is removed, with its manifest
\* if it has one.
Break(r) ==
    /\ at[r] \in HoldsLock /\ Goes(r, "failed")
    /\ faults < MaxFaults /\ faults' = faults + 1
    /\ lock' = LockAfterError /\ WithoutDirectory(r)
    /\ UNCHANGED <<raw, datasets, leftovers, jobs, request, deliveries>>

\* The end of execute_import, under the job lock.
Finish(r) ==
    /\ at[r] \in {"refused", "succeeded", "failed"} /\ Goes(r, "idle")
    /\ jobs' = [jobs EXCEPT ![request[r].candidate] = IF at[r] = "succeeded" THEN "none" ELSE "failed"]
    /\ request' = [request EXCEPT ![r] = NoRequest]
    /\ WithoutDirectory(r)
    /\ UNCHANGED <<raw, datasets, leftovers, lock, deliveries, faults>>

-----------------------------------------------------------------------------
(* The surroundings *)

\* Both files are put there or replaced, whatever reads them.
Deliver(c, files) ==
    /\ deliveries < MaxDeliveries /\ deliveries' = deliveries + 1
    /\ raw' = [raw EXCEPT ![c] = files]
    /\ UNCHANGED <<datasets, leftovers, jobs, lock, at, request, dir, faults>>

\* The process stops; directories stay.
Restart ==
    /\ faults < MaxFaults /\ faults' = faults + 1
    /\ leftovers' = leftovers \cup {dir[r] : r \in {r \in Requests : at[r] = "registered"}}
    /\ jobs' = [c \in Candidates |-> "none"]
    /\ lock' = NoRequest
    /\ at' = [r \in Requests |-> "idle"]
    /\ request' = [r \in Requests |-> NoRequest]
    /\ dir' = [r \in Requests |-> NoDirectory]
    /\ UNCHANGED <<raw, datasets, deliveries>>

Init ==
    /\ raw = [c \in Candidates |-> Gone]
    /\ datasets = {} /\ leftovers = {}
    /\ jobs = [c \in Candidates |-> "none"]
    /\ lock = NoRequest
    /\ at = [r \in Requests |-> "idle"]
    /\ request = [r \in Requests |-> NoRequest]
    /\ dir = [r \in Requests |-> NoDirectory]
    /\ deliveries = 0 /\ faults = 0

Work(r) == Start(r) \/ Identify(r) \/ Convert(r) \/ WriteManifest(r) \/ Rename(r) \/ Finish(r)

Next ==
    \/ \E r \in Requests :
          \/ \E c \in Candidates, w \in Windows : Ask(r, c, w)
          \/ Accept(r) \/ Work(r) \/ Break(r)
    \/ \E c \in Candidates, files \in Deliveries \cup {Half, Gone} : Deliver(c, files)
    \/ Restart

\* A task goes on; a thread that waits for the import lock gets it sometime.
Fairness == \A r \in Requests : SF_vars(Start(r)) /\ WF_vars(Work(r))
Spec == Init /\ [][Next]_vars /\ Fairness

-----------------------------------------------------------------------------
(* Properties *)

\* The files were the same when they were checked, named and converted.
Steady(d) == d.checked = d.pair /\ d.read = d.pair

\* A dataset in the registry, under its final name, under a temporary one or
\* left over, has rows of its window only, each once and in their order, whatever
\* was delivered meanwhile.  If its files were the same at the three readings of
\* the import it has every row of the window, the number of rows is the one that
\* was counted, and the audit passes it, but for a locked row, which the import
\* only warns of.
DatasetsAreWhole ==
    \A d \in Listed :
        LET inside(pair) == {i \in DOMAIN pair.messages : InWindow(pair.messages[i].time, d.window)}
        IN  /\ ToSet(d.rows) \subseteq inside(Pairs[d.read]) /\ d.rows # <<>>
            /\ \A i, k \in DOMAIN d.rows : i < k => d.rows[i] < d.rows[k]
            /\ Steady(d) =>
                  /\ ToSet(d.rows) = inside(Pairs[d.pair]) /\ d.count = Len(d.rows)
                  /\ AuditPasses(d, Pairs[d.pair]) <=> \A i \in ToSet(d.rows) : ~Locked(Pairs[d.pair].books[i])

\* A pair that records what an exchange did is not refused for a window that
\* has a row, as long as no order changes while it is out of sight.
GenuineIsAccepted ==
    \A r \in Requests :
        at[r] = "refused" /\ dir[r].checked \in Genuine =>
            LET messages == Pairs[dir[r].checked].messages
            IN  \A i \in DOMAIN messages : ~InWindow(messages[i].time, request[r].window)

Imports(r, c) == at[r] \in AtWork /\ request[r].candidate = c

\* A candidate is shown as importing exactly while one task imports it, though
\* requests overlap, tasks fail and the process restarts; nothing else holds
\* the import lock.
ImportingHasTask ==
    /\ \A c \in Candidates : jobs[c] = "importing" <=> \E r \in Requests : Imports(r, c)
    /\ \A c \in Candidates, r, s \in Requests : Imports(r, c) /\ Imports(s, c) => r = s
    /\ \A r \in Requests : lock = r <=> at[r] \in HoldsLock

\* An accepted import ends, whatever fails.
ImportsEnd == \A c \in Candidates : jobs[c] = "importing" ~> jobs[c] # "importing"
=============================================================================
