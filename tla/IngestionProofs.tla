---------------------------- MODULE IngestionProofs ----------------------------
(* Proofs about DataIngestion: who imports what, and that what is registered  *)
(* is whole, for any pairs, windows and number of requests, candidates,       *)
(* deliveries and faults.                                                     *)
EXTENDS DataIngestion, FiniteSetTheorems, WellFoundedInduction, TLAPS

Stages == {"idle", "asked"} \cup AtWork

Shape ==
    /\ at \in [Requests -> Stages]
    /\ request = [r \in Requests |-> request[r]]
    /\ \A r \in Requests : at[r] # "idle" => request[r].candidate \in Candidates
    /\ jobs \in [Candidates -> {"none", "importing", "failed"}]

\* The invariant is inductive together with the shape of the variables.
OneTask == Shape /\ ImportingHasTask

-----------------------------------------------------------------------------
(* Steps in the middle of a task *)

\* A task at work goes on: the job stays as it is, the lock follows the task.
LEMMA GoesOn ==
    ASSUME OneTask, NEW r \in Requests, NEW stage \in AtWork, Goes(r, stage),
           at[r] \in AtWork, UNCHANGED <<jobs, request>>,
           lock = NoRequest \/ lock = r,
           lock' = IF stage \in HoldsLock THEN r ELSE NoRequest
    PROVE  OneTask'
  <1> USE DEF OneTask, Shape
  <1>1. at'[r] = stage /\ \A s \in Requests \ {r} : at'[s] = at[s]
    BY DEF Goes
  <1>2. Shape'
    BY <1>1 DEF Goes, Stages, AtWork
  <1>3. \A s \in Requests, c \in Candidates : Imports(s, c)' <=> Imports(s, c)
    BY <1>1 DEF Imports
  <1>4. \A s \in Requests : lock' = s <=> at'[s] \in HoldsLock
    <2> TAKE s \in Requests
    <2>1. CASE s = r
      BY <2>1, <1>1, IngestionAssumption
    <2>2. CASE s # r
      BY <2>2, <1>1, IngestionAssumption DEF ImportingHasTask
    <2> QED
      BY <2>1, <2>2
  <1> QED
    BY <1>2, <1>3, <1>4 DEF ImportingHasTask

\* A task that has made its directory holds the lock.
LEMMA Holder == ASSUME OneTask, NEW r \in Requests, at[r] \in HoldsLock PROVE lock = r /\ at[r] \in AtWork
  BY DEF OneTask, ImportingHasTask, HoldsLock, AtWork

LEMMA StartKeeps == ASSUME OneTask, NEW r \in Requests, Start(r) PROVE OneTask'
  <1>1. at[r] \in AtWork /\ lock = NoRequest /\ UNCHANGED <<jobs, request>>
    BY DEF Start, AtWork
  <1>2. \/ \E stage \in {"failed", "refused"} : Goes(r, stage) /\ UNCHANGED lock
        \/ Goes(r, "checked") /\ lock' = r
    BY DEF Start
  <1> QED
    BY <1>1, <1>2, GoesOn DEF AtWork, HoldsLock

LEMMA IdentifyKeeps == ASSUME OneTask, NEW r \in Requests, Identify(r) PROVE OneTask'
  <1>1. at[r] \in HoldsLock /\ UNCHANGED <<jobs, request>>
    BY DEF Identify, HoldsLock
  <1>2. \/ \E stage \in {"failed", "succeeded"} : Goes(r, stage) /\ lock' = NoRequest
        \/ Goes(r, "converting") /\ UNCHANGED lock
    BY DEF Identify, LockAfterError
  <1> QED
    BY <1>1, <1>2, Holder, GoesOn DEF AtWork, HoldsLock

LEMMA ConvertKeeps == ASSUME OneTask, NEW r \in Requests, Convert(r) PROVE OneTask'
  <1>1. at[r] \in HoldsLock /\ UNCHANGED <<jobs, request>>
    BY DEF Convert, HoldsLock
  <1>2. \/ Goes(r, "failed") /\ lock' = NoRequest
        \/ Goes(r, "converted") /\ UNCHANGED lock
    BY DEF Convert, LockAfterError
  <1> QED
    BY <1>1, <1>2, Holder, GoesOn DEF AtWork, HoldsLock

LEMMA WriteManifestKeeps == ASSUME OneTask, NEW r \in Requests, WriteManifest(r) PROVE OneTask'
  <1>1. at[r] \in HoldsLock /\ Goes(r, "registered") /\ UNCHANGED <<jobs, request, lock>>
    BY DEF WriteManifest, HoldsLock
  <1> QED
    BY <1>1, Holder, GoesOn DEF AtWork, HoldsLock

LEMMA RenameKeeps == ASSUME OneTask, NEW r \in Requests, Rename(r) PROVE OneTask'
  <1>1. at[r] \in HoldsLock /\ Goes(r, "succeeded") /\ lock' = NoRequest /\ UNCHANGED <<jobs, request>>
    BY DEF Rename, HoldsLock
  <1> QED
    BY <1>1, Holder, GoesOn DEF AtWork, HoldsLock

LEMMA BreakKeeps == ASSUME OneTask, NEW r \in Requests, Break(r) PROVE OneTask'
  <1>1. at[r] \in HoldsLock /\ Goes(r, "failed") /\ lock' = NoRequest /\ UNCHANGED <<jobs, request>>
    BY DEF Break, LockAfterError
  <1> QED
    BY <1>1, Holder, GoesOn DEF AtWork, HoldsLock

-----------------------------------------------------------------------------
(* Steps that begin or end the work of a request *)

LEMMA AskKeeps ==
    ASSUME OneTask, NEW r \in Requests, NEW c \in Candidates, NEW w \in Windows, Ask(r, c, w) PROVE OneTask'
  <1> USE DEF OneTask, Shape
  <1>1. /\ at[r] = "idle" /\ at'[r] = "asked" /\ request'[r].candidate = c
        /\ \A s \in Requests \ {r} : at'[s] = at[s] /\ request'[s] = request[s]
    BY DEF Ask
  <1>2. Shape'
    BY <1>1 DEF Ask, Stages
  <1>3. \A s \in Requests, k \in Candidates : Imports(s, k)' <=> Imports(s, k)
    BY <1>1 DEF Imports, AtWork
  <1>4. \A s \in Requests : lock' = s <=> at'[s] \in HoldsLock
    BY <1>1 DEF Ask, ImportingHasTask, HoldsLock
  <1> QED
    BY <1>2, <1>3, <1>4 DEF ImportingHasTask, Ask

LEMMA AcceptKeeps == ASSUME OneTask, NEW r \in Requests, Accept(r) PROVE OneTask'
  <1> USE DEF OneTask, Shape
  <1> DEFINE c == request[r].candidate
  <1>1. at[r] = "asked" /\ lock' = lock /\ c \in Candidates
    BY DEF Accept
  <1>2. CASE AlreadyImporting(request[r])
    <2>1. /\ jobs' = jobs /\ at'[r] = "idle"
          /\ \A s \in Requests \ {r} : at'[s] = at[s] /\ request'[s] = request[s]
      BY <1>2 DEF Accept
    <2>2. Shape'
      BY <2>1, <1>2 DEF Accept, Stages
    <2>3. \A s \in Requests, k \in Candidates : Imports(s, k)' <=> Imports(s, k)
      BY <1>1, <2>1 DEF Imports, AtWork
    <2>4. \A s \in Requests : lock' = s <=> at'[s] \in HoldsLock
      BY <1>1, <2>1 DEF ImportingHasTask, HoldsLock
    <2> QED
      BY <2>1, <2>2, <2>3, <2>4 DEF ImportingHasTask
  <1>3. CASE ~AlreadyImporting(request[r])
    <2>1. /\ at'[r] = "waiting" /\ request' = request
          /\ \A s \in Requests \ {r} : at'[s] = at[s]
          /\ jobs' = [jobs EXCEPT ![c] = "importing"]
      BY <1>3 DEF Accept
    <2>2. Shape'
      BY <1>1, <1>3, <2>1 DEF Accept, Stages, AtWork
    <2>3. \A s \in Requests : ~Imports(s, c)
      BY <1>1, <1>3 DEF AlreadyImporting, ImportingHasTask
    <2>4. \A s \in Requests, k \in Candidates : Imports(s, k)' <=> (Imports(s, k) \/ (s = r /\ k = c))
      BY <1>1, <2>1 DEF Imports, AtWork
    <2>5. \A k \in Candidates : jobs'[k] = "importing" <=> (jobs[k] = "importing" \/ k = c)
      BY <1>1, <2>1
    <2>6. \A s \in Requests : lock' = s <=> at'[s] \in HoldsLock
      BY <1>1, <2>1 DEF ImportingHasTask, HoldsLock
    <2>7. \A k \in Candidates : jobs'[k] = "importing" <=> \E s \in Requests : Imports(s, k)'
      BY <2>4, <2>5 DEF ImportingHasTask
    <2>8. \A k \in Candidates, s, t \in Requests : Imports(s, k)' /\ Imports(t, k)' => s = t
      BY <2>3, <2>4 DEF ImportingHasTask
    <2> QED
      BY <2>2, <2>6, <2>7, <2>8 DEF ImportingHasTask
  <1> QED
    BY <1>2, <1>3

LEMMA FinishKeeps == ASSUME OneTask, NEW r \in Requests, Finish(r) PROVE OneTask'
  <1> USE DEF OneTask, Shape
  <1> DEFINE c == request[r].candidate
  <1>1. at[r] \in {"refused", "succeeded", "failed"} /\ lock' = lock /\ c \in Candidates /\ Imports(r, c)
    BY DEF Finish, AtWork, Imports
  <1>2. /\ at'[r] = "idle" /\ \A s \in Requests \ {r} : at'[s] = at[s] /\ request'[s] = request[s]
        /\ jobs'[c] # "importing" /\ \A k \in Candidates \ {c} : jobs'[k] = jobs[k]
    BY <1>1 DEF Finish, Goes
  <1>3. Shape'
    BY <1>1, <1>2 DEF Finish, Goes, Stages
  <1>4. \A s \in Requests, k \in Candidates : Imports(s, k)' <=> (Imports(s, k) /\ k # c)
    BY <1>1, <1>2 DEF Imports, AtWork, ImportingHasTask
  <1>5. \A s \in Requests : lock' = s <=> at'[s] \in HoldsLock
    BY <1>1, <1>2 DEF ImportingHasTask, HoldsLock
  <1>6. \A k \in Candidates : jobs'[k] = "importing" <=> \E s \in Requests : Imports(s, k)'
    BY <1>2, <1>4 DEF ImportingHasTask
  <1> QED
    BY <1>3, <1>4, <1>5, <1>6 DEF ImportingHasTask

LEMMA RestartKeeps == ASSUME OneTask, Restart PROVE OneTask'
  <1>1. \A r \in Requests : at'[r] = "idle"
    BY DEF Restart
  <1>2. Shape'
    BY <1>1 DEF Restart, Shape, Stages
  <1>3. \A r \in Requests, c \in Candidates : ~Imports(r, c)'
    BY <1>1 DEF Imports, AtWork
  <1>4. \A r \in Requests : lock' = r <=> at'[r] \in HoldsLock
    BY <1>1, IngestionAssumption DEF Restart, HoldsLock
  <1> QED
    BY <1>2, <1>3, <1>4 DEF OneTask, ImportingHasTask, Restart

LEMMA OthersKeep == ASSUME OneTask, UNCHANGED <<jobs, lock, at, request>> PROVE OneTask'
  BY DEF OneTask, Shape, ImportingHasTask, Imports

-----------------------------------------------------------------------------
(* The theorem *)

LEMMA Initially == Init => OneTask
  BY IngestionAssumption DEF Init, OneTask, Shape, Stages, ImportingHasTask, Imports, AtWork, HoldsLock

LEMMA EveryStep == OneTask /\ [Next]_vars => OneTask'
  <1> SUFFICES ASSUME OneTask, [Next]_vars PROVE OneTask'
    OBVIOUS
  <1>1. ASSUME NEW r \in Requests, NEW c \in Candidates, NEW w \in Windows, Ask(r, c, w) PROVE OneTask'
    BY <1>1, AskKeeps
  <1>2. ASSUME NEW r \in Requests, Accept(r) PROVE OneTask'
    BY <1>2, AcceptKeeps
  <1>3. ASSUME NEW r \in Requests, Work(r) PROVE OneTask'
    BY <1>3, StartKeeps, IdentifyKeeps, ConvertKeeps, WriteManifestKeeps, RenameKeeps, FinishKeeps DEF Work
  <1>4. ASSUME NEW r \in Requests, Break(r) PROVE OneTask'
    BY <1>4, BreakKeeps
  <1>5. ASSUME NEW c \in Candidates, NEW files \in Deliveries \cup {Half, Gone}, Deliver(c, files) PROVE OneTask'
    BY <1>5, OthersKeep DEF Deliver
  <1>6. CASE Restart
    BY <1>6, RestartKeeps
  <1>7. CASE UNCHANGED vars
    BY <1>7, OthersKeep DEF vars
  <1> QED
    BY <1>1, <1>2, <1>3, <1>4, <1>5, <1>6, <1>7 DEF Next

\* However requests overlap, whatever fails and whenever the process stops: a
\* candidate is shown as importing exactly while one task imports it, and only
\* the task that writes holds the import lock.
THEOREM OneTaskImports == Spec => []ImportingHasTask
  <1>1. OneTask => ImportingHasTask
    BY DEF OneTask
  <1> QED
    BY <1>1, Initially, EveryStep, PTL DEF Spec

-----------------------------------------------------------------------------
(* Induction over the rows of a file                                         *)

\* A set of numbers that has 0, and with n the next, has all up to N.
LEMMA UpTo ==
    ASSUME NEW N \in Nat, NEW S, 0 \in S, \A n \in 0 .. N - 1 : n \in S => n + 1 \in S
    PROVE  \A n \in 0 .. N : n \in S
  <1> DEFINE without == {n \in 0 .. N : n \notin S}
  <1>1. SUFFICES ASSUME without # {} PROVE FALSE
    OBVIOUS
  <1>2. without \in SUBSET Nat
    OBVIOUS
  <1> HIDE DEF without
  <1>3. IsWellFoundedOn(OpToRel(<, Nat), Nat)
    BY NatLessThanWellFounded
  <1>4. PICK n \in without : \A m \in without : <<m, n>> \notin OpToRel(<, Nat)
    BY <1>1, <1>2, <1>3, WFMin
  <1>5. \A m \in without : ~(m < n)
    BY <1>2, <1>4 DEF OpToRel
  <1> QED
    BY <1>5 DEF without

\* The function that validate_pair computes exists, so it is what its equation says.
LEMMA ValidationRuns ==
    ASSUME NEW pair, NEW window, Longer(pair) \in Nat
    PROVE  /\ Validation(pair, window)[0] = Clean
           /\ \A i \in 1 .. Longer(pair) :
                 Validation(pair, window)[i] =
                     Checked(Validation(pair, window)[i - 1], pair.messages, pair.books, i, window)
  <1> DEFINE N == Longer(pair)
             Next1(v, i) == Checked(v, pair.messages, pair.books, i, window)
             Runs(f, n) == f = [i \in 0 .. n |-> IF i = 0 THEN Clean ELSE Next1(f[i - 1], i)]
             can == {n \in 0 .. N : \E f : Runs(f, n)}
  <1>1. 0 \in can
    <2>1. PICK f : f = [i \in 0 .. 0 |-> Clean]
      OBVIOUS
    <2>2. Runs(f, 0)
      BY <2>1
    <2>3. \E h : Runs(h, 0)
      BY <2>2, Zenon
    <2> HIDE DEF Runs
    <2> QED
      BY <2>3
  <1>2. ASSUME NEW n \in 0 .. N - 1, n \in can PROVE n + 1 \in can
    <2>1. PICK f : Runs(f, n)
      BY <1>2
    <2> HIDE DEF Next1
    <2>g. PICK g : g = [i \in 0 .. n + 1 |-> IF i = n + 1 THEN Next1(f[n], n + 1) ELSE f[i]]
      OBVIOUS
    <2>2. \A i \in 0 .. n : f[i] = IF i = 0 THEN Clean ELSE Next1(f[i - 1], i)
      BY <2>1
    <2>3. \A i \in 0 .. n + 1 : g[i] = IF i = 0 THEN Clean ELSE Next1(g[i - 1], i)
      <3> TAKE i \in 0 .. n + 1
      <3>1. CASE i = n + 1
        <4>1. g[i] = Next1(f[n], n + 1) /\ g[i - 1] = f[n]
          BY <2>g, <3>1
        <4> QED
          BY <3>1, <4>1
      <3>2. CASE i \in 1 .. n
        <4>1. g[i] = f[i] /\ g[i - 1] = f[i - 1]
          BY <2>g, <3>2
        <4> QED
          BY <2>2, <3>2, <4>1
      <3>3. CASE i = 0
        BY <2>g, <2>2, <3>3
      <3> QED
        BY <3>1, <3>2, <3>3
    <2>4. g = [i \in 0 .. n + 1 |-> g[i]]
      BY <2>g
    <2>5. Runs(g, n + 1)
      BY <2>3, <2>4
    <2>6. \E h : Runs(h, n + 1)
      BY <2>5, Zenon
    <2> HIDE DEF Runs
    <2> QED
      BY <2>6
  <1> HIDE DEF can
  <1>3. N \in can
    <2>1. \A n \in 0 .. N : n \in can
      BY <1>1, <1>2, UpTo
    <2> QED
      BY <2>1
  <1>4. \E f : Runs(f, N)
    BY <1>3 DEF can
  <1>5. Runs(Validation(pair, window), N)
    BY <1>4 DEF Validation
  <1> QED
    BY <1>5

-----------------------------------------------------------------------------
(* validate_pair: what a pair without errors is like                         *)

IsState(v) == v = [errors |-> v.errors, time |-> v.time, before |-> v.before, active |-> v.active,
                   count |-> v.count, stopped |-> v.stopped]

\* A row that adds no error is there in both files and is checked in full.
LEMMA CheckedRow ==
    ASSUME NEW v, NEW messages, NEW books, NEW i, NEW window, NEW after,
           IsState(v), after = Checked(v, messages, books, i, window)
    PROVE  /\ IsState(after) /\ v.errors \subseteq after.errors
           /\ ~v.stopped /\ after.errors = {} =>
                 /\ ~after.stopped
                 /\ ~(i > Len(messages) \/ i > Len(books))
                 /\ RowErrors(messages[i], books[i], v) = {}
                 /\ after.time = messages[i].time
                 /\ after.count = IF InWindow(messages[i].time, window) THEN v.count + 1 ELSE v.count
  <1> DEFINE m == messages[i]
             row == books[i]
             errors == v.errors \cup RowErrors(m, row, v)
             count == IF InWindow(m.time, window) THEN v.count + 1 ELSE v.count
             short == i > Len(messages) \/ i > Len(books)
  <1> DEFINE less == IF m.time < v.time THEN {"timestamp decreased"} ELSE {}
             full == [errors |-> errors, time |-> m.time, before |-> row, active |-> ActiveAfter(m, v.active),
                      stopped |-> FALSE, count |-> count]
  <1>0. after = CASE v.stopped -> v
                  [] ~v.stopped /\ short -> [v EXCEPT !.errors = @ \cup {"row counts differ"}, !.stopped = TRUE]
                  [] ~v.stopped /\ i <= Len(messages) /\ i <= Len(books) /\ ~Parses(m) ->
                       [v EXCEPT !.errors = @ \cup {"invalid message"}]
                  [] ~v.stopped /\ i <= Len(messages) /\ i <= Len(books) /\ Parses(m) /\ ~BookParses(row) ->
                       [v EXCEPT !.errors = @ \cup {"invalid book"} \cup less, !.time = m.time]
                  [] OTHER -> full
    BY DEF Checked
  <1>1. \/ v.stopped /\ after = v
        \/ after = [v EXCEPT !.errors = @ \cup {"row counts differ"}, !.stopped = TRUE]
        \/ after = [v EXCEPT !.errors = @ \cup {"invalid message"}]
        \/ \E more : after = [v EXCEPT !.errors = @ \cup {"invalid book"} \cup more, !.time = m.time]
        \/ (v.stopped \/ ~short) /\ after = full
    <2> HIDE DEF less, full, short, m, row
    <2> QED
      BY <1>0, Zenon
  <1>2. CASE v.stopped /\ after = v
    BY <1>2
  <1>3. CASE after = [v EXCEPT !.errors = @ \cup {"row counts differ"}, !.stopped = TRUE]
    BY <1>3 DEF IsState
  <1>4. CASE after = [v EXCEPT !.errors = @ \cup {"invalid message"}]
    BY <1>4 DEF IsState
  <1>5. CASE \E more : after = [v EXCEPT !.errors = @ \cup {"invalid book"} \cup more, !.time = m.time]
    BY <1>5 DEF IsState
  <1>6. CASE (v.stopped \/ ~short) /\ after = full
    <2> HIDE DEF m, row, count, short
    <2>1. /\ after.errors = v.errors \cup RowErrors(m, row, v) /\ after.stopped = FALSE /\ after.time = m.time
          /\ after.count = count
      BY <1>6
    <2>2. IsState(after)
      BY <1>6 DEF IsState
    <2> QED
      BY <1>6, <2>1, <2>2 DEF m, row, count, short
  <1> QED
    BY <1>1, <1>2, <1>3, <1>4, <1>5, <1>6

\* What a checked row without errors says.
LEMMA RowWithoutErrors ==
    ASSUME NEW m, NEW row, NEW v, RowErrors(m, row, v) = {}
    PROVE  ~(m.time < v.time) /\ AsksAscend(row) /\ BidsDescend(row) /\ ~Crossed(row)
  <1>1. /\ (IF m.time < v.time THEN {"timestamp decreased"} ELSE {}) = {}
        /\ (IF AsksAscend(row) THEN {} ELSE {"ask levels are not ascending"}) = {}
        /\ (IF BidsDescend(row) THEN {} ELSE {"bid levels are not descending"}) = {}
        /\ (IF Crossed(row) THEN {"book is crossed"} ELSE {}) = {}
    <2> DEFINE A == IF m.time < v.time THEN {"timestamp decreased"} ELSE {}
               B == IF AsksAscend(row) THEN {} ELSE {"ask levels are not ascending"}
               C == IF BidsDescend(row) THEN {} ELSE {"bid levels are not descending"}
               D == IF Crossed(row) THEN {"book is crossed"} ELSE {}
               book == Shown(row)
               E == IF InWindow(m.time, <<0, SessionEnd>>) THEN {} ELSE {"filename session window"}
               F == IF v.before = NoRow THEN {}
                    ELSE DeltaErrors(m, Shown(v.before), book) \cup HiddenErrors(m, Shown(v.before), book)
               G == IF m.code = Codes.add THEN AddErrors(m, v.active, book) ELSE {}
               H == IF m.code \in Codes.reduce .. Codes.execute /\ m.id \in DOMAIN v.active
                    THEN LifecycleErrors(m, v.active[m.id]) ELSE {}
    <2>1. UNION {A, B, C, D, E, F, G, H} = {}
      BY DEF RowErrors
    <2> HIDE DEF A, B, C, D, E, F, G, H
    <2>2. A = {} /\ B = {} /\ C = {} /\ D = {}
      BY <2>1
    <2> QED
      BY <2>2 DEF A, B, C, D
  <1> QED
    BY <1>1

\* The messages up to n, of those that belong to the window.
Inside(pair, window, n) == {k \in 1 .. n : InWindow(pair.messages[k].time, window)}
Ascending(pair) ==
    \A i, k \in DOMAIN pair.messages : i <= k => pair.messages[i].time <= pair.messages[k].time

\* A pair that passes has a message for every row, in the order of time, with
\* books in order, and as many messages in the window as were counted.
LEMMA ValidPair ==
    ASSUME NEW pair, IsPair(pair), NEW window, Valid(pair, window)
    PROVE  /\ Ascending(pair)
           /\ \A i \in DOMAIN pair.messages :
                 AsksAscend(pair.books[i]) /\ BidsDescend(pair.books[i]) /\ ~Crossed(pair.books[i])
           /\ Validated(pair, window).count = Cardinality(Inside(pair, window, Len(pair.messages)))
  <1> DEFINE after == Validation(pair, window)
             N == Longer(pair)
             time(i) == pair.messages[i].time
  <1>1. Len(pair.messages) \in Nat /\ Len(pair.books) \in Nat /\ DOMAIN pair.messages = 1 .. Len(pair.messages)
    BY DEF IsPair
  <1>2. N \in Nat /\ N >= Len(pair.messages) /\ N >= Len(pair.books)
        /\ (N = Len(pair.messages) \/ N = Len(pair.books))
    BY <1>1 DEF Longer
  <1>3. /\ after[0] = Clean
        /\ \A i \in 1 .. N : after[i] = Checked(after[i - 1], pair.messages, pair.books, i, window)
    BY <1>2, ValidationRuns
  <1>4. after[N].errors = {}
    BY DEF Valid, Errors, Validated
  <1>5. Validated(pair, window) = after[N]
    BY DEF Validated
  <1> HIDE DEF after
  <1>6. \A i \in 0 .. N : IsState(after[i])
    <2> DEFINE S == {i \in 0 .. N : IsState(after[i])}
    <2>1. 0 \in S
      BY <1>2, <1>3 DEF IsState, Clean
    <2>2. ASSUME NEW n \in 0 .. N - 1, n \in S PROVE n + 1 \in S
      <3>1. n + 1 \in 1 .. N /\ n + 1 - 1 = n
        BY <1>2
      <3>2. after[n + 1] = Checked(after[n], pair.messages, pair.books, n + 1, window)
        BY <1>3, <3>1
      <3>3. IsState(after[n + 1])
        BY <2>2, <3>2, CheckedRow
      <3> QED
        BY <3>1, <3>3
    <2> HIDE DEF S
    <2>3. \A n \in 0 .. N : n \in S
      BY <1>2, <2>1, <2>2, UpTo
    <2> QED
      BY <2>3 DEF S
  <1>7. \A i \in 0 .. N : after[i].errors = {}
    <2> DEFINE S == {k \in 0 .. N : after[N - k].errors = {}}
    <2>1. 0 \in S
      BY <1>2, <1>4
    <2>2. ASSUME NEW n \in 0 .. N - 1, n \in S PROVE n + 1 \in S
      <3>1. N - n \in 1 .. N /\ N - n - 1 = N - (n + 1) /\ N - (n + 1) \in 0 .. N /\ n + 1 \in 0 .. N
        BY <1>2
      <3>2. after[N - n] = Checked(after[N - (n + 1)], pair.messages, pair.books, N - n, window)
        BY <1>3, <3>1
      <3>3. after[N - (n + 1)].errors \subseteq after[N - n].errors
        BY <1>6, <3>1, <3>2, CheckedRow
      <3> QED
        BY <2>2, <3>1, <3>3
    <2> HIDE DEF S
    <2>3. \A n \in 0 .. N : n \in S
      BY <1>2, <2>1, <2>2, UpTo
    <2>4. ASSUME NEW i \in 0 .. N PROVE after[i].errors = {}
      <3>1. N - i \in 0 .. N /\ N - (N - i) = i
        BY <1>2
      <3> QED
        BY <2>3, <3>1 DEF S
    <2> QED
      BY <2>4
  <1>8. \A i \in 0 .. N : ~after[i].stopped
    <2> DEFINE S == {i \in 0 .. N : ~after[i].stopped}
    <2>1. 0 \in S
      BY <1>2, <1>3 DEF Clean
    <2>2. ASSUME NEW n \in 0 .. N - 1, n \in S PROVE n + 1 \in S
      <3>1. n + 1 \in 1 .. N /\ n + 1 - 1 = n /\ n \in 0 .. N /\ n + 1 \in 0 .. N
        BY <1>2
      <3>2. after[n + 1] = Checked(after[n], pair.messages, pair.books, n + 1, window)
        BY <1>3, <3>1
      <3>3. ~after[n + 1].stopped
        BY <1>6, <1>7, <2>2, <3>1, <3>2, CheckedRow
      <3> QED
        BY <3>1, <3>3
    <2> HIDE DEF S
    <2>3. \A n \in 0 .. N : n \in S
      BY <1>2, <2>1, <2>2, UpTo
    <2> QED
      BY <2>3 DEF S
  <1>9. ASSUME NEW i \in 1 .. N
        PROVE  /\ ~(i > Len(pair.messages) \/ i > Len(pair.books))
               /\ RowErrors(pair.messages[i], pair.books[i], after[i - 1]) = {}
               /\ after[i].time = time(i)
               /\ after[i].count = IF InWindow(time(i), window) THEN after[i - 1].count + 1 ELSE after[i - 1].count
    <2>1. i - 1 \in 0 .. N /\ i \in 0 .. N
      BY <1>2
    <2>2. after[i] = Checked(after[i - 1], pair.messages, pair.books, i, window)
      BY <1>3
    <2>3. IsState(after[i - 1]) /\ ~after[i - 1].stopped /\ after[i].errors = {}
      BY <1>6, <1>7, <1>8, <2>1
    <2> QED
      BY <2>2, <2>3, CheckedRow
  <1>10. N = Len(pair.messages) /\ DOMAIN pair.messages = 1 .. N
    <2>1. CASE N = 0
      BY <1>1, <1>2, <2>1
    <2>2. CASE N # 0
      <3>1. N \in 1 .. N
        BY <1>2, <2>2
      <3>2. ~(N > Len(pair.messages))
        BY <1>9, <3>1
      <3> QED
        BY <1>1, <1>2, <3>2
    <2> QED
      BY <2>1, <2>2
  <1>11. \A i \in DOMAIN pair.messages :
            AsksAscend(pair.books[i]) /\ BidsDescend(pair.books[i]) /\ ~Crossed(pair.books[i])
    BY <1>9, <1>10, RowWithoutErrors
  <1>12. ASSUME NEW i \in 1 .. N, i # 1 PROVE time(i - 1) <= time(i)
    <2>1. i - 1 \in 1 .. N
      BY <1>2, <1>12
    <2>2. time(i) \in Int /\ time(i - 1) \in Int
      BY <1>10, <2>1 DEF IsPair
    <2>3. after[i - 1].time = time(i - 1)
      BY <1>9, <2>1
    <2>4. ~(time(i) < after[i - 1].time)
      BY <1>9, RowWithoutErrors
    <2> HIDE DEF time
    <2> QED
      BY <2>2, <2>3, <2>4
  <1>13. Ascending(pair)
    <2> DEFINE S == {n \in 0 .. N : \A i \in 1 .. n : time(i) <= time(n)}
    <2>1. 0 \in S
      BY <1>2
    <2>2. ASSUME NEW n \in 0 .. N - 1, n \in S PROVE n + 1 \in S
      <3>1. n + 1 \in 1 .. N /\ n + 1 \in 0 .. N
        BY <1>2
      <3>2. \A i \in 1 .. N : time(i) \in Int
        BY <1>10 DEF IsPair
      <3>3. n # 0 => time(n) <= time(n + 1)
        BY <1>2, <1>12, <3>1
      <3>4. \A i \in 1 .. n : time(i) <= time(n)
        BY <2>2
      <3>5. ASSUME NEW i \in 1 .. n + 1 PROVE time(i) <= time(n + 1)
        <4>1. i \in 1 .. N /\ (i = n + 1 \/ i \in 1 .. n)
          BY <1>2
        <4>2. CASE i = n + 1
          BY <3>1, <3>2, <4>2
        <4>3. CASE i \in 1 .. n
          <5>1. n # 0 /\ n \in 1 .. N
            BY <1>2, <4>3
          <5>2. time(i) \in Int /\ time(n) \in Int /\ time(n + 1) \in Int
            BY <3>1, <3>2, <4>1, <5>1
          <5>3. time(i) <= time(n) /\ time(n) <= time(n + 1)
            BY <3>3, <3>4, <4>3, <5>1
          <5> HIDE DEF time
          <5> QED
            BY <5>2, <5>3
        <4> QED
          BY <4>1, <4>2, <4>3
      <3> QED
        BY <3>1, <3>5
    <2> HIDE DEF S
    <2>3. \A n \in 0 .. N : n \in S
      BY <1>2, <2>1, <2>2, UpTo
    <2>4. ASSUME NEW i \in 1 .. N, NEW k \in 1 .. N, i <= k PROVE time(i) <= time(k)
      <3>1. k \in 0 .. N /\ i \in 1 .. k
        BY <1>2, <2>4
      <3> QED
        BY <2>3, <3>1 DEF S
    <2> QED
      BY <1>10, <2>4 DEF Ascending
  <1>14. \A n \in 0 .. N : after[n].count = Cardinality(Inside(pair, window, n))
    <2> DEFINE S == {n \in 0 .. N : after[n].count = Cardinality(Inside(pair, window, n))}
    <2>1. 0 \in S
      <3>1. Inside(pair, window, 0) = {}
        BY DEF Inside
      <3>2. Cardinality(Inside(pair, window, 0)) = 0
        BY <3>1, FS_EmptySet
      <3>3. after[0].count = 0
        BY <1>3 DEF Clean
      <3> QED
        BY <1>2, <3>2, <3>3
    <2>2. ASSUME NEW n \in 0 .. N - 1, n \in S PROVE n + 1 \in S
      <3> DEFINE old == Inside(pair, window, n)
                 new == Inside(pair, window, n + 1)
      <3>1. n + 1 \in 1 .. N /\ n + 1 - 1 = n /\ n + 1 \in 0 .. N
        BY <1>2
      <3>2. after[n + 1].count = IF InWindow(time(n + 1), window) THEN after[n].count + 1 ELSE after[n].count
        BY <1>9, <3>1
      <3>3. IsFiniteSet(1 .. n) /\ old \subseteq 1 .. n /\ n + 1 \notin old
        <4>1. n \in Int
          BY <1>2
        <4>2. IsFiniteSet(1 .. n)
          BY <4>1, FS_Interval
        <4>3. old \subseteq 1 .. n
          BY DEF Inside
        <4> HIDE DEF old
        <4> QED
          BY <4>1, <4>2, <4>3
      <3>4. IsFiniteSet(old)
        BY <3>3, FS_Subset
      <3>5. new = IF InWindow(time(n + 1), window) THEN old \cup {n + 1} ELSE old
        <4>1. \A k : k \in 1 .. n + 1 <=> (k \in 1 .. n \/ k = n + 1)
          BY <1>2
        <4> QED
          BY <4>1 DEF Inside
      <3>6. Cardinality(new) = IF InWindow(time(n + 1), window) THEN Cardinality(old) + 1 ELSE Cardinality(old)
        BY <3>3, <3>4, <3>5, FS_AddElement
      <3>7. after[n].count = Cardinality(old)
        BY <2>2
      <3> QED
        BY <3>1, <3>2, <3>6, <3>7
    <2> HIDE DEF S
    <2>3. \A n \in 0 .. N : n \in S
      BY <1>2, <2>1, <2>2, UpTo
    <2> QED
      BY <2>3 DEF S
  <1>15. Validated(pair, window).count = Cardinality(Inside(pair, window, Len(pair.messages)))
    BY <1>2, <1>5, <1>10, <1>14
  <1> QED
    BY <1>11, <1>13, <1>15

-----------------------------------------------------------------------------
(* convert_pair: which rows it writes                                        *)

Behind(pair, window, i) ==
    pair.messages[i].time < window[1] \/ ~(\A k \in EndOfWindow(pair, window) : i < k)

LEMMA ConversionRuns ==
    ASSUME NEW pair, NEW window, Len(pair.messages) \in Nat
    PROVE  /\ Conversion(pair, window)[0] = <<>>
           /\ \A i \in 1 .. Len(pair.messages) :
                 Conversion(pair, window)[i] =
                     IF Behind(pair, window, i) THEN Conversion(pair, window)[i - 1]
                     ELSE Append(Conversion(pair, window)[i - 1], i)
  <1> DEFINE N == Len(pair.messages)
             Next1(rows, i) == IF Behind(pair, window, i) THEN rows ELSE Append(rows, i)
             Runs(f, n) == f = [i \in 0 .. n |-> IF i = 0 THEN <<>> ELSE Next1(f[i - 1], i)]
             can == {n \in 0 .. N : \E f : Runs(f, n)}
  <1>0. N \in Nat
    OBVIOUS
  <1> HIDE DEF N
  <1>1. 0 \in can
    <2>1. PICK f : f = [i \in 0 .. 0 |-> <<>>]
      OBVIOUS
    <2>2. Runs(f, 0)
      BY <2>1
    <2>3. \E h : Runs(h, 0)
      BY <2>2, Zenon
    <2> HIDE DEF Runs
    <2> QED
      BY <1>0, <2>3
  <1>2. ASSUME NEW n \in 0 .. N - 1, n \in can PROVE n + 1 \in can
    <2>1. PICK f : Runs(f, n)
      BY <1>2
    <2>0. n \in Nat /\ n + 1 \in 0 .. N
      BY <1>0
    <2> HIDE DEF Next1
    <2>g. PICK g : g = [i \in 0 .. n + 1 |-> IF i = n + 1 THEN Next1(f[n], n + 1) ELSE f[i]]
      OBVIOUS
    <2>2. \A i \in 0 .. n : f[i] = IF i = 0 THEN <<>> ELSE Next1(f[i - 1], i)
      BY <2>1
    <2>3. \A i \in 0 .. n + 1 : g[i] = IF i = 0 THEN <<>> ELSE Next1(g[i - 1], i)
      <3> TAKE i \in 0 .. n + 1
      <3>1. CASE i = n + 1
        <4>1. g[i] = Next1(f[n], n + 1) /\ g[i - 1] = f[n]
          BY <2>g, <3>1
        <4> QED
          BY <3>1, <4>1
      <3>2. CASE i \in 1 .. n
        <4>1. g[i] = f[i] /\ g[i - 1] = f[i - 1]
          BY <2>g, <3>2
        <4> QED
          BY <2>2, <3>2, <4>1
      <3>3. CASE i = 0
        BY <2>g, <2>2, <3>3
      <3> QED
        BY <3>1, <3>2, <3>3
    <2>4. g = [i \in 0 .. n + 1 |-> g[i]]
      BY <2>g
    <2>5. Runs(g, n + 1)
      BY <2>3, <2>4
    <2>6. \E h : Runs(h, n + 1)
      BY <2>5, Zenon
    <2> HIDE DEF Runs
    <2> QED
      BY <2>0, <2>6
  <1> HIDE DEF can
  <1>3. N \in can
    <2>1. \A n \in 0 .. N : n \in can
      BY <1>0, <1>1, <1>2, UpTo
    <2> QED
      BY <1>0, <2>1
  <1>4. \E f : Runs(f, N)
    BY <1>3 DEF can
  <1>5. Runs(Conversion(pair, window), N)
    BY <1>4 DEF Conversion, Behind, N
  <1>6. /\ Conversion(pair, window)[0] = <<>>
        /\ \A i \in 1 .. N : Conversion(pair, window)[i] = Next1(Conversion(pair, window)[i - 1], i)
    <2> HIDE DEF Next1
    <2> QED
      BY <1>0, <1>5
  <1> QED
    BY <1>6 DEF N

\* The rows that are written of the first n are increasing and are those that
\* are not behind the window.
Kept(pair, window, n) == {i \in 1 .. n : ~Behind(pair, window, i)}
RowsOf(rows, kept) ==
    /\ rows \in Seq(Int)
    /\ ToSet(rows) = kept /\ Len(rows) = Cardinality(kept) /\ IsFiniteSet(kept)
    /\ \A i, k \in DOMAIN rows : i < k => rows[i] < rows[k]

LEMMA AppendRow ==
    ASSUME NEW rows, NEW kept, RowsOf(rows, kept), NEW n \in Int, \A i \in kept : i < n
    PROVE  RowsOf(Append(rows, n), kept \cup {n})
  <1> DEFINE more == Append(rows, n)
  <1>1. rows \in Seq(Int) /\ Len(rows) \in Nat /\ DOMAIN rows = 1 .. Len(rows)
    BY DEF RowsOf
  <1>2. /\ more \in Seq(Int) /\ Len(more) = Len(rows) + 1 /\ DOMAIN more = 1 .. Len(rows) + 1
        /\ more[Len(rows) + 1] = n /\ \A i \in DOMAIN rows : more[i] = rows[i]
    BY <1>1
  <1>3. \A i : i \in DOMAIN more <=> (i \in DOMAIN rows \/ i = Len(rows) + 1)
    BY <1>1, <1>2
  <1>4. n \notin kept
    OBVIOUS
  <1> HIDE DEF more
  <1>5. ToSet(more) = kept \cup {n}
    <2>1. kept = {rows[i] : i \in DOMAIN rows} /\ ToSet(more) = {more[i] : i \in DOMAIN more}
      BY DEF RowsOf, ToSet
    <2>2. \A x : x \in ToSet(more) <=> (x \in kept \/ x = n)
      BY <1>2, <1>3, <2>1
    <2> QED
      BY <2>2
  <1>6. Len(more) = Cardinality(kept \cup {n}) /\ IsFiniteSet(kept \cup {n})
    BY <1>2, <1>4, FS_AddElement DEF RowsOf
  <1>7. \A i \in DOMAIN rows : rows[i] < n
    BY DEF RowsOf, ToSet
  <1>8. \A i, k \in DOMAIN more : i < k => more[i] < more[k]
    <2> SUFFICES ASSUME NEW i \in DOMAIN more, NEW k \in DOMAIN more, i < k PROVE more[i] < more[k]
      OBVIOUS
    <2>1. i \in DOMAIN rows
      BY <1>1, <1>2, <1>3
    <2>2. CASE k = Len(rows) + 1
      BY <1>2, <1>7, <2>1, <2>2
    <2>3. CASE k \in DOMAIN rows
      BY <1>2, <2>1, <2>3 DEF RowsOf
    <2> QED
      BY <1>3, <2>2, <2>3
  <1> QED
    BY <1>2, <1>5, <1>6, <1>8 DEF RowsOf, more

LEMMA ConvertedRows ==
    ASSUME NEW pair, IsPair(pair), NEW window
    PROVE  RowsOf(Converted(pair, window), Kept(pair, window, Len(pair.messages)))
  <1> DEFINE rows == Conversion(pair, window)
             N == Len(pair.messages)
             S == {n \in 0 .. N : RowsOf(rows[n], Kept(pair, window, n))}
  <1>1. N \in Nat
    BY DEF IsPair
  <1>2. /\ rows[0] = <<>>
        /\ \A i \in 1 .. N : rows[i] = IF Behind(pair, window, i) THEN rows[i - 1] ELSE Append(rows[i - 1], i)
    BY <1>1, ConversionRuns
  <1> HIDE DEF rows, N
  <1>3. 0 \in S
    <2>1. Kept(pair, window, 0) = {}
      BY DEF Kept
    <2>2. RowsOf(<<>>, {})
      <3>1. Cardinality({}) = 0 /\ IsFiniteSet({})
        BY FS_EmptySet
      <3>2. ToSet(<<>>) = {}
        BY DEF ToSet
      <3> QED
        BY <3>1, <3>2 DEF RowsOf
    <2> QED
      BY <1>1, <1>2, <2>1, <2>2
  <1>4. ASSUME NEW n \in 0 .. N - 1, n \in S PROVE n + 1 \in S
    <2>1. n + 1 \in 1 .. N /\ n + 1 \in 0 .. N /\ n + 1 - 1 = n /\ n + 1 \in Int
      BY <1>1
    <2>2. RowsOf(rows[n], Kept(pair, window, n))
      BY <1>4
    <2>3. \A k : k \in 1 .. n + 1 <=> (k \in 1 .. n \/ k = n + 1)
      BY <1>1
    <2>4. Kept(pair, window, n + 1) =
              IF Behind(pair, window, n + 1) THEN Kept(pair, window, n) ELSE Kept(pair, window, n) \cup {n + 1}
      BY <2>3 DEF Kept
    <2>5. rows[n + 1] = IF Behind(pair, window, n + 1) THEN rows[n] ELSE Append(rows[n], n + 1)
      BY <1>2, <2>1
    <2>6. \A i \in Kept(pair, window, n) : i < n + 1
      BY <1>1 DEF Kept
    <2>7. RowsOf(rows[n + 1], Kept(pair, window, n + 1))
      BY <2>1, <2>2, <2>4, <2>5, <2>6, AppendRow
    <2> QED
      BY <2>1, <2>7
  <1> HIDE DEF S
  <1>5. N \in S
    <2>1. \A n \in 0 .. N : n \in S
      BY <1>1, <1>3, <1>4, UpTo
    <2> QED
      BY <1>1, <2>1
  <1> QED
    BY <1>5 DEF S, Converted, rows, N

\* In a pair whose times ascend, what is not behind the window is in it.
LEMMA KeptIsInside ==
    ASSUME NEW pair, IsPair(pair), Ascending(pair), NEW window, IsWindow(window)
    PROVE  LET n == Len(pair.messages) IN Kept(pair, window, n) = Inside(pair, window, n)
  <1> DEFINE n == Len(pair.messages)
             time(i) == pair.messages[i].time
  <1>1. DOMAIN pair.messages = 1 .. n /\ \A i \in 1 .. n : time(i) \in Int
    BY DEF IsPair
  <1>2. window[1] \in Int /\ window[2] \in Int
    BY DEF IsWindow
  <1>3. ASSUME NEW i \in 1 .. n PROVE ~Behind(pair, window, i) <=> InWindow(time(i), window)
    <2>1. time(i) \in Int /\ i \in Int /\ n \in Int
      BY <1>1 DEF IsPair
    <2>2. CASE time(i) < window[1]
      BY <1>2, <2>1, <2>2 DEF Behind, InWindow
    <2>3. CASE window[1] <= time(i) /\ window[2] <= time(i)
      <3>1. i \in EndOfWindow(pair, window)
        BY <1>1, <1>2, <2>1, <2>3 DEF EndOfWindow
      <3>2. ~(i < i)
        BY <2>1
      <3>3. Behind(pair, window, i)
        BY <3>1, <3>2 DEF Behind
      <3> QED
        BY <1>2, <2>1, <2>3, <3>3 DEF InWindow
    <2>4. CASE window[1] <= time(i) /\ time(i) < window[2]
      <3>1. ASSUME NEW k \in EndOfWindow(pair, window) PROVE i < k
        <4>1. k \in 1 .. n /\ time(k) >= window[2] /\ time(k) \in Int
          BY <1>1 DEF EndOfWindow
        <4>2. k <= i => time(k) <= time(i)
          BY <1>1, <4>1 DEF Ascending
        <4> HIDE DEF time
        <4> QED
          BY <1>2, <2>1, <2>4, <4>1, <4>2
      <3>2. ~Behind(pair, window, i)
        BY <1>2, <2>1, <2>4, <3>1 DEF Behind
      <3> QED
        BY <2>4, <3>2 DEF InWindow
    <2> QED
      BY <1>2, <2>1, <2>2, <2>3, <2>4
  <1> QED
    BY <1>3 DEF Kept, Inside

-----------------------------------------------------------------------------
(* What is registered                                                        *)

\* A dataset was counted in a pair that passed for its window, and its rows
\* are those of a pair, which may be another.
WasChecked(d) ==
    /\ d.checked \in Deliveries /\ d.window \in Windows
    /\ Valid(Pairs[d.checked], d.window) /\ d.count = Validated(Pairs[d.checked], d.window).count
WasConverted(d) ==
    d.read \in Deliveries /\ d.rows = Converted(Pairs[d.read], d.window) /\ d.rows # <<>>

\* What is kept of a pair, whether it was checked or not, is in the window.
LEMMA ConvertedInWindow ==
    ASSUME NEW d, d.window \in Windows, WasConverted(d)
    PROVE  LET pair == Pairs[d.read]
           IN  /\ ToSet(d.rows) \subseteq {i \in DOMAIN pair.messages : InWindow(pair.messages[i].time, d.window)}
               /\ \A i, k \in DOMAIN d.rows : i < k => d.rows[i] < d.rows[k]
  <1> DEFINE pair == Pairs[d.read]
             n == Len(pair.messages)
  <1>1. IsPair(pair) /\ IsWindow(d.window)
    BY IngestionAssumption DEF WasConverted
  <1>2. RowsOf(d.rows, Kept(pair, d.window, n))
    BY <1>1, ConvertedRows DEF WasConverted
  <1> HIDE DEF pair
  <1>3. DOMAIN pair.messages = 1 .. n /\ \A i \in 1 .. n : pair.messages[i].time \in Int /\ i \in Int
    BY <1>1 DEF IsPair
  <1>4. d.window[1] \in Int /\ d.window[2] \in Int
    BY <1>1 DEF IsWindow
  <1>5. ASSUME NEW i \in Kept(pair, d.window, n) PROVE InWindow(pair.messages[i].time, d.window)
    <2>1. i \in 1 .. n /\ ~Behind(pair, d.window, i)
      BY DEF Kept
    <2>2. pair.messages[i].time \in Int /\ i \in Int /\ ~(i < i)
      BY <1>3, <2>1
    <2>3. i \notin EndOfWindow(pair, d.window)
      BY <2>1, <2>2 DEF Behind
    <2>4. ~(pair.messages[i].time >= d.window[2])
      BY <1>3, <2>1, <2>3 DEF EndOfWindow
    <2>5. ~(pair.messages[i].time < d.window[1])
      BY <2>1 DEF Behind
    <2> QED
      BY <1>4, <2>2, <2>4, <2>5 DEF InWindow
  <1>6. ToSet(d.rows) \subseteq {i \in DOMAIN pair.messages : InWindow(pair.messages[i].time, d.window)}
    BY <1>2, <1>3, <1>5 DEF RowsOf, Kept
  <1> QED
    BY <1>2, <1>6 DEF RowsOf, pair

\* A dataset that was checked and converted from the same pair is whole.
LEMMA CheckedIsWhole ==
    ASSUME NEW d, WasChecked(d), WasConverted(d), Steady(d)
    PROVE  LET pair == Pairs[d.pair]
           IN  /\ ToSet(d.rows) = {i \in DOMAIN pair.messages : InWindow(pair.messages[i].time, d.window)}
               /\ d.count = Len(d.rows)
               /\ AuditPasses(d, pair) <=> \A i \in ToSet(d.rows) : ~Locked(pair.books[i])
  <1> DEFINE pair == Pairs[d.pair]
             n == Len(pair.messages)
             inside == Inside(pair, d.window, n)
  <1>1. IsPair(pair) /\ IsWindow(d.window) /\ Valid(pair, d.window)
    BY IngestionAssumption DEF WasChecked, Steady
  <1>2. /\ Ascending(pair)
        /\ \A i \in DOMAIN pair.messages :
              AsksAscend(pair.books[i]) /\ BidsDescend(pair.books[i]) /\ ~Crossed(pair.books[i])
        /\ Validated(pair, d.window).count = Cardinality(inside)
    BY <1>1, ValidPair
  <1>3. RowsOf(d.rows, inside)
    BY <1>1, <1>2, ConvertedRows, KeptIsInside DEF WasConverted, Steady
  <1>4. DOMAIN pair.messages = 1 .. n
    BY <1>1 DEF IsPair
  <1>5. inside = {i \in DOMAIN pair.messages : InWindow(pair.messages[i].time, d.window)}
    BY <1>4 DEF Inside
  <1>6. ToSet(d.rows) = inside /\ d.count = Len(d.rows)
    BY <1>2, <1>3 DEF RowsOf, WasChecked, Steady
  <1> HIDE DEF inside, pair
  <1>7. \A i \in DOMAIN d.rows : /\ d.rows[i] \in inside /\ d.rows[i] \in Int
                                /\ d.rows[i] \in DOMAIN pair.messages
                                /\ InWindow(pair.messages[d.rows[i]].time, d.window)
    <2>1. \A i \in DOMAIN d.rows : d.rows[i] \in inside
      BY <1>6 DEF ToSet
    <2>2. \A i \in DOMAIN d.rows : d.rows[i] \in Int
      BY <1>3 DEF RowsOf
    <2> QED
      BY <1>5, <2>1, <2>2
  <1>8. \A i, k \in DOMAIN d.rows : i < k =>
            d.rows[i] < d.rows[k] /\ pair.messages[d.rows[i]].time <= pair.messages[d.rows[k]].time
    <2> SUFFICES ASSUME NEW i \in DOMAIN d.rows, NEW k \in DOMAIN d.rows, i < k
                 PROVE  d.rows[i] < d.rows[k] /\ pair.messages[d.rows[i]].time <= pair.messages[d.rows[k]].time
      OBVIOUS
    <2>1. d.rows[i] < d.rows[k]
      BY <1>3 DEF RowsOf
    <2>2. d.rows[i] <= d.rows[k]
      BY <1>7, <2>1
    <2> QED
      BY <1>2, <1>7, <2>1, <2>2 DEF Ascending
  <1>9. AuditPasses(d, pair) <=> \A i \in DOMAIN d.rows : ~Locked(pair.books[d.rows[i]])
    <2>1. \A i \in DOMAIN d.rows : /\ AsksAscend(pair.books[d.rows[i]]) /\ BidsDescend(pair.books[d.rows[i]])
                                  /\ ~Crossed(pair.books[d.rows[i]])
      BY <1>2, <1>7
    <2>2. d.rows # <<>>
      BY DEF WasConverted
    <2> QED
      BY <1>6, <1>7, <1>8, <2>1, <2>2 DEF AuditPasses
  <1>10. (\A i \in DOMAIN d.rows : ~Locked(pair.books[d.rows[i]])) <=> \A i \in ToSet(d.rows) : ~Locked(pair.books[i])
    BY DEF ToSet
  <1> QED
    BY <1>5, <1>6, <1>9, <1>10 DEF pair

\* The task that holds the lock keeps what it counted and what it converted,
\* whatever was delivered meanwhile.
Directories == [r \in Requests |-> dir[r]]
Record(d) ==
    d = [source |-> d.source, window |-> d.window, checked |-> d.checked, count |-> d.count,
         pair |-> d.pair, read |-> d.read, rows |-> d.rows]
InHand(r) ==
    at[r] \in HoldsLock =>
        /\ Record(dir[r]) /\ WasChecked(dir[r]) /\ dir[r].window = request[r].window
        /\ at[r] \in {"converted", "registered"} => WasConverted(dir[r])

WholeInv ==
    /\ dir = Directories
    /\ \A r \in Requests : InHand(r)
    /\ \A d \in datasets \cup leftovers : WasChecked(d) /\ WasConverted(d)

\* What a conversion enters in the record.
LEMMA EnterRows ==
    ASSUME NEW d, Record(d), NEW files, NEW rows
    PROVE  [d EXCEPT !.read = files, !.rows = rows]
             = [source |-> d.source, window |-> d.window, checked |-> d.checked, count |-> d.count,
                pair |-> d.pair, read |-> files, rows |-> rows]
  <1>1. PICK source, window, checked, count, pair, read, old :
            d = [source |-> source, window |-> window, checked |-> checked, count |-> count,
                 pair |-> pair, read |-> read, rows |-> old]
    BY DEF Record
  <1>2. /\ d.source = source /\ d.window = window /\ d.checked = checked /\ d.count = count
        /\ d.pair = pair
    BY <1>1
  <1>3. PICK e : e = [source |-> source, window |-> window, checked |-> checked, count |-> count,
                     pair |-> pair, read |-> files, rows |-> old]
    OBVIOUS
  <1>4. [d EXCEPT !.read = files] = e
    BY <1>1, <1>3
  <1>5. [e EXCEPT !.rows = rows] = [source |-> source, window |-> window, checked |-> checked, count |-> count,
                                    pair |-> pair, read |-> files, rows |-> rows]
    BY <1>3
  <1> QED
    BY <1>2, <1>4, <1>5

\* Only request r steps.
LEMMA OneRequestSteps ==
    ASSUME OneTask, WholeInv, NEW r \in Requests, InHand(r)',
           \A s \in Requests \ {r} : at'[s] = at[s] /\ request'[s] = request[s] /\ dir'[s] = dir[s],
           dir' = Directories',
           \A d \in datasets' \cup leftovers' : WasChecked(d) /\ WasConverted(d)
    PROVE  WholeInv'
  <1>1. \A s \in Requests \ {r} : InHand(s)'
    BY DEF WholeInv, InHand
  <1>2. \A d \in datasets' \cup leftovers' : (WasChecked(d) /\ WasConverted(d))'
    BY DEF WasChecked, WasConverted
  <1> QED
    BY <1>1, <1>2 DEF WholeInv

LEMMA WorkIsWhole ==
    ASSUME OneTask, WholeInv, NEW r \in Requests, Work(r) \/ Break(r)
    PROVE  WholeInv'
  <1> USE DEF OneTask, Shape
  <1>1. at \in [Requests -> Stages] /\ dir = Directories /\ InHand(r) /\ UNCHANGED <<raw, leftovers>>
    BY DEF WholeInv, Work, Start, Identify, Convert, WriteManifest, Rename, Finish, Break
  <1>2. \A d \in datasets \cup leftovers : WasChecked(d) /\ WasConverted(d)
    BY DEF WholeInv
  <1>3. ASSUME NEW stage, Goes(r, stage)
        PROVE  at'[r] = stage /\ \A s \in Requests \ {r} : at'[s] = at[s]
    BY <1>1, <1>3 DEF Goes
  <1>4. ASSUME NEW d, dir' = [dir EXCEPT ![r] = d]
        PROVE  dir'[r] = d /\ dir' = Directories' /\ \A s \in Requests \ {r} : dir'[s] = dir[s]
    BY <1>1, <1>4 DEF Directories
  \* A task that is over has nothing in hand.
  <1>5. ASSUME NEW stage \in Stages \ HoldsLock, Goes(r, stage), UNCHANGED <<datasets, request>>,
               UNCHANGED dir \/ \E d : dir' = [dir EXCEPT ![r] = d]
        PROVE  WholeInv'
    <2>1. at'[r] \notin HoldsLock /\ \A s \in Requests \ {r} : at'[s] = at[s]
      BY <1>3, <1>5
    <2>2. dir' = Directories' /\ \A s \in Requests \ {r} : dir'[s] = dir[s]
      BY <1>1, <1>4, <1>5 DEF Directories
    <2> QED
      BY <1>1, <1>2, <1>5, <2>1, <2>2, OneRequestSteps DEF InHand
  \* A task that goes on keeps what it has in hand.
  <1>6. ASSUME NEW stage, Goes(r, stage), UNCHANGED <<datasets, request>>, NEW d, dir' = [dir EXCEPT ![r] = d],
               Record(d), WasChecked(d), d.window = request[r].window,
               stage \in {"converted", "registered"} => WasConverted(d)
        PROVE  WholeInv'
    <2>1. at'[r] = stage /\ dir'[r] = d /\ request'[r] = request[r]
      BY <1>3, <1>4, <1>6
    <2>2. InHand(r)'
      BY <1>6, <2>1 DEF InHand, Record, WasChecked, WasConverted
    <2>3. /\ \A s \in Requests \ {r} : at'[s] = at[s] /\ request'[s] = request[s] /\ dir'[s] = dir[s]
          /\ dir' = Directories'
      BY <1>3, <1>4, <1>6
    <2> QED
      BY <1>1, <1>2, <1>6, <2>2, <2>3, OneRequestSteps
  <1>7. CASE Start(r)
    <2> DEFINE c == request[r].candidate
               w == request[r].window
    <2>1. UNCHANGED <<datasets, request>>
      BY <1>7 DEF Start
    <2>2. CASE \E stage \in {"failed", "refused"} : Goes(r, stage)
      <3>1. PICK stage \in {"failed", "refused"} : Goes(r, stage)
        BY <2>2
      <3>2. stage \in Stages \ HoldsLock
        BY <3>1 DEF Stages, AtWork, HoldsLock
      <3>3. UNCHANGED dir \/ \E d : dir' = [dir EXCEPT ![r] = d]
        BY <1>7 DEF Start
      <3> QED
        BY <1>5, <2>1, <3>1, <3>2, <3>3
    <2>3. CASE Goes(r, "checked")
      <3>1. ~Goes(r, "failed") /\ ~Goes(r, "refused")
        BY <1>3, <2>3
      <3>2. PICK p \in Reports :
                /\ p.pair = raw[c] /\ p.window = w
                /\ dir' = [dir EXCEPT ![r] = [source |-> c, window |-> w, checked |-> raw[c], count |-> p.count,
                                              pair |-> Gone, read |-> Gone, rows |-> <<>>]]
        BY <1>7, <3>1 DEF Start
      <3>3. PICK pw \in Deliveries \X Windows :
                Valid(Pairs[pw[1]], pw[2]) /\ p = [pair |-> pw[1], window |-> pw[2], count |-> Validated(Pairs[pw[1]], pw[2]).count]
        BY DEF Reports, Passing
      <3> DEFINE d == [source |-> c, window |-> w, checked |-> raw[c], count |-> p.count,
                       pair |-> Gone, read |-> Gone, rows |-> <<>>]
      <3>4. d.checked = pw[1] /\ d.window = pw[2] /\ d.count = Validated(Pairs[pw[1]], pw[2]).count
        BY <3>2, <3>3
      <3>5. Record(d) /\ d.window = request[r].window
        BY DEF Record
      <3>6. dir' = [dir EXCEPT ![r] = d]
        BY <3>2
      <3> HIDE DEF d
      <3>7. WasChecked(d)
        BY <3>3, <3>4 DEF WasChecked
      <3>8. "checked" \in {"converted", "registered"} => WasConverted(d)
        OBVIOUS
      <3> QED
        BY <1>6, <2>1, <2>3, <3>5, <3>6, <3>7, <3>8 DEF Goes
    <2> QED
      BY <1>7, <2>2, <2>3 DEF Start
  <1>8. CASE Identify(r)
    <2>1. at[r] = "checked" /\ UNCHANGED <<datasets, request>>
      BY <1>8 DEF Identify
    <2>2. CASE WithoutDirectory(r)
      <3>1. PICK stage \in {"failed", "succeeded"} : Goes(r, stage)
        <4>1. ~Goes(r, "converting") \/ \E stage \in {"failed", "succeeded"} : Goes(r, stage)
          <5>1. CASE Goes(r, "converting")
            <6>1. \/ \E stage \in {"failed", "succeeded"} : Goes(r, stage)
                  \/ \E pair \in Deliveries : dir' = [dir EXCEPT ![r].pair = pair]
              BY <1>8 DEF Identify
            <6>2. ASSUME NEW pair \in Deliveries, dir' = [dir EXCEPT ![r].pair = pair] PROVE FALSE
              <7>1. dir'[r] = [dir[r] EXCEPT !.pair = pair] /\ dir'[r] = <<>>
                BY <1>1, <1>4, <2>2, <6>2 DEF WithoutDirectory, NoDirectory, Directories
              <7>2. "pair" \in DOMAIN dir[r]
                BY <1>1, <2>1 DEF InHand, HoldsLock, Record
              <7> QED
                BY <7>1, <7>2
            <6> QED
              BY <6>1, <6>2
          <5> QED
            BY <5>1
        <4> QED
          BY <1>8, <4>1 DEF Identify
      <3>2. stage \in Stages \ HoldsLock
        BY DEF Stages, AtWork, HoldsLock
      <3> QED
        BY <1>5, <2>1, <2>2, <3>1, <3>2 DEF WithoutDirectory
    <2>3. CASE ~WithoutDirectory(r)
      <3>1. PICK pair \in Deliveries : dir' = [dir EXCEPT ![r].pair = pair] /\ Goes(r, "converting")
        BY <1>8, <2>3 DEF Identify
      <3> DEFINE d == [dir[r] EXCEPT !.pair = pair]
      <3>2. dir' = [dir EXCEPT ![r] = d]
        BY <1>1, <3>1 DEF Directories
      <3>3. Record(dir[r]) /\ WasChecked(dir[r]) /\ dir[r].window = request[r].window
        BY <1>1, <2>1 DEF InHand, HoldsLock
      <3>4. d = [source |-> dir[r].source, window |-> dir[r].window, checked |-> dir[r].checked,
                 count |-> dir[r].count, pair |-> pair, read |-> dir[r].read, rows |-> dir[r].rows]
        BY <3>3 DEF Record
      <3> HIDE DEF d
      <3>5. Record(d) /\ d.window = dir[r].window /\ d.checked = dir[r].checked /\ d.count = dir[r].count
        BY <3>4 DEF Record
      <3>6. WasChecked(d)
        BY <3>3, <3>5 DEF WasChecked
      <3>7. "converting" \in {"converted", "registered"} => WasConverted(d)
        OBVIOUS
      <3> QED
        BY <1>6, <2>1, <3>1, <3>2, <3>3, <3>5, <3>6, <3>7
    <2> QED
      BY <2>2, <2>3
  <1>9. CASE Convert(r)
    <2> DEFINE files == raw[request[r].candidate]
               w == request[r].window
               rows == Converted(Pairs[files], w)
    <2>1. at[r] = "converting" /\ UNCHANGED <<datasets, request>>
      BY <1>9 DEF Convert
    <2>2. CASE Goes(r, "failed") /\ WithoutDirectory(r)
      <3>1. "failed" \in Stages \ HoldsLock
        BY DEF Stages, AtWork, HoldsLock
      <3> QED
        BY <1>5, <2>1, <2>2, <3>1 DEF WithoutDirectory
    <2>3. CASE /\ files \in Deliveries /\ Convertible(Pairs[files], w) /\ Goes(r, "converted")
               /\ dir' = [dir EXCEPT ![r].read = files, ![r].rows = rows]
      <3>0. rows # <<>> /\ files \in Deliveries
        BY <2>3 DEF Convertible
      <3> HIDE DEF rows, files
      <3> DEFINE d == [dir[r] EXCEPT !.read = files, !.rows = rows]
      <3>2. dir' = [dir EXCEPT ![r] = d]
        BY <1>1, <2>3 DEF Directories
      <3>3. Record(dir[r]) /\ WasChecked(dir[r]) /\ dir[r].window = request[r].window
        BY <1>1, <2>1 DEF InHand, HoldsLock
      <3>4. d = [source |-> dir[r].source, window |-> dir[r].window, checked |-> dir[r].checked,
                 count |-> dir[r].count, pair |-> dir[r].pair, read |-> files, rows |-> rows]
        BY <3>3, EnterRows
      <3> HIDE DEF d
      <3>5. /\ Record(d) /\ d.window = dir[r].window /\ d.checked = dir[r].checked /\ d.count = dir[r].count
            /\ d.read = files /\ d.rows = rows
        BY <3>4 DEF Record
      <3>6. WasChecked(d)
        BY <3>3, <3>5 DEF WasChecked
      <3>7. WasConverted(d)
        BY <3>0, <3>3, <3>5 DEF WasConverted, rows
      <3> QED
        BY <1>6, <2>1, <2>3, <3>2, <3>3, <3>5, <3>6, <3>7
    <2> QED
      BY <1>9, <2>2, <2>3 DEF Convert
  <1>10. CASE WriteManifest(r)
    <2>1. at[r] = "converted" /\ Goes(r, "registered") /\ UNCHANGED <<dir, datasets, request>>
      BY <1>10 DEF WriteManifest
    <2>2. dir' = [dir EXCEPT ![r] = dir[r]]
      BY <1>1, <2>1 DEF Directories
    <2>3. Record(dir[r]) /\ WasChecked(dir[r]) /\ WasConverted(dir[r]) /\ dir[r].window = request[r].window
      BY <1>1, <2>1 DEF InHand, HoldsLock
    <2> QED
      BY <1>6, <2>1, <2>2, <2>3
  <1>11. CASE Rename(r)
    <2>1. at[r] = "registered" /\ Goes(r, "succeeded") /\ UNCHANGED request /\ datasets' = datasets \cup {dir[r]}
          /\ dir' = [dir EXCEPT ![r] = NoDirectory]
      BY <1>11 DEF Rename, WithoutDirectory
    <2>2. at'[r] = "succeeded" /\ \A s \in Requests \ {r} : at'[s] = at[s]
      BY <1>3, <2>1
    <2>3. WasChecked(dir[r]) /\ WasConverted(dir[r])
      BY <1>1, <2>1 DEF InHand, HoldsLock
    <2>4. InHand(r)'
      BY <2>2 DEF InHand, HoldsLock
    <2>5. dir' = Directories' /\ \A s \in Requests \ {r} : dir'[s] = dir[s]
      BY <1>4, <2>1
    <2> QED
      BY <1>1, <1>2, <2>1, <2>2, <2>3, <2>4, <2>5, OneRequestSteps
  <1>12. CASE Break(r)
    <2>1. Goes(r, "failed") /\ UNCHANGED <<request, datasets>> /\ dir' = [dir EXCEPT ![r] = NoDirectory]
      BY <1>12 DEF Break, WithoutDirectory
    <2>2. "failed" \in Stages \ HoldsLock
      BY DEF Stages, AtWork, HoldsLock
    <2> QED
      BY <1>5, <2>1, <2>2
  <1>13. CASE Finish(r)
    <2>1. /\ Goes(r, "idle") /\ UNCHANGED datasets /\ request' = [request EXCEPT ![r] = NoRequest]
          /\ dir' = [dir EXCEPT ![r] = NoDirectory]
      BY <1>13 DEF Finish, WithoutDirectory
    <2>2. at'[r] = "idle" /\ \A s \in Requests \ {r} : at'[s] = at[s]
      BY <1>3, <2>1
    <2>3. \A s \in Requests \ {r} : request'[s] = request[s]
      BY <1>1, <2>1
    <2>4. dir' = Directories' /\ \A s \in Requests \ {r} : dir'[s] = dir[s]
      BY <1>4, <2>1
    <2>5. InHand(r)'
      BY <2>2 DEF InHand, HoldsLock
    <2> QED
      BY <1>1, <1>2, <2>1, <2>2, <2>3, <2>4, <2>5, OneRequestSteps
  <1> QED
    BY <1>7, <1>8, <1>9, <1>10, <1>11, <1>12, <1>13 DEF Work

\* Whatever is delivered during an import, a dataset in the registry has rows of
\* its window only, in their order; and it is whole if its three readings met the
\* same files, for any pairs and windows: the rows that one reading counted are
\* then those that another one wrote.
THEOREM RegistryIsWhole == Spec => []DatasetsAreWhole
  <1>1. Init => WholeInv
    BY DEF Init, WholeInv, InHand, HoldsLock, Directories
  <1>2. OneTask /\ WholeInv /\ [Next]_vars => WholeInv'
    <2> SUFFICES ASSUME OneTask, WholeInv, [Next]_vars PROVE WholeInv'
      OBVIOUS
    <2>1. ASSUME NEW r \in Requests, NEW c \in Candidates, NEW w \in Windows, Ask(r, c, w) PROVE WholeInv'
      <3>1. at'[r] = "asked" /\ UNCHANGED <<raw, dir, datasets, leftovers>>
            /\ \A s \in Requests \ {r} : at'[s] = at[s] /\ request'[s] = request[s]
        BY <2>1 DEF Ask, OneTask, Shape
      <3> QED
        BY <3>1, OneRequestSteps DEF InHand, HoldsLock, WholeInv, Directories
    <2>2. ASSUME NEW r \in Requests, Accept(r) PROVE WholeInv'
      <3>1. at'[r] \in {"idle", "waiting"} /\ UNCHANGED <<raw, dir, datasets, leftovers>>
            /\ \A s \in Requests \ {r} : at'[s] = at[s] /\ request'[s] = request[s]
        BY <2>2 DEF Accept, OneTask, Shape
      <3> QED
        BY <3>1, OneRequestSteps DEF InHand, HoldsLock, WholeInv, Directories
    <2>3. ASSUME NEW r \in Requests, Work(r) \/ Break(r) PROVE WholeInv'
      BY <2>3, WorkIsWhole
    <2>4. ASSUME NEW c \in Candidates, NEW files \in Deliveries \cup {Half, Gone}, Deliver(c, files) PROVE WholeInv'
      <3>1. UNCHANGED <<at, request, dir, datasets, leftovers>>
        BY <2>4 DEF Deliver
      <3> QED
        BY <3>1 DEF WholeInv, InHand, Directories, Record, WasChecked, WasConverted
    <2>5. CASE Restart
      <3>1. /\ \A r \in Requests : at'[r] = "idle" /\ UNCHANGED datasets
            /\ dir' = Directories'
            /\ leftovers' = leftovers \cup {dir[r] : r \in {r \in Requests : at[r] = "registered"}}
        BY <2>5 DEF Restart, Directories
      <3>2. \A r \in Requests : at[r] = "registered" => WasChecked(dir[r]) /\ WasConverted(dir[r])
        BY DEF WholeInv, InHand, HoldsLock
      <3>3. \A d \in datasets' \cup leftovers' : WasChecked(d) /\ WasConverted(d)
        BY <2>5, <3>1, <3>2 DEF WholeInv, Restart
      <3>4. \A r \in Requests : InHand(r)'
        BY <3>1 DEF InHand, HoldsLock
      <3> QED
        BY <2>5, <3>1, <3>3, <3>4 DEF WholeInv, Restart, WasChecked, WasConverted
    <2>6. CASE UNCHANGED vars
      BY <2>6 DEF vars, WholeInv, InHand, Directories, Record, WasChecked, WasConverted
    <2> QED
      BY <2>1, <2>2, <2>3, <2>4, <2>5, <2>6 DEF Next
  <1>3. WholeInv => DatasetsAreWhole
    <2> SUFFICES ASSUME WholeInv, NEW d \in Listed PROVE WasChecked(d) /\ WasConverted(d)
      <3>1. ASSUME NEW d \in Listed, WasChecked(d), WasConverted(d), Steady(d)
            PROVE  /\ ToSet(d.rows) = {i \in DOMAIN Pairs[d.pair].messages : InWindow(Pairs[d.pair].messages[i].time, d.window)}
                   /\ d.count = Len(d.rows)
                   /\ AuditPasses(d, Pairs[d.pair]) <=> \A i \in ToSet(d.rows) : ~Locked(Pairs[d.pair].books[i])
        BY <3>1, CheckedIsWhole
      <3>2. ASSUME NEW d \in Listed, WasChecked(d), WasConverted(d)
            PROVE  /\ ToSet(d.rows) \subseteq
                          {i \in DOMAIN Pairs[d.read].messages : InWindow(Pairs[d.read].messages[i].time, d.window)}
                   /\ \A i, k \in DOMAIN d.rows : i < k => d.rows[i] < d.rows[k]
                   /\ d.rows # <<>>
        BY <3>2, ConvertedInWindow DEF WasChecked, WasConverted
      <3> QED
        BY <3>1, <3>2 DEF DatasetsAreWhole
    <2> QED
      BY DEF Listed, WholeInv, InHand, HoldsLock
  <1> QED
    BY Initially, EveryStep, <1>1, <1>2, <1>3, PTL DEF Spec
=============================================================================
