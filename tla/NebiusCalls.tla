------------------------------- MODULE NebiusCalls -------------------------------
(***************************************************************************)
(* Callers of the backend that ask the endpoint through NebiusClient.      *)
(* Every post, whether it succeeds or not, is put into the evidence        *)
(* archive before the caller goes on; what fails is answered by another    *)
(* route or by a local mock, unless it is an error nobody catches.         *)
(***************************************************************************)
EXTENDS EndpointAnswers, EvidenceArchive

CONSTANTS
    Callers,
    CallsOf,      \* what each caller may ask: records with their operation
    OutcomesOf,   \* what a post of each caller may meet
    Configured,   \* the routes whose URL is set
    MaxErrors     \* bound: posts that fail, faults of the archive counted in

VARIABLES calls, errors

vars == <<calls, errors, archiveVars>>

Routes == {"explain", "red_team", "alert", "report", "team", "market_abuse"}
\* Requests to the endpoint that no client of the backend makes.
DirectRoutes == {"summary", "incident_report"}

\* Errors the client catches (no answer in time and an answer that is no object
\* count as unreachable); a connection that breaks in the answer is not one.
Caught == {"404", "http", "unreachable"}
Errors == Caught \cup {"broken"}
\* What a post may meet: an error, or an answer after the model came back with something.
PostOutcomes == ModelOutcomes \cup [kind : Errors]

Attempts == 1 .. 3
RecordId(c) == <<c, calls[c].attempt>>

\* What may be asked: a request has what its operation reads, and nothing of a call.
IsWindow(w) == {w.wall, w.rate, w.cancelTrade, w.depth, w.imbalance} \subseteq Int
DetectorRows == Seq([score : Int, class : STRING \cup {None}, alert : BOOLEAN \cup {None}])
IsEpisode(e) == e.score \in Int /\ e.detectors \in Seq(DetectorRows)
IsRequest(r) ==
    /\ "op" \in DOMAIN r /\ r.op \in Routes \cup DirectRoutes
    /\ DOMAIN r \cap {"route", "pc", "attempt", "outcome"} = {}
    /\ r.op = "market_abuse" => "request" \in DOMAIN r /\ r.request \in Requests
    /\ r.op = "team" => {"episode", "window"} \subseteq DOMAIN r /\ IsEpisode(r.episode) /\ IsWindow(r.window)

\* None is not a word of an answer.
Reasons ==
    {"mock_mode", "unsupported_endpoint_mode", "local_vllm_failed", "invalid_model_json",
     "llm_not_triggered", "prompt_budget_exceeded"}
Words == Reasons \cup Errors \cup Types \cup Difficulties \cup Regimes \cup Volatilities
            \cup {"local_vllm", "mock", "nebius", "valid", "not configured", "own", "other", "model", "both", "template"}

ASSUME NebiusCallsAssumption ==
    /\ Records = Callers \X Attempts
    /\ None \notin Int \cup Words \cup Assessments
    /\ \A a \in Assessments : a.kind = "valid" /\ a.text \in Wrote
    /\ \A c \in Callers : OutcomesOf[c] \subseteq PostOutcomes /\ \A r \in CallsOf[c] : IsRequest(r)

-----------------------------------------------------------------------------
(* Local mocks *)

Mocked(reason) == [client |-> "mock", reason |-> reason, model |-> None, content |-> "template"]

\* _mock_orderbook_alert
MockAlert(w, reason) ==
    LET score == Smaller(9500, Larger(1200, Share(w.wall, 10) + Share(w.rate, 80) + Share(w.cancelTrade, 30)))
    IN  With([suspicion |-> score, confidence |-> score,
              pattern |-> IF w.hint # None THEN w.hint
                          ELSE IF w.rate >= 18000 THEN "quote_stuffing"
                          ELSE IF w.wall >= 5000 THEN "spoofing_like_wall" ELSE "normal_market"],
             Mocked(reason))

\* _mock_red_team_scenario
MockRedTeam(r, reason) == With([type |-> Or(r.type, "spoofing_like_wall"), risk |-> 72], Mocked(reason))

\* The local investigation team: the risk and its reviewers have limits of their own.
MockRisk(e, w) ==
    Larger(500, Smaller(9900, Highest({4200, e.score} \cup {r.score : r \in RowSet(e)}
        \cup {Share(w.wall, 10), Share(w.cancelTrade, 12), Share(w.rate, 40), Share(w.depth, 1), Share(w.imbalance, 1)})))

MockTeam(e, w, reason) ==
    LET risk == MockRisk(e, w)
        confidence == Bounded(Highest(IF RowSet(e) = {} THEN {risk} ELSE {r.score : r \in RowSet(e)}))
    IN  With([risk |-> risk, confidence |-> confidence,
              agents |-> << <<"OrderBookExpertAgent", Smaller(9600, risk + 400)>>,
                            <<"TradePatternAgent", Larger(5500, confidence - 500)>>,
                            <<"StatisticsAgent", risk>>, <<"ComplianceAgent", 8900>>,
                            <<"LeadInvestigatorAgent", (risk + confidence) \div 2>> >>],
             Mocked(reason))

Mock(call, reason) ==
    CASE call.op = "alert" -> MockAlert(call.window, reason)
      [] call.op = "red_team" -> MockRedTeam(call.request, reason)
      [] call.op = "market_abuse" -> MockScenario(call.request, reason)
      [] call.op = "team" -> MockTeam(call.episode, call.window, reason)
      [] call.op \in {"explain", "report"} -> Mocked(reason)

-----------------------------------------------------------------------------
(* What the endpoint answers on a route, and what the client makes of it *)

\* generate_market_abuse_scenario asks the alert route about a window of its own.
StandIn(call) ==
    [wall |-> 0, rate |-> 0, cancelTrade |-> 0, depth |-> 0, imbalance |-> 0,
     hint |-> call.request.type, events |-> << [kind |-> "cancel_order", agent |-> None] >>,
     chars |-> [fixed |-> 0, row |-> 1]]

Answered(call, outcome) ==
    CASE call.route = "explain" -> ExplainEvent(call.episode, outcome)
      [] call.route = "report" -> InvestigationReport(call.episode, outcome)
      [] call.route = "team" -> InvestigationTeam(call.episode, call.window, outcome)
      [] call.route = "summary" -> ExplainSimulation(call.episode, outcome)
      [] call.route = "incident_report" -> GenerateIncidentReport(call.episode, outcome)
      [] call.route = "alert" ->
            OrderbookAlert(IF call.op = "alert" THEN call.window ELSE StandIn(call), outcome)
      [] call.route = "red_team" ->
            GenerateScenario(IF call.op = "red_team" THEN call.request
                             ELSE [type |-> None, goal |-> None], outcome)
      [] call.route = "market_abuse" -> GenerateMarketAbuse(call.request, outcome)

\* What a route that is not made for market abuse says of a scenario: texts.
TextsOnly(answer) ==
    [type |-> None, difficulty |-> None, liquidity |-> None, volatility |-> None, duration |-> None,
     truth |-> None, events |-> None, behaviour |-> None, source |-> None,
     model |-> answer.model, reason |-> answer.reason, content |-> answer.content, asked |-> answer.asked]

\* _parse_market_abuse_scenario_response; the alert's fallback reason is not passed on.
ParsedScenario(call, answer) ==
    LET response == IF call.route = "market_abuse" THEN answer ELSE TextsOnly(answer)
        mode == IF response.source = "mock" \/ response.model = "deterministic_fallback" THEN "mock" ELSE "nebius"
    IN  Normalized(response, call.request, mode, IF call.route = "alert" THEN None ELSE response.reason)

\* normalize_response and _agent_findings of the team: nobody is surer than one.
ParsedReviewers(agents) == [i \in DOMAIN agents |-> <<agents[i][1], Bounded(agents[i][2])>>]
ParsedTeam(answer) ==
    [answer EXCEPT !.risk = Bounded(@), !.confidence = Bounded(@), !.agents = ParsedReviewers(@)]

\* _parse_..._response: the endpoint's own words on its model stay in raw_response.
ParsedAnswer(call, answer) ==
    IF call.op = "market_abuse" THEN ParsedScenario(call, answer)
    ELSE With([client |-> "nebius"], IF call.op = "team" THEN ParsedTeam(answer) ELSE answer)

-----------------------------------------------------------------------------
(* A call *)

Fresh == [pc |-> "idle", op |-> None, route |-> None, attempt |-> 0, outcome |-> [kind |-> None]]

\* What the caller gets: computed from where the call ended.
Answer(call) ==
    IF call.op \in DirectRoutes THEN With([client |-> None], Answered(call, call.outcome))
    ELSE IF call.outcome \in ModelOutcomes THEN ParsedAnswer(call, Answered(call, call.outcome))
    ELSE Mock(call, Or(call.outcome.kind, "not configured"))

Begin(c) ==
    /\ calls[c].pc = "idle"
    /\ \E request \in CallsOf[c] :
          LET call == With([op |-> request.op, route |-> request.op, pc |-> "posting", attempt |-> 1],
                           With(request, Fresh))
          IN  calls' = [calls EXCEPT ![c] =
                IF request.op \in Configured \cup DirectRoutes THEN call
                ELSE [call EXCEPT !.pc = "done"]]
    /\ UNCHANGED <<errors, archiveVars>>

\* _post_json: the endpoint answers, with what the model told it, or the post fails.
Post(c) ==
    /\ calls[c].pc = "posting" /\ calls[c].op \notin DirectRoutes
    /\ \E outcome \in OutcomesOf[c] :
          /\ calls' = [calls EXCEPT ![c].pc = "writing", ![c].outcome = outcome]
          /\ outcome.kind \in Errors => errors + archiveFaults < MaxErrors
          /\ errors' = IF outcome.kind \in Errors THEN errors + 1 ELSE errors
    /\ UNCHANGED archiveVars

Direct(c) ==
    /\ calls[c].pc = "posting" /\ calls[c].op \in DirectRoutes
    /\ \E outcome \in OutcomesOf[c] \cap ModelOutcomes :
          calls' = [calls EXCEPT ![c].pc = "done", ![c].outcome = outcome]
    /\ UNCHANGED <<errors, archiveVars>>

\* Where a market abuse request goes when a post failed: a route that is not
\* there is replaced by the scenario route, what fails then by the alert route.
NextRoute(call) ==
    IF call.op # "market_abuse" THEN None
    ELSE IF call.route = "market_abuse" /\ call.outcome.kind = "404" /\ "red_team" \in Configured THEN "red_team"
    ELSE IF call.route = "market_abuse" /\ call.outcome.kind \in {"404", "http"} /\ "alert" \in Configured THEN "alert"
    ELSE IF call.route = "red_team" /\ "alert" \in Configured THEN "alert"
    ELSE None

\* What the client does once the post is recorded.
Resumed(call) ==
    IF call.outcome.kind \notin Errors THEN [call EXCEPT !.pc = "done"]
    ELSE IF call.outcome.kind = "broken" THEN [call EXCEPT !.pc = "raised"]
    ELSE IF NextRoute(call) = None THEN [call EXCEPT !.pc = "done"]
    ELSE [call EXCEPT !.pc = "posting", !.route = NextRoute(call), !.attempt = @ + 1]

Goes(c, pc) == calls' = [calls EXCEPT ![c].pc = pc]
Resume(c) == calls' = [calls EXCEPT ![c] = Resumed(@)]

\* An OSError of the archive is swallowed.
Write(c) ==
    /\ calls[c].pc = "writing" /\ UNCHANGED errors
    /\ \/ WriteRecord(RecordId(c)) /\ Goes(c, IF S3Enabled THEN "uploading" ELSE "registering")
       \/ DiskFails(RecordId(c)) /\ Resume(c)

\* A failed upload is noted and goes on; one that is stopped raises what nobody catches.
UploadError(c) == UploadFails(RecordId(c)) /\ Goes(c, "registering")

Upload(c) ==
    /\ calls[c].pc = "uploading" /\ UNCHANGED errors
    /\ \/ UploadDone(RecordId(c)) /\ Goes(c, "registering")
       \/ UploadError(c)
       \/ UploadTimesOut(RecordId(c)) /\ Goes(c, "raised")

\* The caller waits while a synchronization holds the lock.
Enter(c) ==
    /\ calls[c].pc = "registering" /\ UNCHANGED errors
    /\ RegisterRecord(RecordId(c)) /\ Resume(c)

Init ==
    /\ calls = [c \in Callers |-> Fresh] /\ errors = 0
    /\ ArchiveInit

Step(c) == Post(c) \/ Direct(c) \/ Write(c) \/ Upload(c) \/ Enter(c)
StartSync(s) == SyncBegin(s) /\ UNCHANGED <<calls, errors>>
Synchronizes(s) == SyncStep(s) /\ UNCHANGED <<calls, errors>>
Next == (\E c \in Callers : Begin(c) \/ Step(c)) \/ \E s \in Syncs : StartSync(s) \/ Synchronizes(s)

\* Posts and uploads have timeouts; a synchronization that began goes on.
Fairness == (\A c \in Callers : WF_vars(Step(c))) /\ \A s \in Syncs : WF_vars(Synchronizes(s))
Spec == Init /\ [][Next]_vars /\ Fairness

-----------------------------------------------------------------------------
(* Properties *)

Done(c) == calls[c].pc = "done"

ByAlert(call) == call.op = "market_abuse" /\ call.route = "alert"

Honest(call, a) ==
    /\ a.model = "local_vllm" =>
          /\ a.client # "mock" /\ a.reason = None
          /\ \/ call.outcome.kind = "valid" /\ (a.content = "template" => call.outcome.text = None)
             \/ call.outcome.kind = "wrong_shape" /\ call.op \in DirectRoutes
    /\ a.model # "local_vllm" => a.content = "template" /\ (a.reason # None \/ ByAlert(call))

\* An answer, by whatever route and whatever failed before, reports the model only if
\* the model answered in the asked shape, and then its texts are the template's only
\* where the model left all of them empty; the two routes that are asked directly also
\* report it when it answered in another shape.  No other answer, and no mock, holds
\* a word of the model, and it comes with a reason unless it came by the alert route.
HonestProvenance ==
    \A c \in Callers : Done(c) => Honest(calls[c], Answer(calls[c]))

SameRisk(call, a) ==
    a.model # "local_vllm" => MockRisk(call.episode, call.window) = Larger(500, Smaller(9900, a.risk))

\* The events but for their prices, of which only whether there is one is kept.
Unpriced(events) ==
    [i \in DOMAIN events |-> [events[i] EXCEPT !.price = IF @ = None THEN None ELSE 0]]

SameScenario(a, mock) ==
    /\ a.truth = mock.truth /\ Unpriced(a.events) = Unpriced(mock.events) /\ a.behaviour = mock.behaviour
    /\ Projection(a) = Projection(mock)
    /\ \A i \in DOMAIN a.events :
          /\ a.truth.window[1] <= a.events[i].tick /\ a.events[i].tick <= a.truth.window[2]
          /\ i > 1 => a.events[i - 1].tick < a.events[i].tick
    /\ a.truth.window[2] <= a.duration

\* Whoever answers a request for a scenario, by whatever route, its ground truth, its
\* events but for their prices (in which the copies of the endpoint and of the backend
\* differ) and what the arena is asked to replay are those the local mock would have
\* made; the events lie in the window the truth names, in the duration.
\* And when an incident is reviewed without the model, the endpoint finds the risk the
\* local team finds, but for the limits of the latter.
SameTruthEverywhere ==
    \A c \in Callers : Done(c) =>
        /\ calls[c].op = "team" => SameRisk(calls[c], Answer(calls[c]))
        /\ calls[c].op = "market_abuse" =>
              SameScenario(Answer(calls[c]), MockScenario(calls[c].request, "any"))

\* A record has at most one row in the index, though its recorder and a
\* synchronization may both register it.
RegisteredOnce == \A i, j \in DOMAIN index : index[i] = index[j] => i = j

\* Every call ends, also while a synchronization holds the lock of the archive.
CallsEnd == \A c \in Callers : (calls[c].pc # "idle") ~> (calls[c].pc \in {"done", "raised"})
=============================================================================
