---------------------------- MODULE EndpointAnswers ----------------------------
(***************************************************************************)
(* The handlers of the serverless endpoint.  An answer tells which model   *)
(* mode and fallback reason it reports; content is where its texts really  *)
(* come from (the model, the template or both), which no answer reports,   *)
(* and asked whether the model was asked.                                  *)
(***************************************************************************)
EXTENDS SurveillanceEndpoint

Template == [content |-> "template", model |-> "deterministic_fallback", reason |-> None, asked |-> FALSE]
\* The merges keep the template's text where the model left a string empty.
FromModel(a) == [Template EXCEPT !.content = Or(a.text, @)]
\* The fields of a, and those of b that a lacks.
With(a, b) == [f \in DOMAIN a \cup DOMAIN b |-> IF f \in DOMAIN a THEN a[f] ELSE b[f]]

\* Every handler answers deterministically unless the model said what was asked.
Reported(result, deterministic, merged) ==
    IF Parsed(result) = None THEN WithMetadata(deterministic, FallbackModelResult(result))
    ELSE WithMetadata(merged, result)

-----------------------------------------------------------------------------
(* /orderbook-alert *)

DeterministicAlert(w) ==
    With([suspicion |-> Screened(w).score, pattern |-> Screened(w).pattern, confidence |-> Screened(w).score],
         Template)

\* _assessment_to_alert, _merge_alert_response
MergedAlert(w, a) ==
    With([suspicion |-> Larger(Screened(w).score, a.confidence),
          pattern |-> Or(a.class, Screened(w).pattern), confidence |-> a.confidence], FromModel(a))

OrderbookAlert(w, outcome) ==
    Reported(Analysis(EpisodeOfWindow(w), "event_screening", outcome),
             DeterministicAlert(w), MergedAlert(w, outcome))

-----------------------------------------------------------------------------
(* /investigation-report and /explain-event *)

Told(e, operation, outcome) ==
    Reported(Analysis(e, operation, outcome), Template, FromModel(outcome))

\* The title and summary count the alerts of the trace.
InvestigationReport(e, outcome) == Told(e, "benchmark_generation", outcome)
\* The risk level of the deterministic answer is the incident's severity.
ExplainEvent(e, outcome) == Told(e, "episode_analysis", outcome)

-----------------------------------------------------------------------------
(* /investigation-team *)

SeverityScore == [informational |-> 1000, low |-> 2500, medium |-> 5000, high |-> 7500, critical |-> 9500]

\* _investigation_risk_score
InvestigationRisk(e, w) ==
    Bounded(Highest({4200, e.score} \cup {r.score : r \in RowSet(e)}
        \cup {Share(w.wall, 10), Share(w.cancelTrade, 12), Share(w.rate, 40), Share(w.depth, 1), Share(w.imbalance, 1)}))

\* The five reviewers of the deterministic team, with their confidence.
TeamOf(risk, confidence) ==
    << <<"OrderBookExpertAgent", Bounded(risk + 400)>>, <<"TradePatternAgent", Bounded(confidence - 500)>>,
       <<"StatisticsAgent", risk>>, <<"ComplianceAgent", 8900>>,
       <<"LeadInvestigatorAgent", Bounded((risk + confidence) \div 2)>> >>

DeterministicTeam(e, w) ==
    LET risk == InvestigationRisk(e, w)
        confidence == Bounded(Highest(IF RowSet(e) = {} THEN {risk} ELSE {r.score : r \in RowSet(e)}))
    IN  With([risk |-> risk, confidence |-> confidence, agents |-> TeamOf(risk, confidence)], Template)

\* _assessment_to_investigation_team: the same reviewers with the model's confidence.
MergedTeam(e, w, a) ==
    With([risk |-> SeverityScore[a.severity], confidence |-> a.confidence,
          agents |-> [i \in 1 .. 5 |-> <<TeamOf(0, 0)[i][1], a.confidence>>]], FromModel(a))

InvestigationTeam(e, w, outcome) ==
    Reported(Analysis(e, "episode_analysis", outcome), DeterministicTeam(e, w), MergedTeam(e, w, outcome))

-----------------------------------------------------------------------------
(* /explain-simulation and /generate-incident-report *)

\* These two pass the assessment on as it is, and report the model's mode though
\* its answer was of another shape.
Summarized(e, operation, outcome) ==
    LET result == Analysis(e, operation, outcome)
    IN  WithMetadata(IF Parsed(result) = None THEN Template ELSE [Template EXCEPT !.content = "model"], result)

ExplainSimulation(e, outcome) == Summarized(e, "simulation_summary", outcome)
GenerateIncidentReport(e, outcome) == Summarized(e, "benchmark_generation", outcome)

-----------------------------------------------------------------------------
(* /generate-scenario and /generate-market-abuse-scenario *)

NormalizedType(type) == IF type \in Types THEN type ELSE "spoofing_like_wall"

\* In hundredths, by the goal of the request.
ScenarioRisk(goal) == CASE goal = "obvious" -> 82 [] goal = "stealth" -> 68 [] OTHER -> 58

DeterministicScenario(r) ==
    With([type |-> NormalizedType(Or(r.type, "spoofing_like_wall")), risk |-> ScenarioRisk(Or(r.goal, "obvious"))],
         Template)

\* _merge_scenario_response: type and risk are the model's.
MergedDraft(r, a) ==
    With([type |-> NormalizedType(Or(a.type, DeterministicScenario(r).type)), risk |-> Clamp(0, 100, a.risk)],
         FromModel(a))

GenerateScenario(r, outcome) ==
    Reported(ModelResult(outcome), DeterministicScenario(r), MergedDraft(r, outcome))

\* mutant: the endpoint's windows start two ticks later than the backend's
TemplateStartLater(d) == Larger(12, d \div 6)
TemplateStart(d) == Larger(10, d \div 6)
TemplateEnd(d) == Smaller(d, Larger(TemplateStart(d) + 12, d - d \div 5))

\* _market_abuse_events: the endpoint has its own copy of the templates, and
\* prices its events in steps of five hundredths whatever their side.
TemplateEvents(req) ==
    LET own == IF req.type = "spoofing_like_wall" THEN "buy" ELSE "sell"
        rows == CASE req.type = "spoofing_like_wall" ->
                       << <<"place_order", "wall_placed", own>>, <<"cancel_order", "wall_cancelled", own>>,
                          <<"trade", "incident_confirmed", "sell">> >>
                  [] req.type = "layering_like" ->
                       << <<"place_order", "pressure_phase", own>>, <<"place_order", "pressure_phase", own>>,
                          <<"cancel_order", "cancelled", own>> >>
                  [] req.type = "liquidity_evaporation" ->
                       << <<"quote_update", "pressure_phase", None>>, <<"quote_update", "pressure_phase", None>>,
                          <<"quote_update", "incident_confirmed", None>> >>
                  [] req.type = "quote_stuffing" ->
                       << <<"place_order", "pressure_phase", own>>, <<"cancel_order", "cancelled", own>>,
                          <<"quote_update", "incident_confirmed", None>> >>
        tick(i) == TemplateStart(req.duration) + (i - 1) * Clamp(2, 12, req.duration \div 16)
    IN  [i \in DOMAIN rows |->
            [id |-> <<tick(i), rows[i][1]>>, tick |-> tick(i), kind |-> rows[i][1],
             stage |-> rows[i][2], side |-> rows[i][3], scenario |-> req.type,
             price |-> IF rows[i][3] = None THEN None ELSE (i - 1) * 5]]

TemplateSignals(type) ==
    CASE type = "spoofing_like_wall" -> {"wall_size_ratio", "cancel_to_trade_ratio", "order_lifetime_ms"}
      [] type = "layering_like" -> {"depth_imbalance", "rapid_cancel_cluster", "multi_level_pressure"}
      [] type = "quote_stuffing" -> {"message_rate", "cancel_to_trade_ratio", "spread_widening"}
      [] type = "liquidity_evaporation" -> {"depth_change_pct", "spread_bps", "replenishment_rate"}

TemplateRisk(difficulty, volatility) ==
    LET base == CASE difficulty = "easy" -> 52 [] difficulty = "medium" -> 68
                  [] difficulty = "hard" -> 82 [] difficulty = "adversarial" -> 91
        adjustment == CASE volatility = "low" -> -4 [] volatility = "medium" -> 0 [] volatility = "high" -> 4
    IN  Larger(0, Smaller(97, base + adjustment))

\* _deterministic_market_abuse_scenario
TemplateScenario(req) ==
    With([type |-> req.type, difficulty |-> req.difficulty, liquidity |-> req.liquidity,
          volatility |-> req.volatility, duration |-> req.duration,
          truth |-> [label |-> req.type,
                     window |-> <<TemplateStart(req.duration), TemplateEnd(req.duration)>>,
                     targets |-> TemplateSignals(req.type), positives |-> FirstTwo(TemplateEvents(req))],
          events |-> TemplateEvents(req),
          behaviour |-> [signals |-> TemplateSignals(req.type),
                         risk |-> TemplateRisk(req.difficulty, req.volatility),
                         falsePositives |-> CASE req.difficulty = "adversarial" -> "high"
                                              [] req.difficulty = "hard" -> "medium" [] OTHER -> "low"],
          source |-> "mock"], Template)

\* _merge_market_abuse_scenario_response: the model gives the texts and nothing else.
MergedScenario(req, a) == [TemplateScenario(req) EXCEPT !.content = FromModel(a).content, !.source = "nebius"]

GenerateMarketAbuse(req, outcome) ==
    Reported(ModelResult(outcome), TemplateScenario(req), MergedScenario(req, outcome))
=============================================================================
