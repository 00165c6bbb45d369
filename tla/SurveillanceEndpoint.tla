-------------------------- MODULE SurveillanceEndpoint --------------------------
(***************************************************************************)
(* The serverless endpoint: for each request a deterministic answer, which *)
(* request is worth asking the model about, what becomes of the prompt,    *)
(* and how the model's output is merged or replaced.  Scores are counted   *)
(* in ten thousandths, features in thousandths; quotients are rounded      *)
(* down.  Texts are abstracted to where they come from.                    *)
(***************************************************************************)
EXTENDS Integers, Sequences, FiniteSets, AbuseScenario

CONSTANTS
    EndpointMode,     \* NEBIUS_ENDPOINT_MODE: "mock", "local_vllm" or another word
    MaxUserPromptChars,
    Assessments       \* what the model may say in the asked shape, see Wrote

Unit == 10000
MaxTimelineEvents == 32
MaxDetectorScores == 16
MaxPreviousBehaviours == 12
HighAnomalyThreshold == 7500
DetectorDisagreementGap == 3000

Magnitude(n) == IF n < 0 THEN -n ELSE n
Bounded(score) == Clamp(0, Unit, score)
Highest(S) == CHOOSE x \in S : \A y \in S : y <= x
Lowest(S) == CHOOSE x \in S : \A y \in S : x <= y
Share(feature, whole) == (feature * 10) \div whole   \* a feature over a number, as a score
Prefix(s, n) == SubSeq(s, 1, Smaller(n, Len(s)))
FirstFilled(lists) ==
    IF \E i \in DOMAIN lists : lists[i] # <<>>
    THEN lists[Lowest({i \in DOMAIN lists : lists[i] # <<>>})] ELSE <<>>

-----------------------------------------------------------------------------
(* The deterministic screen of an order book window *)

\* In the order in which the screen looks; a hint counts as a threshold crossed.
Screens(w) ==
    << [pattern |-> "spoofing_like_wall", crossed |-> w.wall >= 5000,
        score |-> Smaller(9800, 4800 + Share(w.wall, 12) + Share(Magnitude(w.imbalance), 3))],
       [pattern |-> "layering_like", crossed |-> w.depth >= 450,
        score |-> Smaller(9500, 4400 + Share(w.depth, 1) + Share(w.rate, 80))],
       [pattern |-> "quote_stuffing", crossed |-> w.rate >= 18000,
        score |-> Smaller(9700, 4000 + Share(w.rate, 45) + Share(w.cancelTrade, 15))],
       [pattern |-> "liquidity_evaporation", crossed |-> w.cancelTrade >= 8000,
        score |-> Smaller(9400, 4200 + Share(w.cancelTrade, 16) + Share(w.depth, 2))] >>

Screened(w) ==
    LET hits == {i \in 1 .. 4 : w.hint = Screens(w)[i].pattern \/ Screens(w)[i].crossed}
    IN  IF hits = {} THEN [pattern |-> "normal_market", score |-> 1200]
        ELSE [pattern |-> Screens(w)[Lowest(hits)].pattern,
              score |-> Clamp(500, Unit, Screens(w)[Lowest(hits)].score)]

\* orderbook_alert: what the window says as an episode.
EpisodeOfWindow(w) ==
    [score |-> Screened(w).score,
     detectors |-> << << [score |-> Screened(w).score, class |-> Screened(w).pattern,
                          alert |-> Screened(w).score >= HighAnomalyThreshold] >> >>,
     status |-> {}, explicit |-> None, labels |-> {w.hint} \ {None},
     events |-> w.events, previous |-> 0, features |-> 5, chars |-> w.chars]

-----------------------------------------------------------------------------
(* When a model is asked *)

\* _trigger_detector_rows: the first of the four lists that is not empty.
TriggerRows(e) == FirstFilled(e.detectors)
RowSet(e) == {TriggerRows(e)[i] : i \in DOMAIN TriggerRows(e)}

MaximumScore(e) == Highest({0, Bounded(e.score)} \cup {Bounded(r.score) : r \in RowSet(e)})

DetectorDisagreement(e) ==
    LET classes == {r.class : r \in RowSet(e)} \ {None}
        alerts == {r.alert : r \in RowSet(e)} \ {None}
        scores == {Bounded(r.score) : r \in RowSet(e)}
    IN  \/ Cardinality(classes) > 1
        \/ Cardinality(alerts) > 1
        \/ Len(TriggerRows(e)) >= 2 /\ Highest(scores) - Lowest(scores) >= DetectorDisagreementGap

EpisodeCompleted(e) == e.status \cap {"completed", "complete", "finished", "resolved"} # {}

Benign == {"none", "normal", "normal_market", "benign", "market_making", "unknown"}
\* What the ground truth says goes before every label.
ManipulationEpisode(e) == IF e.explicit # None THEN e.explicit ELSE e.labels \ Benign # {}

\* choose_analysis_type
AnalysisType(e, operation) ==
    CASE operation \in {"simulation_summary", "benchmark_generation"} -> operation
      [] MaximumScore(e) >= HighAnomalyThreshold -> "high_anomaly"
      [] DetectorDisagreement(e) -> "detector_disagreement"
      [] EpisodeCompleted(e) /\ ManipulationEpisode(e) -> "completed_episode"
      [] OTHER -> None

-----------------------------------------------------------------------------
(* The prompt *)

OfSuspect(event, suspect) == suspect = None \/ event.agent \in {None, suspect}

\* _order_statistics: placements, cancellations and changes of the suspect.
OrderStatistics(events, suspect) ==
    LET of(kind) == Cardinality({i \in DOMAIN events : events[i].kind = kind /\ OfSuspect(events[i], suspect)})
    IN  IF events = <<>> THEN None
        ELSE [placement |-> of("place_order"), cancel |-> of("cancel_order"), modification |-> of("modify_order")]

\* _timeline and _detector_rows keep the first rows only.
SurveillanceRequest(e, type) ==
    [analysis |-> type,
     scores |-> Prefix(TriggerRows(e), MaxDetectorScores),
     timeline |-> Prefix(e.events, MaxTimelineEvents),
     orders |-> OrderStatistics(e.events, None),
     previous |-> Smaller(e.previous, MaxPreviousBehaviours),
     features |-> Smaller(e.features, 32)]

PromptChars(r, chars) ==
    chars.fixed + chars.row * (Len(r.timeline) + r.previous + r.features)

Trimmed(r) ==
    [r EXCEPT !.timeline = Prefix(@, 12), !.previous = Smaller(@, 4), !.features = Smaller(@, 16)]

\* build_user_prompt: a prompt that is too long is trimmed once.
UserPrompt(r, chars) ==
    IF PromptChars(r, chars) <= MaxUserPromptChars THEN r
    ELSE IF PromptChars(Trimmed(r), chars) <= MaxUserPromptChars THEN Trimmed(r) ELSE None

OutputTokenBudget(r) ==
    IF Highest({0} \cup {Bounded(r.scores[i].score) : i \in DOMAIN r.scores}) < 3500
       /\ r.analysis \in {"simulation_summary", "benchmark_generation"}
    THEN 500 ELSE 1200

-----------------------------------------------------------------------------
(* The model *)

\* Class, confidence and severity of an assessment, type and risk of a scenario; and
\* text, whether the model filled all the strings it was asked for, some or none.
\* A string that is empty is None.
Wrote == {"model", "both", None}

\* What a call of the model comes back with: an object of the asked shape, one
\* of another shape, a text without an object, or no answer.  What the endpoint
\* does not catch (a token count that is no number, a connection that breaks
\* while the answer is read) reaches its caller as an HTTP error.
ModelOutcomes == Assessments \cup [kind : {"wrong_shape", "no_object", "failed"}]

Fallback(reason) == [asked |-> FALSE, payload |-> None, mode |-> "deterministic_fallback", reason |-> reason]

\* _call_model_json, _call_openai_compatible_json
ModelResult(outcome) ==
    IF EndpointMode # "local_vllm"
    THEN Fallback(IF EndpointMode = "mock" THEN "mock_mode" ELSE "unsupported_endpoint_mode")
    ELSE CASE outcome.kind = "failed" ->
                [Fallback("local_vllm_failed") EXCEPT !.asked = TRUE]
           [] outcome.kind = "no_object" ->
                [Fallback("invalid_model_json") EXCEPT !.asked = TRUE]
           [] outcome.kind \in {"valid", "wrong_shape"} ->
                [asked |-> TRUE, payload |-> outcome, mode |-> "local_vllm", reason |-> None]

\* _call_surveillance_analysis
Analysis(e, operation, outcome) ==
    LET type == AnalysisType(e, operation)
    IN  IF type = None THEN Fallback("llm_not_triggered")
        ELSE IF UserPrompt(SurveillanceRequest(e, type), e.chars) = None THEN Fallback("prompt_budget_exceeded")
        ELSE ModelResult(outcome)

\* parse_surveillance_response, _validated_model_payload
Parsed(result) == IF result.payload # None /\ result.payload.kind = "valid" THEN result.payload ELSE None

\* mutant: an answer of another shape keeps the mode of the model
FallbackModelResultAsIs(result) == result
\* _fallback_model_result: an answer of another shape counts as a fallback.
FallbackModelResult(result) ==
    IF result.mode = "deterministic_fallback" THEN result
    ELSE [Fallback("invalid_model_json") EXCEPT !.asked = result.asked]

\* _with_model_metadata
WithMetadata(answer, result) ==
    [answer EXCEPT !.model = result.mode, !.reason = result.reason, !.asked = result.asked]
=============================================================================
