----------------------------- MODULE AbuseScenario -----------------------------
(***************************************************************************)
(* The scenarios a generator may only describe: their events and their     *)
(* ground truth are made by deterministic code of the backend, whatever    *)
(* the endpoint answers.  A price counts hundredths from a base that is    *)
(* the same for the same request; texts and quantities are left out.       *)
(***************************************************************************)
EXTENDS Integers, Sequences

CONSTANT None   \* a field an answer does not have

Types == {"spoofing_like_wall", "layering_like", "quote_stuffing", "liquidity_evaporation"}
Difficulties == {"easy", "medium", "hard", "adversarial"}
Regimes == {"thin", "normal", "deep"}
Volatilities == {"low", "medium", "high"}

Requests ==
    [type : Types, difficulty : Difficulties, liquidity : Regimes,
     volatility : Volatilities, duration : 30 .. 600]

Larger(a, b) == IF a > b THEN a ELSE b
Smaller(a, b) == IF a < b THEN a ELSE b
Clamp(low, high, n) == Larger(low, Smaller(high, n))

StartTick(d) == Larger(10, d \div 6)
EndTick(d) == Smaller(d, Larger(StartTick(d) + 12, d - d \div 5))
EventTick(d, i) == StartTick(d) + (i - 1) * Clamp(2, 12, d \div 16)

\* What each type does: kind and stage of its events, and whether it has a side.
Templates ==
    [spoofing_like_wall |->
        << <<"place_order", "wall_placed", "own">>, <<"cancel_order", "wall_cancelled", "own">>,
           <<"trade", "incident_confirmed", "other">> >>,
     layering_like |->
        << <<"place_order", "pressure_phase", "own">>, <<"place_order", "pressure_phase", "own">>,
           <<"cancel_order", "cancelled", "own">> >>,
     liquidity_evaporation |->
        << <<"quote_update", "pressure_phase", None>>, <<"quote_update", "pressure_phase", None>>,
           <<"quote_update", "incident_confirmed", None>> >>,
     quote_stuffing |->
        << <<"place_order", "pressure_phase", "own">>, <<"cancel_order", "cancelled", "own">>,
           <<"quote_update", "incident_confirmed", None>> >>]

SideOf(type, whose) ==
    CASE whose = None -> None
      [] whose = "own" -> IF type = "spoofing_like_wall" THEN "buy" ELSE "sell"
      [] whose = "other" -> IF type = "spoofing_like_wall" THEN "sell" ELSE "buy"

\* Prices move away from the base, up on the sell side and down on the buy side.
Spread == [low |-> 5, medium |-> 15, high |-> 35]
Price(req, i, side) ==
    IF side = None THEN None ELSE i * Spread[req.volatility] * (IF side = "sell" THEN 1 ELSE -1)

\* An event is named by its tick and kind.
EventsFor(req) ==
    [i \in DOMAIN Templates[req.type] |->
        LET row == Templates[req.type][i]
            tick == EventTick(req.duration, i)
        IN  [id |-> <<tick, row[1]>>, tick |-> tick, kind |-> row[1], stage |-> row[2],
             side |-> SideOf(req.type, row[3]), scenario |-> req.type,
             price |-> Price(req, i, SideOf(req.type, row[3]))]]

FirstTwo(events) == {events[i].id : i \in DOMAIN events \cap {1, 2}}

Signals ==
    [spoofing_like_wall |-> {"wall_size_ratio", "cancel_to_trade_ratio", "order_lifetime_ms"},
     layering_like |-> {"depth_imbalance", "rapid_cancel_cluster", "multi_level_pressure"},
     quote_stuffing |-> {"message_rate", "cancel_to_trade_ratio", "spread_widening"},
     liquidity_evaporation |-> {"depth_change_pct", "spread_bps", "replenishment_rate"}]

\* In hundredths.
Risk(difficulty, volatility) ==
    LET base == [easy |-> 52, medium |-> 68, hard |-> 82, adversarial |-> 91]
        adjustment == [low |-> -4, medium |-> 0, high |-> 4]
    IN  Clamp(0, 97, base[difficulty] + adjustment[volatility])

FalsePositives(difficulty) ==
    CASE difficulty = "adversarial" -> "high" [] difficulty = "hard" -> "medium" [] OTHER -> "low"

GroundTruth(req) ==
    [label |-> req.type, window |-> <<StartTick(req.duration), EndTick(req.duration)>>,
     targets |-> Signals[req.type], positives |-> FirstTwo(EventsFor(req))]

Behaviour(req) ==
    [signals |-> Signals[req.type], risk |-> Risk(req.difficulty, req.volatility),
     falsePositives |-> FalsePositives(req.difficulty)]

\* mock_response
MockScenario(req, reason) ==
    [client |-> "mock", reason |-> reason, model |-> None, content |-> "template",
     type |-> req.type, difficulty |-> req.difficulty, liquidity |-> req.liquidity,
     volatility |-> req.volatility, duration |-> req.duration,
     truth |-> GroundTruth(req), events |-> EventsFor(req), behaviour |-> Behaviour(req)]

-----------------------------------------------------------------------------
(* An answer is a record; a field that it lacks is None *)

Or(value, default) == IF value = None THEN default ELSE value
OneOf(value, allowed, default) == IF value \in allowed THEN value ELSE default

\* Truth and positive events of an answer, its label always the type.
TruthFrom(value, fallback, type, positives) ==
    IF value = None THEN [fallback EXCEPT !.label = type, !.positives = positives]
    ELSE [value EXCEPT !.label = type, !.positives = IF @ = {} THEN positives ELSE @]

\* normalize_response
Normalized(response, req, mode, reason) ==
    LET fallback == MockScenario(req, Or(reason, "deterministic normalization fallback"))
        type == OneOf(response.type, Types, req.type)
        events == IF response.events \in {None, <<>>} THEN fallback.events ELSE response.events
    IN  [client |-> mode, reason |-> reason, model |-> response.model, content |-> response.content,
         type |-> type,
         difficulty |-> OneOf(response.difficulty, Difficulties, req.difficulty),
         liquidity |-> OneOf(response.liquidity, Regimes, req.liquidity),
         volatility |-> OneOf(response.volatility, Volatilities, req.volatility),
         duration |-> Clamp(30, 600, Or(response.duration, req.duration)),
         truth |-> TruthFrom(response.truth, fallback.truth, type, FirstTwo(events)),
         events |-> events,
         behaviour |-> Or(response.behaviour, fallback.behaviour)]

\* project_attack_scenario: what the arena is asked to replay.
Projection(s) ==
    [attackType |-> s.type,
     targetSide |-> IF s.type \in {"layering_like", "liquidity_evaporation"} THEN "both" ELSE "sell",
     realTradeSide |-> "buy",
     startTick |-> s.truth.window[1], durationTicks |-> s.duration,
     fakeOrderLevels |-> IF s.type = "quote_stuffing" THEN 8 ELSE 4,
     fakeOrderSizeMultiplier |-> IF s.difficulty \in {"easy", "medium"} THEN 6 ELSE 10,
     cancelDelayTicks |-> IF s.type = "quote_stuffing" THEN 4 ELSE 12,
     realTradeSize |-> IF s.difficulty = "easy" THEN 120 ELSE 240,
     stealthLevel |-> CASE s.difficulty = "adversarial" -> "subtle"
                        [] s.difficulty = "easy" -> "obvious" [] OTHER -> "medium",
     expectedDifficulty |-> IF s.difficulty = "adversarial" THEN "hard" ELSE s.difficulty,
     planSteps |-> Smaller(5, Len(s.events))]
=============================================================================
