----------------------------- MODULE MCNebiusCalls -----------------------------
(* The asker asks everything there is to ask and records its posts while two   *)
(* synchronizations run.  Calls share nothing but the archive.  Durations lie at *)
(* the ends of their range and where the windows change shape; one prompt is *)
(* trimmed and one is too long; the model fills all, some or none of the     *)
(* strings it is asked for.                                                  *)
EXTENDS NebiusCalls
CONSTANT asker

Window(wall, rate, cancelTrade, depth, hint, size) ==
    [wall |-> wall, rate |-> rate, cancelTrade |-> cancelTrade, depth |-> depth, imbalance |-> 200,
     hint |-> hint, events |-> <<>>, chars |-> [fixed |-> size, row |-> 1]]
Windows ==
    {Window(1000, 2000, 0, 0, None, 50), Window(6000, 0, 0, 0, None, 50),
     Window(0, 20000, 9000, 0, None, 50), Window(0, 0, 0, 500, None, 200)}

DetectorRow(score, class, alert) == [score |-> score, class |-> class, alert |-> alert]
Episode(score, detectors, status, labels, size) ==
    [score |-> score, detectors |-> detectors, status |-> status, explicit |-> None, labels |-> labels,
     events |-> [i \in 1 .. 14 |-> [kind |-> "place_order", agent |-> None]], previous |-> 5, features |-> 4,
     chars |-> [fixed |-> size, row |-> 1]]
Suspicious == Episode(8000, << <<>>, << DetectorRow(8000, None, TRUE) >> >>, {}, {}, 80)
Resolved == Episode(1000, << <<>> >>, {"resolved"}, {"layering_like"}, 200)
Episodes ==
    {Episode(2000, << <<>> >>, {}, {"layering_like"}, 50),
     Suspicious,
     Episode(4000, << << DetectorRow(4000, "layering_like", FALSE), DetectorRow(1000, None, FALSE) >> >>, {}, {}, 50),
     Resolved}

Scenario(type, duration) ==
    [type |-> type, difficulty |-> "adversarial", liquidity |-> "thin", volatility |-> "high", duration |-> duration]
Scenarios ==
    {Scenario("spoofing_like_wall", 30), Scenario("layering_like", 72),
     Scenario("quote_stuffing", 192), Scenario("liquidity_evaporation", 600)}

Assessment(text, class, type, risk) ==
    [kind |-> "valid", text |-> text, class |-> class, type |-> type, risk |-> risk,
     confidence |-> 3000, severity |-> "critical"]
MCAssessments ==
    {Assessment("model", "layering_like", "other", 140), Assessment("both", "quote_stuffing", None, 30),
     Assessment(None, None, None, -1)}

Quiet == Window(1000, 2000, 0, 0, None, 50)
RedTeam(type) == [op |-> "red_team", request |-> [type |-> type, goal |-> "stealth"]]
Everything ==
    {[op |-> "market_abuse", request |-> s] : s \in Scenarios}
    \cup {[op |-> "alert", window |-> w] : w \in Windows}
    \cup {[op |-> "explain", episode |-> e] : e \in Episodes}
    \cup {[op |-> "report", episode |-> Suspicious, window |-> Quiet]}
    \cup {[op |-> "team", episode |-> Suspicious, window |-> Quiet],
          [op |-> "team", episode |-> Resolved, window |-> Window(11000, 0, 0, 0, None, 50)]}
    \cup {[op |-> o, episode |-> Suspicious] : o \in DirectRoutes}
    \cup {RedTeam(None), RedTeam("other")}
MCCallsOf == [c \in {asker} |-> Everything]
MCOutcomesOf == [c \in {asker} |-> PostOutcomes]

MCRecords == {asker} \X Attempts
=============================================================================
