------------------------------ MODULE MCBatchJob ------------------------------
(* Three runs of a normal market and an attack; two requests, one of which *)
(* may die.                                                                *)
EXTENDS BatchJob

MCScenarios == <<Normal, "spoofing_like_wall">>
\* One difficulty is never played, and two have the same remainder.
MCWeights == {<<0, 2, 1, 1>>}
Symmetry == Permutations(Requests)

-----------------------------------------------------------------------------
(* Sessions of four ticks, on a book of three levels a side *)

Calm == [bids |-> <<<<99, 2>>, <<98, 2>>, <<97, 2>>>>, asks |-> <<<<101, 2>>, <<102, 2>>, <<103, 2>>>>]
Wall == [Calm EXCEPT !.bids = <<<<99, 20>>, <<98, 2>>, <<97, 2>>>>]
Layered == [Calm EXCEPT !.bids = <<<<99, 6>>, <<98, 6>>, <<97, 6>>, <<96, 2>>, <<95, 2>>>>]
Thin == [Calm EXCEPT !.bids = <<<<99, 1>>>>]

Event(agent, order, says) == [agent |-> agent, order |-> order, says |-> says]
Quiet == <<Event("mm", "m1", {"updated"})>>
Burst == [i \in 1 .. 7 |-> Event("hft", Nobody, {"cancel"})]
Tick(book, events) == [book |-> book, events |-> events]

Label(windows, actualEnd) ==
    [windows |-> windows, start |-> 2, actualEnd |-> actualEnd, expectedEnd |-> 3,
     phases |-> [p \in {"setup", "impact"} |-> IF p = "setup" THEN <<2, 2>> ELSE <<3, None>>],
     agents |-> {"spoofer"}, orders |-> {"w1"}]
Session(ticks, label) == [before |-> 12, ticks |-> ticks, label |-> label]

\* A wall that is placed early and cancelled; layers that are kept up at the last
\* tick of their window, and a book that empties.
Walled ==
    <<Tick(Wall, <<Event("spoofer", "w1", {"placed"})>>), Tick(Wall, Quiet),
      Tick(Calm, <<Event("spoofer", "w1", {"cancel"})>>), Tick(Calm, Quiet)>>
LayersKept == <<Tick(Calm, Quiet), Tick(Layered, <<Event("spoofer", "w1", {"maintained"})>>), Tick(Calm, Quiet), Tick(Thin, <<>>)>>

MCSessions ==
    [s \in {MCScenarios[1], MCScenarios[2]} |->
       IF s = Normal
       THEN {Session([t \in 1 .. 4 |-> Tick(Calm, Quiet)], None),
             Session([t \in 1 .. 4 |-> Tick(Calm, IF t = 3 THEN Burst ELSE <<>>)], None)}
       ELSE {Session([t \in 1 .. 4 |-> Tick(Calm, Quiet)], Label(<<>>, None)),
             Session(Walled, Label(<<>>, 3)),
             Session(LayersKept, Label(<<<<1, 2>>>>, 0))}]

-----------------------------------------------------------------------------
\* Features at the limits where components are cut off and alarms begin.
MCReadings ==
    [wall : {46659, 46660, 80000}, large : {2, 3}, distance : {0}, imbalance : {0, -5500},
     spread : {20000}, depthChange : {0, -199949, -199950}, bids : {10}, asks : {10, 15},
     lifetime : {1, 11}, rate : {119987, 119988}, cancelToTrade : {0, 80000},
     cancelProbability : {0, 10000}, executions : {0}, replenishment : {10000}, agents : {{}}, orders : {{}}]
=============================================================================
