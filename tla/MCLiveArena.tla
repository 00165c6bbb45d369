---------------------------- MODULE MCLiveArena ----------------------------
(***************************************************************************)
(* The live arena with one CSV data set, whose records share timestamps    *)
(* across batches and participants, and one LOBSTER data set; for the      *)
(* windows of scenarios, data sets that are read one record a tick.        *)
(***************************************************************************)
EXTENDS LiveArena

Row(time, actor) == [time |-> time, actor |-> actor]
MCCsvRecords ==
    [csv |-> <<Row(1, 2), Row(1, 1), Row(1, 3), Row(2, 1), Row(2, 3), Row(3, 2), Row(3, 1)>>]
MCLobsterRecords == [lobster |-> <<Row(1, 1), Row(2, 1), Row(2, 1)>>]

MCLongCsvRecords == [csv |-> [i \in 1..7 |-> Row(i, 1)]]
MCLongLobsterRecords == [lobster |-> [i \in 1..7 |-> Row(i, 1)]]
=============================================================================
