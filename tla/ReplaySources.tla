---------------------------- MODULE ReplaySources ----------------------------
(***************************************************************************)
(* The two data sources of the live arena, as operators on their state:    *)
(* HistoricalCsvMarketDataSource holds a validated list of records and a   *)
(* cursor; HistoricalMarketDataSource reads LOBSTER rows one ahead.  A     *)
(* record is its index in the data set, its timestamp and its participant. *)
(***************************************************************************)
EXTENDS Integers, Sequences, SequencesExt

CONSTANTS
    CsvRecords,      \* per canonical CSV data set, its records as [time, actor]
    LobsterRecords,  \* the same per LOBSTER data set, whose actor is always one
    RowsPerTick,
    NoDataset

CsvDatasets == DOMAIN CsvRecords
LobsterDatasets == DOMAIN LobsterRecords
Datasets == CsvDatasets \cup LobsterDatasets

\* What validateLifecycle and validateNormalizedTables leave: at least one
\* record, and timestamps that never go back.  Actors are numbered in the
\* order of their participant ids.
ASSUME SourcesAssumption ==
    /\ CsvDatasets \cap LobsterDatasets = {} /\ NoDataset \notin Datasets
    /\ RowsPerTick \in Nat \ {0}
    /\ \A records \in {CsvRecords[d] : d \in CsvDatasets} \cup {LobsterRecords[d] : d \in LobsterDatasets} :
         /\ records \in Seq([time : Int, actor : Int]) /\ Len(records) > 0
         /\ \A i, j \in 1..Len(records) : i < j => records[i].time <= records[j].time

Least(i, j) == IF i < j THEN i ELSE j

-----------------------------------------------------------------------------
(* HistoricalCsvMarketDataSource *)

CsvClosed == [dataset |-> NoDataset, cursor |-> 0]
CsvOpened(d) == [dataset |-> d, cursor |-> 0]
CsvLoaded(c) == c.dataset # NoDataset
CsvRows(c) == Len(CsvRecords[c.dataset])
CsvEof(c) == CsvLoaded(c) /\ c.cursor >= CsvRows(c)
CsvEnd(c) == Least(CsvRows(c), c.cursor + RowsPerTick)
CsvAfterBatch(c) == [c EXCEPT !.cursor = CsvEnd(c)]

\* The batch in the order it is applied: by time, then participant, then
\* position in the source.
Sooner(records, i, j) ==
    \/ records[i].time < records[j].time
    \/ /\ records[i].time = records[j].time
       /\ \/ records[i].actor < records[j].actor
          \/ records[i].actor = records[j].actor /\ i < j
CsvBatch(c) ==
    LET rows == (c.cursor + 1)..CsvEnd(c)
    IN  CHOOSE batch \in [1..(CsvEnd(c) - c.cursor) -> rows] :
          /\ ToSet(batch) = rows
          /\ \A i, j \in DOMAIN batch : i < j => Sooner(CsvRecords[c.dataset], batch[i], batch[j])

-----------------------------------------------------------------------------
(* HistoricalMarketDataSource: position is the row that was read last, and *)
(* the first batch starts with the row that load has read already.         *)

LobsterClosed ==
    [dataset |-> NoDataset, position |-> 0, started |-> FALSE, eof |-> FALSE, running |-> FALSE]
LobsterLoaded(l) == l.dataset # NoDataset
LobsterRows(l) == Len(LobsterRecords[l.dataset])

ReadTo(l, row) ==
    [l EXCEPT !.position = row,
              !.eof = @ \/ row >= LobsterRows(l),
              !.running = @ /\ row < LobsterRows(l)]
LobsterOpened(d) == ReadTo([LobsterClosed EXCEPT !.dataset = d], 1)
LobsterEof(l) == l.eof /\ l.started

\* mutant: the row that load has read is not part of the first batch
KernelFirstSkipsLoaded(l) == l.position + 1
KernelFirst(l) == IF l.started THEN l.position + 1 ELSE l.position
KernelLast(l) == Least(LobsterRows(l), KernelFirst(l) + RowsPerTick - 1)
LobsterBatch(l) == [k \in 1..(KernelLast(l) - KernelFirst(l) + 1) |-> KernelFirst(l) + k - 1]
LobsterAfterBatch(l) == [ReadTo(l, KernelLast(l)) EXCEPT !.started = TRUE]

\* How the source plays on its own, without the arena's book.
LobsterStarted(l) == [l EXCEPT !.running = ~l.eof]
LobsterAdvanced(l) ==
    IF l.running /\ ~l.eof
    THEN ReadTo(l, Least(LobsterRows(l), l.position + RowsPerTick))
    ELSE l
=============================================================================
