CONSTANTS
    CsvRecords <- MCLongCsvRecords
    LobsterRecords <- MCLongLobsterRecords
    RowsPerTick = 1
    NoDataset = none
    Families = {"spoofing_like_wall", "layering_like", "quote_stuffing", "liquidity_evaporation"}
    Detectors = {}
    NoScenario = none
    JournalMayFail = FALSE
    MaxTick = 6
    MaxLaunches = 2
    ComparisonTicks = 7
SPECIFICATION Spec
INVARIANT ActiveScenarioCleansUp
