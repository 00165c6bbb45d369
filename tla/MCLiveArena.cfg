CONSTANTS
    CsvRecords <- MCCsvRecords
    LobsterRecords <- MCLobsterRecords
    RowsPerTick = 2
    NoDataset = none
    Families = {"spoofing_like_wall"}
    Detectors = {d1}
    NoScenario = none
    JournalMayFail = TRUE
    MaxTick = 4
    MaxLaunches = 2
    ComparisonTicks = 2
SPECIFICATION FairSpec
INVARIANTS RecordsAppliedOnce ControlRunsClean
    IncidentsTellScenariosApart
PROPERTY ReplayEnds
