SPECIFICATION Spec
CHECK_DEADLOCK FALSE
CONSTANTS
    None = None
    Torn = Torn
    Requests = {q1, q2}
    Total = 3
    Scenarios <- MCScenarios
    WeightSets <- MCWeights
    MaxWorkers = 2
    Sessions <- MCSessions
    Readings <- MCReadings
    Nobody = Nobody
    MaxKills = 1
SYMMETRY Symmetry
INVARIANTS FilesTellTheRuns MixExact ScoresAgree AlertsNeedEvidence
PROPERTIES CompletedAloneIsWhole
