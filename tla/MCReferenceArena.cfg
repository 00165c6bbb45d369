CONSTANTS
    Agents = {mm}
    Families = {spoofing}
    Detectors <- MCDetectors
    StageAt <- MCStageAt
    None = none
    MaxTick = 2
    MaxResets = 1
    MaxScenarios = 2
    MaxWaiting = 1
    MaxFaults = 1
SPECIFICATION Spec
INVARIANTS PublishedWhole OneLateTick StreamFileComplete ScenarioRowsOnce
CHECK_DEADLOCK FALSE
