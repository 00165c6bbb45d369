CONSTANTS
    asker = asker
    None = None
    EndpointMode = "local_vllm"
    MaxUserPromptChars = 100
    Assessments <- MCAssessments
    Callers = {asker}
    CallsOf <- MCCallsOf
    OutcomesOf <- MCOutcomesOf
    Configured = {"explain", "red_team", "alert", "report", "market_abuse", "team"}
    MaxErrors = 3
    Records <- MCRecords
    S3Enabled = TRUE
    MaxSyncs = 2
    MaxArchiveFaults = 2
SPECIFICATION Spec
INVARIANTS HonestProvenance SameTruthEverywhere RegisteredOnce
PROPERTY CallsEnd
CHECK_DEADLOCK FALSE
