CONSTANTS
    Workers = {w1, w2}
    Missing = missing
    MaxJobs = 2
    MaxRequests = 4
SPECIFICATION Spec
SYMMETRY MCSymmetry
INVARIANTS RowsInOrder StatusTellsBatch CompletionConfirmed OutcomeKeptAlone
CHECK_DEADLOCK FALSE
