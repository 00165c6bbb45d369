CONSTANTS
    Depth = 2
    SessionEnd = 4
    Dummy = 9999
    Half = Half
    Gone = Gone
    NoRequest = NoRequest
    Candidates = {c1, c2}
    Requests = {r1, r2}
    Windows <- MCWindows
    Recorded <- MCRecorded
    Altered <- MCAltered
    MaxDeliveries = 2
    MaxFaults = 1
SPECIFICATION Spec
INVARIANTS DatasetsAreWhole GenuineIsAccepted ImportingHasTask
PROPERTY ImportsEnd
CHECK_DEADLOCK FALSE
