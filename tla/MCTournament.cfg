CONSTANTS
    Ids = {t1, t2}
    NoMode = none
    DedupLimit = 1
    Workers = {w1, w2}
    NoWorker = nobody
    NoId = noId
    Missing = missing
    Torn = torn
    MaxRefreshes = 2
    MaxFaults = 1
SPECIFICATION FairSpec
INVARIANT GaugeCountsInFlight
PROPERTIES LocalEnds KeepsTally
CHECK_DEADLOCK FALSE
