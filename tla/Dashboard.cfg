SPECIFICATION FairSpec
CONSTANTS
    k1 = k1  t1 = t1  t2 = t2  t3 = t3  t4 = t4  p1 = p1
    Keys = {k1}
    TickSlots = {t1, t2, t3, t4}
    PressSlots = {p1}
    NoStats = NoStats
    Interval = 1
    Timeout = 2
    HistoryLen = 1
    Served = 1
    MaxEnqueued = 1
    MaxRestarts = 1
    MaxFailures = 1
INVARIANTS TypeOK FetchesBounded RateSeenLive
CHECK_DEADLOCK FALSE
PROPERTIES CatchesUp
