SPECIFICATION Spec
CONSTANTS
    r1 = r1  r2 = r2  r3 = r3  r4 = r4
    ipA = ipA  ipB = ipB
    Reqs = {r1, r2, r3, r4}
    IPs = {ipA, ipB}
    IPOf <- AddressOf
    ValidKey = {r3}
    Threshold = 2
    LockoutDuration = 2
    WindowDuration = 1
    Second = 2
    MaxTime = 5
    NoRecord = NoRecord
INVARIANTS LockedAreWatched LockEarned
PROPERTIES LockOutlivesNewcomers RetryAfterCovers
CHECK_DEADLOCK FALSE
