SPECIFICATION Spec
CONSTANTS
    r1 = r1  r2 = r2  r3 = r3
    ipA = ipA  ipB = ipB
    Reqs = {r1, r2, r3}
    IPs = {ipA, ipB}
    NoIP = NoIP
    Header <- ThreeWays
    Cost = 3
    Rate = 1
    Burst = 4
    Second = 2
    CleanupAfter = 4
    MaxTime = 6
    NoBucket = NoBucket
INVARIANTS BucketBound AddressBound
PROPERTIES RefusedOnlyWhenSpent RetryAfterSuffices
CHECK_DEADLOCK FALSE
