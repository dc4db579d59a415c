SPECIFICATION Spec
CONSTANTS
    r1 = r1  r2 = r2  r3 = r3  r4 = r4
    ipA = ipA  ipB = ipB
    Reqs = {r1, r2, r3}
    IPs = {ipA}
    IPOf <- AddressOf
    ValidKey = {}
    Threshold = 2
    LockoutDuration = 2
    WindowDuration = 4
    Second = 1
    MaxTime = 4
    NoRecord = NoRecord
INVARIANTS ThresholdLocks
CHECK_DEADLOCK FALSE
