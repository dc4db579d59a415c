SPECIFICATION Spec
CONSTANTS
    k0 = k0  k1 = k1
    r1 = r1  r2 = r2  r3 = r3
    p1 = p1  p2 = p2
    Keys = {k0, k1}
    DefaultKey = k0
    NoKey = NoKey
    Reqs = {r1, r2, r3}
    Pulls = {p1, p2}
    ReqKey <- ReqKeys
    PullKey <- PullKeys
    BatchSize <- BatchSizes
    MaxSize = 2
    DefaultQueue = DefaultQueue
    NoQueue = NoQueue
INVARIANTS NoStrandedRequest CountersAddUp
PROPERTIES ImplementsFifoQueues
SYMMETRY ReqSymmetry
CHECK_DEADLOCK FALSE
