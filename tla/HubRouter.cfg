SPECIFICATION HubFairSpec
CONSTANTS
    key1 = key1
    r1 = r1  r2 = r2
    g1 = g1  g2 = g2  g3 = g3
    q1 = q1  q2 = q2
    p1 = p1
    IDs = {r1, r2}
    Sync = {r2}
    SyncGet <- OneSync
    Gets = {g1, g2, g3}
    GetID <- MixGets
    Puts = {q1, q2}
    PutID <- MixPuts
    NoPut = NoPut
    NoGet = NoGet
    Pulls = {p1}
    Keys = {key1}
    ReqKey <- OneKey
    PullKey <- OnePull
    AskedBatch <- AskThree
    MaxSize = 1
    MaxBatchSize = 2
INVARIANTS RefusedLeavesNoTrace SyncUnknownOnlyIfSwept SyncPendingUnresolved
PROPERTIES ImplementsBroker SubmissionsAnswered
CHECK_DEADLOCK FALSE
