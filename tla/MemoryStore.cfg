SPECIFICATION FairSpec
CONSTANTS
    i1 = i1
    g1 = g1  g2 = g2  g3 = g3
    p1 = p1  p2 = p2
    IDs = {i1}
    Gets = {g1, g2, g3}
    Puts = {p1, p2}
    GetID <- OneIDGets
    PutID <- OneIDPuts
    NoPut = NoPut
    NoGet = NoGet
INVARIANTS NoLostResult DeliveredAtMostTwice NoStrandedWaiter
PROPERTIES EveryWaiterWakes
CHECK_DEADLOCK FALSE
