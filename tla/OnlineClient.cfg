SPECIFICATION FairSpec
CONSTANTS
    c1 = c1
    Calls = {c1}
    Methods <- AllMethods
    MaxRetries = 2
    MaxWaits = 2
    Lossy = TRUE
INVARIANTS UnknownMeansLost ExhaustedMeansNotYet
PROPERTIES EveryCallReturns
CHECK_DEADLOCK FALSE
