SPECIFICATION LocalFairSpec
CONSTANTS
    r1 = r1  r2 = r2  r3 = r3  r4 = r4
    Reqs = {r1, r2, r3, r4}
    Workers = 2
    BatchSize = 3
    CallsFail = TRUE
INVARIANTS NothingLeftBehind
PROPERTIES ImplementsPool StopsEventually QueuedAreProcessed
CHECK_DEADLOCK FALSE
