SPECIFICATION FairSpec
CONSTANTS
    r1 = r1  r2 = r2  r3 = r3
    Reqs = {r1, r2, r3}
    Workers = 1
    BatchSize = 2
    Lossy = TRUE
PROPERTIES NodeStops PythonProcesses QueuedAreServed NodeImplementsPool PythonImplementsPool
CHECK_DEADLOCK FALSE
