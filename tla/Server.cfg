SPECIFICATION FairSpec
CONSTANTS
    poll1 = poll1  sync1 = sync1  pull1 = pull1  health1 = health1
    secret = secret
    Reqs = {poll1, sync1, pull1, health1}
    Route <- Routes
    AdminKey <- NoKeys
    NoKey = NoKey
    Asked <- AskedTimes
    Envs <- EdgeEnvs
    Unset = Unset
    MaxTime = 5
INVARIANTS PollsAreWritten CutOnlyAfterGrace OnlyUsedNumbersPanic
PROPERTIES SignalEnds
CHECK_DEADLOCK FALSE
