SPECIFICATION FairSpec
CONSTANTS
    u1 = u1
    u2 = u2
    d1 = d1
    d2 = d2
    t1 = t1
    t2 = t2
    Users = {u1, u2}
    Tasks = {t1}
    TaskOwner <- OneUsersTasks
    Daemons = {d1, d2}
    DaemonOwner <- UserEach
    Repos = {r}
    None = None
    MaxAttempts = 2
    LastPhase = 1
    MaxRuns = 1
    MaxClaims = 2
    MaxCheckIns = 1
    MaxCalls = 1
PROPERTIES
    ZombiesReclaimed
CHECK_DEADLOCK FALSE
