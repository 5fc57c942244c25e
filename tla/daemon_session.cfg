SPECIFICATION FairSpec
CONSTANTS
    NoDaemon = NoDaemon
    Daemon = {d1, d2}
    RestartStages = {"running", "offline"}
    MaxRestarts = 2
    MaxFailures = 1
INVARIANTS TypeOK 
PROPERTIES HealthNotices OperationEnds
CHECK_DEADLOCK FALSE
