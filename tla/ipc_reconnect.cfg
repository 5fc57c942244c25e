SPECIFICATION BridgeSpec
CONSTANTS
    NoClient = NoClient
    Task = {t1, t2}
    Client = {k1, k2, k3, k4}
    MaxAttempts = 2
    MaxCrashes = 0
INVARIANT UnreachableMeansDown
CHECK_DEADLOCK FALSE
