SPECIFICATION MCSpec
CONSTANTS
    NoClient = NoClient
    t1 = t1
    t2 = t2
    Task = {t1, t2}
    Client = {k1, k2, k3, k4}
    MaxAttempts = 2
    MaxCrashes = 1
    Correspondent = {m1, m2}
    Nobody = Nobody
    Job = {j1, j2, j3}
    MaxPresses = 3
    MaxLetters = 1
    MaxRefusals = 1
    Friend = {f1}
    Writer = {w1, w2}
    MaxWrites = 2
    MaxMishaps = 1
INVARIANTS CallersTypeOK BridgeIsTrue 
PROPERTIES BridgeCallEnds
CHECK_DEADLOCK FALSE
