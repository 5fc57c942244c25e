SPECIFICATION Spec
CONSTANTS
    i1 = i1
    i2 = i2
    s1 = s1
    s2 = s2
    s3 = s3
    l1 = l1
    l2 = l2
    NoSession = NoSession
    NoLink = NoLink
    SessionId = {s1, s2, s3}
    Link = {l1, l2}
    Identity = {i1, i2}
    Authorized = {i1, i2}
    owner <- TwoClients
    peer <- OnePeer
    MaxPerIdentity = 2
    MaxTotal = 1
    RateLimit = 1
SYMMETRY TwoClientSymmetry
INVARIANTS TableInv TotalLimit LinkBinding StoppedIsEmpty
PROPERTIES LinkNeverReplaced ImplementsPool
CHECK_DEADLOCK FALSE
