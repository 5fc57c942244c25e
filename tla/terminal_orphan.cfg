SPECIFICATION Spec
CONSTANTS
    i1 = i1
    i2 = i2
    s1 = s1
    s2 = s2
    s3 = s3
    l1 = l1
    l2 = l2
    NoSession = NoSession
    NoLink = NoLink
    SessionId = {s1, s2}
    Link = {l1}
    Identity = {i1}
    Authorized = {i1}
    owner <- OneClient
    peer <- OnePeer
    MaxPerIdentity = 2
    MaxTotal = 2
    RateLimit = 2
INVARIANT NoOrphanedPty
CHECK_DEADLOCK FALSE
