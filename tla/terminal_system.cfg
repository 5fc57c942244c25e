SPECIFICATION FairSpec
CONSTANTS
    i1 = i1
    s1 = s1
    s2 = s2
    l1 = l1
    l2 = l2
    NoSession = NoSession
    NoLink = NoLink
    SessionId = {s1}
    Link = {l1}
    Identity = {i1}
    Authorized = {i1}
    owner <- OneClient
    peer <- OnePeer
    line <- OwnLines
    MaxPerIdentity = 1
    MaxTotal = 1
    RateLimit = 1
    Lossy = TRUE
INVARIANTS ClientTypeOK ClientIsTrue
PROPERTIES ConnectEnds NothingLeftBehind LinkDownIsNoticed
CHECK_DEADLOCK FALSE
