SPECIFICATION MCSpec
CONSTANTS
    Hub = h
    Destination = {h, d1, d2}
    MIN_PATH_REQUEST_INTERVAL = 2
    MAX_PATH_REQUESTS_PER_WINDOW = 2
    PATH_REQUEST_WINDOW = 3
    PATH_CHECK_INTERVAL = 1
    AnnounceInterval = 2
    MaxNow = 6
    Interface = {if1, if2}
    MaxInits = 2
    MaxFlaps = 4
    Peer <- MCPeer
    Configured <- MCConfigured
    Matches <- MCMatches
    Identity = {i1, i2}
    Admitted = {i1}
    HubPeer = i1
    AnnounceThread = {t1, t2}
    MaxHeard = 2
    MaxStarts = 1
    Member = {"m1", "m2"}
    Prefix = {"q1"}
    Covers <- MCCovers
    Line <- MCLine
    Asked = {"web.read", "vpn.handshake"}
    MaxPolicyChanges = 3
    NoCall = NoCall
    c1 = c1
    c2 = c2
    Calls = {c1, c2}
    MaxAnswers = 2
INVARIANTS
    NodeTypeOK
     ReportsAreTrue ShutdownIsComplete 
    NoStalePending OutcomeAgrees
PROPERTIES SettledOnce NothingWaits
CHECK_DEADLOCK FALSE
