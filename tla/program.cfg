SPECIFICATION MCSpec
CONSTANTS
    Disk = {k1, k2}
    Kind = {"x86", "sd", "nix"}
    MaxRuns = 2
    n1 = n1
    n2 = n2
    u1 = u1
    Node = {n1, n2}
    Page = {"index", "other"}
    Url = {u1}
    Offers <- MCOffers
    MaxAsks = 4
    r1 = r1
    Request = {r1, r2}
    Reader = {i1, i2}
    MaxEvents = 2
    MaxFaults = 1
    Timeouts = {0, 30}
    MaxOpens = 2
    MaxFrames = 3
    MaxClosers = 2
    Button = {"reboot", "remove"}
    MaxAnswers = 2
    MaxVisits = 1
    MaxTaps = 3
    a1 = a1
    a2 = a2
    AppOrder <- MCAppOrder
    Starter = {p1, p2}
    MaxKeys = 3
    MaxCommands = 3
    MaxEnsures = 2
    MaxDamages = 1
    Editor = {e1, e2}
    MaxChanges = 2
    MaxEdits = 2
    v1 = v1
    v2 = v2
    Stream = {v1, v2}
    File = {f1}
    MaxWritten = 2
    MaxTyped = 2
    Window = 1
    Opener = {o1, o2}
    Letter = {l1, l2}
    Known = {"d1", "d2", "d3"}
    IdentityOf <- MCIdentityOf
    MaxCrashes = 1
    g2 = g2
    Incoming = {g1, g2}
    Sending = {x1}
    Listener = {h1, h2}
    Owner = {"n1", "n2"}
    MaxRegistrations = 3
    MaxDatabaseErrors = 1
    MaxHeardOf = 2
    MaxEnds = 1
    m1 = m1
    Message = {m1, m2}
    Sender = {"p1", "p2"}
    StorageBudget = 1
    MaxDeletes = 1
    MaxEvictions = 1
    MaxDiskErrors = 1
    MaxDeaths = 1
    Ranked <- MCRanked
    TypeOf <- MCTypeOf
    WhoseIs <- MCWhoseIs
    WithPages = {"sb"}
    Matching = {"sa", "la"}
    MaxPosts = 3
    MaxActs = 5
    MaxNews = 1
INVARIANTS ProgramTypeOK  ScreenIsTrue NothingLeftRunning CarriedOutOnce
CHECK_DEADLOCK FALSE
