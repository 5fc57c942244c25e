SPECIFICATION MCSpec
CONSTANTS
    Worker = {w1, w2}
    MaxId = 2
    MaxEvents = 1
    Message = {1, 2}
    Reader = {r1}
    MaxKeys = 7
    MaxTroubles = 1
    Device = {d1}
    MaxAnnounces = 2
    MaxErrors = 1
    MaxFetches = 2
    Saver = {s1, s2}
    MaxTouches = 4
INVARIANTS
    AppTypeOK
    ViewsAreTrue
 
CHECK_DEADLOCK FALSE
