SPECIFICATION FairSpec
CONSTANTS
    Queues = {q1, q2}
    Codes = {c1, c2, c3}
    Slots = {s1, s2}
    NoQueue = NoQueue
    LostQueue = LostQueue
    NoCode = NoCode
    NoSlot = NoSlot
    NoCache = NoCache
    Limit = 1
    MaxCollisions = 2
    Scenarios = {
        {"create", "lapse", "fail"}, {"create", "lapse", "end"}, {"create", "delete", "reset"},
        {"create", "end", "reopen", "crash"}, {"create", "overdue", "sweep", "reopen"},
        {"delete", "join", "fail"}, {"deleteBulk", "join", "crash"},
        {"clear", "join", "create", "crash"},
        {"list", "detail", "delete", "fail"}, {"list", "dashboard", "end", "deleteBulk"},
        {"detail", "overdue", "ttl", "sweep"}}
    MaxTurns = 3
INVARIANTS
    TypeOK
    OneLiveQueue
    CountAgrees
    QuotaHeld
    NoOrphans
    CachesAgree
PROPERTIES
    DeletedDisappears
CHECK_DEADLOCK FALSE
