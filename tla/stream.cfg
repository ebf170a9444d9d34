SPECIFICATION FairSpec
CONSTANTS
    Clients = {c1}
    Handlers = {h1}
    Scenarios = {
        {"line", "sweep", "drop"}, {"line", "read"}, {"timer", "sweep", "read"},
        {"timer", "sweep", "fail"}, {"line", "other"}, {"settings", "read"},
        {"recall", "fail"}, {"next"}, {"status", "stop", "leave"}}
    JobCap = 1
    FifoCap = 1
    PoolCap = 1
    Workers = 1
    WireCap = 1
    MaxLine = 3
    MaxTurns = 2
INVARIANTS
    TypeOK
    NoSendOnClosed
    NoLostWakeup
    SettledShows
PROPERTIES
    EventsInOrder
    StreamIsMailbox
    ClientCatchesUp
CHECK_DEADLOCK FALSE
