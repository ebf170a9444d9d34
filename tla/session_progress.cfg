SPECIFICATION FairSpec
CONSTANTS
    Entries = {e1, e2}
    Requests = {r1}
    Ops = {"join", "callNext", "callEntry", "pause", "expire"}
    MaxGuests = 0
    Strict = FALSE
    Plan = "paid"
    LockMayExpire = FALSE
    CommandsMayFail = FALSE
    MaxLosses = 0
    MaxEvents = 2
    MaxTickets = 2
    MaxServed = 2
    NoRequest = NoRequest
    NoEntry = NoEntry
PROPERTY CalledGuestMovesOn
PROPERTY IdleGuestMovesOn
PROPERTY ExpiredQueueCloses
CHECK_DEADLOCK FALSE
