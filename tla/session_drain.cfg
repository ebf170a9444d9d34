SPECIFICATION Spec
CONSTANTS
    Entries = {e1}
    Requests = {r1, r2}
    Ops = {"join", "callNext", "arrived", "terminate", "resume", "expire"}
    MaxGuests = 0
    Strict = FALSE
    Plan = "paid"
    LockMayExpire = FALSE
    CommandsMayFail = FALSE
    MaxLosses = 0
    MaxEvents = 1
    MaxTickets = 1
    MaxServed = 1
    NoRequest = NoRequest
    NoEntry = NoEntry
PROPERTY EndedQueueDrained
CHECK_DEADLOCK FALSE
