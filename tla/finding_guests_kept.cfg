SPECIFICATION FairSpec
CONSTANTS
    Entries = {e1}
    Requests = {r1}
    Ops = {"join", "expire"}
    MaxGuests = 0
    Strict = FALSE
    Plan = "anonymous"
    LockMayExpire = FALSE
    CommandsMayFail = FALSE
    MaxLosses = 0
    MaxEvents = 1
    MaxTickets = 1
    MaxServed = 1
    NoRequest = NoRequest
    NoEntry = NoEntry
PROPERTY AnonymousErased
CHECK_DEADLOCK FALSE
