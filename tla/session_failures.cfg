SPECIFICATION Spec
CONSTANTS
    Entries = {e1}
    Requests = {r1}
    Ops = {"join", "status", "callNext", "serve", "arrived", "terminate", "expire"}
    MaxGuests = 0
    Strict = FALSE
    Plan = "anonymous"
    LockMayExpire = FALSE
    CommandsMayFail = TRUE
    MaxLosses = 1
    MaxEvents = 1
    MaxTickets = 2
    MaxServed = 1
    NoRequest = NoRequest
    NoEntry = NoEntry
SYMMETRY Symmetry
INVARIANT NoUnknownInLine
CHECK_DEADLOCK FALSE
