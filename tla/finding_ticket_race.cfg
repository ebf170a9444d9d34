SPECIFICATION Spec
CONSTANTS
    Entries = {e1, e2}
    Requests = {r1, r2}
    Ops = {"join"}
    MaxGuests = 0
    Strict = FALSE
    Plan = "paid"
    LockMayExpire = FALSE
    CommandsMayFail = FALSE
    MaxLosses = 0
    MaxEvents = 4
    MaxTickets = 2
    MaxServed = 2
    NoRequest = NoRequest
    NoEntry = NoEntry
SYMMETRY Symmetry
INVARIANT TicketsUnique
CHECK_DEADLOCK FALSE
