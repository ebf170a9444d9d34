SPECIFICATION Spec
CONSTANTS
    Entries = {e1, e2}
    Requests = {r1, r2}
    Ops = {"join", "callNext", "leave", "arrived"}
    MaxGuests = 0
    Strict = TRUE
    Plan = "paid"
    LockMayExpire = FALSE
    CommandsMayFail = FALSE
    MaxLosses = 0
    MaxEvents = 1
    MaxTickets = 2
    MaxServed = 1
    NoRequest = NoRequest
    NoEntry = NoEntry
SYMMETRY Symmetry
INVARIANT CallNextExclusive
INVARIANT StrictOneCalled
CHECK_DEADLOCK FALSE
