SPECIFICATION Spec
CONSTANTS
    Entries = {e1, e2, e3}
    Requests = {r1, r2}
    Ops = {"join", "addEntry", "status", "callNext", "callEntry"}
    MaxGuests = 1
    Strict = FALSE
    Plan = "paid"
    LockMayExpire = TRUE
    CommandsMayFail = FALSE
    MaxLosses = 0
    MaxEvents = 0
    MaxTickets = 2
    MaxServed = 2
    NoRequest = NoRequest
    NoEntry = NoEntry
SYMMETRY Symmetry
INVARIANT CapacityOvershootBounded
PROPERTY LockTakenOnlyByOwner
CHECK_DEADLOCK FALSE
