SPECIFICATION Spec
CONSTANTS
    Entries = {e1, e2}
    Requests = {r1}
    Ops = {"join", "callNext", "serve", "arrived", "confirm", "pause", "resume", "terminate"}
    MaxGuests = 0
    Strict = FALSE
    Plan = "paid"
    LockMayExpire = FALSE
    CommandsMayFail = FALSE
    MaxLosses = 0
    MaxEvents = 1
    MaxTickets = 2
    MaxServed = 1
    NoRequest = NoRequest
    NoEntry = NoEntry
SYMMETRY Symmetry
INVARIANT TypeOK
INVARIANT NoGuestForgotten
INVARIANT TicketsUnique
CHECK_DEADLOCK FALSE
