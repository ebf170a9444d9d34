SPECIFICATION FairSpec
CONSTANTS
    Plans = {p1}
    Free = Free
    NoPlan = NoPlan
    Slots = {s1, s2}
    Ops = {"plan", "subscription", "cancel", "checkout", "trial"}
    MaxWebhooks = 3
    MaxTurns = 2
INVARIANTS
    TypeOK
    BilledOnce
    SettledAgrees
    RemindedOnce
PROPERTIES
    WebhooksAnswered
    CacheConverges
CHECK_DEADLOCK FALSE
