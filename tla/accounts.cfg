SPECIFICATION FairSpec
CONSTANTS
    Hosts = {h1, h2, h3}
    Idents = {i1, i2}
    Links = {l1, l2}
    Tokens = {t1, t2, t3, t4}
    Entries = {e1, e2}
    Slots = {s1, s2}
    NoHost = NoHost
    Deleted = Deleted
    NoIdent = NoIdent
    NoLink = NoLink
    NoToken = NoToken
    NoEntry = NoEntry
    NoSlot = NoSlot
    MailCap = 1
    MaxRetries = 1
    Scenarios = {
        {"askLink", "verify", "bounce"}, {"verify", "social", "crash"},
        {"verify", "social", "fail"}, {"refresh", "logout", "fail", "crash"},
        {"refresh", "verify", "expire"}, {"slug", "deleteMe", "fail"},
        {"claim", "deleteMe", "crash"}, {"claim", "anon", "expire", "fail"},
        {"claim", "anon", "deleteMe"}, {"join", "update", "crash", "presence"},
        {"join", "lapse", "presence"}, {"join", "update", "fail"},
        {"join", "recover", "recoveryToken", "expire"}, {"join", "recover", "presence"},
        {"join", "bounce"},
        {"join", "addEntry", "presence", "lapse"}, {"join", "addEntry", "update"}}
    MaxTurns = 3
INVARIANTS
    TypeOK
    SessionsSound
    ClaimSound
    HeldOnce
    RecoverySound
PROPERTIES
    LettersSettle
CHECK_DEADLOCK FALSE
