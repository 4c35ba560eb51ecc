SPECIFICATION Spec

CONSTANTS
    m1 = m1
    m2 = m2
    m3 = m3
    w1 = w1
    w2 = w2
    w3 = w3
    w4 = w4
    A = A
    NoWallet = NoWallet
    Members = {m1, m3}
    EventKeys <- Contributions
    Callers = {p1}
    Tolerant = {p1}
    Batches = {}
    PrefRequests = {}
    Savers = {}
    Switches = {"reminders"}
    MailServers = {TRUE}
    MaxFailures = 0
    InitPref <- NoneOptedIn
    MaxRound = 1
    Circle <- OneCircle
    Recipient <- ToM3
    Wallets = {w1, w3}
    InitWallet <- OwnWallets
    Movers = {}
    MaxTransfers = 1
    MaxLookups = 2
    Observers = {p1}
    Reminders = {}

INVARIANTS
    CountsFromTheOpening
CHECK_DEADLOCK FALSE
