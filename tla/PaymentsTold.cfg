SPECIFICATION FairSpec

CONSTANTS
    m1 = m1
    m2 = m2
    m3 = m3
    w1 = w1
    w2 = w2
    w3 = w3
    w4 = w4
    A = A
    NoWallet = NoWallet
    Members = {m1, m3}
    EventKeys <- Contributions
    Callers = {p1, k1}
    Tolerant = {p1, k1}
    Batches = {}
    PrefRequests = {q1}
    Savers = {m1}
    Switches = {"reminders"}
    MailServers = {TRUE, FALSE}
    MaxFailures = 1
    InitPref <- AllOptedIn
    MaxRound = 1
    Circle <- OneCircle
    Recipient <- ToM3
    Wallets = {w1, w3}
    InitWallet <- OwnWallets
    Movers = {}
    MaxTransfers = 1
    MaxLookups = 2
    Observers = {p1}
    Reminders = {k1}

INVARIANTS
    SentMeansSent

PROPERTIES
    TransfersAreSeen
    PaidIsConfirmed
CHECK_DEADLOCK FALSE
