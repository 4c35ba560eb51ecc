SPECIFICATION Spec

CONSTANTS
    m1 = m1
    m2 = m2
    m3 = m3
    w1 = w1
    w2 = w2
    w3 = w3
    w4 = w4
    A = A
    NoWallet = NoWallet
    Members = {m1, m2, m3}
    EventKeys <- Contributions
    Callers = {p1, p2}
    Tolerant = {p1, p2}
    Batches = {}
    PrefRequests = {}
    Savers = {}
    Switches = {"reminders"}
    MailServers = {TRUE}
    MaxFailures = 0
    InitPref <- M1OptedIn
    MaxRound = 1
    Circle <- OneCircle
    Recipient <- ToM3
    Wallets = {w1, w2, w3, w4}
    InitWallet <- OwnWallets
    Movers = {m3}
    MaxTransfers = 2
    MaxLookups = 1
    Observers = {p1, p2}
    Reminders = {}

INVARIANTS
    TypeOK
    BackedByATransfer
    EmailOncePerEvent

PROPERTIES
    MarkedOnce
CHECK_DEADLOCK FALSE
SYMMETRY RunSymmetry
