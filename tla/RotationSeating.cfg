SPECIFICATION Spec

CONSTANTS
    m1 = m1
    m2 = m2
    m3 = m3
    t1 = t1
    t2 = t2
    w1 = w1
    w2 = w2
    w3 = w3
    w4 = w4
    Members = {m1, m2, m3}
    NoMember = NoMember
    Tins = {t1, t2}
    TargetGroups = {t2}
    MaxTurn = 4
    Addresses = {w1, w2, w3}
    NoAddress = NoAddress
    Arrangers = {g1}
    Activators = {a1, a2}
    Openers = {}
    Checkers = {}
    Movers = {m1, m2}
    Joiners = {m3}
    AddressSetters = {}
    MayCrash = TRUE
    InitTurn <- ThreeSeated
    InitPayout <- OwnWallets
    InitProven = {w1, w2, w3}
    InitGraced = {}

INVARIANTS
    OnePayoutPerMember
PROPERTIES
    EveryTurnGetsARound
CHECK_DEADLOCK FALSE
SYMMETRY RequestSymmetry
