SPECIFICATION Spec

CONSTANTS
    m1 = m1
    m2 = m2
    m3 = m3
    t1 = t1
    t2 = t2
    w1 = w1
    w2 = w2
    w3 = w3
    w4 = w4
    Members = {m1, m2, m3}
    NoMember = NoMember
    Tins = {t1}
    TargetGroups = {}
    MaxTurn = 3
    Addresses = {w1, w2, w3, w4}
    NoAddress = NoAddress
    Arrangers = {}
    Activators = {a1}
    Openers = {o1}
    Checkers = {k1}
    Movers = {}
    Joiners = {}
    AddressSetters = {m1}
    MayCrash = TRUE
    InitTurn <- ThreeSeated
    InitPayout <- OwnWallets
    InitProven = {w1, w2, w3}
    InitGraced = {}

INVARIANTS
    TypeOK
    VerifiedBeforeOpen
PROPERTIES
    Refinement
