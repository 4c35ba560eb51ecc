SPECIFICATION Spec

CONSTANTS
    m1 = m1
    m2 = m2
    m3 = m3
    t1 = t1
    t2 = t2
    w1 = w1
    w2 = w2
    w3 = w3
    w4 = w4
    Members = {m1, m2, m3, m4}
    NoMember = NoMember
    Tins = {t1}
    TargetGroups = {}
    MaxTurn = 4
    Addresses = {w1, w2, w3}
    NoAddress = NoAddress
    Arrangers = {}
    Activators = {a1}
    Openers = {o1, o2}
    Checkers = {}
    Movers = {}
    Joiners = {m4}
    AddressSetters = {}
    MayCrash = FALSE
    InitTurn <- GapSeated
    InitPayout <- OwnWallets
    InitProven = {w1, w2, w3}
    InitGraced = {}

INVARIANTS
    AtMostOneOpenAtRest
    DuesComplete
PROPERTIES
    AntiSwap
