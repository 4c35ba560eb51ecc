SPECIFICATION Spec

CONSTANTS
    m1 = m1
    m2 = m2
    m3 = m3
    Members = {m1, m2, m3}
    NoMember = NoMember
    InitLive = {m1, m2}
    Candidates = {m3}
    MaxVotes = 2
    Choices = {"yes", "no"}
    OutsideVotes <- ExpelM2
    Requests = {r1}
    Passes = {p1, p2}
    MaxCrashes = 0

INVARIANTS
    TypeOK
    InByTheGroupOnly
PROPERTIES
    DecidedOnce
CHECK_DEADLOCK FALSE
SYMMETRY PassSymmetry
