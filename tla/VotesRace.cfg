SPECIFICATION Spec

CONSTANTS
    m1 = m1
    m2 = m2
    m3 = m3
    Members = {m1, m3}
    NoMember = NoMember
    InitLive = {m1}
    Candidates = {m3}
    MaxVotes = 1
    Choices = {"yes", "no"}
    OutsideVotes = {}
    Requests = {r1}
    Passes = {p1}
    MaxCrashes = 0

INVARIANTS
    NoEntryOnAFailedVote
CHECK_DEADLOCK FALSE
