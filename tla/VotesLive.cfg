SPECIFICATION FairSpec

CONSTANTS
    m1 = m1
    m2 = m2
    m3 = m3
    Members = {m1, m3}
    NoMember = NoMember
    InitLive = {m1}
    Candidates = {m3}
    MaxVotes = 2
    Choices = {"yes", "no"}
    OutsideVotes <- AdmitM3
    Requests = {r1}
    Passes = {p1}
    MaxCrashes = 1

PROPERTIES
    DueVotesAreDecided
    PassedIsAdmitted
CHECK_DEADLOCK FALSE
