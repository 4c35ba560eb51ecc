\* People: two people and two sign-ins (also two of one person), two links (two
\* invitations, two claims of one seat, or one of each); or one, and an account
\* deleted.
\* Cards: three women, three days, two transfers, one departure.  Pool: three
\* members of whom two are scanned, one pass, a wallet changed.  Support: a drawer
\* open twice, two days.  Board: two organizers, a woman, two tins.  Doorway: two
\* tabs, one change of what she is.  Panel: a preference, a notice, two taps.
\* Logins: three identities of two people, a sign-up, a deletion.  Two demo starts,
\* two seed scripts, four requests over two connections, three migration runs.
SPECIFICATION Spec
CONSTANTS
    ama = ama
    efua = efua
    yaa = yaa
    None = None
    MaxFailures = 1
    Users = {ama, efua}
    SignIns = {i1, i2}
    Visits = {v1, v2}
    Links = {l1, l2}
    Seeds = {s1}
    BOOTSTRAP_OWNERS = 2
    MaxErasures = 1
    MaxBegun = 2
    CardWomen = {ama, efua, yaa}
    SaverTurn <- ThreeTurns
    NoSaver = NoSaver
    Cadence = 1
    Grace = 1
    Lead = 1
    MaxDay = 3
    MaxTransfers = 2
    MaxLeaves = 1
    aa = aa
    bb = bb
    cc = cc
    Watched = {ama, efua, yaa}
    Wallets = {aa, bb, cc, dd}
    FirstWallet <- ThreeWallets
    Order <- ByName
    OtherPools = {xx}
    Passes = {p1}
    Threshold = 2
    Scanned = 2
    MaxChanges = 1
    Writers = {ama, efua}
    Windows <- TwoDrawers
    RATE_LIMIT_COUNT = 1
    MaxSupportDay = 2
    MaxMessages = 2
    A = A
    m1 = m1
    Dragged = {m1}
    Tins = {A, B}
    Placed <- OneInA
    Founded = {A}
    Boards = {b1, b2}
    Needed = 0
    MaxLoads = 2
    MaxDrops = 2
    MaxVotes = 1
    MaxCrashes = 1
    t1 = t1
    t2 = t2
    Tenants = {g}
    Tabs = {t1, t2}
    Typed <- AnyPage
    MaxLostTabs = 1
    k1 = k1
    Keys = {k1}
    DEFAULTS <- OnByDefault
    PanelAddresses = {aa}
    Requests = {q1, q2}
    LIMIT = 1
    MaxNotices = 1
    MaxTaps = 2
    g1 = g1
    h1 = h1
    h2 = h2
    People = {ama, efua}
    Identities = {g1, h1, h2}
    OwnerOf <- TheirOwn
    Shows = {g1}
    Logins = {u1, u2, u3}
    Callbacks = {c1, c2}
    Signups = {s1}
    MaxStarts = 2
    MaxErased = 1
    MaxDemoStarts = 2
    Schemas <- WithAndWithoutCache
    MaxCleanups = 0
    MaxRuns = 2
    r1 = r1
    r2 = r2
    r3 = r3
    r4 = r4
    ga = ga
    gb = gb
    Sent = {r1, r2, r3, r4}
    RequestTenant <- FourRequests
    Statements <- OnesAndTwos
    SchemaDDL = {r4}
    WebPool = {w1}
    OwnerPool = {o1}
    MaxLost = 2
    d1 = d1
    d2 = d2
    d3 = d3
    f1 = f1
    f2 = f2
    f3 = f3
    f4 = f4
    Runners = {d1, d2, d3}
    Files <- FourFiles
    LEGACY = {f1}
    Marks <- OneMarks
INVARIANTS
    RightProgramme
    OneVerdict
    ReportsMatchTheChain
    RepliesWhereWritten
    NobodyDropsOut
    NoWrongDoor
    PanelAgrees
    OnePersonOneUser
    SeededIsWhole
    TenantsApart
    LandsWholeInOrder
PROPERTIES
    SeatClaimedOnce
    JudgedForGood
CHECK_DEADLOCK FALSE
