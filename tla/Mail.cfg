\* The mailbox: polls, organizing, filing and sending take turns, at most one
\* failure.  The composer: two letters, two copies, one failure.  The desk: a
\* late load, a poll and another panel under one organize request.  The scan:
\* two polls over two days, one live check each.  One address under two failing
\* requests.  Two presses of "Check now" and a cron run, one restart.
SPECIFICATION Spec
CONSTANTS
    a1 = a1
    s1 = s1
    m1 = m1
    m2 = m2
    m3 = m3
    ann = ann
    ben = ben
    aa = aa
    bb = bb
    None = None
    MaxFailures = 1
    Arriving = {a1}
    Outgoing = {s1}
    SelfCopied = {s1}
    FolderOrder <- Four
    Filed = {"INBOX.Nairobi"}
    Ancestors <- ReplyToSent
    RuleTargets = {"INBOX.Trash"}
    Pollers = {p1}
    Operators = {o1}
    MaxPerPoll = 1
    MaxRequests = 1
    MaxResets = 0
    Overlap = FALSE
    Letters = {l1, l2}
    Drafts = {d1, d2}
    MaxCopies = 2
    Filable = {m1, m2}
    Sender <- TwoSenders
    Start <- BothInbox
    Tabs = {Inbox, TrashBox}
    InboxTab = Inbox
    TrashTab = TrashBox
    Gone = Gone
    MaxLoads = 2
    MaxActs = 1
    MaxPolls = 1
    MaxElsewhere = 1
    Scannable = {m1, m2, m3}
    Addresses = {aa, bb}
    Text <- Texts
    Links <- LinksIn
    Ours = {m3}
    Primary = {aa}
    OnFile <- Unproven
    ListsReady = TRUE
    PerMessage = 2
    Budget = 1
    TTL <- Days
    MaxDay = 2
    MaxRuns = 2
    Chains = {"evm", "sui", "solana", "bitcoin", "tron", "xrp"}
    Keys = {"etherscan", "alchemy", "chainabuse"}
    Reports <- Findings
    MaxTokens = 2
    MaxErrors = 2
    don = don
    afr = afr
    Slots <- TwoBoxes
    Identity <- TwoAdmins
    NoName = NoName
    Presses = {p1, p2}
    CronRuns = {c1}
    Asks = {q1}
    COOLDOWN = 2
    MaxTime = 4
    MaxRestarts = 1
INVARIANTS
    MailboxCopied
    DraftKept
    RuleFromAMove
    VerdictsHold
    HeldButton
PROPERTY DestroyOnlyFromTrash
CONSTRAINT SomeLetterUnhurried
CHECK_DEADLOCK FALSE
