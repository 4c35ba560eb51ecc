\* Two messages, a rule, one request of the operator between polls, a failure and
\* a renumbering.
SPECIFICATION FairSpec
CONSTANTS
    a1 = a1
    a2 = a2
    a3 = a3
    s1 = s1
    p1 = p1
    p2 = p2
    Arriving = {a1, a2}
    Outgoing = {}
    SelfCopied = {}
    FolderOrder <- Two
    Filed = {}
    Ancestors <- Nobody
    RuleTargets = {"INBOX.Trash"}
    None = None
    Pollers = {p1}
    Operators = {o1}
    MaxPerPoll = 1
    MaxRequests = 1
    MaxFailures = 1
    MaxResets = 1
    Overlap = FALSE
PROPERTIES
    MailIsFiled
CHECK_DEADLOCK FALSE
