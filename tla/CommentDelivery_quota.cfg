\* Two comments of one account race for the workspace's last DM, over a month's end.
CONSTANTS
    c1 = c1
    c2 = c2
    a1 = a1
    s1 = s1
    w1 = w1
    w2 = w2
    j1 = j1
    j2 = j2
    r1 = r1
    Comments = {c1, c2}
    Jobs = {j1, j2}
    WebhookJobs = {j1, j2}
    Workers = {w1, w2}
    Accounts = {a1}
    Workspaces = {s1}
    NoWorker = NoWorker
    NoJob = NoJob
    AccountOf <- OneAccount
    WorkspaceOf <- OneWorkspace
    CommentOf <- JobComment
    Categories = {"network", "permanent"}
    ReplyChoices = {FALSE}
    MonthlyLimit = 1
    BreakerThreshold = 1
    MaxAttempts = 1
    MaxStalls = 0
    MaxWebhooks = 1
    MaxQueueRetries = 0
    MaxMonth = 2
SPECIFICATION Spec
SYMMETRY SlotsAndComments
CHECK_DEADLOCK FALSE
INVARIANTS
    QuotaRespected
    NoSendWhilePaused
PROPERTIES
    ImplementsLedger
