\* A delayed retry and an admin retry of one comment run at the same time.
CONSTANTS
    c1 = c1
    c2 = c2
    a1 = a1
    s1 = s1
    w1 = w1
    w2 = w2
    j1 = j1
    j2 = j2
    r1 = r1
    Comments = {c1}
    Jobs = {j1, r1}
    WebhookJobs = {j1}
    Workers = {w1, w2}
    Accounts = {a1}
    Workspaces = {s1}
    NoWorker = NoWorker
    NoJob = NoJob
    AccountOf <- OneAccount
    WorkspaceOf <- OneWorkspace
    CommentOf <- JobComment
    Categories = {"network"}
    ReplyChoices = {FALSE}
    MonthlyLimit = 2
    BreakerThreshold = 1
    MaxAttempts = 2
    MaxStalls = 0
    MaxWebhooks = 1
    MaxQueueRetries = 0
    MaxMonth = 1
SPECIFICATION Spec
SYMMETRY Slots
CHECK_DEADLOCK FALSE
INVARIANTS
    RepeatNeedsFault
PROPERTIES
    SettledStaysSettled
