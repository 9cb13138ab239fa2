\* One slot: crashes, stalled jobs, repeated webhooks, queue retries; every job is finished with.
CONSTANTS
    c1 = c1
    c2 = c2
    a1 = a1
    s1 = s1
    w1 = w1
    w2 = w2
    j1 = j1
    j2 = j2
    r1 = r1
    Comments = {c1}
    Jobs = {j1}
    WebhookJobs = {j1}
    Workers = {w1}
    Accounts = {a1}
    Workspaces = {s1}
    NoWorker = NoWorker
    NoJob = NoJob
    AccountOf <- OneAccount
    WorkspaceOf <- OneWorkspace
    CommentOf <- JobComment
    Categories = {"network", "auth", "permanent"}
    ReplyChoices = {TRUE, FALSE}
    MonthlyLimit = 2
    BreakerThreshold = 2
    MaxAttempts = 2
    MaxStalls = 1
    MaxWebhooks = 2
    MaxQueueRetries = 1
    MaxMonth = 1
SPECIFICATION FairSpec
CHECK_DEADLOCK FALSE
INVARIANTS
    TypeOK
    ProcessingIsOwned
PROPERTIES
    JobsFinish
    ProcessingEnds
