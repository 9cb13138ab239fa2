\* The worker or the script dies once; the timer keeps starting the script.
SPECIFICATION FairSpec
CONSTANTS
    c1 = c1  o1 = o1  r1 = r1
    w1 = w1  w2 = w2
    NoWorker = NoWorker  NoJob = NoJob
    Comments = {c1}
    Jobs = {o1, r1}
    RecoveryJobs = {r1}
    AdminJobs = {}
    CommentOf <- AllOfC1
    AttemptsOf <- OneForRecovery
    Workers = {w1}
    MaxTotalAttempts = 2
    MaxStalls = 0
    AttemptBound = 2
    MaxCrashes = 1
    Lapses = {"disconnected"}
    BatchSize = 1
    MayExpire = {c1}
    MaxAdmin = 0
PROPERTY ReplyIsSettled
CHECK_DEADLOCK FALSE
