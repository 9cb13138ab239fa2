\* The comment's own job and a second one, of the script or of an administrator; deaths are in PublicReply_live.
SPECIFICATION Spec
CONSTANTS
    c1 = c1  o1 = o1  r1 = r1
    w1 = w1  w2 = w2
    NoWorker = NoWorker  NoJob = NoJob
    Comments = {c1}
    Jobs = {o1, r1}
    RecoveryJobs = {r1}
    AdminJobs = {r1}
    CommentOf <- AllOfC1
    AttemptsOf <- OneAttempt
    Workers = {w1, w2}
    MaxTotalAttempts = 2
    MaxStalls = 0
    AttemptBound = 2
    MaxCrashes = 0
    Lapses = {"barred"}
    BatchSize = 1
    MayExpire = {}
    MaxAdmin = 1
INVARIANTS TypeOK OneClaim RepeatNeedsFault
CHECK_DEADLOCK FALSE
SYMMETRY Slots
