\* Two callbacks and two accounts of a workspace whose plan allows one.
SPECIFICATION Spec
CONSTANTS
    a1 = a1  a2 = a2  wsA = wsA  wsB = wsB
    k1 = k1  k2 = k2
    NoAccount = NoAccount  NoWorkspace = NoWorkspace
    Accounts = {a1, a2}
    Workspaces = {wsA}
    Limit <- OneEach
    Callbacks = {k1, k2}
    MaxRows = 2
    MaxTokens = 2
    MaxPending = 1
    MaxRefreshFaults = 0
    Commented = {}
    MayMute = {}
INVARIANTS TypeOK WithinPlan
CHECK_DEADLOCK FALSE
SYMMETRY Alike
