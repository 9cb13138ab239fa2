\* Two editors' requests, two accounts that come and go, plans for one automation.
SPECIFICATION Spec
CONSTANTS
    a1 = a1  a2 = a2
    s1 = s1  s2 = s2
    x1 = x1  x2 = x2
    r1 = r1  r2 = r2
    NoWorkspace = NoWorkspace
    NoAutomation = NoAutomation
    Accounts = {a1, a2}
    Workspaces = {s1, s2}
    Automations = {x1, x2}
    AccountOf <- OneEach
    Limit <- ForOne
    Requests = {r1, r2}
    MaxRequests = 3
    MaxMoves = 2
INVARIANTS TypeOK WithinPlan PilotHasNoReply
PROPERTY PauseIsUndoneByEditors
SYMMETRY Interchangeable
CHECK_DEADLOCK FALSE
