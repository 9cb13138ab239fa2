\* Two workspaces and one account; the refresh dies once.
SPECIFICATION FairSpec
CONSTANTS
    a1 = a1  a2 = a2  wsA = wsA  wsB = wsB
    k1 = k1  k2 = k2
    NoAccount = NoAccount  NoWorkspace = NoWorkspace
    Accounts = {a1}
    Workspaces = {wsA, wsB}
    Limit <- OneEach
    Callbacks = {k1}
    MaxRows = 2
    MaxTokens = 2
    MaxPending = 1
    MaxRefreshFaults = 1
    Commented = {a1}
    MayMute = {wsA}
PROPERTY DeadTokenIsNoticed ReauthIsOnRecord
CHECK_DEADLOCK FALSE
INVARIANTS OneLiveConnection ReauthIsDeserved
