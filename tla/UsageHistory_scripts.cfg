\* Two comments over a month of three days and a day of the next; a day of history, two workspaces.
SPECIFICATION Spec
CONSTANTS
    c1 = c1  c2 = c2  m1 = m1  m2 = m2  wsA = wsA  wsB = wsB
    Comments = {c1, c2}
    Messages = {m1, m2}
    Workspaces = {wsA, wsB}
    NoWorkspace = NoWorkspace
    Fallible = {c1}
    Slots = 1
    DaysPerMonth = 3
    History = 1
    MaxMoved = 0
    MaxDay = 3
INVARIANTS TypeOK ChargedOnce UsageIsExact MonthIsLogged
SYMMETRY Alike
CHECK_DEADLOCK FALSE
