\* Two runs for two commenters, an editor and an administrator, failures that pause.
SPECIFICATION Spec
CONSTANTS
    w1 = w1  w2 = w2  p1 = p1  p2 = p2
    NoCommenter = NoCommenter
    Workers = {w1, w2}
    Commenters = {p1, p2}
    Span <- HourAndDay
    PilotLimit <- Pilot
    NormalLimit <- Normal
    PatchInputs <- Patches
    Cooldown = 1
    Threshold = 2
    PauseFor = 1
    RetryAfters = {0, 2}
    PilotAge = 1
    MaxTime = 3
    MaxSent = 2
    MaxEdits = 1
    MaxFaults = 2
INVARIANTS TypeOK RollingLimits CooldownKept PilotLimitsKept NoSendWhilePaused
CHECK_DEADLOCK FALSE
SYMMETRY Alike
