SPECIFICATION FairSpec
CONSTANTS
    Callers = {a, b}
    Notes = {m, n}
    None = None
    m = m
    n = n
    Inputs <- MCInputs
    MAX_EVENTS = 3
    MaxForeign = 1
    MaxFaults = 1
INVARIANT TypeOK
INVARIANT WrittenUnderIntent
INVARIANT AcceptedIsWritten
INVARIANT RepliesAreTrue
PROPERTY ReportFollows
PROPERTY AloneIsExact
PROPERTY ApplyingEnds
CHECK_DEADLOCK FALSE
