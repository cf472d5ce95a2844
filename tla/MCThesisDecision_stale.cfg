SPECIFICATION Spec
CONSTANTS
    Callers = {a, b}
    Notes = {m, n}
    None = None
    m = m
    n = n
    Inputs <- MCInputs
    MAX_EVENTS = 2
    MaxForeign = 0
    MaxFaults = 0
PROPERTY NeverGivesUpWritten
CHECK_DEADLOCK FALSE
