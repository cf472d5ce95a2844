SPECIFICATION Spec
CONSTANTS
    p1 = p1  p2 = p2
    a = a  b = b
    cs1 = cs1  cs2 = cs2  cs3 = cs3
    run1 = run1  run2 = run2
    theme = theme
    None = None
    Stale = Stale
    Procs = {p1, p2}
    Callers = {a, b}
    ProcOf <- MCOneProcess
    ChangeSets = {cs1, cs2}
    Runs = {run1, run2}
    RunOf <- MCOwnRuns
    Changing = {cs1, cs2}
    Objects = {theme}
    TargetOf <- MCTargetOf
    Schema = "0.4"
    Kinds = {"write"}
    Faults = {"ioError", "readError", "tornMarker"}
    MaxCrashes = 0
    MaxErrors = 3
INVARIANT Recoverable
PROPERTY ImplementsKnowledgeBase
SYMMETRY MCSwap
CHECK_DEADLOCK FALSE
