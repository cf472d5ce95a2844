SPECIFICATION Spec
CONSTANTS
    p1 = p1  p2 = p2
    a = a  b = b
    cs1 = cs1  cs2 = cs2  cs3 = cs3
    run1 = run1  run2 = run2
    theme = theme
    None = None
    Stale = Stale
    Procs = {p1, p2}
    Callers = {a, b}
    ProcOf <- MCTwoProcesses
    ChangeSets = {cs1, cs2}
    Runs = {run1, run2}
    RunOf <- MCOwnRuns
    Changing = {cs1, cs2}
    Objects = {theme}
    TargetOf <- MCTargetOf
    Schema = "0.3"
    Kinds = {"write", "archive"}
    Faults = {"crash", "ioError", "halfRemoval"}
    MaxCrashes = 1
    MaxErrors = 1
INVARIANT Recoverable
PROPERTY ImplementsKnowledgeBase
PROPERTY RefusedIsNotCommitted
SYMMETRY MCSwap
CHECK_DEADLOCK FALSE
