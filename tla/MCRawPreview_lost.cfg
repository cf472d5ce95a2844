SPECIFICATION Spec
CONSTANTS
    Attempts = {a, b}
    run1 = run1
    run2 = run2
    Inputs <- MCInputs
    Units = {u, v}
    Picked = {u}
    Acceptors = {x, y}
    None = None
    Other = Other
    MAX_PLAN_ATTEMPTS = 2
    MaxBusy = 2
SYMMETRY MCSymmetry
INVARIANT CommittableStays
CHECK_DEADLOCK FALSE
