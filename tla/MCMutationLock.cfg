SPECIFICATION FairSpec
CONSTANTS
    p1 = p1  p2 = p2
    a = a  b = b  c = c  d = d
    None = None
    Left = Left
    Procs = {p1, p2}
    Callers = {a, b, c, d}
    ProcOf <- MCProcOf
    MaxCrashes = 2
    MaxErrors = 2
INVARIANT MutualExclusion
INVARIANT ConflictIsForeign
INVARIANT ChainIsDropped
PROPERTY ImplementsKnowledgeLock
PROPERTY EveryCallReturns
