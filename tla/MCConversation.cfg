SPECIFICATION FairSpec
CONSTANTS
    None = None
    o1 = o1
    t1 = t1
    t2 = t2
    Ops = {o1}
    MaxRequests = 3
    Texts = {t1, t2}
    Picked = {t2}
    Arrivals <- SomeArrivals
    Outcomes = {"completed"}
    Faults = {"crash", "refusal", "writeError"}
    MaxFaults = 1
    MaxRenames = 1
INVARIANT TypeOK
INVARIANT ExecutesWhatWasAccepted
INVARIANT VerdictsAreTrue
PROPERTY KeepsLedger
PROPERTY TitleGivesWay
PROPERTY RunsAreReconciled
PROPERTY ClaimsEnd
CHECK_DEADLOCK FALSE
