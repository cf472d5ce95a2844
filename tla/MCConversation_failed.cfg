SPECIFICATION Spec
CONSTANTS
    None = None
    o1 = o1
    t1 = t1
    t2 = t2
    Ops = {o1}
    MaxRequests = 2
    Texts = {t1, t2}
    Picked = {t2}
    Arrivals <- SomeArrivals
    Outcomes = {"completed"}
    Faults = {}
    MaxFaults = 0
    MaxRenames = 1
PROPERTY DispatchFailureIsRecorded
CHECK_DEADLOCK FALSE
