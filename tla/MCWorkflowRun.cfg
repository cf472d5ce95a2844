SPECIFICATION FairSpec
CONSTANTS
    None = None
    Faults = {"crash", "writeError", "listError"}
    MaxCrashes = 2
    MaxErrors = 2
    MaxReports = 2
INVARIANT TypeOK
INVARIANT RunsAtMostOnce
INVARIANT OutcomeIsShown
INVARIANT NothingRunsWhenOver
INVARIANT SavedIsDurable
PROPERTY ConfirmedIsDurable
PROPERTY StoredOutcomeIsFinal
PROPERTY EveryCallReturns
PROPERTY PollingStopsUnlessKilled
CHECK_DEADLOCK FALSE
