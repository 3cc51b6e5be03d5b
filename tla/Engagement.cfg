SPECIFICATION Spec
CONSTANTS
    None = None
    MaxHistory = 13
INVARIANTS
    NoPhaseIsSkipped
    HistoryIsAPath
    SuspensionIsResumable
    RefusedWasNeverAuthorized
CHECK_DEADLOCK FALSE
