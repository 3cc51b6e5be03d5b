SPECIFICATION FairWfSpec
CONSTANTS
    None = None
    MaxHistory = 5
    ApprovalIds = {a1, a2}
    MaximumAttempts = 3
INVARIANTS
    NoWorkWithoutAuthorization
    ClosedMeansReported
PROPERTIES RunsEnd
CHECK_DEADLOCK FALSE
