CONSTANTS
    e1 = e1
    e2 = e2
    r1 = r1
    Events = {e1, e2}
    Workers = {w1, w2}
    Sources = {s1}
    Rules = {r1}
    Applies <- MCApplies
    LeaseTicks = 1
    ClaimLimit = 2
    MaxAttempts <- MCMaxAttempts
    None = None
    k1 = k1
    Matched <- MCMatched
    CountRules <- MCCountRules
    KeyOf <- MCKeyOf
    OccurredAt <- MCOccurredAt
    EventId <- MCEventId
    WindowSeconds <- MCWindowSeconds
    Threshold <- MCThreshold
SPECIFICATION FairSpec
INVARIANTS CompletedWorkIsEvaluated NoWorkIsStranded EveryBurstIsSignalled
PROPERTIES LiveLeaseIsTakenOnlyIfReopened ImplementsLedger LeasesExpire
CHECK_DEADLOCK FALSE
