CONSTANTS
    e1 = e1
    e2 = e2
    r1 = r1
    Events = {e1}
    Workers = {w1, w2}
    Sources = {s1, s2}
    Rules = {r1}
    Applies <- MCAppliesOne
    LeaseTicks = 2
    ClaimLimit = 1
    MaxAttempts <- MCMaxAttemptsOne
    None = None
    k1 = k1
    Matched <- MCMatchedOne
    CountRules <- MCCountRules
    KeyOf <- MCKeyOf
    OccurredAt <- MCOccurredAtOne
    EventId <- MCEventIdOne
    WindowSeconds <- MCWindowSeconds
    Threshold <- MCThreshold
SPECIFICATION Spec
PROPERTIES CompletedWorkStaysCompleted
CHECK_DEADLOCK FALSE
