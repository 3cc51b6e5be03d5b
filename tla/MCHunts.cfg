SPECIFICATION FairSpec
CONSTANTS
    None = None
    Gone = Gone
    p1 = p1
    p2 = p2
    e1 = e1
    e2 = e2
    Plans = {p1, p2}
    Events = {e1, e2}
    Workers = {w1, w2}
    InWindow <- MCInWindow
    Selected <- MCSelected
    MaxEvents <- MCMaxEvents
    LeaseTicks = 1
INVARIANTS CompletedHuntHasResult UnfinishedHuntIsUnblocked NoHuntIsStranded
PROPERTIES HuntIsNotTaken HuntsBecomePending
