SPECIFICATION FirmSpec
CONSTANTS
    c1 = c1
    c2 = c2
    Missing = Missing
    Calls <- MCCalls
    Requests <- MCRequests
    ContentOf <- MCContentOf
    RunIdRank <- MCRunIdRank
    Feeds = {"KEV", "EPSS"}
    ScopeNamesAgents = FALSE
SYMMETRY Symmetry
INVARIANTS
    CommittedAssessmentIsWhole
    UrgentIsCurrent
