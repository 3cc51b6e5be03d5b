SPECIFICATION ConsoleSpec
CONSTANTS
    None = None
    s1 = s1
    s2 = s2
    s3 = s3
    c1 = c1
    c2 = c2
    k1 = k1
    k2 = k2
    e1 = e1
    e2 = e2
    e3 = e3
    h1 = h1
    h2 = h2
    h3 = h3
    agent = agent
    o1 = o1
    r1 = r1
    r2 = r2
    Signals = {s1, s2, s3}
    Claims = {k1, k2}
    SignalRefs <- MCSignalRefs
    ClaimRefs <- MCClaimRefs
    Observations <- MCObservations
    Humans = {h1, h2, h3}
    Principals = {h1, h2, h3, agent}
    Hypotheses <- MCHypotheses
    Adjudicating <- MCAdjudicating
    Proposals <- MCProposals
    Calls <- MCCalls
    SignalOrder <- MCSignalOrder
    Limit = 1
    NoPage = NoPage
    MaxTime = 1
SYMMETRY Symmetry
INVARIANTS
    IncidentsAreGrounded
    ApprovedByASecondPerson
    ApprovalMirrorsProposal
    NoRowIsMissed
PROPERTIES
    DecisionIsFinal
