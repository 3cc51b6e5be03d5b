SPECIFICATION FairSpec
CONSTANTS
    None = None
    Error = Error
    t1 = t1
    t2 = t2
    j1 = j1
    b1 = b1
    b2 = b2
    s1 = s1
    c1 = c1
    q1 = q1
    x1 = x1
    o1 = o1
    o2 = o2
    Outputs = {o1, o2}
    NoOutput = o1
    Suspicious = {o1, o2}
    MaxContainers = 2
    Jobs <- MCJobs
    Declarations <- MCDeclarations
    Requests <- MCRequests
INVARIANTS
    ReceiptIsReportedOrDisplaced
    CompletedWasAllowed
    EventsAreBackedByEvidence
PROPERTIES
    SubmitReturns
