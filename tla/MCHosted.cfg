SPECIFICATION Spec
CONSTANTS
    h1 = h1
    A = A
    B = B
    t1 = t1
    t2 = t2
    k1 = k1
    k2 = k2
    None = None
    Humans = {h1}
    Admins = {}
    Clients = {A, B}
    Targets = {t1, t2}
    Cases <- MCCases
    Unstable <- MCUnstable
    ClientOf <- MCClientOf
    Requests <- MCRequests
    Calls = {k1, k2}
INVARIANTS RunningWasStarted RunsAreGranted
PROPERTIES ReconciledRunIsOver
CHECK_DEADLOCK FALSE
SYMMETRY MCSymmetry
