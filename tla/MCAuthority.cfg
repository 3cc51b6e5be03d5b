SPECIFICATION Spec
CONSTANTS
    None = None
    Principals = {p1, p2}
    Engagements = {e1, e2}
    Home = e1
    Targets = {t1, t2}
    Scope = {t1}
    Actions = {"inspect", "remediate"}
    inspection = inspection
    response = response
    Capabilities <- MCCapabilities
    Risk <- MCRisk
    NeedsApproval <- MCNeedsApproval
    Requires <- MCRequires
    GrantIds = {g1}
    ApprovalIds = {a1}
INVARIANTS
    AllowIsAuthorized
    UnconditionedGrantsAreDecided
    AdapterMirrorsInspection
SYMMETRY PrincipalSymmetry
CHECK_DEADLOCK FALSE
