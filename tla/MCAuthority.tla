---------------------------- MODULE MCAuthority ----------------------------
EXTENDS Authority, TLC

CONSTANTS inspection, response

\* One capability of the foundation set and CAP-V03-RESPONSE-PROPOSAL.
MCCapabilities  == {inspection, response}
MCRisk          == (inspection :> "low") @@ (response :> "high")
MCNeedsApproval == (inspection :> FALSE) @@ (response :> TRUE)
MCRequires      == (inspection :> "inspect") @@ (response :> "remediate")

PrincipalSymmetry == Permutations(Principals)
=============================================================================
