---------------------------- MODULE PolicyKernel ----------------------------
(***************************************************************************)
(* The authorization decision for one capability request: the rules of     *)
(* kernel.rego, what the OPA clients make of them, and the in-memory       *)
(* adapter that is meant to mirror them.  An input i is the record that    *)
(* AuthorityService.decide builds; None stands for an empty string.        *)
(***************************************************************************)
EXTENDS Naturals, FiniteSets

CONSTANT None

KnownActions    == {"inspect", "collect", "active_test", "mutate", "remediate"}
MutationActions == {"mutate", "remediate", "active_test"}
KnownLevels     == {"inspection-only", "remediation"}
HighRisk        == {"critical", "high"}
WorkingStatuses == {"authorized", "active", "evidence_collection", "analysis",
                    "adjudication", "reporting", "remediation"}

-----------------------------------------------------------------------------
(* Helper rules of kernel.rego *)

CapabilityRegistered(i) == i.capability.id # None /\ i.capability.registered
EngagementWorking(i)    == i.engagement.status \in WorkingStatuses
TargetInScope(i)        == i.target \in i.engagement.targets

ActionAllowedByLevel(i) ==
    i.action \in MutationActions => i.engagement.level = "remediation"

CapabilityAuthorityOk(i) ==
    i.capability.authority # None => i.action = i.capability.authority

HighRiskOperation(i) == i.capability.risk \in HighRisk \/ i.risk \in HighRisk

\* A recorded approval, decided "approved", bound to this exact request.
Approved(i) ==
    /\ i.approval.recorded
    /\ i.approval.id # None
    /\ i.approval.decision = "approved"
    /\ i.approval.decider # None
    /\ i.approval.target = i.target
    /\ i.approval.capability = i.capability.id
    /\ i.approval.action = i.action
    /\ i.approval.engagement = i.engagement.id

GrantConditionsOk(i) ==
    /\ "immutable_snapshot_only" \in i.grant.conditions => i.snapshot # None
    /\ "no_client_writes" \in i.grant.conditions => i.action \notin MutationActions
    /\ "no_production_active_testing" \in i.grant.conditions => i.action # "active_test"

GrantBindingOk(i) ==
    /\ Cardinality(i.grant.ids) = 1 /\ None \notin i.grant.ids
    /\ i.grant.principal \in {None, i.principal}
    /\ i.grant.engagement \in {None, i.engagement.id}
    /\ i.grant.capability \in {None, i.capability.id}
    /\ i.grant.target \in {None, i.target}
    /\ i.grant.action \in {None, i.action}
    /\ GrantConditionsOk(i)

\* authorization_gates_ok; it names neither the binding of the grant nor the
\* known actions.
GatesOk(i) ==
    /\ CapabilityRegistered(i)
    /\ EngagementWorking(i)
    /\ i.engagement.level \in KnownLevels
    /\ TargetInScope(i)
    /\ i.grant.matched
    /\ ActionAllowedByLevel(i)
    /\ CapabilityAuthorityOk(i)

-----------------------------------------------------------------------------
(* Decision rules of kernel.rego: each derives a value of "decision" *)

Denies(i) ==
    \/ i.action \notin KnownActions
    \/ ~CapabilityRegistered(i)
    \/ ~EngagementWorking(i)
    \/ i.engagement.level \notin KnownLevels
    \/ ~TargetInScope(i)
    \/ ~i.grant.matched
    \/ i.grant.matched /\ ~GrantBindingOk(i)
    \/ i.grant.matched /\ ~ActionAllowedByLevel(i)
    \/ i.grant.matched /\ ~CapabilityAuthorityOk(i)

RequiresApproval(i) ==
    GatesOk(i) /\ (HighRiskOperation(i) \/ i.capability.approval) /\ ~Approved(i)

Allows(i) ==
    GatesOk(i) /\ ((~HighRiskOperation(i) /\ ~i.capability.approval) \/ Approved(i))

\* The values derived for "decision"; it defaults to deny.
Decisions(i) ==
    LET derived == (IF Denies(i) THEN {"deny"} ELSE {})
                     \cup (IF RequiresApproval(i) THEN {"require_approval"} ELSE {})
                     \cup (IF Allows(i) THEN {"allow"} ELSE {})
    IN  IF derived = {} THEN {"deny"} ELSE derived

\* What the OPA clients return: two values for one complete rule are an
\* evaluation conflict, which they raise.
KernelDecide(i) ==
    LET derived == Decisions(i)
    IN  IF Cardinality(derived) = 1 THEN CHOOSE d \in derived : TRUE ELSE "error"

-----------------------------------------------------------------------------
\* Mutant of AdapterDecide: conditions of the grant are not looked at.
AdapterDecideUnconditioned(i) ==
    IF \/ i.action \notin KnownActions \/ ~CapabilityRegistered(i)
       \/ ~EngagementWorking(i) \/ i.engagement.level \notin KnownLevels
       \/ ~TargetInScope(i) \/ ~i.grant.matched
       \/ ~CapabilityAuthorityOk(i)
    THEN "deny"
    ELSE IF (HighRiskOperation(i) \/ i.capability.approval) /\ ~Approved(i)
         THEN "require_approval" ELSE "allow"

\* DeterministicDecisionAdapter.decide.  The test of the engagement's
\* authority level is part of a comment in the source and is not executed.
AdapterDecide(i) ==
    IF \/ i.action \notin KnownActions \/ ~CapabilityRegistered(i)
       \/ ~EngagementWorking(i) \/ i.engagement.level \notin KnownLevels
       \/ ~TargetInScope(i) \/ ~i.grant.matched \/ ~GrantBindingOk(i)
       \/ ~CapabilityAuthorityOk(i)
    THEN "deny"
    ELSE IF (HighRiskOperation(i) \/ i.capability.approval) /\ ~Approved(i)
         THEN "require_approval" ELSE "allow"
=============================================================================
