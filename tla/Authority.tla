----------------------------- MODULE Authority -----------------------------
(***************************************************************************)
(* The authority records of one engagement and the decision over them:     *)
(* grants are made, expire and are revoked, approvals are requested and    *)
(* decided (and decided again), the engagement's status changes, and at    *)
(* any moment AuthorityService.decide may be asked for any request.  The   *)
(* decision itself changes nothing but the audit trail, so the properties  *)
(* speak of every request in every reachable state.                        *)
(***************************************************************************)
EXTENDS PolicyKernel

CONSTANTS Principals, Engagements, Targets, Capabilities,
          Home,         \* the engagement requests are made for
          Scope,        \* its target_ids
          Actions,      \* members of the Action enumeration that are used
          Risk,         \* risk_class of each capability in the registry
          NeedsApproval,\* requires_approval of each capability
          Requires,     \* required_authority of each capability
          GrantIds, ApprovalIds

ASSUME AuthorityAssumption ==
    /\ Home \in Engagements
    /\ Scope \subseteq Targets
    /\ "inspect" \in Actions /\ Actions \subseteq KnownActions
    /\ Risk \in [Capabilities -> {"info", "low", "medium", "high", "critical"}]
    /\ NeedsApproval \in [Capabilities -> BOOLEAN]
    /\ Requires \in [Capabilities -> KnownActions \cup {None}]
    /\ None \notin Principals \cup Engagements \cup Targets \cup Capabilities
                     \cup GrantIds \cup ApprovalIds \cup KnownActions

VARIABLES grants,     \* AuthorityGrant records, None before they are made
          approvals,  \* Approval records, None before they are requested
          status,     \* Home's status
          level       \* Home's authority_level

vars == <<grants, approvals, status, level>>

Grant == [principal : Principals, engagement : Engagements, action : Actions,
          capability : Capabilities \cup {None}, target : Targets \cup {None},
          conditions : SUBSET {"immutable_snapshot_only", "no_client_writes",
                               "no_production_active_testing"},
          active : BOOLEAN]

Approval == [requester : Principals, engagement : Engagements, target : Targets,
             capability : Capabilities, action : Actions,
             decision : {"pending", "approved", "denied"},
             decider : Principals \cup {None}]

\* CapabilityRequest, for Home.
Request == [principal : Principals, target : Targets, capability : Capabilities,
            action : Actions, risk : {"low", "high"},
            grant : GrantIds \cup {None}, approval : ApprovalIds \cup {None},
            snapshot : {"snapshot", None}]

Init ==
    /\ grants = [g \in GrantIds |-> None]
    /\ approvals = [a \in ApprovalIds |-> None]
    /\ status = "authorized"
    /\ level \in KnownLevels

-----------------------------------------------------------------------------
(* Records *)

\* AuthorityService.grant: no conditions, valid from now.
MakeGrant(g, p, e, x, c, t) ==
    /\ grants[g] = None
    /\ grants' = [grants EXCEPT ![g] =
         [principal |-> p, engagement |-> e, action |-> x, capability |-> c,
          target |-> t, conditions |-> {}, active |-> TRUE]]
    /\ UNCHANGED <<approvals, status, level>>

\* The grant authorize_case writes for an inspection-only case.
MakeInspectionGrant(g, p) ==
    /\ level = "inspection-only"
    /\ grants[g] = None
    /\ grants' = [grants EXCEPT ![g] =
         [principal |-> p, engagement |-> Home, action |-> "inspect",
          capability |-> None, target |-> None,
          conditions |-> {"immutable_snapshot_only", "no_client_writes",
                          "no_production_active_testing"},
          active |-> TRUE]]
    /\ UNCHANGED <<approvals, status, level>>

\* revoke, or the passing of not_after.
EndGrant(g) ==
    /\ grants[g] # None
    /\ grants[g].active
    /\ grants' = [grants EXCEPT ![g].active = FALSE]
    /\ UNCHANGED <<approvals, status, level>>

CreateApproval(a, p, e, t, c, x) ==
    /\ approvals[a] = None
    /\ approvals' = [approvals EXCEPT ![a] =
         [requester |-> p, engagement |-> e, target |-> t, capability |-> c,
          action |-> x, decision |-> "pending", decider |-> None]]
    /\ UNCHANGED <<grants, status, level>>

\* Mutant of DecideApproval: the requester may decide.
DecideApprovalByAnyone(a, d, by) ==
    /\ approvals[a] # None
    /\ approvals' = [approvals EXCEPT ![a].decision = d, ![a].decider = by]
    /\ UNCHANGED <<grants, status, level>>

\* decide_approval: not the requester; an earlier decision is overwritten.
DecideApproval(a, d, by) ==
    /\ approvals[a] # None
    /\ by # approvals[a].requester
    /\ approvals' = [approvals EXCEPT ![a].decision = d, ![a].decider = by]
    /\ UNCHANGED <<grants, status, level>>

\* The engagement is suspended or resumed (one working status stands for all).
ChangeStatus ==
    /\ status' \in {"authorized", "suspended"} \ {status}
    /\ UNCHANGED <<grants, approvals, level>>

Next ==
    \/ \E g \in GrantIds, p \in Principals :
         \/ \E e \in Engagements, x \in Actions, c \in Capabilities \cup {None},
               t \in Targets \cup {None} : MakeGrant(g, p, e, x, c, t)
         \/ MakeInspectionGrant(g, p)
    \/ \E g \in GrantIds : EndGrant(g)
    \/ \E a \in ApprovalIds, p \in Principals, e \in Engagements, t \in Targets,
          c \in Capabilities, x \in Actions : CreateApproval(a, p, e, t, c, x)
    \/ \E a \in ApprovalIds, d \in {"approved", "denied"}, by \in Principals :
          DecideApproval(a, d, by)
    \/ ChangeStatus

Spec == Init /\ [][Next]_vars

-----------------------------------------------------------------------------
(* The policy input *)

\* Mutant of GrantMatches: the grant's target is not compared.
GrantMatchesAnyTarget(r) ==
    /\ r.grant # None
    /\ grants[r.grant] # None
    /\ LET g == grants[r.grant]
       IN  /\ g.engagement = Home
           /\ g.principal = r.principal
           /\ g.capability \in {None, r.capability}
           /\ g.active /\ g.action = r.action

\* The filter of _grant_input.
GrantMatches(r) ==
    /\ r.grant # None
    /\ grants[r.grant] # None
    /\ LET g == grants[r.grant]
       IN  /\ g.engagement = Home
           /\ g.principal = r.principal
           /\ g.capability \in {None, r.capability}
           /\ g.target \in {None, r.target}
           /\ g.active /\ g.action = r.action

GrantInput(r) ==
    IF GrantMatches(r)
    THEN LET g == grants[r.grant]
         IN  [matched |-> TRUE, ids |-> {r.grant}, conditions |-> g.conditions,
              principal |-> g.principal, engagement |-> g.engagement,
              capability |-> g.capability, target |-> g.target, action |-> g.action]
    ELSE [matched |-> FALSE, ids |-> {}, conditions |-> {}, principal |-> None,
          engagement |-> None, capability |-> None, target |-> None, action |-> None]

ApprovalInput(r) ==
    IF r.approval # None /\ approvals[r.approval] # None
    THEN LET a == approvals[r.approval]
         IN  [id |-> r.approval, recorded |-> TRUE, decision |-> a.decision,
              target |-> a.target, capability |-> a.capability, action |-> a.action,
              engagement |-> a.engagement, decider |-> a.decider]
    ELSE [id |-> None, recorded |-> FALSE, decision |-> "pending", target |-> None,
          capability |-> None, action |-> None, engagement |-> None, decider |-> None]

\* policy_input of AuthorityService.decide; the capability is the registry's.
PolicyInput(r) ==
    [principal  |-> r.principal,
     engagement |-> [id |-> Home, status |-> status, level |-> level, targets |-> Scope],
     target     |-> r.target,
     capability |-> [id |-> r.capability, registered |-> TRUE,
                     risk |-> Risk[r.capability], approval |-> NeedsApproval[r.capability],
                     authority |-> Requires[r.capability]],
     action     |-> r.action,
     risk       |-> r.risk,
     grant      |-> GrantInput(r),
     approval   |-> ApprovalInput(r),
     snapshot   |-> r.snapshot]

-----------------------------------------------------------------------------
(* Properties *)

\* Grants, approvals and the engagement keep the types of their records.
TypeOK ==
    /\ grants \in [GrantIds -> Grant \cup {None}]
    /\ approvals \in [ApprovalIds -> Approval \cup {None}]
    /\ status \in {"authorized", "suspended"}
    /\ level \in KnownLevels

\* What an allowed request must rest on, stated of the records themselves.
Authorized(r) ==
    /\ status # "suspended"
    /\ r.target \in Scope
    /\ r.action \in MutationActions => level = "remediation"
    /\ \E g \in GrantIds :
         /\ g = r.grant /\ grants[g] # None
         /\ grants[g].active
         /\ grants[g].principal = r.principal /\ grants[g].engagement = Home
         /\ grants[g].action = r.action
         /\ grants[g].target \in {None, r.target}
         /\ grants[g].capability \in {None, r.capability}
    /\ (Risk[r.capability] \in HighRisk \/ r.risk \in HighRisk \/ NeedsApproval[r.capability]) =>
         \E a \in ApprovalIds :
           /\ a = r.approval /\ approvals[a] # None
           /\ approvals[a].decision = "approved"
           /\ approvals[a].decider \in Principals \ {approvals[a].requester}
           /\ \E p \in Principals \ {r.principal} :
                p \in {approvals[a].requester, approvals[a].decider}
           /\ approvals[a].target = r.target /\ approvals[a].capability = r.capability
           /\ approvals[a].action = r.action /\ approvals[a].engagement = Home

\* Whatever grants and approvals have been made, ended, decided and decided
\* again, kernel.rego derives allow only for a request that a live grant of
\* that principal covers, in a working engagement, within its authority
\* level and scope.  If it is high risk, one person asked for an approval of
\* this target, capability and action and another granted it, so that somebody
\* other than the request's principal took part.  The kernel does not compare
\* either of them with that principal: who decided an approval for somebody
\* else may use it for a request of their own.
AllowIsAuthorized ==
    \A r \in Request : Allows(PolicyInput(r)) => Authorized(r)

\* A grant without conditions never drives the kernel into a conflict: the
\* filter of _grant_input and grant_binding_ok agree on what a grant covers.
UnconditionedGrantsAreDecided ==
    \A r \in Request :
        (r.grant # None /\ grants[r.grant] # None => grants[r.grant].conditions = {})
            => KernelDecide(PolicyInput(r)) # "error"

\* For inspection the adapter gives the kernel's decision, and denies where
\* the kernel fails to decide.
AdapterMirrorsInspection ==
    \A r \in Request : r.action \notin MutationActions =>
        LET i == PolicyInput(r)
            d == KernelDecide(i)
        IN  AdapterDecide(i) = IF d = "error" THEN "deny" ELSE d
=============================================================================
