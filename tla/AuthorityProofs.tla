-------------------------- MODULE AuthorityProofs --------------------------
(***************************************************************************)
(* For any principals, targets, capabilities, grants and approvals: the    *)
(* kernel allows only what the authority records cover, and its rules      *)
(* conflict only over a grant with conditions.                             *)
(***************************************************************************)
EXTENDS Authority, FiniteSetTheorems, TLAPS

\* No approval is in force by its own requester's decision, whatever was
\* decided before (decide_approval overwrites earlier decisions).
DecidedByAnother ==
    \A a \in ApprovalIds :
        approvals[a] # None /\ approvals[a].decision = "approved" =>
            approvals[a].decider \in Principals \ {approvals[a].requester}

IInv == TypeOK /\ DecidedByAnother

-----------------------------------------------------------------------------
(* The records *)

\* Every operation of the authority service keeps the types of the records
\* and leaves no approval decided by its requester.
LEMMA InductiveInvariant == Spec => []IInv
<1>1. Init => IInv
  BY DEF Init, IInv, TypeOK, DecidedByAnother
<1>2. ASSUME IInv, [Next]_vars
      PROVE  IInv'
  <2>1. ASSUME NEW g \in GrantIds, NEW p \in Principals, NEW e \in Engagements,
               NEW x \in Actions, NEW c \in Capabilities \cup {None},
               NEW t \in Targets \cup {None}, MakeGrant(g, p, e, x, c, t)
        PROVE  IInv'
    BY <1>2, <2>1 DEF IInv, TypeOK, DecidedByAnother, MakeGrant, Grant
  <2>2. ASSUME NEW g \in GrantIds, NEW p \in Principals, MakeInspectionGrant(g, p)
        PROVE  IInv'
    BY <1>2, <2>2, AuthorityAssumption
       DEF IInv, TypeOK, DecidedByAnother, MakeInspectionGrant, Grant
  <2>3. ASSUME NEW g \in GrantIds, EndGrant(g)
        PROVE  IInv'
    BY <1>2, <2>3 DEF IInv, TypeOK, DecidedByAnother, EndGrant, Grant
  <2>4. ASSUME NEW a \in ApprovalIds, NEW p \in Principals, NEW e \in Engagements,
               NEW t \in Targets, NEW c \in Capabilities, NEW x \in Actions,
               CreateApproval(a, p, e, t, c, x)
        PROVE  IInv'
    BY <1>2, <2>4 DEF IInv, TypeOK, DecidedByAnother, CreateApproval, Approval
  <2>5. ASSUME NEW a \in ApprovalIds, NEW d \in {"approved", "denied"},
               NEW by \in Principals, DecideApproval(a, d, by)
        PROVE  IInv'
    <3> DEFINE n == [approvals[a] EXCEPT !.decision = d, !.decider = by]
    <3>1. approvals[a] \in Approval /\ by # approvals[a].requester
      BY <1>2, <2>5 DEF IInv, TypeOK, DecideApproval
    <3>2. n \in Approval /\ n.decider \in Principals \ {n.requester}
      BY <3>1 DEF Approval
    <3>3. approvals' = [approvals EXCEPT ![a] = n]
      BY <2>5, <3>1 DEF DecideApproval, Approval
    <3>4. TypeOK'
      BY <1>2, <2>5, <3>2, <3>3 DEF IInv, TypeOK, DecideApproval
    <3>5. DecidedByAnother'
      <4>1. approvals \in [ApprovalIds -> Approval \cup {None}]
        BY <1>2 DEF IInv, TypeOK
      <4>2. \A b \in ApprovalIds : approvals'[b] = IF b = a THEN n ELSE approvals[b]
        BY <4>1, <3>3
      <4> HIDE DEF n
      <4> QED
        BY <1>2, <4>2, <3>2 DEF IInv, DecidedByAnother
    <3> QED
      BY <3>4, <3>5 DEF IInv
  <2>6. CASE ChangeStatus
    BY <1>2, <2>6 DEF IInv, TypeOK, DecidedByAnother, ChangeStatus
  <2>7. CASE UNCHANGED vars
    BY <1>2, <2>7 DEF IInv, TypeOK, DecidedByAnother, vars
  <2> QED
    BY <1>2, <2>1, <2>2, <2>3, <2>4, <2>5, <2>6, <2>7 DEF Next
<1> QED
  BY <1>1, <1>2, PTL DEF Spec

\* Grants, approvals and the engagement keep the types of their records, for
\* any sets of principals, capabilities and targets.
THEOREM AuthorityTypeCorrect == Spec => []TypeOK
  BY InductiveInvariant, PTL DEF IInv

-----------------------------------------------------------------------------
(* The decision *)

\* What the fields of the policy input are read from: the engagement, the
\* registry, and the grant and the approval that the request names.
LEMMA ApprovedIsRecorded ==
    ASSUME TypeOK, NEW r \in Request, Approved(PolicyInput(r))
    PROVE  /\ r.approval \in ApprovalIds /\ approvals[r.approval] # None
           /\ approvals[r.approval].decision = "approved"
           /\ approvals[r.approval].target = r.target
           /\ approvals[r.approval].capability = r.capability
           /\ approvals[r.approval].action = r.action
           /\ approvals[r.approval].engagement = Home
  BY DEF TypeOK, Request, Approved, PolicyInput, ApprovalInput

\* The grant an allowed request rests on is the one it names.
LEMMA MatchedIsRecorded ==
    ASSUME TypeOK, NEW r \in Request, PolicyInput(r).grant.matched
    PROVE  /\ r.grant \in GrantIds /\ GrantMatches(r)
           /\ PolicyInput(r).grant =
                [matched |-> TRUE, ids |-> {r.grant},
                 conditions |-> grants[r.grant].conditions,
                 principal |-> r.principal, engagement |-> Home,
                 capability |-> grants[r.grant].capability,
                 target |-> grants[r.grant].target, action |-> r.action]
<1>1. PolicyInput(r).grant = GrantInput(r)
  BY DEF PolicyInput
<1>2. GrantMatches(r)
  BY <1>1 DEF GrantInput
<1> QED
  BY <1>1, <1>2 DEF GrantInput, GrantMatches, Request

\* A request the kernel allows is covered by the records.
LEMMA AllowedIsAuthorized ==
    ASSUME IInv, NEW r \in Request, Allows(PolicyInput(r))
    PROVE  Authorized(r)
<1> DEFINE i == PolicyInput(r)
<1>1. GatesOk(i) /\ ((~HighRiskOperation(i) /\ ~i.capability.approval) \/ Approved(i))
  BY DEF Allows
<1>2. /\ status # "suspended"
      /\ r.target \in Scope
      /\ r.action \in MutationActions => level = "remediation"
  BY <1>1 DEF GatesOk, EngagementWorking, WorkingStatuses, TargetInScope,
              ActionAllowedByLevel, PolicyInput
<1>3. r.grant \in GrantIds /\ GrantMatches(r)
  BY <1>1, MatchedIsRecorded DEF IInv, GatesOk
<1>4. ASSUME Risk[r.capability] \in HighRisk \/ r.risk \in HighRisk \/ NeedsApproval[r.capability]
      PROVE  \E a \in ApprovalIds :
           /\ a = r.approval /\ approvals[a] # None
           /\ approvals[a].decision = "approved"
           /\ approvals[a].decider \in Principals \ {approvals[a].requester}
           /\ \E p \in Principals \ {r.principal} :
                p \in {approvals[a].requester, approvals[a].decider}
           /\ approvals[a].target = r.target /\ approvals[a].capability = r.capability
           /\ approvals[a].action = r.action /\ approvals[a].engagement = Home
  <2>1. HighRiskOperation(i) \/ i.capability.approval
    BY <1>4 DEF HighRiskOperation, PolicyInput
  <2>2. Approved(i)
    BY <1>1, <2>1
  <2> DEFINE a == r.approval
  <2>3. /\ a \in ApprovalIds /\ approvals[a] # None
        /\ approvals[a].decision = "approved"
        /\ approvals[a].target = r.target /\ approvals[a].capability = r.capability
        /\ approvals[a].action = r.action /\ approvals[a].engagement = Home
    BY <2>2, ApprovedIsRecorded DEF IInv
  <2>4. approvals[a].requester \in Principals /\ approvals[a].decider \in Principals \cup {None}
    BY <2>3 DEF IInv, TypeOK, Approval
  <2>5. approvals[a].decider \in Principals \ {approvals[a].requester}
    BY <2>3, <2>4 DEF IInv, DecidedByAnother
  <2>6. \E p \in Principals \ {r.principal} :
           p \in {approvals[a].requester, approvals[a].decider}
    BY <2>4, <2>5
  <2> QED
    BY <2>3, <2>5, <2>6
<1> QED
  BY <1>2, <1>3, <1>4 DEF Authorized, GrantMatches

\* Whatever grants and approvals are made, ended, decided and decided again,
\* in any number, kernel.rego derives allow only for a request that a live
\* grant covers and that, if it is high risk, carries an approval which one
\* person asked for and another granted, one of them not the principal.
THEOREM AllowIsAuthorizedAlways == Spec => []AllowIsAuthorized
<1>1. IInv => AllowIsAuthorized
  BY AllowedIsAuthorized DEF AllowIsAuthorized
<1> QED
  BY <1>1, InductiveInvariant, PTL

\* The binding the kernel checks repeats what _grant_input has filtered, but
\* for the conditions.
LEMMA BindingIsConditions ==
    ASSUME TypeOK, NEW r \in Request, PolicyInput(r).grant.matched
    PROVE  GrantBindingOk(PolicyInput(r)) <=> GrantConditionsOk(PolicyInput(r))
<1> DEFINE i == PolicyInput(r)
<1> DEFINE g == grants[r.grant]
<1>0. /\ r.grant \in GrantIds /\ GrantMatches(r)
      /\ i.grant.ids = {r.grant}
      /\ i.grant.principal = r.principal /\ i.grant.engagement = Home
      /\ i.grant.capability = g.capability /\ i.grant.target = g.target
      /\ i.grant.action = r.action
  <2> HIDE DEF i, g
  <2>1. /\ r.grant \in GrantIds /\ GrantMatches(r)
        /\ i.grant = [matched |-> TRUE, ids |-> {r.grant}, conditions |-> g.conditions,
                      principal |-> r.principal, engagement |-> Home,
                      capability |-> g.capability, target |-> g.target, action |-> r.action]
    BY MatchedIsRecorded DEF i, g
  <2> QED
    BY <2>1
<1>1. Cardinality(i.grant.ids) = 1 /\ None \notin i.grant.ids
  <2> HIDE DEF i, g
  <2> QED
    BY <1>0, FS_Singleton, AuthorityAssumption
<1>2. /\ i.grant.principal = i.principal
      /\ i.grant.engagement = i.engagement.id
      /\ i.grant.capability \in {None, i.capability.id}
      /\ i.grant.target \in {None, i.target}
      /\ i.grant.action = i.action
  <2>1. /\ i.principal = r.principal /\ i.engagement.id = Home
        /\ i.capability.id = r.capability /\ i.target = r.target /\ i.action = r.action
    BY DEF PolicyInput
  <2> QED
    BY <2>1, <1>0 DEF GrantMatches
<1> QED
  BY <1>1, <1>2 DEF GrantBindingOk

\* What the kernel returns: an error where a gated request is also denied,
\* otherwise the one decision that is derived.
LEMMA KernelCases ==
    ASSUME NEW i
    PROVE  /\ Denies(i) /\ GatesOk(i) => KernelDecide(i) = "error"
           /\ Denies(i) /\ ~GatesOk(i) => KernelDecide(i) = "deny"
           /\ ~Denies(i) => GatesOk(i)
           /\ ~Denies(i) /\ RequiresApproval(i) => KernelDecide(i) = "require_approval"
           /\ ~Denies(i) /\ ~RequiresApproval(i) => KernelDecide(i) = "allow"
<1> DEFINE derived == Decisions(i)
<1>1. ~Denies(i) => GatesOk(i)
  BY DEF Denies, GatesOk
<1>2. GatesOk(i) => (RequiresApproval(i) /\ ~Allows(i)) \/ (Allows(i) /\ ~RequiresApproval(i))
  BY DEF RequiresApproval, Allows
<1>3. ~GatesOk(i) => ~RequiresApproval(i) /\ ~Allows(i)
  BY DEF RequiresApproval, Allows
<1>4. ASSUME NEW d, derived = {d}
      PROVE  KernelDecide(i) = d
  BY <1>4, FS_Singleton DEF KernelDecide
<1>5. ASSUME Denies(i), GatesOk(i)
      PROVE  KernelDecide(i) = "error"
  <2>1. derived = {"deny", "require_approval"} \/ derived = {"deny", "allow"}
    BY <1>2, <1>5 DEF Decisions
  <2>2. ~ \E d : derived = {d}
    BY <2>1
  <2>3. Cardinality(derived) # 1
    <3>1. IsFiniteSet(derived)
      <4>1. PICK x : derived = {"deny"} \cup {x}
        BY <2>1
      <4>2. IsFiniteSet({"deny"}) /\ IsFiniteSet({x})
        BY FS_Singleton
      <4>3. IsFiniteSet({"deny"} \cup {x})
        BY <4>2, FS_Union
      <4> QED
        BY <4>1, <4>3
    <3> QED
      BY <3>1, <2>2, FS_Singleton
  <2> QED
    BY <2>3 DEF KernelDecide
<1>6. Denies(i) /\ ~GatesOk(i) => derived = {"deny"}
  BY <1>3 DEF Decisions
<1>7. ~Denies(i) /\ RequiresApproval(i) => derived = {"require_approval"}
  BY <1>1, <1>2 DEF Decisions
<1>8. ~Denies(i) /\ ~RequiresApproval(i) => derived = {"allow"}
  BY <1>1, <1>2 DEF Decisions
<1> QED
  BY <1>1, <1>4, <1>5, <1>6, <1>7, <1>8

\* A request under a grant without conditions is not both gated and denied.
LEMMA UnconditionedIsDecided ==
    ASSUME TypeOK, NEW r \in Request,
           r.grant # None /\ grants[r.grant] # None => grants[r.grant].conditions = {}
    PROVE  KernelDecide(PolicyInput(r)) # "error"
<1> DEFINE i == PolicyInput(r)
<1>1. ASSUME GatesOk(i)
      PROVE  ~Denies(i)
  <2>1. i.grant.matched
    BY <1>1 DEF GatesOk
  <2>2. i.grant.conditions = {}
    <3> HIDE DEF i
    <3>1. /\ GrantMatches(r)
          /\ i.grant = [matched |-> TRUE, ids |-> {r.grant},
                        conditions |-> grants[r.grant].conditions,
                        principal |-> r.principal, engagement |-> Home,
                        capability |-> grants[r.grant].capability,
                        target |-> grants[r.grant].target, action |-> r.action]
      BY <2>1, MatchedIsRecorded DEF i
    <3>2. i.grant.conditions = grants[r.grant].conditions
      BY <3>1
    <3> QED
      BY <3>1, <3>2 DEF GrantMatches
  <2>3. GrantBindingOk(i)
    BY <2>1, <2>2, BindingIsConditions DEF GrantConditionsOk
  <2>4. i.action \in KnownActions
    BY AuthorityAssumption DEF PolicyInput, Request
  <2> HIDE DEF i
  <2> QED
    BY <1>1, <2>3, <2>4 DEF Denies, GatesOk
<1> HIDE DEF i
<1>2. \/ KernelDecide(i) = "deny"
      \/ KernelDecide(i) = "require_approval"
      \/ KernelDecide(i) = "allow"
  BY <1>1, KernelCases
<1> QED
  BY <1>2 DEF i

\* For any grants: _grant_input hands the kernel only grants whose binding
\* the kernel confirms, so its rules conflict over no unconditioned grant.
THEOREM UnconditionedGrantsAreDecidedAlways == Spec => []UnconditionedGrantsAreDecided
<1>1. TypeOK => UnconditionedGrantsAreDecided
  BY UnconditionedIsDecided DEF UnconditionedGrantsAreDecided
<1> QED
  BY <1>1, AuthorityTypeCorrect, PTL

\* For an action that changes nothing the adapter's early returns are the
\* kernel's deny rules.
LEMMA AdapterIsKernel ==
    ASSUME NEW i, i.action \notin MutationActions
    PROVE  AdapterDecide(i) = IF KernelDecide(i) = "error" THEN "deny" ELSE KernelDecide(i)
<1>1. ActionAllowedByLevel(i)
  BY DEF ActionAllowedByLevel
<1>2. Denies(i) => AdapterDecide(i) = "deny"
  BY <1>1 DEF Denies, AdapterDecide
<1>3. ~Denies(i) /\ RequiresApproval(i) => AdapterDecide(i) = "require_approval"
  BY <1>1 DEF Denies, AdapterDecide, RequiresApproval
<1>4. ~Denies(i) /\ ~RequiresApproval(i) => AdapterDecide(i) = "allow"
  BY <1>1 DEF Denies, AdapterDecide, RequiresApproval, GatesOk
<1> QED
  BY <1>2, <1>3, <1>4, KernelCases

\* On inspection and collection the in-process adapter decides as the kernel
\* does, and denies where the kernel fails, for any authority records.
THEOREM AdapterMirrorsInspectionAlways == Spec => []AdapterMirrorsInspection
<1>1. AdapterMirrorsInspection
  <2> SUFFICES ASSUME NEW r \in Request, r.action \notin MutationActions
               PROVE  AdapterDecide(PolicyInput(r)) =
                        IF KernelDecide(PolicyInput(r)) = "error" THEN "deny"
                        ELSE KernelDecide(PolicyInput(r))
    BY DEF AdapterMirrorsInspection
  <2>1. PolicyInput(r).action = r.action
    BY DEF PolicyInput
  <2> QED
    BY <2>1, AdapterIsKernel
<1> QED
  BY <1>1, PTL
=============================================================================
