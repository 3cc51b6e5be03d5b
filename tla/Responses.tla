----------------------------- MODULE Responses -----------------------------
(***************************************************************************)
(* Response proposals to confirmed incidents and their approval.  A        *)
(* proposal is classified by OPA when it is made; a decision first reads   *)
(* proposal, policy and clock, and then records itself in a transaction    *)
(* that locks the approval and the proposal.  Operators work at the same   *)
(* time, policy answers differ from call to call, and time passes between  *)
(* the two halves of a decision.  Nothing executes a proposal.             *)
(***************************************************************************)
EXTENDS Incidents

CONSTANTS
    Proposals, \* proposal contents: incident id, expiry and the rest
    Calls,     \* concurrent decision calls
    MaxTime,   \* bound on the clock
    None

ASSUME ResponseAssumption ==
    /\ MaxTime \in Nat
    /\ \A p \in Proposals : DOMAIN p = {"incident", "expires", "body"} /\ p.expires \in Nat

VARIABLES
    now,
    proposals, \* ResponseProposalRow by content: identity is its digest
    approvals, \* ApprovalRow (and capability request) by proposal
    calls      \* decisions that have passed their checks

responseVars == <<now, proposals, approvals, calls>>

OpaDecisions == {"ALLOW", "DENY", "REQUIRE_APPROVAL"}
Decisions    == {"approved", "denied"}
ProposalRow  == [opa : OpaDecisions, state : {"APPROVAL_REQUIRED", "APPROVED", "DENIED"}]
ApprovalRow  == [requestedBy : Principals, decidedBy : Principals \cup {None},
                 decision : Decisions \cup {"pending"}, decidedAt : 0..MaxTime]
Call         == [proposal : Proposals, by : Principals, decision : Decisions]

ASSUME NoneAssumption == None \notin ProposalRow /\ None \notin ApprovalRow /\ None \notin Call

ResponseInit ==
    /\ now = 0
    /\ proposals = [p \in Proposals |-> None]
    /\ approvals = [p \in Proposals |-> None]
    /\ calls = [c \in Calls |-> None]

Tick ==
    /\ now < MaxTime
    /\ now' = now + 1
    /\ UNCHANGED <<caseVars, rowVars, proposals, approvals, calls>>

\* The canonical incident of a proposal is confirmed.
Confirmed(p) == \E i \in incidents : i.id = p.incident /\ i.verdict = "CONFIRMED"

\* propose: what OPA says decides whether approval is asked for.  An error of
\* the policy client counts as DENY.
Proposed(opa) == [opa |-> opa, state |-> IF opa = "DENY" THEN "DENIED" ELSE "APPROVAL_REQUIRED"]
Pending(by)   == [requestedBy |-> by, decidedBy |-> None, decision |-> "pending", decidedAt |-> 0]

\* propose_response: proposal, capability request and approval are inserted in
\* one transaction; a repeated proposal must find equal rows, so that another
\* policy answer, another requester or a decision taken meanwhile refuse it.
Propose(p, by, opa) ==
    /\ IsOperator(by)
    /\ Confirmed(p) /\ p.expires > now
    /\ proposals[p] \in {None, Proposed(opa)}
    /\ opa # "DENY" => approvals[p] \in {None, Pending(by)}
    /\ proposals' = [proposals EXCEPT ![p] = Proposed(opa)]
    /\ approvals' = [approvals EXCEPT ![p] = IF opa = "DENY" THEN @ ELSE Pending(by)]
    /\ UNCHANGED <<caseVars, rowVars, now, calls>>

\* The first half of decide_response_approval: proposal and approval exist;
\* an approval also needs a policy that does not deny now, a confirmed
\* incident and a proposal that has not expired.
BeginDecision(c, p, by, decision, opa) ==
    /\ calls[c] = None
    /\ IsOperator(by)
    /\ proposals[p] # None /\ approvals[p] # None
    /\ decision = "approved" =>
         opa # "DENY" /\ Confirmed(p) /\ p.expires > now /\ proposals[p].opa # "DENY"
    /\ calls' = [calls EXCEPT ![c] = [proposal |-> p, by |-> by, decision |-> decision]]
    /\ UNCHANGED <<caseVars, rowVars, now, proposals, approvals>>

StateOf(decision) == IF decision = "approved" THEN "APPROVED" ELSE "DENIED"

\* Mutant of MayDecide: requesters may approve their own proposals.
MayDecideOwn(call) ==
    LET p == call.proposal
    IN  /\ IsOperator(call.by)
        /\ proposals[p].state \in {"APPROVAL_REQUIRED", StateOf(call.decision)}
        /\ approvals[p].decision = "pending"

\* Mutant of MayDecide: the approval's decision is not looked at.
MayDecideAgain(call) ==
    LET p == call.proposal
    IN  /\ IsOperator(call.by) /\ call.by # approvals[p].requestedBy
        /\ proposals[p].state \in {"APPROVAL_REQUIRED", StateOf(call.decision)}

\* What the locked rows must say.
MayDecide(call) ==
    LET p == call.proposal
    IN  /\ IsOperator(call.by) /\ call.by # approvals[p].requestedBy
        /\ proposals[p].state \in {"APPROVAL_REQUIRED", StateOf(call.decision)}
        /\ approvals[p].decision = "pending"

\* Mutant of RecordDecision: the state read before the lock is trusted.
RecordDecisionUnchecked(c) ==
    /\ calls[c] # None /\ calls[c].by # approvals[calls[c].proposal].requestedBy
    /\ LET call == calls[c]
       IN  /\ approvals' = [approvals EXCEPT ![call.proposal] =
                [@ EXCEPT !.decidedBy = call.by, !.decision = call.decision, !.decidedAt = now]]
           /\ proposals' = [proposals EXCEPT ![call.proposal].state =
                IF @ = "DENIED" THEN @ ELSE StateOf(call.decision)]
    /\ calls' = [calls EXCEPT ![c] = None]
    /\ UNCHANGED <<caseVars, rowVars, now>>

\* decide_approval.
RecordDecision(c) ==
    /\ calls[c] # None /\ MayDecide(calls[c])
    /\ LET call == calls[c]
       IN  /\ approvals' = [approvals EXCEPT ![call.proposal] =
                [@ EXCEPT !.decidedBy = call.by, !.decision = call.decision, !.decidedAt = now]]
           /\ proposals' = [proposals EXCEPT ![call.proposal].state = StateOf(call.decision)]
    /\ calls' = [calls EXCEPT ![c] = None]
    /\ UNCHANGED <<caseVars, rowVars, now>>

\* decide_approval raises, or answers an equal decision again, or the call is
\* lost before its transaction.
DecisionEnds(c) ==
    /\ calls[c] # None
    /\ calls' = [calls EXCEPT ![c] = None]
    /\ UNCHANGED <<caseVars, rowVars, now, proposals, approvals>>

Init == IncidentInit /\ ResponseInit

Next ==
    \/ \E s \in Signals : StoreSignal(s) /\ UNCHANGED responseVars
    \/ \E c \in Claims : StoreClaim(c) /\ UNCHANGED responseVars
    \/ \E h \in Hypotheses, by \in Principals : OpenHypothesis(h, by) /\ UNCHANGED responseVars
    \/ \E a \in Adjudicating : Adjudicate(a) /\ UNCHANGED responseVars
    \/ Tick
    \/ \E p \in Proposals, by \in Principals, opa \in OpaDecisions : Propose(p, by, opa)
    \/ \E c \in Calls, p \in Proposals, by \in Principals, d \in Decisions, opa \in OpaDecisions :
         BeginDecision(c, p, by, d, opa)
    \/ \E c \in Calls : RecordDecision(c) \/ DecisionEnds(c)

vars == <<caseVars, rowVars, responseVars>>

Spec == Init /\ [][Next]_vars

-----------------------------------------------------------------------------
\* Rows, clock and calls keep their types.
TypeOK ==
    /\ IncidentTypeOK
    /\ now \in 0..MaxTime
    /\ proposals \in [Proposals -> ProposalRow \cup {None}]
    /\ approvals \in [Proposals -> ApprovalRow \cup {None}]
    /\ calls \in [Calls -> Call \cup {None}]

\* An approved response answers a confirmed incident, was not denied by OPA
\* when it was proposed, and was approved by a human who did not propose it,
\* whoever else decided, proposed again or lost a race (propose, approve,
\* decide_approval).
ApprovedByASecondPerson ==
    \A p \in Proposals : proposals[p] # None /\ proposals[p].state = "APPROVED" =>
        /\ Confirmed(p) /\ proposals[p].opa # "DENY"
        /\ approvals[p].decision = "approved"
        /\ IsOperator(approvals[p].decidedBy)
        /\ approvals[p].decidedBy # approvals[p].requestedBy

\* Proposal and approval rows tell the same story: no approval exactly where
\* OPA denied, pending while one is required, and the human's word after it
\* (persist_response_proposal, decide_approval).
ApprovalMirrorsProposal ==
    \A p \in Proposals : proposals[p] # None =>
        /\ approvals[p] = None <=> proposals[p].opa = "DENY"
        /\ approvals[p] = None => proposals[p].state = "DENIED"
        /\ approvals[p] # None =>
             proposals[p].state = (IF approvals[p].decision = "pending" THEN "APPROVAL_REQUIRED"
                                   ELSE StateOf(approvals[p].decision))

\* A recorded decision, and who took it, never changes (decide_approval).
DecisionIsFinal ==
    [][\A p \in Proposals :
          approvals[p] # None /\ approvals[p].decision # "pending" => approvals'[p] = approvals[p]]_vars
=============================================================================
