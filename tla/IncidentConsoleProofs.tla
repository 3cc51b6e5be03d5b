----------------------- MODULE IncidentConsoleProofs -----------------------
(* Proofs about incidents, responses and the paged signal list, for any    *)
(* signals, claims, adjudications, proposals, callers and page size.       *)
EXTENDS IncidentConsole, FiniteSetTheorems, WellFoundedInduction, TLAPS

-----------------------------------------------------------------------------
(* Incidents *)

\* The adjudication a stored incident comes from passed every check, on rows
\* that are still there.
Adjudicated(i, a) ==
    /\ i = IncidentRow(a)
    /\ InvestigationRow(a) \in investigations
    /\ AdjudicationRow(a) \in adjudications
    /\ IsOperator(a.by) /\ a.hypothesis \in hypotheses
    /\ a.claims \subseteq claims /\ Grounded(a)

\* IncidentsAreGrounded is not inductive: an incident's evidence is compared
\* with signals through its hypothesis, and a second adjudication under an
\* identity is excluded by the rows that are there, not by the incident.
GroundInv ==
    /\ \A i \in incidents : \E a \in Adjudicating : Adjudicated(i, a)
    /\ \A d, e \in adjudications : d.id = e.id => d = e
    /\ \A h \in hypotheses : h.signals \subseteq signals

\* Rows of the incident tables are only added.
IncidentsGrow ==
    /\ signals \subseteq signals' /\ claims \subseteq claims'
    /\ hypotheses \subseteq hypotheses' /\ investigations \subseteq investigations'
    /\ adjudications \subseteq adjudications' /\ incidents \subseteq incidents'

LEMMA GrowStep == ASSUME [Next]_vars PROVE IncidentsGrow
BY DEF Next, StoreSignal, StoreClaim, OpenHypothesis, Adjudicate, SaveAdjudication, Tick,
   Propose, BeginDecision, RecordDecision, DecisionEnds, vars, caseVars, rowVars, IncidentsGrow

LEMMA StaysAdjudicated ==
    ASSUME IncidentsGrow, NEW i, NEW a, Adjudicated(i, a) PROVE Adjudicated(i, a)'
BY DEF IncidentsGrow, Adjudicated, IncidentRow, InvestigationRow, AdjudicationRow, IsOperator,
   AdjudicationId, Verdict, Grounded, RefsOfSignals, RefsOfClaims

LEMMA GroundStep == ASSUME GroundInv, [Next]_vars PROVE GroundInv'
<1>1. IncidentsGrow
  BY GrowStep
<1>2. ASSUME NEW i \in incidents PROVE \E a \in Adjudicating : Adjudicated(i, a)'
  BY <1>1, StaysAdjudicated DEF GroundInv
<1>3. ASSUME NEW h \in hypotheses PROVE h.signals \subseteq signals'
  BY <1>1 DEF GroundInv, IncidentsGrow
<1>4. ASSUME UNCHANGED <<hypotheses, adjudications, incidents>> PROVE GroundInv'
  BY <1>2, <1>3, <1>4 DEF GroundInv
<1>5. ASSUME NEW h \in Hypotheses, NEW by \in Principals, OpenHypothesis(h, by) PROVE GroundInv'
  BY <1>2, <1>3, <1>5 DEF OpenHypothesis, GroundInv, caseVars
<1>6. ASSUME NEW a \in Adjudicating, Adjudicate(a) PROVE GroundInv'
  <2>1. incidents' = incidents \cup {IncidentRow(a)} /\ hypotheses' = hypotheses
    BY <1>6 DEF Adjudicate, SaveAdjudication
  <2>2. Adjudicated(IncidentRow(a), a)'
    <3>1. IsOperator(a.by) /\ a.hypothesis \in hypotheses /\ a.claims \subseteq claims /\ Grounded(a)
      BY <1>6 DEF Adjudicate, Loaded
    <3>2. InvestigationRow(a) \in investigations' /\ AdjudicationRow(a) \in adjudications'
      BY <1>6 DEF Adjudicate, SaveAdjudication
    <3>3. QED
      BY <1>1, <3>1, <3>2 DEF Adjudicated, IncidentsGrow, IncidentRow, InvestigationRow,
         AdjudicationRow, IsOperator, AdjudicationId, Verdict, Grounded, RefsOfSignals, RefsOfClaims
  <2>3. \A d, e \in adjudications' : d.id = e.id => d = e
    BY <1>6 DEF Adjudicate, SaveAdjudication, Saves, GroundInv
  <2>4. QED
    BY <1>2, <1>3, <2>1, <2>2, <2>3 DEF GroundInv
<1>7. QED
  BY <1>4, <1>5, <1>6 DEF Next, StoreSignal, StoreClaim, Tick, Propose, BeginDecision,
     RecordDecision, DecisionEnds, vars, rowVars

\* The invariant gives the records, the single adjudication and the evidence.
LEMMA GroundedFromInv == GroundInv => IncidentsAreGrounded
<1> SUFFICES ASSUME GroundInv, NEW i \in incidents
             PROVE  /\ i.investigation \in investigations
                    /\ i.investigation.hypothesis \in hypotheses
                    /\ \E d \in adjudications : d.id = i.id /\ d.verdict = i.verdict /\ IsOperator(d.by)
                    /\ Cardinality({d \in adjudications : d.id = i.id}) = 1
                    /\ i.investigation.claims \subseteq claims
                    /\ i.investigation.hypothesis.signals \subseteq signals
                    /\ i.id[3] \subseteq RefsOfSignals(i.investigation.hypothesis.signals)
                                         \cap RefsOfClaims(i.investigation.claims)
  BY DEF IncidentsAreGrounded
<1>1. PICK a \in Adjudicating : Adjudicated(i, a)
  BY DEF GroundInv
<1>2. /\ i.id = AdjudicationId(a) /\ i.verdict = Verdict(a)
      /\ i.investigation = InvestigationRow(a)
      /\ i.investigation.hypothesis = a.hypothesis /\ i.investigation.claims = a.claims
  BY <1>1 DEF Adjudicated, IncidentRow, InvestigationRow
<1>3. /\ AdjudicationRow(a) \in adjudications /\ AdjudicationRow(a).id = i.id
      /\ AdjudicationRow(a).verdict = i.verdict /\ AdjudicationRow(a).by = a.by
  BY <1>1, <1>2 DEF Adjudicated, AdjudicationRow
<1>4. Cardinality({d \in adjudications : d.id = i.id}) = 1
  <2>1. {d \in adjudications : d.id = i.id} = {AdjudicationRow(a)}
    BY <1>3 DEF GroundInv
  <2>2. QED
    BY <2>1, FS_Singleton
<1>5. i.id[3] = a.evidence
  BY <1>2 DEF AdjudicationId
<1>6. /\ a.hypothesis.signals \subseteq signals
      /\ a.evidence \subseteq RefsOfSignals(a.hypothesis.signals) /\ a.evidence \subseteq RefsOfClaims(a.claims)
  BY <1>1 DEF GroundInv, Adjudicated, Grounded
<1>7. QED
  BY <1>1, <1>2, <1>3, <1>4, <1>5, <1>6 DEF Adjudicated

-----------------------------------------------------------------------------
(* Responses *)

\* ApprovalMirrorsProposal for the rows, and what a decision in flight may
\* rely on when it gets its locks: rows that exist and, if it approves, a
\* confirmed incident.  The checks of the first half stay true: incidents
\* are never withdrawn and a proposal keeps OPA's answer.
CallInv(c) ==
    calls[c] # None => /\ approvals[calls[c].proposal] # None
                       /\ calls[c].decision = "approved" => Confirmed(calls[c].proposal)

ResponseInv ==
    /\ now \in 0..MaxTime
    /\ proposals \in [Proposals -> ProposalRow \cup {None}]
    /\ approvals \in [Proposals -> ApprovalRow \cup {None}]
    /\ calls \in [Calls -> Call \cup {None}]
    /\ \A p \in Proposals : approvals[p] # None => proposals[p] # None
    /\ \A c \in Calls : CallInv(c)
    /\ ApprovalMirrorsProposal
    /\ ApprovedByASecondPerson

LEMMA ConfirmedStays ==
    ASSUME IncidentsGrow, NEW p, Confirmed(p) PROVE Confirmed(p)'
BY DEF IncidentsGrow, Confirmed

LEMMA ProposeStep ==
    ASSUME ResponseInv, NEW p \in Proposals, NEW by \in Principals, NEW opa \in OpaDecisions,
           Propose(p, by, opa)
    PROVE  ResponseInv'
<1>1. UNCHANGED <<now, calls, incidents>>
  BY DEF Propose, rowVars
<1>2. Proposed(opa) \in ProposalRow /\ Pending(by) \in ApprovalRow
  BY ResponseAssumption DEF Proposed, Pending, ProposalRow, ApprovalRow, OpaDecisions, Decisions
<1>3. Proposed(opa) # None /\ Pending(by) # None
  BY <1>2, NoneAssumption
<1>4. /\ proposals' = [proposals EXCEPT ![p] = Proposed(opa)]
      /\ approvals' = [approvals EXCEPT ![p] = IF opa = "DENY" THEN approvals[p] ELSE Pending(by)]
  BY DEF Propose
<1>5. proposals[p] \in {None, Proposed(opa)}
  BY DEF Propose
<1>6. /\ proposals' \in [Proposals -> ProposalRow \cup {None}]
      /\ approvals' \in [Proposals -> ApprovalRow \cup {None}]
  BY <1>2, <1>4 DEF ResponseInv
<1>7. /\ proposals'[p] = Proposed(opa)
      /\ approvals'[p] = IF opa = "DENY" THEN None ELSE Pending(by)
  BY <1>3, <1>4, <1>5 DEF ResponseInv, ApprovalMirrorsProposal, Proposed
<1>8. ASSUME NEW q \in Proposals, q # p
      PROVE  proposals'[q] = proposals[q] /\ approvals'[q] = approvals[q]
  BY <1>4, <1>8 DEF ResponseInv
<1>9. ASSUME NEW q \in Proposals PROVE approvals[q] # None => approvals'[q] # None
  BY <1>3, <1>4 DEF ResponseInv
<1>10. ApprovalMirrorsProposal'
  BY <1>3, <1>7, <1>8 DEF ResponseInv, ApprovalMirrorsProposal, Proposed, Pending, StateOf
<1>11. ApprovedByASecondPerson'
  BY <1>1, <1>7, <1>8 DEF ResponseInv, ApprovedByASecondPerson, Proposed, Confirmed, IsOperator
<1>12. \A q \in Proposals : approvals'[q] # None => proposals'[q] # None
  BY <1>3, <1>7, <1>8 DEF ResponseInv
<1>13. ASSUME NEW c \in Calls PROVE CallInv(c)'
  <2>1. calls[c] # None => calls[c].proposal \in Proposals
    BY DEF ResponseInv, Call
  <2>2. QED
    BY <1>1, <1>9, <2>1 DEF ResponseInv, CallInv, Confirmed
<1>14. QED
  BY <1>1, <1>6, <1>10, <1>11, <1>12, <1>13 DEF ResponseInv

\* A decision starts: nothing but the call changes, and its checks are what
\* the invariant asks of it.
LEMMA BeginStep ==
    ASSUME ResponseInv, NEW c \in Calls, NEW p \in Proposals, NEW by \in Principals,
           NEW d \in Decisions, NEW opa \in OpaDecisions, BeginDecision(c, p, by, d, opa)
    PROVE  ResponseInv'
<1>1. UNCHANGED <<now, proposals, approvals, incidents>>
  BY DEF BeginDecision, rowVars
<1>2. calls' = [calls EXCEPT ![c] = [proposal |-> p, by |-> by, decision |-> d]]
  BY DEF BeginDecision
<1>3. calls' \in [Calls -> Call \cup {None}]
  BY <1>2 DEF ResponseInv, Call
<1>4. ASSUME NEW b \in Calls PROVE CallInv(b)'
  <2>1. CASE b = c
    BY <1>1, <1>2, <2>1 DEF BeginDecision, ResponseInv, CallInv, Confirmed
  <2>2. CASE b # c
    BY <1>1, <1>2, <2>2 DEF ResponseInv, CallInv, Confirmed
  <2>3. QED
    BY <2>1, <2>2
<1>5. ApprovalMirrorsProposal' /\ ApprovedByASecondPerson'
  BY <1>1 DEF ResponseInv, ApprovalMirrorsProposal, ApprovedByASecondPerson, Confirmed, IsOperator, StateOf
<1>6. QED
  BY <1>1, <1>3, <1>4, <1>5 DEF ResponseInv

\* A decision is recorded over a pending approval, so the proposal still
\* requires one and follows the decision.
LEMMA RecordStep ==
    ASSUME ResponseInv, NEW c \in Calls, RecordDecision(c)
    PROVE  ResponseInv'
<1> DEFINE k == calls[c]
           p == k.proposal
<1>1. k \in Call /\ p \in Proposals /\ k.by \in Principals /\ k.decision \in Decisions /\ k # None
  BY DEF ResponseInv, RecordDecision, Call
<1>2. approvals[p] \in ApprovalRow /\ proposals[p] \in ProposalRow /\ approvals[p] # None
  BY <1>1 DEF ResponseInv, CallInv
<1>3. /\ IsOperator(k.by) /\ k.by # approvals[p].requestedBy
      /\ approvals[p].decision = "pending"
      /\ k.decision = "approved" => Confirmed(p)
      /\ proposals[p].opa # "DENY"
  BY <1>1, <1>2, NoneAssumption DEF RecordDecision, MayDecide, ResponseInv, CallInv, ApprovalMirrorsProposal
<1> DEFINE ap == [approvals[p] EXCEPT !.decidedBy = k.by, !.decision = k.decision, !.decidedAt = now]
           pr == [proposals[p] EXCEPT !.state = StateOf(k.decision)]
<1>4. /\ approvals' = [approvals EXCEPT ![p] = ap] /\ proposals' = [proposals EXCEPT ![p] = pr]
      /\ calls' = [calls EXCEPT ![c] = None] /\ UNCHANGED <<now, incidents>>
  BY DEF RecordDecision, rowVars
<1>5. /\ ap \in ApprovalRow /\ ap.decidedBy = k.by /\ ap.decision = k.decision
      /\ ap.requestedBy = approvals[p].requestedBy
  BY <1>1, <1>2 DEF ApprovalRow, Decisions, ResponseInv
<1>6. pr \in ProposalRow /\ pr.state = StateOf(k.decision) /\ pr.opa = proposals[p].opa
  BY <1>2 DEF ProposalRow, StateOf
<1> HIDE DEF k, p, ap, pr
<1>7. ap # None /\ pr # None
  BY <1>5, <1>6, NoneAssumption
<1>8. /\ proposals' \in [Proposals -> ProposalRow \cup {None}]
      /\ approvals' \in [Proposals -> ApprovalRow \cup {None}]
      /\ calls' \in [Calls -> Call \cup {None}]
  BY <1>4, <1>5, <1>6 DEF ResponseInv
<1>9. proposals'[p] = pr /\ approvals'[p] = ap
  BY <1>1, <1>4 DEF ResponseInv
<1>10. ASSUME NEW q \in Proposals, q # p
       PROVE  proposals'[q] = proposals[q] /\ approvals'[q] = approvals[q]
  BY <1>4, <1>10 DEF ResponseInv
<1>11. \A q \in Proposals : approvals'[q] # None => proposals'[q] # None
  BY <1>7, <1>9, <1>10 DEF ResponseInv
<1>12. ASSUME NEW b \in Calls PROVE CallInv(b)'
  <2>1. calls'[b] # None => calls'[b] = calls[b] /\ calls[b].proposal \in Proposals
    BY <1>4 DEF ResponseInv, Call
  <2>2. \A q \in Proposals : approvals[q] # None => approvals'[q] # None
    BY <1>7, <1>9, <1>10
  <2>3. QED
    BY <1>4, <2>1, <2>2 DEF ResponseInv, CallInv, Confirmed
<1>13. ApprovalMirrorsProposal'
  BY <1>1, <1>3, <1>5, <1>6, <1>7, <1>9, <1>10 DEF ResponseInv, ApprovalMirrorsProposal, StateOf, Decisions
<1>14. ApprovedByASecondPerson'
  <2>1. ASSUME NEW q \in Proposals, q # p, proposals'[q] # None, proposals'[q].state = "APPROVED"
        PROVE  /\ Confirmed(q) /\ proposals'[q].opa # "DENY" /\ approvals'[q].decision = "approved"
               /\ IsOperator(approvals'[q].decidedBy)
               /\ approvals'[q].decidedBy # approvals'[q].requestedBy
    BY <1>10, <2>1 DEF ResponseInv, ApprovedByASecondPerson
  <2>2. ASSUME pr.state = "APPROVED"
        PROVE  /\ Confirmed(p) /\ pr.opa # "DENY" /\ ap.decision = "approved"
               /\ IsOperator(ap.decidedBy) /\ ap.decidedBy # ap.requestedBy
    BY <1>1, <1>3, <1>5, <1>6, <2>2 DEF StateOf, Decisions
  <2>3. QED
    BY <1>1, <1>4, <1>9, <2>1, <2>2 DEF ApprovedByASecondPerson, Confirmed, IsOperator
<1>15. QED
  BY <1>4, <1>8, <1>11, <1>12, <1>13, <1>14 DEF ResponseInv

LEMMA ResponseStep == ASSUME ResponseInv, [Next]_vars PROVE ResponseInv'
<1>1. IncidentsGrow
  BY GrowStep
<1>2. ASSUME UNCHANGED <<proposals, approvals>>, now' \in 0..MaxTime, calls' \in [Calls -> Call \cup {None}],
             \A c \in Calls : calls'[c] \in {calls[c], None}
      PROVE  ResponseInv'
  <2>1. \A q : Confirmed(q) => Confirmed(q)'
    BY <1>1, ConfirmedStays
  <2>2. ApprovalMirrorsProposal' /\ ApprovedByASecondPerson'
    BY <1>2, <2>1 DEF ResponseInv, ApprovalMirrorsProposal, ApprovedByASecondPerson, IsOperator, StateOf
  <2>3. ASSUME NEW c \in Calls PROVE CallInv(c)'
    <3>1. calls'[c] \in {calls[c], None} /\ CallInv(c)
      BY <1>2 DEF ResponseInv
    <3>2. CASE calls'[c] = None
      BY <3>2 DEF CallInv
    <3>3. CASE calls'[c] = calls[c]
      BY <1>1, <1>2, <3>1, <3>3 DEF CallInv, Confirmed, IncidentsGrow
    <3>4. QED
      BY <3>1, <3>2, <3>3
  <2>4. QED
    BY <1>2, <2>2, <2>3 DEF ResponseInv
<1>3. ASSUME UNCHANGED responseVars PROVE ResponseInv'
  BY <1>2, <1>3 DEF responseVars, ResponseInv
<1>4. ASSUME Tick PROVE ResponseInv'
  BY <1>2, <1>4, ResponseAssumption DEF Tick, ResponseInv
<1>5. ASSUME NEW c \in Calls, DecisionEnds(c) PROVE ResponseInv'
  BY <1>2, <1>5 DEF DecisionEnds, ResponseInv
<1>6. QED
  BY <1>3, <1>4, <1>5, ProposeStep, BeginStep, RecordStep DEF Next, vars

-----------------------------------------------------------------------------
(* The console *)

ConsoleInv == GroundInv /\ ResponseInv

LEMMA ConsoleInvariant == ConsoleSpec => []ConsoleInv
<1>1. ConsoleInit => ConsoleInv
  <2> SUFFICES ASSUME Init PROVE ConsoleInv
    BY DEF ConsoleInit
  <2>1. GroundInv
    BY DEF Init, IncidentInit, GroundInv
  <2>2. ResponseInv
    BY ResponseAssumption DEF Init, ResponseInit, ResponseInv, CallInv, ApprovalMirrorsProposal,
       ApprovedByASecondPerson
  <2>3. QED
    BY <2>1, <2>2 DEF ConsoleInv
<1>2. ConsoleInv /\ [ConsoleNext]_ConsoleVars => ConsoleInv'
  <2> SUFFICES ASSUME ConsoleInv, [ConsoleNext]_ConsoleVars PROVE ConsoleInv'
    OBVIOUS
  <2>1. [Next]_vars
    BY DEF ConsoleNext, ConsoleVars
  <2>2. QED
    BY <2>1, GroundStep, ResponseStep DEF ConsoleInv
<1>3. QED
  BY <1>1, <1>2, PTL DEF ConsoleSpec

\* Every incident stands on a stored hypothesis, investigation and exactly one
\* adjudication by a human, and its evidence on stored signals and claims, for
\* any adjudications requested in any order.
THEOREM IncidentsAreGroundedAlways == ConsoleSpec => []IncidentsAreGrounded
BY ConsoleInvariant, GroundedFromInv, PTL DEF ConsoleInv

\* An approved response was approved by an operator other than the one who
\* proposed it, for a confirmed incident, however many decisions race.
THEOREM ApprovedByASecondPersonAlways == ConsoleSpec => []ApprovedByASecondPerson
BY ConsoleInvariant, PTL DEF ConsoleInv, ResponseInv

\* Proposal and approval rows always agree.
THEOREM ApprovalMirrorsProposalAlways == ConsoleSpec => []ApprovalMirrorsProposal
BY ConsoleInvariant, PTL DEF ConsoleInv, ResponseInv

\* No step changes a decided approval: a repeated proposal must find a pending
\* one, and a racing decision finds it decided when it gets the lock.
THEOREM DecisionIsFinalAlways == ConsoleSpec => DecisionIsFinal
<1> DEFINE Final == \A p \in Proposals :
        approvals[p] # None /\ approvals[p].decision # "pending" => approvals'[p] = approvals[p]
<1>1. ASSUME ConsoleInv, [Next]_vars PROVE Final
  <2>1. approvals \in [Proposals -> ApprovalRow \cup {None}]
    BY <1>1 DEF ConsoleInv, ResponseInv
  <2>2. ASSUME NEW p \in Proposals, NEW by \in Principals, NEW opa \in OpaDecisions, Propose(p, by, opa)
        PROVE  Final
    BY <2>1, <2>2 DEF Propose, Pending
  <2>3. ASSUME NEW c \in Calls, RecordDecision(c) PROVE Final
    BY <2>1, <2>3 DEF RecordDecision, MayDecide
  <2>4. ASSUME approvals' = approvals PROVE Final
    BY <2>4
  <2>5. QED
    BY <1>1, <2>2, <2>3, <2>4 DEF Next, Tick, BeginDecision, DecisionEnds, responseVars, vars
<1>2. ConsoleInv /\ [ConsoleNext]_ConsoleVars => [Final]_vars
  BY <1>1 DEF ConsoleNext, ConsoleVars
<1>3. QED
  BY <1>2, ConsoleInvariant, PTL DEF ConsoleSpec, DecisionIsFinal

-----------------------------------------------------------------------------
(* Pages of a growing list *)

\* A set of natural numbers that is not empty has a least element.
LEMMA LeastElement ==
    ASSUME NEW T \in SUBSET Nat, T # {}
    PROVE  \E m \in T : \A k \in T : m <= k
<1> DEFINE R == {ss \in Nat \X Nat : ss[1] < ss[2]}
<1>1. IsWellFoundedOn(R, Nat)
  BY NatLessThanWellFounded, Zenon DEF OpToRel
<1> HIDE DEF R
<1>2. PICK m \in T : \A k \in T : ~(<<k, m>> \in R)
  BY <1>1, WFMin
<1>3. ASSUME NEW k \in T PROVE m <= k
  <2>1. <<k, m>> \in Nat \X Nat /\ <<k, m>>[1] = k /\ <<k, m>>[2] = m
    OBVIOUS
  <2>2. ~(k < m)
    BY <1>2, <2>1, Zenon DEF R
  <2>3. QED
    BY <2>2
<1>4. QED
  BY <1>3

\* The last row before z, if there is one.
LEMMA Predecessor ==
    ASSUME NEW rows \in SUBSET Nat, NEW z \in Nat, \E y \in rows : y < z
    PROVE  \E m \in rows : m < z /\ \A y \in rows : y < z => y <= m
<1> DEFINE T == {z - y : y \in {x \in rows : x < z}}
<1>1. T \in SUBSET Nat /\ T # {}
  OBVIOUS
<1>2. PICK d \in T : \A k \in T : d <= k
  BY <1>1, LeastElement
<1>3. PICK m \in rows : m < z /\ d = z - m
  OBVIOUS
<1>4. ASSUME NEW y \in rows, y < z PROVE y <= m
  <2>1. z - y \in T
    BY <1>4
  <2>2. z - m <= z - y
    BY <1>2, <1>3, <2>1
  <2>3. m \in Nat /\ y \in Nat
    OBVIOUS
  <2>4. QED
    BY <2>2, <2>3
<1>5. QED
  BY <1>3, <1>4

LEMMA PositionType ==
    ASSUME NEW rows \in SUBSET Nat, IsFiniteSet(rows), NEW x \in Nat
    PROVE  Position(rows, x) \in Nat /\ IsFiniteSet({y \in rows : y < x})
BY FS_Subset, FS_CardinalityType DEF Position

\* Positions follow the order of the rows, and inserting rows raises them.
LEMMA PositionMonotonic ==
    ASSUME NEW rows \in SUBSET Nat, IsFiniteSet(rows), NEW S \in SUBSET rows,
           NEW w \in Nat, NEW x \in Nat, w <= x
    PROVE  Position(S, w) <= Position(rows, x)
<1>1. {y \in S : y < w} \subseteq {y \in rows : y < x}
  <2>1. ASSUME NEW y \in S, y < w PROVE y \in rows /\ y < x
    <3>1. y \in Nat
      OBVIOUS
    <3>2. QED
      BY <2>1, <3>1
  <2>2. QED
    BY <2>1
<1>2. QED
  BY <1>1, PositionType, FS_Subset DEF Position

\* The first row at or after position o is at position o: positions have no
\* gaps.
LEMMA FirstFrom ==
    ASSUME NEW rows \in SUBSET Nat, IsFiniteSet(rows), NEW o \in Nat,
           NEW x \in rows, o <= Position(rows, x)
    PROVE  \E z \in rows : /\ z <= x /\ Position(rows, z) = o
                           /\ \A y \in rows : o <= Position(rows, y) <=> z <= y
<1> DEFINE T == {y \in rows : o <= Position(rows, y)}
<1>1. T \in SUBSET Nat /\ x \in T
  OBVIOUS
<1>2. PICK z \in T : \A y \in T : z <= y
  BY <1>1, LeastElement
<1>3. z \in rows /\ z \in Nat /\ z <= x /\ o <= Position(rows, z) /\ Position(rows, z) \in Nat
  BY <1>1, <1>2, PositionType
<1>4. Position(rows, z) <= o
  <2>1. CASE ~ \E y \in rows : y < z
    <3>1. {y \in rows : y < z} = {}
      BY <2>1
    <3>2. QED
      BY <3>1, FS_EmptySet DEF Position
  <2>2. CASE \E y \in rows : y < z
    <3>1. PICK m \in rows : m < z /\ \A y \in rows : y < z => y <= m
      BY <1>3, <2>2, Predecessor
    <3>2. m \in Nat /\ m \notin {y \in rows : y < m} /\ IsFiniteSet({y \in rows : y < m})
      BY PositionType
    <3>3. {y \in rows : y < z} = {y \in rows : y < m} \cup {m}
      <4>1. ASSUME NEW y \in rows PROVE y < z <=> y < m \/ y = m
        <5>1. y \in Nat
          OBVIOUS
        <5>2. QED
          BY <1>3, <3>1, <3>2, <5>1
      <4>2. QED
        BY <4>1
    <3>4. Position(rows, z) = Position(rows, m) + 1
      BY <3>2, <3>3, FS_AddElement DEF Position
    <3>5. Position(rows, m) \in Nat /\ Position(rows, m) < o
      BY <1>2, <1>3, <3>1, <3>2, PositionType
    <3>6. QED
      BY <3>4, <3>5
  <2>3. QED
    BY <2>1, <2>2
<1>5. ASSUME NEW y \in rows PROVE o <= Position(rows, y) <=> z <= y
  <2>1. z <= y => Position(rows, z) <= Position(rows, y)
    BY <1>3, PositionMonotonic
  <2>2. Position(rows, y) \in Nat
    BY PositionType
  <2>3. QED
    BY <1>2, <1>3, <2>1, <2>2
<1>6. QED
  BY <1>3, <1>4, <1>5

\* The row after the page is fetched whenever there is a row after the page:
\* no cursor means that the page was the last one.
LEMMA LastPage ==
    ASSUME NEW rows \in SUBSET Nat, IsFiniteSet(rows), NEW o \in Nat, NextCursor(rows, o) = NoPage,
           NEW x \in rows
    PROVE  Position(rows, x) < o + Limit
<1>0. x \in Nat /\ rows \subseteq Nat
  OBVIOUS
<1>1. Limit \in Nat /\ o + Limit \in Nat /\ o + Limit # NoPage /\ Position(rows, x) \in Nat
  <2>1. Limit \in Nat
    BY ReadsAssumption
  <2>2. o + Limit \in Nat
    BY <2>1
  <2>3. o + Limit # NoPage
    BY <2>2, ReadsAssumption, Zenon
  <2>4. Position(rows, x) \in Nat
    BY <1>0, PositionType, Zenon
  <2>5. QED
    BY <2>1, <2>2, <2>3, <2>4
<1> SUFFICES ASSUME o + Limit <= Position(rows, x) PROVE FALSE
  BY <1>1
<1>2. PICK b \in rows : /\ b <= x /\ Position(rows, b) = o + Limit
                        /\ \A y \in rows : o + Limit <= Position(rows, y) <=> b <= y
  BY <1>1, FirstFrom
<1>3. o <= Position(rows, b)
  BY <1>1, <1>2
<1>4. PICK a \in rows : /\ a <= b /\ Position(rows, a) = o
                        /\ \A y \in rows : o <= Position(rows, y) <=> a <= y
  BY <1>3, FirstFrom
<1> DEFINE W    == Window(rows, o, Limit + 1)
           page == {y \in rows : a <= y /\ y < b}
           low  == {y \in rows : y < a}
<1>5. IsFiniteSet(W) /\ IsFiniteSet(page) /\ IsFiniteSet(low)
  BY FS_Subset DEF Window
<1>6. Cardinality(page) = Limit
  <2>1. {y \in rows : y < b} = low \cup page /\ low \cap page = {}
    <3>1. a \in Nat /\ b \in Nat
      BY <1>0
    <3>2. ASSUME NEW y \in rows PROVE (y < b <=> y < a \/ (a <= y /\ y < b)) /\ ~(y < a /\ a <= y)
      <4>1. y \in Nat
        BY <1>0
      <4>2. QED
        BY <1>4, <3>1, <4>1
    <3>3. QED
      BY <3>2
  <2>2. Cardinality(low \cup page) = Cardinality(low) + Cardinality(page) - 0
    BY <1>5, <2>1, FS_Union, FS_EmptySet
  <2>3. Cardinality(low) = o /\ Cardinality(low \cup page) = o + Limit
    BY <1>2, <1>4, <2>1 DEF Position
  <2>4. QED
    BY <1>1, <1>5, <2>2, <2>3, FS_CardinalityType
<1>7. page \cup {b} \subseteq W
  <2>1. b \in W
    BY <1>1, <1>2 DEF Window
  <2>2. ASSUME NEW y \in page PROVE y \in W
    <3>1. o <= Position(rows, y) /\ ~(o + Limit <= Position(rows, y)) /\ Position(rows, y) \in Nat
      <4>1. y \in rows /\ y \in Nat /\ b \in Nat /\ a <= y /\ ~(b <= y)
        BY <1>0
      <4>2. QED
        BY <1>2, <1>4, <4>1, PositionType
    <3>2. QED
      BY <1>1, <3>1 DEF Window
  <2>3. QED
    BY <2>1, <2>2
<1>8. Cardinality(page \cup {b}) = Limit + 1 /\ IsFiniteSet(page \cup {b})
  <2>1. b \notin page
    BY <1>0
  <2>2. QED
    BY <1>5, <1>6, <2>1, FS_AddElement
<1>9. Cardinality(W) > Limit
  <2>1. Cardinality(page \cup {b}) <= Cardinality(W) /\ Cardinality(W) \in Nat
    BY <1>5, <1>7, FS_Subset, FS_CardinalityType
  <2>2. QED
    BY <1>1, <1>8, <2>1
<1>10. QED
  BY <1>1, <1>9 DEF NextCursor

\* What a reader has not been shown of the first page's list still lies at or
\* behind the cursor.
WalkInv ==
    walk # NoPage =>
        /\ walk \in Walk /\ walk.first \subseteq SignalList
        /\ \A x \in walk.first \ walk.shown :
              walk.cursor # NoPage /\ walk.cursor <= Position(SignalList, x)

\* A page keeps that, from a list in which everything not yet shown lies at or
\* behind its offset.
LEMMA PageKeeps ==
    ASSUME NEW rows \in SUBSET Nat, IsFiniteSet(rows), NEW o \in Nat,
           NEW shown \in SUBSET Nat, NEW first \in SUBSET rows,
           \A x \in first \ shown : o <= Position(rows, x)
    PROVE  LET w == Page(rows, o, shown, first)
           IN  /\ w \in Walk /\ w.first = first
               /\ \A x \in first \ w.shown : w.cursor # NoPage /\ w.cursor <= Position(rows, x)
<1> DEFINE w == Page(rows, o, shown, first)
<1>1. /\ w.cursor = NextCursor(rows, o) /\ w.shown = shown \cup Window(rows, o, Limit) /\ w.first = first
      /\ w \in Walk
  <2>1. Limit \in Nat
    BY ReadsAssumption
  <2>2. o + Limit \in Nat
    BY <2>1
  <2>3. NextCursor(rows, o) \in Nat \cup {NoPage}
    BY <2>2, Zenon DEF NextCursor
  <2>4. shown \cup Window(rows, o, Limit) \in SUBSET Nat /\ first \in SUBSET Nat
    BY DEF Window
  <2>5. QED
    BY <2>3, <2>4 DEF Page, Walk
<1> HIDE DEF w
<1>2. ASSUME NEW x \in first, x \notin w.shown
      PROVE  w.cursor # NoPage /\ w.cursor <= Position(rows, x)
  <2>1. x \in rows /\ o <= Position(rows, x) /\ Position(rows, x) \in Nat
    BY <1>1, <1>2, PositionType
  <2>2. ~(Position(rows, x) < o + Limit)
    BY <1>1, <1>2, <2>1 DEF Window
  <2>3. NextCursor(rows, o) # NoPage
    BY <2>1, <2>2, LastPage
  <2>4. NextCursor(rows, o) = o + Limit
    BY <2>3 DEF NextCursor
  <2>5. QED
    BY <1>1, <2>1, <2>2, <2>3, <2>4, ReadsAssumption
<1>3. QED
  BY <1>1, <1>2 DEF w

LEMMA SignalListFinite ==
    ASSUME signals \subseteq Signals
    PROVE  SignalList \in SUBSET Nat /\ IsFiniteSet(SignalList)
<1>1. SignalList \in SUBSET Nat
  BY OrderAssumption DEF SignalList
<1>2. IsFiniteSet(signals)
  BY OrderAssumption, FS_Subset
<1>3. [s \in signals |-> SignalOrder[s]] \in Surjection(signals, SignalList)
  BY DEF Surjection, SignalList
<1>4. QED
  BY <1>1, <1>2, <1>3, FS_Surjection

LEMMA WalkStep ==
    ASSUME signals \subseteq Signals, signals' \subseteq Signals, WalkInv, [ConsoleNext]_ConsoleVars
    PROVE  WalkInv'
<1>1. SignalList \in SUBSET Nat /\ IsFiniteSet(SignalList)
  BY SignalListFinite
<1>2. CASE walk' = walk /\ signals \subseteq signals'
  <2>1. SignalList \subseteq SignalList' /\ SignalList' \in SUBSET Nat /\ IsFiniteSet(SignalList')
    <3>1. SignalList \subseteq SignalList'
      BY <1>2 DEF SignalList
    <3>2. SignalList' \in SUBSET Nat /\ IsFiniteSet(SignalList')
      <4>1. SignalList' = {SignalOrder[s] : s \in signals'}
        BY DEF SignalList
      <4>2. SignalList' \in SUBSET Nat
        BY <4>1, OrderAssumption
      <4>3. IsFiniteSet(signals')
        BY OrderAssumption, FS_Subset
      <4>4. [s \in signals' |-> SignalOrder[s]] \in Surjection(signals', SignalList')
        BY <4>1 DEF Surjection
      <4>5. QED
        BY <4>2, <4>3, <4>4, FS_Surjection
    <3>3. QED
      BY <3>1, <3>2
  <2>2. ASSUME walk # NoPage, NEW x \in walk.first \ walk.shown
        PROVE  walk.cursor # NoPage /\ walk.cursor <= Position(SignalList', x)
    <3>1. walk.cursor # NoPage /\ walk.cursor <= Position(SignalList, x) /\ x \in SignalList
      BY <2>2 DEF WalkInv
    <3>2. walk.cursor \in Nat
      BY <2>2, <3>1 DEF WalkInv, Walk
    <3>3. Position(SignalList, x) <= Position(SignalList', x)
      BY <1>1, <2>1, <3>1, PositionMonotonic
    <3>4. Position(SignalList, x) \in Nat /\ Position(SignalList', x) \in Nat
      BY <1>1, <2>1, <3>1, PositionType
    <3>5. QED
      BY <3>1, <3>2, <3>3, <3>4
  <2>3. QED
    BY <1>2, <2>1, <2>2 DEF WalkInv, Position
<1>3. CASE FirstPage(SignalList) /\ signals' = signals
  <2>1. walk' = Page(SignalList, 0, {}, SignalList) /\ SignalList' = SignalList
    BY <1>3 DEF FirstPage, SignalList
  <2>2. ASSUME NEW x \in SignalList PROVE 0 <= Position(SignalList, x)
    <3>1. x \in Nat
      BY <1>1
    <3>2. Position(SignalList, x) \in Nat
      BY <1>1, <3>1, PositionType, Zenon
    <3>3. QED
      BY <3>2
  <2>3. walk' \in Walk /\ walk'.first = SignalList
        /\ \A x \in SignalList \ walk'.shown : walk'.cursor # NoPage /\ walk'.cursor <= Position(SignalList, x)
    BY <1>1, <2>1, <2>2, PageKeeps
  <2>4. QED
    BY <2>1, <2>3 DEF WalkInv, Position
<1>4. CASE NextPage(SignalList) /\ signals' = signals
  <2>1. walk' = Page(SignalList, walk.cursor, walk.shown, walk.first) /\ SignalList' = SignalList
    BY <1>4 DEF NextPage, SignalList
  <2>2. walk.cursor \in Nat /\ walk.shown \in SUBSET Nat /\ walk.first \in SUBSET SignalList
    BY <1>4 DEF NextPage, WalkInv, Walk
  <2>3. \A x \in walk.first \ walk.shown : walk.cursor <= Position(SignalList, x)
    BY <1>4 DEF NextPage, WalkInv
  <2>4. walk' \in Walk /\ walk'.first = walk.first
        /\ \A x \in walk.first \ walk'.shown : walk'.cursor # NoPage /\ walk'.cursor <= Position(SignalList, x)
    <3> DEFINE o     == walk.cursor
               shown == walk.shown
               first == walk.first
    <3>1. /\ o \in Nat /\ shown \in SUBSET Nat /\ first \in SUBSET SignalList
          /\ SignalList \in SUBSET Nat /\ IsFiniteSet(SignalList)
          /\ \A x \in first \ shown : o <= Position(SignalList, x)
      BY <1>1, <2>2, <2>3
    <3> HIDE DEF o, shown, first
    <3>2. LET w == Page(SignalList, o, shown, first)
          IN  /\ w \in Walk /\ w.first = first
              /\ \A x \in first \ w.shown : w.cursor # NoPage /\ w.cursor <= Position(SignalList, x)
      BY <3>1, PageKeeps
    <3> QED
      BY <2>1, <3>2 DEF o, shown, first
  <2>5. QED
    BY <2>1, <2>2, <2>4 DEF WalkInv, Position
<1>5. CASE EndWalk
  BY <1>5 DEF EndWalk, WalkInv
<1>6. QED
  <2>1. [Next]_vars
    BY DEF ConsoleNext, ConsoleVars
  <2>2. signals \subseteq signals'
    BY <2>1, GrowStep DEF IncidentsGrow
  <2>3. QED
    BY <1>2, <1>3, <1>4, <1>5, <2>2 DEF ConsoleNext, ConsoleVars, vars, caseVars

\* A reader who walks the signal list to its last page is shown every row that
\* was there at the first page, for any page size and wherever detection
\* inserts signals meanwhile: insertions only move unseen rows back.
THEOREM NoRowIsMissedAlways == ConsoleSpec => []NoRowIsMissed
<1> DEFINE SignalsOK == signals \subseteq Signals
<1>1. ConsoleInit => SignalsOK /\ WalkInv
  BY DEF ConsoleInit, Init, IncidentInit, ReadsInit, WalkInv
<1>2. SignalsOK /\ [ConsoleNext]_ConsoleVars => SignalsOK'
  BY DEF ConsoleNext, ConsoleVars, Next, StoreSignal, StoreClaim, OpenHypothesis, Adjudicate,
     SaveAdjudication, Tick, Propose, BeginDecision, RecordDecision, DecisionEnds, vars, caseVars
<1>3. SignalsOK /\ SignalsOK' /\ WalkInv /\ [ConsoleNext]_ConsoleVars => WalkInv'
  BY WalkStep
<1>4. WalkInv => NoRowIsMissed
  BY DEF WalkInv, NoRowIsMissed
<1>5. QED
  BY <1>1, <1>2, <1>3, <1>4, PTL DEF ConsoleSpec
=============================================================================
