----------------------------- MODULE Engagement -----------------------------
(***************************************************************************)
(* The engagement aggregate and its application service: the transition    *)
(* table, suspension with the state to return to, the status history and   *)
(* the audit trail, with every service call taken as one step.  This is    *)
(* what the callers that own the object alone (a database transaction, a   *)
(* workflow activity) rely on; EngagementApi takes the same statements one *)
(* by one, on several threads.                                             *)
(***************************************************************************)
EXTENDS Naturals, Sequences

CONSTANTS None,        \* suspended_from is None
          MaxHistory   \* bound of the model on status_history

VARIABLES status,         \* Engagement.status
          suspendedFrom,  \* Engagement.suspended_from
          history,        \* Engagement.status_history
          audit,          \* kinds of the audit events of this engagement
          refusalReason   \* Engagement.refusal_reason is set

engagementVars == <<status, suspendedFrom, history, audit, refusalReason>>

Suspendable == {"authorized", "active", "evidence_collection", "analysis",
                "adjudication", "reporting", "remediation"}
Terminal    == {"refused", "revoked", "failed", "partial", "closed"}
Statuses    == {"draft", "intake", "scope_validated", "suspended"}
                 \cup Suspendable \cup Terminal

ASSUME EngagementAssumption ==
    /\ MaxHistory \in Nat
    /\ None \notin Statuses

\* _TRANSITIONS.
Transitions(s) ==
    CASE s = "draft"               -> {"intake", "refused"}
      [] s = "intake"              -> {"scope_validated", "refused"}
      [] s = "scope_validated"     -> {"authorized", "refused"}
      [] s = "authorized"          -> {"active", "suspended", "revoked"}
      [] s = "active"              -> {"evidence_collection", "suspended", "revoked", "failed"}
      [] s = "evidence_collection" -> {"analysis", "suspended", "revoked", "failed"}
      [] s = "analysis"            -> {"adjudication", "suspended", "revoked", "failed"}
      [] s = "adjudication"        -> {"reporting", "suspended", "revoked", "failed"}
      [] s = "reporting"           -> {"remediation", "closed", "partial", "suspended",
                                       "revoked", "failed"}
      [] s = "remediation"         -> {"closed", "partial", "revoked", "failed"}
      [] s = "suspended"           -> Suspendable
      [] OTHER                     -> {}

HistoryEntry == [from : Statuses, to : Statuses]

\* Mutant of Permitted: a resume may go to any state that was suspendable.
PermittedWithoutResumeTarget(s, from, to) ==
    /\ to \in Transitions(s)
    /\ to = "suspended" => s \in Suspendable
    /\ s = "suspended" => from # None

\* Mutant of Permitted: anything that has not ended may be refused.
PermittedRefusal(s, f, to) ==
    \/ to = "refused" /\ s \notin Terminal
    \/ /\ to \in Transitions(s)
       /\ to = "suspended" => s \in Suspendable
       /\ s = "suspended" => f # None /\ to = f

\* The checks of Engagement.transition, from status s with suspended_from f.
Permitted(s, f, to) ==
    /\ to \in Transitions(s)
    /\ to = "suspended" => s \in Suspendable
    /\ s = "suspended" => f # None /\ to \notin Terminal \cup {"suspended"} /\ to = f

\* Mutant of SuspendedFromAfter: a resume keeps it.
SuspendedFromKept(s, f, to) == IF to = "suspended" THEN s ELSE f

\* suspended_from after a permitted transition.
SuspendedFromAfter(s, f, to) ==
    IF s = "suspended" THEN None ELSE IF to = "suspended" THEN s ELSE f

-----------------------------------------------------------------------------
\* EngagementService.create has written its own audit event.
Init ==
    /\ status = "draft"
    /\ suspendedFrom = None
    /\ history = <<>>
    /\ audit = <<"engagement_state_change">>
    /\ refusalReason = FALSE

\* Mutant of Change: the history entry is made from the new status.
ChangeReadsStatusLate(to) ==
    /\ Permitted(status, suspendedFrom, to)
    /\ Len(history) < MaxHistory
    /\ suspendedFrom' = SuspendedFromAfter(status, suspendedFrom, to)
    /\ status' = to
    /\ history' = Append(history, [from |-> to, to |-> to])
    /\ audit' = Append(audit, "engagement_state_change")
    /\ UNCHANGED refusalReason

\* Engagement.transition: checks, new state, history entry, audit event.
Change(to) ==
    /\ Permitted(status, suspendedFrom, to)
    /\ Len(history) < MaxHistory
    /\ suspendedFrom' = SuspendedFromAfter(status, suspendedFrom, to)
    /\ status' = to
    /\ history' = Append(history, [from |-> status, to |-> to])
    /\ audit' = Append(audit, "engagement_state_change")
    /\ UNCHANGED refusalReason

Transition(to) == Change(to)

Suspend == Change("suspended")

Resume ==
    /\ suspendedFrom # None
    /\ Change(suspendedFrom)

\* refuse: the reason is set first, then the transition, then a second event.
Refuse ==
    /\ refusalReason' = TRUE
    /\ Permitted(status, suspendedFrom, "refused")
    /\ Len(history) < MaxHistory
    /\ suspendedFrom' = SuspendedFromAfter(status, suspendedFrom, "refused")
    /\ status' = "refused"
    /\ history' = Append(history, [from |-> status, to |-> "refused"])
    /\ audit' = audit \o <<"engagement_state_change", "refusal">>

\* refuse of an engagement that cannot be refused raises in the transition,
\* after the reason has been set.
RefuseRejected ==
    /\ ~Permitted(status, suspendedFrom, "refused")
    /\ refusalReason' = TRUE
    /\ UNCHANGED <<status, suspendedFrom, history, audit>>

Next ==
    \/ \E to \in Statuses : Transition(to)
    \/ Suspend
    \/ Resume
    \/ Refuse
    \/ RefuseRejected

Spec == Init /\ [][Next]_engagementVars

-----------------------------------------------------------------------------
(* Properties *)

\* The fields of Engagement keep their types; suspended_from is never a
\* state that cannot be suspended.
TypeOK ==
    /\ status \in Statuses
    /\ suspendedFrom \in Suspendable \cup {None}
    /\ history \in Seq(HistoryEntry)
    /\ audit \in Seq({"engagement_state_change", "refusal"})
    /\ refusalReason \in BOOLEAN

\* Every status the engagement has been in.
Visited == {"draft"} \cup {history[i].to : i \in 1..Len(history)}

\* The phases that lie before status s on every way to it.
Prerequisites(s) ==
    LET intake     == {"draft"}
        scope      == intake \cup {"intake"}
        authorized == scope \cup {"scope_validated"}
        active     == authorized \cup {"authorized"}
        evidence   == active \cup {"active"}
        analysis   == evidence \cup {"evidence_collection"}
        adjudicate == analysis \cup {"analysis"}
        reporting  == adjudicate \cup {"adjudication"}
        delivered  == reporting \cup {"reporting"}
    IN  CASE s = "intake"              -> intake
          [] s = "scope_validated"     -> scope
          [] s = "authorized"          -> authorized
          [] s \in {"active", "suspended", "revoked"} -> active
          [] s \in {"evidence_collection", "failed"}  -> evidence
          [] s = "analysis"            -> analysis
          [] s = "adjudication"        -> adjudicate
          [] s = "reporting"           -> reporting
          [] s \in {"remediation", "closed", "partial"} -> delivered
          [] OTHER                     -> {}

\* No sequence of transitions, suspensions and resumptions reaches a phase
\* without having been through every phase before it (_TRANSITIONS and the
\* resume rule of Engagement.transition together): a closed engagement has
\* been authorized, analysed, adjudicated and reported.
NoPhaseIsSkipped == \A s \in Visited : Prerequisites(s) \subseteq Visited

\* The history is a path of permitted transitions from draft to the status.
HistoryIsAPath ==
    /\ \A i \in 1..Len(history) : history[i].to \in Transitions(history[i].from)
    /\ \A i \in 1..Len(history) :
         history[i].from = IF i = 1 THEN "draft" ELSE history[i - 1].to
    /\ status = IF history = <<>> THEN "draft" ELSE history[Len(history)].to

\* A suspended engagement always knows the working state it came from, so it
\* can be resumed, and only a suspended one does.
SuspensionIsResumable ==
    /\ (status = "suspended") = (suspendedFrom # None)
    /\ status = "suspended" => suspendedFrom = history[Len(history)].from

\* An engagement that was refused was never authorized.
RefusedWasNeverAuthorized == "refused" \in Visited => "authorized" \notin Visited
=============================================================================
