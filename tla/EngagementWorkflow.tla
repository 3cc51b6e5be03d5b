------------------------- MODULE EngagementWorkflow -------------------------
(***************************************************************************)
(* One run of the durable engagement workflow: the stages of               *)
(* EngagementWorkflow.run, the activities they execute against the         *)
(* engagement runtime and the side-effect ledger, the retries of those     *)
(* activities, and what happens to the run from outside: pause, resume,    *)
(* approve and deny signals, decisions on approval records, suspension of  *)
(* the engagement and revocation of its grant.                             *)
(*                                                                         *)
(* An activity body has no await in it, so one attempt is one step.  It    *)
(* ends in one of four ways: its result reaches the workflow; it has       *)
(* recorded its effect and the result is lost (worker crash, timeout); the *)
(* ledger fails after the runtime was changed; nothing was done at all.    *)
(* A body that raises is retried like one that was lost.                   *)
(***************************************************************************)
EXTENDS Engagement, FiniteSetsExt

CONSTANTS ApprovalIds,   \* ids new_id can give to the approvals of this run
          MaximumAttempts \* maximum_attempts of the retry policy

\* Effects that activities record: decisions, verdicts, results.
Outcomes == {"deny", "require_approval", "allow", "refuse", "denied", "proceed",
             "claims", "findings", "rendered", "closed"}
Effects  == [outcome : Outcomes, approval : ApprovalIds \cup {None}]

ASSUME WorkflowAssumption ==
    /\ MaximumAttempts \in Nat \ {0}
    /\ None \notin ApprovalIds \cup Effects

VARIABLES
    grantActive, \* the requester's inspection grant is active
    approvals,   \* EngagementRuntime.approvals: decision of each record
    claims,      \* generation of the claims in the runtime, 0 for none
    findings,    \* generation of the claims that were adjudicated
    report,      \* generation of the findings that were rendered
    ledger,      \* SideEffectLedger: effect recorded for each activity
    stage,       \* where the run is
    scheduled,   \* the activity of this stage has been scheduled
    attempts,    \* attempts of it that have failed
    paused,      \* self._paused
    signal,      \* self._approval_decision
    approvalId,  \* the approval the run waits for
    result       \* status of the result, "failed" if the run raised

runtimeVars  == <<grantActive, approvals, claims, findings, report>>
workflowVars == <<stage, scheduled, attempts, approvalId, result>>
signalVars   == <<paused, signal>>
wfVars == <<engagementVars, runtimeVars, ledger, workflowVars, signalVars>>

Activities == {"gate", "coordinator", "authorize", "specialist", "adjudicate",
               "report", "close"}

\* A recorded effect: its outcome and, for the coordinator, the approval.
Effect(o, a) == [outcome |-> o, approval |-> a]

WfInit ==
    /\ status = "authorized"
    /\ suspendedFrom = None
    /\ history = <<[from |-> "draft", to |-> "intake"],
                   [from |-> "intake", to |-> "scope_validated"],
                   [from |-> "scope_validated", to |-> "authorized"]>>
    /\ audit = [i \in 1..4 |-> "engagement_state_change"]
    /\ refusalReason = FALSE
    /\ grantActive = TRUE
    /\ approvals = [a \in ApprovalIds |-> "none"]
    /\ claims = 0 /\ findings = 0 /\ report = 0
    /\ ledger = [s \in Activities |-> None]
    /\ stage = "gate"
    /\ scheduled = FALSE
    /\ attempts = 0
    /\ paused = FALSE
    /\ signal = None
    /\ approvalId = None
    /\ result = None

-----------------------------------------------------------------------------
(* The workflow function *)

Goto(s) ==
    /\ stage' = s
    /\ scheduled' = FALSE
    /\ attempts' = 0
    /\ UNCHANGED <<approvalId, result>>

End(r) ==
    /\ stage' = "done"
    /\ scheduled' = FALSE
    /\ attempts' = 0
    /\ result' = r
    /\ UNCHANGED approvalId

\* Mutant of Proceed: an approval that is required is not waited for.
ProceedWithoutWaiting(s, e) ==
    CASE s = "gate" -> IF e.outcome = "deny" THEN End("denied") ELSE Goto("coordinator")
      [] s = "coordinator" -> IF e.outcome = "proceed" THEN Goto("specialist") ELSE End("denied")
      [] s = "authorize" -> Goto("specialist")
      [] s = "specialist" -> Goto("adjudicate")
      [] s = "adjudicate" -> Goto("report")
      [] s = "report" -> Goto("close")
      [] s = "close" -> End(e.outcome)

\* What run does with the result e of stage s.
Proceed(s, e) ==
    CASE s = "gate" -> IF e.outcome = "deny" THEN End("denied") ELSE Goto("coordinator")
      [] s = "coordinator" ->
           IF e.outcome # "proceed" THEN End("denied")
           ELSE IF e.approval = None THEN Goto("specialist")
           ELSE /\ stage' = "await" /\ scheduled' = FALSE /\ attempts' = 0
                /\ approvalId' = e.approval /\ UNCHANGED result
      [] s = "authorize" -> Goto("specialist")
      [] s = "specialist" -> Goto("adjudicate")
      [] s = "adjudicate" -> Goto("report")
      [] s = "report" -> Goto("close")
      [] s = "close" -> End(e.outcome)

\* _check_pause, then execute_activity.  The approval wait is followed by its
\* activity without a pause check.
Schedule ==
    /\ stage \in Activities
    /\ ~scheduled
    /\ stage = "authorize" \/ ~paused
    /\ scheduled' = TRUE
    /\ UNCHANGED <<engagementVars, runtimeVars, ledger, stage, attempts, approvalId,
                   result, signalVars>>

\* wait_condition: the slot names the approval this run waits for.
ApprovalWait ==
    /\ stage = "await"
    /\ signal # None /\ signal.id = approvalId
    /\ IF signal.decision = "approved" THEN Goto("authorize") ELSE End("denied")
    /\ UNCHANGED <<engagementVars, runtimeVars, ledger, signalVars>>

-----------------------------------------------------------------------------
(* Activities *)

\* Mutant of Retry: the attempts are not counted.
RetryForever == UNCHANGED workflowVars

\* Mutant of Retry: a report that failed is skipped.
RetrySkipsReport ==
    IF attempts + 1 < MaximumAttempts
    THEN attempts' = attempts + 1 /\ UNCHANGED <<stage, scheduled, approvalId, result>>
    ELSE IF stage = "report" THEN Goto("close") ELSE End("failed")

\* The retry policy: another attempt, or the run fails.
Retry ==
    IF attempts + 1 < MaximumAttempts
    THEN attempts' = attempts + 1 /\ UNCHANGED <<stage, scheduled, approvalId, result>>
    ELSE End("failed")

\* An attempt at stage s that has computed effect e and ends with outcome o.
\* The ledger keeps, and returns, the first effect recorded.
Finish(s, o, e) ==
    LET kept == IF ledger[s] = None THEN e ELSE ledger[s]
    IN  /\ ledger' = IF o \in {"delivered", "lost"} THEN [ledger EXCEPT ![s] = kept] ELSE ledger
        /\ IF o = "delivered" THEN Proceed(s, kept) ELSE Retry

Running(s) == stage = s /\ scheduled

\* An attempt that does nothing: it crashed before its body, or it raised.
AttemptFails ==
    /\ scheduled
    /\ Retry
    /\ UNCHANGED <<engagementVars, runtimeVars, ledger, signalVars>>

\* The policy decision, for a capability that does or does not need approval.
Decision(needsApproval, approved) ==
    IF status \notin Suspendable \/ ~grantActive THEN "deny"
    ELSE IF needsApproval /\ ~approved THEN "require_approval" ELSE "allow"

ValidateAndAuthorize(o) ==
    /\ Running("gate")
    /\ Finish("gate", o, Effect(Decision(FALSE, FALSE), None))
    /\ UNCHANGED <<engagementVars, runtimeVars, signalVars>>

\* The model refuses or proposes a capability.  A new approval record is
\* stored before the ledger is asked whether this run already has one.
CoordinatorPass(o) ==
    /\ Running("coordinator")
    /\ \/ /\ Finish("coordinator", o, Effect("refuse", None))
          /\ UNCHANGED approvals
       \/ \E needsApproval \in BOOLEAN :
            LET d == Decision(needsApproval, FALSE)
            IN  \/ /\ d = "deny"
                   /\ Finish("coordinator", o, Effect("denied", None))
                   /\ UNCHANGED approvals
                \/ /\ d = "allow"
                   /\ Finish("coordinator", o, Effect("proceed", None))
                   /\ UNCHANGED approvals
                \/ /\ d = "require_approval"
                   /\ \E a \in ApprovalIds :
                        /\ approvals[a] = "none"
                        /\ approvals' = [approvals EXCEPT ![a] = "pending"]
                        /\ Finish("coordinator", o, Effect("proceed", a))
    /\ UNCHANGED <<engagementVars, grantActive, claims, findings, report, signalVars>>

\* Raises (AttemptFails) unless the record is approved and the kernel allows.
AuthorizeWithApproval(o) ==
    /\ Running("authorize")
    /\ approvals[approvalId] = "approved"
    /\ Decision(TRUE, TRUE) = "allow"
    /\ Finish("authorize", o, Effect("allow", None))
    /\ UNCHANGED <<engagementVars, runtimeVars, signalVars>>

\* The runtime's claims are replaced on every attempt.
SpecialistPass(o) ==
    /\ Running("specialist")
    /\ claims' = claims + 1
    /\ Finish("specialist", o, Effect("claims", None))
    /\ UNCHANGED <<engagementVars, grantActive, approvals, findings, report, signalVars>>

AdjudicatePass(o) ==
    /\ Running("adjudicate")
    /\ findings' = claims
    /\ Finish("adjudicate", o, Effect("findings", None))
    /\ UNCHANGED <<engagementVars, grantActive, approvals, claims, report, signalVars>>

RenderReport(o) ==
    /\ Running("report")
    /\ report' = findings
    /\ Finish("report", o, Effect("rendered", None))
    /\ UNCHANGED <<engagementVars, grantActive, approvals, claims, findings, signalVars>>

\* The loop of close_engagement: each target the engagement is not in yet is
\* a service transition; the first that is not permitted raises and leaves
\* the engagement where it is.
CloseTargets == <<"active", "evidence_collection", "analysis", "adjudication",
                  "reporting", "closed">>

\* The status the loop finds when it comes to target j.
CloseFrom(j) == IF j = 1 THEN status ELSE CloseTargets[j - 1]

ClosePermits(j) ==
    \/ CloseFrom(j) = CloseTargets[j]
    \/ Permitted(CloseFrom(j), suspendedFrom, CloseTargets[j])

CloseEngagement(o) ==
    LET reached == Max({k \in 0..Len(CloseTargets) : \A j \in 1..k : ClosePermits(j)})
        first   == IF status = CloseTargets[1] THEN 2 ELSE 1
        made    == SubSeq([j \in 1..Len(CloseTargets) |->
                             [from |-> CloseFrom(j), to |-> CloseTargets[j]]], first, reached)
    IN  /\ Running("close")
        /\ status' = CloseFrom(reached + 1)
        /\ suspendedFrom' = IF made = <<>> THEN suspendedFrom ELSE None
        /\ history' = history \o made
        /\ audit' = audit \o [i \in 1..Len(made) |-> "engagement_state_change"]
        /\ IF reached < Len(CloseTargets) THEN Retry /\ UNCHANGED ledger
           ELSE Finish("close", o, Effect("closed", None))
        /\ UNCHANGED <<refusalReason, runtimeVars, signalVars>>

\* One attempt at the activity of the current stage.
Attempt(o) ==
    \/ ValidateAndAuthorize(o)
    \/ CoordinatorPass(o)
    \/ AuthorizeWithApproval(o)
    \/ SpecialistPass(o)
    \/ AdjudicatePass(o)
    \/ RenderReport(o)
    \/ CloseEngagement(o)

-----------------------------------------------------------------------------
(* Signals and the outside world *)

\* The pause and resume signals.
SetPaused(p) ==
    /\ stage # "done" /\ paused # p
    /\ paused' = p
    /\ UNCHANGED <<engagementVars, runtimeVars, ledger, workflowVars, signal>>

\* The approve and deny signals: one slot, the last signal wins.
Signal(a, d) ==
    /\ stage # "done"
    /\ signal' = [id |-> a, decision |-> d]
    /\ UNCHANGED <<engagementVars, runtimeVars, ledger, workflowVars, paused>>

\* Approval.decide on a record of the runtime; it may be decided again.
DecideApproval(a, d) ==
    /\ approvals[a] # "none" /\ approvals[a] # d
    /\ approvals' = [approvals EXCEPT ![a] = d]
    /\ UNCHANGED <<engagementVars, grantActive, claims, findings, report, ledger,
                   workflowVars, signalVars>>

RevokeGrant ==
    /\ grantActive
    /\ grantActive' = FALSE
    /\ UNCHANGED <<engagementVars, approvals, claims, findings, report, ledger,
                   workflowVars, signalVars>>

SuspendOrResume ==
    /\ Suspend \/ Resume
    /\ UNCHANGED <<runtimeVars, ledger, workflowVars, signalVars>>

\* What the workflow and its worker do.
RunStep ==
    \/ Schedule
    \/ ApprovalWait
    \/ AttemptFails
    \/ \E o \in {"delivered", "lost", "unrecorded"} : Attempt(o)

WfNext ==
    \/ RunStep
    \/ \E p \in BOOLEAN : SetPaused(p)
    \/ \E a \in ApprovalIds, d \in {"approved", "denied"} : Signal(a, d) \/ DecideApproval(a, d)
    \/ RevokeGrant
    \/ SuspendOrResume

WfSpec == WfInit /\ [][WfNext]_wfVars

\* Temporal keeps driving a run that can make a step.
FairWfSpec == WfSpec /\ WF_wfVars(RunStep)

-----------------------------------------------------------------------------
(* Properties *)

\* The run, its runtime and its ledger keep their types, and no activity is
\* attempted more than maximum_attempts times.
WorkflowTypeOK ==
    /\ TypeOK
    /\ grantActive \in BOOLEAN
    /\ approvals \in [ApprovalIds -> {"none", "pending", "approved", "denied"}]
    /\ {claims, findings, report} \subseteq 0..MaximumAttempts
    /\ ledger \in [Activities -> {None} \cup Effects]
    /\ stage \in Activities \cup {"await", "done"}
    /\ scheduled \in BOOLEAN
    /\ attempts \in 0..(MaximumAttempts - 1)
    /\ paused \in BOOLEAN
    /\ signal \in {None} \cup [id : ApprovalIds, decision : {"approved", "denied"}]
    /\ approvalId \in ApprovalIds \cup {None}
    /\ result \in {None, "denied", "failed", "closed"}

\* No specialist has produced claims unless the gate did not deny, the
\* coordinator's recorded verdict was to proceed, and an approval that
\* verdict asked for was re-checked by the kernel and allowed
\* (authorize_with_approval), whatever was retried, lost or signalled.
NoWorkWithoutAuthorization ==
    claims # 0 =>
        /\ ledger["gate"] # None /\ ledger["gate"].outcome # "deny"
        /\ ledger["coordinator"] # None /\ ledger["coordinator"].outcome = "proceed"
        /\ ledger["coordinator"].approval # None =>
             /\ approvalId = ledger["coordinator"].approval
             /\ ledger["authorize"] # None /\ ledger["authorize"].outcome = "allow"

\* A run that reports "closed" has closed the engagement, and the report that
\* was rendered is about the claims of the last specialist attempt.
ClosedMeansReported ==
    result = "closed" =>
        /\ status = "closed"
        /\ claims # 0 /\ findings = claims /\ report = findings

\* A run waits for ever only for a person: it ends, or is paused, or waits
\* for its approval.
RunsEnd == stage # "done" ~> (stage \in {"done", "await"} \/ paused)
=============================================================================
