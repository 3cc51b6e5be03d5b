-------------------------- MODULE EngagementProofs --------------------------
(* Proofs about the engagement state machine, for histories of any length, *)
(* about the durable workflow that drives it, for any number of attempts   *)
(* and approvals, and about the API threads that share it.                 *)
EXTENDS EngagementWorkflow, EngagementApi, FiniteSetTheorems, TLAPS

-----------------------------------------------------------------------------
(* The inductive invariant *)

\* What the history says about the status: it has been reached, and so has
\* the state a suspension will return to; before authorization, and after a
\* refusal, authorization is not in the history; a refusal is final.
VisitedInv ==
    /\ status \in Visited
    /\ status = "suspended" => suspendedFrom \in Visited
    /\ status \in {"draft", "intake", "scope_validated", "refused"}
         => "authorized" \notin Visited
    /\ "refused" \in Visited => status = "refused"

IInv ==
    /\ TypeOK
    /\ HistoryIsAPath
    /\ SuspensionIsResumable
    /\ VisitedInv
    /\ NoPhaseIsSkipped
    /\ RefusedWasNeverAuthorized

\* What every call of the service that succeeds does to the engagement.
Moves(to) ==
    /\ Permitted(status, suspendedFrom, to)
    /\ suspendedFrom' = SuspendedFromAfter(status, suspendedFrom, to)
    /\ status' = to
    /\ history' = Append(history, [from |-> status, to |-> to])

-----------------------------------------------------------------------------
(* Facts about the transition table *)

\* Only known statuses are targets; draft never is, and suspension is not
\* the target of a resume.
LEMMA TransitionTargets ==
    ASSUME NEW s \in Statuses, NEW to \in Transitions(s)
    PROVE  /\ to \in Statuses \ {"draft"}
           /\ s = "suspended" => to # "suspended"
           /\ s # "refused"
BY DEF Transitions, Statuses, Suspendable, Terminal

\* Up to authorization there is only one way.
LEMMA EarlyTargets ==
    ASSUME NEW s \in Statuses, NEW to \in Transitions(s),
           to \in {"intake", "scope_validated", "refused"}
    PROVE  s \in {"draft", "intake", "scope_validated"}
BY DEF Transitions, Statuses, Suspendable, Terminal

\* A transition other than a resume asks for no phase that its origin has not
\* been through.
LEMMA PrerequisitesStep ==
    ASSUME NEW s \in Statuses \ {"suspended"}, NEW to \in Transitions(s)
    PROVE  Prerequisites(to) \subseteq Prerequisites(s) \cup {s}
<1>1. CASE s \in {"draft", "intake", "scope_validated", "authorized"}
  BY <1>1 DEF Transitions, Prerequisites
<1>2. CASE s \in {"active", "evidence_collection", "analysis", "adjudication"}
  BY <1>2 DEF Transitions, Prerequisites
<1>3. CASE s \in {"reporting", "remediation"}
  BY <1>3 DEF Transitions, Prerequisites
<1>4. CASE s \in Terminal
  BY <1>4 DEF Transitions, Terminal
<1>5. QED
  BY <1>1, <1>2, <1>3, <1>4 DEF Statuses, Suspendable

\* A step of the service makes one transition or leaves the three fields.
LEMMA StepMoves ==
    ASSUME TypeOK, [Next]_engagementVars
    PROVE  \/ UNCHANGED <<status, suspendedFrom, history>>
           \/ \E to \in Statuses : Moves(to)
<1>1. ASSUME NEW to \in Statuses, Change(to) PROVE Moves(to)
  BY <1>1 DEF Change, Moves
<1>2. CASE \E to \in Statuses : Transition(to)
  BY <1>1, <1>2 DEF Transition
<1>3. CASE Suspend
  BY <1>1, <1>3 DEF Suspend, Statuses
<1>4. CASE Resume
  BY <1>1, <1>4 DEF Resume, TypeOK, Statuses
<1>5. CASE Refuse
  BY <1>5 DEF Refuse, Moves, Statuses, Terminal
<1>6. CASE RefuseRejected
  BY <1>6 DEF RefuseRejected
<1>7. CASE UNCHANGED engagementVars
  BY <1>7 DEF engagementVars
<1>8. QED
  BY <1>2, <1>3, <1>4, <1>5, <1>6, <1>7 DEF Next

\* The history grows by one entry.
LEMMA HistoryGrows ==
    ASSUME TypeOK, NEW to \in Statuses, Moves(to)
    PROVE  /\ history' \in Seq(HistoryEntry)
           /\ Len(history') = Len(history) + 1
           /\ history'[Len(history')] = [from |-> status, to |-> to]
           /\ \A i \in 1..Len(history) : history'[i] = history[i]
           /\ Visited' = Visited \cup {to}
<1>1. [from |-> status, to |-> to] \in HistoryEntry
  BY DEF TypeOK, HistoryEntry
<1>2. /\ history \in Seq(HistoryEntry)
      /\ history' = Append(history, [from |-> status, to |-> to])
  BY DEF TypeOK, Moves
<1>3. /\ history' \in Seq(HistoryEntry)
      /\ Len(history') = Len(history) + 1
      /\ history'[Len(history')] = [from |-> status, to |-> to]
      /\ \A i \in 1..Len(history) : history'[i] = history[i]
  BY <1>1, <1>2
<1>4. Len(history) \in Nat
  BY <1>2
<1>5. history'[Len(history')].to = to
  BY <1>3
<1>6. Visited' = Visited \cup {to}
  BY <1>3, <1>4, <1>5 DEF Visited
<1>7. QED
  BY <1>3, <1>6

-----------------------------------------------------------------------------
(* Preservation *)

LEMMA TypeInit == Init => TypeOK
<1> SUFFICES ASSUME Init PROVE TypeOK
  OBVIOUS
<1>1. status \in Statuses /\ suspendedFrom \in Suspendable \cup {None}
  BY DEF Init, Statuses
<1>2. history \in Seq(HistoryEntry)
  BY DEF Init
<1>3. audit \in Seq({"engagement_state_change", "refusal"})
  BY DEF Init
<1>4. refusalReason \in BOOLEAN
  BY DEF Init
<1>5. QED
  BY <1>1, <1>2, <1>3, <1>4 DEF TypeOK

\* The type invariant is inductive.
LEMMA TypeStep == TypeOK /\ [Next]_engagementVars => TypeOK'
<1> SUFFICES ASSUME TypeOK, [Next]_engagementVars PROVE TypeOK'
  OBVIOUS
<1>1. audit' \in Seq({"engagement_state_change", "refusal"}) /\ refusalReason' \in BOOLEAN
  <2>1. ASSUME NEW to, Change(to) PROVE <1>1!1 /\ <1>1!2
    BY <2>1 DEF Change, TypeOK
  <2>2. CASE \E to : Change(to)
    BY <2>1, <2>2
  <2>3. CASE Refuse
    <3>1. /\ audit \in Seq({"engagement_state_change", "refusal"})
          /\ <<"engagement_state_change", "refusal">> \in Seq({"engagement_state_change", "refusal"})
      BY DEF TypeOK
    <3>2. QED
      BY <2>3, <3>1 DEF Refuse
  <2>4. CASE RefuseRejected
    BY <2>4 DEF RefuseRejected, TypeOK
  <2>5. CASE UNCHANGED engagementVars
    BY <2>5 DEF engagementVars, TypeOK
  <2>6. QED
    BY <2>2, <2>3, <2>4, <2>5 DEF Next, Transition, Suspend, Resume
<1>2. CASE UNCHANGED <<status, suspendedFrom, history>>
  BY <1>1, <1>2 DEF TypeOK
<1>3. ASSUME NEW to \in Statuses, Moves(to) PROVE TypeOK'
  <2>1. history' \in Seq(HistoryEntry)
    BY <1>3, HistoryGrows
  <2>2. status' \in Statuses
    BY <1>3 DEF Moves
  <2>3. suspendedFrom' \in Suspendable \cup {None}
    BY <1>3 DEF Moves, Permitted, SuspendedFromAfter, TypeOK
  <2>4. QED
    BY <1>1, <2>1, <2>2, <2>3 DEF TypeOK
<1>4. QED
  BY <1>2, <1>3, StepMoves

\* One transition keeps the history a path.
LEMMA PathStep ==
    ASSUME TypeOK, HistoryIsAPath, NEW to \in Statuses, Moves(to)
    PROVE  HistoryIsAPath'
<1> DEFINE n == Len(history)
<1>1. n \in Nat /\ Len(history') = n + 1 /\ history'[n + 1] = [from |-> status, to |-> to]
  BY HistoryGrows DEF TypeOK
<1>2. \A i \in 1..n : history'[i] = history[i]
  BY HistoryGrows
<1>3. to \in Transitions(status)
  BY DEF Moves, Permitted
<1>4. \A i \in 1..Len(history') : history'[i].to \in Transitions(history'[i].from)
  <2> SUFFICES ASSUME NEW i \in 1..(n + 1)
               PROVE  history'[i].to \in Transitions(history'[i].from)
    BY <1>1
  <2>1. CASE i = n + 1
    BY <1>1, <1>3, <2>1
  <2>2. CASE i \in 1..n
    BY <1>2, <2>2 DEF HistoryIsAPath
  <2>3. QED
    BY <1>1, <2>1, <2>2
<1>5. status = IF n = 0 THEN "draft" ELSE history[n].to
  BY DEF HistoryIsAPath, TypeOK
<1>6. \A i \in 1..Len(history') : history'[i].from = IF i = 1 THEN "draft" ELSE history'[i - 1].to
  <2> SUFFICES ASSUME NEW i \in 1..(n + 1)
               PROVE  history'[i].from = IF i = 1 THEN "draft" ELSE history'[i - 1].to
    BY <1>1
  <2>1. CASE i = n + 1
    <3>1. history'[i].from = status
      BY <1>1, <2>1
    <3>2. CASE n = 0
      BY <1>5, <2>1, <3>1, <3>2
    <3>3. CASE n # 0
      <4>1. n \in 1..n /\ i - 1 = n /\ i # 1
        BY <1>1, <2>1, <3>3
      <4>2. QED
        BY <1>2, <1>5, <3>1, <3>3, <4>1
    <3>4. QED
      BY <3>2, <3>3
  <2>2. CASE i \in 1..n
    <3>1. history[i].from = IF i = 1 THEN "draft" ELSE history[i - 1].to
      BY <2>2 DEF HistoryIsAPath
    <3>2. i # 1 => i - 1 \in 1..n
      BY <1>1, <2>2
    <3>3. QED
      BY <1>2, <2>2, <3>1, <3>2
  <2>3. QED
    BY <1>1, <2>1, <2>2
<1>7. status' = to /\ history' # <<>> /\ history'[Len(history')].to = to
  BY <1>1 DEF Moves
<1>8. QED
  BY <1>4, <1>6, <1>7 DEF HistoryIsAPath

\* One transition keeps a suspension resumable.
LEMMA SuspensionStep ==
    ASSUME TypeOK, SuspensionIsResumable, NEW to \in Statuses, Moves(to)
    PROVE  SuspensionIsResumable'
<1>1. status \in Statuses /\ to \in Transitions(status)
  BY DEF TypeOK, Moves, Permitted
<1>2. status = "suspended" => to # "suspended"
  BY <1>1, TransitionTargets
<1>3. history'[Len(history')].from = status
  <2>1. history'[Len(history')] = [from |-> status, to |-> to]
    BY HistoryGrows
  <2>2. QED
    BY <2>1
<1>4. CASE to = "suspended"
  BY <1>1, <1>2, <1>3, <1>4, EngagementAssumption
     DEF Moves, SuspendedFromAfter, SuspensionIsResumable
<1>5. CASE to # "suspended"
  BY <1>5 DEF Moves, SuspendedFromAfter, SuspensionIsResumable
<1>6. QED
  BY <1>4, <1>5

\* One transition keeps what the history says about the status.
LEMMA VisitedStep ==
    ASSUME TypeOK, SuspensionIsResumable, VisitedInv, NEW to \in Statuses, Moves(to)
    PROVE  VisitedInv'
<1>1. Visited' = Visited \cup {to} /\ status' = to
  BY HistoryGrows DEF Moves
<1>2. status \in Statuses /\ to \in Transitions(status)
  BY DEF TypeOK, Moves, Permitted
<1>3. to # "draft" /\ status # "refused" /\ (status = "suspended" => to # "suspended")
  BY <1>2, TransitionTargets
<1>4. to = "suspended" => suspendedFrom' = status
  BY <1>3 DEF Moves, SuspendedFromAfter
<1>5. to \in {"intake", "scope_validated", "refused"} => "authorized" \notin Visited
  BY <1>2, EarlyTargets DEF VisitedInv
<1>6. QED
  BY <1>1, <1>3, <1>4, <1>5 DEF VisitedInv

\* One transition skips no phase.
LEMMA PhaseStep ==
    ASSUME TypeOK, SuspensionIsResumable, VisitedInv, NoPhaseIsSkipped,
           NEW to \in Statuses, Moves(to)
    PROVE  NoPhaseIsSkipped'
<1>1. Visited' = Visited \cup {to}
  BY HistoryGrows
<1>2. status \in Statuses /\ to \in Transitions(status)
  BY DEF TypeOK, Moves, Permitted
<1>3. CASE status = "suspended"
  BY <1>1, <1>3 DEF Moves, Permitted, VisitedInv, NoPhaseIsSkipped
<1>4. CASE status # "suspended"
  <2>1. Prerequisites(to) \subseteq Prerequisites(status) \cup {status}
    BY <1>2, <1>4, PrerequisitesStep
  <2>2. Prerequisites(status) \subseteq Visited /\ status \in Visited
    BY DEF VisitedInv, NoPhaseIsSkipped
  <2>3. QED
    BY <1>1, <2>1, <2>2 DEF NoPhaseIsSkipped
<1>5. QED
  BY <1>3, <1>4

LEMMA InvInit == Init => IInv
<1> SUFFICES ASSUME Init PROVE IInv
  OBVIOUS
<1>1. TypeOK
  BY TypeInit
<1>2. Visited = {"draft"}
  BY DEF Init, Visited
<1>3. HistoryIsAPath /\ SuspensionIsResumable
  BY DEF Init, HistoryIsAPath, SuspensionIsResumable
<1>4. VisitedInv /\ RefusedWasNeverAuthorized
  BY <1>2 DEF Init, VisitedInv, RefusedWasNeverAuthorized
<1>5. Prerequisites("draft") = {}
  BY DEF Prerequisites
<1>6. QED
  BY <1>1, <1>2, <1>3, <1>4, <1>5 DEF IInv, NoPhaseIsSkipped

\* The strengthened invariant is inductive.
LEMMA InvStep == IInv /\ [Next]_engagementVars => IInv'
<1> SUFFICES ASSUME IInv, [Next]_engagementVars PROVE IInv'
  OBVIOUS
<1> USE DEF IInv
<1>1. TypeOK'
  BY TypeStep
<1>2. CASE UNCHANGED <<status, suspendedFrom, history>>
  <2>1. status' = status /\ suspendedFrom' = suspendedFrom /\ history' = history
    BY <1>2
  <2>2. Visited' = Visited
    BY <2>1 DEF Visited
  <2>3. HistoryIsAPath' /\ SuspensionIsResumable'
    BY <2>1 DEF HistoryIsAPath, SuspensionIsResumable
  <2>4. VisitedInv' /\ NoPhaseIsSkipped' /\ RefusedWasNeverAuthorized'
    BY <2>1, <2>2 DEF VisitedInv, NoPhaseIsSkipped, RefusedWasNeverAuthorized
  <2>5. QED
    BY <1>1, <2>3, <2>4
<1>3. ASSUME NEW to \in Statuses, Moves(to) PROVE IInv'
  <2>1. HistoryIsAPath' /\ SuspensionIsResumable' /\ VisitedInv' /\ NoPhaseIsSkipped'
    BY <1>3, PathStep, SuspensionStep, VisitedStep, PhaseStep
  <2>2. RefusedWasNeverAuthorized'
    BY <2>1 DEF VisitedInv, RefusedWasNeverAuthorized
  <2>3. QED
    BY <1>1, <2>1, <2>2
<1>4. QED
  BY <1>2, <1>3, StepMoves

-----------------------------------------------------------------------------
(* Theorems *)

LEMMA Invariance == Spec => []IInv
BY InvInit, InvStep, PTL DEF Spec

\* The fields of Engagement keep their types under every sequence of service
\* calls; suspended_from is only ever a suspendable state.
THEOREM EngagementTypeCorrect == Spec => []TypeOK
BY Invariance, PTL DEF IInv

\* No sequence of transitions, suspensions and resumptions of any length
\* reaches a phase without the phases before it.
THEOREM NoPhaseIsSkippedAlways == Spec => []NoPhaseIsSkipped
BY Invariance, PTL DEF IInv

\* status_history is always a path of _TRANSITIONS from draft to the status.
THEOREM HistoryIsAPathAlways == Spec => []HistoryIsAPath
BY Invariance, PTL DEF IInv

\* An engagement is suspended exactly when it has a state to resume to, and
\* that state is the one it was suspended from.
THEOREM SuspensionIsResumableAlways == Spec => []SuspensionIsResumable
BY Invariance, PTL DEF IInv

\* A refused engagement has never been authorized.
THEOREM RefusedWasNeverAuthorizedAlways == Spec => []RefusedWasNeverAuthorized
BY Invariance, PTL DEF IInv

-----------------------------------------------------------------------------
(* The durable workflow *)

\* What the ledger holds when the run has passed the gate, when it goes on
\* from the coordinator, and when a specialist may work.
GatePassed == ledger["gate"] # None /\ ledger["gate"].outcome # "deny"

Proceeding ==
    GatePassed /\ ledger["coordinator"] # None /\ ledger["coordinator"].outcome = "proceed"

Allowed ==
    /\ Proceeding
    /\ ledger["coordinator"].approval # None =>
         /\ approvalId = ledger["coordinator"].approval
         /\ ledger["authorize"] # None /\ ledger["authorize"].outcome = "allow"

LedgerInv ==
    /\ ledger \in [Activities -> {None} \cup Effects]
    /\ ledger["authorize"] # None => ledger["authorize"].outcome = "allow"

\* Where the run is says what the ledger already holds: an activity whose
\* result arrived has recorded it, and a recorded effect is never replaced.
PassInv ==
    /\ stage \in Activities \cup {"await", "done"}
    /\ stage = "coordinator" => GatePassed
    /\ stage \in {"await", "authorize"} => Proceeding /\ approvalId = ledger["coordinator"].approval
    /\ stage \in {"specialist", "adjudicate", "report", "close"} => Allowed

\* Where the run is says which generations of claims, findings and report are
\* the same.
WorkInv ==
    /\ claims \in Nat
    /\ stage \in {"gate", "coordinator", "await", "authorize"} => claims = 0
    /\ stage \in {"adjudicate", "report", "close"} => claims # 0
    /\ stage \in {"report", "close"} => findings = claims
    /\ stage = "close" => report = findings
    /\ result = "closed" => stage = "done"

WfInv ==
    /\ LedgerInv
    /\ PassInv
    /\ WorkInv
    /\ NoWorkWithoutAuthorization
    /\ ClosedMeansReported

\* A finished attempt: recorded effects stay, and the run goes on with a
\* recorded effect of this stage, tries again, or fails.
LEMMA FinishKeeps ==
    ASSUME ledger \in [Activities -> {None} \cup Effects], NEW s \in Activities, NEW e \in Effects, NEW o,
           Finish(s, o, e)
    PROVE  /\ ledger' \in [Activities -> {None} \cup Effects]
           /\ \A r \in Activities : r # s \/ ledger[r] # None => ledger'[r] = ledger[r]
           /\ ledger'[s] \in {ledger[s], e}
           /\ Retry \/ (ledger'[s] \in Effects /\ Proceed(s, ledger'[s]))
<1> DEFINE kept == IF ledger[s] = None THEN e ELSE ledger[s]
<1>1. kept \in Effects /\ kept \in {ledger[s], e} /\ (ledger[s] # None => kept = ledger[s])
  OBVIOUS
<1>2. /\ ledger' = IF o \in {"delivered", "lost"} THEN [ledger EXCEPT ![s] = kept] ELSE ledger
      /\ IF o = "delivered" THEN Proceed(s, kept) ELSE Retry
  BY DEF Finish
<1> HIDE DEF kept
<1>3. CASE o = "delivered"
  <2>1. ledger' = [ledger EXCEPT ![s] = kept] /\ Proceed(s, kept)
    BY <1>2, <1>3
  <2>2. ledger'[s] = kept
    BY <2>1
  <2> QED
    BY <1>1, <2>1, <2>2
<1>4. CASE o # "delivered"
  BY <1>1, <1>2, <1>4
<1> QED
  BY <1>3, <1>4

\* What has been recorded stays true while effects are only added.
LEMMA LedgerGrows ==
    ASSUME \A r \in Activities : ledger[r] # None => ledger'[r] = ledger[r]
    PROVE  /\ GatePassed => GatePassed'
           /\ Proceeding => Proceeding' /\ ledger'["coordinator"] = ledger["coordinator"]
           /\ Allowed /\ approvalId' = approvalId => Allowed'
BY DEF Activities, GatePassed, Proceeding, Allowed

\* Another attempt, or the end of a run that has failed too often.
LEMMA RetryKeeps ==
    ASSUME WfInv, Retry, LedgerInv', \A r \in Activities : ledger[r] # None => ledger'[r] = ledger[r],
           stage \in Activities,
           claims' = claims \/ (stage = "specialist" /\ claims' \in Nat),
           findings' = findings \/ stage = "adjudicate", report' = report \/ stage = "report"
    PROVE  WfInv'
<1>1. approvalId' = approvalId /\ ((stage' = stage /\ result' = result) \/ (stage' = "done" /\ result' = "failed"))
  BY DEF Retry, End
<1>2. PassInv'
  BY <1>1, LedgerGrows DEF WfInv, PassInv, Activities
<1>3. WorkInv'
  BY <1>1 DEF WfInv, WorkInv, Activities
<1>4. NoWorkWithoutAuthorization'
  BY <1>1, LedgerGrows DEF WfInv, PassInv, WorkInv, NoWorkWithoutAuthorization, Allowed, Proceeding, GatePassed
<1>5. ClosedMeansReported'
  BY <1>1 DEF WfInv, WorkInv, ClosedMeansReported, Activities
<1> QED
  BY <1>2, <1>3, <1>4, <1>5 DEF WfInv

\* The close loop comes to a target in its list: it stops somewhere.
LEMMA CloseReaches ==
    Max({k \in 0..Len(CloseTargets) : \A j \in 1..k : ClosePermits(j)}) \in 0..6
<1> DEFINE S == {k \in 0..Len(CloseTargets) : \A j \in 1..k : ClosePermits(j)}
<1>1. S \subseteq 0..6 /\ 0 \in S
  BY DEF CloseTargets
<1> HIDE DEF S
<1>2. \E x \in S : \A y \in S : x >= y
  <2>1. CASE 6 \in S
    BY <1>1, <2>1
  <2>2. CASE 6 \notin S /\ 5 \in S
    BY <1>1, <2>2
  <2>3. CASE 6 \notin S /\ 5 \notin S /\ 4 \in S
    BY <1>1, <2>3
  <2>4. CASE 6 \notin S /\ 5 \notin S /\ 4 \notin S /\ 3 \in S
    BY <1>1, <2>4
  <2>5. CASE 6 \notin S /\ 5 \notin S /\ 4 \notin S /\ 3 \notin S /\ 2 \in S
    BY <1>1, <2>5
  <2>6. CASE 6 \notin S /\ 5 \notin S /\ 4 \notin S /\ 3 \notin S /\ 2 \notin S
    BY <1>1, <2>6
  <2> QED
    BY <2>1, <2>2, <2>3, <2>4, <2>5, <2>6
<1>3. Max(S) \in S
  BY <1>2 DEF Max
<1> QED
  BY <1>1, <1>3 DEF S

\* An attempt at the activity of a stage, with its effect e: the run goes on
\* with what the ledger holds, or retries.
LEMMA AttemptStep ==
    ASSUME WfInv, NEW o, Attempt(o)
    PROVE  WfInv'
<1> USE WorkflowAssumption
<1>l. LedgerInv /\ PassInv /\ WorkInv /\ ledger \in [Activities -> {None} \cup Effects]
  BY DEF WfInv, LedgerInv
<1>f. ASSUME NEW s \in Activities, NEW e \in Effects, stage = s, Finish(s, o, e), s # "authorize" \/ e.outcome = "allow",
             claims' = claims \/ (s = "specialist" /\ claims' \in Nat),
             findings' = findings \/ s = "adjudicate", report' = report \/ s = "report"
      PROVE  /\ LedgerInv'
             /\ \A r \in Activities : ledger[r] # None => ledger'[r] = ledger[r]
             /\ ledger'[s] \in {ledger[s], e}
             /\ WfInv' \/ (ledger'[s] \in Effects /\ Proceed(s, ledger'[s]))
  <2>1. /\ ledger' \in [Activities -> {None} \cup Effects]
        /\ \A r \in Activities : r # s \/ ledger[r] # None => ledger'[r] = ledger[r]
        /\ ledger'[s] \in {ledger[s], e}
        /\ Retry \/ (ledger'[s] \in Effects /\ Proceed(s, ledger'[s]))
    BY <1>f, <1>l, FinishKeeps, Zenon
  <2>2. LedgerInv'
    BY <1>f, <1>l, <2>1 DEF LedgerInv, Activities
  <2> QED
    BY <1>f, <2>1, <2>2, RetryKeeps
<1>w. ASSUME LedgerInv', PassInv', WorkInv', stage' # "done" \/ (result' # "closed" /\ claims' = claims),
             approvalId' = approvalId \/ claims' = 0,
             \A r \in Activities : ledger[r] # None => ledger'[r] = ledger[r],
             claims' = claims \/ stage = "specialist"
      PROVE  WfInv'
  <2>1. NoWorkWithoutAuthorization'
    BY <1>w, LedgerGrows DEF WfInv, PassInv, NoWorkWithoutAuthorization, Allowed, Proceeding, GatePassed, Activities
  <2>2. ClosedMeansReported'
    BY <1>w DEF WorkInv, ClosedMeansReported
  <2> QED
    BY <1>w, <2>1, <2>2 DEF WfInv
<1>1. CASE ValidateAndAuthorize(o)
  <2> DEFINE e == Effect(Decision(FALSE, FALSE), None)
  <2>1. e \in Effects
    BY DEF Effect, Effects, Outcomes, Decision
  <2>2. /\ stage = "gate" /\ Finish("gate", o, e)
        /\ claims' = claims /\ findings' = findings /\ report' = report
    BY <1>1 DEF ValidateAndAuthorize, Running, runtimeVars
  <2> HIDE DEF e
  <2>3. /\ LedgerInv' /\ \A r \in Activities : ledger[r] # None => ledger'[r] = ledger[r]
        /\ WfInv' \/ (ledger'["gate"] \in Effects /\ Proceed("gate", ledger'["gate"]))
    BY <1>f, <2>1, <2>2 DEF Activities
  <2>4. ASSUME ledger'["gate"] \in Effects, Proceed("gate", ledger'["gate"])
        PROVE  WfInv'
    <3>1. /\ approvalId' = approvalId
          /\ \/ stage' = "done" /\ result' = "denied"
             \/ stage' = "coordinator" /\ result' = result /\ ledger'["gate"].outcome # "deny"
      BY <2>4 DEF Proceed, End, Goto
    <3>2. PassInv'
      BY <2>4, <3>1 DEF PassInv, GatePassed, Activities
    <3>3. WorkInv'
      BY <1>l, <2>2, <3>1 DEF WorkInv
    <3> QED
      BY <1>w, <2>2, <2>3, <3>1, <3>2, <3>3
  <2> QED
    BY <2>3, <2>4
<1>2. CASE CoordinatorPass(o)
  <2>1. PICK e \in Effects : stage = "coordinator" /\ Finish("coordinator", o, e)
    <3>1. /\ {Effect("refuse", None), Effect("denied", None), Effect("proceed", None)} \subseteq Effects
          /\ \A a \in ApprovalIds : Effect("proceed", a) \in Effects
      BY DEF Effect, Effects, Outcomes
    <3> QED
      BY <1>2, <3>1 DEF CoordinatorPass, Running
  <2>2. claims' = claims /\ findings' = findings /\ report' = report
    BY <1>2 DEF CoordinatorPass
  <2>3. /\ LedgerInv' /\ \A r \in Activities : ledger[r] # None => ledger'[r] = ledger[r]
        /\ WfInv' \/ (ledger'["coordinator"] \in Effects /\ Proceed("coordinator", ledger'["coordinator"]))
    BY <1>f, <2>1, <2>2 DEF Activities
  <2>4. ASSUME ledger'["coordinator"] \in Effects, Proceed("coordinator", ledger'["coordinator"])
        PROVE  WfInv'
    <3> DEFINE kept == ledger'["coordinator"]
    <3>1. \/ stage' = "done" /\ result' = "denied" /\ approvalId' = approvalId
          \/ /\ stage' = "specialist" /\ result' = result /\ approvalId' = approvalId
             /\ kept.outcome = "proceed" /\ kept.approval = None
          \/ /\ stage' = "await" /\ result' = result /\ approvalId' = kept.approval
             /\ kept.outcome = "proceed" /\ kept.approval # None
      BY <2>4 DEF Proceed, End, Goto
    <3>2. GatePassed'
      BY <1>l, <2>1, <2>3, LedgerGrows DEF PassInv
    <3>3. PassInv'
      BY <2>4, <3>1, <3>2 DEF PassInv, Proceeding, Allowed, Activities
    <3>4. WorkInv'
      BY <1>l, <2>1, <2>2, <3>1 DEF WorkInv
    <3>5. claims' = 0
      BY <1>l, <2>1, <2>2 DEF WorkInv
    <3> QED
      BY <1>w, <2>2, <2>3, <3>1, <3>3, <3>4, <3>5
  <2> QED
    BY <2>3, <2>4
<1>3. CASE AuthorizeWithApproval(o)
  <2> DEFINE e == Effect("allow", None)
  <2>1. e \in Effects /\ e.outcome = "allow"
    BY DEF Effect, Effects, Outcomes
  <2>2. /\ stage = "authorize" /\ Finish("authorize", o, e)
        /\ claims' = claims /\ findings' = findings /\ report' = report
    BY <1>3 DEF AuthorizeWithApproval, Running, runtimeVars
  <2> HIDE DEF e
  <2>3. /\ LedgerInv' /\ \A r \in Activities : ledger[r] # None => ledger'[r] = ledger[r]
        /\ WfInv' \/ (ledger'["authorize"] \in Effects /\ Proceed("authorize", ledger'["authorize"]))
    BY <1>f, <2>1, <2>2 DEF Activities
  <2>4. ASSUME ledger'["authorize"] \in Effects, Proceed("authorize", ledger'["authorize"])
        PROVE  WfInv'
    <3>1. stage' = "specialist" /\ result' = result /\ approvalId' = approvalId
      BY <2>4 DEF Proceed, Goto
    <3>2. Proceeding' /\ approvalId' = ledger'["coordinator"].approval
      BY <1>l, <2>2, <2>3, <3>1, LedgerGrows DEF PassInv
    <3>3. PassInv'
      BY <2>3, <2>4, <3>1, <3>2 DEF PassInv, Allowed, LedgerInv, Activities
    <3>4. WorkInv'
      BY <1>l, <2>2, <3>1 DEF WorkInv
    <3> QED
      BY <1>w, <2>2, <2>3, <3>1, <3>3, <3>4
  <2> QED
    BY <2>3, <2>4
<1>4. CASE SpecialistPass(o)
  <2> DEFINE e == Effect("claims", None)
  <2>1. e \in Effects
    BY DEF Effect, Effects, Outcomes
  <2>2. /\ stage = "specialist" /\ Finish("specialist", o, e)
        /\ claims' = claims + 1 /\ findings' = findings /\ report' = report
    BY <1>4 DEF SpecialistPass, Running
  <2>n. claims' \in Nat /\ claims' # 0
    BY <1>l, <2>2 DEF WorkInv
  <2> HIDE DEF e
  <2>3. /\ LedgerInv' /\ \A r \in Activities : ledger[r] # None => ledger'[r] = ledger[r]
        /\ WfInv' \/ (ledger'["specialist"] \in Effects /\ Proceed("specialist", ledger'["specialist"]))
    BY <1>f, <2>1, <2>2, <2>n DEF Activities
  <2>4. ASSUME Proceed("specialist", ledger'["specialist"])
        PROVE  WfInv'
    <3>1. stage' = "adjudicate" /\ result' = result /\ approvalId' = approvalId
      BY <2>4 DEF Proceed, Goto
    <3>2. PassInv'
      BY <1>l, <2>2, <2>3, <3>1, LedgerGrows DEF PassInv, Activities
    <3>3. WorkInv'
      BY <1>l, <2>2, <2>n, <3>1 DEF WorkInv
    <3> QED
      BY <1>w, <2>2, <2>3, <3>1, <3>2, <3>3
  <2> QED
    BY <2>3, <2>4
<1>5. CASE AdjudicatePass(o)
  <2> DEFINE e == Effect("findings", None)
  <2>1. e \in Effects
    BY DEF Effect, Effects, Outcomes
  <2>2. /\ stage = "adjudicate" /\ Finish("adjudicate", o, e)
        /\ claims' = claims /\ findings' = claims /\ report' = report
    BY <1>5 DEF AdjudicatePass, Running
  <2> HIDE DEF e
  <2>3. /\ LedgerInv' /\ \A r \in Activities : ledger[r] # None => ledger'[r] = ledger[r]
        /\ WfInv' \/ (ledger'["adjudicate"] \in Effects /\ Proceed("adjudicate", ledger'["adjudicate"]))
    BY <1>f, <2>1, <2>2 DEF Activities
  <2>4. ASSUME Proceed("adjudicate", ledger'["adjudicate"])
        PROVE  WfInv'
    <3>1. stage' = "report" /\ result' = result /\ approvalId' = approvalId
      BY <2>4 DEF Proceed, Goto
    <3>2. PassInv'
      BY <1>l, <2>2, <2>3, <3>1, LedgerGrows DEF PassInv, Activities
    <3>3. WorkInv'
      BY <1>l, <2>2, <3>1 DEF WorkInv
    <3> QED
      BY <1>w, <2>2, <2>3, <3>1, <3>2, <3>3
  <2> QED
    BY <2>3, <2>4
<1>6. CASE RenderReport(o)
  <2> DEFINE e == Effect("rendered", None)
  <2>1. e \in Effects
    BY DEF Effect, Effects, Outcomes
  <2>2. /\ stage = "report" /\ Finish("report", o, e)
        /\ claims' = claims /\ findings' = findings /\ report' = findings
    BY <1>6 DEF RenderReport, Running
  <2> HIDE DEF e
  <2>3. /\ LedgerInv' /\ \A r \in Activities : ledger[r] # None => ledger'[r] = ledger[r]
        /\ WfInv' \/ (ledger'["report"] \in Effects /\ Proceed("report", ledger'["report"]))
    BY <1>f, <2>1, <2>2 DEF Activities
  <2>4. ASSUME Proceed("report", ledger'["report"])
        PROVE  WfInv'
    <3>1. stage' = "close" /\ result' = result /\ approvalId' = approvalId
      BY <2>4 DEF Proceed, Goto
    <3>2. PassInv'
      BY <1>l, <2>2, <2>3, <3>1, LedgerGrows DEF PassInv, Activities
    <3>3. WorkInv'
      BY <1>l, <2>2, <3>1 DEF WorkInv
    <3> QED
      BY <1>w, <2>2, <2>3, <3>1, <3>2, <3>3
  <2> QED
    BY <2>3, <2>4
<1>7. CASE CloseEngagement(o)
  <2>t. stage = "close" /\ claims' = claims /\ findings' = findings /\ report' = report
    BY <1>7 DEF CloseEngagement, Running, runtimeVars
  <2> DEFINE reached == Max({k \in 0..Len(CloseTargets) : \A j \in 1..k : ClosePermits(j)})
             e       == Effect("closed", None)
  <2>1. reached \in 0..6
    BY CloseReaches
  <2>2. e \in Effects
    BY DEF Effect, Effects, Outcomes
  <2>3. /\ status' = CloseFrom(reached + 1)
        /\ IF reached < Len(CloseTargets) THEN Retry /\ UNCHANGED ledger ELSE Finish("close", o, e)
    BY <1>7 DEF CloseEngagement
  <2>l. Len(CloseTargets) = 6 /\ CloseTargets[6] = "closed"
    BY DEF CloseTargets
  <2> HIDE DEF reached, e
  <2>4. CASE reached < 6
    <3>1. Retry /\ ledger' = ledger
      BY <2>3, <2>4, <2>l
    <3> QED
      BY <1>l, <2>t, <3>1, RetryKeeps DEF LedgerInv, Activities
  <2>5. CASE reached = 6
    <3>1. status' = "closed"
      BY <2>3, <2>5, <2>l DEF CloseFrom
    <3>2. Finish("close", o, e)
      BY <2>3, <2>5, <2>l
    <3>3. /\ LedgerInv' /\ \A r \in Activities : ledger[r] # None => ledger'[r] = ledger[r]
          /\ WfInv' \/ (ledger'["close"] \in Effects /\ Proceed("close", ledger'["close"]))
      BY <1>f, <2>2, <2>t, <3>2 DEF Activities
    <3>4. ASSUME Proceed("close", ledger'["close"])
          PROVE  WfInv'
      <4>1. stage' = "done" /\ approvalId' = approvalId
        BY <3>4 DEF Proceed, End
      <4>2. PassInv' /\ WorkInv'
        BY <1>l, <2>t, <4>1 DEF PassInv, WorkInv
      <4>3. NoWorkWithoutAuthorization'
        BY <2>t, <3>3, <4>1, LedgerGrows DEF WfInv, NoWorkWithoutAuthorization, Allowed, Proceeding, GatePassed, Activities
      <4>4. ClosedMeansReported'
        BY <1>l, <2>t, <3>1 DEF WorkInv, ClosedMeansReported
      <4> QED
        BY <3>3, <4>2, <4>3, <4>4 DEF WfInv
    <3> QED
      BY <3>3, <3>4
  <2> QED
    BY <2>1, <2>4, <2>5
<1> QED
  BY <1>1, <1>2, <1>3, <1>4, <1>5, <1>6, <1>7 DEF Attempt

\* What else moves the run, or the world around it.
LEMMA WfOtherStep ==
    ASSUME WfInv, WfNext \/ UNCHANGED wfVars, \A o : ~Attempt(o)
    PROVE  WfInv'
<1> USE WorkflowAssumption
<1>u. ASSUME UNCHANGED <<runtimeVars, ledger, workflowVars>>, UNCHANGED status
      PROVE  WfInv'
  BY <1>u DEF runtimeVars, workflowVars, WfInv, LedgerInv, PassInv, WorkInv, NoWorkWithoutAuthorization, ClosedMeansReported,
     GatePassed, Proceeding, Allowed
<1>a. ASSUME UNCHANGED <<claims, findings, report, ledger, workflowVars, status>>
      PROVE  WfInv'
  BY <1>a DEF workflowVars, WfInv, LedgerInv, PassInv, WorkInv, NoWorkWithoutAuthorization, ClosedMeansReported,
     GatePassed, Proceeding, Allowed
<1>1. CASE Schedule
  BY <1>1 DEF Schedule, engagementVars, runtimeVars, WfInv, LedgerInv, PassInv, WorkInv, NoWorkWithoutAuthorization,
     ClosedMeansReported, GatePassed, Proceeding, Allowed
<1>2. CASE ApprovalWait
  <2>1. /\ stage = "await" /\ approvalId' = approvalId
        /\ (stage' = "authorize" /\ result' = result) \/ (stage' = "done" /\ result' = "denied")
        /\ UNCHANGED <<status, claims, findings, report, ledger>>
    BY <1>2 DEF ApprovalWait, Goto, End, engagementVars, runtimeVars
  <2>2. LedgerInv' /\ PassInv'
    BY <2>1 DEF WfInv, LedgerInv, PassInv, GatePassed, Proceeding, Allowed, Activities
  <2>3. WorkInv'
    BY <2>1 DEF WfInv, WorkInv
  <2>4. NoWorkWithoutAuthorization' /\ ClosedMeansReported'
    BY <2>1 DEF WfInv, WorkInv, NoWorkWithoutAuthorization, ClosedMeansReported
  <2> QED
    BY <2>2, <2>3, <2>4 DEF WfInv
<1>3. CASE AttemptFails
  <2>1. Retry /\ UNCHANGED <<status, claims, findings, report, ledger>>
    BY <1>3 DEF AttemptFails, engagementVars, runtimeVars
  <2>2. CASE stage \in Activities
    BY <2>1, <2>2, RetryKeeps DEF WfInv, LedgerInv
  <2>3. CASE stage \notin Activities
    <3>1. approvalId' = approvalId /\ ((stage' = stage /\ result' = result) \/ (stage' = "done" /\ result' = "failed"))
      BY <2>1 DEF Retry, End
    <3> QED
      BY <2>1, <2>3, <3>1 DEF WfInv, LedgerInv, PassInv, WorkInv, NoWorkWithoutAuthorization, ClosedMeansReported,
         GatePassed, Proceeding, Allowed, Activities
  <2> QED
    BY <2>2, <2>3
<1>4. ASSUME NEW p \in BOOLEAN, SetPaused(p)
      PROVE  WfInv'
  BY <1>4, <1>u DEF SetPaused, engagementVars
<1>5. ASSUME NEW a \in ApprovalIds, NEW d \in {"approved", "denied"}, Signal(a, d) \/ DecideApproval(a, d)
      PROVE  WfInv'
  BY <1>5, <1>u, <1>a DEF Signal, DecideApproval, engagementVars
<1>6. CASE RevokeGrant
  BY <1>6, <1>a DEF RevokeGrant, engagementVars
<1>7. CASE SuspendOrResume
  <2>1. /\ UNCHANGED <<claims, findings, report, ledger, stage, result, approvalId>>
        /\ \E to : Permitted(status, suspendedFrom, to)
    BY <1>7 DEF SuspendOrResume, Suspend, Resume, Change, runtimeVars, workflowVars
  <2>2. status # "closed"
    BY <2>1 DEF Permitted, Transitions
  <2> QED
    BY <2>1, <2>2 DEF WfInv, LedgerInv, PassInv, WorkInv, NoWorkWithoutAuthorization, ClosedMeansReported,
       GatePassed, Proceeding, Allowed
<1>8. CASE UNCHANGED wfVars
  BY <1>8, <1>a DEF wfVars, engagementVars, runtimeVars
<1> QED
  BY <1>1, <1>2, <1>3, <1>4, <1>5, <1>6, <1>7, <1>8 DEF WfNext, RunStep

LEMMA WfInvAlways ==
    WfSpec => []WfInv
<1>1. WfInit => WfInv
  BY EngagementAssumption DEF WfInit, WfInv, LedgerInv, PassInv, WorkInv, NoWorkWithoutAuthorization, ClosedMeansReported,
     Activities, Statuses, Terminal
<1>2. WfInv /\ [WfNext]_wfVars => WfInv'
  BY AttemptStep, WfOtherStep
<1> QED
  BY <1>1, <1>2, PTL DEF WfSpec

\* run, authorize_with_approval: no specialist has produced claims unless the
\* gate did not deny, the coordinator's recorded verdict was to proceed, and an
\* approval it asked for was checked again and allowed.
THEOREM NoWorkWithoutAuthorizationAlways ==
    WfSpec => []NoWorkWithoutAuthorization
<1>1. WfInv => NoWorkWithoutAuthorization
  BY DEF WfInv
<1> QED
  BY WfInvAlways, <1>1, PTL

\* run, close_engagement: a run that reports "closed" has closed the engagement
\* and rendered a report about the claims of the last specialist attempt.
THEOREM ClosedMeansReportedAlways ==
    WfSpec => []ClosedMeansReported
<1>1. WfInv => ClosedMeansReported
  BY DEF WfInv
<1> QED
  BY WfInvAlways, <1>1, PTL

-----------------------------------------------------------------------------
(* The endpoints on threads *)

\* A thread past the table has a status to write, and one past its read of
\* the old status has that.
ThreadKnows(t) ==
    /\ pc[t] \in {"suspendable", "suspended", "recorded", "match", "clear", "from",
                  "status", "record", "history", "audit", "link"} => target[t] \in Statuses
    /\ pc[t] \in {"status", "record", "history", "audit", "link"} => source[t] \in Statuses

ThreadsInv ==
    /\ status \in Statuses
    /\ suspendedFrom \in Statuses \cup {None}
    /\ history \in Seq(HistoryEntry)
    /\ audit \in Seq({"engagement_state_change"})
    /\ pc \in [Threads -> Locations]
    /\ target \in [Threads -> Statuses \cup {None}]
    /\ source \in [Threads -> Statuses \cup {None}]
    /\ previous \in [Threads -> Nat]
    /\ \A t \in Threads : ThreadKnows(t)

\* The threads whose history entry has no audit event yet.
Owing == {t \in Threads : pc[t] \in {"audit", "link"}}

\* Every entry has its event but for those that are owed.
AuditInv ==
    /\ IsFiniteSet(Owing)
    /\ Len(audit) + Cardinality(Owing) = Len(history) + 1

LEMMA ApiTargets ==
    ASSUME NEW s \in Statuses
    PROVE  Transitions(s) \subseteq Statuses
BY DEF Statuses, Suspendable, Terminal, Transitions

\* Where a statement of one thread leaves the object.
LEMMA LocalStep ==
    ASSUME ThreadsInv, NEW t \in Threads,
           AuthorizeEnter(t) \/ AuthorizeElif(t) \/ AuthorizeWhile(t) \/ AuthorizeTarget(t)
             \/ ResumeTarget(t) \/ Check(t) \/ \E o \in {"authorize", "suspend", "resume"} : Request(t, o)
    PROVE  ThreadsInv' /\ UNCHANGED <<history, audit>> /\ Owing' = Owing
<1>1. UNCHANGED <<status, suspendedFrom, history, audit>>
  BY DEF AuthorizeEnter, AuthorizeElif, AuthorizeWhile, AuthorizeTarget, ResumeTarget, Check,
     Request, object, engagementVars
<1>2. PICK k \in Locations \ {"audit", "link"} : pc' = [pc EXCEPT ![t] = k]
  BY Zenon DEF AuthorizeEnter, AuthorizeElif, AuthorizeWhile, AuthorizeTarget, ResumeTarget, Check,
     Request, Move, Raise, Return, Target, Locations
<1>3. pc[t] \notin {"audit", "link"}
  BY DEF AuthorizeEnter, AuthorizeElif, AuthorizeWhile, AuthorizeTarget, ResumeTarget, Check,
     Request
<1>4. Owing' = Owing
  BY <1>2, <1>3 DEF Owing, ThreadsInv
<1>5. /\ \E s \in Statuses \cup {None} : target' = [target EXCEPT ![t] = s]
      /\ \E s \in Statuses \cup {None} : source' = [source EXCEPT ![t] = s]
      /\ \E n \in Nat : previous' = [previous EXCEPT ![t] = n]
      /\ ThreadKnows(t)'
  <2>t. /\ status \in Statuses /\ suspendedFrom \in Statuses \cup {None}
        /\ target[t] \in Statuses \cup {None} /\ source[t] \in Statuses \cup {None} /\ previous[t] \in Nat
        /\ ThreadKnows(t)
    BY DEF ThreadsInv
  <2>l. \A l : Move(t, l) => /\ pc'[t] = l /\ target'[t] = target[t] /\ source'[t] = source[t]
                                /\ target' = [target EXCEPT ![t] = target[t]]
                                /\ source' = [source EXCEPT ![t] = source[t]]
                                /\ previous' = [previous EXCEPT ![t] = previous[t]]
    BY DEF Move, local, ThreadsInv
  <2>r. Return(t) => /\ pc'[t] = "idle"
                         /\ target' = [target EXCEPT ![t] = None]
                         /\ source' = [source EXCEPT ![t] = None]
                         /\ previous' = [previous EXCEPT ![t] = 0]
    BY DEF Return, ThreadsInv
  <2>g. \A s : Target(t, s) => /\ pc'[t] = "table" /\ target' = [target EXCEPT ![t] = s]
                                  /\ source' = [source EXCEPT ![t] = source[t]]
                                  /\ previous' = [previous EXCEPT ![t] = previous[t]]
    BY DEF Target, ThreadsInv
  <2>1. CASE Check(t)
    <3>1. Return(t) \/ \E l \in Locations : Move(t, l)
      BY <2>1, Zenon DEF Check, Raise, Locations
    <3>2. ASSUME NEW l \in Locations, Move(t, l)
          PROVE  ThreadKnows(t)'
      <4>1. pc[t] = "table" /\ pc'[t] # "idle" => target[t] \in Statuses
        BY <2>1, <2>t, <2>r, ApiTargets DEF Check, Raise
      <4>2. pc'[t] \in {"idle", "suspendable", "suspended", "recorded", "match", "clear", "from"}
        BY <2>1, <2>l, <2>r DEF Check, Raise
      <4>3. pc[t] \in {"table", "suspendable", "suspended", "recorded", "match"}
        BY <2>1 DEF Check
      <4> QED
        BY <3>2, <4>1, <4>2, <4>3, <2>l, <2>t DEF ThreadKnows
    <3> QED
      BY <2>t, <2>l, <2>r, <3>1, <3>2 DEF ThreadKnows
  <2>2. CASE \E o \in {"authorize", "suspend", "resume"} : Request(t, o)
    <3>1. PICK o \in {"authorize", "suspend", "resume"} : Request(t, o)
      BY <2>2
    <3>2. pc'[t] \in {"enter", "table", "resume1"}
      BY <3>1 DEF Request, ThreadsInv
    <3>3. (IF o = "suspend" THEN "suspended" ELSE None) \in Statuses \cup {None}
      BY DEF Statuses
    <3>4. target' = [target EXCEPT ![t] = IF o = "suspend" THEN "suspended" ELSE None]
      BY <3>1 DEF Request
    <3>5. source' = [source EXCEPT ![t] = source[t]] /\ previous' = [previous EXCEPT ![t] = previous[t]]
      BY <3>1 DEF Request, ThreadsInv
    <3> QED
      BY <2>t, <3>2, <3>3, <3>4, <3>5 DEF ThreadKnows
  <2>3. CASE AuthorizeTarget(t) \/ ResumeTarget(t)
    BY <2>3, <2>t, <2>l, <2>r, <2>g DEF AuthorizeTarget, ResumeTarget, Raise, ThreadKnows, Statuses, Suspendable
  <2>4. CASE AuthorizeEnter(t) \/ AuthorizeElif(t) \/ AuthorizeWhile(t)
    BY <2>4, <2>t, <2>l, <2>r DEF AuthorizeEnter, AuthorizeElif, AuthorizeWhile, ThreadKnows
  <2> QED
    BY <2>1, <2>2, <2>3, <2>4
<1>6. \A u \in Threads \ {t} : ThreadKnows(u)'
  BY <1>2, <1>5 DEF ThreadsInv, ThreadKnows
<1> QED
  BY <1>1, <1>2, <1>4, <1>5, <1>6 DEF ThreadsInv

\* Where a statement changes the object.
LEMMA ObjectStep ==
    ASSUME ThreadsInv, NEW t \in Threads,
           ClearSuspendedFrom(t) \/ ReadFrom(t) \/ WriteStatus(t) \/ RecordSuspendedFrom(t)
    PROVE  ThreadsInv' /\ UNCHANGED <<history, audit>> /\ Owing' = Owing
<1>1. UNCHANGED <<history, audit>>
  BY DEF ClearSuspendedFrom, ReadFrom, WriteStatus, RecordSuspendedFrom, object, engagementVars, sink
<1>2. ThreadsInv'
  <2>1. CASE ClearSuspendedFrom(t)
    BY <2>1 DEF ClearSuspendedFrom, Move, local, sink, ThreadsInv, ThreadKnows, Locations
  <2>2. CASE ReadFrom(t)
    BY <2>2 DEF ReadFrom, object, engagementVars, ThreadsInv, ThreadKnows, Locations
  <2>3. CASE WriteStatus(t)
    BY <2>3 DEF WriteStatus, Move, local, sink, ThreadsInv, ThreadKnows, Locations
  <2>4. CASE RecordSuspendedFrom(t)
    BY <2>4 DEF RecordSuspendedFrom, Move, local, sink, ThreadsInv, ThreadKnows, Locations
  <2> QED
    BY <2>1, <2>2, <2>3, <2>4
<1>3. Owing' = Owing
  BY DEF ClearSuspendedFrom, ReadFrom, WriteStatus, RecordSuspendedFrom, Move, ThreadsInv, Owing
<1> QED
  BY <1>1, <1>2, <1>3

\* The history entry and its audit event.
LEMMA AuditStep ==
    ASSUME ThreadsInv, AuditInv, NEW t \in Threads,
           AppendHistory(t) \/ AuditPrevious(t) \/ AuditAppend(t)
    PROVE  ThreadsInv' /\ AuditInv'
<1>t. /\ Cardinality(Owing) \in Nat /\ Len(audit) \in Nat /\ Len(history) \in Nat
  BY FS_CardinalityType DEF ThreadsInv, AuditInv
<1>1. CASE AppendHistory(t)
  <2>1. ThreadsInv' /\ Len(history') = Len(history) + 1 /\ audit' = audit
    BY <1>1 DEF AppendHistory, Move, local, sink, ThreadsInv, ThreadKnows, HistoryEntry, Locations
  <2>2. Owing' = Owing \cup {t} /\ t \notin Owing
    BY <1>1 DEF AppendHistory, Move, ThreadsInv, Owing
  <2>3. IsFiniteSet(Owing') /\ Cardinality(Owing') = Cardinality(Owing) + 1
    BY <2>2, FS_AddElement DEF AuditInv
  <2> QED
    BY <1>t, <2>1, <2>3 DEF AuditInv
<1>2. CASE AuditPrevious(t)
  <2>1. ThreadsInv' /\ UNCHANGED <<history, audit>>
    BY <1>2, <1>t DEF AuditPrevious, object, engagementVars, ThreadsInv, ThreadKnows, Locations
  <2>2. Owing' = Owing
    BY <1>2 DEF AuditPrevious, ThreadsInv, Owing
  <2> QED
    BY <2>1, <2>2 DEF AuditInv
<1>3. CASE AuditAppend(t)
  <2>1. ThreadsInv' /\ Len(audit') = Len(audit) + 1 /\ history' = history
    <3>1. /\ history' = history /\ status' = status /\ suspendedFrom' = suspendedFrom
          /\ audit' = Append(audit, "engagement_state_change")
          /\ Move(t, "while") \/ Return(t)
      BY <1>3 DEF AuditAppend, ThreadsInv
    <3>2. audit' \in Seq({"engagement_state_change"}) /\ Len(audit') = Len(audit) + 1
      BY <3>1 DEF ThreadsInv
    <3>3. CASE Move(t, "while")
      BY <3>1, <3>2, <3>3 DEF Move, local, ThreadsInv, ThreadKnows, Locations
    <3>4. CASE Return(t)
      BY <3>1, <3>2, <3>4 DEF Return, ThreadsInv, ThreadKnows, Locations
    <3> QED
      BY <3>1, <3>2, <3>3, <3>4
  <2>2. Owing' = Owing \ {t} /\ t \in Owing
    BY <1>3 DEF AuditAppend, Move, Return, ThreadsInv, Owing
  <2>3. IsFiniteSet(Owing') /\ Cardinality(Owing') = Cardinality(Owing) - 1
    BY <2>2, FS_RemoveElement DEF AuditInv
  <2> QED
    BY <1>t, <2>1, <2>3 DEF AuditInv
<1> QED
  BY <1>1, <1>2, <1>3

\* InMemoryAuditSink.append, transition: once every request has been answered
\* there is an audit event for each entry of the history, for any number of
\* threads and requests.
THEOREM NoAuditEventIsLostAlways ==
    ApiSpec => []NoAuditEventIsLost
<1>1. ApiInit => ThreadsInv /\ AuditInv
  <2> SUFFICES ASSUME ApiInit PROVE ThreadsInv /\ AuditInv
    OBVIOUS
  <2>1. ThreadsInv
    BY DEF ApiInit, ThreadsInv, ThreadKnows, Locations, Statuses, Suspendable
  <2>2. Owing = {}
    BY DEF ApiInit, Owing
  <2>3. Len(audit) = 1 /\ Len(history) = 0
    BY DEF ApiInit
  <2> QED
    BY <2>1, <2>2, <2>3, FS_EmptySet DEF AuditInv
<1>2. ThreadsInv /\ AuditInv /\ [ApiNext]_apiVars => ThreadsInv' /\ AuditInv'
  <2> SUFFICES ASSUME ThreadsInv, AuditInv, [ApiNext]_apiVars PROVE ThreadsInv' /\ AuditInv'
    OBVIOUS
  <2>1. CASE UNCHANGED apiVars
    BY <2>1 DEF apiVars, object, engagementVars, local, ThreadsInv, ThreadKnows, AuditInv, Owing
  <2>2. CASE ApiNext
    BY <2>2, LocalStep, ObjectStep, AuditStep DEF ApiNext, ThreadStep, AuditInv
  <2> QED
    BY <2>1, <2>2
<1>3. ThreadsInv /\ AuditInv => NoAuditEventIsLost
  <2> SUFFICES ASSUME ThreadsInv, AuditInv, \A t \in Threads : pc[t] = "idle" PROVE Len(audit) = Len(history) + 1
    BY DEF NoAuditEventIsLost
  <2>1. Owing = {}
    BY DEF Owing
  <2> QED
    BY <2>1, FS_EmptySet DEF AuditInv, ThreadsInv
<1> QED
  BY <1>1, <1>2, <1>3, PTL DEF ApiSpec
=============================================================================
