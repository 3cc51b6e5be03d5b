--------------------------- MODULE Reconciliation ---------------------------
(***************************************************************************)
(* WorkflowReconciliationService: a workflow row whose engagement is over  *)
(* is closed from what the durable engine says of the run, or without it.  *)
(* The row and the engagement are read first, the engine is probed, and    *)
(* the decision written last.  The engine and the executor of its runs are *)
(* not part of the repository; they are modelled from their use.           *)
(***************************************************************************)
EXTENDS HostedCases

RowTerminal == {"completed", "failed", "cancelled"}

\* A run moves its engagement on; it may fail at any time, and completes once
\* the engagement is over.
WorkflowMoves(c, status) ==
    /\ runs[c] # None /\ runs[c].state = "running"
    /\ \/ cases[c].status = "authorized" /\ status = "active"
       \/ cases[c].status = "active" /\ status \in Terminal
    /\ cases' = [cases EXCEPT ![c].status = status]
    /\ UNCHANGED <<members, links, grants, rows, runs, audit, calls>>

WorkflowEnds(c, state) ==
    /\ runs[c] # None /\ runs[c].state = "running"
    /\ state = "completed" => cases[c].status \in Terminal
    /\ runs' = [runs EXCEPT ![c].state = state]
    /\ UNCHANGED <<members, cases, links, grants, rows, audit, calls>>

\* The executor records the end of its run.
RecordEnd(c) ==
    /\ rows[c] = "running" /\ runs[c].state # "running"
    /\ rows' = [rows EXCEPT ![c] = runs[c].state]
    /\ UNCHANGED <<members, cases, links, grants, runs, audit, calls>>

-----------------------------------------------------------------------------
\* Mutant of Decisions: the engine is not listened to.
DecisionsUnprobed(row, status) ==
    IF row \in RowTerminal THEN <<"ALREADY_TERMINAL", "ALREADY_TERMINAL">>
    ELSE IF status \in Terminal THEN <<"RECONCILED", "RECONCILED">>
    ELSE <<"NO_ACTION", "NO_ACTION">>

\* The decision on what was read, for a run the engine says is running and for
\* any other answer.
Decisions(row, status) ==
    CASE row \in RowTerminal -> <<"ALREADY_TERMINAL", "ALREADY_TERMINAL">>
      [] row \notin RowTerminal /\ status \in Terminal -> <<"REVIEW_REQUIRED", "RECONCILED">>
      [] OTHER -> <<"NO_ACTION", "NO_ACTION">>

\* reconcile reads the row and the engagement.
ReconcileRead(k, c) ==
    /\ rows[c] # None
    /\ Enter(k, [op |-> "reconcile", case |-> c, decisions |-> Decisions(rows[c], cases[c].status),
                 after |-> IF cases[c].status = "failed" THEN "failed" ELSE "cancelled"])
    /\ UNCHANGED <<members, caseVars>>

Running(c) == runs[c] # None /\ runs[c].state = "running"

\* temporal_probe answers; or it fails, is not configured or answers something
\* unknown, which all count as unavailable.
Probe(k, answered) ==
    LET call == calls[k]
    IN  /\ call.op = "reconcile"
        /\ calls' = [calls EXCEPT ![k] =
             [op |-> "decided", case |-> call.case, answered |-> answered, after |-> call.after,
              decision |-> call.decisions[IF answered /\ Running(call.case) THEN 1 ELSE 2]]]
        /\ UNCHANGED <<members, caseVars>>

\* The decision is written, with its audit event unless the same decision was
\* audited before.
ReconcileWrite(k) ==
    LET call == calls[k]
        c    == call.case
    IN  /\ call.op = "decided"
        /\ rows' = IF call.decision = "RECONCILED" THEN [rows EXCEPT ![c] = call.after] ELSE rows
        /\ audit' = audit \cup {<<c, call.decision>>}
        /\ Leave(k)
        /\ UNCHANGED <<members, cases, links, grants, runs>>
=============================================================================
