------------------------------- MODULE Hosted -------------------------------
(***************************************************************************)
(* The hosted firm: people's commands on cases, the durable engine, and    *)
(* the reconciliation of its runs, over one database.                      *)
(***************************************************************************)
EXTENDS Reconciliation

\* What the rows hold, and the commands in flight by what they have read.
CaseRow  == [client : Clients, requester : Humans, status : Statuses]
GrantRow == [principal : Humans, revoked : BOOLEAN]
Run      == [state : {"running", "completed", "failed"}, client : Clients, target : Targets]
Decision == {"ALREADY_TERMINAL", "REVIEW_REQUIRED", "RECONCILED", "NO_ACTION"}
Call     ==
    [op : {"create"}, human : Humans, case : Cases, request : Requests]
        \cup [op : {"authorize"}, human : Humans, case : Cases, status : {"draft", "authorized"}, granted : BOOLEAN]
        \cup [op : {"start"}, human : Humans, case : Cases, target : Targets, client : Clients,
              row : RowStatuses \cup {None}, answer : {"started", "error", None}]
        \cup [op : {"reconcile"}, case : Cases, decisions : Decision \X Decision, after : {"failed", "cancelled"}]
        \cup [op : {"decided"}, case : Cases, answered : BOOLEAN, after : {"failed", "cancelled"}, decision : Decision]

ASSUME NoneAssumption ==
    None \notin RowStatuses \cup {"started", "error"} \cup CaseRow \cup GrantRow \cup Run \cup Call

vars == <<members, caseVars, calls>>

Init == AccessInit /\ CaseInit

Command(k) ==
    \/ \E h \in Humans, q \in Requests : CreateRead(k, h, q)
    \/ \E h \in Humans, c \in Cases : AuthorizeRead(k, h, c)
    \/ \E h \in Humans, c \in Cases, t \in Targets : StartRead(k, h, c, t)
    \/ \E c \in Cases : ReconcileRead(k, c)
    \/ /\ calls[k] # None
       /\ \/ CreateWrite(k) \/ AuthorizeWrite(k) \/ StartWrite(k) \/ ReconcileWrite(k)
          \/ \E delivered \in BOOLEAN, answer \in {"started", "error"} : CallStarter(k, delivered, answer)
          \/ \E answered \in BOOLEAN : Probe(k, answered)
          \/ CallDies(k)

Engine(c) ==
    \/ \E status \in Statuses : WorkflowMoves(c, status)
    \/ \E state \in {"completed", "failed"} : WorkflowEnds(c, state)
    \/ RecordEnd(c)

Next ==
    \/ \E k \in Calls : Command(k)
    \/ \E c \in Cases : RevokeGrant(c) \/ Engine(c)
    \/ \E h \in Humans, client \in Clients : ChangeMembership(h, client) /\ UNCHANGED <<caseVars, calls>>

Spec == Init /\ [][Next]_vars

-----------------------------------------------------------------------------
\* A row says running only for a run that the engine has, and whose start is
\* audited, although answers are lost, commands die after the engine started,
\* and retries race each other and the reconciliation (start_inspection).
RunningWasStarted ==
    \A c \in Cases : rows[c] = "running" => runs[c] # None /\ <<c, "START">> \in audit

\* The engine runs nothing for a case without an inspection grant, and nothing
\* on a target of another client than the case had when it was started, even
\* where a race between two creations has mixed their targets (authorize_case,
\* start_inspection).
RunsAreGranted ==
    \A c \in Cases : runs[c] # None => grants[c] # None /\ ClientOf[runs[c].target] = runs[c].client

\* Where the probe answered, reconciliation closes no row of a run that still
\* runs when the decision is written (reconcile).
ReconciledRunIsOver ==
    [][\A k \in Calls :
          calls[k] # None /\ ReconcileWrite(k) /\ rows' # rows /\ calls[k].answered
              => runs[calls[k].case].state # "running"]_vars
=============================================================================
