---------------------------- MODULE HostedCases ----------------------------
(***************************************************************************)
(* The hosted command boundary: creating, authorizing and starting a case. *)
(* A command is one transaction at PostgreSQL's default isolation: it      *)
(* reads, calls out or thinks, and writes what it changed of the rows it   *)
(* read; commands of several people interleave, die, and lose answers of   *)
(* the durable workflow engine, which starts a run once per identity.      *)
(***************************************************************************)
EXTENDS Naturals, HostedAccess

CONSTANTS
    Cases,        \* engagement ids, numbers in the order of the ids
    Targets,
    ClientOf,     \* the client a target belongs to
    Requests,     \* bodies of create_case
    Calls,        \* commands in flight
    None

ASSUME CasesAssumption ==
    /\ Cases \subseteq Nat
    /\ ClientOf \in [Targets -> Clients]
    /\ \A q \in Requests : /\ q.case \in Cases /\ q.client \in Clients
                           /\ q.targets \subseteq Targets /\ q.targets # {}

VARIABLES
    cases,   \* EngagementRow
    links,   \* EngagementTargetRow: the targets in scope of a case
    grants,  \* AuthorityGrantRow: the inspection grant of a case
    rows,    \* status of WorkflowRunRow, one per case
    runs,    \* the durable engine's workflow of a case
    audit,   \* AuditEventRow, by the derived ids
    calls

caseVars == <<cases, links, grants, rows, runs, audit>>

Statuses    == {"draft", "authorized", "active", "closed", "failed"}
Terminal    == {"closed", "failed"}
RowStatuses == {"running", "completed", "failed", "cancelled"}

CaseInit ==
    /\ cases = [c \in Cases |-> None] /\ links = [c \in Cases |-> {}]
    /\ grants = [c \in Cases |-> None] /\ rows = [c \in Cases |-> None]
    /\ runs = [c \in Cases |-> None] /\ audit = {}
    /\ calls = [k \in Calls |-> None]

Sees(h, c)      == cases[c] # None /\ CanAccess(h, cases[c].client)
SeesUnder(h, c) == cases[c] # None /\ IsMember(h, cases[c].client)

Enter(k, call) == calls[k] = None /\ calls' = [calls EXCEPT ![k] = call]
Leave(k)       == calls' = [calls EXCEPT ![k] = None]

-----------------------------------------------------------------------------
\* create_case reads: no case of this id is visible (a visible one is answered
\* or refused), the client and its targets are.
CreateRead(k, h, q) ==
    /\ CanAccess(h, q.client) /\ ~Sees(h, q.case)
    /\ \A t \in q.targets : ClientOf[t] = q.client
    /\ Enter(k, [op |-> "create", human |-> h, case |-> q.case, request |-> q])
    /\ UNCHANGED <<members, caseVars>>

\* create_case writes.  merge() looks the case up again: it inserts it, or
\* overwrites one that has become visible; the links are inserted under their
\* primary keys.  Row level security checks the new rows.
CreateWrite(k) ==
    LET call == calls[k]
        q    == call.request
    IN  /\ call.op = "create"
        /\ cases[q.case] = None \/ Sees(call.human, q.case)
        /\ IsMember(call.human, q.client)
        /\ links[q.case] \cap q.targets = {}
        /\ cases' = [cases EXCEPT ![q.case] =
             [client |-> q.client, requester |-> call.human, status |-> "draft"]]
        /\ links' = [links EXCEPT ![q.case] = @ \cup q.targets]
        /\ Leave(k)
        /\ UNCHANGED <<members, grants, rows, runs, audit>>

-----------------------------------------------------------------------------
\* The grant authorize_case accepts: its own, not revoked.
Usable(grant, h) == grant = None \/ grant = [principal |-> h, revoked |-> FALSE]

\* authorize_case reads: the requester's case, a draft or authorized.
AuthorizeRead(k, h, c) ==
    /\ Sees(h, c) /\ cases[c].requester = h
    /\ cases[c].status \in {"draft", "authorized"}
    /\ SeesUnder(h, c) /\ Usable(grants[c], h)
    /\ Enter(k, [op |-> "authorize", human |-> h, case |-> c,
                 status |-> cases[c].status, granted |-> grants[c] # None])
    /\ UNCHANGED <<members, caseVars>>

\* authorize_case writes the status if its transitions changed it, over
\* whatever it is now, and inserts the grant unless it had found one.
AuthorizeWrite(k) ==
    LET call == calls[k]
        c    == call.case
    IN  /\ call.op = "authorize" /\ SeesUnder(call.human, c)
        /\ ~call.granted => grants[c] = None
        /\ cases' = [cases EXCEPT ![c].status = IF call.status = "draft" THEN "authorized" ELSE @]
        /\ grants' = IF call.granted THEN grants
                     ELSE [grants EXCEPT ![c] = [principal |-> call.human, revoked |-> FALSE]]
        /\ Leave(k)
        /\ UNCHANGED <<members, links, rows, runs, audit>>

\* An inspection grant is revoked.
RevokeGrant(c) ==
    /\ grants[c] # None /\ ~grants[c].revoked
    /\ grants' = [grants EXCEPT ![c].revoked = TRUE]
    /\ UNCHANGED <<members, cases, links, rows, runs, audit, calls>>

-----------------------------------------------------------------------------
\* A command that holds the uncommitted insert of the case's workflow row.
Inserting(c) ==
    \E k \in Calls : calls[k] # None /\ calls[k].op = "start" /\ calls[k].case = c /\ calls[k].row = None

\* Mutant of StartRead: the link is trusted.
StartReadLinked(k, h, c, t) ==
    /\ SeesUnder(h, c) /\ cases[c].status = "authorized" /\ t \in links[c]
    /\ rows[c] \notin {"running", "completed"}
    /\ rows[c] = None => ~Inserting(c)
    /\ Enter(k, [op |-> "start", human |-> h, case |-> c, target |-> t,
                 client |-> cases[c].client, row |-> rows[c], answer |-> None])
    /\ UNCHANGED <<members, caseVars>>

\* start_inspection reads: the case is authorized, the target in its scope, its
\* client's and bound to the snapshot; a running or completed run is answered.
\* Without a row one is inserted, which makes other inserts wait.
StartRead(k, h, c, t) ==
    /\ SeesUnder(h, c) /\ cases[c].status = "authorized"
    /\ t \in links[c] /\ ClientOf[t] = cases[c].client
    /\ rows[c] \notin {"running", "completed"}
    /\ rows[c] = None => ~Inserting(c)
    /\ Enter(k, [op |-> "start", human |-> h, case |-> c, target |-> t,
                 client |-> cases[c].client, row |-> rows[c], answer |-> None])
    /\ UNCHANGED <<members, caseVars>>

\* The starter's request: answered, delivered but not answered, or not
\* delivered.  The engine starts a run for an identity once.
CallStarter(k, delivered, answer) ==
    LET call == calls[k]
    IN  /\ call.op = "start" /\ call.answer = None
        /\ answer = "started" => delivered
        /\ runs' = IF delivered /\ runs[call.case] = None
                   THEN [runs EXCEPT ![call.case] = [state |-> "running", client |-> call.client, target |-> call.target]]
                   ELSE runs
        /\ calls' = [calls EXCEPT ![k].answer = answer]
        /\ UNCHANGED <<members, cases, links, grants, rows, audit>>

\* Mutant of StartWrite: the row is running whatever the starter answered.
StartWriteAnyway(k) ==
    LET call == calls[k]
        c    == call.case
    IN  /\ call.op = "start" /\ call.answer # None /\ SeesUnder(call.human, c)
        /\ rows' = [rows EXCEPT ![c] = "running"]
        /\ audit' = audit \cup {<<c, "START">>}
        /\ Leave(k)
        /\ UNCHANGED <<members, cases, links, grants, runs>>

\* start_inspection writes what changed of the row it read: running with its
\* audit event, or failed.
StartWrite(k) ==
    LET call   == calls[k]
        c      == call.case
        status == IF call.answer = "started" THEN "running" ELSE "failed"
    IN  /\ call.op = "start" /\ call.answer # None /\ SeesUnder(call.human, c)
        /\ rows' = IF call.row = status THEN rows ELSE [rows EXCEPT ![c] = status]
        /\ audit' = IF status = "running" THEN audit \cup {<<c, "START">>} ELSE audit
        /\ Leave(k)
        /\ UNCHANGED <<members, cases, links, grants, runs>>

\* Any command raises, or its process dies: the transaction rolls back.
CallDies(k) ==
    /\ calls[k] # None
    /\ Leave(k)
    /\ UNCHANGED <<members, caseVars>>
=============================================================================
