---------------------------- MODULE HostedProofs ----------------------------
(***************************************************************************)
(* Proofs about the hosted firm, for any people, clients, cases, targets   *)
(* and number of commands in flight.                                       *)
(*                                                                         *)
(* Nothing is locked between the reads of a command and its writes, so     *)
(* what a command may rely on at its writes is what no other step takes    *)
(* back: a case, a grant and a run stay once they are there, and a run     *)
(* that is over stays over (Kept).  CallKnows says what of this each       *)
(* command in flight has seen; it is the strengthening the safety          *)
(* properties need.                                                        *)
(***************************************************************************)
EXTENDS Hosted, TLAPS

TypeOK ==
    /\ cases \in [Cases -> CaseRow \cup {None}]
    /\ links \in [Cases -> SUBSET Targets]
    /\ grants \in [Cases -> GrantRow \cup {None}]
    /\ rows \in [Cases -> RowStatuses \cup {None}]
    /\ runs \in [Cases -> Run \cup {None}]
    /\ calls \in [Calls -> Call \cup {None}]

\* A case that has left the draft has a grant; a run or a row has a case.
CasesAreBacked ==
    \A c \in Cases :
        /\ cases[c] # None /\ cases[c].status # "draft" => grants[c] # None
        /\ runs[c] # None => cases[c] # None

\* What a command in flight has seen, and still holds.
Knows(call) ==
    /\ call.op = "authorize" /\ call.granted => grants[call.case] # None
    /\ call.op = "start" =>
          /\ cases[call.case] # None /\ grants[call.case] # None
          /\ ClientOf[call.target] = call.client
          /\ call.row \notin {"running", "completed"}
          /\ call.answer = "started" => runs[call.case] # None
    /\ call.op = "reconcile" =>
          /\ call.decisions[1] # "RECONCILED"
          /\ call.decisions[2] = "RECONCILED" => runs[call.case] # None
    /\ call.op = "decided" /\ call.answered /\ call.decision = "RECONCILED" =>
          runs[call.case] # None /\ runs[call.case].state # "running"

CallsKnow == \A k \in Calls : calls[k] # None => Knows(calls[k])

Inv ==
    /\ TypeOK
    /\ CasesAreBacked
    /\ CallsKnow
    /\ RunningWasStarted
    /\ RunsAreGranted

\* What no step takes back.
Kept ==
    \A c \in Cases :
        /\ cases[c] # None => cases'[c] # None
        /\ grants[c] # None => grants'[c] # None
        /\ runs[c] # None => runs'[c] # None
        /\ runs[c] # None /\ runs[c].state # "running" => runs'[c].state # "running"

-----------------------------------------------------------------------------
\* A step leaves what a command that it does not move has seen.
LEMMA KnowsIsKept ==
    ASSUME Inv, Kept, NEW k \in Calls, calls[k] # None, calls'[k] = calls[k]
    PROVE  Knows(calls[k])'
<1> DEFINE call == calls[k]
<1>1. call \in Call /\ Knows(call)
  BY DEF Inv, TypeOK, CallsKnow
<1>2. call.case \in Cases
  BY <1>1 DEF Call
<1> QED
  BY <1>1, <1>2 DEF Kept, Knows

\* A step that moves one command leaves what all commands know, if the moved
\* one knows it.
LEMMA OthersKnow ==
    ASSUME Inv, Kept, NEW k \in Calls, \A j \in Calls \ {k} : calls'[j] = calls[j],
           calls'[k] # None => Knows(calls[k])'
    PROVE  CallsKnow'
<1> SUFFICES ASSUME NEW j \in Calls, calls'[j] # None
             PROVE  Knows(calls[j])'
  BY DEF CallsKnow
<1>1. CASE j = k
  BY <1>1
<1>2. CASE j # k
  <2>1. calls'[j] = calls[j] /\ calls[j] # None
    BY <1>2
  <2> QED
    BY <2>1, KnowsIsKept
<1> QED
  BY <1>1, <1>2

\* What a command does to the invariant: one step per read, call or write.
LEMMA CommandStep ==
    ASSUME Inv, NEW k \in Calls, Command(k)
    PROVE  Inv' /\ Kept
<1> USE CasesAssumption, NoneAssumption
<1>t. TypeOK /\ CasesAreBacked /\ RunningWasStarted /\ RunsAreGranted
  BY DEF Inv
<1>k. calls[k] # None => calls[k] \in Call /\ Knows(calls[k]) /\ calls[k].case \in Cases
  BY DEF Inv, TypeOK, CallsKnow, Call
<1>o. ASSUME TypeOK', Kept, \A j \in Calls \ {k} : calls'[j] = calls[j],
             calls'[k] # None => Knows(calls[k])',
             CasesAreBacked', RunningWasStarted', RunsAreGranted'
      PROVE  Inv' /\ Kept
  BY <1>o, OthersKnow DEF Inv
<1>r. ASSUME UNCHANGED caseVars, \A j \in Calls \ {k} : calls'[j] = calls[j],
             calls' \in [Calls -> Call \cup {None}], calls'[k] # None => Knows(calls[k])'
      PROVE  Inv' /\ Kept
  <2>1. TypeOK' /\ Kept /\ CasesAreBacked' /\ RunningWasStarted' /\ RunsAreGranted'
    BY <1>t, <1>r DEF caseVars, TypeOK, Kept, CasesAreBacked, RunningWasStarted, RunsAreGranted
  <2> QED
    BY <1>o, <1>r, <2>1
<1>1. ASSUME NEW h \in Humans, NEW q \in Requests, CreateRead(k, h, q)
      PROVE  Inv' /\ Kept
  BY <1>1, <1>t, <1>r DEF CreateRead, Enter, TypeOK, Knows, Call
<1>2. ASSUME NEW h \in Humans, NEW c \in Cases, AuthorizeRead(k, h, c)
      PROVE  Inv' /\ Kept
  <2> DEFINE granted == grants[c] # None
             call    == [op |-> "authorize", human |-> h, case |-> c, status |-> cases[c].status, granted |-> granted]
  <2>1. granted \in BOOLEAN
    OBVIOUS
  <2>2. calls' = [calls EXCEPT ![k] = call] /\ UNCHANGED caseVars /\ cases[c].status \in {"draft", "authorized"}
    BY <1>2 DEF AuthorizeRead, Enter
  <2>3. granted => (grants[c] # None)'
    BY <2>2 DEF caseVars
  <2> HIDE DEF granted
  <2>4. call \in Call
    BY <2>1, <2>2 DEF Call
  <2>5. calls'[k] = call
    BY <1>t, <2>2 DEF TypeOK
  <2>6. Knows(calls[k])'
    BY <2>1, <2>3, <2>5 DEF Knows
  <2> QED
    BY <1>r, <1>t, <2>2, <2>4, <2>6 DEF TypeOK
<1>3. ASSUME NEW h \in Humans, NEW c \in Cases, NEW t \in Targets, StartRead(k, h, c, t)
      PROVE  Inv' /\ Kept
  <2>1. cases[c] \in CaseRow /\ grants[c] # None
    BY <1>3, <1>t DEF StartRead, SeesUnder, TypeOK, CasesAreBacked
  <2> DEFINE row    == rows[c]
             client == cases[c].client
             call   == [op |-> "start", human |-> h, case |-> c, target |-> t, client |-> client, row |-> row, answer |-> None]
  <2>2. /\ calls' = [calls EXCEPT ![k] = call] /\ UNCHANGED caseVars
        /\ ClientOf[t] = client /\ row \notin {"running", "completed"}
    BY <1>3 DEF StartRead, Enter
  <2>3. row \in RowStatuses \cup {None} /\ client \in Clients
    BY <1>t, <2>1 DEF TypeOK, CaseRow
  <2> HIDE DEF row, client
  <2>4. call \in Call
    BY <2>3 DEF Call
  <2>5. calls'[k] = call
    BY <1>t, <2>2 DEF TypeOK
  <2>6. (cases[c] # None /\ grants[c] # None)'
    BY <2>1, <2>2 DEF caseVars
  <2>7. None # "started"
    OBVIOUS
  <2>8. Knows(calls[k])'
    BY <2>2, <2>5, <2>6, <2>7 DEF Knows
  <2> QED
    BY <1>r, <1>t, <2>2, <2>4, <2>8 DEF TypeOK
<1>4. ASSUME NEW c \in Cases, ReconcileRead(k, c)
      PROVE  Inv' /\ Kept
  <2> DEFINE d == Decisions(rows[c], cases[c].status)
  <2>1. /\ d \in Decision \X Decision /\ d[1] # "RECONCILED"
        /\ d[2] = "RECONCILED" => runs[c] # None
    BY <1>4, <1>t DEF ReconcileRead, Decisions, Decision, RowTerminal, RowStatuses, TypeOK, RunningWasStarted
  <2> QED
    BY <1>4, <1>t, <1>r, <2>1 DEF ReconcileRead, Enter, TypeOK, Knows, Call, caseVars
<1>5. ASSUME calls[k] # None, CreateWrite(k)
      PROVE  Inv' /\ Kept
  <2>1. /\ calls[k].request \in Requests /\ calls[k].human \in Humans
        /\ calls' = [calls EXCEPT ![k] = None]
    BY <1>5, <1>k DEF CreateWrite, Call, Leave
  <2>2. TypeOK'
    BY <1>5, <1>t, <2>1 DEF CreateWrite, TypeOK, CaseRow, Statuses
  <2>3. Kept /\ CasesAreBacked' /\ RunningWasStarted' /\ RunsAreGranted'
    BY <1>5, <1>t, <2>1 DEF CreateWrite, TypeOK, Kept, CasesAreBacked, RunningWasStarted, RunsAreGranted, CaseRow, Statuses
  <2> QED
    BY <1>o, <1>t, <2>1, <2>2, <2>3 DEF TypeOK
<1>6. ASSUME calls[k] # None, AuthorizeWrite(k)
      PROVE  Inv' /\ Kept
  <2> DEFINE call == calls[k]
             c    == call.case
  <2>1. /\ call.op = "authorize" /\ call.human \in Humans /\ call.status \in {"draft", "authorized"}
        /\ call.granted \in BOOLEAN /\ c \in Cases
        /\ call.granted => grants[c] # None
    BY <1>6, <1>k DEF AuthorizeWrite, Call, Knows
  <2>2. cases[c] \in CaseRow /\ calls' = [calls EXCEPT ![k] = None]
    BY <1>6, <1>t, <2>1 DEF AuthorizeWrite, SeesUnder, TypeOK, Leave
  <2>3. TypeOK'
    BY <1>6, <1>t, <2>1, <2>2 DEF AuthorizeWrite, TypeOK, CaseRow, GrantRow, Statuses
  <2>4. grants'[c] # None /\ \A d \in Cases : d # c => grants'[d] = grants[d]
    <3> DEFINE grant == [principal |-> call.human, revoked |-> FALSE]
    <3>1. grant \in GrantRow
      BY <2>1 DEF GrantRow
    <3>2. grant # None
      BY <3>1
    <3>3. grants' = IF call.granted THEN grants ELSE [grants EXCEPT ![c] = grant]
      BY <1>6 DEF AuthorizeWrite
    <3> HIDE DEF grant
    <3> QED
      BY <1>t, <2>1, <3>2, <3>3 DEF TypeOK
  <2>5. /\ cases'[c] # None /\ \A d \in Cases : d # c => cases'[d] = cases[d]
        /\ UNCHANGED <<rows, runs, audit>>
    <3>1. cases'[c] \in CaseRow
      BY <1>6, <1>t, <2>1, <2>2 DEF AuthorizeWrite, TypeOK, CaseRow, Statuses
    <3> QED
      BY <1>6, <1>t, <2>1, <3>1 DEF AuthorizeWrite, TypeOK
  <2>6. Kept /\ CasesAreBacked' /\ RunningWasStarted' /\ RunsAreGranted'
    BY <1>t, <2>1, <2>4, <2>5 DEF Kept, CasesAreBacked, RunningWasStarted, RunsAreGranted
  <2> QED
    BY <1>o, <1>t, <2>2, <2>3, <2>6 DEF TypeOK
<1>7. ASSUME calls[k] # None, StartWrite(k)
      PROVE  Inv' /\ Kept
  <2> DEFINE call == calls[k]
             c    == call.case
  <2>1. /\ call.answer \in {"started", "error"} /\ c \in Cases /\ call.row \notin {"running", "completed"}
        /\ call.answer = "started" => runs[c] # None
        /\ calls' = [calls EXCEPT ![k] = None]
    BY <1>7, <1>k DEF StartWrite, Call, Knows, Leave
  <2>2. TypeOK' /\ Kept /\ CasesAreBacked' /\ RunsAreGranted'
    BY <1>7, <1>t, <2>1 DEF StartWrite, TypeOK, Kept, CasesAreBacked, RunsAreGranted, RowStatuses
  <2>3. RunningWasStarted'
    BY <1>7, <1>t, <2>1 DEF StartWrite, TypeOK, RunningWasStarted
  <2> QED
    BY <1>o, <1>t, <2>1, <2>2, <2>3 DEF TypeOK
<1>8. ASSUME calls[k] # None, ReconcileWrite(k)
      PROVE  Inv' /\ Kept
  <2>1. /\ calls[k].after \in {"failed", "cancelled"} /\ calls[k].case \in Cases
        /\ calls' = [calls EXCEPT ![k] = None]
    BY <1>8, <1>k DEF ReconcileWrite, Call, Leave
  <2>2. TypeOK' /\ Kept /\ CasesAreBacked' /\ RunsAreGranted' /\ RunningWasStarted'
    BY <1>8, <1>t, <2>1 DEF ReconcileWrite, TypeOK, Kept, CasesAreBacked, RunsAreGranted, RunningWasStarted, RowStatuses
  <2> QED
    BY <1>o, <1>t, <2>1, <2>2 DEF TypeOK
<1>9. ASSUME calls[k] # None, NEW delivered \in BOOLEAN, NEW answer \in {"started", "error"},
             CallStarter(k, delivered, answer)
      PROVE  Inv' /\ Kept
  <2> DEFINE call == calls[k]
             c    == call.case
  <2>1. /\ call.op = "start" /\ c \in Cases /\ call.target \in Targets /\ call.client \in Clients
        /\ cases[c] # None /\ grants[c] # None /\ ClientOf[call.target] = call.client
        /\ call.row \notin {"running", "completed"}
        /\ calls' = [calls EXCEPT ![k].answer = answer]
    BY <1>9, <1>k DEF CallStarter, Call, Knows
  <2>2. TypeOK'
    BY <1>9, <1>t, <1>k, <2>1 DEF CallStarter, TypeOK, Run, Call
  <2>3. Kept /\ CasesAreBacked' /\ RunsAreGranted' /\ RunningWasStarted'
    BY <1>9, <1>t, <2>1 DEF CallStarter, TypeOK, Kept, CasesAreBacked, RunsAreGranted, RunningWasStarted, Run
  <2>4. answer = "started" => runs'[c] # None
    BY <1>9, <1>t, <2>1 DEF CallStarter, TypeOK, Run
  <2>5. Knows(calls[k])'
    BY <1>9, <1>k, <1>t, <2>1, <2>3, <2>4 DEF Knows, Kept, Call, TypeOK
  <2> QED
    BY <1>o, <1>t, <2>1, <2>2, <2>3, <2>5 DEF TypeOK
<1>10. ASSUME calls[k] # None, NEW answered \in BOOLEAN, Probe(k, answered)
       PROVE  Inv' /\ Kept
  <2> DEFINE call == calls[k]
             i    == IF answered /\ Running(call.case) THEN 1 ELSE 2
             next == [op |-> "decided", case |-> call.case, answered |-> answered, after |-> call.after,
                      decision |-> call.decisions[i]]
  <2>1. /\ call.decisions \in Decision \X Decision /\ call.case \in Cases /\ call.after \in {"failed", "cancelled"}
        /\ call.decisions[1] # "RECONCILED"
        /\ call.decisions[2] = "RECONCILED" => runs[call.case] # None
    BY <1>10, <1>k DEF Probe, Call, Knows
  <2>2. calls' = [calls EXCEPT ![k] = next] /\ UNCHANGED caseVars
    BY <1>10 DEF Probe
  <2>3. next \in Call
    BY <2>1 DEF Call
  <2>4. calls'[k] = next
    BY <1>t, <2>2 DEF TypeOK
  <2>5. next.answered /\ next.decision = "RECONCILED" => runs[call.case] # None /\ runs[call.case].state # "running"
    BY <2>1 DEF Running
  <2>6. next.op = "decided" /\ next.case = call.case /\ runs' = runs
    BY <2>2 DEF caseVars
  <2> HIDE DEF next
  <2>7. Knows(calls[k])'
    BY <2>4, <2>5, <2>6 DEF Knows
  <2> QED
    BY <1>r, <1>t, <2>2, <2>3, <2>7 DEF TypeOK
<1>11. ASSUME calls[k] # None, CallDies(k)
       PROVE  Inv' /\ Kept
  BY <1>11, <1>t, <1>r DEF CallDies, Leave, TypeOK
<1> QED
  BY <1>1, <1>2, <1>3, <1>4, <1>5, <1>6, <1>7, <1>8, <1>9, <1>10, <1>11 DEF Command

\* What a run, its executor, a revocation or a membership does to it.
LEMMA EngineStep ==
    ASSUME Inv, NEW c \in Cases, RevokeGrant(c) \/ Engine(c)
    PROVE  Inv' /\ Kept
<1> USE CasesAssumption, NoneAssumption
<1>t. TypeOK /\ CasesAreBacked /\ RunningWasStarted /\ RunsAreGranted
  BY DEF Inv
<1>o. ASSUME TypeOK', Kept, UNCHANGED calls, CasesAreBacked', RunningWasStarted', RunsAreGranted'
      PROVE  Inv' /\ Kept
  BY <1>o, KnowsIsKept DEF Inv, CallsKnow
<1>1. CASE RevokeGrant(c)
  <2>1. TypeOK' /\ grants'[c] \in GrantRow /\ \A d \in Cases : d # c => grants'[d] = grants[d]
    BY <1>1, <1>t DEF RevokeGrant, TypeOK, GrantRow
  <2>2. grants'[c] # None /\ UNCHANGED <<cases, rows, runs, audit, calls>>
    BY <1>1, <2>1 DEF RevokeGrant
  <2>3. Kept /\ CasesAreBacked' /\ RunningWasStarted' /\ RunsAreGranted'
    BY <1>t, <2>1, <2>2 DEF Kept, CasesAreBacked, RunningWasStarted, RunsAreGranted
  <2> QED
    BY <1>o, <2>1, <2>2, <2>3
<1>2. ASSUME NEW status \in Statuses, WorkflowMoves(c, status)
      PROVE  Inv' /\ Kept
  <2>1. cases[c] \in CaseRow /\ grants[c] # None
    BY <1>2, <1>t DEF WorkflowMoves, TypeOK, CasesAreBacked, RunsAreGranted
  <2>2. TypeOK' /\ Kept /\ CasesAreBacked' /\ RunningWasStarted' /\ RunsAreGranted'
    BY <1>2, <1>t, <2>1 DEF WorkflowMoves, TypeOK, CaseRow, Kept, CasesAreBacked, RunningWasStarted, RunsAreGranted
  <2> QED
    BY <1>2, <1>o, <2>2 DEF WorkflowMoves
<1>3. ASSUME NEW state \in {"completed", "failed"}, WorkflowEnds(c, state)
      PROVE  Inv' /\ Kept
  <2>1. runs[c] \in Run
    BY <1>3, <1>t DEF WorkflowEnds, TypeOK
  <2>2. TypeOK' /\ Kept /\ CasesAreBacked' /\ RunningWasStarted' /\ RunsAreGranted'
    BY <1>3, <1>t, <2>1 DEF WorkflowEnds, TypeOK, Run, Kept, CasesAreBacked, RunningWasStarted, RunsAreGranted
  <2> QED
    BY <1>3, <1>o, <2>2 DEF WorkflowEnds
<1>4. CASE RecordEnd(c)
  <2>1. runs[c] \in Run
    BY <1>4, <1>t DEF RecordEnd, RunningWasStarted, TypeOK
  <2>2. TypeOK' /\ Kept /\ CasesAreBacked' /\ RunningWasStarted' /\ RunsAreGranted'
    BY <1>4, <1>t, <2>1 DEF RecordEnd, TypeOK, Run, RowStatuses, Kept, CasesAreBacked, RunningWasStarted, RunsAreGranted
  <2> QED
    BY <1>4, <1>o, <2>2 DEF RecordEnd
<1> QED
  BY <1>1, <1>2, <1>3, <1>4 DEF Engine

\* Changed memberships, and steps of others, leave the firm as it is.
LEMMA StutterStep ==
    ASSUME Inv, UNCHANGED <<caseVars, calls>>
    PROVE  Inv'
BY DEF caseVars, Inv, TypeOK, CasesAreBacked, CallsKnow, Knows, RunningWasStarted, RunsAreGranted

LEMMA InitInv ==
    Init => Inv
BY NoneAssumption
DEF Init, CaseInit, Inv, TypeOK, CasesAreBacked, CallsKnow, RunningWasStarted, RunsAreGranted, RowStatuses

LEMMA InvAlways ==
    Spec => []Inv
<1>1. Inv /\ [Next]_vars => Inv'
  BY CommandStep, EngineStep, StutterStep DEF Next, vars
<1> QED
  BY InitInv, <1>1, PTL DEF Spec

-----------------------------------------------------------------------------
\* start_inspection: a row says running only for a run that the engine has and
\* whose start is audited.
THEOREM RunningWasStartedAlways ==
    Spec => []RunningWasStarted
<1>1. Inv => RunningWasStarted
  BY DEF Inv
<1> QED
  BY InvAlways, <1>1, PTL

\* authorize_case, start_inspection: the engine runs nothing for a case without
\* a grant, and nothing on another client's target.
THEOREM RunsAreGrantedAlways ==
    Spec => []RunsAreGranted
<1>1. Inv => RunsAreGranted
  BY DEF Inv
<1> QED
  BY InvAlways, <1>1, PTL

\* reconcile: where the probe answered, no row is closed whose run still runs
\* when the decision is written.
THEOREM ReconciledRunIsOverAlways ==
    Spec => ReconciledRunIsOver
<1>1. ASSUME Inv, NEW k \in Calls, calls[k] # None, ReconcileWrite(k), rows' # rows, calls[k].answered
      PROVE  runs[calls[k].case].state # "running"
  <2>1. Knows(calls[k]) /\ calls[k].op = "decided" /\ calls[k].decision = "RECONCILED"
    BY <1>1 DEF Inv, CallsKnow, ReconcileWrite
  <2> QED
    BY <1>1, <2>1 DEF Knows
<1>2. Inv /\ [Next]_vars =>
         [\A k \in Calls :
            calls[k] # None /\ ReconcileWrite(k) /\ rows' # rows /\ calls[k].answered
                => runs[calls[k].case].state # "running"]_vars
  BY <1>1
<1> QED
  BY InvAlways, <1>2, PTL DEF Spec, ReconciledRunIsOver
=============================================================================
