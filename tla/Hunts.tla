------------------------------- MODULE Hunts -------------------------------
(***************************************************************************)
(* Threat hunts of the live control plane: an operator's request stores a  *)
(* plan, claims it under a lease, runs it over the events of the scope and *)
(* saves the execution with its result; the recovery at process start runs *)
(* every plan that was left pending or whose lease has run out.            *)
(*                                                                         *)
(* claim_hunt locks the plan's row and is one step.  save_hunt reads the   *)
(* row without a lock and writes it at the end of its transaction, so it   *)
(* is a read and a commit (PostgreSQL at READ COMMITTED).  A call may die  *)
(* between any two steps.                                                  *)
(*                                                                         *)
(* A call's worker id is fresh (new_id): when a call is over its name in   *)
(* the worker column becomes Gone, equal to no later caller.  Signals are  *)
(* counted with the events: a signal is matched when its events are in the *)
(* window.  lease[p] is lease_until - now in ticks.                        *)
(***************************************************************************)
EXTENDS Integers, FiniteSets

CONSTANTS Plans,      \* plan ids operators submit
          Events,     \* events of the scope that can be ingested
          Workers,    \* calls of request_hunt or recover_pending_hunts at once
          InWindow,   \* InWindow[p]: events between window_start and window_end
          Selected,   \* Selected[p]: those of them that the query selects
          MaxEvents,  \* MaxEvents[p]: max_events of the plan
          LeaseTicks, \* lease_seconds
          None, Gone  \* SQL NULL; the id of a call that is over

ASSUME HuntAssumption ==
    /\ InWindow \in [Plans -> SUBSET Events]
    /\ Selected \in [Plans -> SUBSET Events]
    /\ \A p \in Plans : Selected[p] \subseteq InWindow[p]
    /\ MaxEvents \in [Plans -> Nat]
    /\ LeaseTicks \in Nat \ {0}
    /\ None \notin Plans /\ None \notin Workers /\ Gone \notin Workers /\ None # Gone

VARIABLES
    ingested,   \* rows of security_events in the scope
    status,     \* status of each plan, "ABSENT" before it is saved
    worker,     \* worker_id column
    lease,      \* lease_until column, relative to now
    executions, \* rows of hunt_executions
    pc,         \* where each call is
    cur,        \* the plan it works on
    todo,       \* plans its recovery loop has not reached
    recovering, \* the call is recover_pending_hunts
    found,      \* the execution hunt_engine.run returned
    saving      \* columns and row its open transaction will write

planVars == <<status, worker, lease>>
callVars == <<pc, cur, todo, recovering, found, saving>>
vars     == <<ingested, planVars, executions, callVars>>

Statuses  == {"ABSENT", "PENDING", "CLAIMED", "COMPLETED"}
NoLease   == -1
Locations == {"idle", "loop", "claim", "run", "save", "commit"}

\* A hunt_executions row.  Its id is made of the plan and the matched events;
\* a result that refutes also lists all that was in the window.
Execution == [plan : Plans, matched : SUBSET Events, refuting : SUBSET Events]
SameId(x, y) == x.plan = y.plan /\ x.matched = y.matched

\* What a save_hunt transaction is going to write.
Write == [insert : BOOLEAN, plan : BOOLEAN]
NoWrite == [insert |-> FALSE, plan |-> FALSE]

Init ==
    /\ ingested = {}
    /\ status = [p \in Plans |-> "ABSENT"]
    /\ worker = [p \in Plans |-> None]
    /\ lease = [p \in Plans |-> NoLease]
    /\ executions = {}
    /\ pc = [w \in Workers |-> "idle"]
    /\ cur = [w \in Workers |-> None]
    /\ todo = [w \in Workers |-> {}]
    /\ recovering = [w \in Workers |-> FALSE]
    /\ found = [w \in Workers |-> None]
    /\ saving = [w \in Workers |-> NoWrite]

-----------------------------------------------------------------------------
(* Calls *)

\* The local state of a call that is over: it returned, raised or died.
Leave(w) ==
    /\ pc' = [pc EXCEPT ![w] = "idle"]
    /\ cur' = [cur EXCEPT ![w] = None]
    /\ todo' = [todo EXCEPT ![w] = {}]
    /\ recovering' = [recovering EXCEPT ![w] = FALSE]
    /\ found' = [found EXCEPT ![w] = None]
    /\ saving' = [saving EXCEPT ![w] = NoWrite]

\* The worker column once w's id is no longer in use.
Retired(w) == [p \in Plans |-> IF worker[p] = w THEN Gone ELSE worker[p]]

\* An exception leaves the call, and with it the recovery loop.
Raise(w) ==
    /\ Leave(w)
    /\ worker' = Retired(w)
    /\ UNCHANGED <<ingested, status, lease, executions>>

\* request_hunt: its checks have passed; save_hunt_request stores the plan, or
\* finds it stored with the same content.
RequestHunt(w, p) ==
    /\ pc[w] = "idle"
    /\ status' = [status EXCEPT ![p] = IF @ = "ABSENT" THEN "PENDING" ELSE @]
    /\ pc' = [pc EXCEPT ![w] = "claim"]
    /\ cur' = [cur EXCEPT ![w] = p]
    /\ UNCHANGED <<ingested, worker, lease, executions, todo, recovering, found, saving>>

\* Mutant of Pending: an expired lease is not looked for.
PendingWithoutExpiry(p) == status[p] = "PENDING" \/ (status[p] = "CLAIMED" /\ lease[p] = NoLease)

\* pending_hunt_plans: pending, or claimed with no lease or an expired one.
Pending(p) == status[p] = "PENDING" \/ (status[p] = "CLAIMED" /\ lease[p] <= 0)

\* recover_pending_hunts, called once when a process starts.
StartRecovery(w) ==
    /\ pc[w] = "idle"
    /\ pc' = [pc EXCEPT ![w] = "loop"]
    /\ todo' = [todo EXCEPT ![w] = {p \in Plans : Pending(p)}]
    /\ recovering' = [recovering EXCEPT ![w] = TRUE]
    /\ UNCHANGED <<ingested, planVars, executions, cur, found, saving>>

RecoverNext(w) ==
    /\ pc[w] = "loop"
    /\ \E p \in todo[w] :
         /\ pc' = [pc EXCEPT ![w] = "claim"]
         /\ cur' = [cur EXCEPT ![w] = p]
         /\ todo' = [todo EXCEPT ![w] = @ \ {p}]
    /\ UNCHANGED <<ingested, planVars, executions, recovering, found, saving>>

RecoveryDone(w) ==
    /\ pc[w] = "loop" /\ todo[w] = {}
    /\ Raise(w)

\* Mutant of HeldByOther: the lease is not looked at when it is about to end.
HeldByOtherEarly(w, p) == status[p] = "CLAIMED" /\ worker[p] # w /\ lease[p] > 1

\* claim_hunt's test that another worker holds the plan.
HeldByOther(w, p) == status[p] = "CLAIMED" /\ worker[p] # w /\ lease[p] > 0

\* claim_hunt: a completed plan may be run again, without a claim.
ClaimCompleted(w) ==
    /\ pc[w] = "claim" /\ status[cur[w]] = "COMPLETED"
    /\ pc' = [pc EXCEPT ![w] = "run"]
    /\ UNCHANGED <<ingested, planVars, executions, cur, todo, recovering, found, saving>>

\* Mutant of ClaimHunt: the lease is set when the run starts, not here.
ClaimHuntWithoutLease(w) ==
    LET p == cur[w]
    IN  /\ pc[w] = "claim" /\ status[p] \in {"PENDING", "CLAIMED"} /\ ~HeldByOther(w, p)
        /\ status' = [status EXCEPT ![p] = "CLAIMED"]
        /\ worker' = [worker EXCEPT ![p] = w]
        /\ pc' = [pc EXCEPT ![w] = "run"]
        /\ UNCHANGED <<ingested, lease, executions, cur, todo, recovering, found, saving>>

\* claim_hunt: a plan that is pending, or whose lease has run out.
ClaimHunt(w) ==
    LET p == cur[w]
    IN  /\ pc[w] = "claim" /\ status[p] \in {"PENDING", "CLAIMED"} /\ ~HeldByOther(w, p)
        /\ status' = [status EXCEPT ![p] = "CLAIMED"]
        /\ worker' = [worker EXCEPT ![p] = w]
        /\ lease' = [lease EXCEPT ![p] = LeaseTicks]
        /\ pc' = [pc EXCEPT ![w] = "run"]
        /\ UNCHANGED <<ingested, executions, cur, todo, recovering, found, saving>>

\* A held plan: the recovery goes on with the next, a request raises.
ClaimRefused(w) ==
    /\ pc[w] = "claim" /\ HeldByOther(w, cur[w])
    /\ IF recovering[w]
       THEN /\ pc' = [pc EXCEPT ![w] = "loop"]
            /\ cur' = [cur EXCEPT ![w] = None]
            /\ UNCHANGED <<ingested, planVars, executions, todo, recovering, found, saving>>
       ELSE Raise(w)

-----------------------------------------------------------------------------
(* Execution *)

\* The execution and result of ThreatHuntEngine.run over what is ingested.
HuntResult(p) ==
    LET available == ingested \cap InWindow[p]
        matched   == ingested \cap Selected[p]
    IN  [plan |-> p, matched |-> matched,
         refuting |-> IF matched = {} THEN available ELSE {}]

\* _execute_claimed_hunt up to save_hunt: load the request and the events of
\* the scope, run the query.
RunHunt(w) ==
    /\ pc[w] = "run"
    /\ Cardinality(ingested \cap InWindow[cur[w]]) <= MaxEvents[cur[w]]
    /\ found' = [found EXCEPT ![w] = HuntResult(cur[w])]
    /\ pc' = [pc EXCEPT ![w] = "save"]
    /\ UNCHANGED <<ingested, planVars, executions, cur, todo, recovering, saving>>

\* "hunt exceeded its bounded event limit".
RunTooLarge(w) ==
    /\ pc[w] = "run"
    /\ Cardinality(ingested \cap InWindow[cur[w]]) > MaxEvents[cur[w]]
    /\ Raise(w)

\* save_hunt's checks of the plan's row and of the execution's id.
MaySave(w) ==
    LET p == cur[w]
    IN  /\ status[p] = "CLAIMED" => worker[p] = w /\ lease[p] > 0
        /\ status[p] \in {"CLAIMED", "COMPLETED"}
        /\ \A x \in executions : SameId(x, found[w]) => x = found[w]

\* Mutant of SaveRead: any stored execution is taken for this one.
SaveReadAnyExecution(w) ==
    /\ pc[w] = "save" /\ MaySave(w)
    /\ pc' = [pc EXCEPT ![w] = "commit"]
    /\ saving' = [saving EXCEPT ![w] =
         [insert |-> executions = {},
          plan   |-> status[cur[w]] # "COMPLETED"]]
    /\ UNCHANGED <<ingested, planVars, executions, cur, todo, recovering, found>>

\* save_hunt reads the plan's row and whether the execution has one; a plan
\* read as COMPLETED keeps its columns.
SaveRead(w) ==
    /\ pc[w] = "save" /\ MaySave(w)
    /\ pc' = [pc EXCEPT ![w] = "commit"]
    /\ saving' = [saving EXCEPT ![w] =
         [insert |-> found[w] \notin executions,
          plan   |-> status[cur[w]] # "COMPLETED"]]
    /\ UNCHANGED <<ingested, planVars, executions, cur, todo, recovering, found>>

SaveRefused(w) ==
    /\ pc[w] = "save" /\ ~MaySave(w)
    /\ Raise(w)

\* The primary key of hunt_executions.
KeyIsFree(w) == saving[w].insert => \A x \in executions : ~SameId(x, found[w])

\* Mutant of SaveCommit: the plan's columns are written only while the call
\* still holds it; the execution is stored in any case.
SaveCommitIfHeld(w) ==
    LET p == cur[w]
        write == saving[w].plan /\ worker[cur[w]] = w
    IN  /\ pc[w] = "commit" /\ KeyIsFree(w)
        /\ executions' = IF saving[w].insert THEN executions \cup {found[w]} ELSE executions
        /\ status' = IF write THEN [status EXCEPT ![p] = "COMPLETED"] ELSE status
        /\ lease' = IF write THEN [lease EXCEPT ![p] = NoLease] ELSE lease
        /\ UNCHANGED ingested
        /\ IF recovering[w]
           THEN /\ worker' = IF write THEN [worker EXCEPT ![p] = None] ELSE worker
                /\ pc' = [pc EXCEPT ![w] = "loop"]
                /\ cur' = [cur EXCEPT ![w] = None]
                /\ found' = [found EXCEPT ![w] = None]
                /\ saving' = [saving EXCEPT ![w] = NoWrite]
                /\ UNCHANGED <<todo, recovering>>
           ELSE /\ Leave(w)
                /\ worker' = IF write THEN [Retired(w) EXCEPT ![p] = None] ELSE Retired(w)

\* The transaction of save_hunt commits; the call returns or its recovery
\* goes on with the next plan.
SaveCommit(w) ==
    LET p == cur[w]
        write == saving[w].plan
    IN  /\ pc[w] = "commit" /\ KeyIsFree(w)
        /\ executions' = IF saving[w].insert THEN executions \cup {found[w]} ELSE executions
        /\ status' = IF write THEN [status EXCEPT ![p] = "COMPLETED"] ELSE status
        /\ lease' = IF write THEN [lease EXCEPT ![p] = NoLease] ELSE lease
        /\ UNCHANGED ingested
        /\ IF recovering[w]
           THEN /\ worker' = IF write THEN [worker EXCEPT ![p] = None] ELSE worker
                /\ pc' = [pc EXCEPT ![w] = "loop"]
                /\ cur' = [cur EXCEPT ![w] = None]
                /\ found' = [found EXCEPT ![w] = None]
                /\ saving' = [saving EXCEPT ![w] = NoWrite]
                /\ UNCHANGED <<todo, recovering>>
           ELSE /\ Leave(w)
                /\ worker' = IF write THEN [Retired(w) EXCEPT ![p] = None] ELSE Retired(w)

\* The insert fails on the key another call has inserted: rolled back.
SaveConflict(w) ==
    /\ pc[w] = "commit" /\ ~KeyIsFree(w)
    /\ Raise(w)

-----------------------------------------------------------------------------
\* The process dies, or the database refuses a statement.
Die(w) == pc[w] # "idle" /\ Raise(w)

Ingest(e) ==
    /\ e \notin ingested
    /\ ingested' = ingested \cup {e}
    /\ UNCHANGED <<planVars, executions, callVars>>

Tick ==
    /\ \E p \in Plans : lease[p] > 0
    /\ lease' = [p \in Plans |-> IF lease[p] > 0 THEN lease[p] - 1 ELSE lease[p]]
    /\ UNCHANGED <<ingested, status, worker, executions, callVars>>

CallStep(w) ==
    \/ RecoverNext(w) \/ RecoveryDone(w)
    \/ ClaimCompleted(w) \/ ClaimHunt(w) \/ ClaimRefused(w)
    \/ RunHunt(w) \/ RunTooLarge(w)
    \/ SaveRead(w) \/ SaveRefused(w) \/ SaveCommit(w) \/ SaveConflict(w)

Next ==
    \/ \E w \in Workers :
         \/ \E p \in Plans : RequestHunt(w, p)
         \/ StartRecovery(w) \/ CallStep(w) \/ Die(w)
    \/ \E e \in Events : Ingest(e)
    \/ Tick

Spec == Init /\ [][Next]_vars

\* Time passes; a call may die at any step, so nothing is assumed of calls.
FairSpec == Spec /\ WF_vars(Tick)

-----------------------------------------------------------------------------
(* Properties *)

\* The plan rows, the executions and the calls keep their types.
TypeOK ==
    /\ ingested \subseteq Events
    /\ status \in [Plans -> Statuses]
    /\ worker \in [Plans -> Workers \cup {None, Gone}]
    /\ lease \in [Plans -> NoLease..LeaseTicks]
    /\ executions \subseteq Execution
    /\ pc \in [Workers -> Locations]
    /\ cur \in [Workers -> Plans \cup {None}]
    /\ todo \in [Workers -> SUBSET Plans]
    /\ recovering \in [Workers -> BOOLEAN]
    /\ found \in [Workers -> Execution \cup {None}]
    /\ saving \in [Workers -> Write]

\* A completed hunt has a stored execution, over events that were really
\* ingested, although a call can complete a plan it has lost the lease of and
\* a repeated call stores nothing new (save_hunt).
CompletedHuntHasResult ==
    /\ \A p \in Plans : status[p] = "COMPLETED" => \E x \in executions : x.plan = p
    /\ \A x \in executions : x.matched = {} => x.refuting \cap Selected[x.plan] = {}
    /\ \A x \in executions : x.matched \cup x.refuting \subseteq ingested

\* An execution's id covers what matched and not what was in the window, so a
\* run that finds nothing before and after an event arrives makes two results
\* of one id, and save_hunt refuses the second.  That never blocks a hunt that
\* is not over: only a completed one has an execution, however late and under
\* whose lease the call that stored it committed.
UnfinishedHuntIsUnblocked == \A x \in executions : status[x.plan] = "COMPLETED"

\* The status, worker and lease columns agree however stale commits and new
\* claims interleave: a claimed hunt has a holder and a lease that can run
\* out, any other is held by nobody (claim_hunt, save_hunt).
NoHuntIsStranded ==
    \A p \in Plans : IF status[p] = "CLAIMED" THEN worker[p] # None /\ lease[p] # NoLease
                     ELSE worker[p] = None /\ lease[p] = NoLease

\* A live lease passes to nobody else (claim_hunt), and a completed hunt is
\* never claimed or reopened.
HuntIsNotTaken ==
    [][\A p \in Plans :
         /\ status[p] = "CLAIMED" /\ lease[p] > 0 => worker'[p] \in {worker[p], None, Gone}
         /\ status[p] = "COMPLETED" => status'[p] = "COMPLETED"]_vars

\* A hunt whose call died becomes recoverable: pending_hunt_plans will list
\* it once its lease has run out.
HuntsBecomePending ==
    \A p \in Plans : status[p] = "CLAIMED" ~> (status[p] = "COMPLETED" \/ Pending(p))
=============================================================================
