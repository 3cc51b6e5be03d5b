--------------------------- MODULE DetectionWork ---------------------------
(***************************************************************************)
(* The durable detection work queue of the live control plane: security    *)
(* sources ingest and replay events, workers claim the work items under a  *)
(* lease, run every active rule over the events of the scope, persist the  *)
(* outputs rule by rule and complete or fail the item.                     *)
(*                                                                         *)
(* Every database transaction that reads a row without locking it and      *)
(* writes it later (complete_work, fail_work, the replay branch of         *)
(* ingest_event) is two steps here, a read and a commit: the sessions run  *)
(* at PostgreSQL's READ COMMITTED and the UPDATE that is flushed names the *)
(* primary key and the columns the session changed, nothing else.          *)
(* claim_work selects FOR UPDATE SKIP LOCKED and is one step.              *)
(*                                                                         *)
(* Time: lease[e] is lease_until - now in ticks, NoLease for a NULL column;*)
(* Tick lets one unit pass.  Scope: one tenant/case/target.                *)
(***************************************************************************)
EXTENDS Integers, FiniteSets

CONSTANTS Events,       \* events a source may deliver
          Workers,      \* dispatching processes (one lease identity each)
          Sources,      \* ingest calls that can be in flight at once
          Rules,        \* SecScanMonitor-owned ACTIVE rules
          Applies,      \* Applies[r]: events whose source family r supports
          LeaseTicks,   \* lease_seconds
          ClaimLimit,   \* limit of one dispatch_pending call
          MaxAttempts,  \* bound of the model on claims of each item
          None          \* SQL NULL / no item

ASSUME WorkAssumption ==
    /\ Applies \in [Rules -> SUBSET Events]
    /\ LeaseTicks \in Nat \ {0}
    /\ ClaimLimit \in Nat \ {0}
    /\ MaxAttempts \in [Events -> Nat]
    /\ None \notin Events \cup Workers

VARIABLES
    status,    \* status[e] of e's work item; "ABSENT" before ingest
    worker,    \* worker_id column
    lease,     \* lease_until column, relative to now
    attempts,  \* attempts column
    runIds,    \* run_ids (and with them signal_ids) column
    runs,      \* rows of detection_runs with their evaluations and signals
    pc,        \* where each worker is in dispatch_one/dispatch_pending
    cur,       \* the item it is processing
    todo,      \* items of its batch it has not reached yet
    seen,      \* events it loaded for the current item
    left,      \* active rules it has still to evaluate
    made,      \* runs it persisted for the current item
    reopening  \* reopening[s]: FAILED item read by a replaying ingest

rowVars  == <<status, worker, lease, attempts, runIds>>
workVars == <<pc, cur, todo, seen, left, made>>
vars     == <<rowVars, runs, workVars, reopening>>

Statuses == {"ABSENT", "PENDING", "CLAIMED", "FAILED", "COMPLETED"}
NoLease  == -1
DetectionRun == [rule : Rules, input : SUBSET Events]
Locations == {"idle", "dispatch", "claim", "load", "run", "completing",
              "failed", "failing"}

-----------------------------------------------------------------------------
(* Conditions of the code *)

\* The filter of claim_work: never COMPLETED, CLAIMED only with an expired
\* lease.  A NULL lease_until compares as unknown and does not match.
Claimable(e) ==
    \/ status[e] \in {"PENDING", "FAILED"}
    \/ status[e] = "CLAIMED" /\ lease[e] # NoLease /\ lease[e] <= 0

\* The check complete_work and fail_work make before they write.
ActiveLease(w, e) ==
    /\ status[e] = "CLAIMED"
    /\ worker[e] = w
    /\ lease[e] # NoLease
    /\ lease[e] > 0

Init ==
    /\ status = [e \in Events |-> "ABSENT"]
    /\ worker = [e \in Events |-> None]
    /\ lease = [e \in Events |-> NoLease]
    /\ attempts = [e \in Events |-> 0]
    /\ runIds = [e \in Events |-> {}]
    /\ runs = {}
    /\ pc = [w \in Workers |-> "idle"]
    /\ cur = [w \in Workers |-> None]
    /\ todo = [w \in Workers |-> {}]
    /\ seen = [w \in Workers |-> {}]
    /\ left = [w \in Workers |-> {}]
    /\ made = [w \in Workers |-> {}]
    /\ reopening = [s \in Sources |-> None]

-----------------------------------------------------------------------------
(* Sources: ingest_event *)

\* First delivery: event row and PENDING work item in one transaction.  The
\* unique constraints make a concurrent second insert fall back to a replay.
IngestNew(e) ==
    /\ status[e] = "ABSENT"
    /\ status' = [status EXCEPT ![e] = "PENDING"]
    /\ UNCHANGED <<worker, lease, attempts, runIds, runs, workVars, reopening>>

\* Mutant of IngestReplay: any item that is not completed is queued again.
IngestReplayOfAny(s, e) ==
    /\ reopening[s] = None
    /\ status[e] \in {"FAILED", "CLAIMED"}
    /\ reopening' = [reopening EXCEPT ![s] = e]
    /\ UNCHANGED <<rowVars, runs, workVars>>

\* Replay of a stored event: only a FAILED item will be changed.  The row is
\* read without a lock.
IngestReplay(s, e) ==
    /\ reopening[s] = None
    /\ status[e] = "FAILED"
    /\ reopening' = [reopening EXCEPT ![s] = e]
    /\ UNCHANGED <<rowVars, runs, workVars>>

\* Its commit.  The FAILED row it read had NULL lease and worker, so setting
\* them to None changes nothing and the UPDATE writes the status (and
\* last_error) only.
IngestReopen(s) ==
    /\ reopening[s] # None
    /\ status' = [status EXCEPT ![reopening[s]] = "PENDING"]
    /\ reopening' = [reopening EXCEPT ![s] = None]
    /\ UNCHANGED <<worker, lease, attempts, runIds, runs, workVars>>

\* The replaying call dies or is rolled back before its commit.
IngestAbort(s) ==
    /\ reopening[s] # None
    /\ reopening' = [reopening EXCEPT ![s] = None]
    /\ UNCHANGED <<rowVars, runs, workVars>>

-----------------------------------------------------------------------------
(* Workers: claiming *)

\* Mutant of ClaimRows: the claim does not write lease_until.
ClaimRowsWithoutLease(w, S) ==
    /\ status' = [e \in Events |-> IF e \in S THEN "CLAIMED" ELSE status[e]]
    /\ worker' = [e \in Events |-> IF e \in S THEN w ELSE worker[e]]
    /\ attempts' = [e \in Events |-> IF e \in S THEN attempts[e] + 1 ELSE attempts[e]]
    /\ UNCHANGED lease

\* The row updates of claim_work for the set S of selected rows.
ClaimRows(w, S) ==
    /\ status' = [e \in Events |-> IF e \in S THEN "CLAIMED" ELSE status[e]]
    /\ worker' = [e \in Events |-> IF e \in S THEN w ELSE worker[e]]
    /\ lease' = [e \in Events |-> IF e \in S THEN LeaseTicks ELSE lease[e]]
    /\ attempts' = [e \in Events |-> IF e \in S THEN attempts[e] + 1 ELSE attempts[e]]

\* Worker w starts on item e; rest is what remains of its batch.
StartItem(w, e, rest) ==
    /\ pc' = [pc EXCEPT ![w] = "load"]
    /\ cur' = [cur EXCEPT ![w] = e]
    /\ todo' = [todo EXCEPT ![w] = rest]
    /\ seen' = [seen EXCEPT ![w] = {}]
    /\ left' = [left EXCEPT ![w] = {}]
    /\ made' = [made EXCEPT ![w] = {}]

\* The dispatch call returns or raises; its local state is gone, and with it
\* whatever it had not reached of its batch.
Leave(w) ==
    /\ pc' = [pc EXCEPT ![w] = "idle"]
    /\ cur' = [cur EXCEPT ![w] = None]
    /\ todo' = [todo EXCEPT ![w] = {}]
    /\ seen' = [seen EXCEPT ![w] = {}]
    /\ left' = [left EXCEPT ![w] = {}]
    /\ made' = [made EXCEPT ![w] = {}]

\* Worker w moves to location l and keeps its local state.
Goto(w, l) ==
    /\ pc' = [pc EXCEPT ![w] = l]
    /\ UNCHANGED <<cur, todo, seen, left, made>>

\* dispatch_pending: claim a batch (rows locked by others are skipped, so any
\* claimable rows up to the limit) and start on one of them.
DispatchPending(w) ==
    /\ pc[w] = "idle"
    /\ \E S \in SUBSET {e \in Events : Claimable(e) /\ attempts[e] < MaxAttempts[e]} :
         /\ Cardinality(S) <= ClaimLimit
         /\ ClaimRows(w, S)
         /\ \E e \in S : StartItem(w, e, S \ {e})
    /\ UNCHANGED <<runIds, runs, reopening>>

\* dispatch_one: the first get_work; a COMPLETED item is answered from its row.
DispatchOne(w, e) ==
    /\ pc[w] = "idle"
    /\ status[e] \notin {"ABSENT", "COMPLETED"}
    /\ pc' = [pc EXCEPT ![w] = "dispatch"]
    /\ cur' = [cur EXCEPT ![w] = e]
    /\ UNCHANGED <<rowVars, runs, todo, seen, left, made, reopening>>

\* claim_one's own get_work.  An item completed since then is returned as if
\* it had been claimed; one leased to another worker raises.
ClaimOneRead(w) ==
    /\ pc[w] = "dispatch"
    /\ LET e == cur[w]
           leased == status[e] = "CLAIMED" /\ lease[e] > 0 /\ worker[e] # w
       IN  \/ status[e] = "COMPLETED" /\ Goto(w, "load")
           \/ leased /\ Leave(w)
           \/ status[e] # "COMPLETED" /\ ~leased /\ Goto(w, "claim")
    /\ UNCHANGED <<rowVars, runs, reopening>>

\* claim_one's claim_work for that row; nothing selected raises.
ClaimOne(w) ==
    /\ pc[w] = "claim"
    /\ \/ /\ Claimable(cur[w]) /\ attempts[cur[w]] < MaxAttempts[cur[w]]
          /\ ClaimRows(w, {cur[w]})
          /\ Goto(w, "load")
       \/ /\ ~Claimable(cur[w])
          /\ Leave(w)
          /\ UNCHANGED <<status, worker, lease, attempts>>
    /\ UNCHANGED <<runIds, runs, reopening>>

-----------------------------------------------------------------------------
(* Workers: _process_claimed *)

\* The item is answered: go on with the batch or return the receipts.
NextItem(w) ==
    \/ todo[w] = {} /\ Leave(w)
    \/ \E e \in todo[w] : StartItem(w, e, todo[w] \ {e})

\* Mutant of LoadEvents: only events whose item is not being worked on.
LoadUnclaimedEvents(w) ==
    /\ pc[w] = "load"
    /\ seen' = [seen EXCEPT ![w] = {e \in Events : status[e] \notin {"ABSENT", "CLAIMED"}}]
    /\ left' = [left EXCEPT ![w] = Rules]
    /\ pc' = [pc EXCEPT ![w] = "run"]
    /\ UNCHANGED <<rowVars, runs, cur, todo, made, reopening>>

\* load_events and active_rules.
LoadEvents(w) ==
    /\ pc[w] = "load"
    /\ seen' = [seen EXCEPT ![w] = {e \in Events : status[e] # "ABSENT"}]
    /\ left' = [left EXCEPT ![w] = Rules]
    /\ pc' = [pc EXCEPT ![w] = "run"]
    /\ UNCHANGED <<rowVars, runs, cur, todo, made, reopening>>

\* DetectionEngine.run for one rule: it reads the loaded events of the source
\* families the rule supports, and its run_id is derived from exactly those.
EngineRun(w, r) == [rule |-> r, input |-> seen[w] \cap Applies[r]]

\* One transaction per rule; identical outputs are accepted as a replay.
PersistOutputs(w, r) ==
    /\ pc[w] = "run"
    /\ r \in left[w]
    /\ runs' = runs \cup {EngineRun(w, r)}
    /\ made' = [made EXCEPT ![w] = made[w] \cup {EngineRun(w, r)}]
    /\ left' = [left EXCEPT ![w] = left[w] \ {r}]
    /\ UNCHANGED <<rowVars, pc, cur, todo, seen, reopening>>

\* Mutant of CompleteRead: it does not wait for the remaining rules.
CompleteReadEarly(w) ==
    /\ pc[w] = "run"
    /\ ActiveLease(w, cur[w])
    /\ Goto(w, "completing")
    /\ UNCHANGED <<rowVars, runs, reopening>>

\* complete_work reads the row and checks the lease ...
CompleteRead(w) ==
    /\ pc[w] = "run"
    /\ left[w] = {}
    /\ \/ status[cur[w]] = "COMPLETED" /\ NextItem(w)
       \/ ActiveLease(w, cur[w]) /\ Goto(w, "completing")
       \/ /\ status[cur[w]] # "COMPLETED" /\ ~ActiveLease(w, cur[w])
          /\ Goto(w, "failed")
    /\ UNCHANGED <<rowVars, runs, reopening>>

\* ... and commits the columns it changed, whatever the row is by now.
CompleteCommit(w) ==
    /\ pc[w] = "completing"
    /\ status' = [status EXCEPT ![cur[w]] = "COMPLETED"]
    /\ runIds' = [runIds EXCEPT ![cur[w]] = made[w]]
    /\ lease' = [lease EXCEPT ![cur[w]] = NoLease]
    /\ worker' = [worker EXCEPT ![cur[w]] = None]
    /\ NextItem(w)
    /\ UNCHANGED <<attempts, runs, reopening>>

\* Any exception while processing: bad input, database error, conflicting
\* concurrent insert of the same output.
ProcessError(w) ==
    /\ pc[w] \in {"load", "run", "completing"}
    /\ Goto(w, "failed")
    /\ UNCHANGED <<rowVars, runs, reopening>>

\* fail_work reads the row: COMPLETED is left alone, a lost lease raises.
FailRead(w) ==
    /\ pc[w] = "failed"
    /\ \/ ActiveLease(w, cur[w]) /\ Goto(w, "failing")
       \/ ~ActiveLease(w, cur[w]) /\ Leave(w)
    /\ UNCHANGED <<rowVars, runs, reopening>>

\* Mutant of FailCommit: the lease columns are not cleared.
FailCommitKeepingLease(w) ==
    /\ pc[w] = "failing"
    /\ status' = [status EXCEPT ![cur[w]] = "FAILED"]
    /\ Leave(w)
    /\ UNCHANGED <<worker, lease, attempts, runIds, runs, reopening>>

\* Its commit; the exception then leaves _process_claimed and drops the batch.
FailCommit(w) ==
    /\ pc[w] = "failing"
    /\ status' = [status EXCEPT ![cur[w]] = "FAILED"]
    /\ lease' = [lease EXCEPT ![cur[w]] = NoLease]
    /\ worker' = [worker EXCEPT ![cur[w]] = None]
    /\ Leave(w)
    /\ UNCHANGED <<attempts, runIds, runs, reopening>>

\* The worker process dies; open transactions roll back.
Crash(w) ==
    /\ pc[w] # "idle"
    /\ Leave(w)
    /\ UNCHANGED <<rowVars, runs, reopening>>

-----------------------------------------------------------------------------
Tick ==
    /\ \E e \in Events : lease[e] > 0
    /\ lease' = [e \in Events |-> IF lease[e] > 0 THEN lease[e] - 1 ELSE lease[e]]
    /\ UNCHANGED <<status, worker, attempts, runIds, runs, workVars, reopening>>

WorkerStep(w) ==
    \/ DispatchPending(w)
    \/ \E e \in Events : DispatchOne(w, e)
    \/ ClaimOneRead(w)
    \/ ClaimOne(w)
    \/ LoadEvents(w)
    \/ \E r \in Rules : PersistOutputs(w, r)
    \/ CompleteRead(w)
    \/ CompleteCommit(w)
    \/ ProcessError(w)
    \/ FailRead(w)
    \/ FailCommit(w)
    \/ Crash(w)

SourceStep(s) ==
    \/ \E e \in Events : IngestReplay(s, e)
    \/ IngestReopen(s)
    \/ IngestAbort(s)

Next ==
    \/ \E e \in Events : IngestNew(e)
    \/ \E s \in Sources : SourceStep(s)
    \/ \E w \in Workers : WorkerStep(w)
    \/ Tick

Spec == Init /\ [][Next]_vars

\* The only fairness assumed is that time passes: workers may crash, stall or
\* never be called, since no code of the repository calls them periodically.
FairSpec == Spec /\ WF_vars(Tick)

-----------------------------------------------------------------------------
(* Properties *)

\* Type invariant of the rows and of the workers' local state.
TypeOK ==
    /\ status \in [Events -> Statuses]
    /\ worker \in [Events -> Workers \cup {None}]
    /\ lease \in [Events -> {NoLease} \cup 0..LeaseTicks]
    /\ attempts \in [Events -> Nat]
    /\ runIds \in [Events -> SUBSET DetectionRun]
    /\ runs \in SUBSET DetectionRun
    /\ pc \in [Workers -> Locations]
    /\ cur \in [Workers -> Events \cup {None}]
    /\ todo \in [Workers -> SUBSET Events]
    /\ seen \in [Workers -> SUBSET Events]
    /\ left \in [Workers -> SUBSET Rules]
    /\ made \in [Workers -> SUBSET DetectionRun]
    /\ reopening \in [Sources -> Events \cup {None}]

\* The abstract handoff this queue implements.
Ledger == INSTANCE DetectionLedger WITH
    accepted <- {e \in Events : status[e] # "ABSENT"},
    closed   <- {e \in Events : status[e] = "COMPLETED"},
    stored   <- runs,
    recorded <- runIds

\* Whatever crashes, lost leases and stale commits happen, the queue behaves
\* as the abstract handoff: in particular complete_work closes an item only
\* over outputs already committed that evaluated its event.
ImplementsLedger == Ledger!LedgerSpec

\* A COMPLETED item names only runs that are in the database, and between
\* them they evaluated its event with every rule that applies to it
\* (_process_claimed persists per rule, in transactions of their own, before
\* complete_work).
CompletedWorkIsEvaluated ==
    \A e \in Events : status[e] = "COMPLETED" =>
        runIds[e] \subseteq runs /\ Ledger!Evaluates(runIds[e], e)

\* A CLAIMED item always carries a worker and a lease that can expire, and a
\* FAILED one carries neither: no interleaving of stale commits leaves a row
\* that the filter of claim_work will never select again.
NoWorkIsStranded ==
    \A e \in Events :
        /\ status[e] = "CLAIMED" => worker[e] # None /\ lease[e] # NoLease
        /\ status[e] = "FAILED" => worker[e] = None /\ lease[e] = NoLease

\* claim_work: "claimed work requires an expired lease".  A step moves an item
\* under a live lease from its worker to another only where a replay reopened
\* it: the replay read the row FAILED, and commits PENDING after the item was
\* claimed again.  So the row is PENDING and this is not its first claim; an
\* item that has never failed is not taken from the worker that holds it.
LiveLeaseIsTakenOnlyIfReopened ==
    [][\A e \in Events :
         /\ worker[e] # None
         /\ lease[e] > 0
         /\ worker'[e] \notin {worker[e], None}
         => status[e] = "PENDING" /\ attempts[e] >= 2]_vars

\* A worker that fails, crashes or drops its batch holds an item only until
\* its lease has run out: a CLAIMED item leaves that status or becomes
\* claimable again.
LeasesExpire ==
    \A e \in Events :
        status[e] = "CLAIMED" ~> (status[e] # "CLAIMED" \/ Claimable(e))

\* claim_work: "completed work is never claimable".  Stated of the item: once
\* COMPLETED it stays so.
CompletedWorkStaysCompleted ==
    [][\A e \in Events : status[e] = "COMPLETED" => status'[e] = "COMPLETED"]_vars
=============================================================================
