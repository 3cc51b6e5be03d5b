------------------------ MODULE DetectionWorkProofs ------------------------
(* Proofs about the detection work queue and its engine, for every set of  *)
(* events, workers, sources and rules and every lease length.              *)
EXTENDS DetectionEngine, FiniteSetTheorems, TLAPS

-----------------------------------------------------------------------------
(* The inductive invariant *)

\* What a worker past load_events has done for its item: the item's event is
\* among the events it loaded, and every rule it no longer has to evaluate
\* has its run among the persisted ones.
HasEvaluated(w) ==
    /\ cur[w] \in seen[w]
    /\ \A r \in Rules \ left[w] : EngineRun(w, r) \in made[w]

\* What holds of worker w alone: the items it holds exist, the runs it counts
\* as made are in the database, and when it is about to commit a completion
\* it has evaluated every rule.
SelfInv(w) ==
    /\ pc[w] # "idle" => cur[w] \in Events /\ status[cur[w]] # "ABSENT"
    /\ \A e \in todo[w] : status[e] # "ABSENT"
    /\ made[w] \subseteq runs
    /\ pc[w] \in {"run", "completing"} => HasEvaluated(w)
    /\ pc[w] = "completing" => left[w] = {}

LocalInv ==
    /\ \A w \in Workers : SelfInv(w)
    /\ \A s \in Sources : reopening[s] # None => status[reopening[s]] # "ABSENT"

IInv ==
    /\ TypeOK
    /\ LocalInv
    /\ NoWorkIsStranded
    /\ CompletedWorkIsEvaluated

-----------------------------------------------------------------------------
(* Type correctness *)

\* The local-state updates shared by the worker actions keep their types.
LEMMA LeaveType ==
    ASSUME TypeOK, NEW w \in Workers, Leave(w)
    PROVE  /\ pc' \in [Workers -> Locations]
           /\ cur' \in [Workers -> Events \cup {None}]
           /\ todo' \in [Workers -> SUBSET Events]
           /\ seen' \in [Workers -> SUBSET Events]
           /\ left' \in [Workers -> SUBSET Rules]
           /\ made' \in [Workers -> SUBSET DetectionRun]
BY DEF TypeOK, Leave, Locations

LEMMA StartItemType ==
    ASSUME TypeOK, NEW w \in Workers, NEW e \in Events, NEW rest \in SUBSET Events,
           StartItem(w, e, rest)
    PROVE  /\ pc' \in [Workers -> Locations]
           /\ cur' \in [Workers -> Events \cup {None}]
           /\ todo' \in [Workers -> SUBSET Events]
           /\ seen' \in [Workers -> SUBSET Events]
           /\ left' \in [Workers -> SUBSET Rules]
           /\ made' \in [Workers -> SUBSET DetectionRun]
BY DEF TypeOK, StartItem, Locations

LEMMA GotoType ==
    ASSUME TypeOK, NEW w \in Workers, NEW l \in Locations, Goto(w, l)
    PROVE  /\ pc' \in [Workers -> Locations]
           /\ cur' \in [Workers -> Events \cup {None}]
           /\ todo' \in [Workers -> SUBSET Events]
           /\ seen' \in [Workers -> SUBSET Events]
           /\ left' \in [Workers -> SUBSET Rules]
           /\ made' \in [Workers -> SUBSET DetectionRun]
BY DEF TypeOK, Goto

LEMMA NextItemType ==
    ASSUME TypeOK, NEW w \in Workers, NextItem(w)
    PROVE  /\ pc' \in [Workers -> Locations]
           /\ cur' \in [Workers -> Events \cup {None}]
           /\ todo' \in [Workers -> SUBSET Events]
           /\ seen' \in [Workers -> SUBSET Events]
           /\ left' \in [Workers -> SUBSET Rules]
           /\ made' \in [Workers -> SUBSET DetectionRun]
<1>1. CASE Leave(w)
  BY <1>1, LeaveType
<1>2. CASE \E e \in todo[w] : StartItem(w, e, todo[w] \ {e})
  <2>1. PICK e \in todo[w] : StartItem(w, e, todo[w] \ {e})
    BY <1>2
  <2>2. e \in Events /\ todo[w] \ {e} \in SUBSET Events
    BY DEF TypeOK
  <2>3. QED
    BY <2>1, <2>2, StartItemType
<1>3. QED
  BY <1>1, <1>2 DEF NextItem

\* claim_work keeps the types of the columns it writes.
LEMMA ClaimRowsType ==
    ASSUME TypeOK, NEW w \in Workers, NEW S \in SUBSET Events, ClaimRows(w, S)
    PROVE  /\ status' \in [Events -> Statuses]
           /\ worker' \in [Events -> Workers \cup {None}]
           /\ lease' \in [Events -> {NoLease} \cup 0..LeaseTicks]
           /\ attempts' \in [Events -> Nat]
BY WorkAssumption DEF TypeOK, ClaimRows, Statuses

\* EngineRun builds a run.
LEMMA EngineRunType ==
    ASSUME TypeOK, NEW w \in Workers, NEW r \in Rules
    PROVE  EngineRun(w, r) \in DetectionRun
BY WorkAssumption DEF TypeOK, EngineRun, DetectionRun

\* The type invariant is inductive.
LEMMA TypeStep == TypeOK /\ [Next]_vars => TypeOK'
<1> SUFFICES ASSUME TypeOK, [Next]_vars PROVE TypeOK'
  OBVIOUS
<1>1. ASSUME NEW e \in Events, IngestNew(e) PROVE TypeOK'
  BY <1>1 DEF TypeOK, IngestNew, workVars, Statuses
<1>2. ASSUME NEW s \in Sources, SourceStep(s) PROVE TypeOK'
  BY <1>2 DEF TypeOK, SourceStep, IngestReplay, IngestReopen, IngestAbort, rowVars, workVars, Statuses
<1>3. ASSUME NEW w \in Workers, DispatchPending(w) PROVE TypeOK'
  <2>1. PICK S \in SUBSET {e \in Events : Claimable(e) /\ attempts[e] < MaxAttempts[e]} :
           ClaimRows(w, S) /\ \E e \in S : StartItem(w, e, S \ {e})
    BY <1>3 DEF DispatchPending
  <2>2. PICK e \in S : StartItem(w, e, S \ {e})
    BY <2>1
  <2>3. S \in SUBSET Events /\ e \in Events /\ S \ {e} \in SUBSET Events
    OBVIOUS
  <2>4. runIds' = runIds /\ runs' = runs /\ reopening' = reopening
    BY <1>3 DEF DispatchPending
  <2>5. QED
    BY <2>1, <2>2, <2>3, <2>4, ClaimRowsType, StartItemType DEF TypeOK
<1>4. ASSUME NEW w \in Workers, NEW e \in Events, DispatchOne(w, e) PROVE TypeOK'
  BY <1>4 DEF TypeOK, DispatchOne, rowVars, Locations
<1>5. ASSUME NEW w \in Workers, ClaimOneRead(w) PROVE TypeOK'
  <2>1. Leave(w) \/ Goto(w, "load") \/ Goto(w, "claim")
    BY <1>5 DEF ClaimOneRead
  <2>2. "load" \in Locations /\ "claim" \in Locations
    BY DEF Locations
  <2>3. UNCHANGED <<rowVars, runs, reopening>>
    BY <1>5 DEF ClaimOneRead
  <2>4. QED
    BY <2>1, <2>2, <2>3, LeaveType, GotoType DEF TypeOK, rowVars
<1>6. ASSUME NEW w \in Workers, ClaimOne(w) PROVE TypeOK'
  <2>1. runIds' = runIds /\ runs' = runs /\ reopening' = reopening
    BY <1>6 DEF ClaimOne
  <2>2. CASE Claimable(cur[w]) /\ ClaimRows(w, {cur[w]}) /\ Goto(w, "load")
    <3>1. /\ status' \in [Events -> Statuses]
          /\ worker' \in [Events -> Workers \cup {None}]
          /\ lease' \in [Events -> {NoLease} \cup 0..LeaseTicks]
          /\ attempts' \in [Events -> Nat]
      BY <2>2, WorkAssumption DEF TypeOK, ClaimRows, Statuses
    <3>2. "load" \in Locations
      BY DEF Locations
    <3>3. QED
      BY <2>1, <2>2, <3>1, <3>2, GotoType DEF TypeOK
  <2>3. CASE Leave(w) /\ UNCHANGED <<status, worker, lease, attempts>>
    BY <2>1, <2>3, LeaveType DEF TypeOK
  <2>4. QED
    BY <1>6, <2>2, <2>3 DEF ClaimOne
<1>7. ASSUME NEW w \in Workers, LoadEvents(w) PROVE TypeOK'
  BY <1>7 DEF TypeOK, LoadEvents, rowVars, Locations
<1>8. ASSUME NEW w \in Workers, NEW r \in Rules, PersistOutputs(w, r) PROVE TypeOK'
  BY <1>8, EngineRunType DEF TypeOK, PersistOutputs, rowVars
<1>9. ASSUME NEW w \in Workers, CompleteRead(w) PROVE TypeOK'
  <2>1. NextItem(w) \/ Goto(w, "completing") \/ Goto(w, "failed")
    BY <1>9 DEF CompleteRead
  <2>2. "completing" \in Locations /\ "failed" \in Locations
    BY DEF Locations
  <2>3. UNCHANGED <<rowVars, runs, reopening>>
    BY <1>9 DEF CompleteRead
  <2>4. QED
    BY <2>1, <2>2, <2>3, NextItemType, GotoType DEF TypeOK, rowVars
<1>10. ASSUME NEW w \in Workers, CompleteCommit(w) PROVE TypeOK'
  <2>1. NextItem(w) /\ UNCHANGED <<attempts, runs, reopening>>
    BY <1>10 DEF CompleteCommit
  <2>2. /\ status' \in [Events -> Statuses]
        /\ worker' \in [Events -> Workers \cup {None}]
        /\ lease' \in [Events -> {NoLease} \cup 0..LeaseTicks]
        /\ runIds' \in [Events -> SUBSET DetectionRun]
    BY <1>10 DEF CompleteCommit, TypeOK, Statuses
  <2>3. QED
    BY <2>1, <2>2, NextItemType DEF TypeOK
<1>11. ASSUME NEW w \in Workers, ProcessError(w) PROVE TypeOK'
  <2>1. "failed" \in Locations
    BY DEF Locations
  <2>2. QED
    BY <1>11, <2>1, GotoType DEF ProcessError, TypeOK, rowVars
<1>12. ASSUME NEW w \in Workers, FailRead(w) PROVE TypeOK'
  <2>1. "failing" \in Locations
    BY DEF Locations
  <2>2. QED
    BY <1>12, <2>1, GotoType, LeaveType DEF FailRead, TypeOK, rowVars
<1>13. ASSUME NEW w \in Workers, FailCommit(w) PROVE TypeOK'
  <2>1. Leave(w) /\ UNCHANGED <<attempts, runIds, runs, reopening>>
    BY <1>13 DEF FailCommit
  <2>2. /\ status' \in [Events -> Statuses]
        /\ worker' \in [Events -> Workers \cup {None}]
        /\ lease' \in [Events -> {NoLease} \cup 0..LeaseTicks]
    BY <1>13 DEF FailCommit, TypeOK, Statuses
  <2>3. QED
    BY <2>1, <2>2, LeaveType DEF TypeOK
<1>14. ASSUME NEW w \in Workers, Crash(w) PROVE TypeOK'
  BY <1>14, LeaveType DEF Crash, TypeOK, rowVars
<1>15. ASSUME Tick PROVE TypeOK'
  BY <1>15, WorkAssumption DEF Tick, TypeOK, workVars, NoLease
<1>16. ASSUME UNCHANGED vars PROVE TypeOK'
  BY <1>16 DEF TypeOK, vars, rowVars, workVars
<1>17. QED
  BY <1>1, <1>2, <1>3, <1>4, <1>5, <1>6, <1>7, <1>8, <1>9, <1>10, <1>11, <1>12,
     <1>13, <1>14, <1>15, <1>16 DEF Next, WorkerStep

\* Every reachable state of the queue is well typed: in particular a lease is
\* NULL or between 0 and LeaseTicks and a worker's batch consists of events.
THEOREM TypeCorrect == Spec => []TypeOK
<1>1. Init => TypeOK
  BY WorkAssumption DEF Init, TypeOK, Statuses, Locations, NoLease
<1>2. QED
  BY <1>1, TypeStep, PTL DEF Spec

-----------------------------------------------------------------------------
(* Completed work is evaluated *)

\* No item ever disappears and no run is ever deleted.
Grows ==
    /\ \A e \in Events : status[e] # "ABSENT" => status'[e] # "ABSENT"
    /\ runs \subseteq runs'

\* The local state of the other workers and of the sources is unchanged.
LocalOthers(w) ==
    /\ \A v \in Workers \ {w} :
         /\ pc'[v] = pc[v] /\ cur'[v] = cur[v] /\ todo'[v] = todo[v]
         /\ seen'[v] = seen[v] /\ left'[v] = left[v] /\ made'[v] = made[v]
    /\ reopening' = reopening

\* LocalInv is preserved when w keeps its own part and nothing else shrinks.
LEMMA LocalFrame ==
    ASSUME TypeOK, LocalInv, NEW w \in Workers, Grows, LocalOthers(w), SelfInv(w)'
    PROVE  LocalInv'
<1>1. ASSUME NEW v \in Workers, v # w PROVE SelfInv(v)'
  BY <1>1 DEF TypeOK, LocalInv, SelfInv, Grows, LocalOthers, HasEvaluated, EngineRun
<1>2. \A s \in Sources : reopening'[s] # None => status'[reopening'[s]] # "ABSENT"
  BY DEF TypeOK, LocalInv, Grows, LocalOthers
<1>3. QED
  BY <1>1, <1>2 DEF LocalInv

\* A dispatch call that ends leaves nothing behind.
LEMMA LeaveFrame ==
    ASSUME TypeOK, LocalInv, NEW w \in Workers, Leave(w), Grows, reopening' = reopening
    PROVE  LocalInv'
<1>1. LocalOthers(w)
  BY DEF TypeOK, Leave, LocalOthers
<1>2. SelfInv(w)'
  BY DEF TypeOK, Leave, SelfInv
<1>3. QED
  BY <1>1, <1>2, LocalFrame

LEMMA StartItemFrame ==
    ASSUME TypeOK, LocalInv, NEW w \in Workers, NEW e \in Events, NEW rest \in SUBSET Events,
           StartItem(w, e, rest), Grows, reopening' = reopening,
           \A d \in rest \cup {e} : status'[d] # "ABSENT"
    PROVE  LocalInv'
<1>1. LocalOthers(w)
  BY DEF TypeOK, StartItem, LocalOthers
<1>2. SelfInv(w)'
  BY DEF TypeOK, StartItem, SelfInv
<1>3. QED
  BY <1>1, <1>2, LocalFrame

LEMMA NextItemFrame ==
    ASSUME TypeOK, LocalInv, NEW w \in Workers, NextItem(w), Grows, reopening' = reopening
    PROVE  LocalInv'
<1>1. CASE Leave(w)
  BY <1>1, LeaveFrame
<1>2. CASE \E e \in todo[w] : StartItem(w, e, todo[w] \ {e})
  <2>1. PICK e \in todo[w] : StartItem(w, e, todo[w] \ {e})
    BY <1>2
  <2>2. \A d \in todo[w] : d \in Events /\ status'[d] # "ABSENT"
    BY DEF TypeOK, LocalInv, SelfInv, Grows
  <2>3. QED
    BY <2>1, <2>2, StartItemFrame
<1>3. QED
  BY <1>1, <1>2 DEF NextItem

\* A worker may move to any location but the two that promise evaluations.
LEMMA GotoFrame ==
    ASSUME TypeOK, LocalInv, NEW w \in Workers, NEW l \in Locations,
           Goto(w, l), pc[w] # "idle", l \notin {"run", "completing"},
           Grows, reopening' = reopening
    PROVE  LocalInv'
<1>1. LocalOthers(w)
  BY DEF TypeOK, Goto, LocalOthers
<1>2. SelfInv(w)'
  BY DEF TypeOK, Goto, LocalInv, SelfInv, Grows
<1>3. QED
  BY <1>1, <1>2, LocalFrame

\* Nothing is ever deleted: no step makes an item ABSENT or drops a run.
LEMMA GrowsStep == TypeOK /\ [Next]_vars => Grows
<1> SUFFICES ASSUME TypeOK, [Next]_vars PROVE Grows
  OBVIOUS
<1>1. ASSUME NEW e \in Events, IngestNew(e) PROVE Grows
  BY <1>1 DEF TypeOK, IngestNew, Grows
<1>2. ASSUME NEW s \in Sources, SourceStep(s) PROVE Grows
  BY <1>2 DEF TypeOK, SourceStep, IngestReplay, IngestReopen, IngestAbort, rowVars, Grows
<1>3. ASSUME NEW w \in Workers, WorkerStep(w) PROVE Grows
  BY <1>3 DEF TypeOK, WorkerStep, DispatchPending, DispatchOne, ClaimOneRead, ClaimOne,
     ClaimRows, LoadEvents, PersistOutputs, CompleteRead, CompleteCommit, ProcessError,
     FailRead, FailCommit, Crash, rowVars, Grows
<1>4. ASSUME Tick \/ UNCHANGED vars PROVE Grows
  BY <1>4 DEF Tick, vars, rowVars, Grows
<1>5. QED
  BY <1>1, <1>2, <1>3, <1>4 DEF Next

\* LocalInv is preserved by every step.
LEMMA LocalStep == TypeOK /\ LocalInv /\ [Next]_vars => LocalInv'
<1> SUFFICES ASSUME TypeOK, LocalInv, [Next]_vars PROVE LocalInv'
  OBVIOUS
<1>0. Grows
  BY GrowsStep
<1>1. ASSUME workVars' = workVars, reopening' = reopening PROVE LocalInv'
  <2>1. \A w \in Workers : SelfInv(w)'
    BY <1>0, <1>1 DEF TypeOK, LocalInv, SelfInv, HasEvaluated, EngineRun, Grows, workVars
  <2>2. QED
    BY <1>0, <1>1, <2>1 DEF TypeOK, LocalInv, Grows
<1>2. ASSUME NEW s \in Sources, SourceStep(s) PROVE LocalInv'
  <2>1. \A w \in Workers : SelfInv(w)'
    BY <1>0, <1>2 DEF TypeOK, LocalInv, SelfInv, HasEvaluated, EngineRun, Grows, workVars,
       SourceStep, IngestReplay, IngestReopen, IngestAbort
  <2>2. \A t \in Sources : reopening'[t] # None => status'[reopening'[t]] # "ABSENT"
    BY <1>0, <1>2 DEF TypeOK, LocalInv, Grows, SourceStep, IngestReplay, IngestReopen,
       IngestAbort, rowVars
  <2>3. QED
    BY <2>1, <2>2 DEF LocalInv
<1>3. ASSUME NEW w \in Workers, DispatchPending(w) PROVE LocalInv'
  <2>1. PICK S \in SUBSET {e \in Events : Claimable(e) /\ attempts[e] < MaxAttempts[e]} :
           ClaimRows(w, S) /\ \E e \in S : StartItem(w, e, S \ {e})
    BY <1>3 DEF DispatchPending
  <2>2. PICK e \in S : StartItem(w, e, S \ {e})
    BY <2>1
  <2>3. S \subseteq Events /\ \A d \in S : status'[d] # "ABSENT"
    BY <2>1 DEF ClaimRows
  <2>4. e \in Events /\ S \ {e} \in SUBSET Events /\ reopening' = reopening
    BY <1>3, <2>3 DEF DispatchPending
  <2>5. QED
    BY <1>0, <2>2, <2>3, <2>4, StartItemFrame
<1>4. ASSUME NEW w \in Workers, NEW e \in Events, DispatchOne(w, e) PROVE LocalInv'
  <2>1. LocalOthers(w)
    BY <1>4 DEF DispatchOne, TypeOK, LocalOthers
  <2>2. SelfInv(w)'
    BY <1>4 DEF DispatchOne, TypeOK, LocalInv, SelfInv, rowVars
  <2>3. QED
    BY <1>0, <2>1, <2>2, LocalFrame
<1>5. ASSUME NEW w \in Workers, ClaimOneRead(w) PROVE LocalInv'
  BY <1>0, <1>5, LeaveFrame, GotoFrame DEF ClaimOneRead, Locations
<1>6. ASSUME NEW w \in Workers, ClaimOne(w) PROVE LocalInv'
  BY <1>0, <1>6, LeaveFrame, GotoFrame DEF ClaimOne, Locations
<1>7. ASSUME NEW w \in Workers, LoadEvents(w) PROVE LocalInv'
  <2>1. LocalOthers(w)
    BY <1>7 DEF LoadEvents, TypeOK, LocalOthers
  <2>2. SelfInv(w)'
    BY <1>7 DEF LoadEvents, TypeOK, LocalInv, SelfInv, HasEvaluated, rowVars
  <2>3. QED
    BY <1>0, <2>1, <2>2, LocalFrame
<1>8. ASSUME NEW w \in Workers, NEW r \in Rules, PersistOutputs(w, r) PROVE LocalInv'
  <2>1. LocalOthers(w)
    BY <1>8 DEF PersistOutputs, TypeOK, LocalOthers
  <2>2. SelfInv(w)'
    BY <1>8 DEF PersistOutputs, TypeOK, LocalInv, SelfInv, HasEvaluated, EngineRun, rowVars
  <2>3. QED
    BY <1>0, <2>1, <2>2, LocalFrame
<1>9. ASSUME NEW w \in Workers, CompleteRead(w) PROVE LocalInv'
  <2>1. reopening' = reopening /\ UNCHANGED <<status, runs>>
    BY <1>9 DEF CompleteRead, rowVars
  <2>2. CASE Goto(w, "completing")
    <3>1. LocalOthers(w)
      BY <2>1, <2>2 DEF Goto, TypeOK, LocalOthers
    <3>2. SelfInv(w)'
      BY <1>9, <2>1, <2>2 DEF CompleteRead, Goto, TypeOK, LocalInv, SelfInv, HasEvaluated, EngineRun
    <3>3. QED
      BY <1>0, <3>1, <3>2, LocalFrame
  <2>3. CASE NextItem(w)
    BY <1>0, <2>1, <2>3, NextItemFrame
  <2>4. CASE Goto(w, "failed")
    BY <1>0, <1>9, <2>1, <2>4, GotoFrame DEF CompleteRead, Locations
  <2>5. QED
    BY <1>9, <2>2, <2>3, <2>4 DEF CompleteRead
<1>10. ASSUME NEW w \in Workers, CompleteCommit(w) PROVE LocalInv'
  BY <1>0, <1>10, NextItemFrame DEF CompleteCommit
<1>11. ASSUME NEW w \in Workers, ProcessError(w) PROVE LocalInv'
  BY <1>0, <1>11, GotoFrame DEF ProcessError, Locations
<1>12. ASSUME NEW w \in Workers, FailRead(w) PROVE LocalInv'
  BY <1>0, <1>12, GotoFrame, LeaveFrame DEF FailRead, Locations
<1>13. ASSUME NEW w \in Workers, FailCommit(w) \/ Crash(w) PROVE LocalInv'
  BY <1>0, <1>13, LeaveFrame DEF FailCommit, Crash
<1>14. ASSUME (\E e \in Events : IngestNew(e)) \/ Tick \/ UNCHANGED vars PROVE LocalInv'
  BY <1>1, <1>14 DEF IngestNew, Tick, vars
<1>15. QED
  BY <1>2, <1>3, <1>4, <1>5, <1>6, <1>7, <1>8, <1>9, <1>10, <1>11, <1>12, <1>13, <1>14
     DEF Next, WorkerStep

\* The rows never strand: only CompleteCommit and FailCommit clear a lease,
\* and both leave CLAIMED; only ClaimRows enters it, with a worker and a lease.
LEMMA StrandedStep ==
    TypeOK /\ LocalInv /\ NoWorkIsStranded /\ [Next]_vars => NoWorkIsStranded'
<1> SUFFICES ASSUME TypeOK, LocalInv, NoWorkIsStranded, [Next]_vars PROVE NoWorkIsStranded'
  OBVIOUS
<1>1. ASSUME NEW e \in Events, IngestNew(e) PROVE NoWorkIsStranded'
  BY <1>1 DEF IngestNew, TypeOK, NoWorkIsStranded
<1>2. ASSUME NEW s \in Sources, SourceStep(s) PROVE NoWorkIsStranded'
  BY <1>2 DEF SourceStep, IngestReplay, IngestReopen, IngestAbort, rowVars, TypeOK, NoWorkIsStranded
<1>3. ASSUME NEW w \in Workers, NEW S, ClaimRows(w, S) PROVE NoWorkIsStranded'
  BY <1>3, WorkAssumption DEF ClaimRows, TypeOK, NoWorkIsStranded, NoLease
<1>4. ASSUME NEW w \in Workers, CompleteCommit(w) \/ FailCommit(w) PROVE NoWorkIsStranded'
  BY <1>4 DEF CompleteCommit, FailCommit, TypeOK, NoWorkIsStranded
<1>5. ASSUME UNCHANGED <<status, worker, lease>> PROVE NoWorkIsStranded'
  BY <1>5 DEF NoWorkIsStranded
<1>6. ASSUME Tick PROVE NoWorkIsStranded'
  BY <1>6, WorkAssumption DEF Tick, TypeOK, NoWorkIsStranded, NoLease
<1>7. ASSUME NEW w \in Workers, WorkerStep(w) PROVE NoWorkIsStranded'
  BY <1>3, <1>4, <1>5, <1>7 DEF WorkerStep, DispatchPending, DispatchOne, ClaimOneRead,
     ClaimOne, LoadEvents, PersistOutputs, CompleteRead, ProcessError, FailRead, Crash, rowVars
<1>8. QED
  BY <1>1, <1>2, <1>5, <1>6, <1>7 DEF Next, vars, rowVars

\* A worker about to commit a completion has evaluated its event with every
\* rule that applies to it, in runs that are stored.
LEMMA CompletingIsEvaluated ==
    ASSUME TypeOK, LocalInv, NEW w \in Workers, pc[w] = "completing"
    PROVE  made[w] \subseteq runs /\ Ledger!Evaluates(made[w], cur[w])
<1>1. made[w] \subseteq runs /\ HasEvaluated(w) /\ left[w] = {} /\ cur[w] \in Events
  BY DEF LocalInv, SelfInv
<1>2. ASSUME NEW r \in Rules, cur[w] \in Applies[r]
      PROVE  \E d \in made[w] : d.rule = r /\ cur[w] \in d.input
  <2>1. EngineRun(w, r) \in made[w]
    BY <1>1 DEF HasEvaluated
  <2>2. EngineRun(w, r).rule = r /\ cur[w] \in EngineRun(w, r).input
    BY <1>1, <1>2 DEF HasEvaluated, EngineRun
  <2>3. QED
    BY <2>1, <2>2
<1>3. QED
  BY <1>1, <1>2 DEF Ledger!Evaluates

LEMMA EvaluatedStep ==
    TypeOK /\ LocalInv /\ CompletedWorkIsEvaluated /\ [Next]_vars
        => CompletedWorkIsEvaluated'
<1> SUFFICES ASSUME TypeOK, LocalInv, CompletedWorkIsEvaluated, [Next]_vars
             PROVE  CompletedWorkIsEvaluated'
  OBVIOUS
<1>1. Grows
  BY GrowsStep
<1>2. ASSUME NEW w \in Workers, CompleteCommit(w) PROVE CompletedWorkIsEvaluated'
  <2>1. made[w] \subseteq runs /\ Ledger!Evaluates(made[w], cur[w])
    BY <1>2, CompletingIsEvaluated DEF CompleteCommit
  <2>2. runs' = runs /\ status' = [status EXCEPT ![cur[w]] = "COMPLETED"]
                     /\ runIds' = [runIds EXCEPT ![cur[w]] = made[w]]
    BY <1>2 DEF CompleteCommit
  <2>3. QED
    BY <2>1, <2>2 DEF CompletedWorkIsEvaluated, Ledger!Evaluates, TypeOK
<1>3. ASSUME runIds' = runIds,
             \A e \in Events : status'[e] = "COMPLETED" => status[e] = "COMPLETED"
      PROVE  CompletedWorkIsEvaluated'
  BY <1>1, <1>3 DEF CompletedWorkIsEvaluated, Ledger!Evaluates, Grows
<1>4. ASSUME NEW e \in Events, IngestNew(e) PROVE CompletedWorkIsEvaluated'
  BY <1>3, <1>4 DEF IngestNew, TypeOK
<1>5. ASSUME NEW s \in Sources, SourceStep(s) PROVE CompletedWorkIsEvaluated'
  BY <1>3, <1>5 DEF SourceStep, IngestReplay, IngestReopen, IngestAbort, rowVars, TypeOK
<1>6. ASSUME NEW w \in Workers, WorkerStep(w), ~CompleteCommit(w) PROVE CompletedWorkIsEvaluated'
  BY <1>3, <1>6 DEF WorkerStep, DispatchPending, DispatchOne, ClaimOneRead, ClaimOne,
     ClaimRows, LoadEvents, PersistOutputs, CompleteRead, ProcessError, FailRead, FailCommit,
     Crash, rowVars, TypeOK
<1>7. ASSUME Tick \/ UNCHANGED vars PROVE CompletedWorkIsEvaluated'
  BY <1>3, <1>7 DEF Tick, vars, rowVars
<1>8. QED
  BY <1>2, <1>4, <1>5, <1>6, <1>7 DEF Next

\* The invariant holds initially and is inductive.
LEMMA InvariantHolds == Spec => []IInv
<1>1. Init => IInv
  <2> SUFFICES ASSUME Init PROVE IInv
    OBVIOUS
  <2>1. TypeOK
    BY WorkAssumption DEF Init, TypeOK, Statuses, Locations, NoLease
  <2>2. LocalInv
    BY DEF Init, LocalInv, SelfInv
  <2>3. NoWorkIsStranded /\ CompletedWorkIsEvaluated
    BY DEF Init, NoWorkIsStranded, CompletedWorkIsEvaluated
  <2>4. QED
    BY <2>1, <2>2, <2>3 DEF IInv
<1>2. IInv /\ [Next]_vars => IInv'
  BY TypeStep, LocalStep, StrandedStep, EvaluatedStep DEF IInv
<1>3. QED
  BY <1>1, <1>2, PTL DEF Spec

\* A COMPLETED work item always names stored runs that evaluated its event
\* with every applicable rule, whatever leases were lost and whatever stale
\* commits, crashes and replays happened.
THEOREM CompletedWorkIsEvaluatedAlways == Spec => []CompletedWorkIsEvaluated
BY InvariantHolds, PTL DEF IInv

\* No row is ever left in a state that claim_work cannot select again.
THEOREM NoWorkIsStrandedAlways == Spec => []NoWorkIsStranded
BY InvariantHolds, PTL DEF IInv

-----------------------------------------------------------------------------
(* A live lease is taken only if the item was reopened *)

\* How often an item in a given state has been claimed.
RowClaims(e) ==
    /\ status[e] \in {"CLAIMED", "FAILED", "COMPLETED"} => attempts[e] >= 1
    /\ status[e] = "ABSENT" => worker[e] = None
    /\ status[e] = "PENDING" /\ worker[e] # None => attempts[e] >= 2

\* A replay about to commit read a row that had been claimed and had failed;
\* if a worker holds it by now, it was claimed once more.
ReplayClaims(s) == reopening[s] # None =>
    /\ attempts[reopening[s]] >= 1
    /\ worker[reopening[s]] # None => attempts[reopening[s]] >= 2

\* A worker about to commit found its item CLAIMED.
WorkerClaims(w) == pc[w] \in {"completing", "failing"} => attempts[cur[w]] >= 1

ClaimsInv ==
    /\ \A e \in Events : RowClaims(e)
    /\ \A s \in Sources : ReplayClaims(s)
    /\ \A w \in Workers : WorkerClaims(w)

\* Claims are only added, and a worker is only written together with one.
LEMMA ClaimsGrow ==
    ASSUME TypeOK, [Next]_vars, NEW e \in Events
    PROVE  /\ attempts'[e] >= attempts[e]
           /\ worker'[e] \notin {worker[e], None} => attempts'[e] = attempts[e] + 1
<1>1. ASSUME NEW w \in Workers, NEW S, ClaimRows(w, S)
      PROVE  /\ attempts'[e] >= attempts[e]
             /\ worker'[e] \notin {worker[e], None} => attempts'[e] = attempts[e] + 1
  BY <1>1 DEF ClaimRows, TypeOK
<1>2. ASSUME attempts' = attempts, worker'[e] \in {worker[e], None}
      PROVE  /\ attempts'[e] >= attempts[e]
             /\ worker'[e] \notin {worker[e], None} => attempts'[e] = attempts[e] + 1
  BY <1>2 DEF TypeOK
<1>3. ASSUME NEW w \in Workers, CompleteCommit(w) \/ FailCommit(w)
      PROVE  attempts' = attempts /\ worker'[e] \in {worker[e], None}
  BY <1>3 DEF CompleteCommit, FailCommit, TypeOK
<1>4. ASSUME NEW w \in Workers, WorkerStep(w)
      PROVE  /\ attempts'[e] >= attempts[e]
             /\ worker'[e] \notin {worker[e], None} => attempts'[e] = attempts[e] + 1
  BY <1>1, <1>2, <1>3, <1>4 DEF WorkerStep, DispatchPending, DispatchOne, ClaimOneRead,
     ClaimOne, LoadEvents, PersistOutputs, CompleteRead, ProcessError, FailRead, Crash, rowVars
<1>5. QED
  BY <1>2, <1>4 DEF Next, SourceStep, IngestNew, IngestReplay, IngestReopen, IngestAbort,
     Tick, vars, rowVars

\* The rows: a claim counts itself, a commit is of a worker that claimed, and
\* a replay reopens what had been claimed before.
LEMMA RowClaimsStep ==
    ASSUME TypeOK, LocalInv, ClaimsInv, [Next]_vars
    PROVE  \A e \in Events : RowClaims(e)'
<1> DEFINE Rows == \A e \in Events : RowClaims(e)'
<1>1. ASSUME NEW e \in Events, IngestNew(e) PROVE Rows
  BY <1>1 DEF IngestNew, TypeOK, ClaimsInv, RowClaims
<1>2. ASSUME UNCHANGED <<status, worker, attempts>> PROVE Rows
  BY <1>2 DEF ClaimsInv, RowClaims
<1>3. ASSUME NEW s \in Sources, IngestReopen(s) PROVE Rows
  BY <1>3 DEF IngestReopen, TypeOK, ClaimsInv, RowClaims, ReplayClaims
<1>4. ASSUME NEW w \in Workers, NEW S, ClaimRows(w, S) PROVE Rows
  BY <1>4 DEF ClaimRows, TypeOK, ClaimsInv, RowClaims
<1>5. ASSUME NEW w \in Workers, CompleteCommit(w) PROVE Rows
  BY <1>5 DEF CompleteCommit, TypeOK, ClaimsInv, RowClaims, WorkerClaims
<1>6. ASSUME NEW w \in Workers, FailCommit(w) PROVE Rows
  BY <1>6 DEF FailCommit, TypeOK, ClaimsInv, RowClaims, WorkerClaims
<1>7. ASSUME NEW w \in Workers, WorkerStep(w) PROVE Rows
  BY <1>2, <1>4, <1>5, <1>6, <1>7 DEF WorkerStep, DispatchPending, DispatchOne, ClaimOneRead,
     ClaimOne, LoadEvents, PersistOutputs, CompleteRead, ProcessError, FailRead, Crash, rowVars
<1>8. QED
  BY <1>1, <1>2, <1>3, <1>7 DEF Next, SourceStep, IngestReplay, IngestAbort, Tick, vars, rowVars

\* The replays in flight: the row was FAILED when it was read, so nobody held
\* it, and whoever holds it later has claimed it since.
LEMMA ReplayClaimsStep ==
    ASSUME TypeOK, NoWorkIsStranded, ClaimsInv, [Next]_vars, NEW s \in Sources
    PROVE  ReplayClaims(s)'
<1>1. CASE reopening'[s] = reopening[s]
  <2>1. CASE reopening[s] = None
    BY <1>1, <2>1 DEF ReplayClaims
  <2>2. CASE reopening[s] # None
    <3> DEFINE e == reopening[s]
    <3>1. e \in Events
      BY <2>2 DEF TypeOK
    <3>2. attempts[e] \in Nat
      BY <3>1 DEF TypeOK
    <3>3. attempts[e] >= 1 /\ (worker[e] # None => attempts[e] >= 2)
      BY <2>2 DEF ClaimsInv, ReplayClaims
    <3>4. /\ attempts'[e] >= attempts[e]
          /\ worker'[e] \notin {worker[e], None} => attempts'[e] = attempts[e] + 1
      BY <3>1, ClaimsGrow
    <3>5. attempts' \in [Events -> Nat]
      BY TypeStep DEF TypeOK
    <3> HIDE DEF e
    <3>6. attempts'[e] >= 1 /\ (worker'[e] # None => attempts'[e] >= 2)
      BY <3>1, <3>2, <3>3, <3>4, <3>5
    <3>7. QED
      BY <1>1, <3>6 DEF ReplayClaims, e
  <2>3. QED
    BY <2>1, <2>2
<1>2. ASSUME NEW e \in Events, IngestReplay(s, e) PROVE ReplayClaims(s)'
  BY <1>2 DEF IngestReplay, rowVars, TypeOK, NoWorkIsStranded, ClaimsInv, RowClaims, ReplayClaims
<1>3. ASSUME IngestReopen(s) \/ IngestAbort(s) PROVE ReplayClaims(s)'
  BY <1>3 DEF IngestReopen, IngestAbort, TypeOK, ReplayClaims
<1>4. ASSUME NEW t \in Sources, SourceStep(t), t # s PROVE reopening'[s] = reopening[s]
  BY <1>4 DEF SourceStep, IngestReplay, IngestReopen, IngestAbort, TypeOK
<1>5. ASSUME NEW w \in Workers, WorkerStep(w) PROVE reopening'[s] = reopening[s]
  BY <1>5 DEF WorkerStep, DispatchPending, DispatchOne, ClaimOneRead, ClaimOne, LoadEvents,
     PersistOutputs, CompleteRead, CompleteCommit, ProcessError, FailRead, FailCommit, Crash
<1>6. QED
  BY <1>1, <1>2, <1>3, <1>4, <1>5 DEF Next, SourceStep, IngestNew, Tick, vars

\* The workers about to commit.
LEMMA WorkerClaimsStep ==
    ASSUME TypeOK, LocalInv, ClaimsInv, [Next]_vars, NEW w \in Workers
    PROVE  WorkerClaims(w)'
<1>1. CASE pc'[w] = pc[w] /\ cur'[w] = cur[w]
  <2>1. CASE pc[w] \in {"completing", "failing"}
    <3>1. cur[w] \in Events
      BY <2>1 DEF LocalInv, SelfInv
    <3>2. attempts[cur[w]] >= 1 /\ attempts'[cur[w]] >= attempts[cur[w]]
      BY <2>1, <3>1, ClaimsGrow DEF ClaimsInv, WorkerClaims
    <3>3. attempts[cur[w]] \in Nat /\ attempts'[cur[w]] \in Nat
      BY <3>1, TypeStep DEF TypeOK
    <3>4. QED
      BY <1>1, <3>2, <3>3 DEF WorkerClaims
  <2>2. QED
    BY <1>1, <2>1 DEF WorkerClaims
<1>2. ASSUME pc'[w] \notin {"completing", "failing"} PROVE WorkerClaims(w)'
  BY <1>2 DEF WorkerClaims
<1>3. ASSUME CompleteRead(w) \/ FailRead(w) PROVE WorkerClaims(w)'
  <2>1. CASE ActiveLease(w, cur[w])
    <3>1. cur[w] \in Events
      BY <1>3 DEF CompleteRead, FailRead, LocalInv, SelfInv
    <3>2. attempts' = attempts /\ cur' = cur
      BY <1>3, <2>1 DEF CompleteRead, FailRead, Goto, rowVars, ActiveLease
    <3>3. attempts[cur[w]] >= 1
      BY <2>1, <3>1 DEF ActiveLease, ClaimsInv, RowClaims
    <3>4. QED
      BY <3>2, <3>3 DEF WorkerClaims
  <2>2. CASE ~ActiveLease(w, cur[w])
    BY <1>2, <1>3, <2>2 DEF CompleteRead, FailRead, NextItem, Goto, Leave, StartItem, TypeOK
  <2>3. QED
    BY <2>1, <2>2
<1>4. ASSUME NEW v \in Workers, WorkerStep(v), v # w PROVE pc'[w] = pc[w] /\ cur'[w] = cur[w]
  BY <1>4 DEF WorkerStep, DispatchPending, DispatchOne, ClaimOneRead, ClaimOne, LoadEvents,
     PersistOutputs, CompleteRead, CompleteCommit, ProcessError, FailRead, FailCommit, Crash,
     NextItem, Goto, Leave, StartItem, TypeOK
<1>5. ASSUME WorkerStep(w), ~CompleteRead(w), ~FailRead(w)
      PROVE  \/ pc'[w] \notin {"completing", "failing"}
             \/ pc'[w] = pc[w] /\ cur'[w] = cur[w]
  BY <1>5 DEF WorkerStep, DispatchPending, DispatchOne, ClaimOneRead, ClaimOne, LoadEvents,
     PersistOutputs, CompleteCommit, ProcessError, FailCommit, Crash,
     NextItem, Goto, Leave, StartItem, TypeOK
<1>6. QED
  BY <1>1, <1>2, <1>3, <1>4, <1>5 DEF Next, SourceStep, IngestNew, IngestReplay, IngestReopen,
     IngestAbort, Tick, vars, workVars

LEMMA ClaimsHold == Spec => []ClaimsInv
<1>1. Init => ClaimsInv
  BY DEF Init, ClaimsInv, RowClaims, ReplayClaims, WorkerClaims
<1>2. IInv /\ ClaimsInv /\ [Next]_vars => ClaimsInv'
  BY RowClaimsStep, ReplayClaimsStep, WorkerClaimsStep DEF IInv, ClaimsInv
<1>3. QED
  BY <1>1, <1>2, InvariantHolds, PTL DEF Spec

\* From the two invariants: a claim of a row that has a worker and a running
\* lease finds it neither FAILED nor CLAIMED, so PENDING, and a PENDING row
\* with a worker has been claimed twice: once before the failure that a replay
\* read, once before that replay committed.
THEOREM LiveLeaseIsTakenOnlyIfReopenedAlways == Spec => LiveLeaseIsTakenOnlyIfReopened
<1> DEFINE Taken(e) == worker[e] # None /\ lease[e] > 0 /\ worker'[e] \notin {worker[e], None}
           Reopened(e) == status[e] = "PENDING" /\ attempts[e] >= 2
           Kept == \A e \in Events :
                     /\ worker[e] # None
                     /\ lease[e] > 0
                     /\ worker'[e] \notin {worker[e], None}
                     => status[e] = "PENDING" /\ attempts[e] >= 2
<1>1. ASSUME IInv, ClaimsInv, [Next]_vars, NEW e \in Events, Taken(e) PROVE Reopened(e)
  <2>1. ASSUME NEW w \in Workers, NEW S, ClaimRows(w, S), \A f \in S : Claimable(f)
        PROVE  Reopened(e)
    <3>1. e \in S
      BY <1>1, <2>1 DEF ClaimRows, IInv, TypeOK
    <3>2. status[e] = "PENDING"
      BY <1>1, <2>1, <3>1 DEF Claimable, IInv, TypeOK, NoWorkIsStranded, NoLease
    <3>3. QED
      BY <1>1, <3>2 DEF ClaimsInv, RowClaims
  <2>2. ASSUME NEW w \in Workers, CompleteCommit(w) \/ FailCommit(w) PROVE FALSE
    BY <1>1, <2>2 DEF CompleteCommit, FailCommit, IInv, TypeOK
  <2>3. ASSUME worker' = worker PROVE FALSE
    BY <1>1, <2>3
  <2>4. ASSUME NEW w \in Workers, DispatchPending(w) PROVE Reopened(e)
    BY <2>1, <2>4 DEF DispatchPending
  <2>5. ASSUME NEW w \in Workers, ClaimOne(w) PROVE Reopened(e)
    BY <2>1, <2>3, <2>5 DEF ClaimOne
  <2>6. QED
    BY <1>1, <2>2, <2>3, <2>4, <2>5 DEF Next, SourceStep, WorkerStep, IngestNew, IngestReplay,
       IngestReopen, IngestAbort, DispatchOne, ClaimOneRead, LoadEvents, PersistOutputs,
       CompleteRead, ProcessError, FailRead, Crash, Tick, vars, rowVars
<1>2. IInv /\ ClaimsInv /\ [Next]_vars => Kept
  BY <1>1
<1>3. QED
  BY <1>2, InvariantHolds, ClaimsHold, PTL DEF Spec, LiveLeaseIsTakenOnlyIfReopened

-----------------------------------------------------------------------------
(* The queue implements the abstract handoff *)

THEOREM QueueImplementsLedger == Spec => ImplementsLedger
<1>1. Init => Ledger!LedgerInit
  BY DEF Init, Ledger!LedgerInit
<1>2. ASSUME IInv, [Next]_vars PROVE [Ledger!LedgerNext]_(Ledger!ledgerVars)
  <2> DEFINE acc == {e \in Events : status[e] # "ABSENT"}
             clo == {e \in Events : status[e] = "COMPLETED"}
  <2> USE <1>2 DEF IInv
  <2>1. ASSUME acc' = acc, clo' = clo, runs' = runs, runIds' = runIds
        PROVE  [Ledger!LedgerNext]_(Ledger!ledgerVars)
    BY <2>1 DEF Ledger!ledgerVars
  <2>2. ASSUME NEW e \in Events, acc' = acc, clo' = clo \ {e}, runs' = runs, runIds' = runIds
        PROVE  [Ledger!LedgerNext]_(Ledger!ledgerVars)
    BY <2>2 DEF Ledger!LedgerNext, Ledger!Reopen
  <2>3. ASSUME NEW e \in Events, IngestNew(e)
        PROVE  [Ledger!LedgerNext]_(Ledger!ledgerVars)
    <3>1. acc' = acc \cup {e} /\ clo' = clo /\ runs' = runs /\ runIds' = runIds
      BY <2>3 DEF IngestNew, TypeOK
    <3>2. QED
      BY <3>1 DEF Ledger!LedgerNext, Ledger!Accept
  <2>4. ASSUME NEW s \in Sources, SourceStep(s)
        PROVE  [Ledger!LedgerNext]_(Ledger!ledgerVars)
    <3>1. CASE IngestReopen(s)
      <4>1. reopening[s] \in Events /\ status[reopening[s]] # "ABSENT"
        BY <3>1 DEF IngestReopen, TypeOK, LocalInv
      <4>2. acc' = acc /\ clo' = clo \ {reopening[s]} /\ runs' = runs /\ runIds' = runIds
        BY <3>1, <4>1 DEF IngestReopen, TypeOK
      <4>3. QED
        BY <2>2, <4>1, <4>2
    <3>2. CASE UNCHANGED <<rowVars, runs>>
      BY <2>1, <3>2 DEF rowVars
    <3>3. QED
      BY <2>4, <3>1, <3>2 DEF SourceStep, IngestReplay, IngestAbort
  <2>5. ASSUME NEW w \in Workers, NEW S \in SUBSET Events, ClaimRows(w, S),
               \A e \in S : Claimable(e), runs' = runs, runIds' = runIds
        PROVE  [Ledger!LedgerNext]_(Ledger!ledgerVars)
    <3>1. acc' = acc /\ clo' = clo
      BY <2>5 DEF ClaimRows, Claimable, TypeOK
    <3>2. QED
      BY <2>1, <2>5, <3>1
  <2>6. ASSUME NEW w \in Workers, DispatchPending(w)
        PROVE  [Ledger!LedgerNext]_(Ledger!ledgerVars)
    BY <2>5, <2>6 DEF DispatchPending
  <2>7. ASSUME NEW w \in Workers, ClaimOne(w)
        PROVE  [Ledger!LedgerNext]_(Ledger!ledgerVars)
    <3>1. cur[w] \in Events
      BY <2>7 DEF ClaimOne, LocalInv, SelfInv
    <3>2. CASE Claimable(cur[w]) /\ ClaimRows(w, {cur[w]})
      BY <2>5, <2>7, <3>1, <3>2 DEF ClaimOne
    <3>3. CASE status' = status
      BY <2>1, <2>7, <3>3 DEF ClaimOne
    <3>4. QED
      BY <2>7, <3>2, <3>3 DEF ClaimOne
  <2>8. ASSUME NEW w \in Workers, NEW r \in Rules, PersistOutputs(w, r)
        PROVE  [Ledger!LedgerNext]_(Ledger!ledgerVars)
    <3>1. /\ acc' = acc /\ clo' = clo /\ runIds' = runIds
          /\ runs' = runs \cup {EngineRun(w, r)}
      BY <2>8 DEF PersistOutputs, rowVars
    <3>2. EngineRun(w, r) \in Ledger!DetectionRun
      BY EngineRunType DEF DetectionRun, Ledger!DetectionRun
    <3>3. QED
      BY <3>1, <3>2 DEF Ledger!LedgerNext, Ledger!Store
  <2>9. ASSUME NEW w \in Workers, CompleteCommit(w)
        PROVE  [Ledger!LedgerNext]_(Ledger!ledgerVars)
    <3>1. pc[w] = "completing" /\ cur[w] \in Events /\ status[cur[w]] # "ABSENT"
      BY <2>9 DEF CompleteCommit, LocalInv, SelfInv
    <3>2. made[w] \subseteq runs /\ Ledger!Evaluates(made[w], cur[w])
      BY <3>1, CompletingIsEvaluated
    <3>3. made[w] \in SUBSET Ledger!DetectionRun
      BY DEF TypeOK, DetectionRun, Ledger!DetectionRun
    <3>4. /\ acc' = acc /\ clo' = clo \cup {cur[w]} /\ runs' = runs
          /\ runIds' = [runIds EXCEPT ![cur[w]] = made[w]]
      BY <2>9, <3>1 DEF CompleteCommit, TypeOK
    <3>5. \E e \in Events, R \in SUBSET Ledger!DetectionRun : Ledger!Close(e, R)
      BY <3>1, <3>2, <3>3, <3>4 DEF Ledger!Close
    <3>6. QED
      BY <3>5 DEF Ledger!LedgerNext
  <2>10. ASSUME NEW w \in Workers, FailCommit(w)
        PROVE  [Ledger!LedgerNext]_(Ledger!ledgerVars)
    <3>1. cur[w] \in Events /\ status[cur[w]] # "ABSENT"
      BY <2>10 DEF FailCommit, LocalInv, SelfInv
    <3>2. acc' = acc /\ clo' = clo \ {cur[w]} /\ runs' = runs /\ runIds' = runIds
      BY <2>10, <3>1 DEF FailCommit, TypeOK
    <3>3. QED
      BY <2>2, <3>1, <3>2
  <2>11. ASSUME UNCHANGED <<status, runs, runIds>>
        PROVE  [Ledger!LedgerNext]_(Ledger!ledgerVars)
    BY <2>1, <2>11
  <2>12. QED
    BY <2>3, <2>4, <2>6, <2>7, <2>8, <2>9, <2>10, <2>11 DEF Next, WorkerStep, DispatchOne,
       ClaimOneRead, LoadEvents, CompleteRead, ProcessError, FailRead, Crash, Tick, vars, rowVars
<1>3. QED
  BY <1>1, <1>2, InvariantHolds, PTL DEF Spec, ImplementsLedger, Ledger!LedgerSpec
-----------------------------------------------------------------------------
(* Every burst is signalled *)

\* load_events returns everything accepted so far, and nothing accepted is
\* ever removed: what the workers hold and what the stored runs of a rule
\* read is therefore ordered by inclusion, and the stored runs of a rule
\* have a largest one.
Accepted == {e \in Events : status[e] # "ABSENT"}

Comparable(A, B) == A \subseteq B \/ B \subseteq A

LoadsAreOrdered ==
    /\ \A w \in Workers : seen[w] \subseteq Accepted
    /\ \A d \in runs : d.input \subseteq Accepted \cap Applies[d.rule]
    /\ \A v, w \in Workers : Comparable(seen[v], seen[w])
    /\ \A d \in runs, w \in Workers : Comparable(d.input, seen[w] \cap Applies[d.rule])

LastRun(r, d) ==
    d \in runs /\ d.rule = r /\ \A c \in runs : c.rule = r => c.input \subseteq d.input

RulesHaveALastRun ==
    \A r \in Rules : (\E d \in runs : d.rule = r) => \E d \in runs : LastRun(r, d)

\* What a step makes of the loaded events: it keeps them, forgets them, or
\* replaces them by everything accepted.
LEMMA LoadedAfter ==
    ASSUME TypeOK, [Next]_vars
    PROVE  \A w \in Workers : seen'[w] \in {seen[w], {}, Accepted}
<1>1. ASSUME NEW v \in Workers, Leave(v) PROVE \A w \in Workers : seen'[w] \in {seen[w], {}}
  BY <1>1 DEF Leave, TypeOK
<1>2. ASSUME NEW v \in Workers, NEW e, NEW rest, StartItem(v, e, rest)
      PROVE  \A w \in Workers : seen'[w] \in {seen[w], {}}
  BY <1>2 DEF StartItem, TypeOK
<1>3. ASSUME NEW v \in Workers, LoadEvents(v)
      PROVE  \A w \in Workers : seen'[w] \in {seen[w], Accepted}
  BY <1>3 DEF LoadEvents, TypeOK, Accepted
<1>4. ASSUME UNCHANGED seen PROVE \A w \in Workers : seen'[w] = seen[w]
  BY <1>4
<1>5. ASSUME NEW v \in Workers, NextItem(v) PROVE \A w \in Workers : seen'[w] \in {seen[w], {}}
  BY <1>1, <1>2, <1>5 DEF NextItem
<1>6. ASSUME NEW v \in Workers, WorkerStep(v)
      PROVE  \A w \in Workers : seen'[w] \in {seen[w], {}, Accepted}
  <2>1. CASE DispatchPending(v)
    <3>1. PICK S : \E e \in S : StartItem(v, e, S \ {e})
      BY <2>1 DEF DispatchPending
    <3>2. QED
      BY <1>2, <3>1
  <2>2. CASE ClaimOneRead(v) \/ ClaimOne(v) \/ FailRead(v) \/ FailCommit(v) \/ Crash(v)
    BY <1>1, <1>4, <2>2 DEF ClaimOneRead, ClaimOne, FailRead, FailCommit, Crash, Goto
  <2>3. CASE CompleteRead(v) \/ CompleteCommit(v)
    BY <1>4, <1>5, <2>3 DEF CompleteRead, CompleteCommit, Goto
  <2>4. CASE LoadEvents(v)
    BY <1>3, <2>4
  <2>5. CASE (\E e \in Events : DispatchOne(v, e)) \/ (\E r \in Rules : PersistOutputs(v, r))
             \/ ProcessError(v)
    BY <1>4, <2>5 DEF DispatchOne, PersistOutputs, ProcessError, Goto
  <2>6. QED
    BY <1>6, <2>1, <2>2, <2>3, <2>4, <2>5 DEF WorkerStep
<1>7. CASE (\E e \in Events : IngestNew(e)) \/ (\E s \in Sources : SourceStep(s)) \/ Tick
           \/ UNCHANGED vars
  BY <1>4, <1>7 DEF IngestNew, SourceStep, IngestReplay, IngestReopen, IngestAbort, Tick,
     vars, workVars
<1>8. QED
  BY <1>6, <1>7 DEF Next

\* The only step that stores a run stores one of the events its worker holds.
LEMMA StoredAfter ==
    ASSUME [Next]_vars
    PROVE  \/ runs' = runs
           \/ \E w \in Workers, r \in Rules : runs' = runs \cup {EngineRun(w, r)} /\ seen' = seen
BY DEF Next, SourceStep, WorkerStep, IngestNew, IngestReplay, IngestReopen, IngestAbort,
   DispatchPending, DispatchOne, ClaimOneRead, ClaimOne, LoadEvents, PersistOutputs,
   CompleteRead, CompleteCommit, ProcessError, FailRead, FailCommit, Crash, Tick, vars

LEMMA OrderedStep ==
    ASSUME TypeOK, LocalInv, LoadsAreOrdered, [Next]_vars
    PROVE  LoadsAreOrdered'
<1>1. Accepted \subseteq Accepted'
  BY GrowsStep DEF Grows, Accepted
<1>2. \A w \in Workers : seen'[w] \in {seen[w], {}, Accepted}
  BY LoadedAfter
<1>3. \A w \in Workers : seen'[w] \subseteq Accepted'
  BY <1>1, <1>2 DEF LoadsAreOrdered
<1>4. \A v, w \in Workers : Comparable(seen'[v], seen'[w])
  BY <1>2 DEF LoadsAreOrdered, Comparable
<1>5. ASSUME NEW d \in runs
      PROVE  /\ d.input \subseteq Accepted' \cap Applies[d.rule]
             /\ \A w \in Workers : Comparable(d.input, seen'[w] \cap Applies[d.rule])
  <2>1. d.input \subseteq Accepted \cap Applies[d.rule]
    BY DEF LoadsAreOrdered
  <2>2. ASSUME NEW w \in Workers PROVE Comparable(d.input, seen'[w] \cap Applies[d.rule])
    <3>1. CASE seen'[w] = seen[w]
      BY <3>1 DEF LoadsAreOrdered
    <3>2. CASE seen'[w] \in {{}, Accepted}
      BY <2>1, <3>2 DEF Comparable
    <3>3. QED
      BY <1>2, <3>1, <3>2
  <2>3. QED
    BY <1>1, <2>1, <2>2
<1>6. ASSUME NEW v \in Workers, NEW r \in Rules, seen' = seen
      PROVE  LET d == EngineRun(v, r)
             IN  /\ d.input \subseteq Accepted' \cap Applies[d.rule]
                 /\ \A w \in Workers : Comparable(d.input, seen'[w] \cap Applies[d.rule])
  BY <1>3, <1>6 DEF LoadsAreOrdered, Comparable, EngineRun
<1>7. ASSUME NEW d \in runs'
      PROVE  /\ d.input \subseteq Accepted' \cap Applies[d.rule]
             /\ \A w \in Workers : Comparable(d.input, seen'[w] \cap Applies[d.rule])
  <2>1. CASE d \in runs
    BY <1>5, <2>1
  <2>2. CASE d \notin runs
    <3>1. PICK v \in Workers, r \in Rules : d = EngineRun(v, r) /\ seen' = seen
      BY <2>2, StoredAfter
    <3>2. QED
      BY <1>6, <3>1
  <2>3. QED
    BY <2>1, <2>2
<1>8. QED
  BY <1>3, <1>4, <1>7 DEF LoadsAreOrdered, Comparable

\* A new run of a rule becomes its last one or is part of it.
LEMMA LastRunStep ==
    ASSUME LoadsAreOrdered, RulesHaveALastRun, [Next]_vars
    PROVE  RulesHaveALastRun'
<1>1. CASE runs' = runs
  BY <1>1 DEF RulesHaveALastRun, LastRun
<1>2. ASSUME NEW w \in Workers, NEW q \in Rules, runs' = runs \cup {EngineRun(w, q)}
      PROVE  RulesHaveALastRun'
  <2> DEFINE x == EngineRun(w, q)
  <2>1. x.rule = q /\ x.input = seen[w] \cap Applies[q] /\ x \in runs'
    BY <1>2 DEF EngineRun
  <2> HIDE DEF x
  <2>2. runs' = runs \cup {x}
    BY <1>2 DEF x
  <2>3. ASSUME NEW r \in Rules, \E d \in runs' : d.rule = r
        PROVE  \E d \in runs' : LastRun(r, d)'
    <3>1. CASE r # q
      <4>1. PICK d \in runs : LastRun(r, d)
        BY <2>1, <2>2, <2>3, <3>1 DEF RulesHaveALastRun
      <4>2. LastRun(r, d)'
        BY <2>1, <2>2, <3>1, <4>1 DEF LastRun
      <4>3. QED
        BY <2>2, <4>2
    <3>2. CASE r = q /\ ~ \E d \in runs : d.rule = r
      BY <2>1, <2>2, <3>2 DEF LastRun
    <3>3. CASE r = q /\ \E d \in runs : d.rule = r
      <4>1. PICK d \in runs : LastRun(r, d)
        BY <3>3 DEF RulesHaveALastRun
      <4>2. x.input \subseteq d.input \/ d.input \subseteq x.input
        BY <2>1, <3>3, <4>1 DEF LoadsAreOrdered, Comparable, LastRun
      <4>3. CASE x.input \subseteq d.input
        BY <2>1, <2>2, <3>3, <4>1, <4>3 DEF LastRun
      <4>4. CASE d.input \subseteq x.input
        BY <2>1, <2>2, <3>3, <4>1, <4>4 DEF LastRun
      <4>5. QED
        BY <4>2, <4>3, <4>4
    <3>4. QED
      BY <3>1, <3>2, <3>3
  <2>4. QED
    BY <2>3 DEF RulesHaveALastRun, LastRun
<1>3. QED
  BY <1>1, <1>2, StoredAfter

\* The last run of a rule has read every completed event the rule applies to,
\* so its window for the end of a burst holds the whole burst.
LEMMA LastRunSignals ==
    ASSUME TypeOK, CompletedWorkIsEvaluated, RulesHaveALastRun
    PROVE  EveryBurstIsSignalled
<1> SUFFICES ASSUME NEW r \in Rules, NEW S \in SUBSET {e \in Events : status[e] = "COMPLETED"},
                    NEW e \in S, Fires(r, S, e)
             PROVE  \E g \in StoredSignals : g.rule = r /\ S \subseteq g.events
  BY DEF EveryBurstIsSignalled
<1>1. S \subseteq Events /\ S \subseteq Applies[r] /\ S \subseteq Matched[r]
  BY DEF Fires
<1>2. ASSUME NEW c \in S PROVE \E d \in runs : d.rule = r /\ c \in d.input
  BY <1>1 DEF CompletedWorkIsEvaluated, Ledger!Evaluates
<1>3. PICK d \in runs : LastRun(r, d)
  BY <1>2 DEF RulesHaveALastRun
<1>4. d.rule = r /\ S \subseteq Matching(d) /\ Matching(d) \subseteq Events
  BY <1>1, <1>2, <1>3 DEF LastRun, Matching, TypeOK, DetectionRun
<1>5. ASSUME NEW W \in SignalsOf(d), S \subseteq W
      PROVE  \E g \in StoredSignals : g.rule = r /\ S \subseteq g.events
  <2>1. [rule |-> d.rule, events |-> W] \in StoredSignals
    BY <1>5 DEF StoredSignals
  <2>2. QED
    BY <1>4, <1>5, <2>1
<1>6. CASE r \notin CountRules
  BY <1>4, <1>5, <1>6 DEF Fires, SignalsOf
<1>7. CASE r \in CountRules
  <2>1. S \subseteq Keyed(d)
    BY <1>4, <1>7 DEF Fires, Keyed
  <2>2. S \subseteq Window(d, e)
    BY <1>1, <1>4, <1>7, <2>1, EngineAssumption DEF Fires, Window
  <2>3. IsFiniteSet(Window(d, e)) /\ IsFiniteSet(S)
    BY <1>1, <1>4, FS_Subset, EngineAssumption DEF Window, Keyed
  <2>4. Cardinality(S) <= Cardinality(Window(d, e))
    BY <2>2, <2>3, FS_Subset
  <2>5. Cardinality(Window(d, e)) >= Threshold[d.rule]
    BY <1>4, <1>7, <2>3, <2>4, FS_CardinalityType, EngineAssumption DEF Fires
  <2>6. Window(d, e) \in SignalsOf(d)
    BY <1>4, <1>7, <2>1, <2>5 DEF SignalsOf
  <2>7. QED
    BY <1>5, <2>2, <2>6
<1>8. QED
  BY <1>6, <1>7

\* Once the items of a burst are completed, one stored signal covers it, for
\* any rules, windows, thresholds and times of the events, however the burst
\* was split between workers.
THEOREM EveryBurstIsSignalledAlways == Spec => []EveryBurstIsSignalled
<1>1. Init => LoadsAreOrdered /\ RulesHaveALastRun
  BY DEF Init, LoadsAreOrdered, RulesHaveALastRun, Comparable
<1>2. IInv /\ LoadsAreOrdered /\ RulesHaveALastRun /\ [Next]_vars
        => (LoadsAreOrdered /\ RulesHaveALastRun)'
  BY OrderedStep, LastRunStep DEF IInv
<1>3. IInv /\ RulesHaveALastRun => EveryBurstIsSignalled
  BY LastRunSignals DEF IInv
<1>4. QED
  BY <1>1, <1>2, <1>3, InvariantHolds, PTL DEF Spec
=============================================================================
