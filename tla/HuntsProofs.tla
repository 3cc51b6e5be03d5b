----------------------------- MODULE HuntsProofs -----------------------------
(***************************************************************************)
(* Proofs about the threat hunts, for any plans, events and number of      *)
(* calls at once.                                                          *)
(*                                                                         *)
(* A call keeps an execution it has computed over an older set of events   *)
(* and commits it over whatever its plan has become.  CallIsSound says     *)
(* what of that stays true however long it waits: the execution was found  *)
(* for the plan of the call, what it names is ingested, and a transaction  *)
(* that inserts nothing has seen the row that is already there, and one    *)
(* that leaves the plan's columns has seen it completed, which it stays.   *)
(***************************************************************************)
EXTENDS Hunts, TLAPS

\* An execution the engine can have returned for the events seen so far.
Sound(x) ==
    /\ x \in Execution
    /\ x.matched = {} => x.refuting \cap Selected[x.plan] = {}
    /\ x.matched \cup x.refuting \subseteq ingested

CallIsSound(w) ==
    /\ pc[w] \in {"claim", "run", "save", "commit"} => cur[w] \in Plans
    /\ pc[w] \in {"save", "commit"} => Sound(found[w]) /\ found[w].plan = cur[w]
    /\ pc[w] = "commit" => saving[w].insert \/ found[w] \in executions
    /\ pc[w] = "commit" => saving[w].plan \/ status[cur[w]] = "COMPLETED"

Inv ==
    /\ TypeOK
    /\ \A w \in Workers : CallIsSound(w)
    /\ \A x \in executions : Sound(x)
    /\ \A p \in Plans : status[p] = "COMPLETED" => \E x \in executions : x.plan = p
    /\ UnfinishedHuntIsUnblocked
    /\ NoHuntIsStranded

-----------------------------------------------------------------------------
\* The engine's result, for whatever is ingested, is sound and the plan's.
LEMMA HuntResultIsSound ==
    ASSUME TypeOK, NEW p \in Plans
    PROVE  Sound(HuntResult(p)) /\ HuntResult(p).plan = p
BY HuntAssumption DEF TypeOK, HuntResult, Sound, Execution

\* A call that waits stays sound: rows and events are only added.
LEMMA WaitingCall ==
    ASSUME NEW w \in Workers, CallIsSound(w), ingested \subseteq ingested', executions \subseteq executions',
           \A p \in Plans : status[p] = "COMPLETED" => status'[p] = "COMPLETED",
           pc'[w] = pc[w], cur'[w] = cur[w], found'[w] = found[w], saving'[w] = saving[w]
    PROVE  CallIsSound(w)'
BY DEF CallIsSound, Sound

\* A call that raises, returns without a result or dies.
LEMMA RaiseStep ==
    ASSUME Inv, NEW w \in Workers, Raise(w)
    PROVE  Inv'
<1> USE HuntAssumption
<1>1. TypeOK'
  BY DEF Inv, TypeOK, Raise, Leave, Retired, Locations, NoWrite, Write
<1>2. \A v \in Workers : CallIsSound(v)'
  BY DEF Inv, TypeOK, Raise, Leave, CallIsSound, Sound
<1>3. NoHuntIsStranded'
  BY DEF Inv, TypeOK, Raise, Retired, NoHuntIsStranded
<1> QED
  BY <1>1, <1>2, <1>3 DEF Inv, Raise, Sound, UnfinishedHuntIsUnblocked

\* A step that leaves the plans and the executions, and moves one call.
LEMMA CallOnly ==
    ASSUME Inv, NEW w \in Workers, UNCHANGED <<ingested, planVars, executions>>, TypeOK', CallIsSound(w)',
           \A v \in Workers \ {w} :
               pc'[v] = pc[v] /\ cur'[v] = cur[v] /\ found'[v] = found[v] /\ saving'[v] = saving[v]
    PROVE  Inv'
<1>1. \A v \in Workers : CallIsSound(v)'
  BY WaitingCall DEF Inv, planVars
<1> QED
  BY <1>1 DEF Inv, planVars, Sound, UnfinishedHuntIsUnblocked, NoHuntIsStranded

-----------------------------------------------------------------------------
\* save_hunt commits: the row it inserts or has seen is the plan's result, and
\* the columns it writes release the plan.
LEMMA CommitStep ==
    ASSUME Inv, NEW w \in Workers, SaveCommit(w)
    PROVE  Inv'
<1> USE HuntAssumption
<1> DEFINE p     == cur[w]
           x     == found[w]
           write == saving[w].plan
<1>1. TypeOK /\ p \in Plans /\ Sound(x) /\ x.plan = p /\ (saving[w].insert \/ x \in executions)
  BY DEF Inv, SaveCommit, CallIsSound
<1>2. executions' = executions \cup {x} /\ ingested' = ingested
  BY <1>1 DEF SaveCommit
<1>3. /\ status' = IF write THEN [status EXCEPT ![p] = "COMPLETED"] ELSE status
      /\ lease' = IF write THEN [lease EXCEPT ![p] = NoLease] ELSE lease
      /\ \/ worker' = IF write THEN [worker EXCEPT ![p] = None] ELSE worker
         \/ worker' = IF write THEN [Retired(w) EXCEPT ![p] = None] ELSE Retired(w)
  BY DEF SaveCommit
<1>4. /\ pc' = [pc EXCEPT ![w] = "loop"] \/ pc' = [pc EXCEPT ![w] = "idle"]
      /\ cur' = [cur EXCEPT ![w] = None]
      /\ found' = [found EXCEPT ![w] = None]
      /\ saving' = [saving EXCEPT ![w] = NoWrite]
      /\ todo' = todo \/ todo' = [todo EXCEPT ![w] = {}]
      /\ recovering' = recovering \/ recovering' = [recovering EXCEPT ![w] = FALSE]
  BY DEF SaveCommit, Leave
<1>5. status' \in [Plans -> Statuses] /\ lease' \in [Plans -> NoLease..LeaseTicks]
      /\ worker' \in [Plans -> Workers \cup {None, Gone}]
  <2> DEFINE retired == Retired(w)
  <2>1. retired \in [Plans -> Workers \cup {None, Gone}]
    BY <1>1 DEF TypeOK, Retired
  <2> HIDE DEF retired
  <2>2. worker' \in [Plans -> Workers \cup {None, Gone}]
    BY <1>1, <1>3, <2>1 DEF TypeOK, retired
  <2> QED
    BY <1>1, <1>3, <2>2 DEF TypeOK, Statuses, NoLease
<1>6. /\ pc' \in [Workers -> Locations] /\ cur' \in [Workers -> Plans \cup {None}]
      /\ found' \in [Workers -> Execution \cup {None}] /\ todo' \in [Workers -> SUBSET Plans]
  BY <1>1, <1>4 DEF TypeOK, Locations
<1>7. recovering' \in [Workers -> BOOLEAN] /\ saving' \in [Workers -> Write]
  BY <1>1, <1>4 DEF TypeOK, Write, NoWrite
<1>8. TypeOK'
  BY <1>1, <1>2, <1>5, <1>6, <1>7 DEF TypeOK, Sound
<1>9. ASSUME NEW v \in Workers
      PROVE  CallIsSound(v)'
  <2>1. CASE v = w
    BY <1>1, <1>4, <2>1 DEF TypeOK, CallIsSound
  <2>2. CASE v # w
    <3>1. \A q \in Plans : status[q] = "COMPLETED" => status'[q] = "COMPLETED"
      BY <1>1, <1>3 DEF TypeOK
    <3> QED
      BY <1>1, <1>2, <1>4, <2>2, <3>1, WaitingCall DEF Inv, TypeOK
  <2> QED
    BY <2>1, <2>2
<1>10. \A y \in executions' : Sound(y)'
  BY <1>1, <1>2 DEF Inv, Sound
<1>11. \A q \in Plans : status'[q] = "COMPLETED" => \E y \in executions' : y.plan = q
  BY <1>1, <1>2, <1>3 DEF Inv, TypeOK
<1>12. UnfinishedHuntIsUnblocked'
  <2>1. write \/ status[p] = "COMPLETED"
    BY DEF Inv, CallIsSound, SaveCommit
  <2>2. status'[p] = "COMPLETED" /\ \A q \in Plans : status[q] = "COMPLETED" => status'[q] = "COMPLETED"
    BY <1>1, <1>3, <2>1 DEF TypeOK
  <2>3. \A y \in executions : y.plan \in Plans /\ status[y.plan] = "COMPLETED"
    BY DEF Inv, Sound, Execution, UnfinishedHuntIsUnblocked
  <2> QED
    BY <1>1, <1>2, <2>2, <2>3 DEF UnfinishedHuntIsUnblocked
<1>13. NoHuntIsStranded'
  <2> DEFINE retired == Retired(w)
  <2>1. /\ retired \in [Plans -> Workers \cup {None, Gone}]
        /\ \A q \in Plans : retired[q] = worker[q] \/ (worker[q] # None /\ retired[q] = Gone)
    BY <1>1 DEF TypeOK, Retired
  <2>2. worker' = (IF write THEN [worker EXCEPT ![p] = None] ELSE worker)
        \/ worker' = (IF write THEN [retired EXCEPT ![p] = None] ELSE retired)
    BY <1>3
  <2> HIDE DEF retired
  <2>3. ASSUME NEW q \in Plans
        PROVE  IF write /\ q = p THEN worker'[q] = None
               ELSE worker'[q] = worker[q] \/ (worker[q] # None /\ worker'[q] # None)
    BY <1>1, <2>1, <2>2 DEF TypeOK
  <2>4. ASSUME NEW q \in Plans
        PROVE  /\ status'[q] = IF write /\ q = p THEN "COMPLETED" ELSE status[q]
               /\ lease'[q] = IF write /\ q = p THEN NoLease ELSE lease[q]
    BY <1>1, <1>3 DEF TypeOK
  <2> QED
    BY <2>3, <2>4 DEF Inv, NoHuntIsStranded
<1> QED
  BY <1>8, <1>9, <1>10, <1>11, <1>12, <1>13 DEF Inv

\* Any other step of a call, or the start of one.
LEMMA CallStepInv ==
    ASSUME Inv, NEW w \in Workers,
           (\E p \in Plans : RequestHunt(w, p)) \/ StartRecovery(w) \/ CallStep(w) \/ Die(w)
    PROVE  Inv'
<1> USE HuntAssumption
<1>t. TypeOK /\ CallIsSound(w)
  BY DEF Inv
<1>1. ASSUME NEW p \in Plans, RequestHunt(w, p)
      PROVE  Inv'
  <2>1. TypeOK'
    BY <1>1, <1>t DEF RequestHunt, TypeOK, Statuses, Locations
  <2>2. \A v \in Workers : CallIsSound(v)'
    BY <1>1, <1>t DEF RequestHunt, Inv, TypeOK, CallIsSound, Sound
  <2>3. NoHuntIsStranded' /\ \A q \in Plans : status'[q] = "COMPLETED" => status[q] = "COMPLETED"
    BY <1>1, <1>t DEF RequestHunt, Inv, TypeOK, NoHuntIsStranded
  <2> QED
    BY <1>1, <2>1, <2>2, <2>3 DEF RequestHunt, Inv, Sound, UnfinishedHuntIsUnblocked
<1>2. CASE StartRecovery(w)
  <2>1. TypeOK' /\ CallIsSound(w)'
    BY <1>2, <1>t DEF StartRecovery, TypeOK, Locations, planVars, CallIsSound
  <2> QED
    BY <1>2, <1>t, <2>1, CallOnly DEF StartRecovery, TypeOK
<1>3. CASE RecoverNext(w)
  <2>1. TypeOK' /\ CallIsSound(w)'
    BY <1>3, <1>t DEF RecoverNext, TypeOK, Locations, planVars, CallIsSound
  <2> QED
    BY <1>3, <1>t, <2>1, CallOnly DEF RecoverNext, TypeOK
<1>4. CASE RecoveryDone(w) \/ RunTooLarge(w) \/ SaveRefused(w) \/ SaveConflict(w) \/ Die(w)
  BY <1>4, RaiseStep DEF RecoveryDone, RunTooLarge, SaveRefused, SaveConflict, Die
<1>5. CASE ClaimCompleted(w)
  <2>1. TypeOK' /\ CallIsSound(w)'
    BY <1>5, <1>t DEF ClaimCompleted, TypeOK, Locations, planVars, CallIsSound
  <2> QED
    BY <1>5, <1>t, <2>1, CallOnly DEF ClaimCompleted, TypeOK
<1>6. CASE ClaimHunt(w)
  <2>1. cur[w] \in Plans
    BY <1>6, <1>t DEF ClaimHunt, CallIsSound
  <2>2. TypeOK'
    BY <1>6, <1>t, <2>1 DEF ClaimHunt, TypeOK, Statuses, Locations, NoLease
  <2>3. \A v \in Workers : CallIsSound(v)'
    BY <1>6, <1>t DEF ClaimHunt, Inv, TypeOK, CallIsSound, Sound
  <2>4. NoHuntIsStranded' /\ \A q \in Plans : status'[q] = "COMPLETED" => status[q] = "COMPLETED"
    BY <1>6, <1>t, <2>1 DEF ClaimHunt, Inv, TypeOK, NoHuntIsStranded, NoLease
  <2> QED
    BY <1>6, <2>2, <2>3, <2>4 DEF ClaimHunt, Inv, Sound, UnfinishedHuntIsUnblocked
<1>7. CASE ClaimRefused(w)
  <2>1. CASE Raise(w)
    BY <2>1, RaiseStep
  <2>2. CASE ~Raise(w)
    <3>1. /\ pc' = [pc EXCEPT ![w] = "loop"] /\ cur' = [cur EXCEPT ![w] = None]
          /\ UNCHANGED <<ingested, planVars, executions, todo, recovering, found, saving>>
      BY <1>7, <2>2 DEF ClaimRefused
    <3>2. TypeOK' /\ CallIsSound(w)'
      BY <1>t, <3>1 DEF TypeOK, Locations, planVars, CallIsSound
    <3> QED
      BY <1>t, <3>1, <3>2, CallOnly DEF TypeOK
  <2> QED
    BY <2>1, <2>2
<1>8. CASE RunHunt(w)
  <2>1. cur[w] \in Plans
    BY <1>8, <1>t DEF RunHunt, CallIsSound
  <2>2. Sound(HuntResult(cur[w])) /\ HuntResult(cur[w]).plan = cur[w] /\ HuntResult(cur[w]) \in Execution
    BY <1>t, <2>1, HuntResultIsSound DEF Sound
  <2>3. TypeOK'
    BY <1>8, <1>t, <2>2 DEF RunHunt, TypeOK, Locations, planVars
  <2>4. CallIsSound(w)'
    BY <1>8, <1>t, <2>1, <2>2 DEF RunHunt, TypeOK, CallIsSound, Sound, planVars
  <2> QED
    BY <1>8, <1>t, <2>3, <2>4, CallOnly DEF RunHunt, TypeOK
<1>9. CASE SaveRead(w)
  <2> DEFINE new == found[w] \notin executions
             own == status[cur[w]] # "COMPLETED"
  <2>1. new \in BOOLEAN /\ own \in BOOLEAN
    OBVIOUS
  <2>2. /\ pc[w] = "save" /\ pc' = [pc EXCEPT ![w] = "commit"]
        /\ saving' = [saving EXCEPT ![w] = [insert |-> new, plan |-> own]]
        /\ UNCHANGED <<ingested, planVars, executions, cur, todo, recovering, found>>
    BY <1>9 DEF SaveRead
  <2>3. (new \/ found[w] \in executions) /\ (own \/ status[cur[w]] = "COMPLETED")
    OBVIOUS
  <2> HIDE DEF new, own
  <2>4. TypeOK'
    BY <1>t, <2>1, <2>2 DEF TypeOK, Locations, planVars, Write
  <2>5. CallIsSound(w)'
    BY <1>t, <2>1, <2>2, <2>3 DEF TypeOK, CallIsSound, Sound, planVars
  <2> QED
    BY <1>t, <2>2, <2>4, <2>5, CallOnly DEF TypeOK
<1> QED
  BY <1>1, <1>2, <1>3, <1>4, <1>5, <1>6, <1>7, <1>8, <1>9, CommitStep DEF CallStep

\* New events, and time: a lease that runs out ends at zero, never at none.
LEMMA WorldStep ==
    ASSUME Inv, (\E e \in Events : Ingest(e)) \/ Tick \/ UNCHANGED vars
    PROVE  Inv'
<1>1. ASSUME NEW e \in Events, Ingest(e)
      PROVE  Inv'
  BY <1>1 DEF Ingest, Inv, TypeOK, CallIsSound, Sound, planVars, callVars, UnfinishedHuntIsUnblocked, NoHuntIsStranded
<1>2. CASE Tick
  <2>1. TypeOK'
    BY <1>2, HuntAssumption DEF Tick, Inv, TypeOK, callVars, NoLease
  <2>2. NoHuntIsStranded'
    BY <1>2, HuntAssumption DEF Tick, Inv, TypeOK, NoHuntIsStranded, NoLease
  <2> QED
    BY <1>2, <2>1, <2>2 DEF Tick, Inv, CallIsSound, Sound, callVars, UnfinishedHuntIsUnblocked
<1>3. CASE UNCHANGED vars
  BY <1>3 DEF vars, planVars, callVars, Inv, TypeOK, CallIsSound, Sound, UnfinishedHuntIsUnblocked, NoHuntIsStranded
<1> QED
  BY <1>1, <1>2, <1>3

LEMMA InitInv ==
    Init => Inv
<1> SUFFICES ASSUME Init PROVE Inv
  OBVIOUS
<1>1. TypeOK
  BY HuntAssumption DEF Init, TypeOK, Statuses, NoLease, Locations, Write, NoWrite
<1> QED
  BY <1>1 DEF Init, Inv, CallIsSound, UnfinishedHuntIsUnblocked, NoHuntIsStranded

LEMMA InvAlways ==
    Spec => []Inv
<1>1. Inv /\ [Next]_vars => Inv'
  BY CallStepInv, WorldStep DEF Next
<1> QED
  BY InitInv, <1>1, PTL DEF Spec

-----------------------------------------------------------------------------
\* save_hunt: a completed hunt has a stored execution, over ingested events.
THEOREM CompletedHuntHasResultAlways ==
    Spec => []CompletedHuntHasResult
<1>1. Inv => CompletedHuntHasResult
  BY DEF Inv, Sound, CompletedHuntHasResult
<1> QED
  BY InvAlways, <1>1, PTL

\* save_hunt: a hunt that is not completed has no execution, so none that was
\* stored earlier can refuse its result.
THEOREM UnfinishedHuntIsUnblockedAlways ==
    Spec => []UnfinishedHuntIsUnblocked
<1>1. Inv => UnfinishedHuntIsUnblocked
  BY DEF Inv
<1> QED
  BY InvAlways, <1>1, PTL

\* claim_hunt, save_hunt: status, worker and lease agree, so that no hunt is
\* claimed for ever.
THEOREM NoHuntIsStrandedAlways ==
    Spec => []NoHuntIsStranded
<1>1. Inv => NoHuntIsStranded
  BY DEF Inv
<1> QED
  BY InvAlways, <1>1, PTL

\* claim_hunt: a live lease passes to nobody else, and a completed hunt is
\* never claimed or reopened.
THEOREM HuntIsNotTakenAlways ==
    Spec => HuntIsNotTaken
<1> DEFINE Kept(p) == /\ status[p] = "CLAIMED" /\ lease[p] > 0 => worker'[p] \in {worker[p], None, Gone}
                      /\ status[p] = "COMPLETED" => status'[p] = "COMPLETED"
<1>1. ASSUME Inv, [Next]_vars, NEW p \in Plans
      PROVE  Kept(p)
  <2>t. TypeOK /\ \A w \in Workers : CallIsSound(w)
    BY <1>1 DEF Inv
  <2>1. ASSUME NEW w \in Workers, NEW q \in Plans, RequestHunt(w, q)
        PROVE  Kept(p)
    BY <2>1, <2>t DEF RequestHunt, TypeOK
  <2>2. ASSUME UNCHANGED planVars
        PROVE  Kept(p)
    BY <2>2 DEF planVars
  <2>3. ASSUME NEW w \in Workers, Raise(w)
        PROVE  Kept(p)
    BY <2>3, <2>t DEF Raise, Retired, TypeOK
  <2>4. ASSUME NEW w \in Workers, ClaimHunt(w)
        PROVE  Kept(p)
    BY <2>4, <2>t DEF ClaimHunt, HeldByOther, TypeOK
  <2>5. ASSUME NEW w \in Workers, SaveCommit(w)
        PROVE  Kept(p)
    <3>1. worker'[p] \in {worker[p], None, Gone}
      BY <2>5, <2>t DEF SaveCommit, Retired, TypeOK
    <3>2. status[p] = "COMPLETED" => status'[p] = "COMPLETED"
      BY <2>5, <2>t DEF SaveCommit, TypeOK
    <3> QED
      BY <3>1, <3>2
  <2>6. ASSUME NEW w \in Workers, CallStep(w)
        PROVE  Kept(p)
    BY <2>6, <2>2, <2>3, <2>4, <2>5
    DEF CallStep, RecoverNext, RecoveryDone, ClaimCompleted, ClaimRefused, RunHunt, RunTooLarge, SaveRead, SaveRefused,
        SaveConflict
  <2>7. ASSUME NEW w \in Workers, StartRecovery(w) \/ Die(w)
        PROVE  Kept(p)
    BY <2>7, <2>2, <2>3 DEF StartRecovery, Die
  <2>8. CASE Tick \/ UNCHANGED vars \/ \E e \in Events : Ingest(e)
    BY <2>8, <2>2 DEF Tick, vars, Ingest, planVars
  <2> QED
    BY <1>1, <2>1, <2>6, <2>7, <2>8 DEF Next
<1>2. Inv /\ [Next]_vars => [\A p \in Plans : Kept(p)]_vars
  BY <1>1
<1> QED
  BY InvAlways, <1>2, PTL DEF Spec, HuntIsNotTaken
=============================================================================
