------------------------------- MODULE Patrol -------------------------------
(***************************************************************************)
(* Continuous patrol: two snapshots of a target are diffed, only the       *)
(* surfaces that changed are assessed, and findings are opened, changed or *)
(* resolved in the finding store.  The assessment is the caller's and may  *)
(* raise part way through; what was applied before it stays, and the       *)
(* caller repeats the run with the same two snapshots.                     *)
(*                                                                         *)
(* An affected surface is a key of a security surface ("mcp_tools:deploy") *)
(* or the security surface as a whole ("mcp_tools:$"), which is diffed so  *)
(* where it is anything but a dictionary.                                  *)
(***************************************************************************)
EXTENDS Naturals

CONSTANTS
    NSurfaces,  \* affected surfaces, numbered in the order of their names
    WholeOf,    \* the whole ("$") of the security surface it belongs to
    Values,     \* what a snapshot may say of a surface
    Null,       \* the value null, one of them
    Absent,     \* no such key; of a whole: a dictionary, or not there at all
    Conditions, \* condition keys
    SurfaceOf,  \* the surface a condition is about
    Assess,     \* candidates of a surface with a value: condition to adjudicated
    None

Surfaces == 1..NSurfaces
Wholes   == {s \in Surfaces : WholeOf[s] = s}

\* The assessment is asked of keys that are there, and of wholes.
ASSUME PatrolAssumption ==
    /\ NSurfaces \in Nat
    /\ WholeOf \in [Surfaces -> Surfaces] /\ \A s \in Surfaces : WholeOf[s] \in Wholes
    /\ Null \in Values /\ Absent \notin Values /\ None \notin {"OPEN", "CHANGED", "RESOLVED"}
    /\ SurfaceOf \in [Conditions -> Surfaces]
    /\ \A s \in Surfaces, v \in Values \cup {Absent} :
         \A c \in DOMAIN Assess[s, v] : c \in Conditions /\ SurfaceOf[c] = s /\ Assess[s, v][c] \in BOOLEAN
    /\ \A s \in Surfaces \ Wholes : DOMAIN Assess[s, Absent] = {}

VARIABLES
    baseline, \* the snapshot of the last run that ended
    current,  \* the snapshot to be patrolled
    findings, \* InMemoryFindingStore: a state for each condition
    retry,    \* a run of current has raised
    looked    \* history: surfaces that a run's delta took to their baseline state

patrolVars == <<baseline, current, findings, retry, looked>>

FindingStates == {"OPEN", "CHANGED", "RESOLVED"}
Unresolved    == {"OPEN", "CHANGED"}

\* A security surface is a dictionary of keys or one value.
Snapshots ==
    {t \in [Surfaces -> Values \cup {Absent}] :
       \A s \in Surfaces \ Wholes : t[s] # Absent => t[WholeOf[s]] = Absent}

\* The candidates of the assessment, and those it adjudicated.
Candidates(snapshot, s)  == DOMAIN Assess[s, snapshot[s]]
Adjudicated(snapshot, s) == {c \in Candidates(snapshot, s) : Assess[s, snapshot[s]][c]}

PatrolInit ==
    /\ baseline \in Snapshots
    /\ current = baseline
    /\ findings = [c \in Conditions |-> None]
    /\ retry = FALSE
    /\ looked = {}

-----------------------------------------------------------------------------
\* before.get(key), after.get(key): a key that is not there reads as null.
Get(snapshot, s) == IF snapshot[s] = Absent THEN Null ELSE snapshot[s]

\* diff_snapshots of a key, where the security surface is a dictionary in both.
KeyDelta(s) ==
    IF Get(baseline, s) = Get(current, s) THEN "UNCHANGED"
    ELSE IF baseline[s] = Absent THEN "NEW"
    ELSE IF current[s] = Absent THEN "RESOLVED"
    ELSE "CHANGED"

\* diff_snapshots: where it is a dictionary in one of them at most, the keys
\* have no delta and the whole has one, CHANGED, if anything differs.
DeltaState(s) ==
    IF s \in Wholes THEN IF baseline[s] = current[s] THEN "UNCHANGED" ELSE "CHANGED"
    ELSE IF baseline[WholeOf[s]] = Absent /\ current[WholeOf[s]] = Absent THEN KeyDelta(s)
    ELSE "UNCHANGED"

\* resolve_surface: for_surface yields unresolved findings only.
Resolved(state) == IF state \in Unresolved THEN "RESOLVED" ELSE state

\* Mutant of Reassessed: only findings without a record are opened.
ReassessedOnce(c, state) ==
    LET s == SurfaceOf[c]
    IN  IF c \in Adjudicated(current, s)
        THEN IF state = None THEN "OPEN" ELSE state
        ELSE IF DeltaState(s) = "CHANGED" /\ Candidates(current, s) = {} THEN Resolved(state)
        ELSE state

\* A NEW or CHANGED surface: adjudicated candidates are upserted, and a changed
\* surface without any candidate is resolved.
Reassessed(c, state) ==
    LET s == SurfaceOf[c]
    IN  IF c \in Adjudicated(current, s)
        THEN IF DeltaState(s) = "NEW" THEN "OPEN" ELSE "CHANGED"
        ELSE IF DeltaState(s) = "CHANGED" /\ Candidates(current, s) = {} THEN Resolved(state)
        ELSE state

\* Mutant of Patrolled: a surface that is already found is toggled.
PatrolledToggling(store, k) ==
    [c \in Conditions |->
        IF SurfaceOf[c] > k \/ DeltaState(SurfaceOf[c]) = "UNCHANGED" THEN store[c]
        ELSE IF DeltaState(SurfaceOf[c]) = "RESOLVED" THEN Resolved(store[c])
        ELSE IF store[c] = "OPEN" THEN "CHANGED" ELSE Reassessed(c, store[c])]

\* The store after the loop of run() has treated the deltas of surfaces 1..k,
\* in the order of the sorted deltas.
Patrolled(store, k) ==
    [c \in Conditions |->
        CASE SurfaceOf[c] > k \/ DeltaState(SurfaceOf[c]) = "UNCHANGED" -> store[c]
          [] SurfaceOf[c] =< k /\ DeltaState(SurfaceOf[c]) = "RESOLVED"  -> Resolved(store[c])
          [] OTHER -> Reassessed(c, store[c])]

\* The target is observed again.
Observe(snapshot) ==
    /\ ~retry
    /\ current' = snapshot
    /\ UNCHANGED <<baseline, findings, retry, looked>>

\* run returns; the caller goes on from this snapshot.
Run ==
    /\ findings' = Patrolled(findings, NSurfaces)
    /\ baseline' = current
    /\ retry' = FALSE
    /\ looked' = {s \in Surfaces : DeltaState(s) # "UNCHANGED"
                                   \/ (s \in looked /\ baseline[s] = current[s])}
    /\ UNCHANGED current

\* assess raises at the delta of surface k.
RunRaises(k) ==
    /\ DeltaState(k) \in {"NEW", "CHANGED"}
    /\ findings' = Patrolled(findings, k - 1)
    /\ retry' = TRUE
    /\ UNCHANGED <<baseline, current, looked>>

-----------------------------------------------------------------------------
PatrolTypeOK ==
    /\ baseline \in Snapshots /\ current \in Snapshots
    /\ findings \in [Conditions -> FindingStates \cup {None}]
    /\ retry \in BOOLEAN
    /\ looked \subseteq Surfaces

\* Between runs the store follows the patrolled snapshot on every surface that
\* came to its state through a delta: what the assessment adjudicates there is
\* unresolved however often the condition went and came back, and nothing is
\* unresolved on a surface that is gone (run, upsert, resolve_surface).  Not
\* every change has a delta: a null key that is removed, and the keys of a
\* security surface that stops being a dictionary or becomes one, have none,
\* and their findings stay as they are until the next delta.
FindingsFollowTheTarget ==
    ~retry => \A c \in Conditions : SurfaceOf[c] \in looked =>
        /\ c \in Adjudicated(baseline, SurfaceOf[c]) => findings[c] \in Unresolved
        /\ baseline[SurfaceOf[c]] = Absent /\ Candidates(baseline, SurfaceOf[c]) = {}
             => findings[c] \notin Unresolved

\* A run that raised part way, repeated with the same snapshots, leaves the
\* findings one undisturbed run would have left (run; the replay of
\* test_continuous_patrol_is_targeted_and_preserves_finding_identity).
RunIsRepeatable ==
    \A k \in 0..NSurfaces :
        Patrolled(Patrolled(findings, k), NSurfaces) = Patrolled(findings, NSurfaces)
=============================================================================
