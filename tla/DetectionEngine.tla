-------------------------- MODULE DetectionEngine --------------------------
(***************************************************************************)
(* What the detection engine makes of the events a worker loaded: a signal *)
(* per matching event, or a signal per window of matching events that      *)
(* share their correlation keys and reach a threshold.  Runs, evaluations  *)
(* and signals are persisted in one transaction under identities derived   *)
(* from rule and events, so the stored signals are those of the stored     *)
(* runs.  Workers load events at different times, in which late events     *)
(* arrive between earlier ones.                                            *)
(***************************************************************************)
EXTENDS DetectionWork

CONSTANTS
    Matched,       \* Matched[r]: events that satisfy the rule's predicates
    CountRules,    \* COUNT_OVER_WINDOW rules; the others are EVENT_MATCH
    KeyOf,         \* KeyOf[r][e]: values of the correlation keys, or None
    OccurredAt,    \* occurred_at of an event
    EventId,       \* event_id, in its order
    WindowSeconds,
    Threshold

ASSUME EngineAssumption ==
    /\ IsFiniteSet(Events)
    /\ CountRules \subseteq Rules
    /\ Matched \in [Rules -> SUBSET Events]
    /\ OccurredAt \in [Events -> Int] /\ EventId \in [Events -> Int]
    /\ WindowSeconds \in [CountRules -> Nat \ {0}]
    /\ Threshold \in [CountRules -> Nat \ {0, 1}]

\* The matching events of a run's input, and those of them that have a key.
Matching(d) == d.input \cap Matched[d.rule]
Keyed(d)    == {e \in Matching(d) : KeyOf[d.rule][e] # None}

\* The order in which a group is sorted.
Precedes(c, e) ==
    \/ OccurredAt[c] < OccurredAt[e]
    \/ OccurredAt[c] = OccurredAt[e] /\ EventId[c] <= EventId[e]

\* Mutant of Window: the bound itself is outside the window.
WindowExclusive(d, e) ==
    {c \in Keyed(d) : /\ KeyOf[d.rule][c] = KeyOf[d.rule][e]
                      /\ Precedes(c, e)
                      /\ OccurredAt[e] - OccurredAt[c] < WindowSeconds[d.rule]}

\* The window that ends with e: its group up to e, back to the bound.
Window(d, e) ==
    {c \in Keyed(d) : /\ KeyOf[d.rule][c] = KeyOf[d.rule][e]
                      /\ Precedes(c, e)
                      /\ OccurredAt[e] - OccurredAt[c] <= WindowSeconds[d.rule]}

\* The event sets of the signals of a run.
SignalsOf(d) ==
    IF d.rule \in CountRules
    THEN {S \in {Window(d, e) : e \in Keyed(d)} : Cardinality(S) >= Threshold[d.rule]}
    ELSE {{e} : e \in Matching(d)}

\* The signals in the database: persist_detection_outputs saves a run with its
\* evaluations and signals, and replays what is there.
StoredSignals == UNION {{[rule |-> d.rule, events |-> S] : S \in SignalsOf(d)} : d \in runs}

-----------------------------------------------------------------------------
\* The events of S make rule r fire when the last of them, e, has occurred.
Fires(r, S, e) ==
    /\ S \subseteq Applies[r] \cap Matched[r]
    /\ IF r \in CountRules
       THEN /\ Cardinality(S) >= Threshold[r]
            /\ \A c \in S : /\ KeyOf[r][c] # None /\ KeyOf[r][c] = KeyOf[r][e]
                            /\ Precedes(c, e)
                            /\ OccurredAt[e] <= OccurredAt[c] + WindowSeconds[r]
       ELSE S = {e}

\* However the events of a burst arrive, and although each may be evaluated by
\* another worker that has loaded only some of them, once their items are
\* completed a stored signal covers the whole burst: the run that loaded last
\* has seen them all (_process_claimed, load_events, DetectionEngine.run).
EveryBurstIsSignalled ==
    \A r \in Rules, S \in SUBSET {e \in Events : status[e] = "COMPLETED"} :
        \A e \in S : Fires(r, S, e) =>
            \E g \in StoredSignals : g.rule = r /\ S \subseteq g.events
=============================================================================
