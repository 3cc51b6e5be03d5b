-------------------------- MODULE DetectionLedger --------------------------
(***************************************************************************)
(* What the durable event-to-detection handoff promises to its readers,    *)
(* without workers, leases, crashes or transactions: every accepted event  *)
(* has an open entry, detection outputs are appended to a permanent store, *)
(* and an entry is closed only over outputs that are already stored and    *)
(* that evaluated the event against every rule that applies to it.  A      *)
(* closed entry may be opened again; what it recorded stays.               *)
(***************************************************************************)
EXTENDS Naturals

CONSTANTS Events,   \* canonical security events of one tenant/case/target
          Rules,    \* active detection rules
          Applies   \* Applies[r]: the events whose source family rule r supports

VARIABLES accepted, \* events with a durable work item
          closed,   \* events whose work item is complete
          stored,   \* detection runs in the database
          recorded  \* recorded[e]: the runs named by e's work item

ledgerVars == <<accepted, closed, stored, recorded>>

\* A detection run is identified by its rule and the exact events it read
\* (the stable run_id of the engine).
DetectionRun == [rule : Rules, input : SUBSET Events]

\* R evaluates event e with every rule that applies to it.
Evaluates(R, e) ==
    \A r \in Rules : e \in Applies[r] => \E d \in R : d.rule = r /\ e \in d.input

LedgerInit ==
    /\ accepted = {}
    /\ closed = {}
    /\ stored = {}
    /\ recorded = [e \in Events |-> {}]

Accept(e) ==
    /\ accepted' = accepted \cup {e}
    /\ UNCHANGED <<closed, stored, recorded>>

Store(d) ==
    /\ stored' = stored \cup {d}
    /\ UNCHANGED <<accepted, closed, recorded>>

Close(e, R) ==
    /\ e \in accepted
    /\ R \subseteq stored
    /\ Evaluates(R, e)
    /\ closed' = closed \cup {e}
    /\ recorded' = [recorded EXCEPT ![e] = R]
    /\ UNCHANGED <<accepted, stored>>

Reopen(e) ==
    /\ closed' = closed \ {e}
    /\ UNCHANGED <<accepted, stored, recorded>>

LedgerNext ==
    \/ \E e \in Events : Accept(e) \/ Reopen(e)
    \/ \E d \in DetectionRun : Store(d)
    \/ \E e \in Events, R \in SUBSET DetectionRun : Close(e, R)

LedgerSpec == LedgerInit /\ [][LedgerNext]_ledgerVars
=============================================================================
