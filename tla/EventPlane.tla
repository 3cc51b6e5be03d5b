----------------------------- MODULE EventPlane -----------------------------
(***************************************************************************)
(* The security event plane and the evidence its events refer to.  An      *)
(* event's identity is derived from source, source record, time and        *)
(* digest; everything else it says (scope, actor, outcome, evidence) is    *)
(* its content.  Arrival time and transport order are part of neither.     *)
(***************************************************************************)
CONSTANTS Outputs, \* what commands and tools print, stored as evidence
          None

VARIABLES plane,   \* SecurityEventPlane._events
          evidence \* contents of the evidence store

EventFields == {"source", "record", "occurred", "digest", "content"}

\* derive_event_id.
EventId(e) == <<e.source, e.record, e.occurred, e.digest>>

PlaneInit == plane = {} /\ evidence = {}

\* The identity is taken by an event with other content: ingest raises.
IdentityTaken(e) == \E x \in plane : EventId(x) = EventId(e) /\ x # e

\* ingest: a new event is stored, a replay of a stored one changes nothing.
IngestEvent(e) ==
    /\ ~IdentityTaken(e)
    /\ plane' = plane \cup {e}

PlaneTypeOK ==
    /\ \A e \in plane : DOMAIN e = EventFields
    /\ evidence \subseteq Outputs
=============================================================================
