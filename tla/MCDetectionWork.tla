-------------------------- MODULE MCDetectionWork --------------------------
(* Instances of the detection queue and its engine for TLC. *)
EXTENDS DetectionEngine, TLC

CONSTANTS e1, e2, r1, k1

\* One rule that supports the source families of both events and fires for two
\* of them a second apart, which is its window.
MCApplies       == r1 :> {e1, e2}
MCMatched       == r1 :> {e1, e2}
MCCountRules    == {r1}
MCKeyOf         == r1 :> (e1 :> k1 @@ e2 :> k1)
MCOccurredAt    == e1 :> 1 @@ e2 :> 2
MCEventId       == e1 :> 2 @@ e2 :> 1
MCWindowSeconds == r1 :> 1
MCThreshold     == r1 :> 2

\* e1 is claimed often enough to fail, be claimed again and be taken while a
\* stale replay reopens it.
MCMaxAttempts   == e1 :> 3 @@ e2 :> 1

\* One event, for the races.
MCAppliesOne    == r1 :> {e1}
MCMatchedOne    == r1 :> {e1}
MCOccurredAtOne == e1 :> 1
MCEventIdOne    == e1 :> 1
MCMaxAttemptsOne == e1 :> 3
=============================================================================
