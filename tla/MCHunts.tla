------------------------------ MODULE MCHunts ------------------------------
EXTENDS Hunts, TLC

CONSTANTS p1, p2, e1, e2

\* p1's window holds both events and its query selects the second; p2 takes
\* one event at most, so its run can fail.
MCInWindow  == (p1 :> {e1, e2}) @@ (p2 :> {e1, e2})
MCSelected  == (p1 :> {e2}) @@ (p2 :> {})
MCMaxEvents == (p1 :> 2) @@ (p2 :> 1)
=============================================================================
