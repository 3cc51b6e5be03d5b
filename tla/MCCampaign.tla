----------------------------- MODULE MCCampaign -----------------------------
EXTENDS Campaign, TLC

CONSTANTS v1, c1, c2, c3, c4, n1, n2, n3, n4

\* One security surface: its whole and two keys.  Key 2 has two conditions, one
\* of them still suspected of a null value; key 3 has one that is there while the
\* value is null.
MCWholeOf   == [s \in 1..3 |-> 1]
MCSurfaceOf == c1 :> 2 @@ c2 :> 2 @@ c3 :> 3 @@ c4 :> 1
NoCandidate == [c \in {} |-> FALSE]
MCAssess ==
    [x \in (1..3) \X (Values \cup {Absent}) |->
        CASE x = <<2, v1>>   -> c1 :> TRUE @@ c2 :> TRUE
          [] x = <<2, Null>> -> c2 :> FALSE
          [] x = <<3, Null>> -> c3 :> TRUE
          [] x = <<1, v1>>   -> c4 :> TRUE
          [] OTHER -> NoCandidate]

\* An agent, a server and two tools, one of them also a start: every choice of
\* edges from a menu with cycles, detours and a tool behind a tool.
MCEdges == {<<n1, n2>>, <<n2, n1>>, <<n2, n3>>, <<n3, n4>>}
MCGraphs == {[nodes |-> {n1, n2, n3, n4}, edges |-> E, starts |-> {n1, n3}, ends |-> {n3, n4}]
               : E \in SUBSET MCEdges}
=============================================================================
