------------------------- MODULE ContinuousSecurity -------------------------
(***************************************************************************)
(* The edge runner and the agent gateway of one process, reporting to one  *)
(* event plane and storing into one evidence store, called one at a time.  *)
(***************************************************************************)
EXTENDS EdgeRunner, Gateway

allVars == <<plane, evidence, sandboxVars, runnerVars, gatewayVars>>

Init == PlaneInit /\ SandboxInit /\ RunnerInit /\ GatewayInit

Next ==
    \/ RunnerNext /\ UNCHANGED gatewayVars
    \/ stage = "idle" /\ GatewayNext /\ UNCHANGED <<sandboxVars, runnerVars>>

Spec == Init /\ [][Next]_allVars

\* submit goes on, and its wait runs out, unless the process stops; a command
\* need not exit, nobody need submit, and the daemon may stay down.
FairSpec == Spec /\ WF_allVars(SubmitStep /\ UNCHANGED gatewayVars)

-----------------------------------------------------------------------------
\* The runner's, the gateway's and the plane's state keep their types.
TypeOK == PlaneTypeOK /\ RunnerTypeOK /\ GatewayTypeOK

\* No event refers to an output that is not in the evidence store, whichever
\* of the two reported it and whatever raised in between (submit, complete).
EventsAreBackedByEvidence ==
    /\ \A k \in Keys : receipts[k] # None /\ RunnerEvent(receipts[k]) \in plane
                           => receipts[k].output \in evidence
    /\ \A q \in Requests, o \in Outputs : CompletionEvent(q, o) \in plane => o \in evidence
=============================================================================
