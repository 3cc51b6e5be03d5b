----------------------------- MODULE EdgeRunner -----------------------------
(***************************************************************************)
(* ReferenceEdgeRunner.submit: the checks of a signed job, the sandboxed   *)
(* run, and the three writes that follow it in order: evidence, receipt,   *)
(* event.  The runner has no listener: one submit at a time, repeated by   *)
(* its callers.  Receipts and events are in memory; the evidence store and *)
(* the sandbox are services that may fail.                                 *)
(***************************************************************************)
EXTENDS Sandbox

CONSTANT Jobs \* signed jobs that are submitted

\* What distinguishes jobs: the receipt key (tenant and case, job id), the
\* signed content behind job_digest and its time, whether authority, network policy and
\* signature are in order, whether the registered capability and the workload
\* identity match, and what execute's gate says of the capability.
ASSUME JobAssumption ==
    \A j \in Jobs : /\ DOMAIN j = {"scope", "id", "body", "signedAt", "verified", "matches", "permitted"}
                    /\ {j.verified, j.matches, j.permitted} \subseteq BOOLEAN

VARIABLES
    receipts, \* _receipts
    stage,    \* where submit is
    job       \* its argument

runnerVars == <<receipts, stage, job>>

ReceiptKey(j) == <<j.scope, j.id>>
Keys          == {ReceiptKey(j) : j \in Jobs}
Receipt       == [job : Jobs, status : RunStatuses, output : Outputs, box : 1..MaxContainers,
                  cleanupConfirmed : BOOLEAN]
Stages        == {"idle", "execute", "receipt", "event"}

ASSUME NoReceiptAssumption == None \notin Receipt

RunnerInit ==
    /\ receipts = [k \in Keys |-> None]
    /\ stage = "idle" /\ job = None

\* submit returns or raises.
Leave == stage' = "idle" /\ job' = None /\ Return

-----------------------------------------------------------------------------
Stored(j) == receipts[ReceiptKey(j)]

\* The checks of submit, in their order: authority, network policy and
\* signature; then the receipts, where a stored one is answered again, or the
\* job refused if its content differs; then capability, workload identity and
\* the gate of execute.  Neither an answered nor a refused job changes state.
Admitted(j) == j.verified /\ Stored(j) = None /\ j.matches /\ Admits(j.permitted)

Submit(j) ==
    /\ stage = "idle" /\ Admitted(j)
    /\ Execute
    /\ stage' = "execute" /\ job' = j
    /\ UNCHANGED <<plane, evidence, receipts>>

\* execute has raised: "bounded execution refused".
ExecutionFails ==
    /\ stage = "execute" /\ phase = "done" /\ result = Error
    /\ Leave
    /\ UNCHANGED <<plane, evidence, receipts>>

\* Mutant of PutEvidence: the output is stored once the event is reported.
PutEvidenceLater ==
    /\ stage = "execute" /\ phase = "done" /\ result # Error
    /\ stage' = "receipt"
    /\ UNCHANGED <<plane, sandboxVars, evidence, receipts, job>>

\* The scrubbed output goes to the evidence store, under its digest.
PutEvidence ==
    /\ stage = "execute" /\ phase = "done" /\ result # Error
    /\ evidence' = evidence \cup {result.output}
    /\ stage' = "receipt"
    /\ UNCHANGED <<plane, sandboxVars, receipts, job>>

\* The store raises: nothing is recorded and the job may be submitted again.
PutEvidenceFails ==
    /\ stage = "execute" /\ phase = "done" /\ result # Error
    /\ Leave
    /\ UNCHANGED <<plane, evidence, receipts>>

RecordReceipt ==
    /\ stage = "receipt"
    /\ receipts' = [receipts EXCEPT ![ReceiptKey(job)] =
         [job |-> job, status |-> result.status, output |-> result.output, box |-> box,
          cleanupConfirmed |-> TRUE]]
    /\ stage' = "event"
    /\ UNCHANGED <<plane, sandboxVars, evidence, job>>

\* The event of a receipt.  Its identity holds the job's id, time and output,
\* not its scope.
RunnerEvent(r) ==
    [source |-> "secscan-edge-runner", record |-> r.job.id, occurred |-> r.job.signedAt,
     digest |-> r.output, content |-> <<r.job.scope, r.status, r.job.body>>]

\* Mutant of ReportEvent: only completed runs are reported.
ReportCompletedOnly ==
    /\ stage = "event" /\ ~IdentityTaken(RunnerEvent(Stored(job)))
    /\ plane' = IF result.status = "completed" THEN plane \cup {RunnerEvent(Stored(job))} ELSE plane
    /\ Leave
    /\ UNCHANGED <<evidence, receipts>>

ReportEvent ==
    /\ stage = "event"
    /\ IngestEvent(RunnerEvent(Stored(job)))
    /\ Leave
    /\ UNCHANGED <<evidence, receipts>>

\* ingest raises EventIdentityConflict; the receipt stays.
ReportEventFails ==
    /\ stage = "event" /\ IdentityTaken(RunnerEvent(Stored(job)))
    /\ Leave
    /\ UNCHANGED <<plane, evidence, receipts>>

\* The backend's steps inside execute.
SandboxStep ==
    /\ stage = "execute"
    /\ BackendStep \/ \E c \in ExitCodes, o \in Outputs : Exit(c, o)
    /\ UNCHANGED <<plane, evidence, runnerVars>>

\* What submit does without waiting for a command to exit by itself.
SubmitStep ==
    \/ stage = "execute" /\ BackendStep /\ UNCHANGED <<plane, evidence, runnerVars>>
    \/ ExecutionFails \/ PutEvidence \/ PutEvidenceFails \/ RecordReceipt
    \/ ReportEvent \/ ReportEventFails

RunnerNext ==
    \/ \E j \in Jobs : Submit(j)
    \/ SandboxStep
    \/ ExecutionFails \/ PutEvidence \/ PutEvidenceFails \/ RecordReceipt
    \/ ReportEvent \/ ReportEventFails
    \/ DaemonChanges /\ UNCHANGED <<plane, evidence, runnerVars>>

-----------------------------------------------------------------------------
RunnerTypeOK ==
    /\ SandboxTypeOK
    /\ receipts \in [Keys -> Receipt \cup {None}]
    /\ stage \in Stages
    /\ job \in Jobs \cup {None}

\* Every receipt has its own event on the plane once its submit is over, or was
\* displaced: the event is ingested after the receipt and a replay never
\* ingests it, so a refused event is lost, and the only one that can be refused
\* has the id, time and output of a job in another scope whose own receipt is
\* stored and reported (submit, ingest).
ReceiptIsReportedOrDisplaced ==
    \A k \in Keys :
        receipts[k] # None /\ ~(stage = "event" /\ ReceiptKey(job) = k)
            => \/ RunnerEvent(receipts[k]) \in plane
               \/ \E c \in Keys :
                    /\ receipts[c] # None
                    /\ receipts[c].job.scope # receipts[k].job.scope
                    /\ EventId(RunnerEvent(receipts[c])) = EventId(RunnerEvent(receipts[k]))
                    /\ RunnerEvent(receipts[c]) \in plane

\* submit returns although a command may never exit: the wait is bounded and
\* every failure of the sandbox, the store or the plane leaves it.
SubmitReturns == (stage # "idle") ~> (stage = "idle")
=============================================================================
