---------------------- MODULE ContinuousSecurityProofs ----------------------
(***************************************************************************)
(* Proofs about the edge runner, the agent gateway and the event plane     *)
(* they share, for any jobs, requests, declarations and outputs.           *)
(*                                                                         *)
(* Plane and evidence only grow, and the writers of both are told apart by *)
(* the source and the record of their events.  What has to be added to the *)
(* properties is what a submit in progress has already done                *)
(* (SubmitIsBacked) and what the gateway's table of answers says of the    *)
(* plane (AllowedIsReported).                                              *)
(***************************************************************************)
EXTENDS ContinuousSecurity, TLAPS

\* The call of the sandbox: a container may still be started, or the call has
\* one, or it has raised.
SandboxCall ==
    /\ phase = "start" => started < MaxContainers
    /\ phase \in {"wait", "remove"} => box \in 1..started
    /\ phase = "remove" => result \in Result \cup {Error}
    /\ phase = "done" => result = Error \/ (result \in Result /\ box \in 1..started)

\* What a submit has done by the time it is at a stage.
SubmitIsBacked ==
    /\ stage # "idle" => job \in Jobs
    /\ stage \in {"receipt", "event"} => phase = "done" /\ result \in Result /\ box \in 1..started
    /\ stage \in {"receipt", "event"} => result.output \in evidence
    /\ stage = "event" => receipts[ReceiptKey(job)] # None

\* Once its submit is over, the identity of a receipt's event is on the plane,
\* whoever put it there.
IdentityIsReported ==
    \A k \in Keys :
        receipts[k] # None /\ ~(stage = "event" /\ ReceiptKey(job) = k)
            => \E e \in plane : EventId(e) = EventId(RunnerEvent(receipts[k]))

ReceiptsAreBacked == \A k \in Keys : receipts[k] # None => receipts[k].output \in evidence

\* An allowed request has the event that allows it.
AllowedIsReported ==
    \A q \in Requests : decisions[q.id] = [request |-> q, decision |-> "allow"] => DecisionEvent(q, "allow") \in plane

CompletionsAreBacked ==
    \A q \in Requests, o \in Outputs :
        CompletionEvent(q, o) \in plane => DecisionEvent(q, "allow") \in plane /\ o \in evidence

Inv ==
    /\ TypeOK
    /\ SandboxCall
    /\ SubmitIsBacked
    /\ ReceiptsAreBacked
    /\ IdentityIsReported
    /\ AllowedIsReported
    /\ CompletionsAreBacked

-----------------------------------------------------------------------------
(* The events *)

\* The events of the plane's writers are told apart, and a completion says
\* which request and which output it is about.
LEMMA EventsDiffer ==
    ASSUME NEW q \in Requests, NEW o \in Outputs
    PROVE  /\ \A r : CompletionEvent(q, o) # RunnerEvent(r)
           /\ \A p \in Requests, d \in PolicyDecisions : CompletionEvent(q, o) # DecisionEvent(p, d)
           /\ \A p \in Requests, n \in Outputs : CompletionEvent(q, o) = CompletionEvent(p, n) => q = p /\ o = n
<1>1. ASSUME NEW r
      PROVE  CompletionEvent(q, o) # RunnerEvent(r)
  <2>1. CompletionEvent(q, o).source = "secscan-agent-gateway"
    BY DEF CompletionEvent
  <2>2. RunnerEvent(r).source = "secscan-edge-runner"
    BY DEF RunnerEvent
  <2> QED
    BY <2>1, <2>2
<1>2. ASSUME NEW p \in Requests, NEW d \in PolicyDecisions
      PROVE  CompletionEvent(q, o) # DecisionEvent(p, d)
  <2>1. CompletionEvent(q, o).record[2] = "completed"
    BY DEF CompletionEvent
  <2>2. DecisionEvent(p, d).record[2] = d
    BY DEF DecisionEvent
  <2> QED
    BY <2>1, <2>2 DEF PolicyDecisions
<1>3. ASSUME NEW p \in Requests, NEW n \in Outputs, CompletionEvent(q, o) = CompletionEvent(p, n)
      PROVE  q = p /\ o = n
  <2>1. \A a \in Requests, b \in Outputs :
           CompletionEvent(a, b).content[1] = a /\ CompletionEvent(a, b).content[3] = b
    BY DEF CompletionEvent
  <2> QED
    BY <1>3, <2>1
<1> QED
  BY <1>1, <1>2, <1>3

\* Every writer's event has the fields of an event.
LEMMA EventsAreRecords ==
    /\ \A r : DOMAIN RunnerEvent(r) = EventFields
    /\ \A q, d : DOMAIN DecisionEvent(q, d) = EventFields
    /\ \A q, o : DOMAIN CompletionEvent(q, o) = EventFields
BY DEF RunnerEvent, DecisionEvent, CompletionEvent, EventFields

\* Where the plane and the evidence grow by anything but a completion.
LEMMA CompletionsStay ==
    ASSUME CompletionsAreBacked, evidence \subseteq evidence', plane \subseteq plane',
           \A q \in Requests, o \in Outputs : CompletionEvent(q, o) \in plane' => CompletionEvent(q, o) \in plane
    PROVE  CompletionsAreBacked'
BY DEF CompletionsAreBacked, DecisionEvent, CompletionEvent

\* Where the answers stay and the plane grows.
LEMMA AnswersStay ==
    ASSUME AllowedIsReported, decisions' = decisions, plane \subseteq plane'
    PROVE  AllowedIsReported'
BY DEF AllowedIsReported, DecisionEvent

-----------------------------------------------------------------------------
(* The sandbox and the runner *)

\* A step of the backend keeps the call's types and what it has.
LEMMA BackendKeeps ==
    ASSUME SandboxTypeOK, SandboxCall,
           BackendStep \/ (\E c \in ExitCodes, o \in Outputs : Exit(c, o)) \/ DaemonChanges
    PROVE  SandboxTypeOK' /\ SandboxCall'
<1> USE SandboxAssumption DEF SandboxTypeOK, SandboxCall, Phases
<1>1. CASE Start
  BY <1>1 DEF Start
<1>2. CASE StartFails \/ WaitFails
  BY <1>2 DEF StartFails, WaitFails
<1>3. CASE Remove \/ RemoveFails
  <2>1. (result \in Result \cup {Error})' /\ box' = box /\ started' = started
    BY <1>3 DEF Remove, RemoveFails
  <2> QED
    BY <1>3, <2>1 DEF Remove, RemoveFails
<1>4. ASSUME NEW o \in Outputs, TimeOut(o)
      PROVE  SandboxTypeOK' /\ SandboxCall'
  <2>1. result' \in Result
    BY <1>4 DEF TimeOut, Result, RunStatuses
  <2> QED
    BY <1>4, <2>1 DEF TimeOut
<1>5. ASSUME NEW c \in ExitCodes, NEW o \in Outputs, Exit(c, o)
      PROVE  SandboxTypeOK' /\ SandboxCall'
  <2>1. result' \in Result
    BY <1>5 DEF Exit, Result, RunStatuses, StatusOf
  <2> QED
    BY <1>5, <2>1 DEF Exit
<1>6. CASE DaemonChanges
  BY <1>6 DEF DaemonChanges
<1> QED
  BY <1>1, <1>2, <1>3, <1>4, <1>5, <1>6 DEF BackendStep

\* Submit ends: the call's locals are gone, whatever was stored stays.
LEMMA LeaveKeeps ==
    ASSUME TypeOK, Leave
    PROVE  SandboxTypeOK' /\ SandboxCall' /\ (stage \in Stages)' /\ (job \in Jobs \cup {None})' /\ SubmitIsBacked'
BY DEF Leave, Return, TypeOK, RunnerTypeOK, SandboxTypeOK, SandboxCall, SubmitIsBacked, Phases, Stages

\* What a step of the runner does to the invariant.
LEMMA RunnerStep ==
    ASSUME Inv, RunnerNext, UNCHANGED gatewayVars
    PROVE  Inv'
<1> USE SandboxAssumption, JobAssumption, NoReceiptAssumption
<1>t. TypeOK /\ PlaneTypeOK /\ RunnerTypeOK /\ GatewayTypeOK /\ SandboxTypeOK
  BY DEF Inv, TypeOK, RunnerTypeOK
<1>g. GatewayTypeOK'
  BY <1>t DEF GatewayTypeOK, gatewayVars
<1>u. ASSUME UNCHANGED plane, evidence \subseteq evidence'
      PROVE  AllowedIsReported' /\ CompletionsAreBacked'
  <2>1. decisions' = decisions /\ plane \subseteq plane'
    BY <1>u DEF gatewayVars
  <2> QED
    BY <1>u, <2>1, AnswersStay, CompletionsStay DEF Inv
<1>s. ASSUME UNCHANGED <<plane, evidence, receipts>>, SandboxTypeOK', SandboxCall', SubmitIsBacked', stage' \in Stages,
             job' \in Jobs \cup {None}, stage # "event"
      PROVE  Inv'
  <2>1. TypeOK'
    BY <1>s, <1>t, <1>g DEF TypeOK, PlaneTypeOK, RunnerTypeOK
  <2>2. ReceiptsAreBacked' /\ IdentityIsReported'
    BY <1>s DEF Inv, ReceiptsAreBacked, IdentityIsReported, RunnerEvent, EventId
  <2> QED
    BY <1>s, <1>u, <2>1, <2>2 DEF Inv
<1>1. ASSUME NEW j \in Jobs, Submit(j)
      PROVE  Inv'
  <2>1. SandboxTypeOK' /\ SandboxCall'
    BY <1>1, <1>t DEF Submit, Execute, SandboxTypeOK, SandboxCall, Phases
  <2>2. SubmitIsBacked' /\ stage' \in Stages
    BY <1>1 DEF Submit, SubmitIsBacked, Stages
  <2> QED
    BY <1>1, <1>s, <2>1, <2>2 DEF Submit
<1>2. CASE SandboxStep
  <2>1. SandboxTypeOK' /\ SandboxCall'
    BY <1>2, <1>t, BackendKeeps DEF SandboxStep, Inv
  <2>2. SubmitIsBacked' /\ stage' \in Stages /\ job' \in Jobs \cup {None}
    BY <1>2, <1>t DEF SandboxStep, Inv, SubmitIsBacked, runnerVars, RunnerTypeOK
  <2> QED
    BY <1>2, <1>s, <2>1, <2>2 DEF SandboxStep, runnerVars
<1>3. CASE DaemonChanges /\ UNCHANGED <<plane, evidence, runnerVars>>
  <2>1. SandboxTypeOK' /\ SandboxCall'
    BY <1>3, <1>t, BackendKeeps DEF Inv
  <2>2. stage # "event" /\ SubmitIsBacked' /\ stage' \in Stages /\ job' \in Jobs \cup {None}
    BY <1>3, <1>t DEF DaemonChanges, Inv, SubmitIsBacked, runnerVars, RunnerTypeOK
  <2> QED
    BY <1>3, <1>s, <2>1, <2>2 DEF runnerVars
<1>4. CASE ExecutionFails \/ PutEvidenceFails
  BY <1>4, <1>t, <1>s, LeaveKeeps DEF ExecutionFails, PutEvidenceFails
<1>5. CASE PutEvidence
  <2>1. result \in Result /\ box \in 1..started /\ result.output \in Outputs
    BY <1>5 DEF PutEvidence, Inv, SandboxCall, Result
  <2>2. TypeOK'
    BY <1>5, <1>t, <1>g, <2>1 DEF PutEvidence, TypeOK, PlaneTypeOK, RunnerTypeOK, SandboxTypeOK, sandboxVars, Stages
  <2>3. SandboxCall' /\ SubmitIsBacked'
    BY <1>5, <2>1 DEF PutEvidence, Inv, SandboxCall, SubmitIsBacked, sandboxVars
  <2>4. ReceiptsAreBacked' /\ IdentityIsReported'
    BY <1>5 DEF PutEvidence, Inv, ReceiptsAreBacked, IdentityIsReported, RunnerEvent, EventId
  <2> QED
    BY <1>5, <1>u, <2>2, <2>3, <2>4 DEF PutEvidence, Inv
<1>6. CASE RecordReceipt
  <2> DEFINE k == ReceiptKey(job)
             r == [job |-> job, status |-> result.status, output |-> result.output, box |-> box,
                   cleanupConfirmed |-> TRUE]
  <2>1. job \in Jobs /\ k \in Keys /\ result \in Result /\ box \in 1..started /\ result.output \in evidence
    BY <1>6 DEF RecordReceipt, Inv, SubmitIsBacked, Keys
  <2>2. r \in Receipt /\ r.output = result.output
    BY <1>t, <2>1 DEF Receipt, Result, SandboxTypeOK
  <2>3. r # None
    BY <2>2
  <2>4. receipts' = [receipts EXCEPT ![k] = r] /\ job' = job /\ stage' = "event" /\ UNCHANGED <<plane, sandboxVars, evidence>>
    BY <1>6 DEF RecordReceipt
  <2> HIDE DEF r
  <2>5. receipts' \in [Keys -> Receipt \cup {None}] /\ receipts'[k] = r
        /\ \A i \in Keys \ {k} : receipts'[i] = receipts[i]
    BY <1>t, <2>1, <2>2, <2>4 DEF RunnerTypeOK
  <2>6. TypeOK'
    BY <1>t, <1>g, <2>1, <2>4, <2>5 DEF TypeOK, PlaneTypeOK, RunnerTypeOK, SandboxTypeOK, sandboxVars, Stages
  <2>7. SandboxCall' /\ SubmitIsBacked'
    BY <1>6, <2>1, <2>3, <2>4, <2>5 DEF RecordReceipt, Inv, SandboxCall, SubmitIsBacked, sandboxVars, ReceiptKey
  <2>8. ReceiptsAreBacked'
    BY <2>1, <2>2, <2>4, <2>5 DEF Inv, ReceiptsAreBacked
  <2>9. IdentityIsReported'
    <3> SUFFICES ASSUME NEW i \in Keys, receipts'[i] # None, i # k
                 PROVE  \E e \in plane : EventId(e) = EventId(RunnerEvent(receipts[i]))'
      BY <2>4 DEF IdentityIsReported, ReceiptKey
    <3>1. receipts'[i] = receipts[i] /\ stage # "event"
      BY <1>6, <2>5 DEF RecordReceipt
    <3> QED
      BY <2>4, <3>1 DEF Inv, IdentityIsReported, RunnerEvent, EventId
  <2> QED
    BY <1>u, <2>4, <2>6, <2>7, <2>8, <2>9 DEF Inv
<1>7. CASE ReportEvent \/ ReportEventFails
  <2> DEFINE k == ReceiptKey(job)
             e == RunnerEvent(receipts[k])
  <2>1. job \in Jobs /\ k \in Keys /\ receipts[k] # None /\ stage = "event" /\ Leave /\ UNCHANGED <<evidence, receipts>>
    BY <1>7 DEF ReportEvent, ReportEventFails, Inv, SubmitIsBacked, Keys
  <2>2. plane \subseteq plane' /\ plane' \subseteq plane \cup {e} /\ \E x \in plane' : EventId(x) = EventId(e)
    BY <1>7 DEF ReportEvent, ReportEventFails, IngestEvent, IdentityTaken, Stored
  <2>3. TypeOK' /\ SandboxCall' /\ SubmitIsBacked'
    <3>1. PlaneTypeOK'
      BY <1>t, <2>1, <2>2, EventsAreRecords DEF PlaneTypeOK
    <3> QED
      BY <1>t, <1>g, <2>1, <3>1, LeaveKeeps DEF TypeOK, RunnerTypeOK
  <2>4. ReceiptsAreBacked'
    BY <2>1 DEF Inv, ReceiptsAreBacked
  <2>5. IdentityIsReported'
    BY <2>1, <2>2 DEF Inv, IdentityIsReported, RunnerEvent, EventId
  <2>6. CompletionsAreBacked' /\ AllowedIsReported'
    <3>1. \A q \in Requests, o \in Outputs : CompletionEvent(q, o) \in plane' => CompletionEvent(q, o) \in plane
      BY <2>2, EventsDiffer
    <3>2. decisions' = decisions /\ evidence \subseteq evidence'
      BY <2>1 DEF gatewayVars
    <3> QED
      BY <2>2, <3>1, <3>2, CompletionsStay, AnswersStay DEF Inv
  <2> QED
    BY <2>3, <2>4, <2>5, <2>6 DEF Inv
<1> QED
  BY <1>1, <1>2, <1>3, <1>4, <1>5, <1>6, <1>7 DEF RunnerNext

-----------------------------------------------------------------------------
(* The gateway *)

\* What a call of the gateway does to the invariant.
LEMMA GatewayStep ==
    ASSUME Inv, stage = "idle", GatewayNext, UNCHANGED <<sandboxVars, runnerVars>>
    PROVE  Inv'
<1> USE GatewayAssumption, NoAnswerAssumption
<1>t. TypeOK /\ PlaneTypeOK /\ RunnerTypeOK /\ GatewayTypeOK /\ SandboxTypeOK
  BY DEF Inv, TypeOK, RunnerTypeOK
<1>r. RunnerTypeOK' /\ SandboxCall'
  BY <1>t DEF Inv, RunnerTypeOK, SandboxTypeOK, SandboxCall, sandboxVars, runnerVars
<1>s. ASSUME plane \subseteq plane', evidence \subseteq evidence', PlaneTypeOK', GatewayTypeOK',
             AllowedIsReported', CompletionsAreBacked'
      PROVE  Inv'
  <2>1. TypeOK'
    BY <1>r, <1>s DEF TypeOK
  <2>2. SubmitIsBacked' /\ ReceiptsAreBacked'
    BY <1>s DEF Inv, SubmitIsBacked, ReceiptsAreBacked, sandboxVars, runnerVars
  <2>3. IdentityIsReported'
    BY <1>s DEF Inv, IdentityIsReported, RunnerEvent, EventId, ReceiptKey, runnerVars
  <2> QED
    BY <1>r, <1>s, <2>1, <2>2, <2>3 DEF Inv
<1>d. ASSUME NEW p \in Requests, NEW d \in PolicyDecisions, IngestEvent(DecisionEvent(p, d)), UNCHANGED evidence
      PROVE  /\ plane \subseteq plane' /\ DecisionEvent(p, d) \in plane'
             /\ PlaneTypeOK' /\ CompletionsAreBacked'
  <2>1. plane' = plane \cup {DecisionEvent(p, d)}
    BY <1>d DEF IngestEvent
  <2>2. PlaneTypeOK'
    BY <1>d, <1>t, <2>1, EventsAreRecords DEF PlaneTypeOK
  <2>3. \A q \in Requests, o \in Outputs : CompletionEvent(q, o) \in plane' => CompletionEvent(q, o) \in plane
    BY <2>1, EventsDiffer
  <2> QED
    BY <1>d, <2>1, <2>2, <2>3, CompletionsStay DEF Inv
<1>1. ASSUME NEW d \in Declarations, Register(d)
      PROVE  Inv'
  <2>1. PlaneTypeOK' /\ GatewayTypeOK'
    BY <1>1, <1>t DEF Register, PlaneTypeOK, GatewayTypeOK
  <2>2. AllowedIsReported' /\ CompletionsAreBacked'
    BY <1>1, AnswersStay, CompletionsStay DEF Register, Inv
  <2> QED
    BY <1>1, <1>s, <2>1, <2>2 DEF Register
<1>2. ASSUME NEW p \in Requests, NEW opa \in PolicyAnswers, Authorize(p, opa)
      PROVE  Inv'
  <2> DEFINE d == Decide(p, opa)
             a == [request |-> p, decision |-> d]
  <2>1. d \in PolicyDecisions
    BY DEF Decide, PolicyAnswers, PolicyDecisions
  <2>2. IngestEvent(DecisionEvent(p, d)) /\ decisions' = [decisions EXCEPT ![p.id] = a] /\ UNCHANGED <<evidence, declared>>
    BY <1>2 DEF Authorize
  <2> HIDE DEF d
  <2>3. a \in Answer /\ p.id \in RequestIds
    BY <2>1 DEF Answer, RequestIds
  <2>4. plane \subseteq plane' /\ DecisionEvent(p, d) \in plane' /\ PlaneTypeOK' /\ CompletionsAreBacked'
    BY <1>d, <2>1, <2>2
  <2>5. GatewayTypeOK'
    BY <1>t, <2>2, <2>3 DEF GatewayTypeOK
  <2>6. AllowedIsReported'
    <3> SUFFICES ASSUME NEW q \in Requests, decisions'[q.id] = [request |-> q, decision |-> "allow"]
                 PROVE  DecisionEvent(q, "allow") \in plane'
      BY DEF AllowedIsReported, DecisionEvent
    <3>1. CASE q.id = p.id
      <4>1. [request |-> q, decision |-> "allow"] = a
        BY <1>t, <2>2, <2>3, <3>1 DEF GatewayTypeOK
      <4>2. q = p /\ d = "allow"
        BY <4>1
      <4> QED
        BY <2>4, <4>2
    <3>2. CASE q.id # p.id
      <4>1. decisions'[q.id] = decisions[q.id]
        BY <1>t, <2>2, <2>3, <3>2 DEF GatewayTypeOK, RequestIds
      <4> QED
        BY <2>4, <4>1 DEF Inv, AllowedIsReported
    <3> QED
      BY <3>1, <3>2
  <2> QED
    BY <1>s, <2>2, <2>4, <2>5, <2>6
<1>3. ASSUME NEW p \in Requests, CompleteRefused(p)
      PROVE  Inv'
  <2>1. plane \subseteq plane' /\ PlaneTypeOK' /\ CompletionsAreBacked'
    BY <1>3, <1>d DEF CompleteRefused, PolicyDecisions
  <2>2. GatewayTypeOK' /\ AllowedIsReported'
    BY <1>3, <1>t, <2>1, AnswersStay DEF CompleteRefused, GatewayTypeOK, gatewayVars, Inv
  <2> QED
    BY <1>3, <1>s, <2>1, <2>2 DEF CompleteRefused
<1>4. ASSUME NEW p \in Requests, NEW n \in Outputs, Complete(p, n)
      PROVE  Inv'
  <2>1. /\ DecisionEvent(p, "allow") \in plane
        /\ evidence' = evidence \cup {n} /\ UNCHANGED gatewayVars
        /\ plane \subseteq plane' /\ plane' \subseteq plane \cup {CompletionEvent(p, n)}
    BY <1>4 DEF Complete, IngestEvent, Inv, AllowedIsReported
  <2>2. PlaneTypeOK' /\ GatewayTypeOK'
    BY <1>t, <2>1, EventsAreRecords DEF PlaneTypeOK, GatewayTypeOK, gatewayVars
  <2>3. AllowedIsReported'
    BY <2>1, AnswersStay DEF Inv, gatewayVars
  <2>4. ASSUME NEW q \in Requests, NEW o \in Outputs, CompletionEvent(q, o) \in plane'
        PROVE  DecisionEvent(q, "allow") \in plane' /\ o \in evidence'
    <3>1. CASE CompletionEvent(q, o) \in plane
      BY <2>1, <3>1 DEF Inv, CompletionsAreBacked
    <3>2. CASE CompletionEvent(q, o) = CompletionEvent(p, n)
      <4>1. q = p /\ o = n
        BY <3>2, EventsDiffer
      <4> QED
        BY <2>1, <4>1
    <3> QED
      BY <2>1, <2>4, <3>1, <3>2
  <2>5. CompletionsAreBacked'
    BY <2>4 DEF CompletionsAreBacked, CompletionEvent, DecisionEvent
  <2> QED
    BY <1>s, <2>1, <2>2, <2>3, <2>5
<1> QED
  BY <1>1, <1>2, <1>3, <1>4 DEF GatewayNext

-----------------------------------------------------------------------------
LEMMA InitInv ==
    Init => Inv
<1> SUFFICES ASSUME Init PROVE Inv
  OBVIOUS
<1>1. TypeOK
  BY SandboxAssumption DEF Init, PlaneInit, SandboxInit, RunnerInit, GatewayInit, TypeOK, PlaneTypeOK, RunnerTypeOK,
     SandboxTypeOK, GatewayTypeOK, Stages, Phases
<1>2. AllowedIsReported
  <2>1. ASSUME NEW q \in Requests
        PROVE  decisions[q.id] # [request |-> q, decision |-> "allow"]
    <3>1. [request |-> q, decision |-> "allow"] \in Answer
      BY DEF Answer, PolicyDecisions
    <3>2. decisions[q.id] = None
      BY DEF Init, GatewayInit, RequestIds
    <3> QED
      BY <3>1, <3>2, NoAnswerAssumption
  <2> QED
    BY <2>1 DEF AllowedIsReported
<1> QED
  BY <1>1, <1>2 DEF Init, PlaneInit, SandboxInit, RunnerInit, Inv, SandboxCall, SubmitIsBacked, ReceiptsAreBacked,
     IdentityIsReported, CompletionsAreBacked

LEMMA InvAlways ==
    Spec => []Inv
<1>1. Inv /\ UNCHANGED allVars => Inv'
  BY DEF allVars, sandboxVars, runnerVars, gatewayVars, Inv, TypeOK, PlaneTypeOK, RunnerTypeOK, SandboxTypeOK,
     GatewayTypeOK, SandboxCall, SubmitIsBacked, ReceiptsAreBacked, IdentityIsReported, AllowedIsReported,
     CompletionsAreBacked, RunnerEvent, EventId, ReceiptKey, DecisionEvent, CompletionEvent
<1>2. Inv /\ [Next]_allVars => Inv'
  BY <1>1, RunnerStep, GatewayStep DEF Next
<1> QED
  BY InitInv, <1>2, PTL DEF Spec

\* The runner's, the gateway's and the plane's state keep their types; in
\* particular a recorded receipt names a container that was started.
THEOREM TypeOKAlways ==
    Spec => []TypeOK
<1>1. Inv => TypeOK
  BY DEF Inv
<1> QED
  BY InvAlways, <1>1, PTL

\* authorize, complete: a completed tool call is on the plane only beside an
\* event that allows this very request.
THEOREM CompletedWasAllowedAlways ==
    Spec => []CompletedWasAllowed
<1>1. Inv => CompletedWasAllowed
  BY DEF Inv, CompletionsAreBacked, CompletedWasAllowed
<1> QED
  BY InvAlways, <1>1, PTL

\* submit, complete: no event refers to an output that is not in the evidence
\* store.
THEOREM EventsAreBackedByEvidenceAlways ==
    Spec => []EventsAreBackedByEvidence
<1>1. Inv => EventsAreBackedByEvidence
  BY DEF Inv, CompletionsAreBacked, ReceiptsAreBacked, EventsAreBackedByEvidence
<1> QED
  BY InvAlways, <1>1, PTL

-----------------------------------------------------------------------------
(* Which receipts lose their event *)

\* Where the runner's events come from: each is the event of a stored receipt,
\* a receipt is of the job it is kept under, and a job that is running has
\* none, so that no receipt is ever replaced.
Origins ==
    /\ \A e \in plane : e.source = "secscan-edge-runner" =>
         \E c \in Keys : receipts[c] # None /\ e = RunnerEvent(receipts[c])
    /\ \A k \in Keys : receipts[k] # None => ReceiptKey(receipts[k].job) = k
    /\ stage \in {"execute", "receipt"} => receipts[ReceiptKey(job)] = None

\* Steps that neither write a receipt nor an event of the runner.
LEMMA OriginsStay ==
    ASSUME Origins, receipts' = receipts,
           \A e \in plane' : e \in plane \/ e.source # "secscan-edge-runner",
           stage' \in {"execute", "receipt"} => receipts[ReceiptKey(job')] = None
    PROVE  Origins'
<1>1. ASSUME NEW e \in plane', e.source = "secscan-edge-runner"
      PROVE  \E c \in Keys : receipts'[c] # None /\ e = RunnerEvent(receipts'[c])
  BY <1>1 DEF Origins
<1> QED
  BY <1>1 DEF Origins, RunnerEvent, ReceiptKey

LEMMA OriginsStep ==
    ASSUME Inv, Origins, [Next]_allVars
    PROVE  Origins'
<1> USE NoReceiptAssumption
<1>t. RunnerTypeOK
  BY DEF Inv, TypeOK
<1>1. ASSUME NEW j \in Jobs, Submit(j) PROVE Origins'
  BY <1>1, OriginsStay DEF Submit, Admitted, Stored
<1>2. CASE SandboxStep \/ (DaemonChanges /\ UNCHANGED <<plane, evidence, runnerVars>>) \/ UNCHANGED allVars
  BY <1>2, OriginsStay DEF SandboxStep, runnerVars, allVars, Origins
<1>3. CASE ExecutionFails \/ PutEvidenceFails \/ ReportEventFails
  BY <1>3, OriginsStay DEF ExecutionFails, PutEvidenceFails, ReportEventFails, Leave
<1>4. CASE PutEvidence
  BY <1>4, OriginsStay DEF PutEvidence, Origins
<1>5. CASE RecordReceipt
  <2> DEFINE k == ReceiptKey(job)
             r == [job |-> job, status |-> result.status, output |-> result.output, box |-> box,
                   cleanupConfirmed |-> TRUE]
  <2>1. job \in Jobs /\ k \in Keys /\ receipts[k] = None
    BY <1>5 DEF RecordReceipt, Inv, SubmitIsBacked, Keys, Origins
  <2>2. receipts' = [receipts EXCEPT ![k] = r] /\ plane' = plane /\ job' = job /\ stage' = "event"
    BY <1>5 DEF RecordReceipt
  <2>3. r.job = job
    OBVIOUS
  <2> HIDE DEF r
  <2>4. receipts'[k] = r /\ \A c \in Keys : receipts[c] # None => receipts'[c] = receipts[c]
    BY <1>t, <2>1, <2>2 DEF RunnerTypeOK
  <2>5. \A c \in Keys \ {k} : receipts'[c] = receipts[c]
    BY <1>t, <2>1, <2>2 DEF RunnerTypeOK
  <2>6. ASSUME NEW e \in plane', e.source = "secscan-edge-runner"
        PROVE  \E c \in Keys : receipts'[c] # None /\ e = RunnerEvent(receipts'[c])
    <3>1. PICK c \in Keys : receipts[c] # None /\ e = RunnerEvent(receipts[c])
      BY <2>2, <2>6 DEF Origins
    <3> QED
      BY <2>4, <3>1
  <2>7. \A c \in Keys : receipts'[c] # None => ReceiptKey(receipts'[c].job) = c
    BY <2>3, <2>4, <2>5 DEF Origins
  <2> QED
    BY <2>2, <2>6, <2>7 DEF Origins, RunnerEvent, ReceiptKey
<1>6. CASE ReportEvent
  <2> DEFINE k == ReceiptKey(job)
  <2>1. k \in Keys /\ receipts[k] # None
    BY <1>6 DEF ReportEvent, Inv, SubmitIsBacked, Keys
  <2>2. plane' = plane \cup {RunnerEvent(receipts[k])} /\ receipts' = receipts /\ stage' = "idle"
    BY <1>6 DEF ReportEvent, IngestEvent, Stored, Leave
  <2>3. ASSUME NEW e \in plane', e.source = "secscan-edge-runner"
        PROVE  \E c \in Keys : receipts'[c] # None /\ e = RunnerEvent(receipts'[c])
    BY <2>1, <2>2, <2>3 DEF Origins
  <2> QED
    BY <2>2, <2>3 DEF Origins, RunnerEvent, ReceiptKey
<1>7. ASSUME GatewayNext, UNCHANGED <<sandboxVars, runnerVars>> PROVE Origins'
  <2>1. \A q, d : DecisionEvent(q, d).source # "secscan-edge-runner"
    BY DEF DecisionEvent
  <2>2. \A q, o : CompletionEvent(q, o).source # "secscan-edge-runner"
    BY DEF CompletionEvent
  <2>3. \A e \in plane' : e \in plane \/ e.source # "secscan-edge-runner"
    <3>1. \/ plane' = plane
          \/ \E q, d : plane' = plane \cup {DecisionEvent(q, d)}
          \/ \E q, o : plane' = plane \cup {CompletionEvent(q, o)}
      <4>1. ASSUME NEW q \in Requests, NEW opa \in PolicyAnswers, Authorize(q, opa)
            PROVE  \E d : plane' = plane \cup {DecisionEvent(q, d)}
        BY <4>1 DEF Authorize, IngestEvent
      <4>2. ASSUME NEW q \in Requests, CompleteRefused(q)
            PROVE  \E d : plane' = plane \cup {DecisionEvent(q, d)}
        BY <4>2 DEF CompleteRefused, IngestEvent
      <4>3. ASSUME NEW q \in Requests, NEW o \in Outputs, Complete(q, o)
            PROVE  plane' = plane \/ plane' = plane \cup {CompletionEvent(q, o)}
        BY <4>3 DEF Complete, IngestEvent
      <4>4. ASSUME NEW d \in Declarations, Register(d) PROVE plane' = plane
        BY <4>4 DEF Register
      <4> QED
        BY <1>7, <4>1, <4>2, <4>3, <4>4 DEF GatewayNext
    <3> QED
      BY <2>1, <2>2, <3>1
  <2> QED
    BY <1>7, <2>3, OriginsStay DEF runnerVars, Origins
<1> QED
  BY <1>1, <1>2, <1>3, <1>4, <1>5, <1>6, <1>7 DEF Next, RunnerNext

LEMMA OriginsAlways ==
    Spec => []Origins
<1>1. Init => Origins
  BY DEF Init, PlaneInit, RunnerInit, Origins
<1>2. Inv /\ Origins /\ [Next]_allVars => Origins'
  BY OriginsStep
<1> QED
  BY <1>1, <1>2, InvAlways, PTL DEF Spec

\* submit, ingest: a receipt whose submit is over has its own event on the
\* plane, or a job of another scope with the same id, time and output, whose
\* receipt is stored and reported, took the identity first.
THEOREM ReceiptIsReportedOrDisplacedAlways ==
    Spec => []ReceiptIsReportedOrDisplaced
<1>1. ASSUME Inv, Origins, NEW k \in Keys, receipts[k] # None,
             ~(stage = "event" /\ ReceiptKey(job) = k)
      PROVE  \/ RunnerEvent(receipts[k]) \in plane
             \/ \E c \in Keys :
                  /\ receipts[c] # None
                  /\ receipts[c].job.scope # receipts[k].job.scope
                  /\ EventId(RunnerEvent(receipts[c])) = EventId(RunnerEvent(receipts[k]))
                  /\ RunnerEvent(receipts[c]) \in plane
  <2>1. PICK e \in plane : EventId(e) = EventId(RunnerEvent(receipts[k]))
    BY <1>1 DEF Inv, IdentityIsReported
  <2>2. e.source = "secscan-edge-runner"
    BY <2>1 DEF EventId, RunnerEvent
  <2>3. PICK c \in Keys : receipts[c] # None /\ e = RunnerEvent(receipts[c])
    BY <1>1, <2>2 DEF Origins
  <2>4. CASE c = k
    BY <2>3, <2>4
  <2>5. CASE c # k
    <3>1. receipts[c].job.id = receipts[k].job.id
      BY <2>1, <2>3 DEF EventId, RunnerEvent
    <3>2. c = <<receipts[c].job.scope, receipts[c].job.id>> /\ k = <<receipts[k].job.scope, receipts[k].job.id>>
      BY <1>1, <2>3 DEF Origins, ReceiptKey
    <3>3. receipts[c].job.scope # receipts[k].job.scope
      BY <2>5, <3>1, <3>2
    <3> QED
      BY <2>1, <2>3, <3>3
  <2> QED
    BY <2>4, <2>5
<1>2. Inv /\ Origins => ReceiptIsReportedOrDisplaced
  BY <1>1 DEF ReceiptIsReportedOrDisplaced
<1> QED
  BY <1>2, InvAlways, OriginsAlways, PTL
=============================================================================
