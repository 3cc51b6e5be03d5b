------------------------------ MODULE Gateway ------------------------------
(***************************************************************************)
(* AgentSecurityGateway: agents and tools are declared in a registry, a    *)
(* request is authorized against it and against OPA, and the output of an  *)
(* authorized tool call is kept as evidence.  Every answer is first an     *)
(* event; where ingest raises, so does the call, and nothing is kept.      *)
(***************************************************************************)
EXTENDS EventPlane

CONSTANTS Declarations, \* agent and tool declarations, with a name each
          Requests,     \* gateway requests
          Suspicious    \* outputs that read as an injection

\* A request is told apart by its id, the fields that identify its events
\* (time and authority_ref), the rest of its body, and the declarations it
\* must find (_validate_identity).
ASSUME GatewayAssumption ==
    /\ Suspicious \subseteq Outputs
    /\ \A d \in Declarations : DOMAIN d = {"name", "content"}
    /\ \A q \in Requests : /\ DOMAIN q = {"id", "occurred", "authority", "body", "needs"}
                           /\ q.needs \subseteq Declarations

VARIABLES
    declared,  \* GatewayRegistry
    decisions  \* _decisions: request id to request and result

gatewayVars == <<declared, decisions>>

PolicyDecisions == {"allow", "deny", "require_approval"}
RequestIds      == {q.id : q \in Requests}
Answer          == [request : Requests, decision : PolicyDecisions]

ASSUME NoAnswerAssumption == None \notin Answer

GatewayInit ==
    /\ declared = {}
    /\ decisions = [i \in RequestIds |-> None]

\* register_agent, register_tool: one declaration per name.
Register(d) ==
    /\ \A x \in declared : x.name = d.name => x = d
    /\ declared' = declared \cup {d}
    /\ UNCHANGED <<plane, evidence, decisions>>

\* What OPA says, or that it or the canonical context cannot be asked; grants,
\* approvals and policies change between two calls.
PolicyAnswers == PolicyDecisions \cup {"unavailable"}

\* A declaration that does not match, and a policy that cannot be asked, deny.
Decide(q, opa) == IF q.needs \subseteq declared /\ opa # "unavailable" THEN opa ELSE "deny"

\* _finish.
DecisionEvent(q, d) ==
    [source |-> "secscan-agent-gateway", record |-> <<q.id, d>>, occurred |-> q.occurred,
     digest |-> <<d, q.authority>>, content |-> <<q, "decision">>]

\* Mutant of Authorize: the decision is kept before its event is ingested.
AuthorizeBeforeEvent(q, opa) ==
    LET d == Decide(q, opa)
    IN  /\ decisions' = [decisions EXCEPT ![q.id] = [request |-> q, decision |-> d]]
        /\ plane' = IF IdentityTaken(DecisionEvent(q, d)) THEN plane
                    ELSE plane \cup {DecisionEvent(q, d)}
        /\ UNCHANGED <<evidence, declared>>

\* authorize.
Authorize(q, opa) ==
    LET d == Decide(q, opa)
    IN  /\ IngestEvent(DecisionEvent(q, d))
        /\ decisions' = [decisions EXCEPT ![q.id] = [request |-> q, decision |-> d]]
        /\ UNCHANGED <<evidence, declared>>

\* complete refuses a request that was not authorized as it stands.
CompleteRefused(q) ==
    /\ decisions[q.id] # None => decisions[q.id].request # q
    /\ IngestEvent(DecisionEvent(q, "deny"))
    /\ UNCHANGED <<evidence, gatewayVars>>

\* The event of a completed call; its digest covers the tool and the flag.
CompletionEvent(q, o) ==
    [source |-> "secscan-agent-gateway", record |-> <<q.id, "completed">>, occurred |-> q.occurred,
     digest |-> <<q.needs, o \in Suspicious>>, content |-> <<q, "completed", o>>]

\* complete of an allowed request: the sanitized output is stored, and the
\* event ingested unless another output has been reported for the request.
Complete(q, o) ==
    /\ decisions[q.id] # None /\ decisions[q.id] = [request |-> q, decision |-> "allow"]
    /\ evidence' = evidence \cup {o}
    /\ \/ IngestEvent(CompletionEvent(q, o))
       \/ IdentityTaken(CompletionEvent(q, o)) /\ UNCHANGED plane
    /\ UNCHANGED gatewayVars

GatewayNext ==
    \/ \E d \in Declarations : Register(d)
    \/ \E q \in Requests, opa \in PolicyAnswers : Authorize(q, opa)
    \/ \E q \in Requests : CompleteRefused(q)
    \/ \E q \in Requests, o \in Outputs : Complete(q, o)

-----------------------------------------------------------------------------
GatewayTypeOK ==
    /\ declared \subseteq Declarations
    /\ decisions \in [RequestIds -> {None} \cup Answer]

\* A completed tool call is on the plane only beside an event that allows this
\* very request: neither a reused request id, nor a refused or repeated
\* authorization, nor a policy that changes in between makes one (authorize,
\* complete).
CompletedWasAllowed ==
    \A q \in Requests, o \in Outputs :
        CompletionEvent(q, o) \in plane => DecisionEvent(q, "allow") \in plane
=============================================================================
