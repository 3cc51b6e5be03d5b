-------------------------- MODULE SecurityServices --------------------------
(***************************************************************************)
(* The deterministic services of one assessment, as functions of the       *)
(* snapshot's content: a set of signals that the detectors find in files.  *)
(* Profile, plan, service results, adjudication and report follow from it. *)
(***************************************************************************)
EXTENDS TLC, SequencesExt, VulnerabilityIntelligence

\* What the detectors look for, and the claim each signal leads to.
Signal(service, kind, severity, confidence) ==
    [service |-> service, kind |-> kind, severity |-> severity, confidence |-> confidence]

Detectors ==
    "secret"             :> Signal("APPSEC", "appsec", "HIGH", "HIGH")
 @@ "trust"              :> Signal("APPSEC", "appsec", "MEDIUM", "MEDIUM")
 @@ "debug"              :> Signal("APPSEC", "debug", "MEDIUM", "HIGH")
 @@ "instruction"        :> Signal("AGENTSEC", "agentsec", "MEDIUM", "HIGH")
 @@ "authority-mismatch" :> Signal("AGENTSEC", "agentsec", "HIGH", "HIGH")
 @@ "capability-input"   :> Signal("AGENTSEC", "agentsec", "HIGH", "HIGH")
 @@ "memory-cross-case"  :> Signal("AGENTSEC", "agentsec", "HIGH", "HIGH")
 @@ "mutable-actions"    :> Signal("SUPPLYCHAIN", "supplychain-workflow", "MEDIUM", "HIGH")
 @@ "permissions"        :> Signal("SUPPLYCHAIN", "supplychain-permissions", "HIGH", "HIGH")
 @@ "untrusted-pr"       :> Signal("SUPPLYCHAIN", "supplychain-pr", "HIGH", "MEDIUM")
 @@ "mutable-base"       :> Signal("SUPPLYCHAIN", "container-base", "MEDIUM", "HIGH")

\* The content of a snapshot: signals by file; whether the repository shows an
\* agentic surface; its dependencies, in the order of the manifests.
Content(c) ==
    /\ DOMAIN c = {"signals", "agentic", "dependencies"}
    /\ \A x \in c.signals : x[2] \in DOMAIN Detectors
    /\ c.agentic \in BOOLEAN

Services == {"AGENTSEC", "APPSEC", "SUPPLYCHAIN", "VULNINTEL"}

\* route_services: agent security joins for an agentic surface, or where the
\* engagement's scope speaks of agents.
Selected(c, scopeNamesAgents) ==
    {"APPSEC", "SUPPLYCHAIN", "VULNINTEL"} \cup (IF c.agentic \/ scopeNamesAgents THEN {"AGENTSEC"} ELSE {})

\* The candidates of a detector service.
Detected(service, c) ==
    {[service |-> service, key |-> <<x[2], x[1]>>, evidence |-> <<x[1], Detectors[x[2]].kind>>,
      severity |-> Detectors[x[2]].severity, confidence |-> Detectors[x[2]].confidence]
        : x \in {y \in c.signals : Detectors[y[2]].service = service}}

\* The candidates of each service; agent security says nothing of a repository
\* without an agentic surface.
AppSec(c)      == Detected("APPSEC", c)
AgentSec(c)    == IF c.agentic THEN Detected("AGENTSEC", c) ELSE {}
SupplyChain(c) == Detected("SUPPLYCHAIN", c)

\* The pairs vulnerability intelligence looks at, in its order.
MatchesOf(c, advisories) ==
    FlattenSeq([i \in DOMAIN advisories |->
        SelectSeq([j \in DOMAIN c.dependencies |-> <<advisories[i], c.dependencies[j]>>],
                  LAMBDA m : Matches(m[1], m[2]))])

\* The sequence of its candidates, one for each match and decision.
IntelCandidates(c, advisories, decisions) ==
    [i \in DOMAIN decisions |->
        VulnerabilityCandidate(MatchesOf(c, advisories)[i][1], MatchesOf(c, advisories)[i][2], decisions[i])]

-----------------------------------------------------------------------------
\* AdjudicationService.adjudicate.
Verdict(evidence, contradicting, confidence) ==
    IF contradicting # {} THEN IF evidence = {} THEN "REJECTED" ELSE "INCONCLUSIVE"
    ELSE IF evidence = {} THEN "INCONCLUSIVE"
    ELSE IF confidence = "HIGH" THEN "CONFIRMED" ELSE "SUPPORTED"

\* _adjudicate_with_receipts for one dedupe key: the candidates in the order of
\* the services' results, of which the first speaks for all.  No service names
\* contradicting evidence.
Finding(candidates) ==
    LET first    == candidates[1]
        evidence == {x.evidence : x \in ToSet(candidates)}
    IN  [key |-> first.key, severity |-> first.severity, evidence |-> evidence,
         verdict    |-> Verdict(evidence, {}, first.confidence),
         confidence |-> IF first.confidence = "UNKNOWN" THEN "MEDIUM" ELSE first.confidence,
         services   |-> {x.service : x \in ToSet(candidates)}]

\* The findings of all candidates; keys of two services never meet.
Findings(detected, intel) ==
    {Finding(<<x>>) : x \in detected}
        \cup {Finding(SelectSeq(intel, LAMBDA y : y.key = k)) : k \in {y.key : y \in ToSet(intel)}}

\* FirmSecurityServices.run up to its report: what the assessment says of the
\* snapshot.  Status and limitations of the services and the report follow from
\* the same content and are left out.
Assessment(target, snapshot, c, scopeNamesAgents, advisories, decisions) ==
    LET services == Selected(c, scopeNamesAgents)
        detected == AppSec(c) \cup SupplyChain(c) \cup (IF "AGENTSEC" \in services THEN AgentSec(c) ELSE {})
    IN  [target |-> target, snapshot |-> snapshot, services |-> services,
         findings |-> {f \in Findings(detected, IntelCandidates(c, advisories, decisions)) :
                         f.verdict \in {"CONFIRMED", "SUPPORTED"}}]
=============================================================================
