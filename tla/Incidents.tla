----------------------------- MODULE Incidents -----------------------------
(***************************************************************************)
(* Incident hypotheses and their adjudication.  An operator opens a        *)
(* hypothesis over stored signals; another call adjudicates it from        *)
(* canonical claims and evidence, and writes investigation, adjudication   *)
(* and incident in one transaction, each of them an insert or the replay   *)
(* of an equal row.  Signals and claims are stored by other components     *)
(* and never change, so what a call read stays true until it writes.       *)
(***************************************************************************)
EXTENDS Naturals, FiniteSets

CONSTANTS
    Signals,       \* signal ids
    Claims,        \* claim ids
    SignalRefs,    \* raw evidence references of a signal
    ClaimRefs,     \* evidence references of a claim
    Observations,  \* observations of a claim
    Humans,        \* canonical human operators
    Principals,    \* everybody who calls
    Hypotheses,    \* hypotheses that are opened, with their signals
    Adjudicating   \* adjudications that are requested

ASSUME IncidentAssumption ==
    /\ Humans \subseteq Principals
    /\ DOMAIN SignalRefs = Signals
    /\ DOMAIN ClaimRefs = Claims /\ DOMAIN Observations = Claims
    /\ \A h \in Hypotheses : h.signals \subseteq Signals
    /\ \A a \in Adjudicating :
         /\ a.hypothesis \in Hypotheses
         /\ a.claims \subseteq Claims /\ a.contraClaims \subseteq Claims

VARIABLES
    signals,       \* stored signals; their events are stored with them
    claims,        \* stored claims
    hypotheses, investigations, adjudications, incidents

caseVars == <<signals, claims>>
rowVars  == <<hypotheses, investigations, adjudications, incidents>>

IncidentInit ==
    /\ signals = {} /\ claims = {}
    /\ hypotheses = {} /\ investigations = {} /\ adjudications = {} /\ incidents = {}

\* The detection worker and the agents store their results.
StoreSignal(s) == s \notin signals /\ signals' = signals \cup {s} /\ UNCHANGED <<claims, rowVars>>
StoreClaim(c)  == c \notin claims /\ claims' = claims \cup {c} /\ UNCHANGED <<signals, rowVars>>

\* _require_operator.
IsOperator(p) == p \in Humans

\* open_incident_hypothesis; the identity covers scope, question, signals and
\* entities, so that a row with it is equal.
OpenHypothesis(h, by) ==
    /\ IsOperator(by)
    /\ h.signals # {} /\ h.signals \subseteq signals
    /\ hypotheses' = hypotheses \cup {h}
    /\ UNCHANGED <<caseVars, investigations, adjudications, incidents>>

-----------------------------------------------------------------------------
RefsOfSignals(S) == UNION {SignalRefs[s] : s \in S}
RefsOfClaims(C)  == UNION {ClaimRefs[c] : c \in C}

\* load_claims: the claims of both sides are stored, each with references.
Loaded(a) ==
    /\ a.claims \cup a.contraClaims \subseteq claims
    /\ \A c \in a.claims \cup a.contraClaims : ClaimRefs[c] # {}

\* Mutant of Grounded: evidence need only belong to some stored signal.
GroundedInAnySignal(a) ==
    /\ a.claims # {} /\ a.evidence # {}
    /\ a.evidence \cup a.contraEvidence \subseteq RefsOfSignals(signals)
    /\ a.evidence \subseteq RefsOfClaims(a.claims)
    /\ a.contraEvidence \subseteq RefsOfClaims(a.contraClaims)
    /\ a.observations \subseteq UNION {Observations[c] : c \in a.claims \cup a.contraClaims}

\* The checks of the adjudicator: there are supporting claims
\* and evidence, every reference belongs to the hypothesis' signals, and each
\* side's evidence to its own claims.
Grounded(a) ==
    /\ a.claims # {} /\ a.evidence # {}
    /\ a.evidence \cup a.contraEvidence \subseteq RefsOfSignals(a.hypothesis.signals)
    /\ a.evidence \subseteq RefsOfClaims(a.claims)
    /\ a.contraEvidence \subseteq RefsOfClaims(a.contraClaims)
    /\ a.observations \subseteq UNION {Observations[c] : c \in a.claims \cup a.contraClaims}

AdjudicationId(a) == <<a.hypothesis, a.claims, a.evidence, a.contraClaims, a.contraEvidence>>

\* Contradiction leaves an incident a candidate.
Verdict(a) == IF a.contraClaims # {} \/ a.contraEvidence # {} THEN "CANDIDATE" ELSE "CONFIRMED"

InvestigationRow(a) == [hypothesis |-> a.hypothesis, observations |-> a.observations, claims |-> a.claims]
AdjudicationRow(a)  == [id |-> AdjudicationId(a), verdict |-> Verdict(a), by |-> a.by, reason |-> a.reason]
IncidentRow(a)      == [id |-> AdjudicationId(a), verdict |-> Verdict(a), severity |-> a.severity,
                        investigation |-> InvestigationRow(a)]

\* _save_exact and _insert_or_replay: no other row has the identity.
Saves(rows, r) == \A x \in rows : x.id = r.id => x = r

\* save_investigation_and_adjudication: a conflict in any of the three rows
\* rolls the transaction back.
SaveAdjudication(a) ==
    /\ Saves(adjudications, AdjudicationRow(a)) /\ Saves(incidents, IncidentRow(a))
    /\ investigations' = investigations \cup {InvestigationRow(a)}
    /\ adjudications' = adjudications \cup {AdjudicationRow(a)}
    /\ incidents' = incidents \cup {IncidentRow(a)}
    /\ UNCHANGED <<caseVars, hypotheses>>

\* adjudicate_incident.  The adjudicator is built for the call and starts
\* empty.
Adjudicate(a) ==
    /\ IsOperator(a.by) /\ a.hypothesis \in hypotheses
    /\ Loaded(a) /\ Grounded(a) /\ SaveAdjudication(a)

-----------------------------------------------------------------------------
IncidentTypeOK ==
    /\ signals \subseteq Signals /\ claims \subseteq Claims /\ hypotheses \subseteq Hypotheses
    /\ investigations \subseteq {InvestigationRow(a) : a \in Adjudicating}
    /\ adjudications \subseteq {AdjudicationRow(a) : a \in Adjudicating}
    /\ incidents \subseteq {IncidentRow(a) : a \in Adjudicating}

\* Every incident stands on stored records only: its hypothesis, investigation
\* and one adjudication by a human, and supporting evidence that the signals of
\* its own hypothesis carry, all of them stored, and its own stored claims refer
\* to (adjudicate, save_investigation_and_adjudication).
IncidentsAreGrounded ==
    \A i \in incidents :
        /\ i.investigation \in investigations
        /\ i.investigation.hypothesis \in hypotheses
        /\ \E d \in adjudications : d.id = i.id /\ d.verdict = i.verdict /\ IsOperator(d.by)
        /\ Cardinality({d \in adjudications : d.id = i.id}) = 1
        /\ i.investigation.claims \subseteq claims
        /\ i.investigation.hypothesis.signals \subseteq signals
        /\ i.id[3] \subseteq RefsOfSignals(i.investigation.hypothesis.signals)
                             \cap RefsOfClaims(i.investigation.claims)
=============================================================================
