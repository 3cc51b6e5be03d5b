------------------------- MODULE MCIncidentConsole -------------------------
EXTENDS IncidentConsole, TLC

CONSTANTS c1, c2, s1, s2, s3, k1, k2, e1, e2, e3, h1, h2, h3, agent, o1, r1, r2

\* Two signals of the hypothesis and one outside it, a claim for and a claim
\* against, and an observation that may be cited.
MCSignalRefs   == s1 :> {e1} @@ s2 :> {e2} @@ s3 :> {e3}
MCSignalOrder  == s1 :> 1 @@ s2 :> 2 @@ s3 :> 3
MCClaimRefs    == k1 :> {e1, e3} @@ k2 :> {e2}
MCObservations == k1 :> {o1} @@ k2 :> {}

MCCalls  == {c1, c2}
Symmetry == Permutations(MCCalls)

MCHypothesis == [signals |-> {s1, s2}, question |-> r1]

MCHypotheses == {MCHypothesis}

Adjudication(evidence, contraClaims, contraEvidence, by, reason, observations) ==
    [hypothesis |-> MCHypothesis, claims |-> {k1}, evidence |-> evidence,
     contraClaims |-> contraClaims, contraEvidence |-> contraEvidence,
     by |-> by, reason |-> reason, severity |-> reason, observations |-> observations]

\* One sound adjudication, again by another operator and with another
\* observation, one with contradiction, and three without ground.
MCAdjudicating ==
    { Adjudication({e1}, {}, {}, h1, r1, {}),
      Adjudication({e1}, {}, {}, h2, r2, {o1}),
      Adjudication({e1}, {k2}, {e2}, h1, r1, {}),
      Adjudication({e2}, {}, {}, h1, r1, {}),
      Adjudication({e3}, {}, {}, h1, r1, {}),
      Adjudication({e1}, {}, {}, agent, r1, {}) }

\* A proposal for the confirmed incident, one for the contradicted one.
MCProposals ==
    { [incident |-> AdjudicationId(Adjudication({e1}, {}, {}, h1, r1, {})), expires |-> 1, body |-> r1],
      [incident |-> AdjudicationId(Adjudication({e1}, {k2}, {e2}, h1, r1, {})), expires |-> 1, body |-> r1] }
=============================================================================
