------------------------ MODULE MCContinuousSecurity ------------------------
EXTENDS ContinuousSecurity

CONSTANTS t1, t2, j1, b1, b2, s1, c1, q1, x1, o1, o2

Job(scope, body) ==
    [scope |-> scope, id |-> j1, body |-> body, signedAt |-> s1,
     verified |-> TRUE, matches |-> TRUE, permitted |-> TRUE]

\* One job id in two scopes, and once more with content that the gate refuses.
MCJobs == {Job(t1, b1), Job(t2, b1), [Job(t2, b2) EXCEPT !.permitted = FALSE]}

MCDeclaration == [name |-> c1, content |-> x1]

\* One tool, and one request id with two bodies.
MCDeclarations == {MCDeclaration}
MCRequests == {[id |-> q1, occurred |-> s1, authority |-> x1, body |-> b, needs |-> {MCDeclaration}]
                 : b \in {b1, b2}}
=============================================================================
