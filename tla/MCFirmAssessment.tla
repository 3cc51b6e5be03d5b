-------------------------- MODULE MCFirmAssessment --------------------------
(***************************************************************************)
(* Two calls; two targets with equal content, so with one snapshot id, and *)
(* a later snapshot of the first.  The first advisory is known exploited   *)
(* and reachable; the second names its package with another separator,     *)
(* which PyPI does not tell apart, shares a CVE with it and leaves things  *)
(* unknown.                                                                *)
(***************************************************************************)
EXTENDS FirmAssessment

CONSTANTS c1, c2

MCCalls == {c1, c2}
Symmetry == Permutations(MCCalls)

Package(sep) == [stem |-> "package", sep |-> sep]

Known == [id |-> 10, name |-> Package("_"), ecosystem |-> "PyPI", version |-> 1, cves |-> {2, 3}, kev |-> TRUE, unknowns |-> FALSE,
          fixed |-> FALSE, provenance |-> "complete", reachability |-> "REACHABLE", exposure |-> "ESTABLISHED"]
Alias == [Known EXCEPT !.id = 11, !.name = Package("-"), !.cves = {2}, !.fixed = TRUE, !.unknowns = TRUE,
                       !.provenance = "incomplete", !.reachability = "LIKELY_REACHABLE"]

MCContentOf ==
    1 :> [signals |-> {<<"app.py", "secret">>}, agentic |-> FALSE,
          dependencies |-> <<[name |-> Package("-"), ecosystem |-> "PyPI", version |-> 1,
                              path |-> "requirements.txt"]>>]
 @@ 2 :> [signals |-> {<<"agent.md", "instruction">>}, agentic |-> TRUE, dependencies |-> <<>>]

\* The hashes turn the order of the snapshots round.
MCRunIdRank == 1 :> 2 @@ 2 :> 1

MCRequests ==
    {[target |-> 1, snapshot |-> 1, advisories |-> <<Known>>],
     [target |-> 2, snapshot |-> 1, advisories |-> <<Alias, Known>>],
     [target |-> 1, snapshot |-> 2, advisories |-> <<Known>>]}
=============================================================================
