---------------------- MODULE VulnerabilityIntelligence ----------------------
(***************************************************************************)
(* Vulnerability intelligence: advisories are matched with the             *)
(* dependencies of a snapshot, enriched from the KEV and EPSS feeds, each  *)
(* of which is asked again for every match and may be fresh, stale or down *)
(* at each question, and given a priority.                                 *)
(***************************************************************************)
EXTENDS FiniteSetsExt, Integers, Sequences

CONSTANT
    Feeds \* the feeds the enricher is configured with

ASSUME FeedsAssumption == Feeds \subseteq {"KEV", "EPSS"}

FeedStates == {"FRESH", "STALE", "UNAVAILABLE", "NOT_RUN"}
Priorities == {"URGENT", "HIGH", "ROUTINE", "INCONCLUSIVE"}

\* Names are a stem and a separator; PyPI does not tell the separators apart.
Normal(name, ecosystem) == IF ecosystem = "PyPI" THEN [name EXCEPT !.sep = "-"] ELSE name

\* The pair of an advisory and a dependency is a match.
Matches(a, d) ==
    /\ Normal(a.name, a.ecosystem) = Normal(d.name, d.ecosystem)
    /\ a.version = d.version

\* The smallest CVE among the identifiers, or the source's own id.
CanonicalId(a) == IF a.cves = {} THEN a.id ELSE Min(a.cves)

\* What the feeds may answer for an advisory.  A version that is missing,
\* unreadable or older than 30 days is stale; a request that fails or is
\* malformed leaves its feed unavailable.  EPSS is asked about CVEs only.
KevAnswers == [state : {"FRESH", "STALE"}, matched : BOOLEAN]
                  \cup [state : {"UNAVAILABLE"}, matched : {FALSE}]
EpssAnswers(a) == IF a.cves = {} THEN {"NOT_RUN"} ELSE {"FRESH", "STALE", "UNAVAILABLE"}

\* The feed state an advisory starts from: fresh data needs a source.
Effective(a, feed) == IF feed = "FRESH" /\ a.provenance = "incomplete" THEN "NOT_RUN" ELSE feed

\* Mutant of Freshness: an answer outweighs what the feeds did not know.
FreshnessOfBest(states) ==
    IF "FRESH" \in states THEN "FRESH"
    ELSE IF "UNAVAILABLE" \in states THEN "UNAVAILABLE"
    ELSE IF "STALE" \in states THEN "STALE" ELSE "NOT_RUN"

\* The worst state of the sources.
Freshness(states) ==
    IF "UNAVAILABLE" \in states THEN "UNAVAILABLE"
    ELSE IF "STALE" \in states THEN "STALE"
    ELSE IF "NOT_RUN" \in states THEN "NOT_RUN" ELSE "FRESH"

\* enrich: freshness, KEV status and open questions of a match, those the
\* advisory came with among them.  An unavailable catalogue leaves the KEV
\* status the advisory came with.
Enrich(a, feed, kev, epss) ==
    [freshness |-> Freshness({Effective(a, feed)}
                             \cup (IF "KEV" \in Feeds THEN {kev.state} ELSE {})
                             \cup (IF "EPSS" \in Feeds THEN {epss} ELSE {})),
     kev       |-> IF "KEV" \in Feeds /\ kev.state # "UNAVAILABLE" THEN kev.matched ELSE a.kev,
     unknown   |-> \/ a.unknowns
                   \/ "KEV" \in Feeds /\ kev.state = "UNAVAILABLE"
                   \/ "EPSS" \in Feeds /\ epss = "UNAVAILABLE"]

\* priority: what is unknown keeps a match from being urgent or routine.
Priority(a, record) ==
    LET unknown == \/ record.unknown \/ record.freshness # "FRESH"
                   \/ a.reachability \notin {"REACHABLE", "LIKELY_REACHABLE"}
                   \/ a.exposure # "ESTABLISHED"
    IN  IF record.kev /\ a.reachability = "REACHABLE" /\ ~unknown
        THEN [priority |-> "URGENT", severity |-> "HIGH", confidence |-> "HIGH"]
        ELSE IF a.reachability \in {"REACHABLE", "LIKELY_REACHABLE"} /\ a.fixed
        THEN [priority |-> "HIGH", severity |-> "MEDIUM", confidence |-> IF unknown THEN "MEDIUM" ELSE "HIGH"]
        ELSE IF unknown
        THEN [priority |-> "INCONCLUSIVE", severity |-> "MEDIUM", confidence |-> "UNKNOWN"]
        ELSE [priority |-> "ROUTINE", severity |-> "LOW", confidence |-> "MEDIUM"]

\* The claim candidate of a match, whatever its priority.
VulnerabilityCandidate(a, d, decision) ==
    [service |-> "VULNINTEL", key |-> <<"vulnerability", CanonicalId(a), Normal(a.name, a.ecosystem)>>,
     evidence |-> <<d.path, "vulnintel">>,
     severity |-> decision.severity, confidence |-> decision.confidence]
=============================================================================
