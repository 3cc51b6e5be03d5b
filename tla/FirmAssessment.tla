--------------------------- MODULE FirmAssessment ---------------------------
(***************************************************************************)
(* Assessments of one engagement run concurrently and store profile, plan  *)
(* and one row per service, each call in one transaction of its own.  The  *)
(* rows' ids name the snapshot and not the target, so the calls of two     *)
(* targets with equal content write the same plan and service rows.        *)
(* Locks and visibility are those of READ COMMITTED.                       *)
(***************************************************************************)
EXTENDS SecurityServices

CONSTANTS
    Calls,           \* concurrent calls of the firm's services
    Requests,        \* [target, snapshot, advisories]: what calls are made with
    ContentOf,       \* snapshot id -> content; ids are ordered, here as numbers
    RunIdRank,       \* snapshot id -> place of its run ids, whose tails are hashed
    ScopeNamesAgents, \* whether the engagement's scope speaks of agents
    Missing          \* get found no row

ASSUME RequestsAssumption ==
    /\ \A r \in Requests : r.target \in Nat /\ r.snapshot \in DOMAIN ContentOf
    /\ \A s \in DOMAIN ContentOf : s \in Nat /\ Content(ContentOf[s])
    /\ RunIdRank \in [DOMAIN ContentOf -> Nat]
    /\ ScopeNamesAgents \in BOOLEAN

VARIABLES
    executable, \* the engagement is in a status that permits inspection
    profiles,   \* profile rows: pairs of a target and a snapshot
    plans,      \* plan rows by snapshot: the target column and the payload
    runs,       \* service-run rows by snapshot and service: the assessment a row is of
    calls

firmVars == <<executable, profiles, plans, runs, calls>>

ContentIds == DOMAIN ContentOf
Idle == [stage |-> "idle"]

FirmTypeOK ==
    /\ executable \in BOOLEAN
    /\ profiles \subseteq {<<r.target, r.snapshot>> : r \in Requests}
    /\ DOMAIN plans \subseteq ContentIds /\ DOMAIN runs \subseteq ContentIds \X Services
    /\ \A c \in Calls : calls[c].stage \in
        {"idle", "intel", "profile", "flush_profile", "plan", "flush_plan", "runs"}

FirmInit ==
    /\ executable = TRUE
    /\ profiles = {}
    /\ plans = <<>> /\ runs = <<>>
    /\ calls = [c \in Calls |-> Idle]

\* The engagement is suspended, closed or authorized again while calls run.
EngagementMoves == executable' = ~executable /\ UNCHANGED <<profiles, plans, runs, calls>>

-----------------------------------------------------------------------------
\* The matches of a call, and what the call computes once they are decided.
CallMatches(c) == MatchesOf(ContentOf[calls[c].request.snapshot], calls[c].request.advisories)

Assessed(c) ==
    LET r == calls[c].request
        d == calls[c].decided
    IN  Assessment(r.target, r.snapshot, ContentOf[r.snapshot], ScopeNamesAgents, r.advisories,
                   [i \in DOMAIN d |-> d[i].decision])

Goto(c, stage) == calls' = [calls EXCEPT ![c].stage = stage]

Begin(c, r, feed, stores) ==
    /\ calls[c] = Idle
    /\ calls' = [calls EXCEPT ![c] = [stage |-> "intel", request |-> r, feed |-> feed, stores |-> stores,
                                      decided |-> <<>>, seen |-> Missing, saved |-> {}]]
    /\ UNCHANGED <<executable, profiles, plans, runs>>

\* FirmSecurityServices.run called with canonical references: no feed state is
\* passed on, and vulnerability intelligence starts from its default.
RunServices(c) == \E r \in Requests : Begin(c, r, "NOT_RUN", TRUE)

\* get_plan and get_profile_for_engagement, where there is a plan: the smallest
\* plan of the engagement, and the smallest profile some plan's column names.
StoredPlan == plans[Min(DOMAIN plans)].payload
StoredProfile ==
    LET ids == {<<plans[s].target, s>> : s \in DOMAIN plans}
    IN  CHOOSE p \in ids : \A q \in ids : p[1] < q[1] \/ (p[1] = q[1] /\ p[2] <= q[2])

\* InspectionFirmRunner.run: the engagement executable, the stored profile and
\* plan those of the request; it is refused otherwise.
Inspect(c) ==
    /\ executable
    /\ DOMAIN plans # {}
    /\ \E r \in Requests :
        /\ StoredPlan.target = r.target /\ StoredPlan.snapshot = r.snapshot
        /\ StoredProfile = <<r.target, r.snapshot>>
        /\ Begin(c, r, "NOT_RUN", TRUE)

\* VulnerabilityIntelligenceService.assess called for itself, with a feed state.
AssessIntelligence(c) == \E r \in Requests, feed \in FeedStates : Begin(c, r, feed, FALSE)

\* One match is enriched and given its priority.  What was fresh at the time is
\* remembered for the property, from the feeds' answers themselves.
DecideMatch(c) ==
    /\ calls[c].stage = "intel"
    /\ Len(calls[c].decided) < Len(CallMatches(c))
    /\ LET a == CallMatches(c)[Len(calls[c].decided) + 1][1]
       IN  \E kev \in KevAnswers, epss \in EpssAnswers(a) :
            calls' = [calls EXCEPT ![c].decided = Append(@,
                [decision |-> Priority(a, Enrich(a, calls[c].feed, kev, epss)),
                 current  |-> /\ calls[c].feed = "FRESH" /\ a.provenance # "incomplete"
                              /\ "KEV" \in Feeds => kev = [state |-> "FRESH", matched |-> TRUE]
                              /\ "EPSS" \in Feeds => epss = "FRESH"])]
    /\ UNCHANGED <<executable, profiles, plans, runs>>

IntelDone(c) == calls[c].stage = "intel" /\ Len(calls[c].decided) = Len(CallMatches(c))

\* The service called for itself returns; nothing is stored.
ReturnResult(c) ==
    /\ IntelDone(c) /\ ~calls[c].stores
    /\ calls' = [calls EXCEPT ![c] = Idle]
    /\ UNCHANGED <<executable, profiles, plans, runs>>

\* The other services, adjudication and report follow from the content, and
\* the call begins to store.
ComposeReport(c) ==
    /\ IntelDone(c) /\ calls[c].stores
    /\ Goto(c, "profile")
    /\ UNCHANGED <<executable, profiles, plans, runs>>

-----------------------------------------------------------------------------
ProfileId(c) == <<calls[c].request.target, calls[c].request.snapshot>>
PlanId(c) == calls[c].request.snapshot

\* A flushed row stays locked until its transaction ends.
ProfileLocked(c) ==
    \E d \in Calls \ {c} : calls[d].stage \in {"plan", "flush_plan", "runs"} /\ ProfileId(d) = ProfileId(c)
PlanLocked(c) == \E d \in Calls \ {c} : calls[d].stage = "runs" /\ PlanId(d) = PlanId(c)

\* merge reads the row before flush writes it.
ReadProfile(c) ==
    /\ calls[c].stage = "profile"
    /\ calls' = [calls EXCEPT ![c].stage = "flush_profile", ![c].seen = ProfileId(c) \in profiles]
    /\ UNCHANGED <<executable, profiles, plans, runs>>

\* The flush inserts what was not seen, which raises over a row committed since.
FlushProfile(c) ==
    /\ calls[c].stage = "flush_profile" /\ ~ProfileLocked(c)
    /\ calls' = [calls EXCEPT ![c] = IF ~calls[c].seen /\ ProfileId(c) \in profiles THEN Idle
                                     ELSE [@ EXCEPT !.stage = "plan", !.seen = Missing]]
    /\ UNCHANGED <<executable, profiles, plans, runs>>

ReadPlan(c) ==
    /\ calls[c].stage = "plan"
    /\ calls' = [calls EXCEPT ![c].stage = "flush_plan",
                              ![c].seen = IF PlanId(c) \in DOMAIN plans THEN plans[PlanId(c)].target ELSE Missing]
    /\ UNCHANGED <<executable, profiles, plans, runs>>

FlushPlan(c) ==
    /\ calls[c].stage = "flush_plan" /\ ~PlanLocked(c)
    /\ calls' = [calls EXCEPT ![c] = IF calls[c].seen = Missing /\ PlanId(c) \in DOMAIN plans THEN Idle
                                     ELSE [@ EXCEPT !.stage = "runs"]]
    /\ UNCHANGED <<executable, profiles, plans, runs>>

\* What a commit makes visible: the profile, the plan with the columns that
\* differ from the row read, and the service rows saved.
Store(c, saved) ==
    LET s    == PlanId(c)
        rows == {s} \X saved
    IN  /\ profiles' = profiles \cup {ProfileId(c)}
        /\ plans' = [x \in DOMAIN plans \cup {s} |->
                IF x # s THEN plans[x]
                ELSE [target  |-> IF calls[c].seen = calls[c].request.target THEN plans[s].target
                                  ELSE calls[c].request.target,
                      payload |-> Assessed(c)]]
        /\ runs' = [k \in DOMAIN runs \cup rows |-> IF k \in rows THEN Assessed(c) ELSE runs[k]]

\* The selected services whose row is to be saved, and the first of them.
ServiceOrder == <<"AGENTSEC", "APPSEC", "SUPPLYCHAIN", "VULNINTEL">>
UnsavedServices(c) == Assessed(c).services \ calls[c].saved
IsNextRun(c, i) == ServiceOrder[i] \in UnsavedServices(c) /\ \A j \in 1..(i - 1) : ServiceOrder[j] \notin UnsavedServices(c)

\* Mutant of SaveRun: every service's row is committed with its receipt.
SaveRunCommits(c) ==
    /\ calls[c].stage = "runs"
    /\ \E i \in DOMAIN ServiceOrder :
        /\ IsNextRun(c, i)
        /\ calls' = [calls EXCEPT ![c].saved = @ \cup {ServiceOrder[i]}]
        /\ Store(c, calls[c].saved \cup {ServiceOrder[i]})
    /\ UNCHANGED executable

\* The rows of the services, one after the other.
SaveRun(c) ==
    /\ calls[c].stage = "runs"
    /\ \E i \in DOMAIN ServiceOrder :
        /\ IsNextRun(c, i)
        /\ calls' = [calls EXCEPT ![c].saved = @ \cup {ServiceOrder[i]}]
    /\ UNCHANGED <<executable, profiles, plans, runs>>

Commit(c) ==
    /\ calls[c].stage = "runs" /\ UnsavedServices(c) = {}
    /\ Store(c, calls[c].saved)
    /\ calls' = [calls EXCEPT ![c] = Idle]
    /\ UNCHANGED executable

\* A call fails anywhere before its commit, and its transaction is rolled back.
CallDies(c) ==
    /\ calls[c] # Idle
    /\ calls' = [calls EXCEPT ![c] = Idle]
    /\ UNCHANGED <<executable, profiles, plans, runs>>

FirmNext ==
    \/ EngagementMoves
    \/ \E c \in Calls :
        \/ RunServices(c) \/ Inspect(c) \/ AssessIntelligence(c)
        \/ DecideMatch(c) \/ ReturnResult(c) \/ ComposeReport(c)
        \/ ReadProfile(c) \/ FlushProfile(c) \/ ReadPlan(c) \/ FlushPlan(c)
        \/ SaveRun(c) \/ Commit(c) \/ CallDies(c)

FirmSpec == FirmInit /\ [][FirmNext]_firmVars

-----------------------------------------------------------------------------
\* The first service in order is the one whose row holds the chain.
ChainRow(s) == <<s, IF ScopeNamesAgents \/ ContentOf[s].agentic THEN "AGENTSEC" ELSE "APPSEC">>
Chains == {s \in ContentIds : ChainRow(s) \in DOMAIN runs}

\* get_assessment_chain: the first row, by run id, that holds one.  _safe_slug
\* hashes the tail of a long run id, so that the order of the run ids need not
\* be that of the snapshots.
FirstChain == CHOOSE s \in Chains : RunIdRank[s] = Min({RunIdRank[t] : t \in Chains})
AssessmentChain == runs[ChainRow(FirstChain)]

\* Whatever calls interleave, wait for each other's rows or die, what is stored of
\* a snapshot is one assessment: its plan, all of its services' rows and the
\* profile of its target; and wherever anything is stored, the chain that
\* reconstruct_assessment starts from is that of a stored plan, though not always
\* of the one get_plan answers (FirmSecurityServices.run, get_assessment_chain).
CommittedAssessmentIsWhole ==
    /\ DOMAIN runs = UNION {{s} \X plans[s].payload.services : s \in DOMAIN plans}
    /\ \A k \in DOMAIN runs : runs[k] = plans[k[1]].payload
    /\ \A s \in DOMAIN plans : <<plans[s].payload.target, s>> \in profiles
    /\ DOMAIN plans # {} => \E s \in DOMAIN plans : AssessmentChain = plans[s].payload

\* Mixed answers of the feeds never add up to urgency: a match is URGENT only when
\* the call's feed and every configured feed answered fresh for this match, and the
\* KEV catalogue lists it (VulnerabilityIntelligenceService.priority).
UrgentIsCurrent ==
    \A c \in Calls : calls[c] # Idle =>
        \A i \in DOMAIN calls[c].decided :
            calls[c].decided[i].decision.priority = "URGENT" => calls[c].decided[i].current
=============================================================================
