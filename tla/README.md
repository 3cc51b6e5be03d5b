# Sec-Scan-Monitor: formal models

TLA+ models of the platform under `src/analysis/src/secscan/platform` (paths below
are relative to it unless they start with `src/`), TLC configurations that check
them on small instances, and TLAPS proofs of the results that hold for every value
of the constants. `PROJECT.json` ties each definition to the source lines it models,
lists the runs, the mutated definitions that show each property has teeth, the
hazards and the theorems.

Run a model with `tlc -config MCHunts.cfg MCHunts`, a proof with
`tlapm EngagementProofs.tla`.

## 1. Inventory

| Component | State it keeps | Operations | What is hard |
|---|---|---|---|
| Detection work queue (`persistence/live_control_plane.py`, `application/detection_response_orchestration.py`) | one row per event: status, worker, lease, attempts, run ids; the detection runs | `ingest_event` (and its replay), `claim_work`, `claim_one`, `persist`, `complete_work`, `fail_work`, `dispatch_pending`, `dispatch_one` | several workers, leases that expire, read-then-write transactions at READ COMMITTED, worker crash |
| Hunts (`application/live_incident_control_plane.py`, `detection_response/engine.py`) | plan rows with status, worker and lease; execution rows | request, claim, run, save, startup recovery | a call that dies holding a lease; the lease is checked by an unlocked read; results with one identity |
| Incidents (same service and engine) | hypotheses, investigations, adjudications, incidents | open, adjudicate | evidence of two sides, derived identities, repeated adjudication |
| Response proposals and approvals (same service) | proposals, capability requests, approvals | propose, decide | policy, incident and expiry read before the deciding transaction |
| Policy kernel and adapter (`policy/kernel.rego`, `policy/__init__.py`) | none | `decision`, `decide` | two implementations of one policy, overlapping rules |
| Authority service (`application/authority_service.py`, `domain/authority.py`) | grants, approvals | `grant`, `revoke`, `create_approval`, `decide_approval`, `decide` | order of grants, revocations, approvals and use |
| Engagement (`domain/engagement.py`, `application/engagement_service.py`) | status, suspended_from, history, refusal reason, audit events | create, transition, suspend, resume, refuse | long sequences of suspension and resumption |
| Local API (`api/app.py`, `audit/__init__.py`) | one aggregate object per engagement, one audit sink, shared by request threads | create, authorize, suspend, resume | unlocked concurrent mutation |
| Engagement workflow (`workflows/`, `persistence/side_effect_ledger.py`) | the run's position, pause flag, approval slot; the side-effect ledger | seven activities, `pause`, `resume`, `approve`, `deny` | at-least-once activities, lost results, signals, races with people |
| Hosted commands (`hosted/commands.py`, `hosted/identity.py`) | engagement, target link, grant, workflow and membership rows | create, authorize, start inspection | an external start inside a transaction, two creations of one id, memberships that end |
| State reconciliation (`application/state_reconciliation_service.py`) | workflow rows, audit events | read, probe, write | acts on three reads that are stale when it writes |
| Event plane, edge runner, agent gateway (`continuous_security/events.py`, `runner.py`, `gateway.py`) | events by identity, receipts, decisions, evidence | ingest, submit, authorize, complete | receipts before events, reused ids, stores that refuse |
| Sandbox (`sandbox/__init__.py`) | containers | execute | commands that never exit, a daemon that fails at any step |
| Patrol, security graph, campaigns (`continuous_security/patrol.py`, `graph.py`, `campaign.py`) | findings by condition, stored graphs | patrol, query | runs that fail half way, conditions that come back, cycles |
| Security services (`application/security_services.py`, `domain/planning.py`, `adjudication/`, `reports/`) | profile, plan and service-run rows | assess, inspect, store, read back | feeds that flap, concurrent calls over shared row ids |
| Read models (`persistence/repositories.py`, `read_models.py`) | none | paged lists | rows inserted during a walk |
| Capabilities, agents, model gateway, object storage, qualification, user interfaces | mostly none between calls | transformations and I/O | external input |

Interactions: security sources call ingestion, which creates work items; dispatching
workers claim them and write detection runs and signals. Operators open hypotheses over
signals, adjudicate them to incidents, and propose and approve responses under the
policy kernel. The engagement workflow runs activities that ask the kernel through
the same policy input, call agents and services, and move the engagement. The API and
the hosted commands mutate the same engagements the workflow works on, and
reconciliation compares the recorded runs with the engine. Edge runners and the agent
gateway report to one event plane and store their outputs in one evidence store;
patrols turn changes of a target into findings.

What makes each part correct:

* queue: accepted events are evaluated by every rule that applies before they count
  as completed; a live lease is taken only where a replayed ingest has reopened its row;
  nothing is stranded;
* kernel and authority: allowed means a live grant of the right scope and, for
  high risk, an approval that its requester did not decide; every request gets one
  decision; both implementations agree;
* engagement: no gate is skipped, suspension returns where it came from, history
  and status agree;
* API: once no more requests come in, every request is answered; no event is lost;
* workflow: no specialist works unauthorized, a closed run has a report, a run ends or
  waits for a person;
* hunts: a claimed hunt is finished or becomes recoverable, and nothing stored stands in
  the way of finishing it;
* incidents and responses: an incident stands on stored evidence of its own hypothesis'
  signals and its own claims, a response is
  approved by a second person, once, and both its rows say so;
* hosted case: a row that says running has a run, a run has a grant and a target of its
  client, reconciliation closes no live run it was told of;
* continuous security: what receipts and events say was executed, allowed and stored
  really was, and a receipt is on the event plane unless another event took its identity
  first; findings follow the surfaces that a patrol saw change; queries find every exposure
  up to the first end on its path;
* security services: what is stored of a snapshot is one whole assessment; urgency
  needs current intelligence.

## 2. Modules

| Module | Models | Kind |
|---|---|---|
| `DetectionLedger` | what the work queue promises | abstract specification |
| `DetectionWork` | the queue's transactions, workers and replaying sources | detailed, refines `DetectionLedger` |
| `DetectionEngine` | what a run of the engine signals, over the queue's stored runs; extends `DetectionWork` | operators |
| `Engagement` | aggregate and service, one action per operation | specification |
| `EngagementApi` | the endpoints' statements on threads | specification; extends `Engagement` |
| `PolicyKernel` | kernel rules and adapter as predicates | operators |
| `Authority` | grants and approvals, and the policy input; extends `PolicyKernel` | specification |
| `EngagementWorkflow` | the run, its activities, ledger and signals; extends `Engagement` | composition |
| `Hunts` | hunt plans, their claims, executions and the startup recovery | specification |
| `Incidents`, `Responses`, `HostedReads` | hypotheses and adjudication; proposals and approvals; paged lists | components |
| `IncidentConsole` | the three of them over one set of signals | composition |
| `HostedAccess`, `HostedCases`, `Reconciliation` | memberships; the hosted commands; reconciliation and the durable engine | components |
| `Hosted` | all of it over one database | composition |
| `EventPlane`, `Sandbox`, `EdgeRunner`, `Gateway` | event identity; one sandboxed execution; jobs and receipts; tool calls of agents | components |
| `ContinuousSecurity` | runner and gateway on one plane and one evidence store | composition |
| `Patrol`, `SecurityGraph` | snapshot differences and findings; stored graphs and path queries | components |
| `Campaign` | a target under patrol | composition |
| `VulnerabilityIntelligence`, `SecurityServices` | feeds and priorities; the services, adjudication and report as functions | operators |
| `FirmAssessment` | concurrent assessments and their transactions | specification |
| `DetectionWorkProofs` | queue, refinement of the ledger, and the engine's signals | proofs |
| `EngagementProofs` | the aggregate and, over it, the workflow and the API threads | proofs |
| `AuthorityProofs` | kernel, adapter and authority | proofs |
| `HuntsProofs`, `HostedProofs`, `ContinuousSecurityProofs` | the specifications of these names | proofs |
| `IncidentConsoleProofs` | incidents, responses and paged lists | proofs |
| `CampaignProofs` | patrol and security graph; the firm's assessments | proofs |
| `MC...` | constants for TLC (`Engagement.cfg` and `EngagementApi.cfg` need no module of their own) | instances |

### DetectionWork

`status`, `worker`, `lease`, `attempts`, `runIds` are the columns of
`DetectionWorkItemRow`; `lease[e]` is `lease_until - now` in ticks. `runs` are the rows
of the detection runs. `pc`, `cur`, `todo`, `seen`, `left`, `made` are the local
variables of a worker in `dispatch_pending` and `_process_claimed`; `reopening` is the
row a replaying `ingest_event` has read. `claim_work` takes row locks
(`FOR UPDATE SKIP LOCKED`) and is one step. `complete_work`, `fail_work` and the replay
branch of `ingest_event` read a row without a lock and write it at the end of their
transaction, so each is a read step and a commit step. A worker may crash at any step;
its item is then only released by time. `MaxAttempts` gives each event its number of
claims, a bound. A rule is a constant relation `Applies` to
events: the source families its plan supports.

`DetectionLedger` keeps only what is accepted, evaluated and closed. The refinement
mapping reads closed off the status and the evaluated rules off the committed runs.

### DetectionEngine

A stored run is a rule and the events it loaded, and `SignalsOf` is what
`DetectionEngine.run` makes of them: a signal per matching event, or, for a rule that
counts over a window, one per window that reaches the threshold. `Window` is the group of
an event's correlation keys, sorted by time and id, up to the event and back to the
bound, which belongs to it. Signals are saved with their run in one transaction, under
identities that leave out when they were detected, so the stored signals are those of the
stored runs. Which events satisfy the predicates is the constant `Matched`: it depends on
the event alone.

### Engagement

One record per engagement: `status`, `suspendedFrom`, `history` (from/to pairs),
`audit` (event kinds), `refusalReason` (whether it is set). `Transitions` is the table,
`Permitted` the guard with the resume rule, `Change` the assignments and the recorder
call. `RefuseRejected` is the refusal whose transition is rejected after the reason was
assigned. `MaxHistory` bounds the number of transitions for TLC; the proofs leave it
arbitrary.

### EngagementApi

Each request thread executes `transition` one statement at a time on the shared object:
check, clear, read, write status, record `suspended_from`, append history, read the sink's
last event, append. The loop of `authorize_engagement` is kept. `MaxCalls` bounds the
requests. `links` holds, for each audit event, the event it links to.

### PolicyKernel and Authority

Each rule body of `kernel.rego` is a predicate on the policy input; `Decisions` is the
set of decisions some rule derives, so "no decision" and "conflict" are visible.
`AdapterDecide` is the adapter's chain of early returns; it leaves out the kernel's
test of mutations against the engagement's level, which in the adapter is commented
out, so the two are compared on the actions that change nothing. `Authority` builds the policy
input as `AuthorityService.decide` does, picking a grant and an approval, and its
properties quantify over every request in every reachable state. `MakeInspectionGrant`
is the conditioned grant of `PostgresHostedCommandService.authorize_case`. Time is
abstracted: a grant ends by `EndGrant`, which stands for revocation and for expiry.

### EngagementWorkflow

`stage` is the activity the run is at, `paused` and the approval slot are the signal
state, `ledger` is the side-effect ledger. An attempt of an activity may fail before
its effect, or have its effect and lose its result, and is then retried up to
`MaximumAttempts` times. While the run is on, people decide approvals, revoke the
grant, and suspend or resume the engagement. The engagement is the one of `Engagement`,
not a copy: `close_engagement` walks the real transition table.

### Hunts

`status`, `worker`, `lease` are the columns of `HuntPlanRow`, `executions` the rows of
`HuntExecutionRow`. A call is `request_hunt` or `recover_pending_hunts`; `cur`, `todo`,
`found` are its local variables and `saving` what its open transaction will write.
`claim_hunt` locks the row and is one step, `save_hunt` is a read and a commit. Each
call has a fresh worker id, so the id of a call that is over is `Gone`. An execution is
its plan, what matched and, when nothing did, what was in the window: its identity
(`SameId`) leaves the last one out, as `stable_id` does, and `save_hunt` and the primary
key are what keep two such results apart. The recovery takes its plans in any order,
which includes the order of their creation.

### Incidents, Responses, HostedReads and IncidentConsole

`hypotheses`, `investigations`, `adjudications` and `incidents` are sets of rows;
`Saves` is the insert-or-replay under a derived identity (`AdjudicationId` leaves out
person, reason, severity and observations, so that a second adjudication of the same
evidence is a replay or a conflict). Signals and claims are stored by other parts and
never change, so a call's reads stay true and `Adjudicate` is one step. A decision on a
response is two steps: `BeginDecision` is what `decide_response_approval` checks before
the transaction, with any policy answer, and `RecordDecision` the locked transaction of
`decide_approval`; the clock, other calls and repeated proposals come between. A
proposal's identity is its content. In `HostedReads` a list is the set of rows in the
order of ids, a cursor an offset; in `IncidentConsole` the list is that of the signals.

### HostedAccess, HostedCases, Reconciliation and Hosted

`cases`, `links`, `grants`, `rows`, `audit` are tables; `runs` is what the durable engine
really runs, at most one run for an identity. A command is a read step and a write step
of one transaction at PostgreSQL's default isolation, and for `start_inspection` the
starter's call between them, which may be delivered or not and answered or not; any
command may die in between. The write repeats what SQLAlchemy would send: only the
columns that changed of the row read before. `CanAccess` and `SeesUnder` are the
application's scope and row level security. The executor of a run, its record of the end
and membership administration are outside the repository and marked external.

### EventPlane, Sandbox, EdgeRunner, Gateway and ContinuousSecurity

An event's identity is derived from its source and time and leaves its content out;
`IdentityTaken` is the conflict that `ingest` raises. `Sandbox` is one execution: start,
wait, removal, for the Docker and the hosted backend, under a daemon that goes down and
comes back at any step; a step that fails is a step taken while it is down. `EdgeRunner`
walks through `submit` stage by stage: replayed receipt, gate, execution, evidence,
receipt, event, each of which may fail and leave what was done before. `Gateway` keeps
the last decision for a request id and the registry of agents and tools.

### Patrol, SecurityGraph and Campaign

A surface is a key of a security surface or the security surface as a whole (the `$` of
`diff_snapshots`), which has a value where it is no dictionary. A snapshot assigns each a
value, null among them, or `Absent`. `KeyDelta` reads an absent key as null, as `dict.get`
does, and `DeltaState` gives the keys no delta and the whole a CHANGED one where the security
surface is not a dictionary on both sides. `looked` is a history variable: the surfaces whose
state in the baseline was reached by a delta. `Assess` says which conditions the assessment
finds for a value and which of them are adjudicated; it is the caller's, and any function of
surface and value, so the one in `campaign.py` is an instance. An assessment that looks at the
value before, too, is not. `Patrolled(store, k)` is
the store after the first k deltas, which gives both the run and the run that raises at a
surface; the caller of a failed run repeats it with the same snapshots. `Frontier` is the
breadth-first search of `paths_between` with its visited set and depth bound; the
reference definition is `Walks`.

### VulnerabilityIntelligence, SecurityServices and FirmAssessment

A snapshot's content is what the detectors find in it and its dependencies. The four services,
`Verdict`, `Finding` and `Assessment` are functions of that content and of the priorities
of the matches; the only nondeterminism is in the feeds, which answer each question of
`Enrich` anew. A call of `FirmAssessment` decides match after match and then stores
profile, plan and service rows in one transaction whose flushes take row locks. Plan and
service-run ids omit the target, so that two targets with equal content meet on the same
rows. Status and limitations of services and report are left out. `RunIdRank` is the order of
the run ids: `_safe_slug` hashes the tail of an id beyond 56 characters, which an engagement id
of ordinary length brings about, so it need not be the order of the snapshots. `current` in a
decided match records what the feeds said, for `UrgentIsCurrent`.

## 3. Runs

| Run | Bounds | States | Shows |
|---|---|---|---|
| `detection_work` | 2 events, 1 rule, 2 workers, 1 source, lease of 1 tick, claim limit 2, 3 claims of one item and 1 of the other | 489,831 | the refinement of the ledger, completed work is evaluated, no stranded row, a burst split over workers is signalled, a live lease is taken only of a row that was reopened and claimed before, and dropped items become claimable (`LeasesExpire`) |
| `engagement` | 13 transitions, enough for the ten-phase path with suspensions in between | 1,320 | no skipped phase, history is a path, suspension is resumable, refused means never authorized |
| `api_threads` | 2 threads, 2 requests | 729,745 | no lost audit event; every request is answered once no more come in (`AnsweredOnceRequestsStop`) |
| `authority` | 2 principals, 2 engagements, 2 targets, a grant, an approval | 28,520 | allowed means authorized; unconditioned grants are decided; the adapter agrees with the kernel on inspections |
| `workflow` | 3 attempts, 2 approvals, 5 transitions | 198,208 | no work without authorization, closed means reported, and the run ends or waits for a person |
| `hunts` | 2 calls at a time, 2 plans (one of which can exceed its event limit), 2 events, lease of 1 tick | 166,704 | a completed hunt has its execution, only completed hunts have one, the plan's columns agree, no live lease is taken, and abandoned hunts become recoverable |
| `continuous` | one job id in two scopes and once with refused content, one tool, one request id with two bodies, 2 outputs, 2 containers | 484,716 | a receipt is reported or another event has its identity, a completion was allowed, events have their evidence, and `submit` returns |
| `campaign` | a security surface with 2 keys, each of them and the whole null, a value or absent, 4 conditions, all 16 graphs over a menu of 4 edges, depth 3 | 279,072 | findings follow the surfaces that came to their state through a delta, a failed run can be repeated, queries return what the walks up to the first end reach |
| `incident_console` | 3 operators and an agent, 3 signals, 2 claims, 6 adjudications of which 3 are refused, 2 proposals, 2 decisions in flight, one tick, pages of one row | 332,434 | incidents are grounded, approvals are a second person's, final and mirrored by the proposal, no row is missed |
| `hosted` | 1 operator in 2 clients, one case id with a request for each, 2 commands in flight | 1,509,622 | running rows were started, runs are granted and on their client's target, no live run is reconciled away |
| `firm` | 2 calls, 2 targets with equal content, 2 snapshots, 2 advisories, both feeds | 53,576 | a stored assessment is whole, urgent is current |
| `detection_completed` | 1 event | | violation of `CompletedWorkStaysCompleted`, see below |

Why these bounds. Two workers and two events are the least in which a claim, an expiry
and a stale commit meet on one item while a batch is dropped; the second claim is what
makes the first worker's commit stale, and the third what takes a lease that is live. The two events lie exactly one window apart, under a
threshold of two and with ids against their order in time. Two threads suffice for every race of two
requests. Three attempts is the retry policy of the code, not a bound. Two approvals let
a retried coordinator attempt leave a second one. One tick takes a proposal from valid to
expired between the two halves of a decision; three operators are the requester and two
who disagree. In `campaign`, two values of which one is null are what a key needs to lose its
delta when it is removed, and two keys under one whole what the change to something other
than a dictionary needs. In `hosted`, two commands on one case are any pair of create, authorize,
start and reconcile, and one case id in two clients is what the creation race needs. In
`firm`, the two targets share a snapshot id and a third request makes the reads choose
between plans. Calls and commands are symmetric; no liveness property is checked under
symmetry.

Fairness. `detection_work` and `hunts` assume only that time passes (weak fairness of
`Tick`): workers and calls may stop at any step. `api_threads` assumes that each request
thread goes on (weak fairness per thread): the threads wait for nothing. The loop of
`authorize_engagement` reads the status anew at each turn, so that a suspension before each
reading keeps it going; the property is about runs in which requests end. `workflow`
assumes that the workflow engine goes on scheduling the run's steps, which is what a
durable execution service provides; nothing is assumed of people. `continuous` assumes
weak fairness of the steps of `submit` itself, which is one thread that waits only for
the bounded `wait`: not of a command's exit, and not of the daemon.

`CHECK_DEADLOCK FALSE` where the bound on requests, claims or history stops the model
or where a run may end.

### Where code and text disagree

`detection_completed` exhibits one disagreement (quoted in `findings`): a replay that
read a FAILED item reopens it after another worker completed it. The passing run shows
that safety does not rest on this: a completed item is always evaluated, because runs
are committed before the completion and are never deleted.

Others that the models contain, as behaviours no property excludes:

* A replay that read a FAILED item also reopens it after another worker claimed it, and a
  third claim then takes it while the lease is live, against the comment at
  `persistence/live_control_plane.py:306`. `LiveLeaseIsTakenOnlyIfReopened` says that this is
  the only way.
* `complete_work` and `save_hunt` check the lease on an unlocked read; a completion can
  commit after the item went to another worker.
* Two API threads can leave an engagement suspended with `suspended_from` None, which no
  endpoint leaves again.
* A conditioned grant whose conditions do not hold derives both a denial and an allowance
  in the kernel (ADR-0006 speaks of exactly one decision); `UnconditionedGrantsAreDecided`
  is about the other grants.
* An approval is not bound to the principal whose request it lets through: who decided
  somebody's approval can use it for a request of their own. `AllowIsAuthorized` says that two
  different people, requester and decider, stand behind it, not that the requesting principal
  is neither.
* A refusal that the transition table rejects leaves its reason on the engagement.
* A recorded `close_engagement` whose result is lost fails on every retry, since its
  transitions run before the ledger is asked.
* A signal with another id in the same workflow task replaces the awaited one.
* A receipt whose event is refused, because another event has its identity, stays unreported:
  the identity leaves the content out.
* A finding whose condition disappears beside another candidate of its surface stays open; so
  do the findings of a null key that is removed, and of the keys of a security surface that
  stops being a dictionary, neither of which has a delta.
* The path queries stop at an end: one that lies behind another end is not reported.
* `start_inspection` does not read a grant's revocation, so that a revoked grant counts.
* An approval may be recorded after the proposal expired; nothing executes proposals.
* `cleanup_confirmed` is true although Docker's removal failed, which is swallowed.
* Two creations of one case id leave targets of both clients linked;
  `start_inspection` compares the target's client and so still refuses (`RunsAreGranted`).
* A lost answer of the starter leaves a `failed` row beside a run, which reconciliation
  then calls terminal, and a retry is refused once the engagement has moved on; two
  retries that race can set a cancelled or completed row back to running; a probe that is
  unavailable cancels the row of a closed engagement even while its run goes on.
* `FirmSecurityServices.run` passes no feed state on, so `URGENT` is reached only through
  the intelligence service itself; empty provenance counts as complete; matching compares
  names and versions, not ecosystems; an `INCONCLUSIVE` priority with evidence becomes a
  `SUPPORTED` finding of medium confidence; the first advisory of a merged key decides its
  severity; `get_plan` and `get_profile_for_engagement` pick the smallest id, so the
  runner refuses other snapshots; the chain that `get_assessment_chain` finds may be of another
  snapshot than the plan of `get_plan`, since run ids are hashed; and after a race the target
  column of a plan row may differ from its payload.

## 4. Proofs

Every theorem holds for all values of the constants under the assumptions named in the
modules that declare them; TLC evaluates these on every run. They say that constants have
their types, that a model value standing for "nothing" is none of the values it stands
beside, and the few facts of the code that are noted below.

`EngagementProofs`, the aggregate (`EngagementAssumption`). The invariant `IInv` is the
conjunction of `TypeOK`, `HistoryIsAPath`, `SuspensionIsResumable`, `NoPhaseIsSkipped`,
`RefusedWasNeverAuthorized` and `VisitedInv` (the current status and, while suspended, the
state to return to, have been visited).
`NoPhaseIsSkipped` alone is not inductive: a resumption re-enters a phase, and only
`VisitedInv` says that the phase, and so its prerequisites, was visited before. One
lemma computes what `Change` adds to the visited statuses; each action then preserves
each conjunct.

The workflow, in the same module (`WorkflowAssumption`; any number of attempts, approvals
and transitions). Its properties compare what exists with the ledger, so `PassInv` says what
the ledger holds at each stage and `WorkInv` which generations of claims, findings and
report agree there. Both rest on one fact, that a recorded effect is never replaced
(`LedgerGrows`): a retry that finds its effect recorded takes the recorded outcome, so a
lost result cannot turn into another verdict (`FinishKeeps`, `RetryKeeps`). `CloseReaches`
computes that the walk of `close_engagement` over the real transition table ends in closed.

The endpoints on threads, in the same module (no assumption; any set of threads, any number
of requests). `AuditInv` counts: events plus threads that have appended a history entry and
not yet its event make one more than the entries. `ThreadsInv` gives the types it needs, and
that a thread past a check holds the status the later statements use. Two threads may still
append the same predecessor link; the theorem says that no event is lost, not that the links
form one chain.

`DetectionWorkProofs` (`WorkAssumption`, `EngineAssumption`). The inductive invariant adds to
the checked ones what a worker knows at each location: the runs it made are committed,
cover the rules it has done, and read the event of its current item. That is what makes
a stale completion harmless. `QueueImplementsLedger` shows that initial states map to
initial states and every step to a step of the ledger or a stutter.
`ClaimsInv` counts, for `LiveLeaseIsTakenOnlyIfReopened`: a row that failed, or that a replay
or a worker holds, was claimed, and one that was reopened under a live lease twice.
For `EveryBurstIsSignalled`, `LoadsAreOrdered` says that what workers and stored runs have
loaded is ordered by inclusion (accepted events are never deleted, and a load takes all of
them), and `RulesHaveALastRun` that the runs of a rule have a largest input. A burst whose
events are all completed is inside that input, and the window of its last event fires.

`AuthorityProofs` (`AuthorityAssumption`). The invariant adds to `TypeOK`
that no approval in force was decided by its requester (`DecidedByAnother`), the one
fact about the past that `AllowIsAuthorized` needs: the policy input carries the
decider but not the requester, so the kernel cannot check it. The rest is about one
decision: `MatchedIsRecorded` reads the input's grant back to the record,
`BindingIsConditions` shows that the kernel's binding rule repeats the service's filter
but for the conditions, and `KernelCases` computes what the kernel returns, with an
error exactly where a gated request is also denied.

`HuntsProofs` (`HuntAssumption`, which says that a query selects only events of its window).
`CallIsSound` is what a call knows at each location: the execution it holds is its own
plan's and over ingested events, and an open transaction that will insert nothing has seen
the row. So a call that lost its lease can still only complete a plan that has a result.
`UnfinishedHuntIsUnblocked` holds because an execution and its plan's completion are written in
one commit, and nothing takes a completed plan back.

`IncidentConsoleProofs` (`IncidentAssumption`, `ResponseAssumption`, `ReadsAssumption`,
`OrderAssumption`). Rows of the incident tables are only added (`IncidentsGrow`).
`GroundInv` names, for each incident, an adjudication that passed every check on rows still
there, and says that adjudication ids are unique and signals of hypotheses are stored.
`ResponseInv` adds `CallInv`: between the two halves of a decision the approval exists and
an approving call's incident stays confirmed; whether the approval is still pending is
looked up under the lock. `NoRowIsMissed` rests on lemmas about offsets: positions follow
the order of rows and have no gaps (`FirstFrom`), insertions only raise them
(`PositionMonotonic`), and a page without a cursor was the last (`LastPage`); `WalkInv` says
that what was not yet shown lies at or behind the cursor.

`HostedProofs` (`CasesAssumption`, `NoneAssumption`). Nothing is locked between reads and
writes, so a command may rely only on what no step takes back: cases, grants and runs stay
once they are there and a run that is over stays over (`Kept`). `CallsKnow` records what of
this each command in flight has seen: a started answer has its run, an authorization its
grant, a start the client of its target, a probed decision to reconcile a run that is over.

`ContinuousSecurityProofs` (`JobAssumption`, `GatewayAssumption`, `SandboxAssumption`). Plane
and evidence only grow. `SubmitIsBacked` says what a submit in progress has done (its output
is stored before its receipt, its receipt before its event), `AllowedIsReported` that the
gateway's table allows nothing without the event that says so, `CompletionsAreBacked` that a
completion has both. `EventsDiffer` tells the events of the three writers apart. For
`ReceiptIsReportedOrDisplaced`, `IdentityIsReported` and `Origins` follow which writer an
identity on the plane came from.

`CampaignProofs` (`PatrolAssumption`, which says that an assessment finds conditions of its
own surface and none of a key that is not there; `GraphAssumption`, the depth bound and the validation of graphs). `PatrolledAt`
computes what a run has made of each finding, `TreatedOnce` shows that a delta applied twice
does what it does once, and so a repeated run is the undisturbed one (`RepeatedRun`).
`PatrolInv` keeps, while a run waits to be repeated, that the findings of surfaces in `looked`
that are unchanged since the baseline still follow it: the repetition does not look at them
again. `DeltaStates` says what a delta, or none, tells of a surface. The query is
a recursive function: `FrontierExists` shows that its equations have a solution,
`FrontierEquations` that it satisfies them, and `FrontierIsWalks` that each depth holds
exactly the nodes that walks of this length reach.

The firm's assessments, in the same module (`RequestsAssumption`: requests name stored
contents; targets and snapshots are numbered in the order the reads sort plans and profiles).
`Routed` shows that the services of a snapshot depend on neither target nor call. So a
commit that meets rows of an earlier assessment of the same snapshot replaces all of them
(`RowsInv`, `CommitStep`), and the first chain in the order of run ids, whatever that is, is
the row of a stored plan (`RowsAreWhole`). `SoundCall` says what a call in flight holds; `PriorityIsSound` computes
that `Priority` answers urgent on current intelligence only.

Induction over numbers appears for positions, for depths and for the least chain, as the
principle that a set of naturals that is not empty has a least element; induction with an
operator as parameter is not used.

Model-checked only. Liveness under fairness and ENABLED are out of the prover's reach, so
`LeasesExpire`, `HuntsBecomePending`, `AnsweredOnceRequestsStop`, `RunsEnd` and
`SubmitReturns` stay with TLC. Every invariant, action property and refinement that a passing
run checks is also a theorem.

## 5. Not modelled

* The matching language of the Sigma subset: a rule is a relation to events. The
  correlation of signals to signals.
* Parsing of scanner output, manifests, SBOMs and workflows inside the security services:
  represented by the signals they find. The services' status and limitations; the OSV adapter and
  the qualification record of an assessment.
* Agents, model gateway, capability registry and scanner adapters: calls of external
  programs, whose success or failure is an outcome of an activity or a sandboxed run.
* Object storage and custody records; token verification; configuration; metrics.
* The projections of the read models other than their paging, the web and terminal
  applications, migrations and scripts: presentation, or no state.
* Detection qualification: arithmetic on reports.

Hash values and identifiers are model values. One tenant, case and target at a time in
the queue; one engagement in the workflow, the API and the firm's assessments.

## 6. Plan

The models are complete for this round, and every safety property of the runs is proved.
What is left is secondary: type correctness as a theorem of its own for `Hosted`, `Hunts`,
`EngagementApi` and `FirmAssessment`, whose proofs use the parts of it they need.
