# AISwarmQA in TLA+

AISwarmQA takes a URL from a member of a workspace, plans a set of browser
missions for it, runs them on a worker, collects findings and evidence, writes a
report and, on request, exports the findings as GitHub issues. The web
application (Next.js), the worker (BullMQ processors in one Node process) and the
shared packages talk through three things: a PostgreSQL database reached with
Prisma, Redis queues, and external services (Stripe, GitHub, object storage, a
model provider). Nothing is locked. Almost every operation is a sequence of
separately awaited statements, so what one process does between two statements
of another is the main subject of this project.

Sections: the parts of the system, the modules, the runs, the proofs, what is
left out, and the plan.

## 1. The parts of the system

Paths are relative to `src/`. "DB" rows are Prisma models.

| Part | Code | State | Operations | What makes it correct |
|---|---|---|---|---|
| Audit and mission lifecycle | `packages/database/src/audit-service.ts`, `apps/worker/src/index.ts`, `packages/shared/src/index.ts`, `apps/web/src/app/api/audits/` | Audit (status, cancelRequestedAt, planner fields), Mission (status, attemptCount), Report, UsageEvent | create, enqueue, plan, run a mission, finalize, request cancellation | statuses move along their tables; a completed audit has its report and its required missions; an audit ends; nothing is cancelled unasked |
| Queues | `packages/queue/src/index.ts` | jobs `plan-audit`, `run-audit` (one per mission), `github-export`, `retention-cleanup` | add under a job id, start, finish, retry, hand out again after a crash | attempts are bounded; a job id that is still known is not added twice |
| GitHub issue export | `packages/database/src/github-export-service.ts`, `packages/github/src/index.ts`, `runGitHubExportJob`, the export and retry routes | GitHubExportBatch, FindingGitHubExport, the issues on GitHub | create a batch, run it, finalize it, retry it | one issue per finding and repository; a batch ends; a retry retries |
| Browser agent | `apps/worker/src/browser-agent.ts` | BrowserAgentRun, BrowserAgentStep rows, the budgets of the loop | observe, decide, act, record | every budget is a bound; the recorded steps are those that were taken |
| Browser swarm | `apps/worker/src/browser-swarm.ts` | BrowserSwarmRun, BrowserSwarmAgent rows; totals, coverage and verdict in memory | create, start a batch, run an agent, check the budgets, report | concurrency and budgets hold; a reported run is closed and adds up; nothing follows the report |
| Deterministic missions | the six `executors` of `apps/worker/src/index.ts` | the findings of one mission in memory | open the page, look, try links or buttons, report | every defect is reported once; no link is requested twice or against the rules, and each click answers one safe candidate |
| Findings and evidence | `persistFindings`, `uploadAuditEvidence`, `packages/database/src/evidence-service.ts` | Finding by fingerprint, FindingEvidence, objects in the bucket | merge or create, store, share | no occurrence is lost; rows and objects agree |
| Planning and plan merging | `runPlanningJob`, `packages/shared/src/index.ts`, `packages/ai/src/index.ts` | AuditPlan, Mission rows, snapshot and prompt in memory | look at the page, ask the planner, merge, persist | no secret of the page's content leaves; required missions survive any answer; the plan tells whose it is |
| Evidence retention | `packages/database/src/saas-service.ts`, `runRetentionCleanupJob` | FindingEvidence (claims, deletion) | claim, delete the object, mark deleted or failed | nothing is deleted before its time; what is due is deleted in the end |
| Plan limits and usage | `assertCanCreateAudit` and friends | counts of Audit rows, UsageEvent | admit, record | limits hold; usage is counted once |
| Billing | `apps/web/src/lib/stripe.ts`, `saas-service.ts` | BillingCustomer, WorkspaceSubscription, BillingWebhookEvent, Organization.plan | check out, handle an event | the row follows Stripe |
| GitHub connection | `github-export-service.ts`, install, callback, webhook and repository routes | GitHubAuthState, GitHubConnection, GitHubRepository, GitHubWebhookDelivery | begin, consume a state, list repositories, receive, disconnect | a state is consumed once; exports go only where GitHub allows |
| Members and invitations | `saas-service.ts`, `auth-service.ts` | OrganizationMember, WorkspaceInvitation, WorkspaceDeletionRequest | found, invite, accept, revoke, ask for deletion | nobody has a role nobody gave |
| Rate limiting | `apps/web/src/lib/rate-limit.ts` | fixed-window counters in Redis and in each web process | count a request | at most the limit per counter; the window ends |
| Target safety, configuration, authentication, e-mail, pages | see `PROJECT.json` | none of their own that a protocol depends on | | |

The behaviours that are hard to get right, and hard to reach with a test, are in
`PROJECT.json` under `hazards`, each at the line where it bites. They fall in
six groups:

* read, check, write in three awaited steps (`transitionAuditStatus`,
  `transitionMissionStatus`, `requestAuditCancellation`,
  `finalizeAuditIfReady`, `persistFindings`, `consumeGitHubAuthState`,
  `assertCanCreateAudit`);
* retries that go over what the first attempt left behind (`runMissionJob`,
  `runPlanningJob`, `runGitHubExportJob`, stalled jobs);
* a database row and a queue job that must agree and are written apart
  (`markMissionQueued` and `enqueueMission`, the batch and its export job);
* errors that are caught, dropped or reclassified on the way
  (`runQueueJob`, the `catch` of `runMissionJob`, `classifyGitHubError`);
* work that goes on after its caller gave up (`withTimeout`, `runWithTimeout`);
* messages of others that overlap, repeat or overtake each other (Stripe's
  events, GitHub's deliveries, Redis pipelines).

## 2. The modules

### StatusTables

The two status vocabularies and the two transition tables of
`packages/shared/src/index.ts`. `Absent` stands for a mission row that does not
exist yet.

### AuditPromise

The abstract specification: what the tables, read as a promise, say about an
audit and its missions. Every status change is one listed move; `completed`
needs all missions terminal and the required ones completed; a `running` audit
fails only when no mission is open. It has no processes, jobs or reads.

### AuditLifecycle

The detailed specification of one audit. The processes are:

* the `POST /api/audits` handler after `createAuditRecord` (`Api...`, variable
  `api`);
* each member's `POST /api/audits/[id]/cancel` (`CancelRead`, `CancelTx`,
  variable `cancelPc`);
* the processor of the `plan-audit` job (`Plan...`, labels `plan-...`);
* one processor per `run-audit` job (`MissionWorker(m)`), which runs
  `runMissionJob`, its two `catch` branches, `finalizeAuditIfReady` and
  `finalizeCancelledAudit`;
* the queue (`StartJob`, `JobDone`, `JobFailed`) and the faults (`Crash`,
  `ApiCrash`, and the refusals and late answers inside other actions).

| TLA+ | Code |
|---|---|
| `audit`, `cancelRequested` | `Audit.status`, `Audit.cancelRequestedAt` |
| `report`, `usage` | the Report row; UsageEvent rows by idempotency key |
| `mission`, `attemptCount` | `Mission.status`, `Mission.attemptCount` |
| `job`, `attemptsMade`, `stalls` | the BullMQ job, its attempts, how often its worker died under it |
| `pc`, `route`, `todo`, `inHand` | the continuation of a processor: where it is, which exit of `runMissionJob` it takes, the loop variables of the planner |

One action is one database statement or one queue call. A label ending in `?`
is about to read a status, one ending in `!` is about to write the status it
validated earlier: `transitionAuditStatus` is a `findUnique`, a check in memory,
and an `update` by id with no condition on the old status. `Landing` is that
check: same status, no-op; listed move, write; otherwise throw. Where the throw
goes differs from call to call, and the model follows each: into the `catch` of
`runMissionJob`, into a `.catch(() => undefined)`, or out of the job.

Two exits deserve a reader's attention because they look different in the code
than they behave. `runQueueJob` returns the job's promise without awaiting it
inside its `try`, so its `catch` for `AuditCancelledError` sees nothing that
`runPlanningJob` throws asynchronously: `PlanCheck` goes to `job-failed`.
`NoStrandedPlannedAudit` speaks of audits whose planning job completed and so
says nothing of this. Where the API puts back the `planning` it validated before
a cancellation, the planning job throws and nobody ends the audit: added to
`AuditCancel.cfg`, `NoStrandedAudit` is violated by this trace; the run
`audit_refused_mission` shows it violated in another way. And the `catch` of
`runMissionJob` drops the errors of its own transitions, so a mission refused
before `markMissionRunning` keeps the status `queued`.

`...Variant` comments in the module head definitions that the specification
does not use: each is one definition with a plausible mistake in it, kept to
show that the property next to it in `PROJECT.json` notices that mistake.

### MCAuditLifecycle

Values for the constants: `linkTester` (required, two attempts), `formTester`
(required, one attempt), `accessibilityReviewer` (optional, one attempt), as in
`missionDefinitions`, and fault budgets.

### AuditLifecycleProofs

The theorems of section 4 about it.

### GitHubExport

Exporting findings of a completed audit. The processes are the export requests
(`Request(r)`), the export worker, which runs one job at a time (`Worker`), the
retry requests (`Retry(x)`), and GitHub (`OpenIssue`, `Index`).

| TLA+ | Code |
|---|---|
| `batch`, `count` | `GitHubExportBatch.status` and its three counts, by the request that created it |
| `row`, `owner`, `url` | `FindingGitHubExport.status`, `.batchId`, whether `.githubIssueUrl` is set; one row per finding, found by its unique idempotency key |
| `issues`, `indexed` | on GitHub: how many issues carry the finding's marker; whether the search finds one |
| `job`, `attemptsMade`, `stalls` | the BullMQ job `github-export-{batchId}` |
| `pc`, `current`, `left`, `item`, `tally` | the continuation of `runGitHubExportJob` |
| `requestPc`, `plan` | the continuation of a request; what its transaction read of each row |
| `retryPc`, `retryOf` | the continuation of a retry |

`createGitHubExportBatch` is one transaction, but it reads each row before it
writes it, under PostgreSQL's default isolation: `ReadRow` is one such read and
`Commit` makes all its writes. That the writes before a commit hold their row
locks needs no state of its own: a write of the worker that waits for the lock
takes effect after the commit, one that came first commutes with the reads of
other rows. `Rollback` is the violation of the unique key by two requests that
both insert. `Enqueued` is `queue.add` with a job id the queue still knows.

A lost answer (`lost`) covers a timeout, a broken connection and a success whose
body cannot be parsed. `SearchLag` is the assumption about GitHub that the code
does not state: its search index is updated some time after an issue is opened,
or a request the worker gave up on takes effect later.

### GitHubExportProofs

The theorems of section 4 about it.

### BrowserSwarm

One `browserSwarmMission`. The processes are the orchestrator (`Orchestrator`),
one promise per agent (`Agent(a)`), time, and `runMissionJob`'s timeout around
all of it. Node runs one continuation at a time, so a step is the code from one
`await` to the next; `StartBatch` is what every agent of a batch runs before its
first `await`, which happens in one go.

| TLA+ | Code |
|---|---|
| `runRow`, `agentRow`, `agentSteps` | the `BrowserSwarmRun` row; `status` and `stepsUsed` of the `BrowserSwarmAgent` rows |
| `pc`, `first`, `report` | the continuation of `browserSwarmMission`: `index` of `runInBatches`, the arguments of `completeBrowserSwarmRun` |
| `agentPc`, `using` | the continuation of each `runAgent` and the metrics its mission returned |
| `used`, `created`, `completed`, `active` | `totals` |
| `covered` | `sharedState.completedAgentRoles` |
| `reason`, `status` | `terminalReason`, `runStatus` |
| `late` | whether `timeoutMs` has elapsed since `startedAt` |
| `mission` | what `runWithTimeout` has told `runMissionJob` |

`Stopper` is `hasSwarmBudgetRemaining` with its seven meters and their order.
`DatabaseFails` is a Prisma call that throws, whether its statement took effect
or not. An agent's mission is one step that returns, with or without
limitations, having used any member of `AgentUses`, or throws. The assumption
`MaxAgents <= RoleCount` is the configuration's `max(6)` over six roles; with it
the refusal branch of `StartBatch` and of `BeginAgent` is dead, which
`BudgetsRefuseNobody` proves. `BudgetStopsNewWork`, which
`docs/architecture/autonomous-browser-swarm.md:47` promises, is therefore false;
no run lists it, and adding it to `Jobs.cfg` shows the second batch starting
after the first has used up the budget.

### BrowserSwarmProofs

The theorems of section 4 about it.

### BrowserAgent

One `autonomousBrowserMission`, which a mission of its own or an agent of a swarm
calls. The processes are the agent (`Agent`), time, `runMissionJob`'s timeout,
which closes the browser under the agent, and the deaths of the worker. Again an
action is the code between two `await`s: `Decide` is the model's answer with its
price and `evaluateSafety`, `Act` is `executeTool` with what the loop counts and
remembers of it, `PersistStep` the row with the two stopping rules behind it.

| TLA+ | Code |
|---|---|
| `runRow` | `BrowserAgentRun`: `status`, `terminalReason`, `stepsUsed`, `providerCalls` |
| `stepRow` | `BrowserAgentStep` by `sequence`: what was done and its `executionStatus` |
| `attempt`, and `by` of a row | nowhere in the code: how often the run was taken up, to tell the rows of one attempt from another's |
| `pc` | the continuation; a label with `!` is about to write |
| `steps`, `calls`, `uses`, `rejections`, `noProgress` | `counts` |
| `spent` | `inputTokens`, `outputTokens`, `estimatedCost`, as one number |
| `reason`, `status` | `terminalReason` (`"none"` for null), `runStatus` |
| `recent`, `lastFingerprint` | the last two of `historyKeys`, the last of `progressFingerprints`: all that is read of them |
| `findings` | each finding's `evidenceStepIds` and the step that reported it |
| `performed` | nowhere in the code: what the page went through, counted or not |
| `late`, `closed` | whether `missionTimeoutMs` has elapsed; whether the mission was given up |

An action names its tool, its element or URL (`at`), and the steps a finding
cites. `Resolve` stands for `resolveSameOriginBrowserUrl`, which makes a relative
URL absolute; `Deniable` for everything the page, the origin or the configuration
may deny, which is a choice. Two details are kept because properties depend on
them. The key of a proposed action is compared with keys of actions that were
carried out, whose URLs are resolved: a relative navigation is never a
repetition, and `NoThirdTime` has to except navigations. And a tool that is given
up by `withTimeout` may still have its effect, so `ActFails` may or may not
perform it.

### BrowserAgentProofs

The theorems of section 4 about it.

### EvidenceStore

The findings of one audit, their evidence, and the bucket. The processes are the
executions of mission jobs that persist and upload (`JobStep(m)`), the retention
workers (`CleanerStep(c)`), an export that shares evidence (`ReadShareable`,
`Share`), time, and deaths.

| TLA+ | Code |
|---|---|
| `findings` | Finding rows: `fingerprint` (`print`), `occurrenceCount`, the missions and the evidence listed in a row |
| `evidence` | FindingEvidence rows: finding, storage key (0 if not stored), expiry, claim, deleted, shared |
| `bucket`, `lastKey` | the objects; a key holds a random UUID, so a second upload makes a second object |
| `job`, `cleaner` | the continuations of `persistFindings` with `uploadAuditEvidence`, and of `runRetentionCleanupJob` |
| `reports`, `crew`, `budget` | what each job has found, which workers run, which faults are left |
| `raced`, `happened` | history: whether two jobs persisted or uploaded at once; which faults there were |

Each Prisma call and each storage call is one action. `Merge` writes the count and
the lists it has read before; `Claimable` is the one conditional update here, and
what makes a stale claim free again. A finding's print stands for
`createFindingFingerprint`.

### EvidenceStoreProofs

The theorems of section 4 about it.

### Texts

What `MissionFindings` and `PlannerContext` share: case folding by a table,
the elements of a list that pass a test (`Among`), deduplication that keeps the
first (`FirstByKey`), the first n of a list. The two lists are folds over a step
that a proof can name.

### MissionFindings

One of the six deterministic missions on one page. `page` is the page under audit
with what its listeners hear (`events`), its links, controls, buttons and axe
violations; `stage` and `checks` are the executor's continuation, `results` its
findings, `touched` the links it has requested and the buttons it has clicked.
`Begin`, `Navigate`, `RequestLink` and `ClickCheckout` lie between two awaits each,
and each may find the audit cancelled. A button is looked up by its text again
(`HasText`), which need not be the button the candidate came from: the first
button whose text contains the candidate's is clicked, and may be destructive.
`TouchesOnlyCandidates` says no more than the code keeps: one click at most for
each safe checkout candidate, in their order, of an enabled button that contains
its text. That only safe labels are clicked (`ClicksOnlySafeLabels`,
`docs/architecture/mission-execution-system.md:59`) is false, as the run
`mission_clicks` shows. `MissionFails`
is a target that has moved to a forbidden address, or the timeout. `Defects` says
what is wrong with a page without the lists of the executors: of the links, those
that are safe and broken and whose URL has, among the URLs of the safe links up to
it, a rank within the limit.

### PlannerContext and AuditPlanning

`PlannerContext` has pure operators: `Collected` is the snapshot as the page
gives it, `Sanitized` `sanitizePlanningSnapshot`, `Research`
`buildAuditResearchContext`, `PlannerPrompt` `buildPlannerInput`. A text is the set
of its words and a URL a record of site, path and parameters: that is what
redaction and the same-origin rule tell apart. A page has two addresses of its
own, the `target` that was asked for and the `final` one where the browser ended
up. `Sanitized` passes both on as they are, as `...snapshot` does, and
`PlannerPrompt` holds the target once more: whatever sensitive parameters they
have reach the provider. `PromptIsClean` therefore speaks of everything else the
prompt tells, and says of these addresses only that they are the page's own;
`PromptUrlsAreRedacted`, which `docs/security/ai-data-redaction.md:16-23` says, is
false; no run lists it, and added to `Jobs.cfg` it is violated.
`AuditPlanning` is `runPlanningJob`:

| TLA+ | Code |
|---|---|
| `setting`, `site` | configuration and setup of the audit; the page |
| `step`, `tries`, `todo` | the continuation: where the job is, the round of `requestPlanner` and the attempt of the provider, the missions left to persist |
| `snapshot`, `prompt`, `replies`, `output` | what was collected, asked, answered and kept |
| `planRow`, `missionRows` | the AuditPlan row; the Mission rows by type |
| `restarts` | how often the worker may die and the job start again over its own rows |

`MergedPlan` is `mergePlannerOutput` with the clamps, the refusals and the limits
of the policy. Statuses of audit and missions are `AuditLifecycle`'s subject.
One thing the code does that its document does not say: with Anthropic configured,
when all rounds have failed, `requestPlanner` asks the mock, and the plan's
source is then `mock`. `FailureFallsBackToBaseline`
(`docs/architecture/ai-planner-agent.md:33`) is false for that reason; no run
lists it.

### MissionProofs

The theorems of section 4 about `MissionFindings`, `PlannerContext` and
`AuditPlanning`.

### Billing

One workspace and Stripe. The processes are the checkout requests, the web
processes that answer events (`handler`), the requests that create audits, and as
environment Stripe, time and the ends of audits.

| TLA+ | Code |
|---|---|
| `checkout`, `customer` | the continuation of `createProCheckoutSession`; `BillingCustomer.stripeCustomerId` |
| `subscription`, `orgPlan`, `recorded` | the WorkspaceSubscription row, `Organization.plan`, the BillingWebhookEvent rows |
| `request`, `audits`, `usageEvents` | the continuation of `POST /api/audits`, the audits with whether they are `active`, `queued` and `fresh` (written in the last 12 hours), the `AUDIT_CREATED` events |
| `stripe` | the subscription at Stripe, events sent and events answered |
| `excused` | history: what may let a limit be overrun. `"overlap"`: a request was let through while another was between its count and its end; `"quiet"`: one was let through while an active audit was not fresh; `"moved"`: the period changed under a request; `"unrecorded"`: a usage event was not written |
| `unordered` | history: an event was handled out of turn, or broke off |

`assertCanCreateAudit` counts the active audits whose `updatedAt` is within
`staleActiveAuditWindowMs` (`ActiveSeen`), not all of them (`ActiveAudits`). An
audit that waits in the queue, or whose job runs for 12 hours between two
statuses, drops out of the count (`AuditGoesQuiet`) and comes back with its next
status (`AuditMoves`); in between another one is admitted beside it.

An event is recorded before it is processed: a handler that fails after that has
lost it, as the redelivery counts as a duplicate. Invoice events make the row
forget interval and period. `CanceledMeansFree`
(`docs/PHASE_8_SAAS_FOUNDATION.md:84`) is false: every event that reaches
`syncWorkspaceSubscription` sets `Organization.plan` to the subscription's plan, the
one that tells of its cancellation too, and that plan is what a canceled row falls
back to. No run lists it; added to `Services.cfg` it is violated.

### Members

Requests of users who sign in, found a workspace, invite, accept, revoke and ask
for deletion. `visit` holds what a request wants and how far it is; `members`,
`invitation`, `emails` and `deletions` are the rows; `granted`, `void`, `crossed`
and `piled` are history. What the model makes visible: every user founds a
workspace before accepting, and the oldest membership decides, so an accepted
invitation never changes for which workspace its user acts (`ActsAtHome`); the
team limit is asked when inviting and not when accepting; revoking an invitation
that was accepted leaves the member; the token is in the mail and nowhere else;
nothing carries a deletion request out.

### GitHubConnection

Workspaces that share one installation, the handlers that serve callback, webhook
and repository page (`server`), the browser's states (`ticket`), and GitHub.
`UpsertRepository` is one row of `syncGitHubRepositories`, `ArchiveUnseen` its
last statement; another list may run between two rows. A webhook finds one active
connection of its installation and updates that one only; a connection without
repository rows is never listed again. A recorded delivery that fails is lost, as
with Stripe. `ConnectionIsTrue` allows two callbacks that overlap to consume one
state; that it is consumed once (`StateIsConsumedOnce`,
`docs/PHASE_7_GITHUB_EXPORT.md:247-248`) is false: two handlers check one state
before either marks it. No run lists it; added to `Services.cfg` it is violated.

### GitHubConnectionProofs

The theorems of section 4 about it.

### WorkspaceProofs

The theorems of section 4 about `Members`, `Billing` and `RateLimit`.

### RateLimit

The calls of one client in one scope, made to several web processes. `shared` is
the key in Redis, `apart` each process's own bucket, `call` each call with what
waits for it (`stage`) and what Redis has still to carry out (`pipe`): INCR,
PEXPIRE NX and PTTL are three steps, between which Redis serves others, and a
pipeline that nobody waits for any longer may be carried out late or be cut off.
A counter has a number that tells it from the next of its key. `age` is history.
`RedisHangsUp` is a connection that ends early and in good order: it clears the
timeout and settles nothing. `NobodyWaitsForRedis`, which the fallback of
`docs/PHASE_8_SAAS_FOUNDATION.md:72` lets one expect, is false; no run lists it.

### MCJobs and MCServices

Components that share no variable are checked side by side. `part` says which of
them moves; the others rest at one initial state. `MCJobs` has the worker's jobs
beside their statuses (`BrowserSwarm`, `EvidenceStore`, `MissionFindings`,
`AuditPlanning`), `MCServices` the audit with one job at a time (`AuditLifecycle`),
`Billing`, `Members`, `GitHubConnection` and `RateLimit`. They give every constant
its value; `MCJobs` takes the fairness of its components over to the part that
moves, `MCServices` checks safety only and assumes none.

## 3. The runs

| Run | Instance | Shows |
|---|---|---|
| `audit_settles` | three missions, three at a time, no faults, fair | `CompletedAuditIsSound`, `AuditSettles` |
| `audit_cancel` | two required missions, one canceller, three jobs at a time | `CancelledOnlyOnRequest`, `NoStrandedPlannedAudit`, `CompletedMissionIsFinal` |
| `audit_faults` | one mission, one canceller, one fault of each kind | `TypeInvariant`, `AttemptsBounded`, `CompletedHasReport` |
| `audit_terminal_overwritten` | two missions, no faults | a terminal audit is not final: a second finalizer writes the `analyzing` it validated before the first wrote `completed` |
| `audit_refused_mission` | two missions, one refusal | a target refused before a mission starts leaves the mission queued and the audit open for good |
| `export_shared` | two batches that share a finding, a retry, two attempts, one fault of each kind, no search lag | `TypeInvariant`, `OneIssuePerFinding`, `RowsBackedByIssues`, `FinishedBatchIsSettled` |
| `export_single` | one batch over two findings, a retry, three attempts, two lost answers and a crash, search lag, fair | `ExportsAreAccounted` (its parts are `DuplicatesNeedALoss` and `CountsAddUp`), `JobsConclude` |
| `export_retry_ignored` | one batch, one retry, no faults | the job of a retry is never run: its id is still known to the queue |
| `agent_loop` | three steps, one use of each metered tool, two rejections or two idle steps in a row, one failing statement, one crash, fair | `TypeInvariant`, `EffectsWithinBudgets`, `RecordHasNoGap`, `FindingsAreBacked`, `RecordTellsTheRun` (`ReportedStepsAreThere` and `VerdictIsRecorded`), `LoopDoesNotInsist` (`RejectionsEnd` and `NoThirdTime`), `OpenedRunSettles` |
| `jobs` | the modules of `MCJobs`, one of which moves; of the swarm three agents, two at a time, up to two steps each, a budget of three, two failing statements; fair | `JobsTypes`, `ConcurrencyBounded`, `ReportAddsUp` (`CleanRunIsWhole` and `ReportedRunIsClosed`), `RunIsTheLastWord`, `SwarmSettles`, `FindingsAreCounted`, `ObjectsAndRowsAgree`, `DueIsDeleted`, `MissionIsExact`, `PromptIsClean`, `PlanIsCarriedOut`, `PlanTellsItsSource` |
| `services` | the modules of `MCServices`, one of which moves; of the audit three missions, one job at a time, one crash of the worker or the web process | `ServicesTypes`, `RowFollowsStripe`, `LimitsHoldUnlessRaced`, `MembershipIsGranted`, `ConnectionIsTrue`, `RateIsLimited`, `KeepsPromise`: the processes implement `AuditPromise` |
| `mission_clicks` | the instance of `jobs` | `ClicksOnlySafeLabels` is violated: of two buttons whose texts contain "checkout" the first is destructive and is clicked for the second |

The runs that expect a violation are disagreements between the code and what its
documents, comments or pages say; `PROJECT.json` quotes the lines under
`findings`. Where a document is contradicted, the property that a passing run
checks says what the code does keep, and names the stronger one that is false.
Six such properties are stated in the modules and in no run: `BudgetStopsNewWork`,
`FailureFallsBackToBaseline`, `PromptUrlsAreRedacted`, `CanceledMeansFree`,
`StateIsConsumedOnce` and `NobodyWaitsForRedis`.

Bounds of the audit runs. One audit is enough because no operation of this component touches two.
Two required missions are the least for which a finalizer and a retry, or two
finalizers, overlap; the third, optional one adds the case where a failure does
not fail the audit. One canceller suffices for the properties listed: after the
first `CancelTx` a second one finds nothing it could change that the first could
not (instances with two cancellers, 3.0 million states, and with three missions
and a canceller, 6.8 million states, were explored as well and agree). Faults
are bounded per kind by `MaxFaults`; one of each allows a crash after a late
queue answer after a refusal. The queue keeps finished job ids for ever, where
the code keeps the last hundred: one audit does not reach a hundred jobs.
`attemptCount`, `attemptsMade` and `stalls` are bounded by the attempts and
fault budgets themselves, no guard caps them. `CHECK_DEADLOCK FALSE` is set
because an audit that is over has nothing left to do.

Where the assumptions of a run matter, they are part of what it shows:

* `KeepsPromise` (in `services`) holds with one job at a time and one crash, or one refusal
  instead; it fails with two jobs at a time (`audit_terminal_overwritten` is
  why), with a late queue answer, and with a crash and a refusal together.
* `CompletedAuditIsSound` is claimed without cancellation: a cancel request
  between the finalizer's read and its write can leave a completed audit over
  cancelled missions.
* `CompletedMissionIsFinal` and `NoStrandedPlannedAudit` are claimed without
  crashes: a planner handed out again after one writes the `queued` it validated
  over a mission that has moved on meanwhile.
* `NoStrandedPlannedAudit` also needs that no queue answer comes late and nothing
  is refused. After a late answer the API writes a stale `failed`, and a mission
  at its last attempt that reads it gives up with its own row still open; a
  mission refused before it starts fails its job with its row still `queued`. In
  both cases a finalizer finds that mission open and leaves the audit running.
* `audit_settles` has no refusal, as `audit_refused_mission` shows why, and no
  cancel request: one that overtakes the planner, or is overtaken by a status it
  writes, makes the planning job fail with an `AuditCancelledError` that
  `runQueueJob` does not catch (section 2), and nobody ends the audit.
* That a failed audit has no open mission is not claimed: a retried mission
  passes through `failed`, and a finalizer that reads in between fails the audit
  while the retry is still to run.

Bounds of the export runs. Two batches are enough to take a row over, two
findings to stop a job between them, and one retry to reset rows under a running
job. Two attempts suffice to see a row twice in one job; three are the code's.
Two batches with three attempts, two findings and a retry, 6.7 million states,
were explored as well. Where the assumptions matter: with `SearchLag`,
`OneIssuePerFinding` is false, as `DuplicatesNeedALoss` says how; with two
batches a stale commit is a loss of its own; with two batches `CountsAddUp` is
false for the one whose rows were taken over, and after a retry
`RowsSettled` is, because a retry resets rows between the end of the loop and
the count. A request may also queue a row again that the worker has marked
`CREATED` since it was read: the row is then gone through once more, and the
search finds its issue. `JobsConclude` allows a job to fail with its batch still
`RUNNING`: a retryable error of the last attempt leaves the loop before the batch
is finalized, and nothing finalizes it later. No property says that a batch ends;
it is a hazard the code does not avert, and is listed as one without a property.
The queue forgets a finished job after a hundred others; that a retry would run then is left out.

Bounds of the swarm runs. Three agents, two at a time, make a full batch and one
that is not full; a budget of three is used up by the first batch, by the second,
or not at all. Two failing statements allow an agent's last update and the catch
that follows it to fail both, which is what rejects a batch. The sum of two such
failures of different agents is in it, too. `RunIsTheLastWord` and
`ReportedRunIsClosed` except a failure of the orchestrator: the agents it no
longer waits for go on, and write after the run was reported.

Bounds of the agent run. Three steps hold a third repetition, a third rejection,
and an earlier attempt's step behind two later ones. Four proposals stand for
the kinds the loop tells apart: one that changes nothing (`inspect`), one that
is metered, resolved and may be denied (`navigate`), one that cites a step
(`report_finding`), one that ends the loop (`finish`). The first screenshot
draws on a budget of one. One failing statement, at any of the writes, and one
death of the worker, anywhere, meet in either order. One page makes every
observation look the same, which is when `noProgress` counts. What the
properties leave open is what the code does: a write that fails may have taken
effect, so a run may report one step more or one less than is there
(`ReportedStepsAreThere`); the effects of a dead worker's attempt are not counted
against the next one's budgets; and a run whose first `page.goto` fails is never
reported, because that call stands before the `try`, so `OpenedRunSettles`
begins at the loop.

Bounds of the other parts of `jobs` (some 194,000 states) and `services` (some
594,000).

* Evidence: two jobs and up to two retention workers that claim one row at a time.
  The scenarios are two jobs that meet on a fingerprint, with a job's death or
  with a storage failure, with and without a retention worker; two that merge
  into each other's findings crosswise; two screenshots under one worker that
  dies and an export that shares; one screenshot under two workers and an export;
  two under two workers. One fault of a kind is
  enough for each exception the properties name; two of a kind repeat it.
  `FindingsAreCounted` is exact only where no two jobs persisted at once and none
  was cut short; otherwise it still says that no occurrence is lost.
  `ObjectsAndRowsAgree` lets an object be orphaned by two uploads at once, a job
  cut short, or a failed write after a put, and by nothing else.
* Missions: all six on each of four pages (one with every kind of defect, one that
  does not answer, one that is forbidden, one whose links do not parse), with two links and two
  interactions at most: a limit that is reached and passed, repeated and
  destructive candidates, texts that contain each other, equal events.
* Planning: twelve configurations of provider, key, retries, preview, agent and
  swarm, and the six scenarios of the mock, on a page with a secret in every kind
  of text and in its own addresses, an empty, a bulky and a forbidden one, one with
  a route too long, and in one case a job that dies. Anthropic may refuse, fail for good or for a time,
  answer with what does not parse, does not fit the schema or is over the budget,
  or with proposals to be accepted, clamped, refused and dropped as repeated.
* Billing: two checkouts that overlap; one whose subscription changes once more at
  Stripe; three requests at the limits of Free over a change of month; a checkout
  beside a request. Two web processes answer Stripe. `RowFollowsStripe` excepts an
  event handled out of turn or broken off; `LimitsHoldUnlessRaced` overlapping
  requests, an unwritten usage event, a period that changes under a request, and a
  request let through beside an active audit that is not fresh. Each exception is
  listed under `hazards`.
* Members: three users, five visits, a team limit of two. `TeamFits` excepts
  workspaces with two invitations open at once; `ActsAtHome` users whose first
  sign-ins overlapped.
* Connection: two workspaces, repositories, states and handlers.
  `ExportsFollowGitHub` excepts handlers that died, lists written across each
  other, and a shared installation, of which one workspace only hears.
* Rate limits: three calls over two web processes, a limit of one, a window of two
  units: enough for a second call to be refused and a third to begin the next
  window. One pipeline fails, or one hangs up, or there is no Redis.
  `CallsAreLimited` has it for all numbers.

`CHECK_DEADLOCK FALSE` is set because every part may have nothing left to do.

Fairness. `FairSpec` of `AuditLifecycle` has weak fairness for the handler, for the planner with its
job, and for each mission's processor with its job. Node runs the continuation
of every awaited call, the awaited calls have timeouts or are database
statements, and BullMQ hands every waiting job to a free processor. Nothing is
assumed of the members who may cancel, of crashes, refusals or late answers, or
of the outcome of the browser work: `Execute` may fail every time. `FairSpec` of
`GitHubExport` has weak fairness of the worker only: each of its calls has a
timeout. Requests, retries, GitHub's answers and its index promise nothing.
`FairSpec` of `BrowserSwarm` has weak fairness of the orchestrator and of each
agent's promise: what they await is a statement or an agent's mission, whose
loop has budgets and a timeout of its own. Time and the mission's timeout may
never come. `FairSpec` of `BrowserAgent` has weak fairness of the agent alone:
every call it awaits is a statement or has `stepTimeoutMs`, and the loop is
bounded by its steps, not by time. `EvidenceFairness` has weak fairness of each
step of a mission job, of each retention worker's, and of claims growing stale:
the job repeats daily and a claim's age is compared with the clock. `JobsFairness`
is these of the parts it holds; nothing else is assumed to happen.

## 4. The proofs

`AuditLifecycleProofs` proves, for every finite set of missions, every subset of
required ones, every positive number of attempts, any number of cancellers, any
concurrency and any fault budget:

* `TypeCorrect`: `Spec => []TypeInvariant`. Inductive as it stands. It rests on
  the lemma that `Landing` gives one of its three labels and that every label it
  is given is a label.
* `ReportBeforeCompletion`: `Spec => []CompletedHasReport`. The property is not
  inductive: a processor between `report!` and `finish!` will write `completed`.
  `ReportFirst` adds that whoever is past `report!` on the completing path, or
  about to record the completion, has the report behind it. That the row exists
  is stable, since nothing deletes a report, so no other process can disturb it.
* `NoCancellationUnasked`: `Spec => []CancelledOnlyOnRequest`. `CancelOnRequest`
  adds that a processor on the cancellation exit, at any of its labels, got there
  by an `AuditCancelledError`, and that one is thrown only over a request or a
  cancelled audit, which goes back to one.
* `AttemptsStayBounded`: `Spec => []AttemptsBounded`. `AttemptLedger` balances
  the books: counted attempts are the attempts BullMQ has counted, plus the
  workers that died, plus one if the current run is past its `start!`.

* `CompletedMissionsAreFinal`: if no worker dies, `Spec => CompletedMissionIsFinal`.
  A processor overwrites a status it read earlier, so the invariant has to say
  whom that can hurt: nobody stands at a label from which a mission is written
  while that mission is completed (`CompletedIsSafe`). This rests on two facts
  about the queue, that a mission's job is added before anything can complete it
  and never handed out again after it (`QueuedOnce`), and that a mission whose
  job is not there has not begun (`NotStarted`). The hypothesis is needed: a
  planner handed out again after a crash writes `queued` over whatever is there.
* `CompletedAuditsAreSound`: if no worker dies,
  `Spec => [](cancelRequested \/ CompletedAuditIsSound)`. `DecisionInv` says what a
  finalizer that has decided on completion knew (`Informed`), that it still holds
  when the completion is written because missions that passed are final
  (`CompletionDecided`), and what a planner leaves to whom (`PlannerCare`). The
  disjunct is needed: a cancellation that falls between a finalizer's read and
  its write leaves a completed audit over cancelled missions.
* `NoPlannedAuditIsStranded`: if there is a mission and no fault of any kind,
  `Spec => []NoStrandedPlannedAudit`, with any number of jobs at a time and of
  members who cancel. Each finalizer may find another mission open and leave, so
  it is never the reader alone that closes the audit. `CloseInv` says of each
  mission and the planner how far they are before the audit runs (`StartInv`),
  that the job of an open mission is still to close it (`Kept`), that a processor
  past its first check did not pass over a cancellation (`Noticed`), that nobody
  writes `running` over a later status (`InTime`), and that a running audit has
  a mission whose job is still to decide, an analysed one its reporter
  (`Responsible`). The step that matters is `WorkerLeavesOneBehind`: a finalizer
  that leaves the audit open saw a mission whose own finalizer is still to come.
  That there is a mission holds of the code: `planAuditMissions` plans the
  deterministic ones for every audit.
* `SerialAuditKeepsPromise`: `Spec => KeepsPromise`, the refinement of
  `AuditPromise`, with one job at a time, nobody to cancel, and no queue addition
  or target refused; missions fail and workers die as they like. Each hypothesis
  is one that TLC refutes the refinement without. `ServedInv` has the one job
  (`SerialInv`), what is known of a decision (`DecisionInv`) and that nothing is
  cancelled; each action is then mapped to a step of the promise or a stutter.

They use the assumptions `MissionsAssumption` and `BoundsAssumption`, nothing
about `OptionalMissionsRunOnce`.

`GitHubExportProofs` proves, for every finite set of findings, any requests over
any non-empty selections, any retries, any positive number of attempts, any fault
budget and either assumption about the search:

* `ExportTypeCorrect`: `Spec => []TypeInvariant`, which contains that the job the
  worker runs is active and that a job that may still run has an attempt left;
  without these two the bound on `attemptsMade` is not inductive.
* `ExportsAreBacked`: `Spec => []RowsBackedByIssues`. `Backed` adds what the
  worker is about to write, and that the index knows only issues there are. It
  needs `IssuesStay`: no step takes an issue away.
* `AtMostOneIssue`: `Spec => []OneIssuePerFinding`. `OneIssue` adds, when the
  search does not lag, that every issue is indexed and that a worker about to
  post has found none.
* `FinishedMeansSettled`: `Spec => []FinishedBatchIsSettled`. `SettledInv`, which
  holds until somebody retries, adds that a request that has not committed has neither batch nor
  job nor rows (`NotYetCommitted`), and that whatever row a running job has still
  to write belongs to an unfinished batch (`LoopGoesOn`): its own, or one that
  took the row over and has to wait for the one worker.

* `BatchIsAccounted`: where there is one batch, `Spec => []ExportsAreAccounted`.
  `Counted` says of the running tally that it is the rows of each status among the
  findings already done, as cardinalities of disjoint sets. One batch, because a
  later one may put a row back that it read before the first exported it; the
  run `export_shared` shows the other properties across batches.

They use `ExportAssumption` and `FaultAssumption`.

`BrowserSwarmProofs` proves, for every number of agents and concurrency the
configuration allows, every budget, every use of it and every number of failing
statements:

* `SwarmTypeCorrect`: `Spec => []TypeInvariant`, together with
* `BudgetsRefuseNobody`: `Spec => []NoneRefused`. `Masked` says that from the
  first batch on the number of agents is the limit on agents, which is the
  reason every check then gets.
* `SwarmConcurrencyBounded`: `Spec => []ConcurrencyBounded`. `Slots` puts
  `activeAgents` between the agents at work and those plus the rejected ones,
  which it may count still, and keeps all of them within the current batch; a
  batch has no more agents than may run at once (`BatchBounded`).

* `RunsAddUp`: `Spec => []ReportAddsUp`. `Books` keeps, at every step of every
  agent, what is in the totals and what is in the agents' rows in agreement: steps
  used are the counted steps of the agents, agents completed the covered ones.
  `Batches` says who has had a turn, `Snapshot` what the report has read. The
  steps are a sum over a function, a fold: `SumCountsUnits` equates it with the
  cardinality of a set of pairs, by an induction over the subsets of the domain
  that looks for a smallest counterexample, and what sums do follows.
* `ReportsAreLast`: `Spec => RunIsTheLastWord`, the action property, from the same
  invariant: when the report is written every agent is out.

They use `SwarmAssumption`.

`BrowserAgentProofs` proves, for every budget, every set of proposals, pages and
prices, and every number of failing statements and deaths, from one inductive
invariant `AgentInv`:

* `AgentTypeCorrect`: `Spec => []TypeInvariant`. That the loop has no reason to
  stop needs `Metering`'s last part: an attempt begins without one.
* `AgentEffectsWithinBudgets`: `Spec => []EffectsWithinBudgets`. The property
  says nothing of the counts the code keeps. `Metering` adds that in the loop
  they agree with what the page went through, and that an action about to be
  carried out has something left; where they part, the loop is over.
* `AgentRecordHasNoGap`: `Spec => []RecordHasNoGap`. `Recorded` says which steps
  the attempt has written at each label (`Written`), so that the next one follows
  on them. `WriteStepKeepsRecord` is the step from one row to the next.
* `AgentFindingsAreBacked`: `Spec => []FindingsAreBacked`. `Cited` adds that a
  finding about to be reported cites steps the loop has counted, which in the
  loop are the steps it has written; a write that fails ends the loop.

* `AgentRecordTellsTheRun`: `Spec => []RecordTellsTheRun`. `TellInv` says at each
  label what the row of the run will say and which steps it will say it of
  (`Telling`).
* `AgentDoesNotInsist`: `Spec => []LoopDoesNotInsist`. `LoopInv` relates the loop's
  count of rejections and its list of recent actions to the steps it has
  recorded (`Refusing`, `Remembering`).

They use `AgentAssumption`, which includes that a proposal to finish has no
target, as its schema has none.

`EvidenceStoreProofs` proves, for any reporters, prints, cleaners, retentions and
faults:

* `EvidenceIsTyped`: `EvidenceSpec => []EvidenceTypes`, from `EvidenceInv`, which
  adds what a job or a cleaner has read and not used yet.
* `ObjectsAndRowsDoAgree`: `EvidenceSpec => []ObjectsAndRowsAgree`. `LifeInv`
  follows an object from its upload to its deletion: keys are of their own row
  (`KeysAreOwn`), a row not claimed has its object (`ObjectsLive`), only what is due
  is claimed (`DueIsLate`), a claim revokes the links before the object goes
  (`ClaimsRevoke`), and what was deleted stays so (`DeletedIsGone`). `AccountInv`
  says that as long as nothing out of the ordinary happened (`Tame`), no job
  uploads beside another and no object is orphaned.
* `FindingsAreAlwaysCounted`: `EvidenceSpec => []FindingsAreCounted`. An
  occurrence that a job has told the database of is a unit, and so is one that a
  row counts. `CountInv` says that of a fingerprint the rows never count fewer
  units than were told, and exactly as many while no job was cut short: a job
  that starts over takes its units back, and its rows keep theirs. Two sums, of the
  counts of rows and of the occurrences reported, are then compared as
  cardinalities: `SumCountsUnits` says that what `MapThenSumSet` adds up over a
  finite set is the number of units, by the smallest counterexample among the
  subsets. `SerialInv` adds what holds where no two jobs persist at once: one job
  is in its loop (`OnePersists`), its list of known rows and what it has read of
  the row in hand are the database's (`Knows`), and a row has the sources and
  the evidence told so far, unless it is the one in hand (`RowsTell`).

They use `ScenarioAssumption` (reports are lists, an occurrence happens at least
once) and `ReportersAssumption` (finitely many missions).

`GitHubConnectionProofs` proves, for any workspaces, installations, states,
handlers and deliveries:

* `ConnectionsAreTyped`: `ConnectionSpec => []ConnectionTypes`, from `RowsInv`.
* `StatesAreSpentOnce`, `NobodyIsReconnected`, `ExportsFollow`, and from the three
  `ConnectionsAreTrue`: `ConnectionSpec => []ConnectionIsTrue`. `SpentInv` and
  `WantedInv` are short: what a callback holds between its read and its write.
  `FollowInv` is the long one. That rows show what GitHub grants *once all is
  answered* needs what is true before: whoever writes a list is alone with it
  (`OneList`), and a list or a row that is older than GitHub has a delivery still
  to come that will bring it up to date (`ListsAreFresh`, `RowsAreFresh`,
  `GoneIsPending`), unless one of the overtakings the property names happened.

`MissionProofs` proves, for configurations, pages, contexts, answers and limits
of any size:

* `PlanTellsWhoMadeIt`: `PlanningSpec => []PlanTellsItsSource`. `AskInv` knows of
  each step which answers there can have been: until one fits there is no output
  and no reason, and with it the asking ends (`AnswersEndTheAsking`); how many
  were asked for is bounded by the round and the attempt the job is in
  (`AsksAreCounted`), which takes a little arithmetic over products; and a plan
  once written says what they came to (`PlanIsOfTheAnswers`). A delivery that dies
  forgets its answers and leaves its plan's row, so the invariant binds the row
  only where the property reads it.
* `PlansAreCarriedOut`: `PlanningSpec => []PlanIsCarriedOut`. `MergedPlanHolds`
  says what `mergePlannerOutput` returns for any proposals: every mission of the
  baseline, within its limits or the policy's, as the last proposal accepted for
  it has it, or as it was. `RowsInv` then follows the upserts: while the
  missions are persisted each has either its row as the plan tells it or is still
  to do, and the rows that an earlier delivery left keep what every plan defines.
* `PromptsAreClean`: `PlanningSpec => []PromptIsClean`, which excepts the page's
  own two addresses (section 2). `PromptInv` needs only that a snapshot is clean,
  and its addresses the page's, before anything is built of it; the work is in the lemmas
  about the operators: `SanitizedIsClean` for whatever a page may hold,
  `ContextIsCleaned` for what the user added, `JourneysAreOwn` and
  `PriorityRoutesAreOwn` for the routes derived of both, `PromptIsBuiltClean` for
  the whole.
* `PlanningIsTyped`: `PlanningSpec => []PlanningTypes`, from `AskInv`, `RowsInv` and
  `PlanningSteps`.
* `MissionsAreExact`: `MissionSpec => []MissionIsExact`. `MissionInv` says of each
  executor that what it has reported so far is what it has tried so far
  (`LinksInOrder`, `ButtonsOfCandidates`, `FindingsAreDefects`), and of the clicker
  that its clicks so far answer the first candidates, one each (`ClicksInOrder`).
  Each list of findings is shown to hold each defect of its kind (`ErrorsAreTold`,
  `LabelsAreTold`, `ViolationsAreTold`, `BrokenLinksAreDefects`). For the links,
  the limit cuts a list without repetitions, while `Defects` ranks the page's own:
  the URLs of the safe links up to the one of rank d are the first d of that
  list.
* `MissionsAreTyped`: `MissionSpec => []MissionTypes`: what the listeners keep they
  have heard, so each finding counts something.

The lists are folds. That a fold over a list exists and what it keeps is proved
without an induction theorem of the library: the set of the numbers of elements
for which the statement fails has no least member (`UpToInduction`, `FoldExists`),
and `AmongKeeps`, `FirstByKeyKeeps` and the lemma about each other fold follow.

They use `PlanningAssumption`, `RepliesAssumption` (cases and answers are of their
types), `CapsAssumption` (limits are numbers), `SecretsAssumption` (the mark of
redaction is no secret) and `TargetsAssumption` (pages are well formed, and one URL
answers one status however often it is linked).

`WorkspaceProofs` proves about `Members`, for any users, workspaces, invitations
and requests:

* `MembersAreTyped`: `MemberSpec => []MemberTypes`.
* `MembershipIsAlwaysGranted`: `MemberSpec => []MembershipIsGranted`, from
  `MemberInv`. Its hard part is the limit on a team: as long as no two invitations
  were open side by side, an open one is the only one and there is a place for
  its guest, or the guest is in already (`PlacesAreLeft`). That a request acts
  where its user founded needs that the oldest membership is one's own
  (`OldestIsOwn`), which is where the order of the rows comes in.

and about `Billing`, for any plans, limits, requests, checkouts, web processes and
events:

* `RowsFollowStripe`: `BillingSpec => []RowFollowsStripe`. `FollowInv` says that
  each event that is not answered yet is still to be told (`StoryIsTold`), which
  of them are handled in turn (`InTurn`), and that the row then tells the latest
  (`RowTellsLatest`).
* `LimitsHold`: `BillingSpec => []LimitsHoldUnlessRaced`. `LimitsInv` says that a
  request between its count and its insert is alone there, unless raced, and
  that there is then room for what it creates (`CreatorHasRoom`); usage events
  and active audits are counted by their owners (`UsageFits`, `ActiveFits`). The
  code's count is of the fresh audits only: unless somebody was let through
  beside one that is not, they are all the active ones when it matters.
* `BillingIsTyped`: `BillingSpec => []BillingTypes`. `CustomersMade` says where each
  customer in a row or in one of Stripe's events comes from, `UsageIsDone` that
  usage is of requests that created their audit.

and about `RateLimit`, for any calls and web processes, any limit and window, and
any number of failures:

* `CallsAreLimited`: `RateSpec => []RateIsLimited`. `RateInv` adds that a counter
  is ahead of every count it has given out (`Behind`), so that calls of one
  counter have different counts and as many as are within the limit fit into it
  (`CountsFit`); that a key that is not counted has no time (`Clock`); and that a
  pipeline past PEXPIRE has a key with a time.
* `CountersAreTyped`: with finitely many calls, `RateSpec => []RateTypes`. `Waiting`
  counts the key by the calls whose INCR is through, and gives every call that
  waits a command in the pipeline.

They use `TeamAssumption` (a plan allows at least one member), `MemberCasesAssumption`,
`PlansAssumption`, `BillingCasesAssumption` and `RateAssumption`.

Only model-checked:

* `JobsTypes` and `ServicesTypes`, the conjunctions that two runs check of eight
  modules; each conjunct is a theorem of its own module's specification
  (`SwarmTypeCorrect`, `EvidenceIsTyped`, `MissionsAreTyped`, `PlanningIsTyped`;
  `BillingIsTyped`, `MembersAreTyped`, `ConnectionsAreTyped`, `CountersAreTyped`).
* `AuditSettles`, `JobsConclude`, `SwarmSettles`, `OpenedRunSettles` and
  `DueIsDeleted`, since liveness under fairness is out of the prover's reach.

## 5. What is not modelled

* In `AuditLifecycle`, which missions a plan has is a constant; `AuditPlanning`
  has the plan and its rows, and leaves statuses and the queue alone. Important
  journeys, warnings and token counts of the plan are left out: nothing reads them.
* In `AuditLifecycle`, what a mission does in the browser: `Execute` has every
  outcome `runMissionJob` tells apart; `BrowserSwarm`, `BrowserAgent` and
  `MissionFindings` model the missions. Findings, evidence and session rows appear only as the exceptions
  their writes may throw.
* The order in which the planner goes through its missions is any order; the
  code has one, by the mission definitions.
* Timestamps, messages, logs.
* Failures of the database itself, as opposed to what the code throws on what it
  reads.
* GitHub drafts, labels, assignees, previews; the mock and the unconfigured
  provider, which open no issue.
* Report scores, the web pages and the public feeds: they only read.
* Usage events other than `AUDIT_CREATED` and limits nothing enforces; the billing
  portal; renaming a workspace and onboarding, which write one field.
* Parsing of configuration, of addresses and of Redis replies, the DNS checks of
  target safety, and sessions, which are Supabase's.
* Truncation of texts, except where a limit decides what is kept or refused.
* Components marked `not_modelled` in `PROJECT.json`, each with its reason
  there.

## 6. The plan

In this order, the ones most of the system depends on first:

1. `StatusTables`, `AuditPromise`, `AuditLifecycle` with its proofs (done).
2. `GitHubExport`: export batches, the export job and the issues on GitHub, with
   its proofs (done).
3. `BrowserSwarm`: batches, budgets and the report, and `BrowserAgent`: the loop
   of one agent, its budgets and its recorded steps, with their proofs (done).
4. `EvidenceStore` with its proofs (done).
5. `MissionFindings`, `PlannerContext` and `AuditPlanning` with their proofs (done).
6. `Billing`, `Members`, `GitHubConnection` with their proofs (done).
7. `RateLimit` with its proof (done).
8. `NoStrandedPlannedAudit` as a theorem, from an invariant that names the process
   responsible for closing the audit (done).
