--------------------------- MODULE AuditLifecycle ---------------------------
(***************************************************************************)
(* One audit, from POST /api/audits to a terminal status: the API request  *)
(* that creates it, the plan-audit job, one run-audit job per mission, the *)
(* finalizer those jobs call, and the members who ask to cancel.           *)
(*                                                                         *)
(* Grain of atomicity: one database statement or one queue operation per   *)
(* action, because that is what the code gets from Prisma and BullMQ.      *)
(* transitionAuditStatus and transitionMissionStatus are a findUnique, a   *)
(* check in memory and an unconditional update by id; a process waiting    *)
(* at label "x?" is about to read and one at "x!" is about to write what   *)
(* it validated earlier.                                                   *)
(***************************************************************************)
EXTENDS Integers, FiniteSets, StatusTables

CONSTANTS
  Missions,       \* mission types of the audit's plan
  Required,       \* those whose definition says required: true
  MaxAttempts,    \* Missions -> maxAttempts of the mission definition
  PlanJob,        \* the plan-audit job, next to one job per mission
  Cancellers,     \* members who may each send one cancel request
  Concurrency,    \* missionWorkerConcurrency
  MaxFaults       \* FaultKinds -> how many faults of the kind may happen

ASSUME MissionsAssumption ==
  /\ IsFiniteSet(Missions)
  /\ PlanJob \notin Missions
  /\ Required \subseteq Missions
  /\ MaxAttempts \in [Missions -> Nat \ {0}]

\* Every mission definition with required: false has maxAttempts: 1.
ASSUME OptionalMissionsRunOnce ==
  \A m \in Missions \ Required : MaxAttempts[m] = 1

(***************************************************************************)
(* crash   - the worker process or the web process dies;                   *)
(* queue   - a queue addition fails, or answers after its timeout;         *)
(* refusal - assertAuditTargetNetworkAllowed refuses a target it accepted  *)
(*           when the audit was created (its name stops resolving, or      *)
(*           resolves to a forbidden address).                             *)
(***************************************************************************)
FaultKinds == {"crash", "queue", "refusal"}

ASSUME BoundsAssumption ==
  /\ Concurrency \in Nat \ {0}
  /\ MaxFaults \in [FaultKinds -> Nat]

Jobs == Missions \cup {PlanJob}

NoMission == PlanJob

VARIABLES
  audit,            \* Audit.status
  cancelRequested,  \* Audit.cancelRequestedAt is set
  report,           \* a Report row exists
  usage,            \* usage events recorded, by idempotency key
  mission,          \* Mission.status per mission, Absent before its row exists
  attemptCount,     \* Mission.attemptCount
  job,              \* BullMQ state per job
  attemptsMade,     \* BullMQ job.attemptsMade
  stalls,           \* how often the job's worker died under it
  pc,               \* where the processor of the job is
  route,            \* which exit of runMissionJob its processor is on
  todo,             \* missions the planner's current loop has left
  inHand,           \* the mission the planner is queueing, or NoMission
  api,              \* where the POST /api/audits handler is
  cancelPc,         \* where each cancel request is
  faults            \* faults so far, by kind

auditRow    == <<audit, cancelRequested, report, usage>>
missionRows == <<mission, attemptCount>>
queue       == <<job, attemptsMade, stalls>>
processors  == <<pc, route, todo, inHand>>
clients     == <<api, cancelPc>>
vars == <<auditRow, missionRows, queue, processors, clients, faults>>

PlannerLabels ==
  {"plan-guard", "plan-check", "plan-snapshot", "plan-unsafe?",
   "plan-unsafe!", "plan-rows", "plan-check-again", "plan-queued?",
   "plan-queued!", "plan-mission?", "plan-mission!", "plan-enqueue"}

MissionLabels ==
  {"check", "guard", "running?", "running!", "start?", "start!",
   "check-started", "execute", "check-done", "persist", "complete?",
   "complete!", "finalize", "analyze?", "analyze!", "generate?",
   "generate!", "report!", "finish?", "finish!", "fail-audit?",
   "fail-audit!", "usage-completed", "usage-failed", "usage-cancelled",
   "fail?", "fail!", "requeue?", "requeue!", "cancel?", "cancel!",
   "close-cancelled", "cancel-missions!", "cancel-audit?", "cancel-audit!"}

Labels == {"idle", "job-done", "job-failed"} \cup PlannerLabels
                                             \cup MissionLabels

ApiLabels ==
  {"validating?", "validating!", "planning?", "planning!", "enqueue",
   "failed?", "failed!", "usage-failed!", "usage-created!", "done"}

(***************************************************************************)
(* createAuditRecord has inserted the row; nothing else has happened.      *)
(***************************************************************************)
Init ==
  /\ audit = "created"
  /\ cancelRequested = FALSE
  /\ report = FALSE
  /\ usage = {}
  /\ mission = [m \in Missions |-> Absent]
  /\ attemptCount = [m \in Missions |-> 0]
  /\ job = [j \in Jobs |-> "none"]
  /\ attemptsMade = [j \in Jobs |-> 0]
  /\ stalls = [j \in Jobs |-> 0]
  /\ pc = [j \in Jobs |-> "idle"]
  /\ route = [j \in Jobs |-> "main"]
  /\ todo = {}
  /\ inHand = NoMission
  /\ api = "validating?"
  /\ cancelPc = [c \in Cancellers |-> "idle"]
  /\ faults = [k \in FaultKinds |-> 0]

-----------------------------------------------------------------------------
(***************************************************************************)
(* Shared pieces.                                                          *)
(***************************************************************************)

\* What the read half of a transition decides: the same status is a no-op,
\* a listed move goes on to the write, anything else throws.
Landing(status, legal, target, write, done, throw) ==
  IF status = target THEN done
  ELSE IF target \in legal[status] THEN write ELSE throw

\* Variant: any audit that ended badly counts as cancelled.
CancellationSeenInFailure ==
  cancelRequested \/ audit \in {"cancelled", "failed"}

\* throwIfAuditCancelled asks getAuditCancellationState.
CancellationSeen == cancelRequested \/ audit = "cancelled"

Rows == {m \in Missions : mission[m] # Absent}

Attempts(j) == IF j = PlanJob THEN 1 ELSE MaxAttempts[j]

Fault(kind) ==
  /\ faults[kind] < MaxFaults[kind]
  /\ faults' = [faults EXCEPT ![kind] = @ + 1]

LastAttempt(m) == attemptsMade[m] + 1 >= MaxAttempts[m]

\* The processor of job j goes on at next.
Goto(j, next) ==
  /\ pc' = [pc EXCEPT ![j] = next]
  /\ UNCHANGED <<route, todo, inHand>>

\* The catch of runMissionJob for any error but AuditCancelledError; a
\* target safety error counts as the final attempt whatever is left.
Catch(m, unsafe) ==
  /\ pc' = [pc EXCEPT ![m] = "fail?"]
  /\ route' = [route EXCEPT ![m] =
                 IF unsafe \/ LastAttempt(m) THEN "last" ELSE "retry"]
  /\ UNCHANGED <<todo, inHand>>

\* The catch of runMissionJob for AuditCancelledError.
CatchCancelled(m) ==
  /\ pc' = [pc EXCEPT ![m] = "cancel?"]
  /\ route' = [route EXCEPT ![m] = "cancel"]
  /\ UNCHANGED <<todo, inHand>>

\* A read whose error is caught by runMissionJob, or swallowed where it is
\* called, according to the label that stands for the throw.
Follow(m, next) ==
  IF next = "throw" THEN Catch(m, FALSE) ELSE Goto(m, next)

\* A processor step that leaves the database and the queue alone.
NoWrite == UNCHANGED <<auditRow, missionRows, queue, clients>>

Local == NoWrite /\ UNCHANGED faults

WriteAudit(j, at, status, next) ==
  /\ pc[j] = at
  /\ audit' = status
  /\ Goto(j, next)
  /\ UNCHANGED <<cancelRequested, report, usage, missionRows, queue, clients,
                 faults>>

WriteMission(j, at, m, status, next) ==
  /\ pc[j] = at
  /\ mission' = [mission EXCEPT ![m] = status]
  /\ Goto(j, next)
  /\ UNCHANGED <<auditRow, attemptCount, queue, clients, faults>>

-----------------------------------------------------------------------------
(***************************************************************************)
(* POST /api/audits, after createAuditRecord.                              *)
(***************************************************************************)

ApiOnly == UNCHANGED <<missionRows, processors, cancelPc>>

ApiRead ==
  /\ \/ /\ api = "validating?"
        /\ api' = Landing(audit, auditTransitions, "validating",
                          "validating!", "planning?", "done")
     \/ /\ api = "planning?"
        /\ api' = Landing(audit, auditTransitions, "planning",
                          "planning!", "enqueue", "done")
     \/ /\ api = "failed?"
        /\ api' = Landing(audit, auditTransitions, "failed",
                          "failed!", "usage-failed!", "usage-failed!")
  /\ ApiOnly
  /\ UNCHANGED <<auditRow, queue, faults>>

ApiWrite ==
  /\ \/ api = "validating!" /\ audit' = "validating" /\ api' = "planning?"
     \/ api = "planning!" /\ audit' = "planning" /\ api' = "enqueue"
     \/ api = "failed!" /\ audit' = "failed" /\ api' = "usage-failed!"
  /\ ApiOnly
  /\ UNCHANGED <<cancelRequested, report, usage, queue, faults>>

\* enqueueAuditPlan inside withTimeout: accepted in time, refused, or
\* accepted after the handler stopped waiting for it.
ApiEnqueue ==
  /\ api = "enqueue"
  /\ \/ /\ job' = [job EXCEPT ![PlanJob] = "waiting"]
        /\ api' = "usage-created!"
        /\ UNCHANGED faults
     \/ /\ Fault("queue")
        /\ api' = "failed?"
        /\ \/ UNCHANGED job
           \/ job' = [job EXCEPT ![PlanJob] = "waiting"]
  /\ ApiOnly
  /\ UNCHANGED <<auditRow, attemptsMade, stalls>>

\* AUDIT_CREATED, or the AUDIT_FAILED of the handler, each under its own key.
ApiUsage ==
  /\ \/ api = "usage-created!" /\ usage' = usage \cup {"created"}
     \/ api = "usage-failed!" /\ usage' = usage \cup {"enqueue-failed"}
  /\ api' = "done"
  /\ ApiOnly
  /\ UNCHANGED <<audit, cancelRequested, report, queue, faults>>

Api == ApiRead \/ ApiWrite \/ ApiEnqueue \/ ApiUsage

(***************************************************************************)
(* POST /api/audits/[id]/cancel: a read of the audit and its missions,     *)
(* then one transaction that still counts the missions of that read.       *)
(***************************************************************************)
CancelRead(c) ==
  /\ cancelPc[c] = "idle"
  /\ cancelPc' = [cancelPc EXCEPT ![c] =
       IF audit \in TerminalAudit THEN "done"
       ELSE IF \E m \in Missions : mission[m] = "running"
            THEN "tx-running" ELSE "tx-none"]
  /\ UNCHANGED <<auditRow, missionRows, queue, processors, api, faults>>

CancelTx(c) ==
  /\ cancelPc[c] \in {"tx-none", "tx-running"}
  /\ cancelPc' = [cancelPc EXCEPT ![c] = "done"]
  /\ cancelRequested' = TRUE
  /\ mission' = [m \in Missions |->
       IF mission[m] \in {"created", "queued"} THEN "cancelled"
                                               ELSE mission[m]]
  /\ audit' = IF cancelPc[c] = "tx-none" THEN "cancelled" ELSE audit
  /\ UNCHANGED <<report, usage, attemptCount, queue, processors, api, faults>>

-----------------------------------------------------------------------------
(***************************************************************************)
(* The queue: at most Concurrency processors; any waiting job may start,   *)
(* which covers both queue order and the back-off of a retry.              *)
(***************************************************************************)
StartJob(j) ==
  /\ job[j] = "waiting"
  /\ Cardinality({k \in Jobs : job[k] = "active"}) < Concurrency
  /\ job' = [job EXCEPT ![j] = "active"]
  /\ pc' = [pc EXCEPT ![j] = IF j = PlanJob THEN "plan-guard" ELSE "check"]
  /\ route' = [route EXCEPT ![j] = "main"]
  /\ UNCHANGED <<auditRow, missionRows, attemptsMade, stalls, todo, inHand,
                 clients, faults>>

\* The processor returned.
JobDone(j) ==
  /\ pc[j] = "job-done"
  /\ job' = [job EXCEPT ![j] = "completed"]
  /\ Goto(j, "idle")
  /\ UNCHANGED <<auditRow, missionRows, attemptsMade, stalls, clients,
                 faults>>

\* Variant: one attempt too many.
JobFailedOffByOne(j) ==
  /\ pc[j] = "job-failed"
  /\ attemptsMade' = [attemptsMade EXCEPT ![j] = @ + 1]
  /\ job' = [job EXCEPT ![j] =
               IF attemptsMade[j] < Attempts(j) THEN "waiting" ELSE "failed"]
  /\ Goto(j, "idle")
  /\ UNCHANGED <<auditRow, missionRows, stalls, clients, faults>>

\* The processor threw: BullMQ counts the attempt and retries while it may.
JobFailed(j) ==
  /\ pc[j] = "job-failed"
  /\ attemptsMade' = [attemptsMade EXCEPT ![j] = @ + 1]
  /\ job' = [job EXCEPT ![j] =
               IF attemptsMade[j] + 1 < Attempts(j) THEN "waiting"
                                                    ELSE "failed"]
  /\ Goto(j, "idle")
  /\ UNCHANGED <<auditRow, missionRows, stalls, clients, faults>>

\* The worker process dies with every processor in it. A stalled job is
\* handed out again once (BullMQ's maxStalledCount), then failed unprocessed.
Crash ==
  /\ Fault("crash")
  /\ \E j \in Jobs : job[j] = "active"
  /\ job' = [j \in Jobs |->
       IF job[j] # "active" THEN job[j]
       ELSE IF stalls[j] = 0 THEN "waiting" ELSE "failed"]
  /\ stalls' = [j \in Jobs |->
       IF job[j] = "active" THEN stalls[j] + 1 ELSE stalls[j]]
  /\ pc' = [j \in Jobs |-> "idle"]
  /\ UNCHANGED <<auditRow, missionRows, attemptsMade, route, todo, inHand,
                 clients>>

-----------------------------------------------------------------------------
(***************************************************************************)
(* runPlanningJob. Its AuditCancelledError is not handled: runQueueJob     *)
(* returns the promise without awaiting it, so the catch there never runs  *)
(* and the job just fails.                                                 *)
(***************************************************************************)
PlanGuard ==
  /\ pc[PlanJob] = "plan-guard"
  /\ \/ Goto(PlanJob, "plan-check") /\ UNCHANGED faults
     \/ Goto(PlanJob, "plan-unsafe?") /\ Fault("refusal")
  /\ NoWrite

PlanCheck ==
  /\ \/ /\ pc[PlanJob] = "plan-check"
        /\ Goto(PlanJob, IF CancellationSeen THEN "job-failed"
                                             ELSE "plan-snapshot")
     \/ /\ pc[PlanJob] = "plan-check-again"
        /\ Goto(PlanJob, IF CancellationSeen THEN "job-failed"
                                             ELSE "plan-queued?")
  /\ Local

\* The snapshot ends in a baseline or merged plan whatever happens, since
\* its own cancellation check is inside the try whose catch falls back;
\* only a target safety error leaves.
PlanSnapshot ==
  /\ pc[PlanJob] = "plan-snapshot"
  /\ \/ /\ pc' = [pc EXCEPT ![PlanJob] = "plan-rows"]
        /\ todo' = Missions
        /\ UNCHANGED <<route, inHand, faults>>
     \/ Goto(PlanJob, "plan-unsafe?") /\ Fault("refusal")
  /\ NoWrite

PlanUnsafe ==
  \/ /\ pc[PlanJob] = "plan-unsafe?"
     /\ Goto(PlanJob, Landing(audit, auditTransitions, "failed",
                              "plan-unsafe!", "job-failed", "job-failed"))
     /\ Local
  \/ WriteAudit(PlanJob, "plan-unsafe!", "failed", "job-failed")

\* persistMissionPlan: one upsert per mission, which creates an absent row
\* and leaves the status of an existing one alone.
PlanRow(m) ==
  /\ pc[PlanJob] = "plan-rows"
  /\ m \in todo
  /\ todo' = todo \ {m}
  /\ mission' = [mission EXCEPT ![m] = IF @ = Absent THEN "created" ELSE @]
  /\ UNCHANGED <<auditRow, attemptCount, queue, pc, route, inHand, clients,
                 faults>>

PlanRowsDone ==
  /\ pc[PlanJob] = "plan-rows"
  /\ todo = {}
  /\ Goto(PlanJob, "plan-check-again")
  /\ Local

PlanQueued ==
  \/ /\ pc[PlanJob] = "plan-queued?"
     /\ todo' = Missions
     /\ pc' = [pc EXCEPT ![PlanJob] =
          Landing(audit, auditTransitions, "queued", "plan-queued!",
                  "plan-mission?", "job-failed")]
     /\ UNCHANGED <<route, inHand>>
     /\ Local
  \/ WriteAudit(PlanJob, "plan-queued!", "queued", "plan-mission?")

\* The loop: markMissionQueued, then enqueueMission. The mission in hand
\* leaves todo with its queue addition. Any order: the plan is sorted by
\* priority, and a planning job that runs again may be given another one.
PlanMissionRead(m) ==
  /\ pc[PlanJob] = "plan-mission?"
  /\ m \in todo
  /\ pc' = [pc EXCEPT ![PlanJob] =
       Landing(mission[m], missionTransitions, "queued", "plan-mission!",
               "plan-enqueue", "job-failed")]
  /\ inHand' = m
  /\ UNCHANGED <<route, todo>>
  /\ Local

PlanMissionWrite(m) ==
  /\ inHand = m
  /\ WriteMission(PlanJob, "plan-mission!", m, "queued", "plan-enqueue")

\* queue.add with jobId mission-{id}: ignored while that job is still kept,
\* which here is for good (finished jobs are trimmed only by the thousand).
PlanEnqueue(m) ==
  /\ pc[PlanJob] = "plan-enqueue"
  /\ inHand = m
  /\ \/ /\ job' = [job EXCEPT ![m] = IF @ = "none" THEN "waiting" ELSE @]
        /\ todo' = todo \ {m}
        /\ pc' = [pc EXCEPT ![PlanJob] = "plan-mission?"]
        /\ UNCHANGED <<route, inHand, faults>>
     \/ /\ Fault("queue")
        /\ Goto(PlanJob, "job-failed")
        /\ UNCHANGED job
  /\ UNCHANGED <<auditRow, missionRows, attemptsMade, stalls, clients>>

PlanLoopDone ==
  /\ pc[PlanJob] = "plan-mission?"
  /\ todo = {}
  /\ Goto(PlanJob, "job-done")
  /\ Local

Planner ==
  \/ PlanGuard \/ PlanCheck \/ PlanSnapshot \/ PlanUnsafe
  \/ PlanRowsDone \/ PlanQueued \/ PlanLoopDone
  \/ \E m \in Missions : \/ PlanRow(m)
                         \/ PlanMissionRead(m)
                         \/ PlanMissionWrite(m)
                         \/ PlanEnqueue(m)

-----------------------------------------------------------------------------
(***************************************************************************)
(* runMissionJob.                                                          *)
(***************************************************************************)

\* The three throwIfAuditCancelled calls of the main path.
CheckCancelled(m) ==
  /\ \/ /\ pc[m] = "check"
        /\ IF CancellationSeen THEN CatchCancelled(m) ELSE Goto(m, "guard")
     \/ /\ pc[m] = "check-started"
        /\ IF CancellationSeen THEN CatchCancelled(m) ELSE Goto(m, "execute")
     \/ /\ pc[m] = "check-done"
        /\ IF CancellationSeen THEN CatchCancelled(m) ELSE Goto(m, "persist")
  /\ Local

\* assertAuditTargetNetworkAllowed before anything is marked.
Guard(m) ==
  /\ pc[m] = "guard"
  /\ \/ Goto(m, "running?") /\ UNCHANGED faults
     \/ Catch(m, TRUE) /\ Fault("refusal")
  /\ NoWrite

MarkAuditRunning(m) ==
  \/ /\ pc[m] = "running?"
     /\ Follow(m, Landing(audit, auditTransitions, "running", "running!",
                          "start?", "throw"))
     /\ Local
  \/ WriteAudit(m, "running!", "running", "start?")

\* markMissionRunning; the attempt is counted by the write, so a row that
\* already says running is not counted again.
MarkMissionRunning(m) ==
  \/ /\ pc[m] = "start?"
     /\ Follow(m, Landing(mission[m], missionTransitions, "running",
                          "start!", "check-started", "throw"))
     /\ Local
  \/ /\ pc[m] = "start!"
     /\ mission' = [mission EXCEPT ![m] = "running"]
     /\ attemptCount' = [attemptCount EXCEPT ![m] = @ + 1]
     /\ Goto(m, "check-started")
     /\ UNCHANGED <<auditRow, queue, clients, faults>>

\* The browser work, in runWithTimeout: done, failed or timed out, or
\* stopped by the checkCancellation calls inside it.
Execute(m) ==
  /\ pc[m] = "execute"
  /\ \/ Goto(m, "check-done") /\ UNCHANGED faults
     \/ Catch(m, FALSE) /\ UNCHANGED faults
     \/ Catch(m, TRUE) /\ Fault("refusal")
     \/ CancellationSeen /\ CatchCancelled(m) /\ UNCHANGED faults
  /\ NoWrite

\* The guard on the final URL, persistFindings, uploadAuditEvidence and the
\* session row: only whether they throw matters here.
Persist(m) ==
  /\ pc[m] = "persist"
  /\ \/ Goto(m, "complete?") /\ UNCHANGED faults
     \/ Catch(m, FALSE) /\ UNCHANGED faults
     \/ Catch(m, TRUE) /\ Fault("refusal")
  /\ NoWrite

MarkMissionCompleted(m) ==
  \/ /\ pc[m] = "complete?"
     /\ Follow(m, Landing(mission[m], missionTransitions, "completed",
                          "complete!", "finalize", "throw"))
     /\ Local
  \/ WriteMission(m, "complete!", m, "completed", "finalize")

(***************************************************************************)
(* finalizeAuditIfReady, called on the main path, where an error reaches   *)
(* the catch and a terminal outcome is reported as usage, and after a last *)
(* failed attempt, where both are dropped.                                 *)
(***************************************************************************)
Main(m) == route[m] = "main"

UsageLabel ==
  [completed |-> "usage-completed", failed |-> "usage-failed",
   cancelled |-> "usage-cancelled"]

FinalizerThrow(m) == IF Main(m) THEN "throw" ELSE "job-failed"

AfterFinalizer(m, status) ==
  IF ~Main(m) THEN "job-failed"
  ELSE IF status \in TerminalAudit THEN UsageLabel[status] ELSE "job-done"

\* Variant: only required missions are waited for.
AllRequiredTerminal == \A m \in Rows \cap Required : mission[m] \in TerminalMission

AllTerminal == \A m \in Rows : mission[m] \in TerminalMission

\* Variant: a failed required mission alone does not fail the audit.
FailureOnlyWhenAllFailed == Rows # {} /\ \A m \in Rows : mission[m] = "failed"

FailureDecided ==
  \/ \E m \in Rows : m \in Required /\ mission[m] = "failed"
  \/ Rows # {} /\ \A m \in Rows : mission[m] = "failed"

\* The one read the finalizer decides on.
Finalize(m) ==
  /\ pc[m] = "finalize"
  /\ Goto(m, IF audit \in TerminalAudit \/ ~AllTerminal
             THEN AfterFinalizer(m, audit)
             ELSE IF FailureDecided THEN "fail-audit?" ELSE "analyze?")
  /\ Local

FinalizerRead(m, at, status, write, done) ==
  /\ pc[m] = at
  /\ Follow(m, Landing(audit, auditTransitions, status, write, done,
                       FinalizerThrow(m)))
  /\ Local

FailAudit(m) ==
  \/ FinalizerRead(m, "fail-audit?", "failed", "fail-audit!",
                   AfterFinalizer(m, "failed"))
  \/ WriteAudit(m, "fail-audit!", "failed", AfterFinalizer(m, "failed"))

Analyze(m) ==
  \/ FinalizerRead(m, "analyze?", "analyzing", "analyze!", "generate?")
  \/ WriteAudit(m, "analyze!", "analyzing", "generate?")

\* Variant: the audit is completed before the report is written.
GenerateReportLater(m) ==
  \/ FinalizerRead(m, "generate?", "generating_report", "generate!",
                   "finish?")
  \/ WriteAudit(m, "generate!", "generating_report", "finish?")

GenerateReport(m) ==
  \/ FinalizerRead(m, "generate?", "generating_report", "generate!",
                   "report!")
  \/ WriteAudit(m, "generate!", "generating_report", "report!")

UpsertReport(m) ==
  /\ pc[m] = "report!"
  /\ report' = TRUE
  /\ Goto(m, "finish?")
  /\ UNCHANGED <<audit, cancelRequested, usage, missionRows, queue, clients,
                 faults>>

CompleteAudit(m) ==
  \/ FinalizerRead(m, "finish?", "completed", "finish!",
                   AfterFinalizer(m, "completed"))
  \/ WriteAudit(m, "finish!", "completed", AfterFinalizer(m, "completed"))

\* recordUsageEvent, an upsert under audit-terminal:{auditId}:{status}.
RecordUsage(m) ==
  /\ \E status \in TerminalAudit :
       /\ pc[m] = UsageLabel[status]
       /\ usage' = usage \cup {status}
  /\ Goto(m, "job-done")
  /\ UNCHANGED <<audit, cancelRequested, report, missionRows, queue, clients,
                 faults>>

(***************************************************************************)
(* The two catch branches.                                                 *)
(***************************************************************************)
\* Variant: the finalizer is not called after the last failed attempt.
MarkMissionFailedOnly(m) ==
  LET next == IF route[m] = "retry" THEN "requeue?" ELSE "job-failed"
  IN  \/ /\ pc[m] = "fail?"
         /\ Goto(m, Landing(mission[m], missionTransitions, "failed",
                            "fail!", next, next))
         /\ Local
      \/ WriteMission(m, "fail!", m, "failed", next)

MarkMissionFailed(m) ==
  LET next == IF route[m] = "retry" THEN "requeue?" ELSE "finalize"
  IN  \/ /\ pc[m] = "fail?"
         /\ Goto(m, Landing(mission[m], missionTransitions, "failed",
                            "fail!", next, next))
         /\ Local
      \/ WriteMission(m, "fail!", m, "failed", next)

\* Variant: the error of the transition is not swallowed.
MarkMissionQueuedThrowing(m) ==
  \/ /\ pc[m] = "requeue?"
     /\ Goto(m, Landing(mission[m], missionTransitions, "queued",
                        "requeue!", "job-failed", "throw"))
     /\ Local
  \/ WriteMission(m, "requeue!", m, "queued", "job-failed")

MarkMissionQueued(m) ==
  \/ /\ pc[m] = "requeue?"
     /\ Goto(m, Landing(mission[m], missionTransitions, "queued",
                        "requeue!", "job-failed", "job-failed"))
     /\ Local
  \/ WriteMission(m, "requeue!", m, "queued", "job-failed")

MarkMissionCancelled(m) ==
  \/ /\ pc[m] = "cancel?"
     /\ Goto(m, Landing(mission[m], missionTransitions, "cancelled",
                        "cancel!", "close-cancelled", "close-cancelled"))
     /\ Local
  \/ WriteMission(m, "cancel!", m, "cancelled", "close-cancelled")

\* Variant: an audit that is not cancelled yet is left as it is.
CloseCancelledReadOnly(m) ==
  /\ pc[m] = "close-cancelled"
  /\ Goto(m, IF audit = "cancelled" THEN "usage-cancelled" ELSE "job-done")
  /\ Local

\* finalizeCancelledAudit: its read, its updateMany, its transition.
CloseCancelled(m) ==
  /\ pc[m] = "close-cancelled"
  /\ Goto(m, CASE audit = "cancelled"             -> "usage-cancelled"
               [] audit \in {"completed", "failed"} -> "job-done"
               [] OTHER                           -> "cancel-missions!")
  /\ Local

\* Variant: the update has no status filter.
CancelAllMissions(m) ==
  /\ pc[m] = "cancel-missions!"
  /\ mission' = [n \in Missions |->
       IF mission[n] # Absent THEN "cancelled" ELSE Absent]
  /\ Goto(m, "cancel-audit?")
  /\ UNCHANGED <<auditRow, attemptCount, queue, clients, faults>>

CancelOpenMissions(m) ==
  /\ pc[m] = "cancel-missions!"
  /\ mission' = [n \in Missions |->
       IF mission[n] \in {"created", "queued", "running"} THEN "cancelled"
                                                          ELSE mission[n]]
  /\ Goto(m, "cancel-audit?")
  /\ UNCHANGED <<auditRow, attemptCount, queue, clients, faults>>

CancelAudit(m) ==
  \/ /\ pc[m] = "cancel-audit?"
     /\ Goto(m, Landing(audit, auditTransitions, "cancelled",
                        "cancel-audit!", "usage-cancelled", "job-done"))
     /\ Local
  \/ WriteAudit(m, "cancel-audit!", "cancelled", "usage-cancelled")

MissionWorker(m) ==
  \/ CheckCancelled(m) \/ Guard(m) \/ MarkAuditRunning(m)
  \/ MarkMissionRunning(m) \/ Execute(m) \/ Persist(m)
  \/ MarkMissionCompleted(m) \/ Finalize(m) \/ FailAudit(m) \/ Analyze(m)
  \/ GenerateReport(m) \/ UpsertReport(m) \/ CompleteAudit(m)
  \/ RecordUsage(m) \/ MarkMissionFailed(m) \/ MarkMissionQueued(m)
  \/ MarkMissionCancelled(m) \/ CloseCancelled(m) \/ CancelOpenMissions(m)
  \/ CancelAudit(m)

-----------------------------------------------------------------------------
\* The web process dies inside the handler.
ApiCrash ==
  /\ Fault("crash")
  /\ api # "done"
  /\ api' = "done"
  /\ UNCHANGED <<auditRow, missionRows, queue, processors, cancelPc>>

JobStep(j) == StartJob(j) \/ JobDone(j) \/ JobFailed(j)

Next ==
  \/ Api \/ Planner \/ Crash \/ ApiCrash
  \/ \E c \in Cancellers : CancelRead(c) \/ CancelTx(c)
  \/ \E j \in Jobs : JobStep(j)
  \/ \E m \in Missions : MissionWorker(m)

Spec == Init /\ [][Next]_vars

(***************************************************************************)
(* Node runs the continuation of every awaited call and BullMQ hands out   *)
(* every waiting job, so each process keeps taking steps. Nobody has to    *)
(* cancel, to crash or to refuse a job, and no outcome of the browser work *)
(* is promised.                                                            *)
(***************************************************************************)
Fairness ==
  /\ WF_vars(Api)
  /\ WF_vars(Planner \/ JobStep(PlanJob))
  /\ \A m \in Missions : WF_vars(MissionWorker(m) \/ JobStep(m))

FairSpec == Spec /\ Fairness

-----------------------------------------------------------------------------
(***************************************************************************)
(* Properties.                                                             *)
(***************************************************************************)

AuditRowTypes ==
  /\ audit \in AuditStatus
  /\ cancelRequested \in BOOLEAN
  /\ report \in BOOLEAN
  /\ usage \subseteq TerminalAudit \cup {"created", "enqueue-failed"}

MissionRowTypes ==
  /\ mission \in [Missions -> MissionStatus \cup {Absent}]
  /\ attemptCount \in [Missions -> Nat]

QueueTypes ==
  /\ job \in [Jobs -> {"none", "waiting", "active", "completed", "failed"}]
  /\ attemptsMade \in [Jobs -> Nat]
  /\ stalls \in [Jobs -> Nat]

ProcessorTypes ==
  /\ pc \in [Jobs -> Labels]
  /\ route \in [Jobs -> {"main", "cancel", "retry", "last"}]
  /\ todo \subseteq Missions
  /\ inHand \in Missions \cup {NoMission}

ClientTypes ==
  /\ api \in ApiLabels
  /\ cancelPc \in [Cancellers -> {"idle", "tx-none", "tx-running", "done"}]

FaultTypes == faults \in [FaultKinds -> Nat]

\* Every row, job and processor holds a value the code gives a meaning to;
\* in particular no swallowed throw leaves a processor at no label.
TypeInvariant ==
  /\ AuditRowTypes
  /\ MissionRowTypes
  /\ QueueTypes
  /\ ProcessorTypes
  /\ ClientTypes
  /\ FaultTypes

\* An audit that reads completed, and a completion that was billed, has its
\* report: no interleaving of finalizers, cancellations and crashes lets
\* the status get ahead of report.upsert.
CompletedHasReport ==
  audit = "completed" \/ "completed" \in usage => report

\* Nothing is cancelled unless a member asked: every cancelled audit,
\* cancelled mission and AUDIT_CANCELLED event goes back to a request.
CancelledOnlyOnRequest ==
  (\/ audit = "cancelled"
   \/ "cancelled" \in usage
   \/ \E m \in Missions : mission[m] = "cancelled")
  => cancelRequested

\* Mission.attemptCount never passes the attempts of the mission's
\* definition by more than the times its worker died under the job.
AttemptsBounded ==
  \A m \in Missions : attemptCount[m] <= MaxAttempts[m] + stalls[m]

\* A completed audit passed all its required missions and has none that is
\* still to run or running, although the finalizer decided both on one read
\* several statements before it wrote completed.
CompletedAuditIsSound ==
  audit = "completed" =>
    /\ \A m \in Required : mission[m] = "completed"
    /\ \A m \in Missions : mission[m] \in TerminalMission

\* When no handler and no job is left to act, the audit is terminal
\* (README.md: watch the audit until it reaches a terminal status).
Quiet ==
  /\ api = "done"
  /\ \A j \in Jobs : job[j] \notin {"waiting", "active"}
  /\ \A c \in Cancellers : cancelPc[c] \in {"idle", "done"}

NoStrandedAudit == Quiet => audit \in TerminalAudit

\* Once the planning job returned, no order of cancel requests, retries and
\* finalizers leaves the audit open: some mission job is always left that
\* closes it.
NoStrandedPlannedAudit ==
  Quiet /\ job[PlanJob] = "completed" => audit \in TerminalAudit

\* Neither a retry nor a stale write takes a mission out of completed.
CompletedMissionIsFinal ==
  [][\A m \in Missions :
       mission[m] = "completed" => mission'[m] = "completed"]_vars

Promise ==
  INSTANCE AuditPromise WITH Missions <- Missions, Required <- Required,
                             audit <- audit, mission <- mission

\* The processes implement the status tables and their side conditions.
KeepsPromise == Promise!Spec

\* The audit reaches a terminal status and stays there.
AuditSettles == <>[](audit \in TerminalAudit)

(***************************************************************************)
(* Said of the program, and not so.                                        *)
(***************************************************************************)

\* Terminal states cannot transition (docs/architecture/audit-workflow.md).
TerminalAuditIsFinal ==
  [][(audit \in TerminalAudit => audit' = audit)]_vars

=============================================================================
