----------------------- MODULE AuditLifecycleProofs -----------------------
(***************************************************************************)
(* Theorems about AuditLifecycle for every plan of missions, every number  *)
(* of attempts, every set of cancelling members and every bound on faults: *)
(* first what holds whatever goes wrong; then how an audit ends, where     *)
(* each theorem names the faults and the concurrency it has to rule out:   *)
(* completed missions stay completed, a completed audit is sound, the      *)
(* processes implement AuditPromise, and no planned audit is stranded.     *)
(***************************************************************************)
EXTENDS AuditLifecycle, FiniteSetTheorems, TLAPS

-----------------------------------------------------------------------------
(***************************************************************************)
(* The pieces that actions share.                                          *)
(***************************************************************************)

\* A transition's read lands on one of the three labels it was given.
LEMMA LandingChoice ==
  ASSUME NEW status, NEW legal, NEW target,
         NEW write, NEW done, NEW throw
  PROVE  Landing(status, legal, target, write, done, throw)
           \in {write, done, throw}
BY DEF Landing

\* Going on at a label keeps the processors well typed.
LEMMA GotoTypes ==
  ASSUME ProcessorTypes, NEW j \in Jobs, NEW next \in Labels, Goto(j, next)
  PROVE  ProcessorTypes'
BY DEF ProcessorTypes, Goto

LEMMA CatchTypes ==
  ASSUME ProcessorTypes, NEW m \in Missions, NEW unsafe \in BOOLEAN,
         Catch(m, unsafe)
  PROVE  ProcessorTypes'
<1>1. m \in Jobs /\ "fail?" \in Labels
  BY DEF Jobs, Labels, MissionLabels
<1>2. pc' \in [Jobs -> Labels]
  BY <1>1 DEF ProcessorTypes, Catch
<1>3. route' \in [Jobs -> {"main", "cancel", "retry", "last"}]
  BY <1>1 DEF ProcessorTypes, Catch
<1> QED
  BY <1>2, <1>3 DEF ProcessorTypes, Catch

LEMMA CatchCancelledTypes ==
  ASSUME ProcessorTypes, NEW m \in Missions, CatchCancelled(m)
  PROVE  ProcessorTypes'
<1>1. m \in Jobs /\ "cancel?" \in Labels
  BY DEF Jobs, Labels, MissionLabels
<1>2. pc' \in [Jobs -> Labels]
  BY <1>1 DEF ProcessorTypes, CatchCancelled
<1>3. route' \in [Jobs -> {"main", "cancel", "retry", "last"}]
  BY <1>1 DEF ProcessorTypes, CatchCancelled
<1> QED
  BY <1>2, <1>3 DEF ProcessorTypes, CatchCancelled

LEMMA FollowTypes ==
  ASSUME ProcessorTypes, NEW m \in Missions,
         NEW next \in Labels \cup {"throw"}, Follow(m, next)
  PROVE  ProcessorTypes'
<1>1. CASE next = "throw"
  BY <1>1, CatchTypes DEF Follow
<1>2. CASE next # "throw"
  <2>1. m \in Jobs /\ next \in Labels /\ Goto(m, next)
    BY <1>2 DEF Jobs, Follow
  <2> QED
    BY <2>1, GotoTypes
<1> QED
  BY <1>1, <1>2

\* A step that only moves a processor keeps every type.
LEMMA LocalTypes ==
  ASSUME TypeInvariant, ProcessorTypes', NoWrite, FaultTypes'
  PROVE  TypeInvariant'
BY DEF TypeInvariant, NoWrite, AuditRowTypes, MissionRowTypes, QueueTypes,
       ClientTypes, auditRow, missionRows, queue, clients

LEMMA FaultCounted ==
  ASSUME FaultTypes, NEW kind \in FaultKinds, Fault(kind)
  PROVE  FaultTypes'
BY DEF FaultTypes, Fault

LEMMA WriteAuditTypes ==
  ASSUME TypeInvariant, NEW j \in Jobs, NEW at, NEW status \in AuditStatus,
         NEW next \in Labels, WriteAudit(j, at, status, next)
  PROVE  TypeInvariant'
<1>1. ProcessorTypes'
  BY GotoTypes DEF TypeInvariant, WriteAudit
<1> QED
  BY <1>1 DEF TypeInvariant, WriteAudit, AuditRowTypes, MissionRowTypes,
     QueueTypes, ClientTypes, FaultTypes, missionRows, queue, clients

LEMMA WriteMissionTypes ==
  ASSUME TypeInvariant, NEW j \in Jobs, NEW at, NEW m \in Missions,
         NEW status \in MissionStatus, NEW next \in Labels,
         WriteMission(j, at, m, status, next)
  PROVE  TypeInvariant'
<1>1. ProcessorTypes'
  BY GotoTypes DEF TypeInvariant, WriteMission
<1>2. mission' \in [Missions -> MissionStatus \cup {Absent}]
  BY DEF TypeInvariant, MissionRowTypes, WriteMission
<1> QED
  BY <1>1, <1>2 DEF TypeInvariant, WriteMission, AuditRowTypes,
     MissionRowTypes, QueueTypes, ClientTypes, FaultTypes, auditRow, queue,
     clients

-----------------------------------------------------------------------------
(***************************************************************************)
(* Type correctness, one lemma per process.                                *)
(***************************************************************************)

LEMMA InitTypes == Init => TypeInvariant
<1> SUFFICES ASSUME Init PROVE TypeInvariant
  OBVIOUS
<1>1. AuditRowTypes
  BY DEF Init, AuditRowTypes, AuditStatus
<1>2. MissionRowTypes
  BY DEF Init, MissionRowTypes
<1>3. QueueTypes
  BY DEF Init, QueueTypes
<1>4. ProcessorTypes
  BY DEF Init, ProcessorTypes, Labels
<1>5. ClientTypes
  BY DEF Init, ClientTypes, ApiLabels
<1>6. FaultTypes
  BY DEF Init, FaultTypes
<1> QED
  BY <1>1, <1>2, <1>3, <1>4, <1>5, <1>6 DEF TypeInvariant

LEMMA ApiTypes == TypeInvariant /\ Api => TypeInvariant'
<1> SUFFICES ASSUME TypeInvariant, Api PROVE TypeInvariant'
  OBVIOUS
<1>0. MissionRowTypes' /\ ProcessorTypes' /\ cancelPc' = cancelPc
  BY DEF Api, ApiRead, ApiWrite, ApiEnqueue, ApiUsage, ApiOnly, TypeInvariant,
     MissionRowTypes, ProcessorTypes, missionRows, processors
<1>1. CASE ApiRead
  <2>1. api' \in ApiLabels
    BY <1>1, LandingChoice DEF ApiRead, ApiLabels
  <2> QED
    BY <1>0, <1>1, <2>1 DEF ApiRead, TypeInvariant, AuditRowTypes, QueueTypes,
       ClientTypes, FaultTypes, auditRow, queue
<1>2. CASE ApiWrite
  BY <1>0, <1>2 DEF ApiWrite, TypeInvariant, AuditRowTypes, QueueTypes,
     ClientTypes, FaultTypes, queue, ApiLabels, AuditStatus
<1>3. CASE ApiEnqueue
  <2>1. FaultTypes'
    BY <1>3, FaultCounted DEF ApiEnqueue, TypeInvariant, FaultTypes,
       FaultKinds
  <2>2. QueueTypes'
    BY <1>3 DEF ApiEnqueue, TypeInvariant, QueueTypes
  <2> QED
    BY <1>0, <1>3, <2>1, <2>2 DEF ApiEnqueue, TypeInvariant, AuditRowTypes,
       ClientTypes, auditRow, ApiLabels
<1>4. CASE ApiUsage
  BY <1>0, <1>4 DEF ApiUsage, TypeInvariant, AuditRowTypes, QueueTypes,
     ClientTypes, FaultTypes, queue, ApiLabels
<1> QED
  BY <1>1, <1>2, <1>3, <1>4 DEF Api

LEMMA CancelTypes ==
  ASSUME TypeInvariant, NEW c \in Cancellers, CancelRead(c) \/ CancelTx(c)
  PROVE  TypeInvariant'
<1>1. CASE CancelRead(c)
  BY <1>1 DEF CancelRead, TypeInvariant, AuditRowTypes, MissionRowTypes,
     QueueTypes, ProcessorTypes, ClientTypes, FaultTypes, auditRow,
     missionRows, queue, processors
<1>2. CASE CancelTx(c)
  <2>1. mission' \in [Missions -> MissionStatus \cup {Absent}]
    BY <1>2 DEF CancelTx, TypeInvariant, MissionRowTypes, MissionStatus
  <2>2. AuditRowTypes'
    BY <1>2 DEF CancelTx, TypeInvariant, AuditRowTypes, AuditStatus
  <2> QED
    BY <1>2, <2>1, <2>2 DEF CancelTx, TypeInvariant, MissionRowTypes,
       QueueTypes, ProcessorTypes, ClientTypes, FaultTypes, queue, processors
<1> QED
  BY <1>1, <1>2

LEMMA QueueStepTypes ==
  ASSUME TypeInvariant, NEW j \in Jobs, JobStep(j)
  PROVE  TypeInvariant'
<1>0. AuditRowTypes' /\ MissionRowTypes' /\ ClientTypes' /\ FaultTypes'
  BY DEF JobStep, StartJob, JobDone, JobFailed, TypeInvariant, AuditRowTypes,
     MissionRowTypes, ClientTypes, FaultTypes, auditRow, missionRows, clients
<1>1. QueueTypes'
  BY DEF JobStep, StartJob, JobDone, JobFailed, TypeInvariant, QueueTypes
<1>2. ProcessorTypes'
  <2>1. CASE StartJob(j)
    BY <2>1 DEF StartJob, TypeInvariant, ProcessorTypes, Labels,
       PlannerLabels, MissionLabels
  <2>2. CASE JobDone(j)
    BY <2>2, GotoTypes DEF JobDone, TypeInvariant, Labels
  <2>3. CASE JobFailed(j)
    BY <2>3, GotoTypes DEF JobFailed, TypeInvariant, Labels
  <2> QED
    BY <2>1, <2>2, <2>3 DEF JobStep
<1> QED
  BY <1>0, <1>1, <1>2 DEF TypeInvariant

LEMMA CrashTypes ==
  ASSUME TypeInvariant, Crash \/ ApiCrash
  PROVE  TypeInvariant'
<1>1. FaultTypes'
  BY FaultCounted DEF Crash, ApiCrash, TypeInvariant, FaultKinds
<1>2. CASE Crash
  <2>1. QueueTypes'
    BY <1>2 DEF Crash, TypeInvariant, QueueTypes
  <2>2. ProcessorTypes'
    BY <1>2 DEF Crash, TypeInvariant, ProcessorTypes, Labels
  <2> QED
    BY <1>1, <1>2, <2>1, <2>2 DEF Crash, TypeInvariant, AuditRowTypes,
       MissionRowTypes, ClientTypes, auditRow, missionRows, clients
<1>3. CASE ApiCrash
  BY <1>1, <1>3 DEF ApiCrash, TypeInvariant, AuditRowTypes, MissionRowTypes,
     QueueTypes, ProcessorTypes, ClientTypes, ApiLabels, auditRow,
     missionRows, queue, processors
<1> QED
  BY <1>2, <1>3

LEMMA PlannerTypes == TypeInvariant /\ Planner => TypeInvariant'
<1> SUFFICES ASSUME TypeInvariant, Planner PROVE TypeInvariant'
  OBVIOUS
<1>0. /\ PlanJob \in Jobs
      /\ PlannerLabels \subseteq Labels
      /\ {"job-done", "job-failed"} \subseteq Labels
      /\ {"failed", "queued"} \subseteq AuditStatus
      /\ {"created", "queued"} \subseteq MissionStatus
      /\ FaultKinds = {"crash", "queue", "refusal"}
      /\ ProcessorTypes /\ FaultTypes
  BY DEF Jobs, Labels, AuditStatus, MissionStatus, FaultKinds, TypeInvariant
<1>1. CASE PlanGuard
  <2>1. ProcessorTypes'
    BY <1>0, <1>1, GotoTypes DEF PlanGuard, PlannerLabels
  <2>2. FaultTypes'
    BY <1>0, <1>1, FaultCounted DEF PlanGuard, FaultTypes
  <2> QED
    BY <1>1, <2>1, <2>2, LocalTypes DEF PlanGuard
<1>2. CASE PlanCheck
  <2>1. ProcessorTypes'
    BY <1>0, <1>2, GotoTypes DEF PlanCheck, PlannerLabels
  <2> QED
    BY <1>0, <1>2, <2>1, LocalTypes DEF PlanCheck, Local, FaultTypes
<1>3. CASE PlanSnapshot
  <2>1. ProcessorTypes'
    <3>1. CASE Goto(PlanJob, "plan-unsafe?")
      BY <1>0, <3>1, GotoTypes DEF PlannerLabels
    <3>2. CASE /\ pc' = [pc EXCEPT ![PlanJob] = "plan-rows"]
               /\ todo' = Missions
               /\ UNCHANGED <<route, inHand>>
      BY <1>0, <3>2 DEF ProcessorTypes, PlannerLabels
    <3> QED
      BY <1>3, <3>1, <3>2 DEF PlanSnapshot
  <2>2. FaultTypes'
    BY <1>0, <1>3, FaultCounted DEF PlanSnapshot, FaultTypes
  <2> QED
    BY <1>3, <2>1, <2>2, LocalTypes DEF PlanSnapshot
<1>4. CASE PlanUnsafe
  <2>1. CASE WriteAudit(PlanJob, "plan-unsafe!", "failed", "job-failed")
    BY <1>0, <2>1, WriteAuditTypes
  <2>2. CASE ~WriteAudit(PlanJob, "plan-unsafe!", "failed", "job-failed")
    <3>1. PICK next \in {"plan-unsafe!", "job-failed"} : Goto(PlanJob, next)
      BY <1>4, <2>2, LandingChoice DEF PlanUnsafe
    <3>2. ProcessorTypes'
      BY <1>0, <3>1, GotoTypes DEF PlannerLabels
    <3> QED
      BY <1>0, <1>4, <2>2, <3>2, LocalTypes DEF PlanUnsafe, Local, FaultTypes
  <2> QED
    BY <2>1, <2>2
<1>5. CASE PlanRowsDone
  <2>1. ProcessorTypes'
    BY <1>0, <1>5, GotoTypes DEF PlanRowsDone, PlannerLabels
  <2> QED
    BY <1>0, <1>5, <2>1, LocalTypes DEF PlanRowsDone, Local, FaultTypes
<1>6. CASE PlanQueued
  <2>1. CASE WriteAudit(PlanJob, "plan-queued!", "queued", "plan-mission?")
    BY <1>0, <2>1, WriteAuditTypes DEF PlannerLabels
  <2>2. CASE ~WriteAudit(PlanJob, "plan-queued!", "queued", "plan-mission?")
    <3>1. PICK next \in {"plan-queued!", "plan-mission?", "job-failed"} :
            pc' = [pc EXCEPT ![PlanJob] = next]
      BY <1>6, <2>2, LandingChoice DEF PlanQueued
    <3>2. ProcessorTypes'
      BY <1>0, <1>6, <2>2, <3>1 DEF PlanQueued, ProcessorTypes, PlannerLabels
    <3> QED
      BY <1>0, <1>6, <2>2, <3>2, LocalTypes DEF PlanQueued, Local, FaultTypes
  <2> QED
    BY <2>1, <2>2
<1>7. CASE PlanLoopDone
  <2>1. ProcessorTypes'
    BY <1>0, <1>7, GotoTypes DEF PlanLoopDone, PlannerLabels
  <2> QED
    BY <1>0, <1>7, <2>1, LocalTypes DEF PlanLoopDone, Local, FaultTypes
<1>8. ASSUME NEW m \in Missions, PlanRow(m) PROVE TypeInvariant'
  <2>1. mission' \in [Missions -> MissionStatus \cup {Absent}]
    BY <1>0, <1>8 DEF PlanRow, TypeInvariant, MissionRowTypes
  <2>2. ProcessorTypes'
    BY <1>0, <1>8 DEF PlanRow, ProcessorTypes
  <2> QED
    BY <1>8, <2>1, <2>2 DEF PlanRow, TypeInvariant, AuditRowTypes,
       MissionRowTypes, QueueTypes, ClientTypes, FaultTypes, auditRow, queue,
       clients
<1>9. ASSUME NEW m \in Missions, PlanMissionRead(m) PROVE TypeInvariant'
  <2>1. PICK next \in {"plan-mission!", "plan-enqueue", "job-failed"} :
          pc' = [pc EXCEPT ![PlanJob] = next]
    <3>1. Landing(mission[m], missionTransitions, "queued", "plan-mission!",
                  "plan-enqueue", "job-failed")
            \in {"plan-mission!", "plan-enqueue", "job-failed"}
      BY LandingChoice
    <3> QED
      BY <1>9, <3>1 DEF PlanMissionRead
  <2>2. ProcessorTypes'
    BY <1>0, <1>9, <2>1 DEF PlanMissionRead, ProcessorTypes, PlannerLabels
  <2> QED
    BY <1>0, <1>9, <2>2, LocalTypes DEF PlanMissionRead, Local, FaultTypes
<1>10. ASSUME NEW m \in Missions, PlanMissionWrite(m) PROVE TypeInvariant'
  BY <1>0, <1>10, WriteMissionTypes DEF PlanMissionWrite, PlannerLabels
<1>11. ASSUME NEW m \in Missions, PlanEnqueue(m) PROVE TypeInvariant'
  <2>1. m \in Jobs
    BY DEF Jobs
  <2>2. QueueTypes'
    BY <1>11, <2>1 DEF PlanEnqueue, TypeInvariant, QueueTypes
  <2>3. ProcessorTypes'
    <3>1. CASE Goto(PlanJob, "job-failed")
      BY <1>0, <3>1, GotoTypes
    <3>2. CASE ~Goto(PlanJob, "job-failed")
      BY <1>0, <1>11, <3>2 DEF PlanEnqueue, ProcessorTypes, PlannerLabels
    <3> QED
      BY <3>1, <3>2
  <2>4. FaultTypes'
    BY <1>0, <1>11, FaultCounted DEF PlanEnqueue, FaultTypes
  <2> QED
    BY <1>11, <2>2, <2>3, <2>4 DEF PlanEnqueue, TypeInvariant, AuditRowTypes,
       MissionRowTypes, ClientTypes, auditRow, missionRows, clients
<1>12. CASE \E m \in Missions : \/ PlanRow(m)
                                \/ PlanMissionRead(m)
                                \/ PlanMissionWrite(m)
                                \/ PlanEnqueue(m)
  <2>1. PICK m \in Missions : \/ PlanRow(m)
                             \/ PlanMissionRead(m)
                             \/ PlanMissionWrite(m)
                             \/ PlanEnqueue(m)
    BY <1>12
  <2> QED
    BY <2>1, <1>8, <1>9, <1>10, <1>11
<1> QED
  BY <1>1, <1>2, <1>3, <1>4, <1>5, <1>6, <1>7, <1>12 DEF Planner

\* The steps of a mission processor that write nothing but a fault counter.
LEMMA MissionLocalTypes ==
  ASSUME TypeInvariant, NEW m \in Missions,
         CheckCancelled(m) \/ Guard(m) \/ Execute(m) \/ Persist(m)
  PROVE  TypeInvariant'
<1>0. /\ m \in Jobs
      /\ MissionLabels \subseteq Labels
      /\ "refusal" \in FaultKinds
      /\ ProcessorTypes /\ FaultTypes
  BY DEF Jobs, Labels, FaultKinds, TypeInvariant
<1>1. NoWrite
  BY DEF CheckCancelled, Guard, Execute, Persist, Local
<1>2. FaultTypes'
  BY <1>0, FaultCounted
     DEF CheckCancelled, Guard, Execute, Persist, Local, FaultTypes
<1>3. \/ \E next \in MissionLabels : Goto(m, next)
      \/ \E unsafe \in BOOLEAN : Catch(m, unsafe)
      \/ CatchCancelled(m)
  BY DEF CheckCancelled, Guard, Execute, Persist, MissionLabels
<1>4. ProcessorTypes'
  BY <1>0, <1>3, GotoTypes, CatchTypes, CatchCancelledTypes
<1> QED
  BY <1>1, <1>2, <1>4, LocalTypes

\* A read of the main path or of the finalizer.
LEMMA FollowStepTypes ==
  ASSUME TypeInvariant, NEW m \in Missions,
         NEW next \in Labels \cup {"throw"}, Follow(m, next), Local
  PROVE  TypeInvariant'
<1>1. ProcessorTypes'
  BY FollowTypes DEF TypeInvariant
<1> QED
  BY <1>1, LocalTypes DEF Local, TypeInvariant, FaultTypes

\* A read whose error is swallowed where it is called.
LEMMA GotoStepTypes ==
  ASSUME TypeInvariant, NEW j \in Jobs, NEW next \in Labels,
         Goto(j, next), Local
  PROVE  TypeInvariant'
<1>1. ProcessorTypes'
  BY GotoTypes DEF TypeInvariant
<1> QED
  BY <1>1, LocalTypes DEF Local, TypeInvariant, FaultTypes

\* Every way out of the finalizer is a label.
LEMMA AfterFinalizerLabel ==
  ASSUME NEW m \in Missions, NEW status
  PROVE  AfterFinalizer(m, status)
           \in {"job-failed", "job-done", "usage-completed", "usage-failed",
               "usage-cancelled"}
BY DEF AfterFinalizer, UsageLabel, TerminalAudit

LEMMA FinalizerTypes ==
  ASSUME TypeInvariant, NEW m \in Missions,
         \/ Finalize(m) \/ FailAudit(m) \/ Analyze(m)
         \/ GenerateReport(m) \/ CompleteAudit(m)
  PROVE  TypeInvariant'
<1>0. /\ m \in Jobs
      /\ MissionLabels \subseteq Labels
      /\ {"job-done", "job-failed"} \subseteq Labels
      /\ {"failed", "analyzing", "generating_report", "completed"}
           \subseteq AuditStatus
  BY DEF Jobs, Labels, AuditStatus
<1>1. \A status : AfterFinalizer(m, status) \in Labels
  BY <1>0, AfterFinalizerLabel DEF MissionLabels
<1>2. ASSUME NEW at, NEW status, NEW write \in Labels, NEW done \in Labels,
             FinalizerRead(m, at, status, write, done)
      PROVE  TypeInvariant'
  <2>1. FinalizerThrow(m) \in Labels \cup {"throw"}
    BY <1>0 DEF FinalizerThrow
  <2>2. Landing(audit, auditTransitions, status, write, done,
                FinalizerThrow(m)) \in Labels \cup {"throw"}
    BY <2>1, LandingChoice
  <2> QED
    BY <1>2, <2>2, FollowStepTypes DEF FinalizerRead
<1>3. CASE Finalize(m)
  <2>1. PICK next \in Labels : Goto(m, next)
    BY <1>0, <1>1, <1>3 DEF Finalize, MissionLabels
  <2> QED
    BY <1>0, <1>3, <2>1, GotoStepTypes DEF Finalize
<1>4. CASE FailAudit(m)
  BY <1>0, <1>1, <1>2, <1>4, WriteAuditTypes DEF FailAudit, MissionLabels
<1>5. CASE Analyze(m)
  BY <1>0, <1>1, <1>2, <1>5, WriteAuditTypes DEF Analyze, MissionLabels
<1>6. CASE GenerateReport(m)
  BY <1>0, <1>1, <1>2, <1>6, WriteAuditTypes DEF GenerateReport, MissionLabels
<1>7. CASE CompleteAudit(m)
  BY <1>0, <1>1, <1>2, <1>7, WriteAuditTypes DEF CompleteAudit, MissionLabels
<1> QED
  BY <1>3, <1>4, <1>5, <1>6, <1>7

LEMMA MarkTypes ==
  ASSUME TypeInvariant, NEW m \in Missions,
         \/ MarkAuditRunning(m) \/ MarkMissionRunning(m)
         \/ MarkMissionCompleted(m)
  PROVE  TypeInvariant'
<1>0. /\ m \in Jobs
      /\ MissionLabels \subseteq Labels
      /\ "running" \in AuditStatus
      /\ {"running", "completed"} \subseteq MissionStatus
  BY DEF Jobs, Labels, AuditStatus, MissionStatus
<1>1. CASE MarkAuditRunning(m)
  <2>1. CASE WriteAudit(m, "running!", "running", "start?")
    BY <1>0, <2>1, WriteAuditTypes DEF MissionLabels
  <2>2. CASE ~WriteAudit(m, "running!", "running", "start?")
    <3>1. PICK next \in {"running!", "start?", "throw"} : Follow(m, next)
      BY <1>1, <2>2, LandingChoice DEF MarkAuditRunning
    <3>2. next \in Labels \cup {"throw"}
      BY <1>0, <3>1 DEF MissionLabels
    <3> QED
      BY <1>1, <2>2, <3>1, <3>2, FollowStepTypes DEF MarkAuditRunning
  <2> QED
    BY <2>1, <2>2
<1>2. CASE MarkMissionRunning(m)
  <2>1. CASE pc[m] = "start!"
    <3>1. ProcessorTypes'
      BY <1>0, <1>2, <2>1, GotoTypes
         DEF MarkMissionRunning, MissionLabels, TypeInvariant
    <3>2. MissionRowTypes'
      BY <1>0, <1>2, <2>1
         DEF MarkMissionRunning, TypeInvariant, MissionRowTypes
    <3> QED
      BY <1>2, <2>1, <3>1, <3>2 DEF MarkMissionRunning, TypeInvariant,
         AuditRowTypes, QueueTypes, ClientTypes, FaultTypes, auditRow, queue,
         clients
  <2>2. CASE pc[m] # "start!"
    <3>1. PICK next \in {"start!", "check-started", "throw"} :
            Follow(m, next)
      BY <1>2, <2>2, LandingChoice DEF MarkMissionRunning
    <3>2. next \in Labels \cup {"throw"}
      BY <1>0, <3>1 DEF MissionLabels
    <3> QED
      BY <1>2, <2>2, <3>1, <3>2, FollowStepTypes DEF MarkMissionRunning
  <2> QED
    BY <2>1, <2>2
<1>3. CASE MarkMissionCompleted(m)
  <2>1. CASE WriteMission(m, "complete!", m, "completed", "finalize")
    BY <1>0, <2>1, WriteMissionTypes DEF MissionLabels
  <2>2. CASE ~WriteMission(m, "complete!", m, "completed", "finalize")
    <3>1. PICK next \in {"complete!", "finalize", "throw"} : Follow(m, next)
      BY <1>3, <2>2, LandingChoice DEF MarkMissionCompleted
    <3>2. next \in Labels \cup {"throw"}
      BY <1>0, <3>1 DEF MissionLabels
    <3> QED
      BY <1>3, <2>2, <3>1, <3>2, FollowStepTypes DEF MarkMissionCompleted
  <2> QED
    BY <2>1, <2>2
<1> QED
  BY <1>1, <1>2, <1>3

LEMMA CatchBranchTypes ==
  ASSUME TypeInvariant, NEW m \in Missions,
         \/ MarkMissionFailed(m) \/ MarkMissionQueued(m)
         \/ MarkMissionCancelled(m) \/ CloseCancelled(m) \/ CancelAudit(m)
  PROVE  TypeInvariant'
<1>0. /\ m \in Jobs
      /\ MissionLabels \subseteq Labels
      /\ {"job-done", "job-failed"} \subseteq Labels
      /\ "cancelled" \in AuditStatus
      /\ {"failed", "queued", "cancelled"} \subseteq MissionStatus
  BY DEF Jobs, Labels, AuditStatus, MissionStatus
<1>1. CASE MarkMissionFailed(m)
  <2> DEFINE next == IF route[m] = "retry" THEN "requeue?" ELSE "finalize"
  <2>1. next \in Labels
    BY <1>0 DEF MissionLabels
  <2> HIDE DEF next
  <2>2. CASE WriteMission(m, "fail!", m, "failed", next)
    BY <1>0, <2>1, <2>2, WriteMissionTypes
  <2>3. CASE ~WriteMission(m, "fail!", m, "failed", next)
    <3>1. PICK label \in {"fail!", next} : Goto(m, label)
      BY <1>1, <2>3, LandingChoice DEF MarkMissionFailed, next
    <3>2. label \in Labels
      BY <1>0, <2>1, <3>1 DEF MissionLabels
    <3> QED
      BY <1>0, <1>1, <2>3, <3>1, <3>2, GotoStepTypes
         DEF MarkMissionFailed, next
  <2> QED
    BY <2>2, <2>3
<1>2. CASE MarkMissionQueued(m)
  <2>1. CASE WriteMission(m, "requeue!", m, "queued", "job-failed")
    BY <1>0, <2>1, WriteMissionTypes
  <2>2. CASE ~WriteMission(m, "requeue!", m, "queued", "job-failed")
    <3>1. PICK next \in {"requeue!", "job-failed"} : Goto(m, next)
      BY <1>2, <2>2, LandingChoice DEF MarkMissionQueued
    <3>2. next \in Labels
      BY <1>0, <3>1 DEF MissionLabels
    <3> QED
      BY <1>0, <1>2, <2>2, <3>1, <3>2, GotoStepTypes DEF MarkMissionQueued
  <2> QED
    BY <2>1, <2>2
<1>3. CASE MarkMissionCancelled(m)
  <2>1. CASE WriteMission(m, "cancel!", m, "cancelled", "close-cancelled")
    BY <1>0, <2>1, WriteMissionTypes DEF MissionLabels
  <2>2. CASE ~WriteMission(m, "cancel!", m, "cancelled", "close-cancelled")
    <3>1. PICK next \in {"cancel!", "close-cancelled"} : Goto(m, next)
      BY <1>3, <2>2, LandingChoice DEF MarkMissionCancelled
    <3>2. next \in Labels
      BY <1>0, <3>1 DEF MissionLabels
    <3> QED
      BY <1>0, <1>3, <2>2, <3>1, <3>2, GotoStepTypes DEF MarkMissionCancelled
  <2> QED
    BY <2>1, <2>2
<1>4. CASE CloseCancelled(m)
  <2>1. PICK next \in {"usage-cancelled", "job-done", "cancel-missions!"} :
          Goto(m, next)
    BY <1>4 DEF CloseCancelled
  <2>2. next \in Labels
    BY <1>0, <2>1 DEF MissionLabels
  <2> QED
    BY <1>0, <1>4, <2>1, <2>2, GotoStepTypes DEF CloseCancelled
<1>5. CASE CancelAudit(m)
  <2>1. CASE WriteAudit(m, "cancel-audit!", "cancelled", "usage-cancelled")
    BY <1>0, <2>1, WriteAuditTypes DEF MissionLabels
  <2>2. CASE ~WriteAudit(m, "cancel-audit!", "cancelled", "usage-cancelled")
    <3>1. PICK next \in {"cancel-audit!", "usage-cancelled", "job-done"} :
            Goto(m, next)
      BY <1>5, <2>2, LandingChoice DEF CancelAudit
    <3>2. next \in Labels
      BY <1>0, <3>1 DEF MissionLabels
    <3> QED
      BY <1>0, <1>5, <2>2, <3>1, <3>2, GotoStepTypes DEF CancelAudit
  <2> QED
    BY <2>1, <2>2
<1> QED
  BY <1>1, <1>2, <1>3, <1>4, <1>5

LEMMA OtherWriteTypes ==
  ASSUME TypeInvariant, NEW m \in Missions,
         UpsertReport(m) \/ RecordUsage(m) \/ CancelOpenMissions(m)
  PROVE  TypeInvariant'
<1>0. PICK next \in {"finish?", "job-done", "cancel-audit?"} : Goto(m, next)
  BY DEF UpsertReport, RecordUsage, CancelOpenMissions
<1>1. ProcessorTypes'
  BY <1>0, GotoTypes DEF Jobs, Labels, MissionLabels, TypeInvariant
<1>2. AuditRowTypes'
  BY DEF UpsertReport, RecordUsage, CancelOpenMissions, TypeInvariant,
     AuditRowTypes, auditRow
<1>3. MissionRowTypes'
  <2>1. CASE CancelOpenMissions(m)
    BY <2>1 DEF CancelOpenMissions, TypeInvariant, MissionRowTypes,
       MissionStatus
  <2>2. CASE UpsertReport(m) \/ RecordUsage(m)
    BY <2>2 DEF UpsertReport, RecordUsage, TypeInvariant, MissionRowTypes,
       missionRows
  <2> QED
    BY <2>1, <2>2
<1> QED
  BY <1>1, <1>2, <1>3 DEF UpsertReport, RecordUsage, CancelOpenMissions,
     TypeInvariant, QueueTypes, ClientTypes, FaultTypes, queue, clients

LEMMA NextTypes == TypeInvariant /\ [Next]_vars => TypeInvariant'
<1> SUFFICES ASSUME TypeInvariant, [Next]_vars PROVE TypeInvariant'
  OBVIOUS
<1>1. CASE UNCHANGED vars
  BY <1>1 DEF vars, auditRow, missionRows, queue, processors, clients,
     TypeInvariant, AuditRowTypes, MissionRowTypes, QueueTypes,
     ProcessorTypes, ClientTypes, FaultTypes
<1>2. CASE Api \/ Planner \/ Crash \/ ApiCrash
  BY <1>2, ApiTypes, PlannerTypes, CrashTypes
<1>3. CASE \E c \in Cancellers : CancelRead(c) \/ CancelTx(c)
  BY <1>3, CancelTypes
<1>4. CASE \E j \in Jobs : JobStep(j)
  BY <1>4, QueueStepTypes
<1>5. CASE \E m \in Missions : MissionWorker(m)
  <2>1. PICK m \in Missions : MissionWorker(m)
    BY <1>5
  <2> QED
    BY <2>1, MissionLocalTypes, FinalizerTypes, MarkTypes, CatchBranchTypes,
       OtherWriteTypes DEF MissionWorker
<1> QED
  BY <1>1, <1>2, <1>3, <1>4, <1>5 DEF Next

\* Every reachable state is well typed: no row, job or process ever holds a
\* status or a label that the code gives no meaning to.
THEOREM TypeCorrect == Spec => []TypeInvariant
  BY InitTypes, NextTypes, PTL DEF Spec

-----------------------------------------------------------------------------
(***************************************************************************)
(* The report comes before the completion. The invariant is not inductive  *)
(* alone: it needs that a processor past report.upsert, or about to record *)
(* a completion, has its report already.                                   *)
(***************************************************************************)

PastReport == {"finish?", "finish!", "usage-completed"}

ReportFirst ==
  /\ CompletedHasReport
  /\ \A m \in Missions : pc[m] \in PastReport => report

\* What all but four actions do: no completion, no step past the report.
NoCompletion ==
  /\ UNCHANGED <<report, usage>>
  /\ audit' = "completed" => audit = "completed"
  /\ \A m \in Missions : pc'[m] \in PastReport => pc[m] \in PastReport

LEMMA NoCompletionKeeps == ReportFirst /\ NoCompletion => ReportFirst'
BY DEF ReportFirst, CompletedHasReport, NoCompletion

\* The processor of m moves on to a label short of the finish.
StepsAside(m) ==
  \E next : next \notin PastReport /\ pc' = [pc EXCEPT ![m] = next]

LEMMA FollowStepsAside ==
  ASSUME NEW m \in Missions, NEW next, next \notin PastReport, Follow(m, next)
  PROVE  StepsAside(m)
BY DEF Follow, Catch, Goto, StepsAside, PastReport

LEMMA PlannerNoCompletion == TypeInvariant /\ Planner => NoCompletion
<1> SUFFICES ASSUME TypeInvariant, Planner PROVE NoCompletion
  OBVIOUS
<1>1. \A m \in Missions : pc'[m] = pc[m]
  BY MissionsAssumption DEF Planner, PlanGuard, PlanCheck, PlanSnapshot,
     PlanUnsafe, PlanRowsDone, PlanQueued, PlanLoopDone, PlanRow,
     PlanMissionRead, PlanMissionWrite, PlanEnqueue, Goto, WriteAudit,
     WriteMission, TypeInvariant, ProcessorTypes, Jobs
<1>2. UNCHANGED <<report, usage>> /\ (audit' = audit \/ audit' # "completed")
  BY DEF Planner, PlanGuard, PlanCheck, PlanSnapshot,
     PlanUnsafe, PlanRowsDone, PlanQueued, PlanLoopDone, PlanRow,
     PlanMissionRead, PlanMissionWrite, PlanEnqueue, WriteAudit,
     WriteMission, Local, NoWrite, auditRow
<1> QED
  BY <1>1, <1>2 DEF NoCompletion

LEMMA QueueNoCompletion ==
  ASSUME TypeInvariant, NEW j \in Jobs, JobStep(j)
  PROVE  NoCompletion
<1>1. UNCHANGED <<report, usage, audit>>
  BY DEF JobStep, StartJob, JobDone, JobFailed, auditRow
<1>2. \A m \in Missions : pc'[m] = pc[m] \/ pc'[m] \notin PastReport
  BY DEF JobStep, StartJob, JobDone, JobFailed, Goto, TypeInvariant,
     ProcessorTypes, Jobs, PastReport
<1> QED
  BY <1>1, <1>2 DEF NoCompletion

LEMMA ClientNoCompletion ==
  ASSUME TypeInvariant,
         \/ ApiRead \/ ApiWrite \/ ApiEnqueue \/ Crash \/ ApiCrash
         \/ \E c \in Cancellers : CancelRead(c) \/ CancelTx(c)
  PROVE  NoCompletion
<1>1. UNCHANGED <<report, usage>> /\ (audit' = audit \/ audit' # "completed")
  BY DEF ApiRead, ApiWrite, ApiEnqueue, Crash, ApiCrash, CancelRead, CancelTx,
     auditRow
<1>2. \A m \in Missions : pc'[m] = pc[m] \/ pc'[m] = "idle"
  BY DEF ApiRead, ApiWrite, ApiEnqueue, Crash, ApiCrash, CancelRead, CancelTx,
     ApiOnly, processors, Jobs
<1> QED
  BY <1>1, <1>2 DEF NoCompletion, PastReport

LEMMA MissionNoCompletion ==
  ASSUME TypeInvariant, NEW m \in Missions,
         \/ CheckCancelled(m) \/ Guard(m) \/ MarkAuditRunning(m)
         \/ MarkMissionRunning(m) \/ Execute(m) \/ Persist(m)
         \/ MarkMissionCompleted(m) \/ Analyze(m) \/ GenerateReport(m)
         \/ FailAudit(m) \/ MarkMissionFailed(m) \/ MarkMissionQueued(m)
         \/ MarkMissionCancelled(m) \/ CloseCancelled(m)
         \/ CancelOpenMissions(m) \/ CancelAudit(m)
  PROVE  NoCompletion
<1>1. UNCHANGED <<report, usage>> /\ (audit' = audit \/ audit' # "completed")
  BY DEF CheckCancelled, Guard, MarkAuditRunning, MarkMissionRunning, Execute,
     Persist, MarkMissionCompleted, Analyze, GenerateReport, FailAudit,
     MarkMissionFailed, MarkMissionQueued, MarkMissionCancelled,
     CloseCancelled, CancelOpenMissions, CancelAudit, FinalizerRead,
     WriteAudit, WriteMission, Local, NoWrite, auditRow
<1>2. StepsAside(m)
  <2>1. CASE CheckCancelled(m) \/ Guard(m) \/ Execute(m) \/ Persist(m)
    BY <2>1 DEF CheckCancelled, Guard, Execute, Persist, Goto, Catch,
       CatchCancelled, StepsAside, PastReport
  <2>2. CASE MarkAuditRunning(m) \/ MarkMissionRunning(m)
             \/ MarkMissionCompleted(m)
    <3>1. ASSUME NEW s, NEW legal, NEW t, NEW write, NEW done,
                 write \notin PastReport, done \notin PastReport
          PROVE  Landing(s, legal, t, write, done, "throw") \notin PastReport
      BY <3>1 DEF Landing, PastReport
    <3> QED
      BY <2>2, <3>1, FollowStepsAside DEF MarkAuditRunning,
         MarkMissionRunning, MarkMissionCompleted, WriteAudit, WriteMission,
         Goto, StepsAside, PastReport
  <2>3. CASE Analyze(m) \/ GenerateReport(m) \/ FailAudit(m)
    <3>1. AfterFinalizer(m, "failed") \notin PastReport
      BY DEF AfterFinalizer, UsageLabel, PastReport
    <3>2. ASSUME NEW at, NEW status, NEW write, NEW done,
                 write \notin PastReport, done \notin PastReport,
                 FinalizerRead(m, at, status, write, done)
          PROVE  StepsAside(m)
      <4>1. Landing(audit, auditTransitions, status, write, done,
                    FinalizerThrow(m)) \notin PastReport
        BY <3>2 DEF Landing, FinalizerThrow, PastReport
      <4> QED
        BY <3>2, <4>1, FollowStepsAside DEF FinalizerRead
    <3> QED
      BY <2>3, <3>1, <3>2 DEF Analyze, GenerateReport, FailAudit, WriteAudit,
         Goto, StepsAside, PastReport
  <2>4. CASE MarkMissionFailed(m) \/ MarkMissionQueued(m)
             \/ MarkMissionCancelled(m) \/ CloseCancelled(m)
             \/ CancelOpenMissions(m) \/ CancelAudit(m)
    BY <2>4 DEF MarkMissionFailed, MarkMissionQueued, MarkMissionCancelled,
       CloseCancelled, CancelOpenMissions, CancelAudit, Landing, WriteAudit,
       WriteMission, Goto, StepsAside, PastReport
  <2> QED
    BY <2>1, <2>2, <2>3, <2>4
<1> QED
  BY <1>1, <1>2 DEF NoCompletion, StepsAside, TypeInvariant, ProcessorTypes,
     Jobs

\* The four actions that do complete, or that know of a completion.
LEMMA FinishAfterReport ==
  ASSUME TypeInvariant, ReportFirst, NEW m \in Missions,
         \/ Finalize(m) \/ UpsertReport(m) \/ CompleteAudit(m)
         \/ RecordUsage(m)
  PROVE  ReportFirst'
<1>0. m \in Jobs /\ pc \in [Jobs -> Labels]
  BY DEF Jobs, TypeInvariant, ProcessorTypes
<1>1. CASE Finalize(m)
  <2>1. UNCHANGED <<audit, report, usage>>
    BY <1>1 DEF Finalize, Local, NoWrite, auditRow
  <2>2. AfterFinalizer(m, audit) \in PastReport => audit = "completed"
    BY DEF AfterFinalizer, UsageLabel, TerminalAudit, PastReport
  <2>3. pc'[m] \in PastReport => audit = "completed"
    BY <1>0, <1>1, <2>2 DEF Finalize, Goto, PastReport
  <2> QED
    BY <1>0, <1>1, <2>1, <2>3
       DEF Finalize, Goto, ReportFirst, CompletedHasReport, Jobs
<1>2. CASE UpsertReport(m)
  BY <1>2 DEF UpsertReport, ReportFirst, CompletedHasReport
<1>3. CASE CompleteAudit(m)
  <2>1. report /\ report' = report /\ usage' = usage
    BY <1>3 DEF CompleteAudit, FinalizerRead, WriteAudit, Local, NoWrite,
       auditRow, ReportFirst, PastReport
  <2> QED
    BY <2>1 DEF ReportFirst, CompletedHasReport
<1>4. CASE RecordUsage(m)
  <2>1. /\ UNCHANGED <<audit, report>>
        /\ "completed" \in usage' => "completed" \in usage \/ report
    BY <1>4 DEF RecordUsage, UsageLabel, TerminalAudit, ReportFirst,
       PastReport
  <2>2. pc' = [pc EXCEPT ![m] = "job-done"]
    BY <1>4 DEF RecordUsage, Goto
  <2> QED
    BY <1>0, <2>1, <2>2 DEF ReportFirst, CompletedHasReport, PastReport, Jobs
<1> QED
  BY <1>1, <1>2, <1>3, <1>4

LEMMA NextReportFirst ==
  TypeInvariant /\ ReportFirst /\ [Next]_vars => ReportFirst'
<1> SUFFICES ASSUME TypeInvariant, ReportFirst, [Next]_vars
             PROVE  ReportFirst'
  OBVIOUS
<1>1. CASE UNCHANGED vars
  BY <1>1 DEF vars, auditRow, processors, ReportFirst, CompletedHasReport
<1>2. CASE \/ ApiRead \/ ApiWrite \/ ApiEnqueue \/ Crash \/ ApiCrash
           \/ \E c \in Cancellers : CancelRead(c) \/ CancelTx(c)
  BY <1>2, ClientNoCompletion, NoCompletionKeeps
<1>3. CASE ApiUsage
  BY <1>3 DEF ApiUsage, ApiOnly, processors, ReportFirst, CompletedHasReport
<1>4. CASE Planner
  BY <1>4, PlannerNoCompletion, NoCompletionKeeps
<1>5. CASE \E j \in Jobs : JobStep(j)
  BY <1>5, QueueNoCompletion, NoCompletionKeeps
<1>6. CASE \E m \in Missions : MissionWorker(m)
  <2>1. PICK m \in Missions : MissionWorker(m)
    BY <1>6
  <2> QED
    BY <2>1, MissionNoCompletion, FinishAfterReport, NoCompletionKeeps
       DEF MissionWorker
<1> QED
  BY <1>1, <1>2, <1>3, <1>4, <1>5, <1>6 DEF Next, Api

\* No interleaving of finalizers, retries, cancellations and crashes lets an
\* audit read completed, or be billed as completed, before its report row.
THEOREM ReportBeforeCompletion == Spec => []CompletedHasReport
<1>1. Init => ReportFirst
  BY DEF Init, ReportFirst, CompletedHasReport, Jobs, PastReport
<1>2. ReportFirst => CompletedHasReport
  BY DEF ReportFirst
<1> QED
  BY <1>1, <1>2, TypeCorrect, NextReportFirst, PTL DEF Spec

(***************************************************************************)
(* Cancellation only on request: a processor on the cancel path is there   *)
(* because it saw a request, and requests are never withdrawn.             *)
(***************************************************************************)

CancelPath ==
  {"cancel?", "cancel!", "close-cancelled", "cancel-missions!",
   "cancel-audit?", "cancel-audit!", "usage-cancelled"}

NothingCancelled ==
  /\ audit # "cancelled"
  /\ "cancelled" \notin usage
  /\ \A m \in Missions : mission[m] # "cancelled" /\ pc[m] \notin CancelPath

CancelOnRequest == cancelRequested \/ NothingCancelled

\* The processor of m moves on to a label off the cancel path.
StaysOnMain(m) ==
  \E next : next \notin CancelPath /\ pc' = [pc EXCEPT ![m] = next]

LEMMA FollowStaysOnMain ==
  ASSUME NEW m \in Missions, NEW next, next \notin CancelPath, Follow(m, next)
  PROVE  StaysOnMain(m)
BY DEF Follow, Catch, Goto, StaysOnMain, CancelPath

LEMMA MissionCancelsNothing ==
  ASSUME TypeInvariant, NothingCancelled, ~cancelRequested,
         NEW m \in Missions, MissionWorker(m)
  PROVE  NothingCancelled'
<1>0. /\ m \in Jobs /\ pc \in [Jobs -> Labels] /\ pc[m] \notin CancelPath
      /\ mission \in [Missions -> MissionStatus \cup {Absent}]
      /\ ~CancellationSeen
  BY DEF Jobs, TypeInvariant, ProcessorTypes, MissionRowTypes,
     NothingCancelled, CancellationSeen
<1>1. ~(\/ MarkMissionCancelled(m) \/ CloseCancelled(m)
        \/ CancelOpenMissions(m) \/ CancelAudit(m))
  BY <1>0 DEF MarkMissionCancelled, CloseCancelled, CancelOpenMissions,
     CancelAudit, WriteAudit, WriteMission, CancelPath
<1>2. ASSUME NEW s, NEW legal, NEW t, NEW write, NEW done, NEW throw,
             write \notin CancelPath, done \notin CancelPath,
             throw \notin CancelPath
      PROVE  Landing(s, legal, t, write, done, throw) \notin CancelPath
  BY <1>2 DEF Landing
<1>3. "throw" \notin CancelPath /\ "job-failed" \notin CancelPath
  BY DEF CancelPath
<1>4. \A status : status # "cancelled" =>
                    AfterFinalizer(m, status) \notin CancelPath
  BY DEF AfterFinalizer, UsageLabel, TerminalAudit, CancelPath
<1>5. CASE CheckCancelled(m) \/ Guard(m) \/ Execute(m) \/ Persist(m)
  <2>1. StaysOnMain(m)
    BY <1>0, <1>5 DEF CheckCancelled, Guard, Execute, Persist, Goto, Catch,
       StaysOnMain, CancelPath
  <2> QED
    BY <1>0, <1>5, <2>1 DEF CheckCancelled, Guard, Execute, Persist, Local,
       NoWrite, auditRow, missionRows, NothingCancelled, StaysOnMain, Jobs
<1>6. CASE MarkAuditRunning(m) \/ MarkMissionRunning(m)
           \/ MarkMissionCompleted(m)
  <2>1. StaysOnMain(m)
    BY <1>2, <1>3, <1>6, FollowStaysOnMain DEF MarkAuditRunning,
       MarkMissionRunning, MarkMissionCompleted, WriteAudit, WriteMission,
       Goto, StaysOnMain, CancelPath
  <2>2. audit' # "cancelled" /\ usage' = usage
    BY <1>6 DEF MarkAuditRunning, MarkMissionRunning, MarkMissionCompleted,
       WriteAudit, WriteMission, Local, NoWrite, auditRow, NothingCancelled
  <2>3. \A n \in Missions : mission'[n] # "cancelled"
    BY <1>0, <1>6 DEF MarkAuditRunning, MarkMissionRunning,
       MarkMissionCompleted, WriteAudit, WriteMission, Local, NoWrite,
       missionRows, NothingCancelled
  <2> QED
    BY <1>0, <2>1, <2>2, <2>3 DEF NothingCancelled, StaysOnMain, Jobs
<1>7. CASE \/ Finalize(m) \/ FailAudit(m) \/ Analyze(m)
           \/ GenerateReport(m) \/ CompleteAudit(m)
  <2>1. StaysOnMain(m)
    <3>1. ASSUME NEW at, NEW status, NEW write, NEW done,
                 write \notin CancelPath, done \notin CancelPath,
                 FinalizerRead(m, at, status, write, done)
          PROVE  StaysOnMain(m)
      <4>1. FinalizerThrow(m) \notin CancelPath
        BY <1>3 DEF FinalizerThrow
      <4>2. Landing(audit, auditTransitions, status, write, done,
                    FinalizerThrow(m)) \notin CancelPath
        BY <1>2, <3>1, <4>1
      <4> QED
        BY <3>1, <4>2, FollowStaysOnMain DEF FinalizerRead
    <3>2. /\ AfterFinalizer(m, "failed") \notin CancelPath
          /\ AfterFinalizer(m, "completed") \notin CancelPath
          /\ AfterFinalizer(m, audit) \notin CancelPath
      BY <1>4 DEF NothingCancelled
    <3> QED
      BY <1>7, <3>1, <3>2 DEF Finalize, FailAudit, Analyze, GenerateReport,
         CompleteAudit, WriteAudit, Goto, StaysOnMain, CancelPath
  <2>2. audit' # "cancelled" /\ usage' = usage /\ mission' = mission
    BY <1>7 DEF Finalize, FailAudit, Analyze, GenerateReport, CompleteAudit,
       FinalizerRead, WriteAudit, Local, NoWrite, auditRow, missionRows,
       NothingCancelled
  <2> QED
    BY <1>0, <2>1, <2>2 DEF NothingCancelled, StaysOnMain, Jobs
<1>8. CASE UpsertReport(m) \/ RecordUsage(m)
  <2>1. StaysOnMain(m)
    BY <1>8 DEF UpsertReport, RecordUsage, Goto, StaysOnMain, CancelPath
  <2>2. audit' = audit /\ "cancelled" \notin usage' /\ mission' = mission
    BY <1>0, <1>8 DEF UpsertReport, RecordUsage, UsageLabel, TerminalAudit,
       missionRows, NothingCancelled, CancelPath
  <2> QED
    BY <1>0, <2>1, <2>2 DEF NothingCancelled, StaysOnMain, Jobs
<1>9. CASE MarkMissionFailed(m) \/ MarkMissionQueued(m)
  <2>1. StaysOnMain(m)
    BY <1>9 DEF MarkMissionFailed, MarkMissionQueued, Landing, WriteMission,
       Goto, StaysOnMain, CancelPath
  <2>2. UNCHANGED auditRow
    BY <1>9 DEF MarkMissionFailed, MarkMissionQueued, WriteMission, Local,
       NoWrite
  <2>3. \A n \in Missions : mission'[n] # "cancelled"
    BY <1>0, <1>9 DEF MarkMissionFailed, MarkMissionQueued, WriteMission,
       Local, NoWrite, missionRows, NothingCancelled
  <2> QED
    BY <1>0, <2>1, <2>2, <2>3 DEF NothingCancelled, StaysOnMain, Jobs, auditRow
<1> QED
  BY <1>1, <1>5, <1>6, <1>7, <1>8, <1>9 DEF MissionWorker

LEMMA PlannerCancelsNothing ==
  ASSUME TypeInvariant, NothingCancelled, Planner
  PROVE  NothingCancelled'
<1>1. \A m \in Missions : pc'[m] = pc[m]
  BY MissionsAssumption DEF Planner, PlanGuard, PlanCheck, PlanSnapshot,
     PlanUnsafe, PlanRowsDone, PlanQueued, PlanLoopDone, PlanRow,
     PlanMissionRead, PlanMissionWrite, PlanEnqueue, Goto, WriteAudit,
     WriteMission, TypeInvariant, ProcessorTypes, Jobs
<1>2. usage' = usage /\ audit' # "cancelled"
  BY DEF Planner, PlanGuard, PlanCheck, PlanSnapshot, PlanUnsafe,
     PlanRowsDone, PlanQueued, PlanLoopDone, PlanRow, PlanMissionRead,
     PlanMissionWrite, PlanEnqueue, WriteAudit, WriteMission, Local, NoWrite,
     auditRow, NothingCancelled
<1>3. \A m \in Missions : mission'[m] # "cancelled"
  BY DEF Planner, PlanGuard, PlanCheck, PlanSnapshot, PlanUnsafe,
     PlanRowsDone, PlanQueued, PlanLoopDone, PlanRow, PlanMissionRead,
     PlanMissionWrite, PlanEnqueue, WriteAudit, WriteMission, Local, NoWrite,
     missionRows, NothingCancelled, TypeInvariant, MissionRowTypes
<1> QED
  BY <1>1, <1>2, <1>3 DEF NothingCancelled

LEMMA OthersCancelNothing ==
  ASSUME TypeInvariant, NothingCancelled,
         \/ Api \/ Crash \/ ApiCrash
         \/ \E j \in Jobs : JobStep(j)
         \/ \E c \in Cancellers : CancelRead(c)
  PROVE  NothingCancelled'
<1>1. audit' # "cancelled" /\ "cancelled" \notin usage' /\ mission' = mission
  BY DEF Api, ApiRead, ApiWrite, ApiEnqueue, ApiUsage, ApiOnly, Crash,
     ApiCrash, JobStep, StartJob, JobDone, JobFailed, CancelRead, auditRow,
     missionRows, NothingCancelled
<1>2. \A m \in Missions : pc'[m] \notin CancelPath
  BY DEF Api, ApiRead, ApiWrite, ApiEnqueue, ApiUsage, ApiOnly, Crash,
     ApiCrash, JobStep, StartJob, JobDone, JobFailed, CancelRead, processors,
     Goto, NothingCancelled, TypeInvariant, ProcessorTypes, Jobs, CancelPath
<1> QED
  BY <1>1, <1>2 DEF NothingCancelled

LEMMA RequestStays == cancelRequested /\ [Next]_vars => cancelRequested'
<1> SUFFICES ASSUME cancelRequested, [Next]_vars PROVE cancelRequested'
  OBVIOUS
<1>1. CASE UNCHANGED vars
  BY <1>1 DEF vars, auditRow
<1>2. CASE Api \/ Crash \/ ApiCrash
  BY <1>2 DEF Api, ApiRead, ApiWrite, ApiEnqueue, ApiUsage, Crash, ApiCrash,
     auditRow
<1>3. CASE Planner
  BY <1>3 DEF Planner, PlanGuard, PlanCheck, PlanSnapshot, PlanUnsafe,
     PlanRowsDone, PlanQueued, PlanLoopDone, PlanRow, PlanMissionRead,
     PlanMissionWrite, PlanEnqueue, WriteAudit, WriteMission, Local, NoWrite,
     auditRow
<1>4. CASE \/ \E j \in Jobs : JobStep(j)
           \/ \E c \in Cancellers : CancelRead(c) \/ CancelTx(c)
  BY <1>4 DEF JobStep, StartJob, JobDone, JobFailed, CancelRead, CancelTx,
     auditRow
<1>5. CASE \E m \in Missions : MissionWorker(m)
  BY <1>5 DEF MissionWorker, CheckCancelled, Guard, MarkAuditRunning,
     MarkMissionRunning, Execute, Persist, MarkMissionCompleted, Finalize,
     FailAudit, Analyze, GenerateReport, UpsertReport, CompleteAudit,
     RecordUsage, MarkMissionFailed, MarkMissionQueued, MarkMissionCancelled,
     CloseCancelled, CancelOpenMissions, CancelAudit, FinalizerRead,
     WriteAudit, WriteMission, Local, NoWrite, auditRow
<1> QED
  BY <1>1, <1>2, <1>3, <1>4, <1>5 DEF Next

LEMMA NextCancelOnRequest ==
  TypeInvariant /\ CancelOnRequest /\ [Next]_vars => CancelOnRequest'
<1> SUFFICES ASSUME TypeInvariant, NothingCancelled, ~cancelRequested,
                    [Next]_vars
             PROVE  CancelOnRequest'
  BY RequestStays DEF CancelOnRequest
<1>1. CASE UNCHANGED vars
  BY <1>1 DEF vars, auditRow, missionRows, processors, NothingCancelled,
     CancelOnRequest
<1>2. CASE \/ Api \/ Crash \/ ApiCrash
           \/ \E j \in Jobs : JobStep(j)
           \/ \E c \in Cancellers : CancelRead(c)
  BY <1>2, OthersCancelNothing DEF CancelOnRequest
<1>3. CASE Planner
  BY <1>3, PlannerCancelsNothing DEF CancelOnRequest
<1>4. CASE \E c \in Cancellers : CancelTx(c)
  BY <1>4 DEF CancelTx, CancelOnRequest
<1>5. CASE \E m \in Missions : MissionWorker(m)
  BY <1>5, MissionCancelsNothing DEF CancelOnRequest
<1> QED
  BY <1>1, <1>2, <1>3, <1>4, <1>5 DEF Next

\* Whatever the processors, retries and crashes do, no audit, mission or
\* usage event is cancelled that no member asked to cancel.
THEOREM NoCancellationUnasked == Spec => []CancelledOnlyOnRequest
<1>1. Init => CancelOnRequest
  BY DEF Init, CancelOnRequest, NothingCancelled, CancelPath, Jobs, Absent
<1>2. CancelOnRequest => CancelledOnlyOnRequest
  BY DEF CancelOnRequest, NothingCancelled, CancelledOnlyOnRequest
<1> QED
  BY <1>1, <1>2, TypeCorrect, NextCancelOnRequest, PTL DEF Spec

(***************************************************************************)
(* The ledger of attempts. A job that may still run has attempts left, and *)
(* the row has counted at most one attempt per attempt BullMQ closed, per  *)
(* death of a worker, and for the run that is past markMissionRunning.     *)
(***************************************************************************)

BeforeStart == {"idle", "check", "guard", "running?", "running!", "start?",
                "start!"}

Begun(m) == IF pc[m] \in BeforeStart THEN 0 ELSE 1

AttemptLedger ==
  \A m \in Missions :
    /\ pc[m] # "idle" => job[m] = "active"
    /\ attemptCount[m] <= MaxAttempts[m] + stalls[m]
    /\ job[m] \in {"none", "waiting", "active"} =>
         /\ attemptsMade[m] < MaxAttempts[m]
         /\ attemptCount[m] <= attemptsMade[m] + stalls[m] + Begun(m)

\* The counters of mission m stay, and its processor neither wakes up nor
\* goes back before markMissionRunning.
LedgerUntouched(m) ==
  /\ job'[m] = job[m]
  /\ attemptsMade'[m] = attemptsMade[m]
  /\ stalls'[m] = stalls[m]
  /\ attemptCount'[m] = attemptCount[m]
  /\ pc[m] = "idle" => pc'[m] = "idle"
  /\ pc'[m] \in BeforeStart => pc[m] \in BeforeStart

LEMMA UntouchedKeepsLedger ==
  ASSUME TypeInvariant, AttemptLedger, \A m \in Missions : LedgerUntouched(m)
  PROVE  AttemptLedger'
<1> SUFFICES ASSUME NEW m \in Missions
             PROVE  /\ pc'[m] # "idle" => job'[m] = "active"
                    /\ attemptCount'[m] <= MaxAttempts[m] + stalls'[m]
                    /\ job'[m] \in {"none", "waiting", "active"} =>
                         /\ attemptsMade'[m] < MaxAttempts[m]
                         /\ attemptCount'[m] <=
                              attemptsMade'[m] + stalls'[m] + Begun(m)'
  BY DEF AttemptLedger
<1>1. Begun(m) \in {0, 1} /\ Begun(m)' \in {0, 1} /\ Begun(m) <= Begun(m)'
  BY DEF LedgerUntouched, Begun
<1>2. /\ attemptCount[m] \in Nat /\ attemptsMade[m] \in Nat
      /\ stalls[m] \in Nat
  BY DEF TypeInvariant, MissionRowTypes, QueueTypes, Jobs
<1> QED
  BY <1>1, <1>2 DEF LedgerUntouched, AttemptLedger

\* The processor of m moves on at a label that does not undo the start.
Advances(m) ==
  \E next : /\ next # "idle"
            /\ next \in BeforeStart => pc[m] \in BeforeStart
            /\ pc[m] # "idle"
            /\ pc' = [pc EXCEPT ![m] = next]

LEMMA AdvanceKeepsLedger ==
  ASSUME TypeInvariant, AttemptLedger, NEW m \in Missions, Advances(m),
         UNCHANGED <<queue, attemptCount>>
  PROVE  AttemptLedger'
<1>1. \A n \in Missions : LedgerUntouched(n)
  BY DEF Advances, LedgerUntouched, queue, TypeInvariant, ProcessorTypes, Jobs
<1> QED
  BY <1>1, UntouchedKeepsLedger

LEMMA FollowAdvances ==
  ASSUME NEW m \in Missions, NEW next, next # "idle",
         next \in BeforeStart => pc[m] \in BeforeStart, pc[m] # "idle",
         Follow(m, next)
  PROVE  Advances(m)
BY DEF Follow, Catch, Goto, Advances, BeforeStart

LEMMA MissionAdvances ==
  ASSUME NEW m \in Missions, MissionWorker(m)
  PROVE  Advances(m)
<1>1. CASE CheckCancelled(m) \/ Guard(m) \/ Execute(m) \/ Persist(m)
  BY <1>1 DEF CheckCancelled, Guard, Execute, Persist, Goto, Catch,
     CatchCancelled, Advances, BeforeStart
<1>2. CASE MarkAuditRunning(m) \/ MarkMissionRunning(m)
  BY <1>2 DEF MarkAuditRunning, MarkMissionRunning, Landing, WriteAudit,
     Follow, Catch, Goto, Advances, BeforeStart
<1>3. CASE MarkMissionCompleted(m) \/ UpsertReport(m)
  BY <1>3 DEF MarkMissionCompleted, UpsertReport, Landing, WriteMission,
     Follow, Catch, Goto, Advances, BeforeStart
<1>4. CASE \/ Finalize(m) \/ FailAudit(m) \/ Analyze(m)
           \/ GenerateReport(m) \/ CompleteAudit(m)
  <2>1. \A status : AfterFinalizer(m, status) \notin BeforeStart
    BY AfterFinalizerLabel DEF BeforeStart
  <2>2. ASSUME NEW at, NEW status, NEW write, NEW done,
               at \notin BeforeStart, write \notin BeforeStart,
               done \notin BeforeStart, FinalizerRead(m, at, status, write, done)
        PROVE  Advances(m)
    <3>1. Landing(audit, auditTransitions, status, write, done,
                  FinalizerThrow(m)) \notin BeforeStart
      BY <2>2 DEF Landing, FinalizerThrow, BeforeStart
    <3>2. pc[m] # "idle" /\ "idle" \in BeforeStart
      BY <2>2 DEF FinalizerRead, BeforeStart
    <3> QED
      BY <2>2, <3>1, <3>2, FollowAdvances DEF FinalizerRead
  <2> QED
    BY <1>4, <2>1, <2>2 DEF Finalize, FailAudit, Analyze, GenerateReport,
       CompleteAudit, WriteAudit, Goto, Advances, BeforeStart
<1>5. CASE RecordUsage(m)
  <2>1. pc[m] \in {"usage-completed", "usage-failed", "usage-cancelled"}
    BY <1>5 DEF RecordUsage, UsageLabel, TerminalAudit
  <2> QED
    BY <1>5, <2>1 DEF RecordUsage, Goto, Advances, BeforeStart
<1>6. CASE \/ MarkMissionFailed(m) \/ MarkMissionQueued(m)
           \/ MarkMissionCancelled(m) \/ CloseCancelled(m)
           \/ CancelOpenMissions(m) \/ CancelAudit(m)
  BY <1>6 DEF MarkMissionFailed, MarkMissionQueued, MarkMissionCancelled,
     CloseCancelled, CancelOpenMissions, CancelAudit, Landing, WriteAudit,
     WriteMission, Goto, Advances, BeforeStart
<1> QED
  BY <1>1, <1>2, <1>3, <1>4, <1>5, <1>6 DEF MissionWorker

LEMMA MissionKeepsLedger ==
  ASSUME TypeInvariant, AttemptLedger, NEW m \in Missions, MissionWorker(m)
  PROVE  AttemptLedger'
<1>1. CASE UNCHANGED <<queue, attemptCount>>
  BY <1>1, MissionAdvances, AdvanceKeepsLedger
<1>2. CASE ~UNCHANGED <<queue, attemptCount>>
  <2>1. /\ pc[m] = "start!"
        /\ attemptCount' = [attemptCount EXCEPT ![m] = @ + 1]
        /\ pc' = [pc EXCEPT ![m] = "check-started"]
        /\ UNCHANGED queue
    BY <1>2 DEF MissionWorker, CheckCancelled, Guard, MarkAuditRunning,
       MarkMissionRunning, Execute, Persist, MarkMissionCompleted, Finalize,
       FailAudit, Analyze, GenerateReport, UpsertReport, CompleteAudit,
       RecordUsage, MarkMissionFailed, MarkMissionQueued,
       MarkMissionCancelled, CloseCancelled, CancelOpenMissions, CancelAudit,
       FinalizerRead, WriteAudit, WriteMission, Goto, Local, NoWrite,
       missionRows, queue
  <2>2. /\ m \in Jobs /\ pc \in [Jobs -> Labels]
        /\ attemptCount \in [Missions -> Nat]
        /\ attemptsMade \in [Jobs -> Nat] /\ stalls \in [Jobs -> Nat]
        /\ Missions \subseteq Jobs
        /\ MaxAttempts[m] \in Nat
    BY MissionsAssumption DEF TypeInvariant, MissionRowTypes, QueueTypes,
       ProcessorTypes, Jobs
  <2>3. /\ job[m] = "active"
        /\ attemptsMade[m] < MaxAttempts[m]
        /\ attemptCount[m] <= attemptsMade[m] + stalls[m]
    BY <2>1, <2>2 DEF AttemptLedger, Begun, BeforeStart
  <2>4. ASSUME NEW n \in Missions, n # m
        PROVE  /\ attemptCount'[n] = attemptCount[n]
               /\ pc'[n] = pc[n]
    BY <2>1, <2>2, <2>4
  <2>5. attemptCount'[m] = attemptCount[m] + 1 /\ pc'[m] = "check-started"
    BY <2>1, <2>2
  <2> SUFFICES ASSUME NEW n \in Missions
               PROVE  /\ pc'[n] # "idle" => job[n] = "active"
                      /\ attemptCount'[n] <= MaxAttempts[n] + stalls[n]
                      /\ job[n] \in {"none", "waiting", "active"} =>
                           /\ attemptsMade[n] < MaxAttempts[n]
                           /\ attemptCount'[n] <=
                                attemptsMade[n] + stalls[n] + Begun(n)'
    BY <2>1 DEF AttemptLedger, queue
  <2>6. CASE n = m
    BY <2>2, <2>3, <2>5, <2>6 DEF Begun, BeforeStart
  <2>7. CASE n # m
    BY <2>4, <2>7 DEF AttemptLedger, Begun
  <2> QED
    BY <2>6, <2>7
<1> QED
  BY <1>1, <1>2

LEMMA JobStepKeepsLedger ==
  ASSUME TypeInvariant, AttemptLedger, NEW j \in Jobs, JobStep(j)
  PROVE  AttemptLedger'
<1>0. /\ pc \in [Jobs -> Labels] /\ Missions \subseteq Jobs
      /\ attemptCount \in [Missions -> Nat] /\ attemptsMade \in [Jobs -> Nat]
      /\ stalls \in [Jobs -> Nat]
      /\ job \in [Jobs -> {"none", "waiting", "active", "completed", "failed"}]
      /\ MaxAttempts \in [Missions -> Nat]
  BY MissionsAssumption DEF TypeInvariant, MissionRowTypes, QueueTypes,
     ProcessorTypes, Jobs
<1>1. stalls' = stalls /\ attemptCount' = attemptCount
  BY DEF JobStep, StartJob, JobDone, JobFailed, missionRows
<1> SUFFICES ASSUME NEW n \in Missions
             PROVE  /\ pc'[n] # "idle" => job'[n] = "active"
                    /\ attemptCount[n] <= MaxAttempts[n] + stalls[n]
                    /\ job'[n] \in {"none", "waiting", "active"} =>
                         /\ attemptsMade'[n] < MaxAttempts[n]
                         /\ attemptCount[n] <=
                              attemptsMade'[n] + stalls[n] + Begun(n)'
  BY <1>1 DEF AttemptLedger
<1>2. CASE n # j
  BY <1>0, <1>2 DEF JobStep, StartJob, JobDone, JobFailed, Goto, AttemptLedger,
     Begun
<1>3. CASE n = j
  <2>1. CASE StartJob(j)
    <3>1. pc[n] = "idle" /\ job[n] = "waiting"
      BY <1>0, <1>3, <2>1 DEF StartJob, AttemptLedger
    <3>2. job'[n] = "active" /\ pc'[n] = "check" /\ attemptsMade' = attemptsMade
      BY <1>0, <1>3, <2>1, MissionsAssumption DEF StartJob
    <3> QED
      BY <1>0, <3>1, <3>2 DEF AttemptLedger, Begun, BeforeStart
  <2>2. CASE JobDone(j)
    BY <1>0, <1>3, <2>2 DEF JobDone, Goto, AttemptLedger
  <2>3. CASE JobFailed(j)
    <3>1. /\ pc[n] = "job-failed" /\ pc'[n] = "idle"
          /\ attemptsMade'[n] = attemptsMade[n] + 1
          /\ job'[n] = IF attemptsMade[n] + 1 < MaxAttempts[n]
                        THEN "waiting" ELSE "failed"
      BY <1>0, <1>3, <2>3, MissionsAssumption DEF JobFailed, Goto, Attempts
    <3>2. /\ attemptCount[n] <= attemptsMade[n] + stalls[n] + 1
          /\ attemptCount[n] <= MaxAttempts[n] + stalls[n]
      BY <1>0, <3>1 DEF AttemptLedger, Begun, BeforeStart
    <3> QED
      BY <1>0, <3>1, <3>2 DEF Begun, BeforeStart
  <2> QED
    BY <2>1, <2>2, <2>3 DEF JobStep
<1> QED
  BY <1>2, <1>3

LEMMA CrashKeepsLedger == TypeInvariant /\ AttemptLedger /\ Crash => AttemptLedger'
<1> SUFFICES ASSUME TypeInvariant, AttemptLedger, Crash, NEW n \in Missions
             PROVE  /\ pc'[n] # "idle" => job'[n] = "active"
                    /\ attemptCount'[n] <= MaxAttempts[n] + stalls'[n]
                    /\ job'[n] \in {"none", "waiting", "active"} =>
                         /\ attemptsMade'[n] < MaxAttempts[n]
                         /\ attemptCount'[n] <=
                              attemptsMade'[n] + stalls'[n] + Begun(n)'
  BY DEF AttemptLedger
<1>1. /\ n \in Jobs /\ attemptCount[n] \in Nat /\ attemptsMade[n] \in Nat
      /\ stalls[n] \in Nat /\ MaxAttempts[n] \in Nat
  BY MissionsAssumption DEF TypeInvariant, MissionRowTypes, QueueTypes, Jobs
<1>2. /\ pc'[n] = "idle" /\ attemptCount' = attemptCount
      /\ attemptsMade' = attemptsMade
  BY <1>1 DEF Crash, missionRows
<1>3. CASE job[n] = "active"
  <2>1. stalls'[n] = stalls[n] + 1
    BY <1>1, <1>3 DEF Crash
  <2>2. /\ attemptsMade[n] < MaxAttempts[n]
        /\ attemptCount[n] <= attemptsMade[n] + stalls[n] + 1
    BY <1>1, <1>3 DEF AttemptLedger, Begun
  <2> QED
    BY <1>1, <1>2, <2>1, <2>2 DEF Begun, BeforeStart
<1>4. CASE job[n] # "active"
  <2>1. /\ stalls'[n] = stalls[n] /\ job'[n] = job[n] /\ pc[n] = "idle"
    BY <1>1, <1>4 DEF Crash, AttemptLedger
  <2> QED
    BY <1>1, <1>2, <2>1 DEF AttemptLedger, Begun, BeforeStart
<1> QED
  BY <1>3, <1>4

LEMMA PlannerKeepsLedger ==
  TypeInvariant /\ AttemptLedger /\ Planner => AttemptLedger'
<1> SUFFICES ASSUME TypeInvariant, AttemptLedger, Planner
             PROVE  AttemptLedger'
  OBVIOUS
<1>1. /\ \A m \in Missions : pc'[m] = pc[m]
      /\ UNCHANGED <<attemptCount, attemptsMade, stalls>>
  <2>1. \A m \in Missions : pc'[m] = pc[m]
    BY MissionsAssumption DEF Planner, PlanGuard, PlanCheck, PlanSnapshot,
       PlanUnsafe, PlanRowsDone, PlanQueued, PlanLoopDone, PlanRow,
       PlanMissionRead, PlanMissionWrite, PlanEnqueue, Goto, WriteAudit,
       WriteMission, TypeInvariant, ProcessorTypes, Jobs
  <2>2. UNCHANGED <<attemptCount, attemptsMade, stalls>>
    BY DEF Planner, PlanGuard, PlanCheck, PlanSnapshot, PlanUnsafe,
       PlanRowsDone, PlanQueued, PlanLoopDone, PlanRow, PlanMissionRead,
       PlanMissionWrite, PlanEnqueue, WriteAudit, WriteMission, Local,
       NoWrite, missionRows, queue
  <2> QED
    BY <2>1, <2>2
<1>2. \A m \in Missions :
        job'[m] = job[m] \/ (job[m] = "none" /\ job'[m] = "waiting")
  BY DEF Planner, PlanGuard, PlanCheck, PlanSnapshot, PlanUnsafe,
     PlanRowsDone, PlanQueued, PlanLoopDone, PlanRow, PlanMissionRead,
     PlanMissionWrite, PlanEnqueue, WriteAudit, WriteMission, Local, NoWrite,
     queue, TypeInvariant, QueueTypes, Jobs
<1> QED
  BY <1>1, <1>2 DEF AttemptLedger, Begun

LEMMA ClientKeepsLedger ==
  ASSUME TypeInvariant, AttemptLedger,
         \/ Api \/ ApiCrash
         \/ \E c \in Cancellers : CancelRead(c) \/ CancelTx(c)
  PROVE  AttemptLedger'
<1>1. UNCHANGED <<attemptCount, attemptsMade, stalls, pc>>
  BY DEF Api, ApiRead, ApiWrite, ApiEnqueue, ApiUsage, ApiOnly, ApiCrash,
     CancelRead, CancelTx, missionRows, queue, processors
<1>2. \A m \in Missions : job'[m] = job[m]
  BY MissionsAssumption DEF Api, ApiRead, ApiWrite, ApiEnqueue, ApiUsage,
     ApiOnly, ApiCrash, CancelRead, CancelTx, queue, TypeInvariant,
     QueueTypes, Jobs
<1> QED
  BY <1>1, <1>2 DEF AttemptLedger, Begun

LEMMA NextLedger == TypeInvariant /\ AttemptLedger /\ [Next]_vars => AttemptLedger'
<1> SUFFICES ASSUME TypeInvariant, AttemptLedger, [Next]_vars
             PROVE  AttemptLedger'
  OBVIOUS
<1>1. CASE UNCHANGED vars
  BY <1>1 DEF vars, missionRows, queue, processors, AttemptLedger, Begun
<1>2. CASE \/ Api \/ ApiCrash
           \/ \E c \in Cancellers : CancelRead(c) \/ CancelTx(c)
  BY <1>2, ClientKeepsLedger
<1>3. CASE Planner \/ Crash
  BY <1>3, PlannerKeepsLedger, CrashKeepsLedger
<1>4. CASE \E j \in Jobs : JobStep(j)
  BY <1>4, JobStepKeepsLedger
<1>5. CASE \E m \in Missions : MissionWorker(m)
  BY <1>5, MissionKeepsLedger
<1> QED
  BY <1>1, <1>2, <1>3, <1>4, <1>5 DEF Next

\* However attempts fail, time out, are cancelled or lose their worker, a
\* mission is started at most as often as its definition allows plus once
\* per death of its worker.
THEOREM AttemptsStayBounded == Spec => []AttemptsBounded
<1>1. Init => AttemptLedger
  BY MissionsAssumption
     DEF Init, AttemptLedger, Begun, BeforeStart, Jobs
<1>2. AttemptLedger => AttemptsBounded
  BY DEF AttemptLedger, AttemptsBounded
<1> QED
  BY <1>1, <1>2, TypeCorrect, NextLedger, PTL DEF Spec

-----------------------------------------------------------------------------
(***************************************************************************)
(* What one step of a mission's processor can do.                          *)
(***************************************************************************)

\* The processor of m writes the status of its own mission.
WritesMission(m, at, status) ==
  pc[m] = at /\ mission' = [mission EXCEPT ![m] = status]

WritesAudit(m, at, status) == pc[m] = at /\ audit' = status

\* Every other processor stays where it is; only m's own row is written,
\* by finalizeCancelledAudit also the open ones.
WorkerFrame(m) ==
  /\ UNCHANGED <<cancelRequested, queue, clients, todo, inHand>>
  /\ \E next \in Labels : pc' = [pc EXCEPT ![m] = next]
  /\ \E exit : route' = [route EXCEPT ![m] = exit]

WorkerWrites(m) ==
  /\ \/ UNCHANGED mission
     \/ WritesMission(m, "start!", "running")
     \/ WritesMission(m, "complete!", "completed")
     \/ WritesMission(m, "fail!", "failed")
     \/ WritesMission(m, "requeue!", "queued")
     \/ WritesMission(m, "cancel!", "cancelled")
     \/ pc[m] = "cancel-missions!" /\ CancelOpenMissions(m)
  /\ \/ UNCHANGED audit
     \/ WritesAudit(m, "running!", "running")
     \/ WritesAudit(m, "fail-audit!", "failed")
     \/ WritesAudit(m, "analyze!", "analyzing")
     \/ WritesAudit(m, "generate!", "generating_report")
     \/ WritesAudit(m, "finish!", "completed")
     \/ WritesAudit(m, "cancel-audit!", "cancelled")
  /\ UNCHANGED mission \/ UNCHANGED audit

LEMMA WorkerKeepsFrame ==
  ASSUME TypeInvariant, NEW m \in Missions, MissionWorker(m)
  PROVE  WorkerFrame(m)
<1>1. UNCHANGED <<cancelRequested, queue, clients, todo, inHand>>
  BY DEF MissionWorker, CheckCancelled, Guard, MarkAuditRunning,
     MarkMissionRunning, Execute, Persist, MarkMissionCompleted, Finalize,
     FailAudit, Analyze, GenerateReport, UpsertReport, CompleteAudit,
     RecordUsage, MarkMissionFailed, MarkMissionQueued, MarkMissionCancelled,
     CloseCancelled, CancelOpenMissions, CancelAudit, FinalizerRead,
     WriteAudit, WriteMission, Local, NoWrite, auditRow, Goto, Follow, Catch,
     CatchCancelled
<1>2. \E next : pc' = [pc EXCEPT ![m] = next]
  BY DEF MissionWorker, CheckCancelled, Guard, MarkAuditRunning,
     MarkMissionRunning, Execute, Persist, MarkMissionCompleted, Finalize,
     FailAudit, Analyze, GenerateReport, UpsertReport, CompleteAudit,
     RecordUsage, MarkMissionFailed, MarkMissionQueued, MarkMissionCancelled,
     CloseCancelled, CancelOpenMissions, CancelAudit, FinalizerRead,
     WriteAudit, WriteMission, Goto, Follow, Catch, CatchCancelled
<1>3. \E exit : route' = [route EXCEPT ![m] = exit]
  <2>1. route = [route EXCEPT ![m] = route[m]]
    BY DEF TypeInvariant, ProcessorTypes
  <2> QED
    BY <2>1 DEF MissionWorker, CheckCancelled, Guard, MarkAuditRunning,
     MarkMissionRunning, Execute, Persist, MarkMissionCompleted, Finalize,
     FailAudit, Analyze, GenerateReport, UpsertReport, CompleteAudit,
     RecordUsage, MarkMissionFailed, MarkMissionQueued, MarkMissionCancelled,
     CloseCancelled, CancelOpenMissions, CancelAudit, FinalizerRead,
     WriteAudit, WriteMission, Goto, Follow, Catch, CatchCancelled
<1>4. TypeInvariant'
  BY NextTypes DEF Next
<1>5. \E next \in Labels : pc' = [pc EXCEPT ![m] = next]
  <2>1. PICK next : pc' = [pc EXCEPT ![m] = next]
    BY <1>2
  <2>2. pc'[m] = next /\ pc'[m] \in Labels
    BY <1>4, <2>1 DEF TypeInvariant, ProcessorTypes, Jobs
  <2> QED
    BY <2>1, <2>2
<1> QED
  BY <1>1, <1>3, <1>5 DEF WorkerFrame

LEMMA WorkerWritesItsOwn ==
  ASSUME TypeInvariant, NEW m \in Missions, MissionWorker(m)
  PROVE  WorkerWrites(m)
<1>1. CASE \/ CheckCancelled(m) \/ Guard(m) \/ Execute(m) \/ Persist(m)
           \/ Finalize(m) \/ UpsertReport(m) \/ RecordUsage(m)
           \/ CloseCancelled(m)
  BY <1>1 DEF CheckCancelled, Guard, Execute, Persist, Finalize, UpsertReport,
     RecordUsage, CloseCancelled, Local, NoWrite, auditRow, missionRows,
     WorkerWrites
<1>2. CASE \/ MarkMissionRunning(m) \/ MarkMissionCompleted(m)
           \/ MarkMissionFailed(m) \/ MarkMissionQueued(m)
           \/ MarkMissionCancelled(m)
  BY <1>2 DEF MarkMissionRunning, MarkMissionCompleted, MarkMissionFailed,
     MarkMissionQueued, MarkMissionCancelled, WriteMission, Local, NoWrite,
     auditRow, missionRows, WorkerWrites, WritesMission
<1>3. CASE \/ MarkAuditRunning(m) \/ FailAudit(m) \/ Analyze(m)
           \/ GenerateReport(m) \/ CompleteAudit(m) \/ CancelAudit(m)
  BY <1>3 DEF MarkAuditRunning, FailAudit, Analyze, GenerateReport,
     CompleteAudit, CancelAudit, FinalizerRead, WriteAudit, Local, NoWrite,
     auditRow, missionRows, WorkerWrites, WritesAudit
<1>4. CASE CancelOpenMissions(m)
  BY <1>4 DEF CancelOpenMissions, auditRow, WorkerWrites
<1> QED
  BY <1>1, <1>2, <1>3, <1>4 DEF MissionWorker

\* Where the processor of m goes on to a write, the read it just made
\* allows that write; where it goes on to complete or to fail the audit,
\* the finalizer's one read decided so, or it was on that way before.
MayMove(m, status) == status \in missionTransitions[mission[m]]

MayMoveAudit(status) == status \in auditTransitions[audit]

CompletionLabels ==
  {"analyze?", "analyze!", "generate?", "generate!", "report!", "finish?",
   "finish!"}

ReadsMission(m) ==
  /\ pc'[m] = "start!" => UNCHANGED mission /\ MayMove(m, "running")
  /\ pc'[m] = "complete!" => UNCHANGED mission /\ MayMove(m, "completed")
  /\ pc'[m] = "fail!" => UNCHANGED mission /\ MayMove(m, "failed")
  /\ pc'[m] = "requeue!" => UNCHANGED mission /\ MayMove(m, "queued")
  /\ pc'[m] = "cancel!" => UNCHANGED mission /\ MayMove(m, "cancelled")

ReadsAudit(m) ==
  /\ pc'[m] = "running!" => UNCHANGED audit /\ MayMoveAudit("running")
  /\ pc'[m] = "fail-audit!" => UNCHANGED audit /\ MayMoveAudit("failed")
  /\ pc'[m] = "analyze!" => UNCHANGED audit /\ MayMoveAudit("analyzing")
  /\ pc'[m] = "generate!" => UNCHANGED audit /\ MayMoveAudit("generating_report")
  /\ pc'[m] = "finish!" => UNCHANGED audit /\ MayMoveAudit("completed")

Decides(m) ==
  /\ pc'[m] \in CompletionLabels =>
       /\ UNCHANGED mission
       /\ \/ pc[m] \in CompletionLabels
          \/ pc[m] = "finalize" /\ AllTerminal /\ ~FailureDecided
  /\ pc'[m] \in {"fail-audit?", "fail-audit!"} =>
       /\ UNCHANGED mission
       /\ \/ pc[m] = "fail-audit?"
          \/ pc[m] = "finalize" /\ AllTerminal

TakesRetry(m) ==
  /\ pc'[m] = "requeue?" => route'[m] = "retry"
  /\ pc'[m] = "requeue!" => pc[m] = "requeue?" /\ route'[m] = route[m]
  /\ route'[m] = "retry" => route[m] = "retry" \/ ~LastAttempt(m)

\* The actions by which a processor reads a status before it writes one.
LEMMA WorkerReadsMission ==
  ASSUME TypeInvariant, NEW m \in Missions, MissionWorker(m)
  PROVE  ReadsMission(m)
<1>0. m \in Jobs /\ pc \in [Jobs -> Labels]
  BY DEF Jobs, TypeInvariant, ProcessorTypes
<1>1. CASE \/ CheckCancelled(m) \/ Guard(m) \/ Execute(m) \/ Persist(m)
           \/ Finalize(m) \/ UpsertReport(m) \/ RecordUsage(m)
           \/ CancelOpenMissions(m)
  BY <1>0, <1>1 DEF CheckCancelled, Guard, Execute, Persist, Finalize,
     UpsertReport, RecordUsage, CancelOpenMissions, Catch, CatchCancelled,
     Goto, AfterFinalizer, UsageLabel, TerminalAudit, ReadsMission
<1>2. CASE CloseCancelled(m)
  <2>1. pc'[m] \in {"usage-cancelled", "job-done", "cancel-missions!"}
    <3>1. CASE audit = "cancelled"
      BY <1>0, <1>2, <3>1, Zenon DEF CloseCancelled, Goto
    <3>2. CASE audit \in {"completed", "failed"}
      BY <1>0, <1>2, <3>2 DEF CloseCancelled, Goto
    <3>3. CASE audit \notin {"completed", "failed", "cancelled"}
      BY <1>0, <1>2, <3>3 DEF CloseCancelled, Goto
    <3> QED
      BY <3>1, <3>2, <3>3
  <2> QED
    BY <2>1 DEF ReadsMission
<1>3. CASE \/ MarkMissionRunning(m) \/ MarkMissionCompleted(m)
           \/ MarkMissionFailed(m) \/ MarkMissionQueued(m)
           \/ MarkMissionCancelled(m)
  BY <1>0, <1>3 DEF MarkMissionRunning, MarkMissionCompleted, MarkMissionFailed,
     MarkMissionQueued, MarkMissionCancelled, WriteMission, Local, NoWrite,
     missionRows, Landing, Follow, Catch, Goto, ReadsMission, MayMove
<1>4. CASE \/ MarkAuditRunning(m) \/ FailAudit(m) \/ Analyze(m)
           \/ GenerateReport(m) \/ CompleteAudit(m) \/ CancelAudit(m)
  BY <1>0, <1>4 DEF MarkAuditRunning, FailAudit, Analyze, GenerateReport,
     CompleteAudit, CancelAudit, FinalizerRead, WriteAudit, Landing, Follow,
     Catch, Goto, FinalizerThrow, AfterFinalizer, UsageLabel, TerminalAudit,
     ReadsMission
<1> QED
  BY <1>1, <1>2, <1>3, <1>4 DEF MissionWorker

LEMMA WorkerReadsAudit ==
  ASSUME TypeInvariant, NEW m \in Missions, MissionWorker(m)
  PROVE  ReadsAudit(m) /\ Decides(m) /\ TakesRetry(m)
<1>0. m \in Jobs /\ pc \in [Jobs -> Labels]
      /\ route \in [Jobs -> {"main", "cancel", "retry", "last"}]
  BY DEF Jobs, TypeInvariant, ProcessorTypes
<1>1. CASE \/ CheckCancelled(m) \/ Guard(m) \/ Execute(m) \/ Persist(m)
           \/ UpsertReport(m) \/ RecordUsage(m) \/ CancelOpenMissions(m)
  BY <1>0, <1>1 DEF CheckCancelled, Guard, Execute, Persist, UpsertReport,
     RecordUsage, CancelOpenMissions, Catch, CatchCancelled, Goto, Local,
     NoWrite, missionRows, ReadsAudit, Decides, TakesRetry, CompletionLabels
<1>2. CASE Finalize(m)
  BY <1>0, <1>2 DEF Finalize, Local, NoWrite, missionRows, auditRow, Goto,
     AfterFinalizer, UsageLabel, TerminalAudit, ReadsAudit, Decides,
     TakesRetry, CompletionLabels
<1>3. CASE CloseCancelled(m)
  <2>1. pc'[m] \in {"usage-cancelled", "job-done", "cancel-missions!"}
        /\ route' = route
    <3>1. CASE audit = "cancelled"
      BY <1>0, <1>3, <3>1, Zenon DEF CloseCancelled, Goto
    <3>2. CASE audit \in {"completed", "failed"}
      BY <1>0, <1>3, <3>2 DEF CloseCancelled, Goto
    <3>3. CASE audit \notin {"completed", "failed", "cancelled"}
      BY <1>0, <1>3, <3>3 DEF CloseCancelled, Goto
    <3> QED
      BY <3>1, <3>2, <3>3
  <2> QED
    BY <2>1 DEF ReadsAudit, Decides, TakesRetry, CompletionLabels
<1>4. CASE \/ MarkMissionRunning(m) \/ MarkMissionCompleted(m)
           \/ MarkMissionFailed(m) \/ MarkMissionQueued(m)
           \/ MarkMissionCancelled(m)
  BY <1>0, <1>4 DEF MarkMissionRunning, MarkMissionCompleted, MarkMissionFailed,
     MarkMissionQueued, MarkMissionCancelled, WriteMission, Landing, Follow,
     Catch, Goto, ReadsAudit, Decides, TakesRetry, CompletionLabels
<1>5. CASE \/ MarkAuditRunning(m) \/ FailAudit(m) \/ Analyze(m)
           \/ GenerateReport(m) \/ CompleteAudit(m) \/ CancelAudit(m)
  <2>1. UNCHANGED mission
    BY <1>5 DEF MarkAuditRunning, FailAudit, Analyze, GenerateReport,
       CompleteAudit, CancelAudit, FinalizerRead, WriteAudit, Local, NoWrite,
       missionRows
  <2>2. ReadsAudit(m)
    BY <1>0, <1>5 DEF MarkAuditRunning, FailAudit, Analyze, GenerateReport,
       CompleteAudit, CancelAudit, FinalizerRead, WriteAudit, Local, NoWrite,
       auditRow, Landing, Follow, Catch, Goto, FinalizerThrow, AfterFinalizer,
       UsageLabel, TerminalAudit, ReadsAudit, MayMoveAudit
  <2>3. Decides(m)
    <3>1. CASE MarkAuditRunning(m) \/ CancelAudit(m)
      BY <1>0, <2>1, <3>1 DEF MarkAuditRunning, CancelAudit, WriteAudit,
         Landing, Follow, Catch, Goto, Decides, CompletionLabels
    <3>2. CASE Analyze(m) \/ GenerateReport(m)
      BY <1>0, <2>1, <3>2 DEF Analyze, GenerateReport, FinalizerRead,
         WriteAudit, Landing, Follow, Catch, Goto, FinalizerThrow, Decides,
         CompletionLabels
    <3>3. CASE FailAudit(m) \/ CompleteAudit(m)
      <4>1. /\ AfterFinalizer(m, "failed") \in {"job-failed", "usage-failed"}
            /\ AfterFinalizer(m, "completed") \in {"job-failed", "usage-completed"}
        BY DEF AfterFinalizer, UsageLabel, TerminalAudit
      <4>2. ASSUME NEW at, NEW status, NEW write, NEW done,
                   FinalizerRead(m, at, status, write, done)
            PROVE  pc[m] = at /\ pc'[m] \in {write, done, "job-failed", "fail?"}
        BY <1>0, <4>2 DEF FinalizerRead, Landing, Follow, Catch, Goto,
           FinalizerThrow
      <4>3. CASE FailAudit(m)
        <5>1. \/ pc[m] = "fail-audit?" /\ pc'[m] = "fail-audit!"
              \/ pc'[m] \in {"job-failed", "usage-failed", "fail?"}
          BY <1>0, <4>1, <4>2, <4>3 DEF FailAudit, WriteAudit, Goto
        <5> QED
          BY <2>1, <5>1 DEF Decides, CompletionLabels
      <4>4. CASE CompleteAudit(m)
        <5>1. \/ pc[m] = "finish?" /\ pc'[m] = "finish!"
              \/ pc'[m] \in {"job-failed", "usage-completed", "fail?"}
          BY <1>0, <4>1, <4>2, <4>4 DEF CompleteAudit, WriteAudit, Goto
        <5> QED
          BY <2>1, <5>1 DEF Decides, CompletionLabels
      <4> QED
        BY <3>3, <4>3, <4>4
    <3> QED
      BY <1>5, <3>1, <3>2, <3>3
  <2>4. TakesRetry(m)
    BY <1>0, <1>5 DEF MarkAuditRunning, FailAudit, Analyze, GenerateReport,
       CompleteAudit, CancelAudit, FinalizerRead, WriteAudit, Landing, Follow,
       Catch, Goto, FinalizerThrow, AfterFinalizer, UsageLabel, TerminalAudit,
       TakesRetry
  <2> QED
    BY <2>2, <2>3, <2>4
<1> QED
  BY <1>1, <1>2, <1>3, <1>4, <1>5 DEF MissionWorker

LEMMA WorkerIsBusy ==
  ASSUME NEW m \in Missions, MissionWorker(m)
  PROVE  pc[m] \notin {"idle", "job-done", "job-failed"}
<1>1. CASE RecordUsage(m)
  BY <1>1 DEF RecordUsage, UsageLabel, TerminalAudit
<1>2. CASE \/ CheckCancelled(m) \/ Guard(m) \/ MarkAuditRunning(m)
           \/ MarkMissionRunning(m) \/ Execute(m) \/ Persist(m)
           \/ MarkMissionCompleted(m) \/ Finalize(m)
  BY <1>2 DEF CheckCancelled, Guard, MarkAuditRunning, MarkMissionRunning,
     Execute, Persist, MarkMissionCompleted, Finalize, WriteAudit, WriteMission
<1>3. CASE \/ FailAudit(m) \/ Analyze(m) \/ GenerateReport(m)
           \/ UpsertReport(m) \/ CompleteAudit(m)
  BY <1>3 DEF FailAudit, Analyze, GenerateReport, UpsertReport, CompleteAudit,
     FinalizerRead, WriteAudit
<1>4. CASE \/ MarkMissionFailed(m) \/ MarkMissionQueued(m)
           \/ MarkMissionCancelled(m) \/ CloseCancelled(m)
           \/ CancelOpenMissions(m) \/ CancelAudit(m)
  BY <1>4 DEF MarkMissionFailed, MarkMissionQueued, MarkMissionCancelled,
     CloseCancelled, CancelOpenMissions, CancelAudit, WriteAudit, WriteMission
<1> QED
  BY <1>1, <1>2, <1>3, <1>4 DEF MissionWorker

\* The planner moves itself only; its writes are those of two labels.
LEMMA PlannerKeepsFrame ==
  ASSUME TypeInvariant, Planner
  PROVE  /\ UNCHANGED <<clients, cancelRequested, route, attemptsMade, stalls>>
         /\ pc[PlanJob] # "idle"
         /\ \A m \in Missions : pc'[m] = pc[m]
         /\ job'[PlanJob] = job[PlanJob]
         /\ \A m \in Missions : \/ job'[m] = job[m]
                                \/ job'[m] = "waiting" /\ job[m] = "none"
<1>1. UNCHANGED <<clients, cancelRequested, route, attemptsMade, stalls>>
  BY DEF Planner, PlanGuard, PlanCheck, PlanSnapshot, PlanUnsafe,
     PlanRowsDone, PlanQueued, PlanLoopDone, PlanRow, PlanMissionRead,
     PlanMissionWrite, PlanEnqueue, Goto, WriteAudit, WriteMission, Local,
     NoWrite, auditRow, queue, clients
<1>2. pc[PlanJob] # "idle"
  BY DEF Planner, PlanGuard, PlanCheck, PlanSnapshot, PlanUnsafe,
     PlanRowsDone, PlanQueued, PlanLoopDone, PlanRow, PlanMissionRead,
     PlanMissionWrite, PlanEnqueue, WriteAudit, WriteMission
<1>3. \A m \in Missions : pc'[m] = pc[m]
  BY MissionsAssumption DEF Planner, PlanGuard, PlanCheck, PlanSnapshot,
     PlanUnsafe, PlanRowsDone, PlanQueued, PlanLoopDone, PlanRow,
     PlanMissionRead, PlanMissionWrite, PlanEnqueue, Goto, WriteAudit,
     WriteMission, TypeInvariant, ProcessorTypes, Jobs
<1>4. \/ UNCHANGED job
      \/ \E m \in Missions : job' = [job EXCEPT ![m] = IF @ = "none" THEN "waiting" ELSE @]
  BY DEF Planner, PlanGuard, PlanCheck, PlanSnapshot, PlanUnsafe,
     PlanRowsDone, PlanQueued, PlanLoopDone, PlanRow, PlanMissionRead,
     PlanMissionWrite, PlanEnqueue, WriteAudit, WriteMission, Local, NoWrite,
     queue
<1>5. /\ job'[PlanJob] = job[PlanJob]
      /\ \A m \in Missions :
           \/ job'[m] = job[m]
           \/ job'[m] = "waiting" /\ job[m] = "none"
  BY <1>4, MissionsAssumption DEF TypeInvariant, QueueTypes, Jobs
<1> QED
  BY <1>1, <1>2, <1>3, <1>5

LEMMA NoFaultOf ==
  ASSUME TypeInvariant, NEW kind \in FaultKinds, MaxFaults[kind] = 0
  PROVE  ~Fault(kind)
BY DEF TypeInvariant, FaultTypes, Fault

-----------------------------------------------------------------------------
(***************************************************************************)
(* Without a crash the planning job runs once, and no mission's job is in  *)
(* the queue before the planner is through with the mission.               *)
(***************************************************************************)

BeforeEnqueue ==
  {"validating?", "validating!", "planning?", "planning!", "enqueue"}

PlanLoop == {"plan-mission?", "plan-mission!", "plan-enqueue"}

Unqueued(m) == job[m] = "none"

QueuedOnce ==
  /\ api \in BeforeEnqueue => job[PlanJob] = "none"
  /\ \A j \in Jobs : pc[j] # "idle" => job[j] = "active"
  /\ job[PlanJob] \in {"none", "waiting"} => \A m \in Missions : Unqueued(m)
  /\ pc[PlanJob] \in PlannerLabels \ PlanLoop =>
       \A m \in Missions : Unqueued(m)
  /\ pc[PlanJob] \in PlanLoop => \A m \in todo : Unqueued(m)
  /\ pc[PlanJob] \in {"plan-mission!", "plan-enqueue"} => inHand \in todo

LEMMA PlannerQueuesOnce ==
  ASSUME TypeInvariant, QueuedOnce, Planner
  PROVE  QueuedOnce'
<1>0. /\ PlanJob \in Jobs /\ PlanJob \notin Missions /\ pc \in [Jobs -> Labels]
      /\ job \in [Jobs -> {"none", "waiting", "active", "completed", "failed"}]
      /\ todo \subseteq Missions /\ Missions \subseteq Jobs
  BY MissionsAssumption DEF Jobs, TypeInvariant, ProcessorTypes, QueueTypes
<1>1. /\ api' = api /\ pc[PlanJob] # "idle" /\ job[PlanJob] = "active"
      /\ job'[PlanJob] = "active"
      /\ \A m \in Missions : pc'[m] = pc[m]
      /\ \A m \in Missions :
           \/ job'[m] = job[m]
           \/ job'[m] = "waiting" /\ job[m] = "none"
  BY <1>0, PlannerKeepsFrame DEF clients, QueuedOnce
<1>2. \A j \in Jobs : pc'[j] # "idle" => job'[j] = "active"
  BY <1>0, <1>1 DEF QueuedOnce, Jobs
<1>3. /\ pc'[PlanJob] \in PlannerLabels \ PlanLoop =>
            \A m \in Missions : job'[m] = "none"
      /\ pc'[PlanJob] \in PlanLoop => \A m \in todo' : job'[m] = "none"
      /\ pc'[PlanJob] \in {"plan-mission!", "plan-enqueue"} => inHand' \in todo'
  <2>1. CASE PlanGuard \/ PlanCheck \/ PlanSnapshot \/ PlanUnsafe \/ PlanRowsDone
    <3>1. pc'[PlanJob] \notin PlanLoop /\ UNCHANGED job
          /\ pc[PlanJob] \in PlannerLabels \ PlanLoop
      BY <1>0, <2>1 DEF PlanGuard, PlanCheck, PlanSnapshot, PlanUnsafe,
         PlanRowsDone, Goto, WriteAudit, Landing, Local, NoWrite, queue,
         PlanLoop, PlannerLabels
    <3> QED
      BY <3>1 DEF QueuedOnce, Unqueued, PlanLoop
  <2>2. CASE PlanQueued
    <3>1. /\ pc[PlanJob] \in PlannerLabels \ PlanLoop /\ UNCHANGED job
          /\ pc'[PlanJob] \notin {"plan-mission!", "plan-enqueue"}
      BY <1>0, <2>2 DEF PlanQueued, Goto, WriteAudit, Landing, Local, NoWrite,
         queue, PlanLoop, PlannerLabels
    <3>2. todo' \subseteq Missions
      BY <1>0, <2>2 DEF PlanQueued, WriteAudit, Goto
    <3> QED
      BY <3>1, <3>2 DEF QueuedOnce, Unqueued
  <2>3. CASE PlanLoopDone
    BY <1>0, <2>3 DEF PlanLoopDone, Goto, PlannerLabels, PlanLoop
  <2>4. ASSUME NEW m \in Missions, PlanRow(m)
        PROVE  /\ pc'[PlanJob] = "plan-rows" /\ UNCHANGED job
               /\ pc[PlanJob] = "plan-rows"
    BY <2>4 DEF PlanRow, queue
  <2>5. ASSUME NEW m \in Missions, PlanMissionRead(m) \/ PlanMissionWrite(m)
        PROVE  /\ pc'[PlanJob] \in {"plan-mission!", "plan-enqueue", "job-failed"}
               /\ inHand' \in todo' /\ UNCHANGED <<job, todo>>
               /\ pc[PlanJob] \in PlanLoop
    BY <1>0, <2>5 DEF PlanMissionRead, PlanMissionWrite, WriteMission, Goto,
       Landing, Local, NoWrite, queue, PlanLoop, QueuedOnce
  <2>6. ASSUME NEW m \in Missions, PlanEnqueue(m)
        PROVE  /\ pc[PlanJob] \in PlanLoop
               /\ \/ pc'[PlanJob] = "job-failed"
                  \/ /\ pc'[PlanJob] = "plan-mission?"
                     /\ todo' = todo \ {m}
                     /\ \A n \in Missions \ {m} : job'[n] = job[n]
    BY <1>0, <2>6 DEF PlanEnqueue, Goto, PlanLoop
  <2>7. CASE \E m \in Missions : PlanRow(m)
    BY <2>4, <2>7 DEF QueuedOnce, Unqueued, PlanLoop, PlannerLabels
  <2>8. CASE \E m \in Missions : PlanMissionRead(m) \/ PlanMissionWrite(m)
    BY <2>5, <2>8 DEF QueuedOnce, Unqueued, PlanLoop, PlannerLabels
  <2>9. CASE \E m \in Missions : PlanEnqueue(m)
    BY <1>0, <2>6, <2>9 DEF QueuedOnce, Unqueued, PlanLoop, PlannerLabels
  <2> QED
    BY <2>1, <2>2, <2>3, <2>7, <2>8, <2>9 DEF Planner
<1> QED
  BY <1>1, <1>2, <1>3 DEF QueuedOnce, Unqueued

LEMMA NextQueuedOnce ==
  ASSUME MaxFaults["crash"] = 0, TypeInvariant, QueuedOnce, [Next]_vars
  PROVE  QueuedOnce'
<1>0. /\ PlanJob \in Jobs /\ PlanJob \notin Missions /\ pc \in [Jobs -> Labels]
      /\ job \in [Jobs -> {"none", "waiting", "active", "completed", "failed"}]
      /\ todo \subseteq Missions /\ Missions \subseteq Jobs
      /\ ~Fault("crash")
  BY MissionsAssumption, NoFaultOf DEF Jobs, TypeInvariant, ProcessorTypes,
     QueueTypes, FaultKinds
<1>1. CASE UNCHANGED vars
  BY <1>1 DEF vars, queue, processors, clients, QueuedOnce, Unqueued
<1>2. CASE Api
  <2>1. /\ UNCHANGED <<pc, todo, inHand>>
        /\ \A m \in Missions : job'[m] = job[m]
        /\ \/ UNCHANGED job /\ (api' \in BeforeEnqueue => api \in BeforeEnqueue)
           \/ /\ api = "enqueue" /\ api' \notin BeforeEnqueue
              /\ job' = [job EXCEPT ![PlanJob] = "waiting"]
    BY <1>0, <1>2 DEF Api, ApiRead, ApiWrite, ApiEnqueue, ApiUsage, ApiOnly,
       processors, queue, Landing, BeforeEnqueue
  <2>2. CASE UNCHANGED job
    BY <2>1, <2>2 DEF QueuedOnce, Unqueued, BeforeEnqueue
  <2>3. CASE ~UNCHANGED job
    <3>1. job[PlanJob] = "none" /\ pc[PlanJob] = "idle" /\ job'[PlanJob] = "waiting"
      BY <1>0, <2>1, <2>3 DEF QueuedOnce, BeforeEnqueue
    <3> QED
      BY <1>0, <2>1, <2>3, <3>1 DEF QueuedOnce, Unqueued, Jobs, PlannerLabels,
         PlanLoop
  <2> QED
    BY <2>2, <2>3
<1>3. CASE Planner
  BY <1>3, PlannerQueuesOnce
<1>4. CASE ApiCrash
  BY <1>0, <1>4 DEF ApiCrash
<1>5. CASE Crash
  BY <1>0, <1>5 DEF Crash
<1>6. CASE \E c \in Cancellers : CancelRead(c) \/ CancelTx(c)
  BY <1>6 DEF CancelRead, CancelTx, queue, processors, QueuedOnce, Unqueued
<1>7. ASSUME NEW j \in Jobs, JobStep(j) PROVE QueuedOnce'
  <2>1. CASE j = PlanJob
    <3>1. /\ \A m \in Missions : job'[m] = job[m] /\ pc'[m] = pc[m]
          /\ UNCHANGED <<api, todo, inHand>>
      BY <1>0, <1>7, <2>1 DEF JobStep, StartJob, JobDone, JobFailed, Goto,
         clients
    <3>2. CASE StartJob(j)
      BY <1>0, <2>1, <3>1, <3>2 DEF StartJob, QueuedOnce, Unqueued, Jobs,
         PlannerLabels, PlanLoop
    <3>3. CASE JobDone(j) \/ JobFailed(j)
      <4>1. job[PlanJob] = "active" /\ pc'[PlanJob] = "idle"
            /\ job'[PlanJob] \in {"completed", "failed"}
        BY <1>0, <2>1, <3>3 DEF JobDone, JobFailed, Goto, QueuedOnce, Attempts,
           TypeInvariant, QueueTypes
      <4> QED
        BY <1>0, <3>1, <4>1 DEF QueuedOnce, Unqueued, Jobs, PlannerLabels,
           PlanLoop
    <3> QED
      BY <1>7, <3>2, <3>3 DEF JobStep
  <2>2. CASE j \in Missions
    <3>1. /\ UNCHANGED <<api, todo, inHand>> /\ job'[PlanJob] = job[PlanJob]
          /\ pc'[PlanJob] = pc[PlanJob]
          /\ \A k \in Jobs \ {j} : job'[k] = job[k] /\ pc'[k] = pc[k]
          /\ job[j] # "none"
          /\ pc'[j] # "idle" => job'[j] = "active"
      BY <1>0, <1>7, <2>2 DEF JobStep, StartJob, JobDone, JobFailed, Goto,
         clients, QueuedOnce
    <3> QED
      BY <1>0, <2>2, <3>1 DEF QueuedOnce, Unqueued
  <2> QED
    BY <2>1, <2>2 DEF Jobs
<1>8. ASSUME NEW m \in Missions, MissionWorker(m) PROVE QueuedOnce'
  <2>1. WorkerFrame(m) /\ pc[m] # "idle"
    BY <1>8, WorkerKeepsFrame, WorkerIsBusy
  <2> QED
    BY <1>0, <2>1 DEF WorkerFrame, queue, clients, QueuedOnce, Unqueued
<1> QED
  BY <1>1, <1>2, <1>3, <1>4, <1>5, <1>6, <1>7, <1>8 DEF Next

-----------------------------------------------------------------------------
(***************************************************************************)
(* Who writes which row.                                                   *)
(***************************************************************************)

\* What the planner writes: rows that are absent, and what it read at
\* "plan-mission?" or "plan-queued?".
PlannerWrites ==
  /\ \/ UNCHANGED mission
     \/ \E m \in Missions :
          /\ pc[PlanJob] = "plan-rows" /\ mission[m] = Absent
          /\ mission' = [mission EXCEPT ![m] = "created"]
     \/ /\ inHand \in Missions
        /\ pc[PlanJob] = "plan-mission!"
        /\ mission' = [mission EXCEPT ![inHand] = "queued"]
  /\ \/ UNCHANGED audit
     \/ WritesAudit(PlanJob, "plan-unsafe!", "failed")
     \/ WritesAudit(PlanJob, "plan-queued!", "queued")
  /\ UNCHANGED mission \/ UNCHANGED audit

LEMMA PlannerWritesItsOwn ==
  ASSUME TypeInvariant, Planner
  PROVE  PlannerWrites
<1>1. CASE \/ PlanGuard \/ PlanCheck \/ PlanSnapshot \/ PlanRowsDone
           \/ PlanLoopDone
  BY <1>1 DEF PlanGuard, PlanCheck, PlanSnapshot, PlanRowsDone, PlanLoopDone,
     Local, NoWrite, auditRow, missionRows, PlannerWrites
<1>2. CASE PlanUnsafe \/ PlanQueued
  BY <1>2 DEF PlanUnsafe, PlanQueued, WriteAudit, Local, NoWrite, auditRow,
     missionRows, PlannerWrites, WritesAudit
<1>3. ASSUME NEW m \in Missions, PlanRow(m) PROVE PlannerWrites
  <2>1. CASE mission[m] = Absent
    BY <1>3, <2>1 DEF PlanRow, auditRow, PlannerWrites
  <2>2. CASE mission[m] # Absent
    <3>1. mission' = mission
      BY <1>3, <2>2 DEF PlanRow, TypeInvariant, MissionRowTypes
    <3> QED
      BY <1>3, <3>1 DEF PlanRow, auditRow, PlannerWrites
  <2> QED
    BY <2>1, <2>2
<1>4. ASSUME NEW m \in Missions, \/ PlanMissionRead(m) \/ PlanMissionWrite(m)
                                 \/ PlanEnqueue(m)
      PROVE  PlannerWrites
  BY <1>4 DEF PlanMissionRead, PlanMissionWrite, PlanEnqueue, WriteMission,
     Local, NoWrite, auditRow, missionRows, PlannerWrites
<1> QED
  BY <1>1, <1>2, <1>3, <1>4 DEF Planner

\* The web process, the queue and the worker's death leave the missions to
\* the others.
LEMMA OthersLeaveMissions ==
  ASSUME \/ Api \/ ApiCrash \/ Crash \/ UNCHANGED vars
         \/ \E j \in Jobs : JobStep(j)
         \/ \E c \in Cancellers : CancelRead(c)
  PROVE  UNCHANGED mission
BY DEF Api, ApiRead, ApiWrite, ApiEnqueue, ApiUsage, ApiOnly, ApiCrash, Crash,
   JobStep, StartJob, JobDone, JobFailed, CancelRead, missionRows, vars

\* They put no processor at a label where something is pending, and take no
\* job out of the queue.
LEMMA OthersLeaveProcessors ==
  ASSUME TypeInvariant, NEW m \in Missions,
         \/ Api \/ ApiCrash \/ Crash \/ UNCHANGED vars
         \/ \E j \in Jobs : JobStep(j)
         \/ \E c \in Cancellers : CancelRead(c) \/ CancelTx(c)
  PROVE  pc'[m] \in {pc[m], "idle", "check"}
<1>0. m \in Jobs /\ m # PlanJob /\ pc \in [Jobs -> Labels]
  BY MissionsAssumption DEF Jobs, TypeInvariant, ProcessorTypes
<1>1. CASE Api \/ ApiCrash \/ Crash \/ UNCHANGED vars
  BY <1>0, <1>1 DEF Api, ApiRead, ApiWrite, ApiEnqueue, ApiUsage, ApiOnly,
     ApiCrash, Crash, processors, vars
<1>2. CASE \E j \in Jobs : JobStep(j)
  BY <1>0, <1>2 DEF JobStep, StartJob, JobDone, JobFailed, Goto
<1>3. CASE \E c \in Cancellers : CancelRead(c) \/ CancelTx(c)
  BY <1>0, <1>3 DEF CancelRead, CancelTx, processors
<1> QED
  BY <1>1, <1>2, <1>3

-----------------------------------------------------------------------------
(***************************************************************************)
(* Completed missions are final.                                           *)
(***************************************************************************)

\* Nothing has run under a job that is not in the queue yet, and nobody is
\* about to write over a completed mission.
NotStarted ==
  \A m \in Missions :
    Unqueued(m) => mission[m] \in {Absent, "created", "queued", "cancelled"}

OverwritingLabels == {"start!", "fail!", "requeue!", "cancel!"}

CompletedIsSafe ==
  \A m \in Missions : pc[m] \in OverwritingLabels => mission[m] # "completed"

FinalInv == QueuedOnce /\ NotStarted /\ CompletedIsSafe

\* No step takes a mission out of completed.
KeepsCompleted ==
  \A m \in Missions : mission[m] = "completed" => mission'[m] = "completed"

LEMMA CompletedMayNotMove ==
  \A m \in Missions : mission[m] = "completed" =>
    \A status : ~MayMove(m, status)
BY DEF MayMove, missionTransitions

LEMMA WorkerKeepsFinal ==
  ASSUME TypeInvariant, FinalInv, NEW m \in Missions, MissionWorker(m)
  PROVE  NotStarted' /\ CompletedIsSafe' /\ KeepsCompleted
<1>0. /\ m \in Jobs /\ Missions \subseteq Jobs /\ pc \in [Jobs -> Labels]
      /\ mission \in [Missions -> MissionStatus \cup {Absent}]
      /\ mission' \in [Missions -> MissionStatus \cup {Absent}]
      /\ ~Unqueued(m) /\ UNCHANGED job
      /\ \A n \in Missions \ {m} : pc'[n] = pc[n]
  <2>1. TypeInvariant'
    BY NextTypes DEF Next
  <2>2. pc[m] # "idle" /\ WorkerFrame(m)
    BY WorkerIsBusy, WorkerKeepsFrame
  <2> QED
    BY <2>1, <2>2 DEF Jobs, TypeInvariant, ProcessorTypes, MissionRowTypes,
       FinalInv, QueuedOnce, Unqueued, WorkerFrame, queue
<1>1. /\ \A n \in Missions \ {m} :
           \/ mission'[n] = mission[n]
           \/ mission'[n] = "cancelled" /\ mission[n] # "completed"
      /\ mission[m] = "completed" => mission'[m] = "completed"
  <2>1. WorkerWrites(m)
    BY WorkerWritesItsOwn
  <2>2. CASE \/ UNCHANGED mission
             \/ WritesMission(m, "start!", "running")
             \/ WritesMission(m, "complete!", "completed")
             \/ WritesMission(m, "fail!", "failed")
             \/ WritesMission(m, "requeue!", "queued")
             \/ WritesMission(m, "cancel!", "cancelled")
    BY <1>0, <2>2 DEF WritesMission, FinalInv, CompletedIsSafe,
       OverwritingLabels
  <2>3. CASE CancelOpenMissions(m)
    BY <1>0, <2>3 DEF CancelOpenMissions
  <2> QED
    BY <2>1, <2>2, <2>3 DEF WorkerWrites
<1>2. pc'[m] \in OverwritingLabels => mission'[m] # "completed"
  BY WorkerReadsMission, CompletedMayNotMove DEF ReadsMission,
     OverwritingLabels
<1>3. CompletedIsSafe'
  BY <1>0, <1>1, <1>2 DEF CompletedIsSafe, FinalInv
<1>4. NotStarted'
  BY <1>0, <1>1 DEF NotStarted, FinalInv, Unqueued
<1> QED
  BY <1>1, <1>3, <1>4 DEF KeepsCompleted

LEMMA PlannerKeepsFinal ==
  ASSUME TypeInvariant, FinalInv, Planner
  PROVE  NotStarted' /\ CompletedIsSafe' /\ KeepsCompleted
<1>0. /\ mission \in [Missions -> MissionStatus \cup {Absent}]
      /\ todo \subseteq Missions
      /\ \A m \in Missions : pc'[m] = pc[m] /\ (Unqueued(m)' => Unqueued(m))
  BY PlannerKeepsFrame DEF TypeInvariant, MissionRowTypes, ProcessorTypes,
     Unqueued
<1>1. \A m \in Missions :
        \/ mission'[m] = mission[m]
        \/ mission[m] # "completed" /\ mission'[m] \in {"created", "queued"}
  <2>1. pc[PlanJob] = "plan-mission!" /\ inHand \in Missions => mission[inHand] # "completed"
    <3>1. "plan-mission!" \in PlanLoop
      BY DEF PlanLoop
    <3> QED
      BY <3>1 DEF FinalInv, QueuedOnce, NotStarted, Absent
  <2> QED
    BY <1>0, <2>1, PlannerWritesItsOwn DEF PlannerWrites, Absent
<1> QED
  BY <1>0, <1>1 DEF FinalInv, NotStarted, CompletedIsSafe, KeepsCompleted

LEMMA NextFinal ==
  ASSUME MaxFaults["crash"] = 0, TypeInvariant, FinalInv, [Next]_vars
  PROVE  FinalInv' /\ KeepsCompleted
<1>1. QueuedOnce'
  BY NextQueuedOnce DEF FinalInv
<1>2. CASE \E m \in Missions : MissionWorker(m)
  BY <1>1, <1>2, WorkerKeepsFinal DEF FinalInv
<1>3. CASE Planner
  BY <1>1, <1>3, PlannerKeepsFinal DEF FinalInv
<1>4. CASE \/ Api \/ ApiCrash \/ Crash \/ UNCHANGED vars
           \/ \E j \in Jobs : JobStep(j)
           \/ \E c \in Cancellers : CancelRead(c) \/ CancelTx(c)
  <2>1. \A m \in Missions : pc'[m] \in OverwritingLabels => pc'[m] = pc[m]
    BY <1>4, OthersLeaveProcessors DEF OverwritingLabels
  <2>2. \A m \in Missions :
          \/ mission'[m] = mission[m]
          \/ mission[m] # "completed" /\ mission'[m] = "cancelled"
    <3>1. CASE \E c \in Cancellers : CancelTx(c)
      BY <3>1 DEF CancelTx
    <3>2. CASE ~\E c \in Cancellers : CancelTx(c)
      BY <1>4, <3>2, OthersLeaveMissions
    <3> QED
      BY <3>1, <3>2
  <2>3. \A m \in Missions : Unqueued(m)' => Unqueued(m)
    <3>1. job \in [Jobs -> {"none", "waiting", "active", "completed", "failed"}]
          /\ \A m \in Missions : m \in Jobs /\ m # PlanJob
      BY MissionsAssumption DEF TypeInvariant, QueueTypes, Jobs
    <3>2. CASE \E j \in Jobs : JobStep(j)
      <4>1. PICK j \in Jobs : JobStep(j)
        BY <3>2
      <4>2. \E state \in {"waiting", "active", "completed", "failed"} :
              job' = [job EXCEPT ![j] = state]
        BY <4>1 DEF JobStep, StartJob, JobDone, JobFailed
      <4> QED
        BY <3>1, <4>2 DEF Unqueued
    <3>3. CASE ~\E j \in Jobs : JobStep(j)
      BY <1>4, <3>1, <3>3 DEF Api, ApiRead, ApiWrite, ApiEnqueue, ApiUsage,
         ApiCrash, Crash, CancelRead, CancelTx, queue, vars, Unqueued
    <3> QED
      BY <3>2, <3>3
  <2> QED
    BY <1>1, <2>1, <2>2, <2>3 DEF FinalInv, NotStarted, CompletedIsSafe,
       KeepsCompleted
<1> QED
  BY <1>2, <1>3, <1>4 DEF Next

\* As long as no worker dies: no retry, no stale write, no cancellation and
\* no planner takes a mission out of completed, however many jobs run at a
\* time and whatever is refused.
THEOREM CompletedMissionsAreFinal ==
  ASSUME MaxFaults["crash"] = 0
  PROVE  Spec => CompletedMissionIsFinal
<1>1. Init => FinalInv
  BY MissionsAssumption DEF Init, FinalInv, QueuedOnce, NotStarted,
     CompletedIsSafe, OverwritingLabels, Unqueued, Jobs, Absent, PlannerLabels,
     PlanLoop, BeforeEnqueue
<1>2. TypeInvariant /\ FinalInv /\ [Next]_vars => FinalInv'
  BY NextFinal
<1>3. TypeInvariant /\ FinalInv /\ [Next]_vars => [KeepsCompleted]_vars
  BY NextFinal
<1>4. [KeepsCompleted]_vars
      <=> [\A m \in Missions :
             mission[m] = "completed" => mission'[m] = "completed"]_vars
  BY DEF KeepsCompleted
<1> QED
  BY <1>1, <1>2, <1>3, <1>4, TypeCorrect, PTL DEF Spec, CompletedMissionIsFinal

-----------------------------------------------------------------------------
(***************************************************************************)
(* Every row is there, and queued, before a mission's job is; this         *)
(* survives crashes, after which the planner only adds what is missing.    *)
(***************************************************************************)

AfterRows == {"plan-check-again", "plan-queued?", "plan-queued!"} \cup PlanLoop

Busy ==
  /\ api \in BeforeEnqueue => job[PlanJob] = "none"
  /\ \A j \in Jobs : pc[j] # "idle" => job[j] = "active"

RowsPlanned ==
  /\ \/ pc[PlanJob] \in AfterRows
     \/ \E m \in Missions : ~Unqueued(m)
     => \A m \in Missions : mission[m] # Absent
  /\ pc[PlanJob] = "plan-rows" =>
       \A m \in Missions \ todo : mission[m] # Absent
  /\ pc[PlanJob] = "plan-enqueue" =>
       inHand \in Missions /\ mission[inHand] # "created"
  /\ \A m \in Missions : ~Unqueued(m) => mission[m] # "created"

RowsInv == Busy /\ RowsPlanned

\* Rows do not go away, and only an absent row becomes a created one.
RowsStay ==
  \A m \in Missions :
    /\ mission'[m] = Absent => mission[m] = Absent
    /\ mission'[m] = "created" => mission[m] \in {Absent, "created"}

LEMMA NextBusy ==
  ASSUME TypeInvariant, Busy, [Next]_vars
  PROVE  Busy'
<1>0. /\ pc \in [Jobs -> Labels] /\ pc' \in [Jobs -> Labels]
      /\ job \in [Jobs -> {"none", "waiting", "active", "completed", "failed"}]
      /\ PlanJob \in Jobs /\ Missions \subseteq Jobs /\ Jobs = Missions \cup {PlanJob}
      /\ PlanJob \notin Missions
  BY MissionsAssumption, NextTypes DEF TypeInvariant, ProcessorTypes,
     QueueTypes, Jobs
<1>1. CASE \E m \in Missions : MissionWorker(m)
  <2>1. PICK m \in Missions : MissionWorker(m)
    BY <1>1
  <2>2. WorkerFrame(m) /\ pc[m] # "idle"
    BY <2>1, WorkerKeepsFrame, WorkerIsBusy
  <2> QED
    BY <1>0, <2>2 DEF WorkerFrame, queue, clients, Busy
<1>2. CASE Planner
  BY <1>0, <1>2, PlannerKeepsFrame DEF Busy, clients
<1>3. CASE \E j \in Jobs : JobStep(j)
  <2>1. PICK j \in Jobs : JobStep(j)
    BY <1>3
  <2>2. CASE StartJob(j)
    BY <1>0, <2>2 DEF StartJob, Busy, clients
  <2>3. CASE JobDone(j) \/ JobFailed(j)
    BY <1>0, <2>3 DEF JobDone, JobFailed, Goto, Busy, clients
  <2> QED
    BY <2>1, <2>2, <2>3 DEF JobStep
<1>4. CASE Api
  <2>1. /\ UNCHANGED pc
        /\ \/ UNCHANGED job /\ (api' \in BeforeEnqueue => api \in BeforeEnqueue)
           \/ /\ api = "enqueue" /\ api' \notin BeforeEnqueue
              /\ job' = [job EXCEPT ![PlanJob] = "waiting"]
    BY <1>4 DEF Api, ApiRead, ApiWrite, ApiEnqueue, ApiUsage, ApiOnly,
       processors, queue, Landing, BeforeEnqueue
  <2> QED
    BY <1>0, <2>1 DEF Busy, BeforeEnqueue
<1>5. CASE ApiCrash \/ UNCHANGED vars
  BY <1>5 DEF ApiCrash, processors, queue, clients, vars, Busy, BeforeEnqueue
<1>6. CASE Crash
  BY <1>0, <1>6 DEF Crash, clients, Busy
<1>7. CASE \E c \in Cancellers : CancelRead(c) \/ CancelTx(c)
  BY <1>7 DEF CancelRead, CancelTx, processors, queue, Busy
<1> QED
  BY <1>1, <1>2, <1>3, <1>4, <1>5, <1>6, <1>7 DEF Next

LEMMA NextRowsStay ==
  ASSUME TypeInvariant, [Next]_vars
  PROVE  RowsStay
<1>0. mission \in [Missions -> MissionStatus \cup {Absent}]
  BY DEF TypeInvariant, MissionRowTypes
<1>1. CASE \E m \in Missions : MissionWorker(m)
  <2>1. PICK m \in Missions : MissionWorker(m)
    BY <1>1
  <2>2. CASE CancelOpenMissions(m)
    BY <1>0, <2>2 DEF CancelOpenMissions, RowsStay, Absent
  <2>3. CASE ~CancelOpenMissions(m)
    BY <1>0, <2>1, <2>3, WorkerWritesItsOwn DEF WorkerWrites, WritesMission,
       RowsStay, Absent
  <2> QED
    BY <2>2, <2>3
<1>2. CASE Planner
  BY <1>0, <1>2, PlannerWritesItsOwn DEF PlannerWrites, RowsStay, Absent
<1>3. CASE \E c \in Cancellers : CancelTx(c)
  BY <1>3 DEF CancelTx, RowsStay, Absent
<1>4. CASE \/ Api \/ ApiCrash \/ Crash \/ UNCHANGED vars
           \/ \E j \in Jobs : JobStep(j)
           \/ \E c \in Cancellers : CancelRead(c)
  BY <1>4, OthersLeaveMissions DEF RowsStay
<1> QED
  BY <1>1, <1>2, <1>3, <1>4 DEF Next

LEMMA PlannerKeepsRows ==
  ASSUME TypeInvariant, RowsInv, Planner
  PROVE  RowsPlanned'
<1>0. /\ mission \in [Missions -> MissionStatus \cup {Absent}]
      /\ pc \in [Jobs -> Labels] /\ PlanJob \in Jobs /\ PlanJob \notin Missions
      /\ todo \subseteq Missions
      /\ job \in [Jobs -> {"none", "waiting", "active", "completed", "failed"}]
      /\ Missions \subseteq Jobs
  BY MissionsAssumption DEF TypeInvariant, MissionRowTypes, ProcessorTypes,
     QueueTypes, Jobs
<1>1. RowsStay
  BY NextRowsStay DEF Next
<1>2. CASE PlanGuard \/ PlanCheck \/ PlanUnsafe \/ PlanRowsDone \/ PlanLoopDone
  <2>1. UNCHANGED <<mission, job, todo, inHand>>
    BY <1>2 DEF PlanGuard, PlanCheck, PlanUnsafe, PlanRowsDone, PlanLoopDone,
       WriteAudit, Goto, Local, NoWrite, queue, missionRows
  <2>2. /\ pc'[PlanJob] \notin {"plan-rows", "plan-enqueue"}
        /\ pc'[PlanJob] \in AfterRows =>
             \/ pc[PlanJob] \in AfterRows
             \/ pc[PlanJob] = "plan-rows" /\ todo = {}
    BY <1>0, <1>2 DEF PlanGuard, PlanCheck, PlanUnsafe, PlanRowsDone,
       PlanLoopDone, WriteAudit, Goto, Landing, AfterRows, PlanLoop
  <2> QED
    BY <2>1, <2>2 DEF RowsInv, RowsPlanned, Unqueued
<1>3. CASE PlanSnapshot
  <2>1. /\ UNCHANGED <<mission, job, inHand>>
        /\ \/ pc'[PlanJob] = "plan-rows" /\ todo' = Missions
           \/ pc'[PlanJob] = "plan-unsafe?"
    BY <1>0, <1>3 DEF PlanSnapshot, Goto, NoWrite, queue, missionRows
  <2> QED
    BY <2>1 DEF RowsInv, RowsPlanned, Unqueued, AfterRows, PlanLoop
<1>4. CASE PlanQueued
  <2>1. /\ UNCHANGED <<mission, job, inHand>>
        /\ pc'[PlanJob] \in {"plan-queued!", "plan-mission?", "job-failed"}
        /\ pc[PlanJob] \in AfterRows
    BY <1>0, <1>4 DEF PlanQueued, WriteAudit, Goto, Landing, Local, NoWrite,
       queue, missionRows, AfterRows
  <2> QED
    BY <2>1 DEF RowsInv, RowsPlanned, Unqueued
<1>5. ASSUME NEW m \in Missions, PlanRow(m) PROVE RowsPlanned'
  <2>1. /\ UNCHANGED <<job, inHand, pc>> /\ todo' = todo \ {m}
        /\ pc[PlanJob] = "plan-rows" /\ mission'[m] # Absent
        /\ \A n \in Missions \ {m} : mission'[n] = mission[n]
        /\ mission[m] # Absent => mission'[m] = mission[m]
    BY <1>0, <1>5 DEF PlanRow, queue, Absent
  <2>2. pc'[PlanJob] \notin AfterRows /\ pc'[PlanJob] # "plan-enqueue"
    BY <2>1 DEF AfterRows, PlanLoop
  <2> QED
    BY <1>0, <1>1, <2>1, <2>2 DEF RowsInv, RowsPlanned, Unqueued, RowsStay
<1>6. ASSUME NEW m \in Missions, PlanMissionRead(m) PROVE RowsPlanned'
  <2>1. /\ UNCHANGED <<job, todo, mission>> /\ inHand' = m
        /\ pc[PlanJob] \in AfterRows /\ pc'[PlanJob] # "plan-rows"
        /\ pc'[PlanJob] = "plan-enqueue" => mission[m] = "queued"
    BY <1>0, <1>6 DEF PlanMissionRead, Landing, Local, NoWrite, queue,
       missionRows, AfterRows, PlanLoop
  <2> QED
    BY <2>1 DEF RowsInv, RowsPlanned, Unqueued
<1>7. ASSUME NEW m \in Missions, PlanMissionWrite(m) PROVE RowsPlanned'
  <2>1. /\ UNCHANGED <<job, todo, inHand>> /\ inHand = m
        /\ pc[PlanJob] \in AfterRows /\ pc'[PlanJob] = "plan-enqueue"
        /\ mission' = [mission EXCEPT ![m] = "queued"]
    BY <1>0, <1>7 DEF PlanMissionWrite, WriteMission, Goto, queue, AfterRows,
       PlanLoop
  <2> QED
    BY <1>0, <2>1 DEF RowsInv, RowsPlanned, Unqueued, Absent
<1>8. ASSUME NEW m \in Missions, PlanEnqueue(m) PROVE RowsPlanned'
  <2>1. /\ UNCHANGED <<mission, inHand>> /\ inHand = m
        /\ pc[PlanJob] = "plan-enqueue" /\ pc[PlanJob] \in AfterRows
        /\ pc'[PlanJob] \in {"plan-mission?", "job-failed"}
        /\ \A n \in Missions \ {m} : job'[n] = job[n]
    BY <1>0, <1>8 DEF PlanEnqueue, Goto, missionRows, AfterRows, PlanLoop
  <2> QED
    BY <2>1 DEF RowsInv, RowsPlanned, Unqueued
<1> QED
  BY <1>2, <1>3, <1>4, <1>5, <1>6, <1>7, <1>8 DEF Planner

\* Nobody but the planner moves the planner into its loops, or puts a
\* mission's job in the queue.
LEMMA OthersLeavePlanner ==
  ASSUME TypeInvariant, Busy, [Next]_vars, ~Planner
  PROVE  /\ pc'[PlanJob] \in {pc[PlanJob], "idle", "plan-guard"}
         /\ UNCHANGED <<todo, inHand>>
         /\ \A m \in Missions : ~Unqueued(m)' => ~Unqueued(m)
<1>0. /\ pc \in [Jobs -> Labels] /\ PlanJob \in Jobs /\ PlanJob \notin Missions
      /\ job \in [Jobs -> {"none", "waiting", "active", "completed", "failed"}]
      /\ Missions \subseteq Jobs
  BY MissionsAssumption DEF TypeInvariant, ProcessorTypes, QueueTypes, Jobs
<1>1. CASE \E m \in Missions : MissionWorker(m)
  BY <1>0, <1>1, WorkerKeepsFrame DEF WorkerFrame, queue, Unqueued
<1>2. CASE \E j \in Jobs : JobStep(j)
  <2>1. PICK j \in Jobs : JobStep(j)
    BY <1>2
  <2>2. job[j] # "none"
    BY <2>1 DEF JobStep, StartJob, JobDone, JobFailed, Busy
  <2>3. /\ UNCHANGED <<todo, inHand>>
        /\ \E next \in {"idle", IF j = PlanJob THEN "plan-guard" ELSE "check"} :
             pc' = [pc EXCEPT ![j] = next]
        /\ \A k \in Jobs \ {j} : job'[k] = job[k]
    BY <1>0, <2>1 DEF JobStep, StartJob, JobDone, JobFailed, Goto
  <2> QED
    BY <1>0, <2>2, <2>3 DEF Unqueued
<1>3. CASE Api \/ ApiCrash \/ UNCHANGED vars
  BY <1>0, <1>3 DEF Api, ApiRead, ApiWrite, ApiEnqueue, ApiUsage, ApiOnly,
     ApiCrash, processors, queue, vars, Unqueued
<1>4. CASE Crash
  BY <1>0, <1>4 DEF Crash, Unqueued
<1>5. CASE \E c \in Cancellers : CancelRead(c) \/ CancelTx(c)
  BY <1>5 DEF CancelRead, CancelTx, processors, queue, Unqueued
<1> QED
  BY <1>1, <1>2, <1>3, <1>4, <1>5 DEF Next

LEMMA NextRows ==
  ASSUME TypeInvariant, RowsInv, [Next]_vars
  PROVE  RowsInv'
<1>1. CASE Planner
  BY <1>1, NextBusy, PlannerKeepsRows DEF RowsInv
<1>2. CASE ~Planner
  <2>1. RowsStay
    BY NextRowsStay
  <2>2. /\ pc'[PlanJob] \in {pc[PlanJob], "idle", "plan-guard"}
        /\ UNCHANGED <<todo, inHand>>
        /\ \A m \in Missions : ~Unqueued(m)' => ~Unqueued(m)
    BY <1>2, OthersLeavePlanner DEF RowsInv
  <2>3. pc'[PlanJob] \in AfterRows => pc[PlanJob] \in AfterRows
    BY <2>2 DEF AfterRows, PlanLoop
  <2>4. pc[PlanJob] = "plan-enqueue" => mission[inHand] # Absent
    BY DEF RowsInv, RowsPlanned, AfterRows, PlanLoop
  <2> QED
    BY <2>1, <2>2, <2>3, <2>4, NextBusy DEF RowsInv, RowsPlanned, RowsStay
<1> QED
  BY <1>1, <1>2

LEMMA InitRows == Init => RowsInv
BY MissionsAssumption DEF Init, RowsInv, RowsPlanned, Busy, BeforeEnqueue,
   AfterRows, PlanLoop, Unqueued, Jobs

-----------------------------------------------------------------------------
(***************************************************************************)
(* A completed audit is sound.  The finalizer decides on one read and      *)
(* writes completed several statements later; in between nobody can move a *)
(* mission, because every mission is terminal, whoever is about to write   *)
(* one has read a status that is not, and only required missions, which    *)
(* have passed, are ever retried.                                          *)
(***************************************************************************)

\* The processor of m knows the status it is about to write over, and only
\* the processor of a required mission is on its way to a retry.
Informed(m) ==
  /\ pc[m] = "start!" => mission[m] = "queued"
  /\ pc[m] \in {"complete!", "fail!"} => mission[m] = "running"
  /\ pc[m] = "requeue!" => mission[m] = "failed"
  /\ pc[m] \in {"requeue?", "requeue!"} => route[m] = "retry"
  /\ route[m] = "retry" => m \in Required

Passed ==
  /\ \A m \in Required : mission[m] = "completed"
  /\ \A m \in Missions : mission[m] \in TerminalMission

CompletionDecided ==
  \/ audit \in {"analyzing", "generating_report", "completed"}
  \/ \E m \in Missions : pc[m] \in CompletionLabels

DecisionInv ==
  /\ \A m \in Missions : Informed(m) /\ mission[m] # "skipped"
  /\ CompletionDecided => Passed

\* The planner about to queue a mission that has no processor and, once
\* completion is decided, one that is not terminal.
PlannerCare ==
  pc[PlanJob] = "plan-mission!" =>
    /\ inHand \in Missions /\ pc[inHand] = "idle"
    /\ CompletionDecided => mission[inHand] \notin TerminalMission

LEMMA MoveOnlyFrom ==
  ASSUME NEW m \in Missions, mission[m] \in MissionStatus
  PROVE  /\ MayMove(m, "running") => mission[m] = "queued"
         /\ MayMove(m, "completed") => mission[m] = "running"
         /\ MayMove(m, "failed") => mission[m] = "running"
         /\ MayMove(m, "queued") => mission[m] \in {"created", "failed"}
BY DEF MayMove, missionTransitions, MissionStatus

\* A mission that has attempts left is required.
LEMMA RetriedIsRequired ==
  ASSUME TypeInvariant, NEW m \in Missions, ~LastAttempt(m)
  PROVE  m \in Required
<1>1. attemptsMade[m] \in Nat /\ MaxAttempts[m] \in Nat
  BY MissionsAssumption DEF TypeInvariant, QueueTypes, Jobs
<1>2. MaxAttempts[m] # 1
  BY <1>1 DEF LastAttempt
<1> QED
  BY <1>2, OptionalMissionsRunOnce

\* Once all missions passed, no processor has a mission to write.
LEMMA PassedIsLeftAlone ==
  ASSUME TypeInvariant, NothingCancelled, DecisionInv, Passed,
         NEW m \in Missions, MissionWorker(m)
  PROVE  UNCHANGED mission
<1>1. pc[m] \notin {"start!", "complete!", "fail!", "requeue!"}
  BY DEF DecisionInv, Informed, Passed, TerminalMission
<1>2. pc[m] \notin {"cancel!", "cancel-missions!"}
  BY DEF NothingCancelled, CancelPath
<1> QED
  BY <1>1, <1>2, WorkerWritesItsOwn DEF WorkerWrites, WritesMission

\* Where the finalizer finds all rows terminal and no failure, all missions
\* have rows and the required ones passed.
LEMMA DecidedOnPassed ==
  ASSUME TypeInvariant, RowsInv, NothingCancelled, DecisionInv,
         NEW m \in Missions, pc[m] # "idle", AllTerminal, ~FailureDecided
  PROVE  Passed
<1>1. \A n \in Missions : mission[n] # Absent
  BY DEF RowsInv, Busy, RowsPlanned, Unqueued, Jobs
<1>2. \A n \in Missions : mission[n] \in TerminalMission
  BY <1>1 DEF AllTerminal, Rows
<1>3. \A n \in Required : mission[n] = "completed"
  BY <1>1, <1>2, MissionsAssumption DEF FailureDecided, Rows, TerminalMission,
     DecisionInv, NothingCancelled
<1> QED
  BY <1>2, <1>3 DEF Passed

LEMMA WorkerKeepsDecision ==
  ASSUME TypeInvariant, RowsInv, NothingCancelled, DecisionInv,
         NEW m \in Missions, MissionWorker(m)
  PROVE  DecisionInv'
<1>0. /\ m \in Jobs /\ Missions \subseteq Jobs /\ pc \in [Jobs -> Labels]
      /\ route \in [Jobs -> {"main", "cancel", "retry", "last"}]
      /\ mission \in [Missions -> MissionStatus \cup {Absent}]
      /\ pc[m] # "idle" /\ WorkerFrame(m) /\ WorkerWrites(m)
  BY WorkerIsBusy, WorkerKeepsFrame, WorkerWritesItsOwn
     DEF Jobs, TypeInvariant, ProcessorTypes, MissionRowTypes
<1>1. mission[m] \in MissionStatus /\ mission[m] # "created"
  BY <1>0 DEF RowsInv, Busy, RowsPlanned, Unqueued
<1>2. ~CancelOpenMissions(m) /\ pc[m] # "cancel!"
  BY DEF CancelOpenMissions, NothingCancelled, CancelPath
<1>3. \A n \in Missions \ {m} :
        pc'[n] = pc[n] /\ route'[n] = route[n] /\ mission'[n] = mission[n]
  BY <1>0, <1>2 DEF WorkerFrame, WorkerWrites, WritesMission
<1>4. Informed(m)'
  <2>1. ReadsMission(m) /\ TakesRetry(m)
    BY WorkerReadsMission, WorkerReadsAudit
  <2>2. /\ pc'[m] = "start!" => mission'[m] = "queued"
        /\ pc'[m] \in {"complete!", "fail!"} => mission'[m] = "running"
        /\ pc'[m] = "requeue!" => mission'[m] = "failed"
    BY <1>1, <2>1, MoveOnlyFrom DEF ReadsMission
  <2>3. /\ pc'[m] \in {"requeue?", "requeue!"} => route'[m] = "retry"
        /\ route'[m] = "retry" => m \in Required
    BY <2>1, RetriedIsRequired DEF TakesRetry, DecisionInv, Informed
  <2> QED
    BY <2>2, <2>3 DEF Informed
<1>5. mission'[m] # "skipped"
  BY <1>0, <1>2 DEF WorkerWrites, WritesMission, DecisionInv
<1>6. CompletionDecided' => Passed'
  <2>1. CASE CompletionDecided
    <3>1. Passed /\ UNCHANGED mission
      BY <2>1, PassedIsLeftAlone DEF DecisionInv
    <3> QED
      BY <3>1 DEF Passed
  <2>2. CASE ~CompletionDecided /\ CompletionDecided'
    <3>1. pc'[m] \in CompletionLabels
      BY <1>0, <1>3, <2>2 DEF CompletionDecided, WorkerWrites, WritesAudit,
         CompletionLabels
    <3>2. UNCHANGED mission /\ AllTerminal /\ ~FailureDecided
      BY <2>2, <3>1, WorkerReadsAudit DEF Decides, CompletionDecided
    <3>3. Passed
      BY <1>0, <3>2, DecidedOnPassed
    <3> QED
      BY <3>2, <3>3 DEF Passed
  <2> QED
    BY <2>1, <2>2
<1> QED
  BY <1>3, <1>4, <1>5, <1>6 DEF DecisionInv, Informed

LEMMA PlannerKeepsDecision ==
  ASSUME TypeInvariant, PlannerCare, DecisionInv, Planner
  PROVE  DecisionInv'
<1>0. /\ mission \in [Missions -> MissionStatus \cup {Absent}]
      /\ UNCHANGED route /\ \A m \in Missions : pc'[m] = pc[m]
      /\ PlannerWrites
  BY PlannerKeepsFrame, PlannerWritesItsOwn DEF TypeInvariant, MissionRowTypes
<1>1. \A m \in Missions :
        \/ mission'[m] = mission[m]
        \/ mission[m] = Absent /\ mission'[m] = "created"
        \/ pc[m] = "idle" /\ mission'[m] = "queued"
  BY <1>0 DEF PlannerWrites, PlannerCare
<1>2. \A m \in Missions : Informed(m)' /\ mission'[m] # "skipped"
  BY <1>0, <1>1 DEF DecisionInv, Informed, Absent
<1>3. CompletionDecided' => CompletionDecided
  BY <1>0 DEF CompletionDecided, PlannerWrites, WritesAudit
<1>4. CompletionDecided => UNCHANGED mission
  BY <1>0 DEF PlannerWrites, PlannerCare, DecisionInv, Passed,
     TerminalMission, Absent
<1> QED
  BY <1>2, <1>3, <1>4 DEF DecisionInv, Passed

\* Everybody else leaves a processor where it is or takes it off its work.
LEMMA OthersStopProcessors ==
  ASSUME TypeInvariant, NEW m \in Missions,
         \/ Api \/ ApiCrash \/ Crash \/ UNCHANGED vars
         \/ \E j \in Jobs : JobStep(j)
         \/ \E c \in Cancellers : CancelRead(c) \/ CancelTx(c)
  PROVE  \/ pc'[m] = pc[m] /\ route'[m] = route[m]
         \/ pc'[m] \in {"idle", "check"} /\ route'[m] \in {route[m], "main"}
<1>0. /\ m \in Jobs /\ m # PlanJob /\ pc \in [Jobs -> Labels]
      /\ route \in [Jobs -> {"main", "cancel", "retry", "last"}]
  BY MissionsAssumption DEF Jobs, TypeInvariant, ProcessorTypes
<1>1. CASE Api \/ ApiCrash \/ Crash \/ UNCHANGED vars
  BY <1>0, <1>1 DEF Api, ApiRead, ApiWrite, ApiEnqueue, ApiUsage, ApiOnly,
     ApiCrash, Crash, processors, vars
<1>2. CASE \E j \in Jobs : JobStep(j)
  BY <1>0, <1>2 DEF JobStep, StartJob, JobDone, JobFailed, Goto
<1>3. CASE \E c \in Cancellers : CancelRead(c) \/ CancelTx(c)
  BY <1>0, <1>3 DEF CancelRead, CancelTx, processors
<1> QED
  BY <1>1, <1>2, <1>3

LEMMA NextDecision ==
  ASSUME TypeInvariant, RowsInv, NothingCancelled, PlannerCare, DecisionInv,
         [Next]_vars, ~cancelRequested'
  PROVE  DecisionInv'
<1>1. CASE \E m \in Missions : MissionWorker(m)
  BY <1>1, WorkerKeepsDecision
<1>2. CASE Planner
  BY <1>2, PlannerKeepsDecision
<1>3. CASE \/ Api \/ ApiCrash \/ Crash \/ UNCHANGED vars
           \/ \E j \in Jobs : JobStep(j)
           \/ \E c \in Cancellers : CancelRead(c)
  <2>1. UNCHANGED mission
    BY <1>3, OthersLeaveMissions
  <2>2. \A m \in Missions :
          \/ pc'[m] = pc[m] /\ route'[m] = route[m]
          \/ pc'[m] \in {"idle", "check"} /\ route'[m] \in {route[m], "main"}
    BY <1>3, OthersStopProcessors
  <2>3. audit' \in {audit, "validating", "planning", "failed"}
    BY <1>3 DEF Api, ApiRead, ApiWrite, ApiEnqueue, ApiUsage, ApiCrash, Crash,
       JobStep, StartJob, JobDone, JobFailed, CancelRead, auditRow, vars
  <2>4. CompletionDecided' => CompletionDecided
    BY <2>2, <2>3 DEF CompletionDecided, CompletionLabels
  <2> QED
    BY <2>1, <2>2, <2>4 DEF DecisionInv, Informed, Passed
<1>4. CASE \E c \in Cancellers : CancelTx(c)
  BY <1>4 DEF CancelTx
<1> QED
  BY <1>1, <1>2, <1>3, <1>4 DEF Next

LEMMA InitDecision == Init => DecisionInv
BY MissionsAssumption DEF Init, DecisionInv, Informed, Passed,
   CompletionDecided, CompletionLabels, Jobs, Absent

\* The planner's own mission has not started, so it is not terminal.
LEMMA PlannerIsCareful ==
  ASSUME TypeInvariant, FinalInv, NothingCancelled
  PROVE  PlannerCare
<1>1. SUFFICES ASSUME pc[PlanJob] = "plan-mission!"
               PROVE  /\ inHand \in Missions /\ pc[inHand] = "idle"
                      /\ mission[inHand] \notin TerminalMission
  BY DEF PlannerCare
<1>2. inHand \in Missions /\ Unqueued(inHand)
  BY <1>1 DEF FinalInv, QueuedOnce, PlanLoop, TypeInvariant, ProcessorTypes
<1>3. pc[inHand] = "idle"
  BY <1>2 DEF FinalInv, QueuedOnce, Unqueued, Jobs
<1>4. mission[inHand] \in {Absent, "created", "queued"}
  BY <1>2 DEF FinalInv, NotStarted, NothingCancelled
<1> QED
  BY <1>2, <1>3, <1>4 DEF TerminalMission, Absent

\* As long as no worker dies and nobody has asked to cancel, whatever is
\* refused or answers late and however many jobs run at a time: a completed
\* audit passed all its required missions and left none open.
THEOREM CompletedAuditsAreSound ==
  ASSUME MaxFaults["crash"] = 0
  PROVE  Spec => [](cancelRequested \/ CompletedAuditIsSound)
<1> DEFINE Sound == cancelRequested \/ DecisionInv
<1>1. Init => FinalInv
  BY MissionsAssumption DEF Init, FinalInv, QueuedOnce, NotStarted,
     CompletedIsSafe, OverwritingLabels, Unqueued, Jobs, Absent, PlannerLabels,
     PlanLoop, BeforeEnqueue
<1>2. TypeInvariant /\ FinalInv /\ [Next]_vars => FinalInv'
  BY NextFinal
<1>3. TypeInvariant /\ RowsInv /\ [Next]_vars => RowsInv'
  BY NextRows
<1>4. Init => CancelOnRequest /\ RowsInv /\ Sound
  BY InitRows, InitDecision DEF CancelOnRequest, NothingCancelled, Init,
     Jobs, CancelPath, Absent
<1>5. TypeInvariant /\ CancelOnRequest /\ [Next]_vars => CancelOnRequest'
  BY NextCancelOnRequest
<1>6. /\ TypeInvariant /\ FinalInv /\ RowsInv /\ CancelOnRequest /\ Sound
      /\ [Next]_vars
      => Sound'
  <2> SUFFICES ASSUME TypeInvariant, FinalInv, RowsInv, CancelOnRequest, Sound,
                      [Next]_vars, ~cancelRequested'
               PROVE  DecisionInv'
    OBVIOUS
  <2>1. ~cancelRequested
    BY RequestStays
  <2>2. NothingCancelled /\ DecisionInv
    BY <2>1 DEF CancelOnRequest
  <2> QED
    BY <2>2, NextDecision, PlannerIsCareful
<1>7. Sound => cancelRequested \/ CompletedAuditIsSound
  BY DEF DecisionInv, CompletionDecided, Passed, CompletedAuditIsSound
<1> QED
  BY <1>1, <1>2, <1>3, <1>4, <1>5, <1>6, <1>7, TypeCorrect, PTL DEF Spec

-----------------------------------------------------------------------------
(***************************************************************************)
(* The processes implement AuditPromise when the worker runs one job at a  *)
(* time: whoever writes a status has the last read of it, because nobody   *)
(* who could have moved it was at work in between.                         *)
(***************************************************************************)

OneAtWork ==
  \A j, k \in Jobs : job[j] = "active" /\ job[k] = "active" => j = k

\* The handler is done with the audit once its planning job is queued.
ApiAhead ==
  /\ api \in BeforeEnqueue => \A j \in Jobs : job[j] = "none"
  /\ api \in {"validating?", "validating!"} => audit = "created"
  /\ api \in {"planning?", "planning!"} => audit = "validating"
  /\ api = "enqueue" => audit = "planning"
  /\ api \notin {"failed?", "failed!"}
  /\ audit \in {"created", "validating"} => \A j \in Jobs : job[j] = "none"

PlannerKnows ==
  /\ pc[PlanJob] \notin {"plan-unsafe?", "plan-unsafe!"}
  /\ pc[PlanJob] = "plan-queued!" => audit = "planning"
  /\ pc[PlanJob] \in PlanLoop => audit = "queued"
  /\ pc[PlanJob] = "plan-mission!" =>
       inHand \in Missions /\ mission[inHand] \in {"created", "failed"}

RowsEarly ==
  audit \notin {"created", "validating", "planning"} =>
    \A m \in Missions : mission[m] # Absent

WorkerKnows(m) ==
  /\ pc[m] = "running!" => audit = "queued"
  /\ pc[m] \in {"fail-audit?", "fail-audit!"} =>
       \A n \in Missions : mission[n] \in TerminalMission
  /\ pc[m] = "fail-audit!" => audit \notin TerminalAudit
  /\ pc[m] = "analyze!" => audit = "running"
  /\ pc[m] = "generate!" => audit = "analyzing"
  /\ pc[m] = "finish!" => audit \in {"analyzing", "generating_report"}

SerialInv ==
  /\ OneAtWork
  /\ ApiAhead
  /\ PlannerKnows
  /\ RowsEarly
  /\ \A m \in Missions : WorkerKnows(m)

\* Nobody has asked to cancel, and whatever else the lemmas rely on.
Uncancelled == ~cancelRequested /\ NothingCancelled

ServedInv == TypeInvariant /\ RowsInv /\ Uncancelled /\ DecisionInv /\ SerialInv

\* While one processor works no other does, and the handler is past the
\* audit's first statuses.
LEMMA AloneAtWork ==
  ASSUME RowsInv, SerialInv, NEW j \in Jobs, job[j] # "none"
  PROVE  /\ api \notin BeforeEnqueue \cup {"failed?", "failed!"}
         /\ audit \notin {"created", "validating"}
         /\ pc[j] # "idle" => \A k \in Jobs \ {j} : pc[k] = "idle"
<1>1. /\ api \notin BeforeEnqueue \cup {"failed?", "failed!"}
      /\ audit \notin {"created", "validating"}
  BY DEF SerialInv, ApiAhead
<1>2. ASSUME pc[j] # "idle", NEW k \in Jobs \ {j}, pc[k] # "idle"
      PROVE  FALSE
  BY <1>2 DEF RowsInv, Busy, SerialInv, OneAtWork
<1> QED
  BY <1>1, <1>2

LEMMA SerialPlannerIsCareful ==
  ASSUME RowsInv, SerialInv
  PROVE  PlannerCare
<1> SUFFICES ASSUME pc[PlanJob] = "plan-mission!"
             PROVE  /\ inHand \in Missions /\ pc[inHand] = "idle"
                    /\ ~CompletionDecided
  BY DEF PlannerCare
<1>1. PlanJob \in Jobs /\ Missions \subseteq Jobs \ {PlanJob}
  BY MissionsAssumption DEF Jobs
<1>2. \A m \in Missions : pc[m] = "idle"
  BY <1>1, AloneAtWork DEF RowsInv, Busy
<1>3. inHand \in Missions /\ audit = "queued"
  BY DEF SerialInv, PlannerKnows, PlanLoop
<1> QED
  BY <1>2, <1>3 DEF CompletionDecided, CompletionLabels

LEMMA NextOneAtWork ==
  ASSUME Concurrency = 1, TypeInvariant, OneAtWork, [Next]_vars
  PROVE  OneAtWork'
<1>0. /\ job \in [Jobs -> {"none", "waiting", "active", "completed", "failed"}]
      /\ PlanJob \in Jobs /\ PlanJob \notin Missions /\ Missions \subseteq Jobs
  BY MissionsAssumption DEF TypeInvariant, QueueTypes, Jobs
<1>1. CASE \E j \in Jobs : JobStep(j)
  <2>1. PICK j \in Jobs : JobStep(j)
    BY <1>1
  <2>2. CASE StartJob(j)
    <3> DEFINE Active == {k \in Jobs : job[k] = "active"}
    <3>1. IsFiniteSet(Jobs)
      BY MissionsAssumption, FS_AddElement DEF Jobs
    <3>2. IsFiniteSet(Active)
      BY <3>1, FS_Subset
    <3>3. Cardinality(Active) < 1
      BY <2>2 DEF StartJob
    <3>4. Cardinality(Active) = 0
      <4> HIDE DEF Active
      <4> QED
        BY <3>2, <3>3, FS_CardinalityType
    <3>5. Active = {}
      <4> HIDE DEF Active
      <4> QED
        BY <3>2, <3>4, FS_EmptySet
    <3>6. job' = [job EXCEPT ![j] = "active"]
      BY <2>2 DEF StartJob
    <3> QED
      BY <1>0, <3>5, <3>6 DEF OneAtWork
  <2>3. CASE JobDone(j) \/ JobFailed(j)
    BY <1>0, <2>3 DEF JobDone, JobFailed, OneAtWork
  <2> QED
    BY <2>1, <2>2, <2>3 DEF JobStep
<1>2. CASE Planner
  BY <1>0, <1>2, PlannerKeepsFrame DEF OneAtWork, Jobs
<1>3. CASE \E m \in Missions : MissionWorker(m)
  BY <1>3, WorkerKeepsFrame DEF WorkerFrame, queue, OneAtWork
<1>4. CASE Api
  BY <1>0, <1>4 DEF Api, ApiRead, ApiWrite, ApiEnqueue, ApiUsage, queue,
     OneAtWork
<1>5. CASE Crash
  BY <1>0, <1>5 DEF Crash, OneAtWork
<1>6. CASE ApiCrash \/ UNCHANGED vars
           \/ \E c \in Cancellers : CancelRead(c) \/ CancelTx(c)
  BY <1>6 DEF ApiCrash, CancelRead, CancelTx, queue, vars, OneAtWork
<1> QED
  BY <1>1, <1>2, <1>3, <1>4, <1>5, <1>6 DEF Next

LEMMA ApiKeepsSerial ==
  ASSUME MaxFaults["queue"] = 0, ServedInv, Api
  PROVE  ApiAhead' /\ PlannerKnows' /\ RowsEarly'
         /\ \A m \in Missions : WorkerKnows(m)'
<1>0. /\ ~Fault("queue")
      /\ pc \in [Jobs -> Labels] /\ PlanJob \in Jobs /\ Missions \subseteq Jobs
      /\ job \in [Jobs -> {"none", "waiting", "active", "completed", "failed"}]
  BY NoFaultOf DEF ServedInv, FaultKinds, TypeInvariant, ProcessorTypes,
     QueueTypes, Jobs
<1>1. /\ UNCHANGED <<mission, pc, todo, inHand>>
      /\ \/ /\ UNCHANGED <<audit, job>>
            /\ \/ api = "validating?" /\ api' = "validating!"
               \/ api = "planning?" /\ api' = "planning!"
               \/ api' = "done"
         \/ /\ api = "validating!" /\ api' = "planning?"
            /\ audit' = "validating" /\ UNCHANGED job
         \/ /\ api = "planning!" /\ api' = "enqueue"
            /\ audit' = "planning" /\ UNCHANGED job
         \/ /\ api = "enqueue" /\ api' = "usage-created!" /\ UNCHANGED audit
            /\ job' = [job EXCEPT ![PlanJob] = "waiting"]
  <2>1. CASE ApiRead
    BY <2>1 DEF ApiRead, ApiOnly, processors, missionRows, auditRow, queue,
       Landing, auditTransitions, ServedInv, SerialInv, ApiAhead
  <2>2. CASE ApiWrite \/ ApiUsage
    BY <2>2 DEF ApiWrite, ApiUsage, ApiOnly, processors, missionRows, auditRow,
       queue, ServedInv, SerialInv, ApiAhead
  <2>3. CASE ApiEnqueue
    BY <1>0, <2>3 DEF ApiEnqueue, ApiOnly, processors, missionRows, auditRow
  <2> QED
    BY <2>1, <2>2, <2>3 DEF Api
<1>2. api \in BeforeEnqueue => \A j \in Jobs : pc[j] = "idle" /\ job[j] = "none"
  BY DEF ServedInv, SerialInv, ApiAhead, RowsInv, Busy
<1>3. ApiAhead'
  BY <1>1, <1>2 DEF ApiAhead, ServedInv, SerialInv, BeforeEnqueue
<1>4. PlannerKnows' /\ RowsEarly' /\ \A m \in Missions : WorkerKnows(m)'
  <2>1. CASE UNCHANGED audit
    BY <1>1, <2>1 DEF ServedInv, SerialInv, PlannerKnows, RowsEarly, WorkerKnows
  <2>2. CASE api \in {"validating!", "planning!"}
             /\ audit' \in {"validating", "planning"}
    BY <1>0, <1>1, <1>2, <2>2 DEF PlannerKnows, RowsEarly, WorkerKnows,
       BeforeEnqueue, PlanLoop
  <2> QED
    BY <1>1, <2>1, <2>2
<1> QED
  BY <1>3, <1>4

LEMMA OthersKeepSerial ==
  ASSUME ServedInv,
         \/ ApiCrash \/ Crash \/ UNCHANGED vars \/ \E j \in Jobs : JobStep(j)
  PROVE  ApiAhead' /\ PlannerKnows' /\ RowsEarly'
         /\ \A m \in Missions : WorkerKnows(m)'
<1>0. /\ pc \in [Jobs -> Labels] /\ PlanJob \in Jobs /\ Missions \subseteq Jobs
      /\ job \in [Jobs -> {"none", "waiting", "active", "completed", "failed"}]
  BY DEF ServedInv, TypeInvariant, ProcessorTypes, QueueTypes, Jobs
<1>1. UNCHANGED <<audit, mission, inHand>>
      /\ api' \in {api, "done"}
      /\ \A j \in Jobs : pc'[j] \in {pc[j], "idle", "plan-guard", "check"}
  <2>1. CASE ApiCrash \/ UNCHANGED vars
    BY <2>1 DEF ApiCrash, vars, auditRow, missionRows, processors, clients
  <2>2. CASE Crash
    BY <2>2 DEF Crash, auditRow, missionRows, clients
  <2>3. CASE \E j \in Jobs : JobStep(j)
    BY <1>0, <2>3 DEF JobStep, StartJob, JobDone, JobFailed, Goto, auditRow,
       missionRows, clients
  <2> QED
    BY <2>1, <2>2, <2>3
<1>2. PlannerKnows' /\ RowsEarly' /\ \A m \in Missions : WorkerKnows(m)'
  BY <1>0, <1>1 DEF ServedInv, SerialInv, PlannerKnows, RowsEarly, WorkerKnows,
     PlanLoop
<1>3. (\A j \in Jobs : job[j] = "none") => \A j \in Jobs : job'[j] = "none"
  <2>1. CASE ApiCrash \/ Crash \/ UNCHANGED vars
    BY <1>0, <2>1 DEF ApiCrash, Crash, vars, queue
  <2>2. CASE \E j \in Jobs : JobStep(j)
    <3>1. PICK j \in Jobs : JobStep(j)
      BY <2>2
    <3>2. job[j] # "none"
      BY <3>1 DEF JobStep, StartJob, JobDone, JobFailed, ServedInv, RowsInv, Busy
    <3> QED
      BY <3>2
  <2> QED
    BY <2>1, <2>2
<1>4. ApiAhead'
  BY <1>1, <1>3 DEF ServedInv, SerialInv, ApiAhead, BeforeEnqueue
<1> QED
  BY <1>2, <1>4

LEMMA AuditMoveOnlyFrom ==
  ASSUME audit \in AuditStatus
  PROVE  /\ MayMoveAudit("queued") => audit \in {"validating", "planning"}
         /\ MayMoveAudit("running") => audit = "queued"
         /\ MayMoveAudit("analyzing") => audit = "running"
         /\ MayMoveAudit("generating_report") => audit = "analyzing"
         /\ MayMoveAudit("completed") => audit \in {"analyzing", "generating_report"}
         /\ MayMoveAudit("failed") <=> audit \notin TerminalAudit
BY DEF MayMoveAudit, auditTransitions, AuditStatus, TerminalAudit

LEMMA PlannerKeepsSerial ==
  ASSUME MaxFaults["refusal"] = 0, ServedInv, Planner
  PROVE  ApiAhead' /\ PlannerKnows' /\ RowsEarly'
         /\ \A m \in Missions : WorkerKnows(m)'
<1>0. /\ ~Fault("refusal")
      /\ pc \in [Jobs -> Labels] /\ PlanJob \in Jobs
      /\ Missions \subseteq Jobs \ {PlanJob}
      /\ mission \in [Missions -> MissionStatus \cup {Absent}]
      /\ audit \in AuditStatus
  BY MissionsAssumption, NoFaultOf DEF ServedInv, FaultKinds, TypeInvariant,
     ProcessorTypes, MissionRowTypes, AuditRowTypes, Jobs
<1>1. /\ api' = api /\ pc[PlanJob] # "idle" /\ job[PlanJob] = "active"
      /\ \A m \in Missions : pc'[m] = pc[m] /\ pc[m] = "idle"
      /\ api \notin BeforeEnqueue \cup {"failed?", "failed!"}
      /\ audit \notin {"created", "validating"}
  <2>1. pc[PlanJob] # "idle" /\ UNCHANGED clients
        /\ \A m \in Missions : pc'[m] = pc[m]
    BY PlannerKeepsFrame DEF ServedInv
  <2>2. job[PlanJob] = "active"
    BY <1>0, <2>1 DEF ServedInv, RowsInv, Busy
  <2> QED
    BY <1>0, <2>1, <2>2, AloneAtWork DEF ServedInv, clients
<1>2. \A m \in Missions : WorkerKnows(m)'
  BY <1>1 DEF WorkerKnows
<1>3. /\ audit' \in {audit, "queued"}
      /\ audit' # audit => pc[PlanJob] = "plan-queued!"
      /\ \A m \in Missions : mission[m] # Absent => mission'[m] # Absent
  BY <1>0, PlannerWritesItsOwn DEF PlannerWrites, WritesAudit, ServedInv,
     SerialInv, PlannerKnows, Absent
<1>4. RowsEarly'
  <2>1. pc[PlanJob] = "plan-queued!" => \A m \in Missions : mission[m] # Absent
    BY DEF ServedInv, RowsInv, RowsPlanned, AfterRows
  <2> QED
    BY <1>3, <2>1 DEF RowsEarly, ServedInv, SerialInv
<1>5. ApiAhead'
  BY <1>1, <1>3 DEF ApiAhead, BeforeEnqueue
<1>6. PlannerKnows'
  <2>1. CASE PlanGuard \/ PlanCheck \/ PlanSnapshot \/ PlanRowsDone
    BY <1>0, <2>1 DEF PlanGuard, PlanCheck, PlanSnapshot, PlanRowsDone, Goto,
       PlannerKnows, PlanLoop
  <2>2. CASE PlanUnsafe
    BY <2>2 DEF PlanUnsafe, WriteAudit, ServedInv, SerialInv, PlannerKnows
  <2>3. CASE PlanQueued
    <3>1. CASE pc[PlanJob] = "plan-queued?"
      <4>1. /\ UNCHANGED audit
            /\ pc'[PlanJob] \in {"plan-queued!", "plan-mission?", "job-failed"}
            /\ pc'[PlanJob] = "plan-queued!" => MayMoveAudit("queued")
            /\ pc'[PlanJob] = "plan-mission?" => audit = "queued"
        BY <1>0, <2>3, <3>1 DEF PlanQueued, WriteAudit, Landing, Local, NoWrite,
           auditRow, MayMoveAudit
      <4> QED
        BY <1>0, <1>1, <4>1, AuditMoveOnlyFrom DEF PlannerKnows, PlanLoop
    <3>2. CASE pc[PlanJob] = "plan-queued!"
      BY <1>0, <2>3, <3>2 DEF PlanQueued, WriteAudit, Goto, PlannerKnows
    <3> QED
      BY <2>3, <3>1, <3>2 DEF PlanQueued, WriteAudit
  <2>4. CASE PlanLoopDone
    BY <1>0, <2>4 DEF PlanLoopDone, Goto, PlannerKnows, PlanLoop
  <2>5. ASSUME NEW m \in Missions, PlanRow(m) PROVE PlannerKnows'
    BY <2>5 DEF PlanRow, PlannerKnows, PlanLoop
  <2>6. ASSUME NEW m \in Missions, PlanMissionRead(m) PROVE PlannerKnows'
    <3>1. /\ UNCHANGED <<audit, mission>> /\ inHand' = m
          /\ pc[PlanJob] = "plan-mission?"
          /\ pc'[PlanJob] \in {"plan-mission!", "plan-enqueue", "job-failed"}
          /\ pc'[PlanJob] = "plan-mission!" => MayMove(m, "queued")
      BY <1>0, <2>6 DEF PlanMissionRead, Landing, Local, NoWrite, auditRow,
         missionRows, MayMove
    <3>2. audit = "queued" /\ mission[m] \in MissionStatus
      BY <1>0, <3>1 DEF ServedInv, SerialInv, PlannerKnows, RowsInv,
         RowsPlanned, AfterRows, PlanLoop
    <3> QED
      BY <3>1, <3>2, MoveOnlyFrom DEF PlannerKnows
  <2>7. ASSUME NEW m \in Missions, PlanMissionWrite(m) \/ PlanEnqueue(m)
        PROVE  PlannerKnows'
    <3>1. /\ UNCHANGED audit /\ pc[PlanJob] \in PlanLoop
          /\ pc'[PlanJob] \in {"plan-enqueue", "plan-mission?", "job-failed"}
      BY <1>0, <2>7 DEF PlanMissionWrite, PlanEnqueue, WriteMission, Goto,
         auditRow, PlanLoop
    <3> QED
      BY <3>1 DEF PlannerKnows, ServedInv, SerialInv
  <2> QED
    BY <2>1, <2>2, <2>3, <2>4, <2>5, <2>6, <2>7 DEF Planner
<1> QED
  BY <1>2, <1>4, <1>5, <1>6

LEMMA WorkerKeepsSerial ==
  ASSUME ServedInv, NEW m \in Missions, MissionWorker(m)
  PROVE  ApiAhead' /\ PlannerKnows' /\ RowsEarly'
         /\ \A n \in Missions : WorkerKnows(n)'
<1>0. /\ pc \in [Jobs -> Labels] /\ PlanJob \in Jobs
      /\ Missions \subseteq Jobs \ {PlanJob}
      /\ mission \in [Missions -> MissionStatus \cup {Absent}]
      /\ audit \in AuditStatus
      /\ pc[m] # "idle" /\ WorkerFrame(m) /\ WorkerWrites(m)
  BY MissionsAssumption, WorkerIsBusy, WorkerKeepsFrame, WorkerWritesItsOwn
     DEF ServedInv, TypeInvariant, ProcessorTypes, MissionRowTypes,
         AuditRowTypes, Jobs
<1>1. /\ job[m] = "active" /\ UNCHANGED <<api, job>>
      /\ \A k \in Jobs \ {m} : pc[k] = "idle" /\ pc'[k] = "idle"
      /\ api \notin BeforeEnqueue \cup {"failed?", "failed!"}
      /\ audit \notin {"created", "validating"}
  <2>1. job[m] = "active"
    BY <1>0 DEF ServedInv, RowsInv, Busy
  <2> QED
    BY <1>0, <2>1, AloneAtWork DEF ServedInv, WorkerFrame, queue, clients
<1>2. \A n \in Missions : mission[n] # Absent
  BY <1>1 DEF ServedInv, RowsInv, RowsPlanned, Unqueued
<1>3. /\ audit' \notin {"created", "validating"}
      /\ \A n \in Missions : mission'[n] # Absent
  <2>1. RowsStay
    BY NextRowsStay DEF Next, ServedInv
  <2> QED
    BY <1>0, <1>1, <1>2, <2>1 DEF RowsStay, WorkerWrites, WritesAudit
<1>4. ApiAhead' /\ PlannerKnows' /\ RowsEarly'
  BY <1>0, <1>1, <1>3 DEF ApiAhead, PlannerKnows, RowsEarly, BeforeEnqueue,
     PlanLoop
<1>5. WorkerKnows(m)'
  <2>1. ReadsAudit(m) /\ Decides(m)
    BY WorkerReadsAudit DEF ServedInv
  <2>2. AllTerminal => \A n \in Missions : mission[n] \in TerminalMission
    BY <1>2 DEF AllTerminal, Rows
  <2>3. pc'[m] \in {"fail-audit?", "fail-audit!"} =>
          \A n \in Missions : mission'[n] \in TerminalMission
    BY <2>1, <2>2 DEF Decides, ServedInv, SerialInv, WorkerKnows
  <2>4. /\ pc'[m] = "running!" => audit' = "queued"
        /\ pc'[m] = "fail-audit!" => audit' \notin TerminalAudit
        /\ pc'[m] = "analyze!" => audit' = "running"
        /\ pc'[m] = "generate!" => audit' = "analyzing"
        /\ pc'[m] = "finish!" => audit' \in {"analyzing", "generating_report"}
    BY <1>0, <2>1, AuditMoveOnlyFrom DEF ReadsAudit
  <2> QED
    BY <2>3, <2>4 DEF WorkerKnows
<1>6. \A n \in Missions \ {m} : WorkerKnows(n)'
  BY <1>0, <1>1 DEF WorkerKnows
<1> QED
  BY <1>4, <1>5, <1>6

LEMMA NextServed ==
  ASSUME Concurrency = 1, Cancellers = {}, MaxFaults["queue"] = 0,
         MaxFaults["refusal"] = 0, ServedInv, [Next]_vars
  PROVE  ServedInv'
<1>1. TypeInvariant' /\ RowsInv' /\ OneAtWork'
  BY NextTypes, NextRows, NextOneAtWork DEF ServedInv, SerialInv
<1>2. ~cancelRequested'
  BY WorkerKeepsFrame, PlannerKeepsFrame DEF Next, ServedInv, Uncancelled,
     WorkerFrame, Api, ApiRead, ApiWrite, ApiEnqueue, ApiUsage, ApiCrash,
     Crash, JobStep, StartJob, JobDone, JobFailed, auditRow, vars
<1>3. NothingCancelled'
  BY <1>2, NextCancelOnRequest DEF ServedInv, Uncancelled, CancelOnRequest
<1>4. DecisionInv'
  BY <1>2, NextDecision, SerialPlannerIsCareful DEF ServedInv, Uncancelled
<1>5. ApiAhead' /\ PlannerKnows' /\ RowsEarly'
      /\ \A m \in Missions : WorkerKnows(m)'
  BY ApiKeepsSerial, OthersKeepSerial, PlannerKeepsSerial, WorkerKeepsSerial
     DEF Next
<1> QED
  BY <1>1, <1>2, <1>3, <1>4, <1>5 DEF ServedInv, Uncancelled, SerialInv

LEMMA InitServed == Init => ServedInv
<1> SUFFICES ASSUME Init PROVE ServedInv
  OBVIOUS
<1>1. TypeInvariant /\ RowsInv /\ DecisionInv
  BY InitTypes, InitRows, InitDecision
<1>2. Uncancelled
  BY DEF Init, Uncancelled, NothingCancelled, CancelPath, Jobs, Absent
<1>3. SerialInv
  BY DEF Init, SerialInv, OneAtWork, ApiAhead, PlannerKnows, RowsEarly,
     WorkerKnows, PlanLoop, BeforeEnqueue, Jobs
<1> QED
  BY <1>1, <1>2, <1>3 DEF ServedInv

(***************************************************************************)
(* The step simulation.                                                    *)
(***************************************************************************)

LEMMA SameTables ==
  /\ Promise!auditTransitions = auditTransitions
  /\ Promise!missionTransitions = missionTransitions
  /\ Promise!TerminalMission = TerminalMission
  /\ Promise!Absent = Absent
BY DEF Promise!auditTransitions, Promise!missionTransitions,
   Promise!TerminalMission, Promise!Absent, auditTransitions,
   missionTransitions, TerminalMission, Absent

LEMMA PlannerImplements ==
  ASSUME ServedInv, Planner
  PROVE  Promise!Next \/ UNCHANGED <<audit, mission>>
<1>0. /\ mission \in [Missions -> MissionStatus \cup {Absent}]
      /\ PlannerWrites /\ pc[PlanJob] # "idle" /\ PlanJob \in Jobs
  BY PlannerWritesItsOwn, PlannerKeepsFrame DEF ServedInv, TypeInvariant,
     MissionRowTypes, Jobs
<1>1. CASE UNCHANGED mission /\ audit' # audit
  <2>1. pc[PlanJob] = "plan-queued!" /\ audit = "planning" /\ audit' = "queued"
    BY <1>0, <1>1 DEF PlannerWrites, WritesAudit, ServedInv, SerialInv,
       PlannerKnows
  <2>2. Promise!MoveAudit
    BY <1>1, <2>1, SameTables DEF Promise!MoveAudit, auditTransitions
  <2> QED
    BY <2>2 DEF Promise!Next
<1>2. CASE UNCHANGED audit
           /\ \E m \in Missions :
                /\ mission[m] = Absent
                /\ mission' = [mission EXCEPT ![m] = "created"]
  <2>1. audit \in {"created", "validating", "planning"}
    BY <1>2 DEF ServedInv, SerialInv, RowsEarly
  <2>2. audit = "planning"
    BY <1>0, <2>1, AloneAtWork DEF ServedInv, RowsInv, Busy
  <2>3. \E m \in Missions : Promise!PlanMission(m)
    BY <1>2, <2>2, SameTables DEF Promise!PlanMission
  <2> QED
    BY <2>3 DEF Promise!Next
<1>3. CASE UNCHANGED audit /\ pc[PlanJob] = "plan-mission!"
           /\ mission' = [mission EXCEPT ![inHand] = "queued"]
  <2>1. inHand \in Missions /\ mission[inHand] \in {"created", "failed"}
    BY <1>3 DEF ServedInv, SerialInv, PlannerKnows
  <2>2. mission[inHand] # Absent /\ "queued" \in missionTransitions[mission[inHand]]
    BY <2>1 DEF missionTransitions, Absent
  <2>3. Promise!MoveMission(inHand)
    BY <1>3, <2>2, SameTables DEF Promise!MoveMission
  <2> QED
    BY <2>1, <2>3 DEF Promise!Next
<1> QED
  BY <1>0, <1>1, <1>2, <1>3 DEF PlannerWrites

LEMMA WorkerImplements ==
  ASSUME ServedInv, NEW m \in Missions, MissionWorker(m)
  PROVE  Promise!Next \/ UNCHANGED <<audit, mission>>
<1>0. /\ mission \in [Missions -> MissionStatus \cup {Absent}]
      /\ WorkerWrites(m) /\ Informed(m) /\ WorkerKnows(m)
      /\ pc[m] \notin {"cancel!", "cancel-missions!", "cancel-audit!"}
  BY WorkerWritesItsOwn DEF ServedInv, TypeInvariant, MissionRowTypes,
     DecisionInv, SerialInv, Uncancelled, NothingCancelled, CancelPath
<1>1. CASE mission' # mission
  <2>1. /\ UNCHANGED audit
        /\ \/ mission[m] = "queued" /\ mission' = [mission EXCEPT ![m] = "running"]
           \/ mission[m] = "running" /\ mission' = [mission EXCEPT ![m] = "completed"]
           \/ mission[m] = "running" /\ mission' = [mission EXCEPT ![m] = "failed"]
           \/ mission[m] = "failed" /\ mission' = [mission EXCEPT ![m] = "queued"]
    BY <1>0, <1>1 DEF WorkerWrites, WritesMission, Informed
  <2>2. Promise!MoveMission(m)
    BY <2>1, SameTables DEF Promise!MoveMission, missionTransitions, Absent
  <2> QED
    BY <2>2 DEF Promise!Next
<1>2. CASE UNCHANGED mission /\ audit' # audit
  <2>1. \/ audit = "queued" /\ audit' = "running"
        \/ /\ audit \notin TerminalAudit /\ audit' = "failed"
           /\ \A n \in Missions : mission[n] \in TerminalMission
        \/ audit = "running" /\ audit' = "analyzing"
        \/ audit = "analyzing" /\ audit' = "generating_report"
        \/ /\ audit \in {"analyzing", "generating_report"}
           /\ audit' = "completed" /\ pc[m] = "finish!"
    BY <1>0, <1>2 DEF WorkerWrites, WritesAudit, WorkerKnows
  <2>2. pc[m] = "finish!" => Passed
    BY DEF ServedInv, DecisionInv, CompletionDecided, CompletionLabels
  <2>3. audit' \in auditTransitions[audit]
    BY <2>1, AuditMoveOnlyFrom DEF auditTransitions, ServedInv, TypeInvariant,
       AuditRowTypes, MayMoveAudit
  <2>4. Promise!MoveAudit
    BY <1>2, <2>1, <2>2, <2>3, SameTables DEF Promise!MoveAudit, Passed
  <2> QED
    BY <2>4 DEF Promise!Next
<1> QED
  BY <1>0, <1>1, <1>2 DEF WorkerWrites

LEMMA NextImplements ==
  ASSUME Cancellers = {}, MaxFaults["queue"] = 0, ServedInv, [Next]_vars
  PROVE  Promise!Next \/ UNCHANGED <<audit, mission>>
<1>1. CASE Planner
  BY <1>1, PlannerImplements
<1>2. CASE \E m \in Missions : MissionWorker(m)
  BY <1>2, WorkerImplements
<1>3. CASE Api
  <2>1. /\ UNCHANGED mission
        /\ \/ UNCHANGED audit
           \/ audit = "created" /\ audit' = "validating"
           \/ audit = "validating" /\ audit' = "planning"
    BY <1>3 DEF Api, ApiRead, ApiWrite, ApiEnqueue, ApiUsage, ApiOnly, auditRow,
       missionRows, ServedInv, SerialInv, ApiAhead
  <2>2. UNCHANGED audit \/ Promise!MoveAudit
    BY <2>1, SameTables DEF Promise!MoveAudit, auditTransitions
  <2> QED
    BY <2>1, <2>2 DEF Promise!Next
<1>4. CASE ApiCrash \/ Crash \/ UNCHANGED vars \/ \E j \in Jobs : JobStep(j)
  BY <1>4 DEF ApiCrash, Crash, JobStep, StartJob, JobDone, JobFailed, auditRow,
     missionRows, vars
<1> QED
  BY <1>1, <1>2, <1>3, <1>4 DEF Next

\* With one job at a time, nobody cancelling and every queue addition and
\* target accepted, workers and the handler may still die at any step: the
\* processes take no move the status tables do not list, complete the audit
\* only over missions that passed, and fail a running one only when no
\* mission is open.
THEOREM SerialAuditKeepsPromise ==
  ASSUME Concurrency = 1, Cancellers = {}, MaxFaults["queue"] = 0,
         MaxFaults["refusal"] = 0
  PROVE  Spec => KeepsPromise
<1>1. Init => ServedInv /\ Promise!Init
  BY InitServed, SameTables DEF Init, Promise!Init
<1>2. ServedInv /\ [Next]_vars => ServedInv'
  BY NextServed
<1>3. ServedInv /\ [Next]_vars => [Promise!Next]_(Promise!vars)
  BY NextImplements DEF Promise!vars
<1> QED
  BY <1>1, <1>2, <1>3, PTL DEF Spec, KeepsPromise, Promise!Spec

-----------------------------------------------------------------------------
(***************************************************************************)
(* Somebody is left to close a planned audit.  While it runs, there is a   *)
(* closer: a job that is not queued yet or waits, or a processor that is   *)
(* to decide on the audit, to close a cancelled one, or to try again.  A   *)
(* closer leaves the audit open only when it finds a mission open, and the *)
(* job of an open mission is a closer.  From the decision to completed,    *)
(* the one who wrote the status is on the way to the next.                 *)
(***************************************************************************)
Unwritten == {"created", "validating", "planning"}

Arriving == {"check", "guard", "running?", "running!"}

Working ==
  {"check-started", "execute", "check-done", "persist", "complete?", "complete!",
   "fail?", "fail!"}

Deciding == {"finalize", "analyze?", "analyze!", "fail-audit?", "fail-audit!"}

Reporting == {"report!", "finish?", "finish!"}

Generating == {"generate?", "generate!"} \cup Reporting

Cancelling ==
  {"cancel?", "cancel!", "close-cancelled", "cancel-missions!", "cancel-audit?",
   "cancel-audit!"}

Leaving == {"job-done", "job-failed", "usage-completed", "usage-failed",
            "usage-cancelled"}

\* Where the processor of m goes from where it is, as far as it matters to
\* who closes the audit: on the way to the browser work and through it,
GoesAhead(m) ==
  /\ pc'[m] \in Arriving \cup {"start?"} => pc[m] \in Arriving /\ UNCHANGED mission
  /\ pc[m] = "check" => \/ pc'[m] = "cancel?"
                        \/ pc'[m] = "guard" /\ ~CancellationSeen
  /\ pc[m] = "guard" => pc'[m] = "running?"
  /\ pc[m] = "running?" =>
       \/ pc'[m] = "running!" /\ audit # "running"
       \/ pc'[m] = "start?" /\ audit = "running"
       \/ pc'[m] = "fail?" /\ audit \notin {"queued", "running"}
  /\ pc[m] = "running!" => pc'[m] = "start?" /\ audit' = "running"
  /\ pc[m] = "start?" => /\ pc'[m] \in {"start!", "check-started", "fail?"}
                         /\ mission[m] = "queued" => pc'[m] = "start!"
  /\ pc[m] = "start!" => pc'[m] = "check-started" /\ mission'[m] = "running"
  /\ pc[m] \in {"check-started", "execute", "check-done", "persist"} =>
       pc'[m] \in Working \cup {"cancel?"}
  /\ pc[m] = "complete?" => \/ pc'[m] \in {"complete!", "fail?"}
                            \/ pc'[m] = "finalize" /\ mission[m] # "running"
  /\ pc[m] = "complete!" => pc'[m] = "finalize" /\ mission'[m] = "completed"

\* through the finalizer,
GoesToClose(m) ==
  /\ pc[m] = "finalize" =>
       \/ pc'[m] \in {"analyze?", "fail-audit?"}
       \/ audit \in TerminalAudit \/ ~AllTerminal
  /\ pc[m] = "fail-audit?" /\ audit = "running" => pc'[m] = "fail-audit!"
  /\ pc[m] = "fail-audit!" => audit' = "failed"
  /\ pc[m] = "analyze?" /\ audit = "running" => pc'[m] = "analyze!"
  /\ pc[m] = "analyze!" => pc'[m] = "generate?" /\ audit' = "analyzing"
  /\ pc[m] = "generate?" => /\ audit = "analyzing" => pc'[m] = "generate!"
                            /\ audit = "generating_report" => pc'[m] = "report!"
  /\ pc[m] = "generate!" => pc'[m] = "report!" /\ audit' = "generating_report"
  /\ pc[m] = "report!" => pc'[m] = "finish?"
  /\ pc[m] = "finish?" /\ audit \in {"analyzing", "generating_report"} =>
       pc'[m] = "finish!"
  /\ pc[m] = "finish!" => audit' = "completed"

\* through a failure, and through a cancellation.
GoesBack(m) ==
  /\ pc[m] = "fail?" => /\ pc'[m] \in {"fail!", "requeue?", "finalize"}
                        /\ mission[m] = "running" => pc'[m] = "fail!"
  /\ pc[m] = "fail!" => /\ pc'[m] \in {"requeue?", "finalize"}
                        /\ mission'[m] = "failed"
  /\ pc[m] \in {"requeue?", "requeue!"} =>
       pc'[m] \in {"requeue!", "job-failed"} /\ route' = route
  /\ pc[m] = "cancel?" =>
       /\ pc'[m] \in {"cancel!", "close-cancelled"}
       /\ mission[m] \in {"queued", "running"} => pc'[m] = "cancel!"
  /\ pc[m] = "cancel!" => pc'[m] = "close-cancelled" /\ mission'[m] = "cancelled"
  /\ pc[m] = "close-cancelled" =>
       pc'[m] = "cancel-missions!" \/ audit \in TerminalAudit
  /\ pc[m] = "cancel-missions!" => pc'[m] = "cancel-audit?"
  /\ pc[m] = "cancel-audit?" => pc'[m] = "cancel-audit!" \/ audit \in TerminalAudit
  /\ pc[m] = "cancel-audit!" => audit' = "cancelled"

\* What the tables make of the reads that the above is about.
LEMMA TableReads ==
  ASSUME audit \in AuditStatus
  PROVE  /\ "running" \in auditTransitions[audit] <=> audit = "queued"
         /\ "analyzing" \in auditTransitions[audit] <=> audit = "running"
         /\ "generating_report" \in auditTransitions[audit] <=> audit = "analyzing"
         /\ "completed" \in auditTransitions[audit] <=>
              audit \in {"analyzing", "generating_report"}
         /\ "failed" \in auditTransitions[audit] <=> audit \notin TerminalAudit
         /\ "cancelled" \in auditTransitions[audit] <=> audit \notin TerminalAudit
BY DEF AuditStatus, auditTransitions, TerminalAudit

LEMMA MissionTableReads ==
  ASSUME NEW m \in Missions, mission[m] \in MissionStatus \cup {Absent}
  PROVE  /\ mission[m] = "queued" => MayMove(m, "running") /\ MayMove(m, "cancelled")
         /\ mission[m] = "running" => MayMove(m, "failed") /\ MayMove(m, "cancelled")
         /\ mission[m] = "running" => MayMove(m, "completed")
BY DEF MissionStatus, MayMove, missionTransitions

LEMMA WorkerGoes ==
  ASSUME MaxFaults["refusal"] = 0, TypeInvariant, NEW m \in Missions, MissionWorker(m)
  PROVE  GoesAhead(m) /\ GoesToClose(m) /\ GoesBack(m)
<1>0. /\ m \in Jobs /\ pc \in [Jobs -> Labels] /\ audit \in AuditStatus
      /\ mission[m] \in MissionStatus \cup {Absent} /\ ~Fault("refusal")
  BY NoFaultOf DEF Jobs, TypeInvariant, ProcessorTypes, AuditRowTypes,
     MissionRowTypes, FaultKinds
<1>1. CASE CheckCancelled(m) \/ Guard(m) \/ Execute(m) \/ Persist(m)
  <2>1. UNCHANGED mission
    BY <1>1 DEF CheckCancelled, Guard, Execute, Persist, Local, NoWrite, missionRows
  <2>2. GoesAhead(m)
    <3>1. \/ pc[m] = "check" /\ pc'[m] = "cancel?"
          \/ pc[m] = "check" /\ pc'[m] = "guard" /\ ~CancellationSeen
          \/ pc[m] = "guard" /\ pc'[m] = "running?"
          \/ /\ pc[m] \in {"check-started", "execute", "check-done", "persist"}
             /\ pc'[m] \in Working \cup {"cancel?"}
      BY <1>0, <1>1 DEF CheckCancelled, Guard, Execute, Persist, Goto, Catch,
         CatchCancelled, Working
    <3> QED
      BY <2>1, <3>1 DEF GoesAhead, Arriving, Working
  <2>3. pc[m] \in {"check", "check-started", "check-done", "guard", "execute", "persist"}
    BY <1>1 DEF CheckCancelled, Guard, Execute, Persist
  <2> QED
    BY <2>2, <2>3 DEF GoesToClose, GoesBack
<1>2. CASE MarkAuditRunning(m) \/ MarkMissionRunning(m) \/ MarkMissionCompleted(m)
  <2>1. pc[m] \in {"running?", "running!", "start?", "start!", "complete?", "complete!"}
    BY <1>2 DEF MarkAuditRunning, MarkMissionRunning, MarkMissionCompleted,
       WriteAudit, WriteMission
  <2>2. CASE MarkAuditRunning(m)
    <3>1. CASE pc[m] = "running?"
      <4>1. \/ pc'[m] = "running!" /\ audit # "running"
            \/ pc'[m] = "start?" /\ audit = "running"
            \/ pc'[m] = "fail?" /\ audit \notin {"queued", "running"}
        BY <1>0, <2>2, <3>1, TableReads DEF MarkAuditRunning, WriteAudit, Landing,
           Follow, Catch, Goto
      <4>2. UNCHANGED mission
        BY <2>2 DEF MarkAuditRunning, Local, NoWrite, missionRows, WriteAudit
      <4> QED
        BY <3>1, <4>1, <4>2
           DEF GoesAhead, GoesToClose, GoesBack, Arriving
    <3>2. CASE pc[m] = "running!"
      BY <1>0, <2>2, <3>2 DEF MarkAuditRunning, WriteAudit, Goto, GoesAhead, GoesToClose,
         GoesBack, Arriving, missionRows
    <3> QED
      BY <2>2, <3>1, <3>2 DEF MarkAuditRunning, WriteAudit
  <2>3. CASE MarkMissionRunning(m)
    <3>1. CASE pc[m] = "start?"
      <4>1. \/ pc'[m] = "start!"
            \/ mission[m] # "queued" /\ pc'[m] \in {"check-started", "fail?"}
        BY <1>0, <2>3, <3>1, MissionTableReads DEF MarkMissionRunning, Landing,
           Follow, Catch, Goto, MayMove
      <4> QED
        BY <3>1, <4>1
           DEF GoesAhead, GoesToClose, GoesBack, Arriving
    <3>2. CASE pc[m] = "start!"
      <4>1. pc'[m] = "check-started" /\ mission'[m] = "running"
        BY <1>0, <2>3, <3>2 DEF MarkMissionRunning, Goto, TypeInvariant, MissionRowTypes
      <4> QED
        BY <3>2, <4>1
           DEF GoesAhead, GoesToClose, GoesBack, Arriving
    <3> QED
      BY <2>3, <3>1, <3>2 DEF MarkMissionRunning
  <2>4. CASE MarkMissionCompleted(m)
    <3>1. CASE pc[m] = "complete?"
      <4>1. \/ pc'[m] \in {"complete!", "fail?"}
            \/ mission[m] # "running" /\ pc'[m] = "finalize"
        BY <1>0, <2>4, <3>1, MissionTableReads DEF MarkMissionCompleted, WriteMission,
           Landing, Follow, Catch, Goto, MayMove
      <4> QED
        BY <3>1, <4>1
           DEF GoesAhead, GoesToClose, GoesBack, Arriving
    <3>2. CASE pc[m] = "complete!"
      <4>1. pc'[m] = "finalize" /\ mission'[m] = "completed"
        BY <1>0, <2>4, <3>2 DEF MarkMissionCompleted, WriteMission, Goto,
           TypeInvariant, MissionRowTypes
      <4> QED
        BY <3>2, <4>1
           DEF GoesAhead, GoesToClose, GoesBack, Arriving
    <3> QED
      BY <2>4, <3>1, <3>2 DEF MarkMissionCompleted, WriteMission
  <2> QED
    BY <1>2, <2>1, <2>2, <2>3, <2>4 DEF GoesToClose, GoesBack
<1>3. CASE Finalize(m) \/ UpsertReport(m) \/ RecordUsage(m)
  <2>1. pc[m] \in {"finalize", "report!", "usage-completed", "usage-failed",
                   "usage-cancelled"}
    BY <1>3 DEF Finalize, UpsertReport, RecordUsage, UsageLabel, TerminalAudit
  <2>2. pc'[m] \in Leaving \cup {"analyze?", "fail-audit?", "finish?"}
    BY <1>0, <1>3, AfterFinalizerLabel DEF Finalize, UpsertReport, RecordUsage,
       Goto, Leaving
  <2>3. GoesToClose(m)
    BY <1>0, <1>3, <2>1 DEF Finalize, UpsertReport, RecordUsage, Goto, GoesToClose,
       UsageLabel, TerminalAudit
  <2> QED
    BY <2>1, <2>2, <2>3 DEF GoesAhead, GoesBack, Arriving, Leaving
<1>4. CASE FailAudit(m) \/ Analyze(m) \/ GenerateReport(m) \/ CompleteAudit(m)
  <2>1. pc[m] \in {"fail-audit?", "fail-audit!", "analyze?", "analyze!", "generate?",
                   "generate!", "finish?", "finish!"}
    BY <1>4 DEF FailAudit, Analyze, GenerateReport, CompleteAudit, FinalizerRead,
       WriteAudit
  <2>2. pc'[m] \in Leaving \cup {"fail-audit!", "analyze!", "generate?", "generate!",
                               "report!", "finish!", "fail?"}
    BY <1>0, <1>4, AfterFinalizerLabel DEF FailAudit, Analyze, GenerateReport,
       CompleteAudit, FinalizerRead, WriteAudit, Landing, FinalizerThrow, Follow, Catch,
       Goto, Leaving
  <2>3. GoesToClose(m)
    <3>1. \/ pc[m] = "fail-audit?" /\ audit # "running"
          \/ pc[m] = "fail-audit?" /\ pc'[m] = "fail-audit!"
          \/ pc[m] = "fail-audit!" /\ audit' = "failed"
          \/ pc[m] = "analyze?" /\ audit # "running"
          \/ pc[m] = "analyze?" /\ pc'[m] = "analyze!"
          \/ pc[m] = "analyze!" /\ pc'[m] = "generate?" /\ audit' = "analyzing"
          \/ pc[m] = "generate?" /\ audit = "analyzing" /\ pc'[m] = "generate!"
          \/ pc[m] = "generate?" /\ audit = "generating_report" /\ pc'[m] = "report!"
          \/ pc[m] = "generate?" /\ audit \notin {"analyzing", "generating_report"}
          \/ /\ pc[m] = "generate!" /\ pc'[m] = "report!"
             /\ audit' = "generating_report"
          \/ pc[m] = "finish?" /\ audit \notin {"analyzing", "generating_report"}
          \/ pc[m] = "finish?" /\ pc'[m] = "finish!"
          \/ pc[m] = "finish!" /\ audit' = "completed"
      <4>1. CASE FailAudit(m)
        BY <1>0, <4>1, TableReads DEF FailAudit, FinalizerRead, WriteAudit,
           Landing, Follow, Goto, TerminalAudit
      <4>2. CASE Analyze(m)
        BY <1>0, <4>2, TableReads DEF Analyze, FinalizerRead, WriteAudit,
           Landing, Follow, Goto
      <4>3. CASE GenerateReport(m)
        BY <1>0, <4>3, TableReads DEF GenerateReport, FinalizerRead, WriteAudit,
           Landing, Follow, Goto
      <4>4. CASE CompleteAudit(m)
        BY <1>0, <4>4, TableReads DEF CompleteAudit, FinalizerRead, WriteAudit,
           Landing, Follow, Goto
      <4> QED
        BY <1>4, <4>1, <4>2, <4>3, <4>4
    <3> QED
      BY <3>1 DEF GoesToClose
  <2> QED
    BY <2>1, <2>2, <2>3 DEF GoesAhead, GoesBack, Arriving, Leaving
<1>5. CASE \/ MarkMissionFailed(m) \/ MarkMissionQueued(m)
           \/ MarkMissionCancelled(m) \/ CancelOpenMissions(m) \/ CancelAudit(m)
  <2>1. pc[m] \in {"fail?", "fail!", "requeue?", "requeue!", "cancel?", "cancel!",
                   "cancel-missions!", "cancel-audit?", "cancel-audit!"}
    BY <1>5 DEF MarkMissionFailed, MarkMissionQueued, MarkMissionCancelled,
       CancelOpenMissions, CancelAudit, WriteAudit, WriteMission
  <2>2. pc'[m] \in Leaving \cup {"finalize", "fail!", "requeue?", "requeue!", "cancel!",
                               "close-cancelled", "cancel-audit?", "cancel-audit!"}
    BY <1>0, <1>5 DEF MarkMissionFailed, MarkMissionQueued, MarkMissionCancelled,
       CancelOpenMissions, CancelAudit, WriteAudit, WriteMission, Landing, Goto, Leaving
  <2>3. GoesBack(m)
    BY <1>0, <1>5, <2>1 DEF MarkMissionFailed, MarkMissionQueued, MarkMissionCancelled,
       CancelOpenMissions, CancelAudit, WriteAudit, WriteMission, Landing,
       auditTransitions, AuditStatus, TerminalAudit, missionTransitions, Goto,
       GoesBack, TypeInvariant, MissionRowTypes
  <2> QED
    BY <2>1, <2>2, <2>3 DEF GoesAhead, GoesToClose, Arriving, Leaving
<1>6. CASE CloseCancelled(m)
  <2>1. pc[m] = "close-cancelled"
    BY <1>6 DEF CloseCancelled
  <2>2. pc'[m] \in {"usage-cancelled", "job-done"} \/ pc'[m] = "cancel-missions!"
    <3>1. CASE audit = "cancelled"
      BY <1>0, <1>6, <3>1, Zenon DEF CloseCancelled, Goto
    <3>2. CASE audit \in {"completed", "failed"}
      BY <1>0, <1>6, <3>2 DEF CloseCancelled, Goto
    <3>3. CASE audit \notin {"completed", "failed", "cancelled"}
      BY <1>0, <1>6, <3>3 DEF CloseCancelled, Goto
    <3> QED
      BY <3>1, <3>2, <3>3
  <2>3. audit \notin TerminalAudit => pc'[m] = "cancel-missions!"
    BY <1>0, <1>6 DEF CloseCancelled, Goto, TerminalAudit
  <2> QED
    BY <2>1, <2>2, <2>3 DEF GoesAhead, GoesToClose, GoesBack, Arriving
<1> QED
  BY <1>1, <1>2, <1>3, <1>4, <1>5, <1>6 DEF MissionWorker

(***************************************************************************)
(* The invariant.                                                          *)
(***************************************************************************)
Early == Unwritten \cup {"queued"}

\* The audit is planned: a mission's job is queued, or about to be.
Planned == pc[PlanJob] \in PlanLoop \/ \E m \in Missions : ~Unqueued(m)

\* The job of m has done nothing but arrive.
Fresh(m) ==
  /\ job[m] \in {"none", "waiting", "active"}
  /\ pc[m] \in {"idle"} \cup Arriving \cup Cancelling
  /\ mission[m] \in {Absent, "created", "queued", "cancelled"}

\* The job that asks for a retry gets one.
Retries(m) ==
  /\ pc[m] \in {"requeue?", "requeue!"} => route[m] = "retry"
  /\ route[m] = "retry" /\ pc[m] # "idle" => ~LastAttempt(m)

StartInv ==
  /\ api \notin {"failed?", "failed!"}
  /\ Planned => audit \notin Unwritten
  /\ audit \in Early => \A m \in Missions : Fresh(m)
  /\ \A m \in Missions : Retries(m)

\* A mission whose job found the audit in a status that it cannot run under.
Lost == ~cancelRequested /\ audit \notin Early \cup {"running"}

\* The job of an open mission is still to close it.
Kept(m) ==
  /\ mission[m] = "running" => pc[m] \in Working \cup {"cancel?", "cancel!"}
  /\ mission[m] = "queued" =>
       \/ job[m] \in {"none", "waiting"}
       \/ pc[m] \in Arriving \cup {"start?", "start!", "cancel?", "cancel!"}
       \/ pc[m] = "job-failed" /\ route[m] = "retry"
       \/ Lost

\* A processor past its first check did not pass over a cancellation: the
\* request had cancelled its queued mission.
Noticed(m) ==
  cancelRequested /\ pc[m] \in {"guard", "running?", "running!", "start?"} =>
    mission[m] # "queued"

Decided == {"analyze?", "analyze!", "fail-audit?", "fail-audit!"} \cup Generating

\* Nobody writes running over a later status: the mission of whoever is about
\* to is open, so no finalizer has decided.
InTime(m) ==
  ~cancelRequested /\ pc[m] = "running!" =>
    /\ mission[m] = "queued" /\ audit \in {"queued", "running"}
    /\ \A n \in Missions : pc[n] \notin Decided

Ahead == Arriving \cup {"start?", "start!"} \cup Working \cup Deciding \cup Cancelling

Closer(m) ==
  \/ job[m] \in {"none", "waiting"}
  \/ pc[m] \in Ahead
  \/ pc[m] \in {"requeue?", "requeue!", "job-failed"} /\ route[m] = "retry"

Responsible ==
  /\ audit = "running" => \E m \in Missions : Closer(m)
  /\ audit = "analyzing" => \E m \in Missions : pc[m] \in Generating
  /\ audit = "generating_report" => \E m \in Missions : pc[m] \in Reporting

CloseInv ==
  /\ StartInv
  /\ \A m \in Missions : Kept(m) /\ Noticed(m) /\ InTime(m)
  /\ Responsible

\* What was proved before and is used here.
Known == TypeInvariant /\ FinalInv /\ RowsInv /\ CancelOnRequest

LEMMA UnqueuedIsFresh ==
  ASSUME Known, NEW m \in Missions, Unqueued(m)
  PROVE  Fresh(m) /\ pc[m] = "idle"
BY DEF Known, FinalInv, QueuedOnce, NotStarted, Unqueued, Fresh, Jobs

LEMMA WorkerIsAtWork ==
  ASSUME Known, NEW m \in Missions, MissionWorker(m)
  PROVE  /\ pc[m] \notin {"idle", "job-done", "job-failed"}
         /\ job[m] = "active"
BY WorkerIsBusy DEF Known, FinalInv, QueuedOnce, Jobs

\* The step of m's processor as the lemmas below use it.
WorkerStep(m) ==
  /\ UNCHANGED <<cancelRequested, job, attemptsMade, api, todo, inHand>>
  /\ \A j \in Jobs \ {m} : pc'[j] = pc[j] /\ route'[j] = route[j]
  /\ \A n \in Missions \ {m} :
       \/ mission'[n] = mission[n]
       \/ pc[m] = "cancel-missions!" /\ mission'[n] = "cancelled"
  /\ \/ mission'[m] = mission[m]
     \/ pc[m] = "start!" /\ mission'[m] = "running"
     \/ pc[m] = "complete!" /\ mission'[m] = "completed"
     \/ pc[m] = "fail!" /\ mission'[m] = "failed"
     \/ pc[m] = "requeue!" /\ mission'[m] = "queued"
     \/ pc[m] \in {"cancel!", "cancel-missions!"} /\ mission'[m] = "cancelled"
  /\ \/ audit' = audit
     \/ pc[m] = "running!" /\ audit' = "running"
     \/ pc[m] = "fail-audit!" /\ audit' = "failed"
     \/ pc[m] = "analyze!" /\ audit' = "analyzing"
     \/ pc[m] = "generate!" /\ audit' = "generating_report"
     \/ pc[m] = "finish!" /\ audit' = "completed"
     \/ pc[m] = "cancel-audit!" /\ audit' = "cancelled"

LEMMA WorkerTakesStep ==
  ASSUME Known, NEW m \in Missions, MissionWorker(m)
  PROVE  WorkerStep(m)
<1>0. /\ m \in Jobs /\ WorkerFrame(m) /\ WorkerWrites(m)
      /\ pc \in [Jobs -> Labels] /\ DOMAIN route = Jobs
      /\ route \in [Jobs -> {"main", "cancel", "retry", "last"}]
      /\ mission \in [Missions -> MissionStatus \cup {Absent}]
  BY WorkerKeepsFrame, WorkerWritesItsOwn DEF Known, Jobs, TypeInvariant,
     ProcessorTypes, MissionRowTypes
<1>1. UNCHANGED <<cancelRequested, job, attemptsMade, api, todo, inHand>>
  BY <1>0 DEF WorkerFrame, queue, clients
<1>2. \A j \in Jobs \ {m} : pc'[j] = pc[j] /\ route'[j] = route[j]
  BY <1>0 DEF WorkerFrame
<1>3. \A n \in Missions \ {m} :
        \/ mission'[n] = mission[n]
        \/ pc[m] = "cancel-missions!" /\ mission'[n] = "cancelled"
  BY <1>0 DEF WorkerWrites, WritesMission, CancelOpenMissions
<1>4. \/ mission'[m] = mission[m]
      \/ pc[m] = "start!" /\ mission'[m] = "running"
      \/ pc[m] = "complete!" /\ mission'[m] = "completed"
      \/ pc[m] = "fail!" /\ mission'[m] = "failed"
      \/ pc[m] = "requeue!" /\ mission'[m] = "queued"
      \/ pc[m] \in {"cancel!", "cancel-missions!"} /\ mission'[m] = "cancelled"
  BY <1>0 DEF WorkerWrites, WritesMission, CancelOpenMissions
<1>5. \/ audit' = audit
      \/ pc[m] = "running!" /\ audit' = "running"
      \/ pc[m] = "fail-audit!" /\ audit' = "failed"
      \/ pc[m] = "analyze!" /\ audit' = "analyzing"
      \/ pc[m] = "generate!" /\ audit' = "generating_report"
      \/ pc[m] = "finish!" /\ audit' = "completed"
      \/ pc[m] = "cancel-audit!" /\ audit' = "cancelled"
  BY <1>0 DEF WorkerWrites, WritesAudit
<1> QED
  BY <1>1, <1>2, <1>3, <1>4, <1>5 DEF WorkerStep

LEMMA WorkerKeepsStart ==
  ASSUME MaxFaults["refusal"] = 0, Known, StartInv, NEW m \in Missions,
         MissionWorker(m)
  PROVE  StartInv'
<1>0. /\ WorkerStep(m) /\ GoesAhead(m) /\ GoesToClose(m) /\ GoesBack(m)
      /\ TakesRetry(m) /\ job[m] = "active"
      /\ pc[m] \notin {"idle", "job-done", "job-failed"}
      /\ m \in Jobs /\ PlanJob \in Jobs \ {m} /\ Missions \subseteq Jobs
  BY WorkerTakesStep, WorkerGoes, WorkerReadsAudit, WorkerIsAtWork,
     MissionsAssumption DEF Known, Jobs
<1>1. api' \notin {"failed?", "failed!"}
  BY <1>0 DEF StartInv, WorkerStep
<1>2. Planned /\ audit \notin Unwritten
  BY <1>0 DEF StartInv, Planned, Unqueued
<1>3. audit' \notin Unwritten
  BY <1>0, <1>2 DEF WorkerStep, Unwritten
<1>4. ASSUME audit' \in Early, NEW n \in Missions PROVE Fresh(n)'
  <2>1. audit = "queued" /\ audit' = audit /\ Fresh(n) /\ Fresh(m)
    BY <1>0, <1>2, <1>4 DEF WorkerStep, Early, Unwritten, StartInv
  <2>2. job'[n] \in {"none", "waiting", "active"}
    BY <1>0, <2>1 DEF WorkerStep, Fresh
  <2>3. mission'[n] \in {Absent, "created", "queued", "cancelled"}
    BY <1>0, <2>1 DEF WorkerStep, Fresh, Arriving, Cancelling
  <2>4. pc'[n] \in {"idle"} \cup Arriving \cup Cancelling
    <3>1. CASE n # m
      BY <1>0, <2>1, <3>1 DEF WorkerStep, Fresh
    <3>2. CASE n = m /\ pc[m] \in Arriving
      BY <1>0, <2>1, <3>2 DEF GoesAhead, Arriving, Cancelling
    <3>3. CASE n = m /\ pc[m] \in Cancelling
      BY <1>0, <2>1, <3>3 DEF GoesBack, Cancelling, TerminalAudit
    <3> QED
      BY <1>0, <2>1, <3>1, <3>2, <3>3 DEF Fresh
  <2> QED
    BY <2>2, <2>3, <2>4 DEF Fresh
<1>5. ASSUME NEW n \in Missions PROVE Retries(n)'
  <2>1. Retries(n) /\ (LastAttempt(n)' <=> LastAttempt(n))
    BY <1>0 DEF StartInv, WorkerStep, LastAttempt
  <2>2. CASE n # m
    BY <1>0, <2>1, <2>2 DEF WorkerStep, Retries
  <2>3. CASE n = m
    BY <1>0, <2>1, <2>3 DEF TakesRetry, Retries
  <2> QED
    BY <2>2, <2>3
<1> QED
  BY <1>1, <1>3, <1>4, <1>5 DEF StartInv

\* No processor writes a status the audit may already have left.
LEMMA WorkerLosesNothing ==
  ASSUME Known, CloseInv, NEW m \in Missions, MissionWorker(m), Lost
  PROVE  Lost'
BY WorkerTakesStep DEF CloseInv, InTime, WorkerStep, Lost, Early, Unwritten

LEMMA WorkerKeepsMissions ==
  ASSUME MaxFaults["refusal"] = 0, Known, CloseInv, NEW m \in Missions,
         MissionWorker(m), NEW n \in Missions
  PROVE  Kept(n)' /\ Noticed(n)'
<1>0. /\ WorkerStep(m) /\ GoesAhead(m) /\ GoesBack(m) /\ TakesRetry(m)
      /\ job[m] = "active" /\ (Lost => Lost')
      /\ ReadsMission(m) /\ Kept(n) /\ Noticed(n)
      /\ m \in Jobs /\ n \in Jobs
  BY WorkerTakesStep, WorkerGoes, WorkerReadsAudit, WorkerIsAtWork,
     WorkerReadsMission, WorkerLosesNothing DEF Known, Jobs, CloseInv
<1>1. CASE n # m
  <2>1. /\ pc'[n] = pc[n] /\ route'[n] = route[n] /\ job'[n] = job[n]
        /\ mission'[n] = mission[n] \/ mission'[n] = "cancelled"
        /\ cancelRequested' = cancelRequested
    BY <1>0, <1>1 DEF WorkerStep
  <2> QED
    BY <1>0, <2>1 DEF Kept, Noticed
<1>2. CASE n = m
  <2>1. Noticed(m)'
    BY <1>0, <1>2 DEF Noticed, GoesAhead, WorkerStep, Arriving, CancellationSeen
  <2>2. ASSUME mission'[m] = "running"
        PROVE  pc'[m] \in Working \cup {"cancel?", "cancel!"}
    <3>1. CASE pc[m] = "start!"
      BY <1>0, <3>1 DEF GoesAhead, Working
    <3>2. CASE pc[m] # "start!"
      <4>1. mission[m] = "running" /\ pc[m] \in Working \cup {"cancel?", "cancel!"}
        BY <1>0, <1>2, <2>2, <3>2 DEF WorkerStep, Kept
      <4>2. CASE pc[m] \in {"check-started", "execute", "check-done", "persist",
                            "complete?", "complete!"}
        BY <1>0, <2>2, <4>1, <4>2 DEF GoesAhead, Working
      <4>3. CASE pc[m] \in {"fail?", "fail!", "cancel?", "cancel!"}
        BY <1>0, <2>2, <4>1, <4>3 DEF GoesBack, Working
      <4> QED
        BY <4>1, <4>2, <4>3 DEF Working
    <3> QED
      BY <3>1, <3>2
  <2>3. ASSUME mission'[m] = "queued", ~Lost'
        PROVE  \/ pc'[m] \in Arriving \cup {"start?", "start!", "cancel?", "cancel!"}
               \/ pc'[m] = "job-failed" /\ route'[m] = "retry"
    <3>1. CASE pc[m] = "requeue!"
      <4>1. pc'[m] = "job-failed" /\ route'[m] = route[m] /\ route[m] = "retry"
        BY <1>0, <3>1 DEF GoesBack, TakesRetry, CloseInv, StartInv, Retries
      <4> QED
        BY <4>1
    <3>2. CASE pc[m] # "requeue!"
      <4>1. /\ mission[m] = "queued" /\ ~Lost
            /\ pc[m] \in Arriving \cup {"start?", "start!", "cancel?", "cancel!"}
        BY <1>0, <1>2, <2>3, <3>2, WorkerIsAtWork DEF WorkerStep, Kept
      <4>2. CASE pc[m] \in {"check", "guard", "running!"}
        BY <1>0, <4>2 DEF GoesAhead, Arriving
      <4>3. CASE pc[m] = "running?"
        <5>1. ~cancelRequested /\ audit \notin Unwritten
          BY <1>0, <1>2, <4>1, <4>3 DEF Noticed, CloseInv, StartInv, Planned, Unqueued
        <5>2. audit \in {"queued", "running"}
          BY <4>1, <5>1 DEF Lost, Early
        <5> QED
          BY <1>0, <4>3, <5>2 DEF GoesAhead, Arriving
      <4>4. CASE pc[m] \in {"start?", "start!"}
        BY <1>0, <2>3, <4>1, <4>4 DEF GoesAhead
      <4>5. CASE pc[m] \in {"cancel?", "cancel!"}
        BY <1>0, <2>3, <4>1, <4>5 DEF GoesBack
      <4> QED
        BY <4>1, <4>2, <4>3, <4>4, <4>5 DEF Arriving
    <3> QED
      BY <3>1, <3>2
  <2> QED
    BY <1>2, <2>1, <2>2, <2>3 DEF Kept
<1> QED
  BY <1>1, <1>2

LEMMA WorkerIsInTime ==
  ASSUME MaxFaults["refusal"] = 0, Known, CloseInv, NEW m \in Missions,
         MissionWorker(m), NEW k \in Missions
  PROVE  InTime(k)'
<1> SUFFICES ASSUME ~cancelRequested', pc'[k] = "running!"
             PROVE  /\ mission'[k] = "queued" /\ audit' \in {"queued", "running"}
                    /\ \A n \in Missions : pc'[n] \notin Decided
  BY DEF InTime
<1>0. /\ WorkerStep(m) /\ GoesAhead(m) /\ Decides(m) /\ ReadsAudit(m)
      /\ job[m] = "active" /\ m \in Jobs /\ Missions \subseteq Jobs
      /\ ~cancelRequested /\ NothingCancelled
  BY WorkerTakesStep, WorkerGoes, WorkerReadsAudit, WorkerIsAtWork
     DEF Known, Jobs, CancelOnRequest, WorkerStep
<1>1. CASE k = m
  <2>1. pc[m] = "running?" /\ UNCHANGED mission
    BY <1>0, <1>1 DEF GoesAhead, Arriving
  <2>2. audit = "queued" /\ audit' = audit
    BY <1>0, <1>1, <2>1, TableReads
       DEF ReadsAudit, MayMoveAudit, Known, TypeInvariant, AuditRowTypes
  <2>3. \A n \in Missions : Fresh(n)
    BY <2>2 DEF CloseInv, StartInv, Early
  <2>4. mission[m] = "queued"
    BY <1>0, <2>3 DEF Fresh, Known, RowsInv, RowsPlanned, Unqueued, NothingCancelled
  <2>5. \A n \in Missions : pc'[n] \notin Decided
    <3> SUFFICES ASSUME NEW n \in Missions PROVE pc'[n] \notin Decided
      OBVIOUS
    <3>1. n # m => pc'[n] \in {"idle"} \cup Arriving \cup Cancelling
      BY <1>0, <2>3 DEF WorkerStep, Fresh
    <3> QED
      BY <1>1, <3>1 DEF Arriving, Cancelling, Decided, Generating, Reporting
  <2> QED
    BY <1>1, <2>1, <2>2, <2>4, <2>5
<1>2. CASE k # m
  <2>1. /\ mission[k] = "queued" /\ audit \in {"queued", "running"}
        /\ \A n \in Missions : pc[n] \notin Decided
    BY <1>0, <1>2 DEF WorkerStep, CloseInv, InTime
  <2>2. pc[m] \notin {"cancel-missions!", "cancel-audit!"}
    BY <1>0 DEF NothingCancelled, CancelPath
  <2>3. mission'[k] = "queued" /\ audit' \in {"queued", "running"}
    BY <1>0, <1>2, <2>1, <2>2 DEF WorkerStep, Decided, Generating, Reporting
  <2>4. pc'[m] \notin Decided
    <3>1. ~AllTerminal
      BY <2>1 DEF AllTerminal, Rows, TerminalMission, Absent
    <3> QED
      BY <1>0, <2>1, <3>1 DEF Decides, Decided, CompletionLabels, Generating, Reporting
  <2> QED
    BY <1>0, <2>1, <2>3, <2>4 DEF WorkerStep
<1> QED
  BY <1>1, <1>2

\* A closer goes on as one, or leaves with a mission still open.
LEMMA CloserGoesOn ==
  ASSUME MaxFaults["refusal"] = 0, Known, CloseInv, NEW m \in Missions,
         MissionWorker(m), audit = "running", audit' = "running", Closer(m)
  PROVE  Closer(m)' \/ (pc[m] = "finalize" /\ ~AllTerminal)
<1> USE DEF Arriving, Working, Deciding, Cancelling
<1>0. /\ WorkerStep(m) /\ GoesAhead(m) /\ GoesToClose(m) /\ GoesBack(m)
      /\ TakesRetry(m) /\ Retries(m) /\ job[m] = "active"
      /\ pc[m] \notin {"idle", "job-done", "job-failed"}
  BY WorkerTakesStep, WorkerGoes, WorkerReadsAudit, WorkerIsAtWork
     DEF Known, CloseInv, StartInv
<1>1. \/ pc[m] \in Ahead
      \/ pc[m] \in {"requeue?", "requeue!"} /\ route[m] = "retry"
  BY <1>0 DEF Closer
<1>2. CASE pc[m] \in Arriving \cup {"start?", "start!", "check-started", "execute",
                                   "check-done", "persist", "complete?", "complete!"}
  <2>1. pc'[m] \in Arriving \cup {"start?", "start!", "finalize", "cancel?"} \cup Working
    BY <1>0, <1>2 DEF GoesAhead
  <2> QED
    BY <2>1 DEF Closer, Ahead
<1>3. CASE pc[m] \in Deciding
  BY <1>0, <1>3 DEF GoesToClose, Closer, Ahead, TerminalAudit
<1>4. CASE pc[m] \in {"fail?", "fail!", "requeue?", "requeue!"}
  <2>1. \/ pc'[m] \in {"fail!", "finalize"}
        \/ pc'[m] = "requeue?" /\ route'[m] = "retry"
        \/ pc'[m] \in {"requeue!", "job-failed"} /\ route'[m] = "retry"
    BY <1>0, <1>4 DEF GoesBack, TakesRetry, Retries
  <2> QED
    BY <2>1 DEF Closer, Ahead
<1>5. CASE pc[m] \in Cancelling
  <2>1. pc'[m] \in Cancelling
    BY <1>0, <1>5 DEF GoesBack, TerminalAudit
  <2> QED
    BY <2>1 DEF Closer, Ahead
<1> QED
  BY <1>1, <1>2, <1>3, <1>4, <1>5 DEF Ahead

LEMMA WorkerLeavesOneBehind ==
  ASSUME MaxFaults["refusal"] = 0, Known, CloseInv, NEW m \in Missions,
         MissionWorker(m)
  PROVE  Responsible'
<1>0. /\ WorkerStep(m) /\ GoesAhead(m) /\ GoesToClose(m)
      /\ job[m] = "active" /\ m \in Jobs /\ Missions \subseteq Jobs
      /\ audit \in AuditStatus
  BY WorkerTakesStep, WorkerGoes, WorkerIsAtWork
     DEF Known, TypeInvariant, AuditRowTypes, Jobs
<1>1. ASSUME NEW n \in Missions \ {m}
      PROVE  /\ pc'[n] = pc[n] /\ route'[n] = route[n] /\ job'[n] = job[n]
             /\ Closer(n) => Closer(n)'
  BY <1>0, <1>1 DEF WorkerStep, Closer
<1>2. ASSUME audit' = "running" PROVE \E n \in Missions : Closer(n)'
  <2>1. CASE audit = "running"
    <3>1. PICK n \in Missions : Closer(n)
      BY <2>1 DEF CloseInv, Responsible
    <3>2. CASE n # m
      BY <1>1, <3>1, <3>2
    <3>3. CASE n = m /\ ~Closer(m)'
      <4>1. pc[m] = "finalize" /\ ~AllTerminal
        BY <1>2, <2>1, <3>1, <3>3, CloserGoesOn
      <4>2. PICK k \in Rows : mission[k] \notin TerminalMission
        BY <4>1 DEF AllTerminal
      <4>3. k \in Missions /\ mission[k] \in {"created", "queued", "running"}
        BY <4>2 DEF Rows, TerminalMission, MissionStatus, Known, TypeInvariant,
           MissionRowTypes
      <4>4. Kept(k) /\ ~Lost
        BY <2>1, <4>3 DEF CloseInv, Lost
      <4>5. mission[k] = "created" => job[k] = "none"
        BY <4>3 DEF Known, RowsInv, RowsPlanned, Unqueued
      <4>6. Closer(k)
        BY <4>3, <4>4, <4>5 DEF Kept, Closer, Ahead, Arriving, Working, Deciding, Cancelling
      <4>7. k # m
        BY <1>0, <4>1, <4>3, <4>4, <4>5 DEF Kept, Arriving, Working
      <4> QED
        BY <1>1, <4>3, <4>6, <4>7
    <3> QED
      BY <3>1, <3>2, <3>3
  <2>2. CASE audit # "running"
    <3>1. pc'[m] = "start?"
      BY <1>0, <1>2, <2>2 DEF WorkerStep, GoesAhead
    <3> QED
      BY <3>1 DEF Closer, Ahead
  <2> QED
    BY <2>1, <2>2
<1>3. ASSUME audit' = "analyzing" PROVE \E n \in Missions : pc'[n] \in Generating
  <2>1. CASE audit = "analyzing"
    <3>1. PICK n \in Missions : pc[n] \in Generating
      BY <2>1 DEF CloseInv, Responsible
    <3>2. n = m => pc'[m] \in Generating
      BY <1>0, <1>3, <2>1, <3>1 DEF GoesToClose, Generating, Reporting
    <3> QED
      BY <1>1, <3>1, <3>2
  <2>2. CASE audit # "analyzing"
    BY <1>0, <1>3, <2>2 DEF WorkerStep, GoesToClose, Generating
  <2> QED
    BY <2>1, <2>2
<1>4. ASSUME audit' = "generating_report"
      PROVE  \E n \in Missions : pc'[n] \in Reporting
  <2>1. CASE audit = "generating_report"
    <3>1. PICK n \in Missions : pc[n] \in Reporting
      BY <2>1 DEF CloseInv, Responsible
    <3>2. n = m => pc'[m] \in Reporting
      BY <1>0, <1>4, <2>1, <3>1 DEF GoesToClose, Reporting
    <3> QED
      BY <1>1, <3>1, <3>2
  <2>2. CASE audit # "generating_report"
    BY <1>0, <1>4, <2>2 DEF WorkerStep, GoesToClose, Reporting
  <2> QED
    BY <2>1, <2>2
<1> QED
  BY <1>2, <1>3, <1>4 DEF Responsible

LEMMA WorkerKeepsClose ==
  ASSUME MaxFaults["refusal"] = 0, Known, CloseInv, NEW m \in Missions,
         MissionWorker(m)
  PROVE  CloseInv'
<1>1. StartInv'
  BY WorkerKeepsStart DEF CloseInv
<1>2. \A n \in Missions : Kept(n)' /\ Noticed(n)' /\ InTime(n)'
  BY WorkerKeepsMissions, WorkerIsInTime
<1> QED
  BY <1>1, <1>2, WorkerLeavesOneBehind DEF CloseInv

\* A step that leaves the audit, the missions and their jobs alone.
LEMMA BystanderKeepsClose ==
  ASSUME Known, CloseInv,
         UNCHANGED <<audit, cancelRequested, mission, pc, route, attemptsMade>>,
         \A m \in Missions : job'[m] = job[m],
         api' \notin {"failed?", "failed!"}
  PROVE  CloseInv'
<1>1. StartInv'
  BY DEF CloseInv, StartInv, Planned, Unqueued, Fresh, Retries, LastAttempt
<1>2. \A m \in Missions : Kept(m)' /\ Noticed(m)' /\ InTime(m)'
  BY DEF CloseInv, Kept, Lost, Noticed, InTime
<1>3. Responsible'
  BY DEF CloseInv, Responsible, Closer
<1> QED
  BY <1>1, <1>2, <1>3 DEF CloseInv

\* While no mission's job is queued the audit may be written at will, except
\* to a status that somebody has to move it on from.
LEMMA BeforeJobsKeepsClose ==
  ASSUME Known, CloseInv,
         \A m \in Missions : Unqueued(m),
         UNCHANGED <<cancelRequested, mission, route, attemptsMade>>,
         \A m \in Missions : job'[m] = job[m] /\ pc'[m] = pc[m],
         audit' \notin {"running", "analyzing", "generating_report"},
         pc'[PlanJob] \in PlanLoop => audit' \notin Unwritten,
         api' \notin {"failed?", "failed!"}
  PROVE  CloseInv'
<1>1. \A m \in Missions : /\ Fresh(m) /\ Fresh(m)' /\ pc'[m] = "idle"
                          /\ job'[m] = "none" /\ mission'[m] # "running"
  BY UnqueuedIsFresh DEF Fresh, Unqueued, Arriving, Cancelling, Absent
<1>2. StartInv'
  BY <1>1 DEF StartInv, Planned, Unqueued, Retries
<1>3. \A m \in Missions : Kept(m)' /\ Noticed(m)' /\ InTime(m)'
  BY <1>1 DEF Kept, Noticed, InTime
<1> QED
  BY <1>2, <1>3 DEF CloseInv, Responsible

LEMMA ApiKeepsClose ==
  ASSUME MaxFaults["queue"] = 0, Known, CloseInv, Api
  PROVE  CloseInv'
<1>0. /\ ~Fault("queue") /\ api \notin {"failed?", "failed!"}
      /\ PlanJob \in Jobs \ Missions /\ Missions \subseteq Jobs
      /\ job \in [Jobs -> {"none", "waiting", "active", "completed", "failed"}]
  BY NoFaultOf, MissionsAssumption DEF Known, TypeInvariant, QueueTypes, FaultKinds,
     Jobs, CloseInv, StartInv
<1>1. CASE ApiRead \/ ApiEnqueue \/ ApiUsage
  <2>1. UNCHANGED <<audit, cancelRequested, mission, pc, route, attemptsMade>>
    BY <1>1 DEF ApiRead, ApiEnqueue, ApiUsage, ApiOnly, auditRow, missionRows,
       processors, queue
  <2>2. api' \notin {"failed?", "failed!"}
    BY <1>0, <1>1 DEF ApiRead, ApiEnqueue, ApiUsage, Landing
  <2>3. \A m \in Missions : job'[m] = job[m]
    BY <1>0, <1>1 DEF ApiRead, ApiEnqueue, ApiUsage, queue
  <2> QED
    BY <2>1, <2>2, <2>3, BystanderKeepsClose
<1>2. CASE ApiWrite
  <2>1. /\ UNCHANGED <<cancelRequested, mission, pc, route, attemptsMade, job>>
        /\ audit' \in {"validating", "planning"}
        /\ api' \notin {"failed?", "failed!"}
        /\ api \in BeforeEnqueue
    BY <1>0, <1>2 DEF ApiWrite, ApiOnly, missionRows, processors, queue, BeforeEnqueue
  <2>2. job[PlanJob] = "none" /\ pc[PlanJob] = "idle"
    BY <1>0, <2>1 DEF Known, FinalInv, QueuedOnce
  <2>3. \A m \in Missions : Unqueued(m)
    BY <2>2 DEF Known, FinalInv, QueuedOnce
  <2>4. pc'[PlanJob] \notin PlanLoop
    BY <2>1, <2>2 DEF PlanLoop
  <2> QED
    BY <2>1, <2>3, <2>4, BeforeJobsKeepsClose
<1> QED
  BY <1>1, <1>2 DEF Api

LEMMA CancelKeepsClose ==
  ASSUME Known, CloseInv, NEW c \in Cancellers, CancelRead(c) \/ CancelTx(c)
  PROVE  CloseInv'
<1>1. CASE CancelRead(c)
  BY <1>1, BystanderKeepsClose DEF CancelRead, auditRow, missionRows, queue,
     processors, CloseInv, StartInv
<1>2. CASE CancelTx(c)
  <2>1. /\ cancelRequested' /\ audit' \in {audit, "cancelled"}
        /\ UNCHANGED <<job, attemptsMade, pc, route, api>>
        /\ \A m \in Missions :
             \/ mission'[m] = mission[m] /\ mission'[m] # "queued"
             \/ mission'[m] = "cancelled"
    BY <1>2 DEF CancelTx, queue, processors
  <2>2. StartInv'
    BY <2>1 DEF CloseInv, StartInv, Planned, Unqueued, Fresh, Retries, LastAttempt,
       Early, Unwritten, Absent
  <2>3. \A m \in Missions : Kept(m)' /\ Noticed(m)' /\ InTime(m)'
    BY <2>1 DEF CloseInv, Kept, Noticed, InTime
  <2>4. Responsible'
    BY <2>1 DEF CloseInv, Responsible, Closer
  <2> QED
    BY <2>2, <2>3, <2>4 DEF CloseInv
<1> QED
  BY <1>1, <1>2

\* One step of the queue, as far as the mission's own job goes.
QueueMoves(m) ==
  \/ /\ job'[m] = job[m] /\ pc'[m] = pc[m] /\ route'[m] = route[m]
     /\ attemptsMade'[m] = attemptsMade[m]
  \/ /\ job[m] = "waiting" /\ job'[m] = "active" /\ pc[m] = "idle"
     /\ pc'[m] = "check" /\ route'[m] = "main"
  \/ /\ pc[m] = "job-done" /\ job'[m] = "completed" /\ pc'[m] = "idle"
     /\ route'[m] = route[m]
  \/ /\ pc[m] = "job-failed" /\ pc'[m] = "idle" /\ route'[m] = route[m]
     /\ job'[m] = IF LastAttempt(m) THEN "failed" ELSE "waiting"

LEMMA QueueMovesOne ==
  ASSUME Known, NEW j \in Jobs, JobStep(j)
  PROVE  /\ UNCHANGED <<audit, cancelRequested, mission, api, todo, inHand>>
         /\ \A m \in Missions : QueueMoves(m)
         /\ pc'[PlanJob] \in {pc[PlanJob], "idle", "plan-guard"}
         /\ \/ job'[PlanJob] = job[PlanJob] /\ pc'[PlanJob] = pc[PlanJob]
            \/ job'[PlanJob] = "completed" /\ pc[PlanJob] = "job-done"
            \/ job'[PlanJob] \notin {"completed", "none"}
<1>0. /\ PlanJob \in Jobs \ Missions /\ Missions \subseteq Jobs
      /\ pc \in [Jobs -> Labels]
      /\ route \in [Jobs -> {"main", "cancel", "retry", "last"}]
      /\ job \in [Jobs -> {"none", "waiting", "active", "completed", "failed"}]
      /\ attemptsMade \in [Jobs -> Nat]
      /\ \A k \in Jobs : pc[k] # "idle" => job[k] = "active"
  BY MissionsAssumption DEF Known, TypeInvariant, ProcessorTypes, QueueTypes, Jobs,
     FinalInv, QueuedOnce
<1>1. CASE StartJob(j)
  <2>1. \A m \in Missions : QueueMoves(m)
    BY <1>0, <1>1 DEF StartJob, QueueMoves
  <2> QED
    BY <1>0, <1>1, <2>1 DEF StartJob, auditRow, missionRows, clients
<1>2. CASE JobDone(j)
  <2>1. \A m \in Missions : QueueMoves(m)
    BY <1>0, <1>2 DEF JobDone, QueueMoves, Goto
  <2> QED
    BY <1>0, <1>2, <2>1 DEF JobDone, Goto, auditRow, missionRows, clients
<1>3. CASE JobFailed(j)
  <2>1. \A m \in Missions : QueueMoves(m)
    <3> SUFFICES ASSUME NEW m \in Missions PROVE QueueMoves(m)
      OBVIOUS
    <3>1. Attempts(m) = MaxAttempts[m] /\ MaxAttempts[m] \in Nat
      BY <1>0, MissionsAssumption DEF Attempts
    <3>2. attemptsMade[m] + 1 < Attempts(m) <=> ~LastAttempt(m)
      BY <1>0, <3>1 DEF LastAttempt
    <3>3. CASE m = j
      BY <1>0, <1>3, <3>2, <3>3 DEF JobFailed, QueueMoves, Goto
    <3>4. CASE m # j
      BY <1>0, <1>3, <3>4 DEF JobFailed, QueueMoves, Goto
    <3> QED
      BY <3>3, <3>4
  <2> QED
    BY <1>0, <1>3, <2>1 DEF JobFailed, Goto, auditRow, missionRows, clients
<1> QED
  BY <1>1, <1>2, <1>3 DEF JobStep

LEMMA QueueKeepsClose ==
  ASSUME Known, CloseInv, NEW j \in Jobs, JobStep(j)
  PROVE  CloseInv'
<1> USE DEF Arriving, Working, Deciding, Cancelling, Reporting, Generating
<1>0. /\ UNCHANGED <<audit, cancelRequested, mission, api>>
      /\ \A m \in Missions : QueueMoves(m)
      /\ pc'[PlanJob] \in {pc[PlanJob], "idle", "plan-guard"}
  BY QueueMovesOne
<1>1. StartInv'
  <2>1. api' \notin {"failed?", "failed!"} /\ (Planned' => audit' \notin Unwritten')
    <3>1. ASSUME NEW m \in Missions, job'[m] # "none" PROVE job[m] # "none"
      BY <1>0, <3>1 DEF QueueMoves, Known, FinalInv, QueuedOnce, Jobs
    <3>2. pc'[PlanJob] \in PlanLoop => pc[PlanJob] \in PlanLoop
      BY <1>0 DEF PlanLoop
    <3>3. Planned' => Planned
      BY <3>1, <3>2 DEF Planned, Unqueued, PlanLoop
    <3> QED
      BY <1>0, <3>3 DEF CloseInv, StartInv, Unwritten
  <2>2. ASSUME audit' \in Early, NEW m \in Missions PROVE Fresh(m)'
    <3>1. Fresh(m) /\ QueueMoves(m)
      BY <1>0, <2>2 DEF CloseInv, StartInv
    <3> QED
      BY <1>0, <3>1 DEF QueueMoves, Fresh, Absent
  <2>3. ASSUME NEW m \in Missions PROVE Retries(m)'
    <3>1. Retries(m) /\ QueueMoves(m)
      BY <1>0 DEF CloseInv, StartInv
    <3> QED
      BY <3>1 DEF QueueMoves, Retries, LastAttempt
  <2> QED
    BY <2>1, <2>2, <2>3 DEF StartInv, Early, Unwritten
<1>2. ASSUME NEW m \in Missions PROVE Kept(m)' /\ Noticed(m)' /\ InTime(m)'
  <2>1. Kept(m) /\ Noticed(m) /\ InTime(m) /\ QueueMoves(m) /\ Retries(m)
    BY <1>0 DEF CloseInv, StartInv
  <2>2. Lost' <=> Lost
    BY <1>0 DEF Lost, Early, Unwritten
  <2>3. Kept(m)'
    <3>1. mission'[m] = "running" => pc'[m] = pc[m] /\ mission[m] = "running"
      <4>1. mission[m] = "running" => pc[m] \notin {"idle", "job-done", "job-failed"}
        BY <2>1 DEF Kept
      <4> QED
        BY <1>0, <2>1, <4>1 DEF QueueMoves
    <3>2. ASSUME mission[m] = "queued", ~Lost
          PROVE  \/ job'[m] \in {"none", "waiting"}
                 \/ pc'[m] \in Arriving \cup {"start?", "start!", "cancel?", "cancel!"}
                 \/ pc'[m] = "job-failed" /\ route'[m] = "retry"
      <4>1. \/ job[m] \in {"none", "waiting"}
            \/ pc[m] \in Arriving \cup {"start?", "start!", "cancel?", "cancel!"}
            \/ pc[m] = "job-failed" /\ route[m] = "retry" /\ ~LastAttempt(m)
        BY <2>1, <3>2 DEF Kept, Retries
      <4>2. pc[m] # "idle" => job[m] \notin {"none", "waiting"}
        BY DEF Known, FinalInv, QueuedOnce, Jobs
      <4> QED
        BY <2>1, <4>1, <4>2 DEF QueueMoves
    <3> QED
      BY <1>0, <2>1, <2>2, <3>1, <3>2 DEF Kept
  <2>4. Noticed(m)'
    BY <1>0, <2>1 DEF Noticed, QueueMoves
  <2>5. InTime(m)'
    <3>1. ASSUME NEW n \in Missions, pc[n] \notin Decided PROVE pc'[n] \notin Decided'
      BY <1>0, <3>1 DEF QueueMoves, Decided
    <3> QED
      BY <1>0, <2>1, <3>1 DEF InTime, QueueMoves, Decided
  <2> QED
    BY <2>3, <2>4, <2>5
<1>3. Responsible'
  <2>1. ASSUME NEW m \in Missions, Closer(m) PROVE Closer(m)'
    <3>1. QueueMoves(m) /\ Retries(m) /\ (pc[m] # "idle" => job[m] = "active")
      BY <1>0 DEF CloseInv, StartInv, Known, FinalInv, QueuedOnce, Jobs
    <3> QED
      BY <2>1, <3>1 DEF QueueMoves, Closer, Ahead, Retries
  <2>2. ASSUME NEW m \in Missions
        PROVE  /\ pc[m] \in Generating => pc'[m] \in Generating'
               /\ pc[m] \in Reporting => pc'[m] \in Reporting'
    BY <1>0 DEF QueueMoves
  <2> QED
    BY <1>0, <2>1, <2>2 DEF CloseInv, Responsible
<1> QED
  BY <1>1, <1>2, <1>3 DEF CloseInv

\* Where the planner goes, as far as it matters here: into its loop by way of
\* queued, and out of it when every mission's job is queued.
PlannerGoes ==
  /\ pc'[PlanJob] \in PlanLoop => pc[PlanJob] \in PlanLoop \/ audit' = "queued"
  /\ (\E m \in Missions : job'[m] # job[m]) => pc[PlanJob] \in PlanLoop
  /\ pc'[PlanJob] = "plan-queued!" => todo' = Missions
  /\ pc'[PlanJob] \in PlanLoop =>
       \/ pc[PlanJob] = "plan-queued?" /\ todo' = Missions
       \/ pc[PlanJob] \in {"plan-queued!"} \cup PlanLoop /\ todo' = todo
       \/ /\ pc[PlanJob] \in PlanLoop
          /\ \E m \in Missions : todo' = todo \ {m} /\ job'[m] # "none"
  /\ pc'[PlanJob] = "job-done" => pc[PlanJob] \in PlanLoop /\ todo = {}

LEMMA PlannerGoesOn ==
  ASSUME Known, Planner
  PROVE  PlannerGoes
<1>0. /\ PlanJob \in Jobs /\ pc \in [Jobs -> Labels] /\ audit \in AuditStatus
      /\ job \in [Jobs -> {"none", "waiting", "active", "completed", "failed"}]
      /\ Missions \subseteq Jobs
  BY DEF Known, TypeInvariant, ProcessorTypes, QueueTypes, AuditRowTypes, Jobs
<1>1. CASE PlanGuard \/ PlanCheck \/ PlanSnapshot \/ PlanUnsafe \/ PlanRowsDone
  BY <1>0, <1>1 DEF PlanGuard, PlanCheck, PlanSnapshot, PlanUnsafe, PlanRowsDone,
     Landing, WriteAudit, Goto, Local, NoWrite, queue, PlanLoop, PlannerGoes
<1>2. CASE PlanQueued
  <2>1. CASE pc[PlanJob] = "plan-queued?"
    <3>1. /\ todo' = Missions /\ UNCHANGED <<job, audit>>
          /\ \/ pc'[PlanJob] = "plan-mission?" /\ audit = "queued"
             \/ pc'[PlanJob] \in {"plan-queued!", "job-failed"}
      BY <1>0, <1>2, <2>1 DEF PlanQueued, Landing, WriteAudit, Local, NoWrite, queue,
         auditRow
    <3> QED
      BY <2>1, <3>1 DEF PlannerGoes, PlanLoop
  <2>2. CASE pc[PlanJob] = "plan-queued!"
    BY <1>0, <1>2, <2>2 DEF PlanQueued, WriteAudit, Goto, queue, PlanLoop, PlannerGoes
  <2> QED
    BY <1>2, <2>1, <2>2 DEF PlanQueued, WriteAudit
<1>3. CASE PlanLoopDone
  BY <1>0, <1>3 DEF PlanLoopDone, Goto, Local, NoWrite, queue, PlanLoop, PlannerGoes
<1>4. ASSUME NEW m \in Missions, PlanRow(m) PROVE PlannerGoes
  BY <1>0, <1>4 DEF PlanRow, queue, PlanLoop, PlannerGoes
<1>5. ASSUME NEW m \in Missions, PlanMissionRead(m) \/ PlanMissionWrite(m)
      PROVE  PlannerGoes
  BY <1>0, <1>5 DEF PlanMissionRead, PlanMissionWrite, WriteMission, Goto, Landing,
     Local, NoWrite, queue, PlanLoop, PlannerGoes
<1>6. ASSUME NEW m \in Missions, PlanEnqueue(m) PROVE PlannerGoes
  <2>1. pc[PlanJob] \in PlanLoop
    BY <1>6 DEF PlanEnqueue, PlanLoop
  <2>2. \/ pc'[PlanJob] = "job-failed"
        \/ /\ pc'[PlanJob] = "plan-mission?"
           /\ todo' = todo \ {m} /\ job'[m] # "none"
    BY <1>0, <1>6 DEF PlanEnqueue, Goto
  <2> QED
    BY <2>1, <2>2 DEF PlannerGoes, PlanLoop
<1> QED
  BY <1>1, <1>2, <1>3, <1>4, <1>5, <1>6 DEF Planner

LEMMA PlannerKeepsClose ==
  ASSUME Known, CloseInv, Planner
  PROVE  CloseInv'
<1> USE DEF Arriving, Working, Deciding, Cancelling, Reporting, Generating
<1>0. /\ UNCHANGED <<cancelRequested, route, attemptsMade, api>>
      /\ \A m \in Missions : /\ pc'[m] = pc[m]
                             /\ \/ job'[m] = job[m]
                                \/ job'[m] = "waiting" /\ job[m] = "none"
      /\ PlannerGoes /\ PlannerWrites
      /\ \A j \in Jobs : pc[j] # "idle" => job[j] = "active"
      /\ api' \notin {"failed?", "failed!"}
  BY PlannerKeepsFrame, PlannerGoesOn, PlannerWritesItsOwn
     DEF Known, clients, FinalInv, QueuedOnce, CloseInv, StartInv
<1>1. CASE ~UNCHANGED audit
  <2>1. /\ pc[PlanJob] \in PlannerLabels \ PlanLoop
        /\ audit' \in {"queued", "failed"} /\ UNCHANGED mission
    BY <1>0, <1>1 DEF PlannerWrites, WritesAudit, PlannerLabels, PlanLoop
  <2>2. \A m \in Missions : Unqueued(m) /\ job'[m] = job[m]
    BY <1>0, <2>1 DEF PlannerGoes, Known, FinalInv, QueuedOnce
  <2> QED
    BY <1>0, <2>1, <2>2, BeforeJobsKeepsClose DEF Unwritten
<1>2. CASE UNCHANGED audit
  <2>1. \A m \in Missions :
          \/ mission'[m] = mission[m]
          \/ mission[m] = Absent /\ mission'[m] = "created"
          \/ mission'[m] = "queued" /\ Unqueued(m)
    <3>1. pc[PlanJob] = "plan-mission!" => Unqueued(inHand)
      BY DEF Known, FinalInv, QueuedOnce, PlanLoop
    <3> QED
      BY <1>0, <3>1 DEF PlannerWrites, Known, TypeInvariant, MissionRowTypes
  <2>2. StartInv'
    <3>1. Planned' => audit' \notin Unwritten
      BY <1>0, <1>2 DEF Planned, PlannerGoes, CloseInv, StartInv, Unqueued, Unwritten
    <3>2. ASSUME audit' \in Early, NEW m \in Missions PROVE Fresh(m)'
      BY <1>0, <1>2, <2>1, <3>2 DEF CloseInv, StartInv, Fresh, Absent
    <3>3. ASSUME NEW m \in Missions PROVE Retries(m)'
      BY <1>0 DEF CloseInv, StartInv, Retries, LastAttempt
    <3> QED
      BY <1>0, <3>1, <3>2, <3>3 DEF StartInv, Early, Unwritten
  <2>3. ASSUME NEW m \in Missions PROVE Kept(m)' /\ Noticed(m)' /\ InTime(m)'
    <3>1. /\ Kept(m) /\ Noticed(m) /\ InTime(m)
          /\ Unqueued(m) => pc[m] = "idle" /\ job'[m] \in {"none", "waiting"}
      BY <1>0 DEF CloseInv, Unqueued, Jobs
    <3>2. Kept(m)'
      BY <1>0, <1>2, <2>1, <3>1 DEF Kept, Lost, Early, Unwritten, Absent
    <3>3. Noticed(m)'
      BY <1>0, <2>1, <3>1 DEF Noticed, Absent
    <3>4. InTime(m)'
      BY <1>0, <1>2, <2>1, <3>1 DEF InTime, Decided, Absent
    <3> QED
      BY <3>2, <3>3, <3>4
  <2>4. Responsible'
    BY <1>0, <1>2 DEF CloseInv, Responsible, Closer, Ahead
  <2> QED
    BY <2>2, <2>3, <2>4 DEF CloseInv
<1> QED
  BY <1>1, <1>2

LEMMA NextClose ==
  ASSUME \A kind \in FaultKinds : MaxFaults[kind] = 0, Known, CloseInv, [Next]_vars
  PROVE  CloseInv'
<1>0. /\ MaxFaults["queue"] = 0 /\ MaxFaults["refusal"] = 0
      /\ ~Fault("crash")
  BY NoFaultOf DEF FaultKinds, Known
<1>1. CASE UNCHANGED vars
  BY <1>1, BystanderKeepsClose DEF vars, auditRow, missionRows, queue, processors,
     clients, CloseInv, StartInv
<1>2. CASE Api
  BY <1>0, <1>2, ApiKeepsClose
<1>3. CASE Planner
  BY <1>3, PlannerKeepsClose
<1>4. ~(Crash \/ ApiCrash)
  BY <1>0 DEF Crash, ApiCrash
<1>5. CASE \E c \in Cancellers : CancelRead(c) \/ CancelTx(c)
  BY <1>5, CancelKeepsClose
<1>6. CASE \E j \in Jobs : JobStep(j)
  BY <1>6, QueueKeepsClose
<1>7. CASE \E m \in Missions : MissionWorker(m)
  BY <1>0, <1>7, WorkerKeepsClose
<1> QED
  BY <1>1, <1>2, <1>3, <1>4, <1>5, <1>6, <1>7 DEF Next

\* The planner leaves its loop well only when every mission's job is queued.
QueuesAll ==
  /\ pc[PlanJob] = "plan-queued!" => todo = Missions
  /\ pc[PlanJob] \in PlanLoop => \A m \in Missions \ todo : ~Unqueued(m)
  /\ pc[PlanJob] = "job-done" \/ job[PlanJob] = "completed" =>
       \A m \in Missions : ~Unqueued(m)

LEMMA NextQueuesAll ==
  ASSUME MaxFaults["crash"] = 0, Known, QueuesAll, [Next]_vars
  PROVE  QueuesAll'
<1>0. /\ PlanJob \in Jobs \ Missions /\ Missions \subseteq Jobs
      /\ job \in [Jobs -> {"none", "waiting", "active", "completed", "failed"}]
      /\ \A j \in Jobs : pc[j] # "idle" => job[j] = "active"
      /\ TypeInvariant /\ Busy /\ ~Fault("crash")
  BY MissionsAssumption, NoFaultOf DEF Known, TypeInvariant, QueueTypes, Jobs, RowsInv,
     Busy, FaultKinds
<1>1. CASE Planner
  <2>1. /\ \A m \in Missions : \/ job'[m] = job[m]
                               \/ job'[m] = "waiting" /\ job[m] = "none"
        /\ pc[PlanJob] # "idle" /\ job'[PlanJob] = job[PlanJob]
        /\ PlannerGoes
    BY <1>0, <1>1, PlannerKeepsFrame, PlannerGoesOn
  <2>2. job'[PlanJob] # "completed"
    BY <1>0, <2>1
  <2>3. pc'[PlanJob] = "plan-queued!" => todo' = Missions
    BY <2>1 DEF PlannerGoes
  <2>4. ASSUME pc'[PlanJob] \in PlanLoop, NEW m \in Missions \ todo'
        PROVE  ~Unqueued(m)'
    <3>1. job[m] # "none" => job'[m] # "none"
      BY <2>1
    <3>2. \/ todo' = Missions
          \/ todo' = todo /\ (pc[PlanJob] = "plan-queued!" \/ ~Unqueued(m))
          \/ \E n \in Missions : /\ todo' = todo \ {n} /\ job'[n] # "none"
                                 /\ pc[PlanJob] \in PlanLoop
      BY <2>1, <2>4 DEF PlannerGoes, QueuesAll
    <3> QED
      BY <2>4, <3>1, <3>2 DEF QueuesAll, Unqueued
  <2>5. ASSUME pc'[PlanJob] = "job-done", NEW m \in Missions PROVE ~Unqueued(m)'
    BY <2>1, <2>5 DEF PlannerGoes, QueuesAll, Unqueued
  <2> QED
    BY <2>2, <2>3, <2>4, <2>5 DEF QueuesAll, PlanLoop
<1>2. CASE ~Planner
  <2>1. /\ pc'[PlanJob] \in {pc[PlanJob], "idle", "plan-guard"} /\ todo' = todo
    BY <1>0, <1>2, OthersLeavePlanner
  <2>2. /\ \A m \in Missions : job'[m] = "none" => job[m] = "none"
        /\ job'[PlanJob] = "completed" =>
             job[PlanJob] = "completed" \/ pc[PlanJob] = "job-done"
    <3>1. CASE Api
      BY <1>0, <3>1 DEF Api, ApiRead, ApiWrite, ApiEnqueue, ApiUsage, queue
    <3>2. CASE \/ UNCHANGED vars
               \/ \E c \in Cancellers : CancelRead(c) \/ CancelTx(c)
      BY <3>2 DEF vars, CancelRead, CancelTx, queue
    <3>3. CASE \E j \in Jobs : JobStep(j)
      BY <1>0, <3>3, QueueMovesOne DEF QueueMoves
    <3>4. CASE \E m \in Missions : MissionWorker(m)
      BY <3>4, WorkerTakesStep DEF WorkerStep
    <3> QED
      BY <1>0, <1>2, <3>1, <3>2, <3>3, <3>4 DEF Next, Crash, ApiCrash
  <2> QED
    BY <2>1, <2>2 DEF QueuesAll, Unqueued, PlanLoop
<1> QED
  BY <1>1, <1>2

\* Where nobody is left to act, nobody is left to close the audit.
LEMMA QuietIsClosed ==
  ASSUME Missions # {}, Known, CloseInv, QueuesAll
  PROVE  NoStrandedPlannedAudit
<1> SUFFICES ASSUME Quiet, job[PlanJob] = "completed", audit \notin TerminalAudit
             PROVE  FALSE
  BY DEF NoStrandedPlannedAudit
<1>1. \A m \in Missions : job[m] \notin {"none", "waiting", "active"} /\ pc[m] = "idle"
  BY DEF Quiet, QueuesAll, Unqueued, Known, FinalInv, QueuedOnce, Jobs
<1>2. audit \notin Early
  BY <1>1 DEF CloseInv, StartInv, Fresh
<1>3. audit \in {"running", "analyzing", "generating_report"}
  BY <1>2 DEF Known, TypeInvariant, AuditRowTypes, AuditStatus, TerminalAudit, Early,
     Unwritten
<1> QED
  BY <1>1, <1>3 DEF CloseInv, Responsible, Closer, Ahead, Arriving, Working, Deciding,
     Cancelling, Generating, Reporting

\* As long as nothing dies, no queue addition answers late and no accepted
\* target is refused: whatever the order of cancel requests, failed and timed
\* out attempts, retries and finalizers, and however many jobs run at a time,
\* an audit whose planning job returned is terminal when nobody is left to
\* act. (planAuditMissions never returns an empty plan.)
THEOREM NoPlannedAuditIsStranded ==
  ASSUME Missions # {}, \A kind \in FaultKinds : MaxFaults[kind] = 0
  PROVE  Spec => []NoStrandedPlannedAudit
<1>0. MaxFaults["crash"] = 0
  BY DEF FaultKinds
<1>1. Init => TypeInvariant /\ FinalInv /\ RowsInv /\ CancelOnRequest
  BY MissionsAssumption, InitTypes, InitRows DEF Init, FinalInv, QueuedOnce, NotStarted,
     CompletedIsSafe, OverwritingLabels, Unqueued, Jobs, Absent, PlannerLabels,
     PlanLoop, BeforeEnqueue, CancelOnRequest, NothingCancelled, CancelPath
<1>2. Init => CloseInv /\ QueuesAll
  <2> SUFFICES ASSUME Init PROVE CloseInv /\ QueuesAll
    OBVIOUS
  <2>1. /\ \A m \in Missions : /\ job[m] = "none" /\ pc[m] = "idle"
                               /\ mission[m] = Absent /\ route[m] = "main"
        /\ pc[PlanJob] = "idle" /\ job[PlanJob] = "none"
        /\ audit = "created" /\ api = "validating?"
    BY DEF Init, Jobs
  <2>2. StartInv
    BY <2>1 DEF StartInv, Planned, PlanLoop, Unqueued, Fresh, Retries
  <2> QED
    BY <2>1, <2>2 DEF CloseInv, Kept, Noticed, InTime, Responsible, QueuesAll, Absent,
       PlanLoop
<1>3. Known /\ CloseInv /\ QueuesAll /\ [Next]_vars => (Known /\ CloseInv /\ QueuesAll)'
  <2> SUFFICES ASSUME Known, CloseInv, QueuesAll, [Next]_vars
               PROVE  (Known /\ CloseInv /\ QueuesAll)'
    OBVIOUS
  <2>1. Known'
    BY <1>0, NextTypes, NextFinal, NextRows, NextCancelOnRequest DEF Known
  <2> QED
    BY <1>0, <2>1, NextClose, NextQueuesAll
<1>4. Known /\ CloseInv /\ QueuesAll => NoStrandedPlannedAudit
  BY QuietIsClosed
<1>5. Init => Known
  BY <1>1 DEF Known
<1> QED
  BY <1>2, <1>3, <1>4, <1>5, PTL DEF Spec

=============================================================================
