---------------------------- MODULE AuditPromise ----------------------------
(***************************************************************************)
(* What the status tables promise about an audit and its missions, with    *)
(* no processes in it: every change of a status is one listed move, the    *)
(* audit completes only over missions that are all terminal and required   *)
(* ones that passed, and once running it fails only when no mission is     *)
(* open.  AuditLifecycle implements it as long as the worker runs one job  *)
(* at a time and nobody cancels.                                           *)
(***************************************************************************)
EXTENDS StatusTables

CONSTANTS Missions, Required

VARIABLES audit, mission

vars == <<audit, mission>>

Init ==
  /\ audit = "created"
  /\ mission = [m \in Missions |-> Absent]

\* Missions are planned before the audit is queued.
PlanMission(m) ==
  /\ mission[m] = Absent
  /\ audit \notin {"created", "running", "analyzing", "generating_report"}
  /\ mission' = [mission EXCEPT ![m] = "created"]
  /\ UNCHANGED audit

MoveMission(m) ==
  /\ mission[m] # Absent
  /\ \E status \in missionTransitions[mission[m]] :
       mission' = [mission EXCEPT ![m] = status]
  /\ UNCHANGED audit

MoveAudit ==
  \E status \in auditTransitions[audit] :
    /\ status = "completed" =>
         /\ \A m \in Missions : mission[m] \in TerminalMission
         /\ \A m \in Required : mission[m] = "completed"
    /\ status = "failed" /\ audit = "running" =>
         \A m \in Missions : mission[m] \in TerminalMission
    /\ audit' = status
    /\ UNCHANGED mission

Next == MoveAudit \/ \E m \in Missions : PlanMission(m) \/ MoveMission(m)

Spec == Init /\ [][Next]_vars

=============================================================================
