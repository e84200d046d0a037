---------------------------- MODULE StatusTables ----------------------------
(***************************************************************************)
(* The two status vocabularies of packages/shared and the moves that       *)
(* assertValidAuditTransition and assertValidMissionTransition accept.     *)
(* Timestamps that a move also stamps are data no property tells apart.    *)
(***************************************************************************)

AuditStatus ==
  {"created", "validating", "planning", "queued", "running", "analyzing",
   "generating_report", "completed", "failed", "cancelled"}

TerminalAudit == {"completed", "failed", "cancelled"}

auditTransitions ==
  [created           |-> {"validating", "failed", "cancelled"},
   validating        |-> {"planning", "queued", "failed", "cancelled"},
   planning          |-> {"queued", "failed", "cancelled"},
   queued            |-> {"running", "failed", "cancelled"},
   running           |-> {"analyzing", "failed", "cancelled"},
   analyzing         |-> {"generating_report", "completed", "failed",
                          "cancelled"},
   generating_report |-> {"completed", "failed", "cancelled"},
   completed         |-> {},
   failed            |-> {},
   cancelled         |-> {}]

MissionStatus ==
  {"created", "queued", "running", "completed", "failed", "cancelled",
   "skipped"}

TerminalMission == {"completed", "failed", "cancelled", "skipped"}

missionTransitions ==
  [created   |-> {"queued", "skipped", "cancelled"},
   queued    |-> {"running", "cancelled"},
   running   |-> {"completed", "failed", "cancelled"},
   completed |-> {},
   failed    |-> {"queued"},
   cancelled |-> {},
   skipped   |-> {}]

\* A mission row that persistMissionPlan has not created yet.
Absent == "absent"

=============================================================================
