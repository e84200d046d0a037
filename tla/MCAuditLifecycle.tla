-------------------------- MODULE MCAuditLifecycle --------------------------
(***************************************************************************)
(* Small audits for TLC: three kinds of mission definition are enough to   *)
(* tell apart a required mission that is retried, a required one that is   *)
(* not, and an optional one.                                               *)
(***************************************************************************)
EXTENDS AuditLifecycle, TLC

CONSTANTS linkTester, formTester, accessibilityReviewer

\* maxAttempts of missionDefinitions.
DefinedAttempts ==
  [m \in {linkTester, formTester, accessibilityReviewer} |->
     IF m = linkTester THEN 2 ELSE 1]

MCMaxAttempts == [m \in Missions |-> DefinedAttempts[m]]

Faults(crash, queueing, refusal) ==
  [k \in FaultKinds |->
     CASE k = "crash" -> crash [] k = "queue" -> queueing
       [] k = "refusal" -> refusal]

NoFaults   == Faults(0, 0, 0)
OneCrash   == Faults(1, 0, 0)
OneRefusal == Faults(0, 0, 1)
OneOfEach  == Faults(1, 1, 1)

LinkOnly      == {linkTester}
LinkAndForm   == {linkTester, formTester}
AllThree      == {linkTester, formTester, accessibilityReviewer}

=============================================================================
