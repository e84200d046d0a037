--------------------------- MODULE MCGitHubExport ---------------------------
(***************************************************************************)
(* Small exports for TLC: one batch over two findings, or two batches that *)
(* share a finding.                                                        *)
(***************************************************************************)
EXTENDS GitHubExport, TLC

CONSTANTS f1, f2, r1, r2

MCFaults(crash, queueing, lost) ==
  [k \in FaultKinds |->
     CASE k = "crash" -> crash [] k = "queue" -> queueing
       [] k = "lost" -> lost]

NoFaults  == MCFaults(0, 0, 0)
OneOfEach == MCFaults(1, 1, 1)
TwoLost   == MCFaults(1, 0, 2)

\* r1 exports every finding, r2 the one that both share.
MCSelected ==
  [r \in Requests |-> IF r = r1 THEN Findings ELSE {f1}]

=============================================================================
