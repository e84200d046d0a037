--------------------------- MODULE MCBrowserSwarm ---------------------------
(***************************************************************************)
(* Small swarms for TLC: three agents in two batches, of which each uses   *)
(* no step, one, or the two of its own limit.                              *)
(***************************************************************************)
EXTENDS BrowserSwarm, TLC

\* A budget of three steps and three provider calls; the others are ample.
MCBudget ==
  [m \in Meters |-> IF m \in {"totalSteps", "providerCalls"} THEN 3 ELSE 9]

Use(steps) ==
  [m \in Meters |-> IF m \in {"totalSteps", "providerCalls"} THEN steps ELSE 0]

MCAgentUses == {Use(n) : n \in 0..2}

=============================================================================
