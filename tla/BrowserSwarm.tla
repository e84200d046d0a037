---------------------------- MODULE BrowserSwarm ----------------------------
(***************************************************************************)
(* browserSwarmMission: one orchestrator that starts its agents in batches *)
(* and reports the run when they are through.  Node runs one continuation  *)
(* at a time, so an action is the code between two awaits.  An agent's own *)
(* loop (autonomousBrowserMission) is one step with every outcome the      *)
(* orchestrator tells apart.                                               *)
(***************************************************************************)
EXTENDS Integers, FiniteSets, FiniteSetsExt, Functions

CONSTANTS
  RoleCount,      \* browserSwarmAgentRoles
  MaxAgents,      \* SWARM_MAX_AGENTS
  MaxConcurrent,  \* SWARM_MAX_CONCURRENT_AGENTS
  Budget,         \* the budget of each meter
  AgentUses,      \* what one agent may add to the meters
  MaxFaults       \* how often the database may fail

Meters ==
  {"totalSteps", "providerCalls", "navigations", "screenshots",
   "inputTokens", "outputTokens", "estimatedCostUsd"}

\* The configuration allows at most as many agents as there are roles.
ASSUME SwarmAssumption ==
  /\ RoleCount \in Nat
  /\ MaxAgents \in 1..RoleCount
  /\ MaxConcurrent \in 1..MaxAgents
  /\ Budget \in [Meters -> Nat]
  /\ AgentUses \subseteq [Meters -> Nat]
  /\ MaxFaults \in Nat

\* The agents, in the order of their roles.
Agents == 1..MaxAgents

VARIABLES
  runRow,       \* what the BrowserSwarmRun row says
  agentRow,     \* status of each BrowserSwarmAgent row, or Absent
  agentSteps,   \* stepsUsed in each agent's row
  pc,           \* where the orchestrator is
  first,        \* the first agent of its current batch
  agentPc,      \* where the promise of each agent is
  using,        \* what each agent's mission used
  used,         \* totals of the meters
  created,      \* totals.agentsCreated
  completed,    \* totals.agentsCompleted
  active,       \* totals.activeAgents
  covered,      \* sharedState.completedAgentRoles
  late,         \* whether timeoutMs has elapsed
  reason,       \* terminalReason
  status,       \* runStatus
  report,       \* what is passed to completeBrowserSwarmRun
  mission,      \* what runMissionJob knows of the mission
  faults        \* failures of the database so far

rows     == <<runRow, agentRow, agentSteps>>
control  == <<pc, first, report>>
promises == <<agentPc, using>>
totals   == <<used, created, completed, active, covered>>
verdict  == <<reason, status>>
outside  == <<late, mission, faults>>
vars == <<rows, control, promises, totals, verdict, outside>>

Absent == "absent"
Nothing == [m \in Meters |-> 0]
Finished == {"completed", "completed_with_limitations", "failed", "cancelled"}

NoReport == [status |-> Absent, reason |-> "FINISHED", created |-> 0,
             completed |-> 0, used |-> Nothing, covered |-> {}]

Init ==
  /\ runRow = NoReport
  /\ agentRow = [a \in Agents |-> Absent]
  /\ agentSteps = [a \in Agents |-> 0]
  /\ pc = "create-run"
  /\ first = 1
  /\ agentPc = [a \in Agents |-> "none"]
  /\ using = [a \in Agents |-> Nothing]
  /\ used = Nothing
  /\ created = 0 /\ completed = 0 /\ active = 0 /\ covered = {}
  /\ late = FALSE
  /\ reason = "FINISHED" /\ status = "completed"
  /\ report = NoReport
  /\ mission = "running"
  /\ faults = 0

DatabaseFails ==
  /\ faults < MaxFaults
  /\ faults' = faults + 1

-----------------------------------------------------------------------------
(***************************************************************************)
(* hasSwarmBudgetRemaining: the reason to stop, or "none".  The caller     *)
(* heeds every reason but the first two, but gets only the first there is. *)
(***************************************************************************)
ReasonOf ==
  [m \in Meters |->
     CASE m \in {"totalSteps", "navigations", "screenshots"} ->
            "STEP_BUDGET_EXHAUSTED"
       [] m = "providerCalls" -> "PROVIDER_BUDGET_EXHAUSTED"
       [] OTHER -> "COST_BUDGET_EXHAUSTED"]

Precedence ==
  [m \in Meters |->
     CASE m = "totalSteps" -> 1 [] m = "providerCalls" -> 2
       [] m = "navigations" -> 3 [] m = "screenshots" -> 4
       [] m = "inputTokens" -> 5 [] m = "outputTokens" -> 6
       [] m = "estimatedCostUsd" -> 7]

Exhausted == {m \in Meters : used[m] >= Budget[m]}

Stopper(activeAgents) ==
  IF created >= MaxAgents THEN "AGENT_LIMIT_REACHED"
  ELSE IF activeAgents >= MaxConcurrent THEN "CONCURRENCY_LIMIT_REACHED"
  ELSE IF Exhausted # {} THEN
    ReasonOf[CHOOSE m \in Exhausted :
               \A n \in Exhausted : Precedence[m] <= Precedence[n]]
  ELSE IF late THEN "TIME_BUDGET_EXHAUSTED"
  ELSE "none"

\* Variant: the limits on agents are heeded, too.
HeededAll(r) == r # "none"

Heeded(r) ==
  r \notin {"none", "AGENT_LIMIT_REACHED", "CONCURRENCY_LIMIT_REACHED"}

-----------------------------------------------------------------------------
(***************************************************************************)
(* The orchestrator.                                                       *)
(***************************************************************************)

\* A failure here ends the mission with the rows as they are.
CreateRun ==
  /\ pc = "create-run"
  /\ \/ /\ runRow' = [NoReport EXCEPT !.status = "running"]
        /\ pc' = "create-agents"
        /\ UNCHANGED <<mission, faults>>
     \/ /\ DatabaseFails
        /\ pc' = "done" /\ mission' = "failed"
        /\ UNCHANGED runRow
  /\ UNCHANGED <<agentRow, agentSteps, first, report, promises, totals,
                 verdict, late>>

NotCreated == {a \in Agents : agentRow[a] = Absent}

CreateAgent ==
  /\ pc = "create-agents" /\ NotCreated # {}
  /\ \/ /\ agentRow' = [agentRow EXCEPT ![Min(NotCreated)] = "created"]
        /\ UNCHANGED <<pc, mission, faults>>
     \/ /\ DatabaseFails
        /\ pc' = "done" /\ mission' = "failed"
        /\ UNCHANGED agentRow
  /\ UNCHANGED <<runRow, agentSteps, first, report, promises, totals, verdict,
                 late>>

AgentsCreated ==
  /\ pc = "create-agents" /\ NotCreated = {}
  /\ created' = Cardinality(Agents)
  /\ pc' = "batch"
  /\ UNCHANGED <<rows, first, report, promises, used, completed, active,
                 covered, verdict, outside>>

Batch == {a \in Agents : first <= a /\ a < first + MaxConcurrent}

\* The part of every agent of a batch before its first await, run one after
\* the other: the first refusal of a budget holds for the rest of the batch,
\* and none follows a start.
StartBatch ==
  /\ pc = "batch" /\ Batch # {}
  /\ pc' = "await"
  /\ IF reason = "FINISHED" /\ ~Heeded(Stopper(active))
     THEN /\ agentPc' = [a \in Agents |->
               IF a \in Batch THEN "start!" ELSE agentPc[a]]
          /\ active' = active + Cardinality(Batch)
          /\ UNCHANGED verdict
     ELSE /\ agentPc' = [a \in Agents |->
               IF a \in Batch THEN "cancel!" ELSE agentPc[a]]
          /\ reason' = IF reason = "FINISHED" THEN Stopper(active) ELSE reason
          /\ status' = IF reason = "FINISHED" THEN "completed_with_limitations"
                       ELSE status
          /\ UNCHANGED active
  /\ UNCHANGED <<rows, first, report, using, used, created, completed,
                 covered, outside>>

\* Variant: Promise.race in the place of Promise.all.
BatchDoneRace ==
  /\ pc = "await"
  /\ \E a \in Batch : agentPc[a] = "out"
  /\ pc' = "batch"
  /\ first' = first + MaxConcurrent
  /\ UNCHANGED <<rows, report, promises, totals, verdict, outside>>

BatchDone ==
  /\ pc = "await"
  /\ \A a \in Batch : agentPc[a] = "out"
  /\ pc' = "batch"
  /\ first' = first + MaxConcurrent
  /\ UNCHANGED <<rows, report, promises, totals, verdict, outside>>

\* What is passed to completeBrowserSwarmRun: the step budget has the last
\* word, over a failure of the orchestrator, too.
Report(r, s) ==
  LET over == used["totalSteps"] >= Budget["totalSteps"]
  IN  [status |-> IF over THEN "completed_with_limitations" ELSE s,
       reason |-> IF over THEN "STEP_BUDGET_EXHAUSTED" ELSE r,
       created |-> created, completed |-> completed, used |-> used,
       covered |-> covered]

\* One rejected agent rejects the batch; the others go on on their own.
BatchFailed ==
  /\ pc = "await"
  /\ \E a \in Batch : agentPc[a] = "rejected"
  /\ pc' = "complete!"
  /\ reason' = "ORCHESTRATOR_FAILURE" /\ status' = "failed"
  /\ report' = Report("ORCHESTRATOR_FAILURE", "failed")
  /\ UNCHANGED <<rows, first, promises, totals, outside>>

AllBatchesDone ==
  /\ pc = "batch" /\ Batch = {}
  /\ pc' = "complete!"
  /\ report' = Report(reason, status)
  /\ UNCHANGED <<rows, first, promises, totals, verdict, outside>>

\* A mission that has timed out stays failed.
MissionEnds(as) ==
  mission' = IF mission = "running" THEN as ELSE mission

\* Variant: the run of a mission that was given up is not written.
CompleteRunInTime ==
  /\ pc = "complete!"
  /\ pc' = "done"
  /\ runRow' = IF mission = "running" THEN report ELSE runRow
  /\ MissionEnds("completed")
  /\ UNCHANGED <<agentRow, agentSteps, first, report, promises, totals,
                 verdict, late, faults>>

CompleteRun ==
  /\ pc = "complete!"
  /\ pc' = "done"
  /\ \/ runRow' = report /\ MissionEnds("completed") /\ UNCHANGED faults
     \/ DatabaseFails /\ MissionEnds("failed") /\ UNCHANGED runRow
  /\ UNCHANGED <<agentRow, agentSteps, first, report, promises, totals,
                 verdict, late>>

Orchestrator ==
  \/ CreateRun \/ CreateAgent \/ AgentsCreated \/ StartBatch \/ BatchDone
  \/ BatchFailed \/ AllBatchesDone \/ CompleteRun

-----------------------------------------------------------------------------
(***************************************************************************)
(* runAgent from its first await on.                                       *)
(***************************************************************************)
Step(a, from, to) ==
  /\ agentPc[a] = from
  /\ agentPc' = [agentPc EXCEPT ![a] = to]

\* An update of the agent's row that succeeds, or throws, with or without
\* having taken effect.
UpdateAgent(a, from, as, to, error) ==
  /\ \/ Step(a, from, to) /\ UNCHANGED faults
     \/ Step(a, from, error) /\ DatabaseFails
  /\ \/ agentRow' = [agentRow EXCEPT ![a] = as]
     \/ faults' # faults /\ UNCHANGED agentRow

\* The first update of an agent, running or cancelled. It stands before the
\* try: where it throws, activeAgents stays as it is.
BeginAgent(a) ==
  /\ IF agentPc[a] = "start!"
     THEN UpdateAgent(a, "start!", "running", "mission", "rejected")
     ELSE UpdateAgent(a, "cancel!", "cancelled", "out", "rejected")
  /\ UNCHANGED <<runRow, agentSteps, control, using, totals, verdict, late,
                 mission>>

\* Variant: the agent is counted before its mission has ended well.
MissionOverCountedFirst(a) ==
  /\ \/ /\ Step(a, "mission", "finish!")
        /\ \E u \in AgentUses :
             /\ using' = [using EXCEPT ![a] = u]
             /\ used' = [m \in Meters |-> used[m] + u[m]]
        /\ UNCHANGED status
     \/ Step(a, "mission", "fail!") /\ UNCHANGED <<using, used, status>>
  /\ completed' = completed + 1
  /\ covered' = covered \cup {a}
  /\ UNCHANGED <<rows, control, created, active, reason, outside>>

\* autonomousBrowserMission returns, with or without limitations, and its
\* totals are added; or something throws.
MissionOver(a) ==
  /\ \/ /\ \/ Step(a, "mission", "finish!") /\ UNCHANGED status
           \/ /\ Step(a, "mission", "finish-limited!")
              /\ status' = "completed_with_limitations"
        /\ \E u \in AgentUses :
             /\ using' = [using EXCEPT ![a] = u]
             /\ used' = [m \in Meters |-> used[m] + u[m]]
        /\ completed' = completed + 1
        /\ covered' = covered \cup {a}
     \/ /\ Step(a, "mission", "fail!")
        /\ status' = "completed_with_limitations"
        /\ UNCHANGED <<using, used, completed, covered>>
  /\ UNCHANGED <<rows, control, created, active, reason, outside>>

\* Variant: an agent whose last update fails is counted down twice.
FinishAgentTwiceDown(a, from, as) ==
  /\ UpdateAgent(a, from, as, "check", "fail!")
  /\ active' = active - 1
  /\ UNCHANGED <<runRow, agentSteps, control, using, used, created, completed,
                 covered, verdict, late, mission>>

\* The update that ends the try block; its failure goes to the catch.
FinishAgent(a, from, as) ==
  /\ UpdateAgent(a, from, as, "check", "fail!")
  /\ agentSteps' = IF agentRow' = agentRow THEN agentSteps
                   ELSE [agentSteps EXCEPT ![a] = using[a]["totalSteps"]]
  /\ active' = IF faults' = faults THEN active - 1 ELSE active
  /\ status' = IF faults' = faults THEN status
               ELSE "completed_with_limitations"
  /\ UNCHANGED <<runRow, control, using, used, created, completed, covered,
                 reason, late, mission>>

\* Variant: an error of the catch's own update is swallowed.
FailAgentSwallowed(a) ==
  /\ UpdateAgent(a, "fail!", "failed", "check", "check")
  /\ active' = active - 1
  /\ UNCHANGED <<runRow, agentSteps, control, using, used, created, completed,
                 covered, verdict, late, mission>>

\* The catch; the finally block counts the agent down either way.
FailAgent(a) ==
  /\ UpdateAgent(a, "fail!", "failed", "check", "rejected")
  /\ active' = active - 1
  /\ UNCHANGED <<runRow, agentSteps, control, using, used, created, completed,
                 covered, verdict, late, mission>>

AggregateCheck(a) ==
  /\ Step(a, "check", "out")
  /\ IF Heeded(Stopper(0))
     THEN reason' = Stopper(0) /\ status' = "completed_with_limitations"
     ELSE UNCHANGED verdict
  /\ UNCHANGED <<rows, control, using, totals, outside>>

Agent(a) ==
  \/ BeginAgent(a) \/ MissionOver(a)
  \/ FinishAgent(a, "finish!", "completed")
  \/ FinishAgent(a, "finish-limited!", "completed_with_limitations")
  \/ FailAgent(a) \/ AggregateCheck(a)

-----------------------------------------------------------------------------
Elapse ==
  /\ ~late /\ late' = TRUE
  /\ UNCHANGED <<rows, control, promises, totals, verdict, mission, faults>>

\* runWithTimeout gives the mission up; nothing stops what it started.
MissionTimeout ==
  /\ mission = "running" /\ mission' = "failed"
  /\ UNCHANGED <<rows, control, promises, totals, verdict, late, faults>>

Next ==
  \/ Orchestrator
  \/ \E a \in Agents : Agent(a)
  \/ Elapse \/ MissionTimeout

Spec == Init /\ [][Next]_vars

\* Node runs every continuation that is due, and every awaited call ends: a
\* statement with its answer or error, an agent's mission within its budgets.
FairSpec ==
  /\ Spec
  /\ WF_vars(Orchestrator)
  /\ \A a \in Agents : WF_vars(Agent(a))

-----------------------------------------------------------------------------
(***************************************************************************)
(* Properties.                                                             *)
(***************************************************************************)
AgentLabels ==
  {"none", "start!", "cancel!", "mission", "finish!", "finish-limited!",
   "fail!", "check", "out", "rejected"}

RunRows ==
  [status : Finished \cup {Absent, "running"},
   reason : {"FINISHED", "ORCHESTRATOR_FAILURE", "STEP_BUDGET_EXHAUSTED",
             "PROVIDER_BUDGET_EXHAUSTED", "COST_BUDGET_EXHAUSTED",
             "TIME_BUDGET_EXHAUSTED"},
   created : Nat, completed : Nat, used : [Meters -> Nat],
   covered : SUBSET Agents]

\* Every row, total and promise holds a value the code gives a meaning to.
TypeInvariant ==
  /\ runRow \in RunRows /\ report \in RunRows
  /\ agentRow \in [Agents -> Finished \cup {Absent, "created", "running"}]
  /\ agentSteps \in [Agents -> Nat]
  /\ pc \in {"create-run", "create-agents", "batch", "await", "complete!",
             "done"}
  /\ first \in Nat \ {0}
  /\ agentPc \in [Agents -> AgentLabels]
  /\ using \in [Agents -> [Meters -> Nat]]
  /\ used \in [Meters -> Nat]
  /\ created \in Nat /\ completed \in Nat /\ active \in Int
  /\ covered \subseteq Agents
  /\ late \in BOOLEAN
  /\ reason \in {"FINISHED", "ORCHESTRATOR_FAILURE", "STEP_BUDGET_EXHAUSTED",
                 "PROVIDER_BUDGET_EXHAUSTED", "COST_BUDGET_EXHAUSTED",
                 "TIME_BUDGET_EXHAUSTED"}
  /\ status \in {"completed", "completed_with_limitations", "failed"}
  /\ mission \in {"running", "completed", "failed"}
  /\ faults \in Nat

AtWork ==
  {a \in Agents : agentPc[a] \in {"start!", "mission", "finish!",
                                  "finish-limited!", "fail!"}}

\* However agents fail, and whatever the orchestrator does about it,
\* activeAgents never says fewer than there are, and never more than
\* maxConcurrentAgents are at work.
ConcurrencyBounded ==
  Cardinality(AtWork) <= active /\ active <= MaxConcurrent

StepsIn(steps) == FoldFunction(+, 0, steps)

\* A run that says completed is a run of all its agents, each of them
\* completed and covered, with the steps their rows add up to.
CleanRunIsWhole ==
  runRow.status = "completed" =>
    /\ \A a \in Agents : agentRow[a] = "completed"
    /\ runRow.covered = Agents
    /\ runRow.created = MaxAgents /\ runRow.completed = MaxAgents
    /\ runRow.used["totalSteps"] = StepsIn(agentSteps)

\* Unless the orchestrator failed, a reported run leaves no agent open, and
\* its totals have nothing less than the agents' rows.
ReportedRunIsClosed ==
  runRow.status \in Finished /\ reason # "ORCHESTRATOR_FAILURE" =>
    /\ \A a \in Agents : agentRow[a] \in Finished
    /\ runRow.used["totalSteps"] >= StepsIn(agentSteps)
    /\ \A a \in Agents :
         agentRow[a] \in {"completed", "completed_with_limitations"} =>
           a \in runRow.covered

\* A reported run, whichever way it ended, says what its agents' rows say.
ReportAddsUp == CleanRunIsWhole /\ ReportedRunIsClosed

\* Unless the orchestrator failed, no agent writes its row and no total moves
\* once the run is reported, even when the mission has been given up before.
RunIsTheLastWord ==
  [][runRow.status \in Finished /\ reason # "ORCHESTRATOR_FAILURE" =>
       UNCHANGED <<runRow, agentRow, agentSteps, totals>>]_vars

\* As long as the database answers, every run and every agent that was
\* started is closed, timeout or not.
SwarmSettles ==
  /\ runRow.status = "running" ~> (runRow.status \in Finished \/ faults > 0)
  /\ \A a \in Agents :
       agentRow[a] = "running" ~> (agentRow[a] \in Finished \/ faults > 0)

(***************************************************************************)
(* Said of the program, and not so.                                        *)
(***************************************************************************)

\* Budget exhaustion stops new work
\* (docs/architecture/autonomous-browser-swarm.md).
BudgetStopsNewWork ==
  [][\A a \in Agents :
       agentPc[a] = "none" /\ agentPc'[a] = "start!" => Exhausted = {}]_vars

=============================================================================
