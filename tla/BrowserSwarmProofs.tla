------------------------- MODULE BrowserSwarmProofs -------------------------
(***************************************************************************)
(* What holds of the swarm for every number of agents, every concurrency,  *)
(* every budget and use of it, and every number of database failures.      *)
(***************************************************************************)
EXTENDS BrowserSwarm, FiniteSetTheorems, WellFoundedInduction, TLAPS

LEMMA Constants ==
  /\ MaxAgents \in Nat \ {0} /\ MaxConcurrent \in Nat \ {0}
  /\ Budget \in [Meters -> Nat] /\ AgentUses \subseteq [Meters -> Nat]
  /\ Nothing \in [Meters -> Nat]
  /\ NoReport \in RunRows
BY SwarmAssumption DEF Nothing, NoReport, RunRows, Absent, Finished

LEMMA AgentsFinite ==
  /\ IsFiniteSet(Agents) /\ Cardinality(Agents) = MaxAgents
BY Constants, FS_Interval DEF Agents

\* A batch has no more agents than may run at once.
LEMMA BatchBounded ==
  ASSUME first \in Nat
  PROVE  /\ IsFiniteSet(Batch)
         /\ Cardinality(Batch) \in Nat
         /\ Cardinality(Batch) <= MaxConcurrent
<1> DEFINE Window == first..(first + MaxConcurrent - 1)
<1>1. IsFiniteSet(Window) /\ Cardinality(Window) = MaxConcurrent
  BY Constants, FS_Interval
<1>2. Batch \subseteq Window
  BY Constants DEF Batch, Agents
<1>3. QED
  BY <1>1, <1>2, FS_Subset, FS_CardinalityType

-----------------------------------------------------------------------------
LEMMA ReportTyped ==
  ASSUME TypeInvariant,
         NEW r \in {"FINISHED", "ORCHESTRATOR_FAILURE",
                    "STEP_BUDGET_EXHAUSTED", "PROVIDER_BUDGET_EXHAUSTED",
                    "COST_BUDGET_EXHAUSTED", "TIME_BUDGET_EXHAUSTED"},
         NEW s \in {"completed", "completed_with_limitations", "failed"}
  PROVE  Report(r, s) \in RunRows
BY DEF TypeInvariant, Report, RunRows, Finished

(***************************************************************************)
(* From the moment the agents exist their number is the limit on agents,   *)
(* so that is the reason every check gets, whatever the meters say.        *)
(***************************************************************************)
NoneRefused ==
  \A a \in Agents : agentPc[a] # "cancel!" /\ agentRow[a] # "cancelled"

Masked ==
  /\ pc \in {"batch", "await"} => created = MaxAgents
  /\ pc \notin {"complete!", "done"} => reason = "FINISHED"
  /\ \A a \in Agents : agentPc[a] # "none" => created = MaxAgents
  /\ NoneRefused

LEMMA NothingHeeded ==
  ASSUME created = MaxAgents, NEW n
  PROVE  ~Heeded(Stopper(n))
BY Constants DEF Heeded, Stopper

TypedAndMasked == TypeInvariant /\ Masked

LEMMA OrchestratorTyped ==
  ASSUME TypedAndMasked, Orchestrator
  PROVE  TypedAndMasked'
<1> USE DEF TypedAndMasked, TypeInvariant, Masked, NoneRefused
<1>1. CASE CreateRun
  <2>1. [NoReport EXCEPT !.status = "running"] \in RunRows
    <3>1. \A r \in RunRows : [r EXCEPT !.status = "running"] \in RunRows
      BY DEF RunRows
    <3>2. QED
      BY <3>1, Constants
  <2>2. runRow' = [NoReport EXCEPT !.status = "running"] \/ runRow' = runRow
    BY <1>1 DEF CreateRun
  <2>3. runRow' \in RunRows
    BY <2>1, <2>2
  <2>4. faults' \in Nat
    BY <1>1 DEF CreateRun, DatabaseFails
  <2>5. QED
    BY <1>1, <2>3, <2>4 DEF CreateRun, promises, totals, verdict
<1>2. CASE CreateAgent
  <2>1. /\ agentRow' \in [Agents -> Finished \cup {Absent, "created", "running"}]
        /\ \A a \in Agents : agentRow'[a] # "cancelled"
        /\ faults' \in Nat
    BY <1>2 DEF CreateAgent, DatabaseFails
  <2>2. QED
    BY <1>2, <2>1 DEF CreateAgent, promises, totals, verdict
<1>3. CASE AgentsCreated
  BY <1>3, AgentsFinite, Constants DEF AgentsCreated, promises, verdict,
    outside, rows
<1>4. CASE StartBatch
  <2>1. created = MaxAgents /\ reason = "FINISHED"
    BY <1>4 DEF StartBatch
  <2>2. ~Heeded(Stopper(active))
    BY <2>1, NothingHeeded
  <2>3. Cardinality(Batch) \in Nat
    BY BatchBounded
  <2>4. /\ agentPc' = [a \in Agents |->
             IF a \in Batch THEN "start!" ELSE agentPc[a]]
        /\ active' = active + Cardinality(Batch)
        /\ UNCHANGED verdict
    BY <1>4, <2>1, <2>2 DEF StartBatch
  <2>5. QED
    BY <1>4, <2>1, <2>3, <2>4 DEF StartBatch, rows, verdict, outside,
      AgentLabels
<1>5. CASE BatchDone
  BY <1>5, Constants DEF BatchDone, rows, promises, totals, verdict, outside
<1>6. CASE BatchFailed
  <2>1. Report("ORCHESTRATOR_FAILURE", "failed") \in RunRows
    BY ReportTyped
  <2>2. QED
    BY <1>6, <2>1 DEF BatchFailed, rows, promises, totals, outside
<1>7. CASE AllBatchesDone
  <2>1. Report(reason, status) \in RunRows
    BY ReportTyped
  <2>2. QED
    BY <1>7, <2>1 DEF AllBatchesDone, rows, promises, totals, verdict, outside
<1>8. CASE CompleteRun
  BY <1>8 DEF CompleteRun, MissionEnds, DatabaseFails, promises, totals,
    verdict
<1>9. QED
  BY <1>1, <1>2, <1>3, <1>4, <1>5, <1>6, <1>7, <1>8 DEF Orchestrator

LEMMA AgentTyped ==
  ASSUME TypedAndMasked, NEW a \in Agents, Agent(a)
  PROVE  TypedAndMasked'
<1> USE DEF TypedAndMasked, TypeInvariant, Masked, NoneRefused
<1>1. CASE BeginAgent(a)
  <2>1. agentPc[a] = "start!"
    BY <1>1 DEF BeginAgent, UpdateAgent, Step
  <2>2. UpdateAgent(a, "start!", "running", "mission", "rejected")
    BY <1>1, <2>1 DEF BeginAgent
  <2>3. agentPc' \in [Agents -> AgentLabels] /\ faults' \in Nat
    BY <2>2 DEF UpdateAgent, Step, DatabaseFails, AgentLabels
  <2>4. \/ agentRow' = [agentRow EXCEPT ![a] = "running"]
        \/ agentRow' = agentRow
    BY <2>2 DEF UpdateAgent
  <2>5. \/ agentPc' = [agentPc EXCEPT ![a] = "mission"]
        \/ agentPc' = [agentPc EXCEPT ![a] = "rejected"]
    BY <2>2 DEF UpdateAgent, Step
  <2>6. QED
    BY <1>1, <2>1, <2>3, <2>4, <2>5 DEF BeginAgent, control, totals, verdict
<1>2. CASE MissionOver(a)
  <2>1. agentPc[a] = "mission" /\ \E to \in {"finish!", "finish-limited!", "fail!"} :
           agentPc' = [agentPc EXCEPT ![a] = to]
    BY <1>2 DEF MissionOver, Step
  <2>2. /\ using' \in [Agents -> [Meters -> Nat]] /\ used' \in [Meters -> Nat]
        /\ completed' \in Nat /\ covered' \subseteq Agents
        /\ status' \in {"completed", "completed_with_limitations", "failed"}
    <3>1. ASSUME NEW u \in AgentUses,
                 using' = [using EXCEPT ![a] = u],
                 used' = [m \in Meters |-> used[m] + u[m]]
          PROVE  using' \in [Agents -> [Meters -> Nat]] /\ used' \in [Meters -> Nat]
      BY <3>1, Constants
    <3>2. QED
      BY <1>2, <3>1 DEF MissionOver
  <2>3. /\ agentPc' \in [Agents -> AgentLabels]
        /\ \A b \in Agents : agentPc'[b] # "cancel!"
        /\ \A b \in Agents : agentPc'[b] # "none" => agentPc[b] # "none"
    BY <2>1 DEF AgentLabels
  <2>4. UNCHANGED <<rows, control, created, active, reason, outside>>
    BY <1>2 DEF MissionOver
  <2>5. TypeInvariant'
    BY <2>2, <2>3, <2>4 DEF rows, control, outside
  <2>6. Masked'
    BY <2>3, <2>4 DEF rows, control, outside
  <2>7. QED
    BY <2>5, <2>6
<1>3. ASSUME NEW from \in {"finish!", "finish-limited!"},
             NEW as \in {"completed", "completed_with_limitations"},
             FinishAgent(a, from, as)
      PROVE  TypedAndMasked'
  <2>1. agentPc[a] = from /\ \E to \in {"check", "fail!"} :
           agentPc' = [agentPc EXCEPT ![a] = to]
    BY <1>3 DEF FinishAgent, UpdateAgent, Step
  <2>2. faults' \in Nat
    BY <1>3 DEF FinishAgent, UpdateAgent, DatabaseFails
  <2>6. agentRow' = [agentRow EXCEPT ![a] = as] \/ agentRow' = agentRow
    BY <1>3 DEF FinishAgent, UpdateAgent
  <2>7. /\ agentRow' \in [Agents -> Finished \cup {Absent, "created", "running"}]
        /\ \A b \in Agents : agentRow'[b] # "cancelled"
    BY <2>6 DEF Finished
  <2>8. /\ agentPc' \in [Agents -> AgentLabels]
        /\ \A b \in Agents : agentPc'[b] # "cancel!"
        /\ \A b \in Agents : agentPc'[b] # "none" => agentPc[b] # "none"
    BY <2>1 DEF AgentLabels
  <2>3. agentSteps' \in [Agents -> Nat]
    <3>1. using[a]["totalSteps"] \in Nat
      BY DEF Meters
    <3>2. QED
      BY <1>3, <3>1 DEF FinishAgent
  <2>4. active' \in Int
        /\ status' \in {"completed", "completed_with_limitations", "failed"}
    BY <1>3 DEF FinishAgent
  <2>5. QED
    BY <1>3, <2>2, <2>3, <2>4, <2>7, <2>8 DEF FinishAgent, control
<1>4. CASE FailAgent(a)
  <2>1. agentPc[a] = "fail!" /\ \E to \in {"check", "rejected"} :
           agentPc' = [agentPc EXCEPT ![a] = to]
    BY <1>4 DEF FailAgent, UpdateAgent, Step
  <2>2. /\ agentRow' = [agentRow EXCEPT ![a] = "failed"] \/ agentRow' = agentRow
        /\ faults' \in Nat
    BY <1>4 DEF FailAgent, UpdateAgent, DatabaseFails
  <2>3. QED
    BY <1>4, <2>1, <2>2 DEF FailAgent, control, verdict, AgentLabels, Finished
<1>5. CASE AggregateCheck(a)
  <2>1. created = MaxAgents
    BY <1>5 DEF AggregateCheck, Step
  <2>2. ~Heeded(Stopper(0))
    BY <2>1, NothingHeeded
  <2>3. QED
    BY <1>5, <2>2 DEF AggregateCheck, Step, rows, control, totals, verdict,
      outside, AgentLabels
<1>6. QED
  BY <1>1, <1>2, <1>3, <1>4, <1>5 DEF Agent

LEMMA SwarmTyped == Spec => []TypedAndMasked
<1>1. Init => TypedAndMasked
  <2> SUFFICES ASSUME Init PROVE TypeInvariant /\ Masked
    BY DEF TypedAndMasked
  <2>1. TypeInvariant
    <3> USE DEF Init
    <3>1. /\ runRow \in RunRows /\ report \in RunRows
          /\ using \in [Agents -> [Meters -> Nat]] /\ used \in [Meters -> Nat]
      BY Constants
    <3>2. /\ agentRow \in [Agents -> Finished \cup {Absent, "created", "running"}]
          /\ agentSteps \in [Agents -> Nat]
          /\ agentPc \in [Agents -> AgentLabels]
      BY DEF AgentLabels
    <3>3. /\ created \in Nat /\ completed \in Nat /\ active \in Int
          /\ first \in Nat \ {0} /\ faults \in Nat /\ covered \subseteq Agents
      OBVIOUS
    <3>4. late \in BOOLEAN
      OBVIOUS
    <3>5. QED
      BY <3>1, <3>2, <3>3, <3>4 DEF TypeInvariant
  <2>2. Masked
    BY DEF Init, Masked, NoneRefused, Absent
  <2>3. QED
    BY <2>1, <2>2
<1>2. TypedAndMasked /\ [Next]_vars => TypedAndMasked'
  <2> SUFFICES ASSUME TypedAndMasked, [Next]_vars
               PROVE  TypedAndMasked'
    OBVIOUS
  <2> USE DEF TypedAndMasked, TypeInvariant, Masked, NoneRefused
  <2>1. CASE Elapse
    BY <2>1 DEF Elapse, rows, control, promises, totals, verdict
  <2>2. CASE MissionTimeout
    BY <2>2 DEF MissionTimeout, rows, control, promises, totals, verdict
  <2>3. CASE UNCHANGED vars
    BY <2>3 DEF vars, rows, control, promises, totals, verdict, outside
  <2>4. CASE Orchestrator
    BY <2>4, OrchestratorTyped
  <2>5. ASSUME NEW a \in Agents, Agent(a) PROVE TypedAndMasked'
    BY <2>5, AgentTyped
  <2>6. QED
    BY <2>1, <2>2, <2>3, <2>4, <2>5 DEF Next
<1>3. QED
  BY <1>1, <1>2, PTL DEF Spec

\* Every row, total and promise is of its type.
THEOREM SwarmTypeCorrect == Spec => []TypeInvariant
BY SwarmTyped, PTL DEF TypedAndMasked

\* No budget ever keeps an agent from starting, in any configuration that
\* is allowed.
THEOREM BudgetsRefuseNobody == Spec => []NoneRefused
BY SwarmTyped, PTL DEF TypedAndMasked, Masked

-----------------------------------------------------------------------------
(***************************************************************************)
(* ConcurrencyBounded.  activeAgents lies between the agents at work and   *)
(* those plus the rejected ones, which it may or may not count still, and  *)
(* all of them belong to the current batch.                                *)
(***************************************************************************)
Held == AtWork \cup {a \in Agents : agentPc[a] = "rejected"}

Slots ==
  /\ Cardinality(AtWork) <= active /\ active <= Cardinality(Held)
  /\ Held \subseteq Batch
  /\ pc \in {"create-run", "create-agents", "batch"} => Held = {}

LEMMA HeldFinite ==
  /\ IsFiniteSet(AtWork) /\ Cardinality(AtWork) \in Nat
  /\ IsFiniteSet(Held) /\ Cardinality(Held) \in Nat
<1>1. AtWork \subseteq Agents /\ Held \subseteq Agents
  BY DEF AtWork, Held
<1>2. QED
  BY <1>1, AgentsFinite, FS_Subset, FS_CardinalityType

\* Steps of the orchestrator: only the start of a batch fills slots.
LEMMA OrchestratorKeepsSlots ==
  ASSUME TypedAndMasked, Slots, Orchestrator
  PROVE  Slots'
<1> USE DEF TypedAndMasked, TypeInvariant
<1>1. CASE StartBatch
  <2>1. created = MaxAgents /\ reason = "FINISHED" /\ Held = {}
    BY <1>1 DEF StartBatch, Masked, Slots
  <2>2. ~Heeded(Stopper(active))
    BY <2>1, NothingHeeded
  <2>3. /\ agentPc' = [a \in Agents |->
             IF a \in Batch THEN "start!" ELSE agentPc[a]]
        /\ active' = active + Cardinality(Batch)
        /\ first' = first /\ pc' = "await"
    BY <1>1, <2>1, <2>2 DEF StartBatch
  <2>4. AtWork' = Batch /\ Held' = Batch /\ Batch' = Batch
    BY <2>1, <2>3 DEF AtWork, Held, Batch
  <2>5. AtWork = {}
    BY <2>1 DEF Held
  <2>6. active = 0
    BY <2>1, <2>5, FS_EmptySet DEF Slots
  <2>7. Cardinality(Batch) \in Nat
    BY BatchBounded
  <2>8. QED
    BY <2>3, <2>4, <2>6, <2>7 DEF Slots
<1>2. CASE BatchDone
  <2>1. \A a \in Batch : agentPc[a] = "out"
    BY <1>2 DEF BatchDone
  <2>2. Held = {}
    BY <2>1 DEF Held, AtWork, Slots
  <2>3. AtWork' = AtWork /\ Held' = Held /\ active' = active
    BY <1>2 DEF BatchDone, promises, totals, AtWork, Held
  <2>4. QED
    BY <2>2, <2>3 DEF Slots
<1>3. CASE ~StartBatch /\ ~BatchDone
  <2>1. /\ AtWork' = AtWork /\ Held' = Held /\ Batch' = Batch
        /\ active' = active
    BY <1>3 DEF Orchestrator, CreateRun, CreateAgent, AgentsCreated,
      BatchFailed, AllBatchesDone, CompleteRun, promises, totals, AtWork,
      Held, Batch
  <2>2. pc' \in {"create-run", "create-agents", "batch"} =>
          pc \in {"create-run", "create-agents", "batch"}
    BY <1>3 DEF Orchestrator, CreateRun, CreateAgent, AgentsCreated,
      BatchFailed, AllBatchesDone, CompleteRun
  <2>3. QED
    BY <2>1, <2>2 DEF Slots
<1>4. QED
  BY <1>1, <1>2, <1>3

\* An agent that leaves its work gives up its slot, or keeps it when it is
\* rejected; no step of an agent takes a new one.
LEMMA AgentKeepsSlots ==
  ASSUME TypedAndMasked, Slots, NEW a \in Agents, Agent(a)
  PROVE  Slots'
<1> USE DEF TypedAndMasked, TypeInvariant
<1>1. pc' = pc /\ Batch' = Batch
  BY DEF Agent, BeginAgent, MissionOver, FinishAgent, FailAgent,
         AggregateCheck, control, Batch
<1>2. CASE AtWork' = AtWork /\ Held' = Held /\ active' = active
  BY <1>1, <1>2 DEF Slots
<1>3. CASE a \in AtWork /\ AtWork' = AtWork \ {a} /\ Held' = Held
           /\ active' \in {active, active - 1}
  <2>1. Cardinality(AtWork \ {a}) = Cardinality(AtWork) - 1
    BY <1>3, HeldFinite, FS_RemoveElement
  <2>2. QED
    BY <1>1, <1>3, <2>1, HeldFinite DEF Slots
<1>4. CASE a \in AtWork /\ AtWork' = AtWork \ {a} /\ Held' = Held \ {a}
           /\ active' = active - 1
  <2>1. a \in Held
    BY <1>4 DEF Held
  <2>2. /\ Cardinality(AtWork \ {a}) = Cardinality(AtWork) - 1
        /\ Cardinality(Held \ {a}) = Cardinality(Held) - 1
    BY <1>4, <2>1, HeldFinite, FS_RemoveElement
  <2>3. QED
    BY <1>1, <1>4, <2>2, HeldFinite DEF Slots
<1>5. \/ AtWork' = AtWork /\ Held' = Held /\ active' = active
      \/ a \in AtWork /\ AtWork' = AtWork \ {a} /\ Held' = Held
         /\ active' \in {active, active - 1}
      \/ a \in AtWork /\ AtWork' = AtWork \ {a} /\ Held' = Held \ {a}
         /\ active' = active - 1
  <2> DEFINE Moves(from, to) ==
        agentPc[a] = from /\ agentPc' = [agentPc EXCEPT ![a] = to]
  <2>1. CASE BeginAgent(a)
    <3>1. agentPc[a] = "start!"
      BY <2>1 DEF BeginAgent, UpdateAgent, Step, Masked, NoneRefused
    <3>2. /\ Moves("start!", "mission") \/ Moves("start!", "rejected")
          /\ active' = active
      BY <2>1, <3>1 DEF BeginAgent, UpdateAgent, Step, totals
    <3>3. CASE Moves("start!", "mission")
      <4>1. AtWork' = AtWork /\ Held' = Held
        BY <3>3 DEF AtWork, Held
      <4>2. QED
        BY <3>2, <4>1
    <3>4. CASE Moves("start!", "rejected")
      <4>1. a \in AtWork /\ AtWork' = AtWork \ {a} /\ Held' = Held
        BY <3>4 DEF AtWork, Held
      <4>2. QED
        BY <3>2, <4>1
    <3>5. QED
      BY <3>2, <3>3, <3>4
  <2>2. CASE MissionOver(a)
    <3>1. PICK to \in {"finish!", "finish-limited!", "fail!"} :
            Moves("mission", to)
      BY <2>2 DEF MissionOver, Step
    <3>2. AtWork' = AtWork /\ Held' = Held
      BY <3>1 DEF AtWork, Held
    <3>3. QED
      BY <2>2, <3>2 DEF MissionOver
  <2>3. ASSUME NEW from \in {"finish!", "finish-limited!"},
               NEW as \in {"completed", "completed_with_limitations"},
               FinishAgent(a, from, as)
        PROVE  \/ AtWork' = AtWork /\ Held' = Held /\ active' = active
               \/ a \in AtWork /\ AtWork' = AtWork \ {a} /\ Held' = Held \ {a}
                  /\ active' = active - 1
    <3>1. \/ Moves(from, "check") /\ active' = active - 1
          \/ Moves(from, "fail!") /\ active' = active
      BY <2>3 DEF FinishAgent, UpdateAgent, Step, DatabaseFails
    <3>2. CASE Moves(from, "check") /\ active' = active - 1
      <4>1. a \in AtWork /\ AtWork' = AtWork \ {a} /\ Held' = Held \ {a}
        BY <3>2 DEF AtWork, Held
      <4>2. QED
        BY <3>2, <4>1
    <3>3. CASE Moves(from, "fail!") /\ active' = active
      <4>1. AtWork' = AtWork /\ Held' = Held
        BY <3>3 DEF AtWork, Held
      <4>2. QED
        BY <3>3, <4>1
    <3>4. QED
      BY <3>1, <3>2, <3>3
  <2>4. CASE FailAgent(a)
    <3>1. /\ Moves("fail!", "check") \/ Moves("fail!", "rejected")
          /\ active' = active - 1
      BY <2>4 DEF FailAgent, UpdateAgent, Step
    <3>2. CASE Moves("fail!", "check")
      <4>1. a \in AtWork /\ AtWork' = AtWork \ {a} /\ Held' = Held \ {a}
        BY <3>2 DEF AtWork, Held
      <4>2. QED
        BY <3>1, <4>1
    <3>3. CASE Moves("fail!", "rejected")
      <4>1. a \in AtWork /\ AtWork' = AtWork \ {a} /\ Held' = Held
        BY <3>3 DEF AtWork, Held
      <4>2. QED
        BY <3>1, <4>1
    <3>4. QED
      BY <3>1, <3>2, <3>3
  <2>5. CASE AggregateCheck(a)
    <3>1. Moves("check", "out") /\ active' = active
      BY <2>5 DEF AggregateCheck, Step, totals
    <3>2. AtWork' = AtWork /\ Held' = Held
      BY <3>1 DEF AtWork, Held
    <3>3. QED
      BY <3>1, <3>2
  <2>6. QED
    BY <2>1, <2>2, <2>3, <2>4, <2>5 DEF Agent
<1>6. QED
  BY <1>2, <1>3, <1>4, <1>5

\* activeAgents counts everybody who is at work, and never more than
\* maxConcurrentAgents are.
THEOREM SwarmConcurrencyBounded == Spec => []ConcurrencyBounded
<1>1. Init => Slots
  <2> SUFFICES ASSUME Init PROVE Slots
    OBVIOUS
  <2>1. AtWork = {} /\ Held = {} /\ active = 0
    BY DEF Init, AtWork, Held
  <2>2. QED
    BY <2>1, FS_EmptySet DEF Slots
<1>2. TypedAndMasked /\ Slots /\ [Next]_vars => Slots'
  <2> SUFFICES ASSUME TypedAndMasked, Slots, [Next]_vars
               PROVE  Slots'
    OBVIOUS
  <2>1. CASE Elapse \/ MissionTimeout \/ UNCHANGED vars
    <3>1. UNCHANGED <<agentPc, active, pc, first>>
      BY <2>1 DEF Elapse, MissionTimeout, vars, control, promises, totals
    <3>2. QED
      BY <3>1 DEF Slots, AtWork, Held, Batch
  <2>2. CASE Orchestrator
    BY <2>2, OrchestratorKeepsSlots
  <2>3. ASSUME NEW a \in Agents, Agent(a) PROVE Slots'
    BY <2>3, AgentKeepsSlots
  <2>4. QED
    BY <2>1, <2>2, <2>3 DEF Next
<1>3. TypedAndMasked /\ Slots => ConcurrencyBounded
  <2> SUFFICES ASSUME TypedAndMasked, Slots PROVE ConcurrencyBounded
    OBVIOUS
  <2>1. IsFiniteSet(Batch) /\ Cardinality(Batch) <= MaxConcurrent
        /\ Cardinality(Batch) \in Nat
    BY BatchBounded DEF TypedAndMasked, TypeInvariant
  <2>2. Cardinality(Held) <= Cardinality(Batch)
    BY <2>1, FS_Subset DEF Slots
  <2>3. active \in Int
    BY DEF TypedAndMasked, TypeInvariant
  <2>4. QED
    BY <2>1, <2>2, <2>3, HeldFinite, Constants DEF Slots, ConcurrencyBounded
<1>4. QED
  BY <1>1, <1>2, <1>3, SwarmTyped, PTL DEF Spec

-----------------------------------------------------------------------------
(***************************************************************************)
(* What StepsIn adds up.  A sum of natural numbers counts the units of its *)
(* summands, so that facts about sums follow from those of cardinalities,  *)
(* once the recursive function that the fold stands for is known to exist  *)
(* and to be unique on the subsets of a finite set.                        *)
(***************************************************************************)
\* Induction over the subsets of a finite set, for a set of subsets.
LEMMA SubsetInduction ==
  ASSUME NEW S, IsFiniteSet(S), NEW Good, {} \in Good,
         \A s \in SUBSET S :
           s # {} /\ (\A x \in s : s \ {x} \in Good) => s \in Good
  PROVE  \A s \in SUBSET S : s \in Good
<1> DEFINE Sizes == {Cardinality(s) : s \in {t \in SUBSET S : t \notin Good}}
<1>1. \A s \in SUBSET S : IsFiniteSet(s) /\ Cardinality(s) \in Nat
  BY FS_Subset, FS_CardinalityType
<1>2. SUFFICES ASSUME Sizes # {} PROVE FALSE
  OBVIOUS
<1>3. Sizes \subseteq Nat
  BY <1>1
<1> HIDE DEF Sizes
<1>4. PICK n \in Sizes : \A k \in Sizes : ~ (<<k, n>> \in OpToRel(<, Nat))
  BY <1>2, <1>3, NatLessThanWellFounded, WFMin
<1>5. \A k \in Sizes : n <= k
  <2> SUFFICES ASSUME NEW k \in Sizes, k < n PROVE FALSE
    BY <1>3
  <2>1. <<k, n>> \in Nat \X Nat /\ <<k, n>>[1] < <<k, n>>[2]
    BY <1>3
  <2>2. <<k, n>> \in OpToRel(<, Nat)
    BY <2>1 DEF OpToRel
  <2> QED
    BY <1>4, <2>2
<1>6. PICK s \in SUBSET S : s \notin Good /\ n = Cardinality(s)
  BY DEF Sizes
<1>7. PICK x \in s : s \ {x} \notin Good
  BY <1>6
<1>8. s \ {x} \in SUBSET S
  BY <1>6
<1>9. Cardinality(s \ {x}) \in Sizes
  BY <1>7, <1>8 DEF Sizes
<1>10. Cardinality(s \ {x}) = Cardinality(s) - 1
  BY <1>1, <1>7, FS_RemoveElement
<1> QED
  BY <1>1, <1>5, <1>6, <1>9, <1>10

\* The units of the summands of f at the places in s.
Units(f, s) == {p \in s \X Nat : p[2] \in 1..f[p[1]]}

LEMMA UnitsOfMore ==
  ASSUME NEW S, NEW f \in [S -> Nat], NEW s \in SUBSET S, NEW x \in s,
         IsFiniteSet(Units(f, s \ {x}))
  PROVE  /\ IsFiniteSet(Units(f, s))
         /\ Cardinality(Units(f, s)) = f[x] + Cardinality(Units(f, s \ {x}))
<1> DEFINE Own == {x} \X (1..f[x])
<1>1. f[x] \in Nat
  OBVIOUS
<1>2. IsFiniteSet(1..f[x]) /\ Cardinality(1..f[x]) = f[x]
  BY <1>1, FS_Interval
<1>3. IsFiniteSet({x}) /\ Cardinality({x}) = 1
  BY FS_Singleton
<1>4. IsFiniteSet(Own) /\ Cardinality(Own) = f[x]
  <2>1. IsFiniteSet(Own) /\ Cardinality(Own) = Cardinality({x}) * Cardinality(1..f[x])
    BY <1>2, <1>3, FS_Product
  <2> QED
    BY <1>1, <1>2, <1>3, <2>1
<1>5. Units(f, s) = Units(f, s \ {x}) \cup Own
  BY DEF Units
<1>6. Units(f, s \ {x}) \cap Own = {}
  BY DEF Units
<1> HIDE DEF Own
<1>7. /\ IsFiniteSet(Units(f, s \ {x}) \cup Own)
      /\ Cardinality(Units(f, s \ {x}) \cup Own) =
           Cardinality(Units(f, s \ {x})) + Cardinality(Own)
             - Cardinality(Units(f, s \ {x}) \cap Own)
  BY <1>4, FS_Union, Zenon
<1>8. Cardinality(Units(f, s \ {x}) \cap Own) = 0
  BY <1>6, FS_EmptySet
<1>9. Cardinality(Units(f, s \ {x})) \in Nat
  BY FS_CardinalityType
<1> QED
  BY <1>1, <1>4, <1>5, <1>7, <1>8, <1>9

LEMMA UnitsFinite ==
  ASSUME NEW S, IsFiniteSet(S), NEW f \in [S -> Nat]
  PROVE  \A s \in SUBSET S : IsFiniteSet(Units(f, s))
<1> DEFINE Good == {s \in SUBSET S : IsFiniteSet(Units(f, s))}
<1>1. {} \in Good
  <2>1. Units(f, {}) = {}
    BY DEF Units
  <2> QED
    BY <2>1, FS_EmptySet
<1>2. ASSUME NEW s \in SUBSET S, NEW x \in s, s \ {x} \in Good
      PROVE  s \in Good
  BY <1>2, UnitsOfMore
<1> HIDE DEF Good
<1>3. \A s \in SUBSET S : s \in Good
  <2>1. \A s \in SUBSET S :
           s # {} /\ (\A x \in s : s \ {x} \in Good) => s \in Good
    BY <1>2
  <2> QED
    BY <1>1, <2>1, SubsetInduction
<1> QED
  BY <1>3 DEF Good

\* The function of which the fold takes the value at the whole domain.
Pick(s) == CHOOSE x \in s : TRUE

Iterates(it, f, S) ==
  it = [s \in SUBSET S |->
          IF s = {} THEN 0 ELSE f[Pick(s)] + it[s \ {Pick(s)}]]

LEMMA StepsInIterates ==
  ASSUME NEW f
  PROVE  StepsIn(f) = (CHOOSE it : Iterates(it, f, DOMAIN f))[DOMAIN f]
BY DEF StepsIn, FoldFunction, FoldFunctionOnSet, MapThenFoldSet, Iterates,
  Pick

LEMMA UnitsIterate ==
  ASSUME NEW S, IsFiniteSet(S), NEW f \in [S -> Nat]
  PROVE  Iterates([s \in SUBSET S |-> Cardinality(Units(f, s))], f, S)
<1> DEFINE it == [s \in SUBSET S |-> Cardinality(Units(f, s))]
<1>1. ASSUME NEW s \in SUBSET S, s = {} PROVE it[s] = 0
  <2>1. Units(f, s) = {}
    BY <1>1 DEF Units
  <2> QED
    BY <2>1, FS_EmptySet
<1>2. ASSUME NEW s \in SUBSET S, s # {}
      PROVE  it[s] = f[Pick(s)] + it[s \ {Pick(s)}]
  <2>1. Pick(s) \in s
    BY <1>2 DEF Pick
  <2>2. s \ {Pick(s)} \in SUBSET S /\ IsFiniteSet(Units(f, s \ {Pick(s)}))
    BY UnitsFinite
  <2>3. Cardinality(Units(f, s))
          = f[Pick(s)] + Cardinality(Units(f, s \ {Pick(s)}))
    BY <2>1, <2>2, UnitsOfMore
  <2> QED
    BY <2>2, <2>3
<1>3. it = [s \in SUBSET S |->
              IF s = {} THEN 0 ELSE f[Pick(s)] + it[s \ {Pick(s)}]]
  <2> HIDE DEF it
  <2>1. it = [s \in SUBSET S |-> it[s]]
    BY DEF it
  <2> QED
    BY <1>1, <1>2, <2>1
<1> QED
  BY <1>3 DEF Iterates

\* A sum counts its units.
LEMMA SumCountsUnits ==
  ASSUME NEW S, IsFiniteSet(S), NEW f \in [S -> Nat]
  PROVE  /\ IsFiniteSet(Units(f, S))
         /\ StepsIn(f) = Cardinality(Units(f, S))
<1> DEFINE units == [s \in SUBSET S |-> Cardinality(Units(f, s))]
           it == CHOOSE i : Iterates(i, f, S)
           Good == {s \in SUBSET S : it[s] = units[s]}
<1>1. Iterates(units, f, S)
  BY UnitsIterate
<1>2. Iterates(it, f, S)
  <2> HIDE DEF units
  <2> QED
    BY <1>1
<1> HIDE DEF units, it
<1>3. \A s \in SUBSET S :
         /\ units[s] = IF s = {} THEN 0
                       ELSE f[Pick(s)] + units[s \ {Pick(s)}]
         /\ it[s] = IF s = {} THEN 0 ELSE f[Pick(s)] + it[s \ {Pick(s)}]
  BY <1>1, <1>2 DEF Iterates
<1>4. \A s \in SUBSET S : s # {} => Pick(s) \in s
  BY DEF Pick
<1>5. {} \in Good
  BY <1>3
<1>6. \A s \in SUBSET S :
         s # {} /\ (\A x \in s : s \ {x} \in Good) => s \in Good
  BY <1>3, <1>4
<1> HIDE DEF Good
<1>7. S \in Good
  BY <1>5, <1>6, SubsetInduction
<1>8. it[S] = Cardinality(Units(f, S))
  BY <1>7 DEF Good, units
<1>9. StepsIn(f) = it[S]
  BY StepsInIterates DEF it
<1> QED
  BY <1>8, <1>9, UnitsFinite

\* A sum of nothing but zeros is zero.
LEMMA SumOfZeros ==
  ASSUME NEW S, IsFiniteSet(S), NEW f \in [S -> Nat], \A x \in S : f[x] = 0
  PROVE  StepsIn(f) = 0
<1>1. Units(f, S) = {}
  BY DEF Units
<1> QED
  BY <1>1, SumCountsUnits, FS_EmptySet

\* A sum does not fall where none of its summands does.
LEMMA SumIsMonotone ==
  ASSUME NEW S, IsFiniteSet(S), NEW f \in [S -> Nat], NEW g \in [S -> Nat],
         \A x \in S : f[x] <= g[x]
  PROVE  StepsIn(f) <= StepsIn(g)
<1>1. Units(f, S) \subseteq Units(g, S)
  BY DEF Units
<1> QED
  BY <1>1, SumCountsUnits, FS_Subset

\* A summand that was zero adds what it becomes.
LEMMA SumGrowsBy ==
  ASSUME NEW S, IsFiniteSet(S), NEW f \in [S -> Nat], NEW a \in S, NEW n \in Nat,
         f[a] = 0
  PROVE  StepsIn([f EXCEPT ![a] = n]) = StepsIn(f) + n
<1> DEFINE g == [f EXCEPT ![a] = n]
<1>1. g \in [S -> Nat] /\ g[a] = n
  OBVIOUS
<1>2. \A x \in S \ {a} : g[x] = f[x]
  OBVIOUS
<1> HIDE DEF g
<1>3. /\ IsFiniteSet(Units(f, S \ {a})) /\ IsFiniteSet(Units(g, S \ {a}))
      /\ S \in SUBSET S
  BY <1>1, UnitsFinite
<1>4. /\ Cardinality(Units(f, S)) = f[a] + Cardinality(Units(f, S \ {a}))
      /\ Cardinality(Units(g, S)) = g[a] + Cardinality(Units(g, S \ {a}))
  BY <1>1, <1>3, UnitsOfMore
<1>5. Units(g, S \ {a}) = Units(f, S \ {a})
  BY <1>2 DEF Units
<1>6. Cardinality(Units(f, S \ {a})) \in Nat
  BY <1>3, FS_CardinalityType
<1>7. StepsIn(f) = Cardinality(Units(f, S)) /\ StepsIn(g) = Cardinality(Units(g, S))
  BY <1>1, SumCountsUnits
<1> QED
  BY <1>1, <1>4, <1>5, <1>6, <1>7 DEF g

-----------------------------------------------------------------------------
(***************************************************************************)
(* ReportAddsUp and RunIsTheLastWord.  Every agent keeps books: what its   *)
(* mission used stands in the totals from the moment it returns, and in    *)
(* its row from its last update on.  The batches say who is through and    *)
(* who has not begun, so that a report is taken when everybody is out, or  *)
(* names the failure of the orchestrator.                                  *)
(***************************************************************************)
Opening == {"none", "start!", "mission"}
Ending  == {"finish!", "finish-limited!"}

AgentBooks(a) ==
  /\ agentPc[a] \in Opening => a \notin covered /\ using[a]["totalSteps"] = 0
  /\ agentPc[a] \in Opening \cup Ending => agentRow[a] \notin Finished
  /\ agentPc[a] \in Ending => a \in covered
  /\ agentPc[a] \in {"check", "out"} => agentRow[a] \in Finished
  /\ agentSteps[a] \in {0, using[a]["totalSteps"]}
  /\ agentRow[a] \in {"completed", "completed_with_limitations"} =>
       a \in covered /\ agentSteps[a] = using[a]["totalSteps"]
  /\ status = "completed" =>
       /\ agentPc[a] \notin {"finish-limited!", "fail!"}
       /\ agentPc[a] \in {"check", "out"} => agentRow[a] = "completed"

UsedSteps == [a \in Agents |-> using[a]["totalSteps"]]

Books ==
  /\ \A a \in Agents : AgentBooks(a)
  /\ used["totalSteps"] = StepsIn(UsedSteps)
  /\ completed = Cardinality(covered)

Batches ==
  /\ pc \in {"create-run", "create-agents"} =>
       first = 1 /\ \A a \in Agents : agentPc[a] = "none"
  /\ pc = "batch" =>
       \A a \in Agents : agentPc[a] = IF a < first THEN "out" ELSE "none"
  /\ pc = "await" =>
       \A a \in Agents : /\ a < first => agentPc[a] = "out"
                         /\ a >= first + MaxConcurrent => agentPc[a] = "none"

AllOut == \A a \in Agents : agentPc[a] = "out"

Snapshot ==
  /\ AllOut
  /\ report.created = MaxAgents /\ report.completed = completed
  /\ report.used = used /\ report.covered = covered
  /\ report.status = "completed" => status = "completed"

Reports ==
  /\ report.status # Absent => pc \in {"complete!", "done"}
  /\ pc = "complete!" => report.status \in Finished
  /\ report.status # Absent =>
       IF reason = "ORCHESTRATOR_FAILURE" THEN report.status # "completed"
       ELSE Snapshot
  /\ runRow.status \in Finished => pc = "done" /\ runRow = report

BookKeeping == TypedAndMasked /\ Books /\ Batches /\ Reports

LEMMA InitBooks == Init => Books /\ Batches /\ Reports
<1> SUFFICES ASSUME Init PROVE Books /\ Batches /\ Reports
  OBVIOUS
<1>1. UsedSteps \in [Agents -> Nat] /\ \A a \in Agents : UsedSteps[a] = 0
  BY DEF Init, UsedSteps, Nothing, Meters
<1>2. used["totalSteps"] = 0
  BY DEF Init, Nothing, Meters
<1>3. used["totalSteps"] = StepsIn(UsedSteps)
  BY <1>1, <1>2, AgentsFinite, SumOfZeros
<1>4. completed = Cardinality(covered)
  BY FS_EmptySet DEF Init
<1>5. \A a \in Agents : AgentBooks(a)
  BY DEF Init, AgentBooks, Opening, Ending, Finished, Absent, Nothing, Meters
<1>6. Batches
  BY DEF Init, Batches
<1>7. Reports
  BY DEF Init, Reports, NoReport, Absent, Finished
<1> QED
  BY <1>3, <1>4, <1>5, <1>6, <1>7 DEF Books

\* The books of an agent are its own: they stay as they are while its part
\* of the state does and no limitation is taken back.
LEMMA BooksStay ==
  ASSUME NEW b \in Agents, AgentBooks(b),
         agentPc'[b] = agentPc[b], agentRow'[b] = agentRow[b],
         agentSteps'[b] = agentSteps[b], using'[b] = using[b],
         b \in covered' <=> b \in covered,
         status' = "completed" => status = "completed"
  PROVE  AgentBooks(b)'
BY DEF AgentBooks, Opening, Ending

-----------------------------------------------------------------------------
\* An agent's steps leave what the orchestrator and the other agents have.
LEMMA AgentIsLocal ==
  ASSUME TypedAndMasked, NEW a \in Agents, Agent(a)
  PROVE  /\ agentPc[a] \notin {"none", "out", "rejected", "cancel!"}
         /\ UNCHANGED <<runRow, pc, first, report, mission, late, created>>
         /\ reason' = reason
         /\ status' = "completed" => status = "completed"
         /\ \A b \in Agents \ {a} :
              /\ agentPc'[b] = agentPc[b] /\ agentRow'[b] = agentRow[b]
              /\ agentSteps'[b] = agentSteps[b] /\ using'[b] = using[b]
              /\ b \in covered' <=> b \in covered
<1> USE DEF TypedAndMasked, TypeInvariant
<1>0. agentPc[a] # "cancel!"
  BY DEF Masked, NoneRefused
<1>1. CASE BeginAgent(a)
  BY <1>0, <1>1 DEF BeginAgent, UpdateAgent, Step, control, totals, verdict
<1>2. CASE MissionOver(a)
  BY <1>2 DEF MissionOver, Step, rows, control, outside
<1>3. ASSUME NEW from \in Ending, NEW as, FinishAgent(a, from, as)
      PROVE  /\ agentPc[a] \notin {"none", "out", "rejected"}
             /\ UNCHANGED <<runRow, pc, first, report, mission, late, created>>
             /\ reason' = reason
             /\ status' = "completed" => status = "completed"
             /\ \A b \in Agents \ {a} :
                  /\ agentPc'[b] = agentPc[b] /\ agentRow'[b] = agentRow[b]
                  /\ agentSteps'[b] = agentSteps[b] /\ using'[b] = using[b]
                  /\ b \in covered' <=> b \in covered
  BY <1>3 DEF FinishAgent, UpdateAgent, Step, control, Ending
<1>4. CASE FailAgent(a)
  BY <1>4 DEF FailAgent, UpdateAgent, Step, control, verdict
<1>5. CASE AggregateCheck(a)
  <2>1. created = MaxAgents
    BY <1>5 DEF AggregateCheck, Step, Masked
  <2>2. ~Heeded(Stopper(0))
    BY <2>1, NothingHeeded
  <2>3. QED
    BY <1>5, <2>2 DEF AggregateCheck, Step, rows, control, totals, verdict,
      outside
<1> QED
  BY <1>0, <1>1, <1>2, <1>3, <1>4, <1>5 DEF Agent, Ending

\* An agent's step keeps its own books.
LEMMA AgentKeepsItsBooks ==
  ASSUME TypedAndMasked, NEW a \in Agents, AgentBooks(a), Agent(a)
  PROVE  AgentBooks(a)'
<1> USE DEF TypedAndMasked, TypeInvariant
<1>1. CASE BeginAgent(a)
  <2>1. agentPc[a] = "start!"
    BY <1>1, AgentIsLocal DEF BeginAgent, UpdateAgent, Step
  <2>2. /\ agentPc'[a] \in {"mission", "rejected"}
        /\ agentRow'[a] \in {agentRow[a], "running"}
    BY <1>1, <2>1 DEF BeginAgent, UpdateAgent, Step
  <2> QED
    BY <1>1, <2>1, <2>2 DEF BeginAgent, AgentBooks, Opening, Ending, Finished,
      totals, verdict
<1>2. CASE MissionOver(a)
  <2>1. agentPc[a] = "mission" /\ agentSteps[a] = 0 /\ agentRow[a] \notin Finished
    BY <1>2 DEF MissionOver, Step, AgentBooks, Opening
  <2>2. /\ agentPc'[a] \in {"finish!", "finish-limited!", "fail!"}
        /\ agentPc'[a] \in Ending => a \in covered'
        /\ agentPc'[a] # "finish!" => status' = "completed_with_limitations"
        /\ agentRow'[a] = agentRow[a] /\ agentSteps'[a] = agentSteps[a]
    BY <1>2 DEF MissionOver, Step, Ending, rows
  <2> QED
    BY <2>1, <2>2 DEF AgentBooks, Opening, Ending, Finished
<1>3. ASSUME NEW from, NEW as,
             \/ from = "finish!" /\ as = "completed"
             \/ from = "finish-limited!" /\ as = "completed_with_limitations",
             FinishAgent(a, from, as)
      PROVE  AgentBooks(a)'
  <2>1. /\ agentPc[a] = from /\ agentRow[a] \notin Finished
        /\ a \in covered /\ agentRow[a] # as
    BY <1>3 DEF FinishAgent, UpdateAgent, Step, AgentBooks, Ending, Finished
  <2>2. \/ /\ agentPc'[a] = "check" /\ faults' = faults
           /\ agentRow'[a] = as
        \/ /\ agentPc'[a] = "fail!" /\ faults' # faults
           /\ agentRow'[a] \in {as, agentRow[a]}
    <3>1. faults + 1 # faults
      OBVIOUS
    <3>2. \/ agentPc'[a] = "check" /\ faults' = faults
          \/ agentPc'[a] = "fail!" /\ faults' # faults
      BY <1>3, <3>1 DEF FinishAgent, UpdateAgent, Step, DatabaseFails
    <3>3. \/ agentRow' = [agentRow EXCEPT ![a] = as]
          \/ faults' # faults /\ agentRow' = agentRow
      BY <1>3 DEF FinishAgent, UpdateAgent
    <3> QED
      BY <3>2, <3>3
  <2>3. /\ agentRow'[a] = as => agentSteps'[a] = using[a]["totalSteps"]
        /\ agentRow'[a] = agentRow[a] => agentSteps'[a] = agentSteps[a]
    <3>1. agentRow' = agentRow \/ agentRow' = [agentRow EXCEPT ![a] = as]
      BY <1>3 DEF FinishAgent, UpdateAgent
    <3> QED
      BY <1>3, <2>1, <3>1 DEF FinishAgent
  <2>4. /\ using' = using /\ covered' = covered
        /\ status' = IF faults' = faults THEN status
                     ELSE "completed_with_limitations"
    BY <1>3 DEF FinishAgent
  <2> QED
    BY <1>3, <2>1, <2>2, <2>3, <2>4 DEF AgentBooks, Opening, Ending, Finished
<1>4. CASE FailAgent(a)
  <2>1. /\ agentPc[a] = "fail!" /\ status # "completed"
        /\ agentPc'[a] \in {"check", "rejected"}
        /\ agentPc'[a] = "check" => agentRow'[a] = "failed"
        /\ agentRow'[a] \in {"failed", agentRow[a]}
    BY <1>4 DEF FailAgent, UpdateAgent, Step, AgentBooks, DatabaseFails
  <2> QED
    BY <1>4, <2>1 DEF FailAgent, AgentBooks, Opening, Ending, Finished, verdict
<1>5. CASE AggregateCheck(a)
  <2>1. agentPc[a] = "check" /\ agentPc'[a] = "out"
    BY <1>5 DEF AggregateCheck, Step
  <2> QED
    BY <1>5, <2>1, AgentIsLocal DEF AggregateCheck, AgentBooks, Opening,
      Ending, rows, totals
<1> QED
  BY <1>1, <1>2, <1>3, <1>4, <1>5 DEF Agent

\* What an agent's mission used goes to the totals when it returns.
LEMMA AgentKeepsBooks ==
  ASSUME TypedAndMasked, Books, NEW a \in Agents, Agent(a)
  PROVE  Books'
<1> USE DEF TypedAndMasked, TypeInvariant
<1>1. \A b \in Agents : AgentBooks(b)'
  <2>1. AgentBooks(a)'
    BY AgentKeepsItsBooks DEF Books
  <2>2. ASSUME NEW b \in Agents \ {a} PROVE AgentBooks(b)'
    BY AgentIsLocal, BooksStay DEF Books
  <2> QED
    BY <2>1, <2>2
<1>2. CASE UNCHANGED <<using, used, completed, covered>>
  <2>1. UsedSteps' = UsedSteps
    BY <1>2 DEF UsedSteps
  <2> QED
    BY <1>1, <1>2, <2>1 DEF Books
<1>3. ASSUME NEW u \in AgentUses,
             agentPc[a] = "mission",
             using' = [using EXCEPT ![a] = u],
             used' = [m \in Meters |-> used[m] + u[m]],
             completed' = completed + 1, covered' = covered \cup {a}
      PROVE  Books'
  <2>1. a \notin covered /\ using[a]["totalSteps"] = 0
    BY <1>3 DEF Books, AgentBooks, Opening
  <2>2. u["totalSteps"] \in Nat /\ "totalSteps" \in Meters
    BY Constants DEF Meters
  <2>3. used'["totalSteps"] = used["totalSteps"] + u["totalSteps"]
    BY <1>3, <2>2
  <2>4. UsedSteps \in [Agents -> Nat] /\ UsedSteps[a] = 0
    BY <2>1, <2>2 DEF UsedSteps
  <2>5. UsedSteps' = [UsedSteps EXCEPT ![a] = u["totalSteps"]]
    BY <1>3 DEF UsedSteps
  <2>6. StepsIn(UsedSteps') = StepsIn(UsedSteps) + u["totalSteps"]
    <3>1. IsFiniteSet(Agents)
      BY AgentsFinite
    <3>2. StepsIn([UsedSteps EXCEPT ![a] = u["totalSteps"]])
            = StepsIn(UsedSteps) + u["totalSteps"]
      <4> HIDE DEF TypedAndMasked, TypeInvariant
      <4> QED
        BY <2>2, <2>4, <3>1, SumGrowsBy
    <3> QED
      BY <2>5, <3>2
  <2>7. used'["totalSteps"] = StepsIn(UsedSteps')
    BY <2>3, <2>6 DEF Books
  <2>8. completed' = Cardinality(covered')
    <3>1. IsFiniteSet(covered)
      BY AgentsFinite, FS_Subset
    <3>2. Cardinality(covered \cup {a}) = Cardinality(covered) + 1
      BY <2>1, <3>1, FS_AddElement
    <3> QED
      BY <1>3, <3>2 DEF Books
  <2> QED
    BY <1>1, <2>7, <2>8 DEF Books
<1>4. CASE MissionOver(a)
  BY <1>2, <1>3, <1>4 DEF MissionOver, Step
<1>5. CASE ~MissionOver(a)
  BY <1>2, <1>5 DEF Agent, BeginAgent, FinishAgent, FailAgent, AggregateCheck,
    totals
<1> QED
  BY <1>4, <1>5

-----------------------------------------------------------------------------
\* The orchestrator's steps leave the books: it starts who has not begun.
LEMMA OrchestratorKeepsBooks ==
  ASSUME TypedAndMasked, Books, Batches, Orchestrator
  PROVE  Books'
<1> USE DEF TypedAndMasked, TypeInvariant
<1>1. /\ UNCHANGED <<agentSteps, using, used, completed, covered>>
      /\ status' = "completed" => status = "completed"
  <2>1. CASE StartBatch
    BY <2>1 DEF StartBatch, rows, verdict
  <2>2. CASE ~StartBatch
    BY <2>2 DEF Orchestrator, CreateRun, CreateAgent, AgentsCreated,
      BatchDone, BatchFailed, AllBatchesDone, CompleteRun, rows, promises,
      totals, verdict
  <2> QED
    BY <2>1, <2>2
<1>2. UsedSteps' = UsedSteps
  BY <1>1 DEF UsedSteps
<1>3. ASSUME NEW a \in Agents PROVE AgentBooks(a)'
  <2>0. AgentBooks(a)
    BY DEF Books
  <2>1. CASE CreateAgent
    <3>1. agentPc' = agentPc /\ agentPc[a] = "none"
      BY <2>1 DEF CreateAgent, promises, Batches
    <3>2. agentRow'[a] \in {agentRow[a], "created"}
      BY <2>1 DEF CreateAgent
    <3> QED
      BY <1>1, <2>0, <3>1, <3>2 DEF AgentBooks, Opening, Ending, Finished
  <2>2. CASE StartBatch
    <3>1. created = MaxAgents /\ reason = "FINISHED"
      BY <2>2 DEF StartBatch, Masked
    <3>2. ~Heeded(Stopper(active))
      BY <3>1, NothingHeeded
    <3>3. /\ agentRow' = agentRow
          /\ agentPc'[a] = IF a \in Batch THEN "start!" ELSE agentPc[a]
      BY <2>2, <3>1, <3>2 DEF StartBatch, rows
    <3>4. a \in Batch => agentPc[a] = "none"
      BY <2>2 DEF StartBatch, Batches, Batch, Agents
    <3> QED
      BY <1>1, <2>0, <3>3, <3>4 DEF AgentBooks, Opening, Ending
  <2>3. CASE ~CreateAgent /\ ~StartBatch
    <3>1. agentPc' = agentPc /\ agentRow' = agentRow
      BY <2>3 DEF Orchestrator, CreateRun, AgentsCreated, BatchDone,
        BatchFailed, AllBatchesDone, CompleteRun, rows, promises
    <3> QED
      BY <1>1, <2>0, <3>1, BooksStay
  <2> QED
    BY <2>1, <2>2, <2>3
<1> QED
  BY <1>1, <1>2, <1>3 DEF Books

\* A batch is begun by none and left by all of its agents.
LEMMA OrchestratorKeepsBatches ==
  ASSUME TypedAndMasked, Batches, Orchestrator
  PROVE  Batches'
<1> USE DEF TypedAndMasked, TypeInvariant
<1>1. CASE CreateRun \/ CreateAgent
  BY <1>1 DEF CreateRun, CreateAgent, promises, Batches
<1>2. CASE AgentsCreated
  <2>1. pc' = "batch" /\ first' = first /\ agentPc' = agentPc
    BY <1>2 DEF AgentsCreated, promises
  <2>2. first = 1 /\ \A a \in Agents : agentPc[a] = "none"
    BY <1>2 DEF AgentsCreated, Batches
  <2>3. \A a \in Agents : ~(a < 1)
    BY DEF Agents
  <2> QED
    BY <2>1, <2>2, <2>3 DEF Batches
<1>3. CASE StartBatch
  <2>1. created = MaxAgents /\ reason = "FINISHED"
    BY <1>3 DEF StartBatch, Masked
  <2>2. ~Heeded(Stopper(active))
    BY <2>1, NothingHeeded
  <2>3. /\ pc' = "await" /\ first' = first
        /\ \A a \in Agents :
             agentPc'[a] = IF a \in Batch THEN "start!" ELSE agentPc[a]
    BY <1>3, <2>1, <2>2 DEF StartBatch
  <2>4. \A a \in Agents : agentPc[a] = IF a < first THEN "out" ELSE "none"
    BY <1>3 DEF StartBatch, Batches
  <2>5. MaxConcurrent \in Nat /\ first \in Nat /\ Agents \subseteq Nat
    BY Constants DEF Agents
  <2>6. ASSUME NEW a \in Agents
        PROVE  /\ a < first => agentPc'[a] = "out"
               /\ a >= first + MaxConcurrent => agentPc'[a] = "none"
    BY <2>3, <2>4, <2>5 DEF Batch
  <2> QED
    BY <2>3, <2>6 DEF Batches
<1>4. CASE BatchDone
  <2>1. /\ pc = "await" /\ pc' = "batch" /\ first' = first + MaxConcurrent
        /\ agentPc' = agentPc
        /\ \A a \in Batch : agentPc[a] = "out"
    BY <1>4 DEF BatchDone, promises
  <2>2. MaxConcurrent \in Nat /\ first \in Nat /\ Agents \subseteq Nat
    BY Constants DEF Agents
  <2>3. ASSUME NEW a \in Agents
        PROVE  agentPc'[a] = IF a < first' THEN "out" ELSE "none"
    BY <2>1, <2>2 DEF Batches, Batch
  <2> QED
    BY <2>1, <2>3 DEF Batches
<1>5. CASE BatchFailed \/ AllBatchesDone \/ CompleteRun
  BY <1>5 DEF BatchFailed, AllBatchesDone, CompleteRun, Batches
<1> QED
  BY <1>1, <1>2, <1>3, <1>4, <1>5 DEF Orchestrator

\* Only agents of the current batch are on their way.
LEMMA AgentKeepsBatches ==
  ASSUME TypedAndMasked, Batches, NEW a \in Agents, Agent(a)
  PROVE  Batches'
<1>1. /\ agentPc[a] \notin {"none", "out"}
      /\ pc' = pc /\ first' = first
      /\ \A b \in Agents \ {a} : agentPc'[b] = agentPc[b]
  BY AgentIsLocal
<1>2. pc \notin {"create-run", "create-agents", "batch"}
  BY <1>1 DEF Batches
<1>3. CASE pc = "await"
  <2>1. ~(a < first) /\ ~(a >= first + MaxConcurrent)
    BY <1>1, <1>3 DEF Batches
  <2> QED
    BY <1>1, <1>2, <2>1 DEF Batches
<1>4. CASE pc # "await"
  BY <1>1, <1>2, <1>4 DEF Batches
<1> QED
  BY <1>3, <1>4

-----------------------------------------------------------------------------
\* While the orchestrator is at work there is no report and the row is open.
LEMMA NoReportYet ==
  ASSUME Reports, pc \notin {"complete!", "done"}
  PROVE  report.status = Absent /\ runRow.status \notin Finished
BY DEF Reports

\* What is reported at the end is what the orchestrator has counted.
LEMMA OrchestratorKeepsReports ==
  ASSUME TypedAndMasked, Batches, Reports, Orchestrator
  PROVE  Reports'
<1> USE DEF TypedAndMasked
<1>1. CASE CreateRun
  <2>1. report.status = Absent /\ runRow.status \notin Finished
    BY <1>1, NoReportYet DEF CreateRun
  <2>2. runRow'.status \notin Finished
    <3>1. [NoReport EXCEPT !.status = "running"].status = "running"
      BY DEF NoReport
    <3> QED
      BY <1>1, <2>1, <3>1 DEF CreateRun, Finished
  <2>3. report' = report /\ pc' # "complete!"
    BY <1>1 DEF CreateRun
  <2> QED
    BY <2>1, <2>2, <2>3 DEF Reports
<1>2. CASE CreateAgent \/ AgentsCreated \/ StartBatch \/ BatchDone
  <2>1. report.status = Absent /\ runRow.status \notin Finished
    BY <1>2, NoReportYet DEF CreateAgent, AgentsCreated, StartBatch, BatchDone
  <2>2. report' = report /\ runRow' = runRow /\ pc' # "complete!"
    BY <1>2 DEF CreateAgent, AgentsCreated, StartBatch, BatchDone, rows
  <2> QED
    BY <2>1, <2>2 DEF Reports
<1>3. CASE BatchFailed
  <2>1. runRow.status \notin Finished /\ runRow' = runRow
    BY <1>3, NoReportYet DEF BatchFailed, rows
  <2>2. /\ pc' = "complete!" /\ reason' = "ORCHESTRATOR_FAILURE"
        /\ report'.status \in {"completed_with_limitations", "failed"}
    BY <1>3 DEF BatchFailed, Report
  <2> QED
    BY <2>1, <2>2 DEF Reports, Finished
<1>4. CASE AllBatchesDone
  <2>1. /\ runRow.status \notin Finished /\ runRow' = runRow
        /\ created = MaxAgents /\ reason = "FINISHED"
        /\ status \in {"completed", "completed_with_limitations", "failed"}
    BY <1>4, NoReportYet DEF AllBatchesDone, rows, Masked, TypeInvariant
  <2>2. AllOut
    <3>1. first \in Nat \ {0} /\ MaxAgents \in Nat /\ MaxConcurrent \in Nat \ {0}
      BY Constants DEF TypeInvariant
    <3>2. first \notin Batch
      BY <1>4 DEF AllBatchesDone
    <3>3. first > MaxAgents
      BY <3>1, <3>2 DEF Batch, Agents
    <3>4. \A a \in Agents : a < first
      BY <3>1, <3>3 DEF Agents
    <3> QED
      BY <1>4, <3>4 DEF AllBatchesDone, Batches, AllOut
  <2>3. /\ pc' = "complete!" /\ report' = Report(reason, status)
        /\ UNCHANGED <<agentPc, reason, status, completed, used, covered>>
    BY <1>4 DEF AllBatchesDone, promises, totals, verdict
  <2>4. /\ report'.created = MaxAgents /\ report'.completed = completed
        /\ report'.used = used /\ report'.covered = covered
        /\ report'.status \in Finished
        /\ report'.status = "completed" => status = "completed"
    BY <2>1, <2>3 DEF Report, Finished
  <2>5. Snapshot'
    BY <2>2, <2>3, <2>4 DEF Snapshot, AllOut
  <2> QED
    BY <2>1, <2>3, <2>4, <2>5 DEF Reports
<1>5. CASE CompleteRun
  <2>1. /\ pc' = "done" /\ runRow' \in {report, runRow}
        /\ runRow.status \notin Finished
        /\ UNCHANGED <<report, reason, agentPc, status, completed, used, covered>>
    BY <1>5 DEF CompleteRun, promises, totals, verdict, Reports
  <2> QED
    BY <2>1 DEF Reports, Snapshot, AllOut
<1> QED
  BY <1>1, <1>2, <1>3, <1>4, <1>5 DEF Orchestrator

\* After a report that names no failure of the orchestrator there is no
\* agent left to take a step.
LEMMA AgentKeepsReports ==
  ASSUME TypedAndMasked, Reports, NEW a \in Agents, Agent(a)
  PROVE  Reports'
<1>1. /\ agentPc[a] # "out"
      /\ UNCHANGED <<runRow, pc, report>> /\ reason' = reason
  BY AgentIsLocal
<1>2. report.status # Absent => reason = "ORCHESTRATOR_FAILURE"
  BY <1>1 DEF Reports, Snapshot, AllOut
<1> QED
  BY <1>1, <1>2 DEF Reports

LEMMA SwarmKeepsBooks == Spec => []BookKeeping
<1>1. Init => Books /\ Batches /\ Reports
  BY InitBooks
<1>2. TypedAndMasked /\ Books /\ Batches /\ Reports /\ [Next]_vars
        => (Books /\ Batches /\ Reports)'
  <2> SUFFICES ASSUME TypedAndMasked, Books, Batches, Reports, [Next]_vars
               PROVE  Books' /\ Batches' /\ Reports'
    OBVIOUS
  <2>1. CASE Elapse \/ MissionTimeout \/ UNCHANGED vars
    <3>1. UNCHANGED <<rows, control, promises, totals, verdict>>
      BY <2>1 DEF Elapse, MissionTimeout, vars
    <3>2. UsedSteps' = UsedSteps
      BY <3>1 DEF UsedSteps, promises
    <3>3. Books'
      BY <3>1, <3>2 DEF Books, AgentBooks, rows, promises, totals, verdict
    <3>4. Batches'
      BY <3>1 DEF Batches, control, promises
    <3>5. Reports'
      BY <3>1 DEF Reports, Snapshot, AllOut, rows, control, promises, totals,
        verdict
    <3> QED
      BY <3>3, <3>4, <3>5
  <2>2. CASE Orchestrator
    BY <2>2, OrchestratorKeepsBooks, OrchestratorKeepsBatches,
      OrchestratorKeepsReports
  <2>3. ASSUME NEW a \in Agents, Agent(a)
        PROVE  Books' /\ Batches' /\ Reports'
    BY <2>3, AgentKeepsBooks, AgentKeepsBatches, AgentKeepsReports
  <2> QED
    BY <2>1, <2>2, <2>3 DEF Next
<1> QED
  BY <1>1, <1>2, SwarmTyped, PTL DEF Spec, BookKeeping

LEMMA ReportedBooksAddUp == BookKeeping => ReportAddsUp
<1> SUFFICES ASSUME BookKeeping PROVE ReportAddsUp
  OBVIOUS
<1> USE DEF BookKeeping, TypedAndMasked, TypeInvariant
<1>1. "totalSteps" \in Meters
  BY DEF Meters
<1>2. UsedSteps \in [Agents -> Nat]
  BY <1>1 DEF UsedSteps
<1>3. runRow.status \in Finished =>
        /\ runRow = report /\ report.status # Absent
        /\ report.status = "completed" => reason # "ORCHESTRATOR_FAILURE"
        /\ reason # "ORCHESTRATOR_FAILURE" => Snapshot
  BY DEF Reports, Finished, Absent
<1>4. CleanRunIsWhole
  <2> SUFFICES ASSUME runRow.status = "completed"
               PROVE  /\ \A a \in Agents : agentRow[a] = "completed"
                      /\ runRow.covered = Agents
                      /\ runRow.created = MaxAgents
                      /\ runRow.completed = MaxAgents
                      /\ runRow.used["totalSteps"] = StepsIn(agentSteps)
    BY DEF CleanRunIsWhole
  <2>1. runRow = report /\ Snapshot /\ status = "completed"
    BY <1>3 DEF Finished, Snapshot
  <2>2. \A a \in Agents : agentRow[a] = "completed"
    BY <2>1 DEF Snapshot, AllOut, Books, AgentBooks
  <2>3. \A a \in Agents :
          a \in covered /\ agentSteps[a] = using[a]["totalSteps"]
    BY <2>2 DEF Books, AgentBooks
  <2>4. covered = Agents
    BY <2>3
  <2>5. completed = MaxAgents
    BY <2>4, AgentsFinite DEF Books
  <2>6. agentSteps = UsedSteps
    BY <2>3 DEF UsedSteps
  <2>7. used["totalSteps"] = StepsIn(agentSteps)
    BY <2>6 DEF Books
  <2> QED
    BY <2>1, <2>2, <2>4, <2>5, <2>7 DEF Snapshot
<1>5. ReportedRunIsClosed
  <2> SUFFICES ASSUME runRow.status \in Finished,
                      reason # "ORCHESTRATOR_FAILURE"
               PROVE  /\ \A a \in Agents : agentRow[a] \in Finished
                      /\ runRow.used["totalSteps"] >= StepsIn(agentSteps)
                      /\ \A a \in Agents :
                           agentRow[a] \in {"completed",
                                            "completed_with_limitations"} =>
                             a \in runRow.covered
    BY DEF ReportedRunIsClosed
  <2>1. runRow = report /\ Snapshot
    BY <1>3
  <2>2. \A a \in Agents : agentRow[a] \in Finished
    BY <2>1 DEF Snapshot, AllOut, Books, AgentBooks
  <2>3. \A a \in Agents : agentSteps[a] <= UsedSteps[a]
    <3>1. ASSUME NEW a \in Agents PROVE agentSteps[a] <= UsedSteps[a]
      <4>1. agentSteps[a] \in {0, UsedSteps[a]} /\ UsedSteps[a] \in Nat
        BY <1>2 DEF Books, AgentBooks, UsedSteps
      <4> QED
        BY <4>1
    <3> QED
      BY <3>1
  <2>4. StepsIn(agentSteps) <= StepsIn(UsedSteps)
    BY <1>2, <2>3, AgentsFinite, SumIsMonotone
  <2>5. used["totalSteps"] >= StepsIn(agentSteps)
    <3>1. used["totalSteps"] = StepsIn(UsedSteps)
      BY DEF Books
    <3> HIDE DEF BookKeeping, TypedAndMasked, TypeInvariant
    <3>2. StepsIn(agentSteps) \in Nat /\ StepsIn(UsedSteps) \in Nat
      <4>1. \A f \in [Agents -> Nat] : StepsIn(f) \in Nat
        BY AgentsFinite, SumCountsUnits, FS_CardinalityType
      <4> QED
        BY <1>2, <4>1 DEF BookKeeping, TypedAndMasked, TypeInvariant
    <3> QED
      BY <2>4, <3>1, <3>2
  <2>6. \A a \in Agents :
          agentRow[a] \in {"completed", "completed_with_limitations"} =>
            a \in covered
    BY DEF Books, AgentBooks
  <2> QED
    BY <2>1, <2>2, <2>5, <2>6 DEF Snapshot
<1> QED
  BY <1>4, <1>5 DEF ReportAddsUp

\* A reported run says what its agents' rows say, however many agents there
\* are, whatever they use and wherever the database fails.
THEOREM RunsAddUp == Spec => []ReportAddsUp
BY SwarmKeepsBooks, ReportedBooksAddUp, PTL

\* Nothing follows the report of a run whose orchestrator did not fail: every
\* agent is out, and the orchestrator is done.
THEOREM ReportsAreLast == Spec => RunIsTheLastWord
<1>1. BookKeeping /\ [Next]_vars =>
        [runRow.status \in Finished /\ reason # "ORCHESTRATOR_FAILURE" =>
           UNCHANGED <<runRow, agentRow, agentSteps, totals>>]_vars
  <2> SUFFICES ASSUME BookKeeping, [Next]_vars, runRow.status \in Finished,
                      reason # "ORCHESTRATOR_FAILURE"
               PROVE  UNCHANGED <<runRow, agentRow, agentSteps, totals>>
    OBVIOUS
  <2>1. pc = "done" /\ AllOut
    BY DEF BookKeeping, Reports, Snapshot, Finished, Absent
  <2>2. CASE Orchestrator
    BY <2>1, <2>2 DEF Orchestrator, CreateRun, CreateAgent, AgentsCreated,
      StartBatch, BatchDone, BatchFailed, AllBatchesDone, CompleteRun
  <2>3. ASSUME NEW a \in Agents, Agent(a) PROVE FALSE
    BY <2>1, <2>3, AgentIsLocal DEF BookKeeping, AllOut
  <2>4. CASE Elapse \/ MissionTimeout \/ UNCHANGED vars
    BY <2>4 DEF Elapse, MissionTimeout, vars, rows
  <2> QED
    BY <2>2, <2>3, <2>4 DEF Next
<1> QED
  BY <1>1, SwarmKeepsBooks, PTL DEF Spec, RunIsTheLastWord

=============================================================================
