------------------------- MODULE BrowserAgentProofs -------------------------
(***************************************************************************)
(* Type correctness, the budgets, and the record of BrowserAgent, for      *)
(* every budget, every set of proposals and every number of failing        *)
(* statements and dying workers.                                           *)
(***************************************************************************)
EXTENDS BrowserAgent, SequenceTheorems, TLAPS

\* In the loop what the page went through has been counted, the counts are
\* within the budgets, and an action that is about to be carried out has
\* something left of its own. An attempt begins with nothing counted.
Metering ==
  /\ \A t \in Metered : performed[t] <= MaxUses[t]
  /\ pc \in {"create-run", "open", "loop", "decide", "act", "persist!"} =>
       performed = uses
  /\ pc = "act" /\ action.tool \in Metered =>
       uses[action.tool] < MaxUses[action.tool]
  /\ steps <= MaxSteps /\ calls <= MaxProviderCalls
  /\ pc \in {"decide", "act", "persist-failed!"} => steps < MaxSteps
  /\ pc \in {"create-run", "open"} =>
       steps = 0 /\ calls = 0 /\ reason = "none"

\* The steps the current attempt has written.
Written == IF pc \in {"loop", "decide", "act", "persist-failed!"} THEN steps
           ELSE IF pc = "persist!" THEN steps - 1
           ELSE 0

Recorded ==
  /\ \A s \in 1..MaxSteps : stepRow[s].by <= attempt
  /\ \A s \in 1..Written : stepRow[s].by = attempt /\ Present(s)
  /\ pc = "persist!" => steps > 0
  /\ pc \in {"persist!", "persist-failed!"} => outcome # "absent"

Cited ==
  /\ FindingsAreBacked
  /\ pc \in {"create-run", "open"} => findings = {}
  /\ pc = "act" /\ action.tool = "report_finding" =>
       action.cites \subseteq 1..steps

AgentInv == TypeInvariant /\ Metering /\ Recorded /\ RecordHasNoGap /\ Cited

-----------------------------------------------------------------------------
LEMMA Constants ==
  /\ MaxSteps \in Nat /\ MaxSteps > 0 /\ MaxProviderCalls \in Nat /\ MaxProviderCalls > 0
  /\ MaxUses \in [Metered -> Nat] /\ Costs \subseteq Nat
  /\ "nothing" \in Places /\ Resolve \in [Places -> Places] /\ Pages # {}
  /\ Actions \subseteq [tool : Tools, at : Places, cites : SUBSET Nat]
  /\ \A a \in Actions : a.tool = "finish" => a.at = "nothing"
<1>1. /\ MaxSteps \in Nat \ {0} /\ MaxProviderCalls \in Nat \ {0}
      /\ MaxUses \in [Metered -> Nat] /\ Costs \subseteq Nat
      /\ "nothing" \in Places /\ Resolve \in [Places -> Places] /\ Pages # {}
      /\ Actions \subseteq [tool : Tools, at : Places, cites : SUBSET Nat]
      /\ \A a \in Actions : a.tool = "finish" => a.at = "nothing"
  BY AgentAssumption DEF AgentAssumption
<1>2. QED
  BY <1>1

LEMMA Ingredients ==
  /\ NoUses \in [Metered -> Nat] /\ FirstPage \in Pages
  /\ NoAction \in [tool : Tools, at : Places, cites : SUBSET Nat]
  /\ NoStep \in StepRows /\ NoKey \in Keys
BY Constants DEF NoUses, FirstPage, NoAction, NoStep, NoKey, Keys, StepRows, Tools,
  Outcomes

\* What is written of a step is a row, and leaves a gap nowhere if it follows
\* what the attempt has written.
LEMMA WriteStepKeepsRecord ==
  ASSUME TypeInvariant, RecordHasNoGap, UNCHANGED attempt,
         NEW s \in 1..MaxSteps, WriteStep(s), outcome # "absent",
         \A t \in 1..MaxSteps : stepRow[t].by <= attempt,
         \A t \in 1..(s - 1) : stepRow[t].by = attempt /\ Present(t)
  PROVE  /\ stepRow' \in [1..MaxSteps -> StepRows]
         /\ \A t \in 1..MaxSteps : stepRow'[t].by <= attempt
         /\ \A t \in 1..s : stepRow'[t].by = attempt /\ Present(t)'
         /\ \A t \in 1..MaxSteps : stepRow[t].by = attempt =>
              stepRow'[t].by = attempt
         /\ RecordHasNoGap'
<1> DEFINE row == [by |-> attempt, key |-> Key(action), outcome |-> outcome]
<1>1. row \in StepRows
  BY DEF TypeInvariant, StepRows, Key, Keys
<1>2. stepRow' = [stepRow EXCEPT ![s] = row]
  BY DEF WriteStep
<1>3. stepRow \in [1..MaxSteps -> StepRows] /\ attempt \in Nat
  BY DEF TypeInvariant
<1>4. stepRow' \in [1..MaxSteps -> StepRows]
  BY <1>1, <1>2, <1>3
<1>5. /\ stepRow'[s].by = attempt /\ Present(s)'
      /\ \A t \in 1..MaxSteps : t # s => stepRow'[t] = stepRow[t]
  BY <1>2, <1>3 DEF Present
<1>6. \A t \in 1..MaxSteps : stepRow'[t].by <= attempt
  <2> TAKE t \in 1..MaxSteps
  <2>1. CASE t = s
    BY <2>1, <1>3, <1>5
  <2>2. CASE t # s
    BY <2>2, <1>5
  <2>3. QED
    BY <2>1, <2>2
<1>7. \A t \in 1..s : stepRow'[t].by = attempt /\ Present(t)'
  <2> TAKE t \in 1..s
  <2>1. CASE t = s
    BY <2>1, <1>5 DEF Present
  <2>2. CASE t # s
    <3>1. t \in 1..(s - 1) /\ t \in 1..MaxSteps
      BY <2>2, Constants
    <3>2. QED
      BY <3>1, <2>2, <1>5 DEF Present
  <2>3. QED
    BY <2>1, <2>2
<1>8. ASSUME NEW u \in 1..MaxSteps, NEW t \in 1..MaxSteps, Present(u)', t < u
      PROVE  Present(t)' /\ stepRow'[t].by >= stepRow'[u].by
  <2>1. CASE t <= s
    <3>1. stepRow'[t].by = attempt /\ Present(t)'
      BY <2>1, <1>7, Constants
    <3>2. stepRow'[u].by <= attempt /\ stepRow'[u].by \in Nat
      BY <1>4, <1>6 DEF StepRows
    <3>3. QED
      BY <3>1, <3>2, <1>3
  <2>2. CASE s < t
    <3>1. stepRow'[t] = stepRow[t] /\ stepRow'[u] = stepRow[u]
      BY <2>2, <1>5, <1>8
    <3>2. QED
      BY <3>1, <1>8 DEF RecordHasNoGap, Present
  <2>3. QED
    BY <2>1, <2>2
<1>9. RecordHasNoGap'
  BY <1>8 DEF RecordHasNoGap
<1>10. QED
  BY <1>4, <1>5, <1>6, <1>7, <1>9

\* What is remembered of a step.
LEMMA RecordTyped ==
  ASSUME TypeInvariant,
         NEW a \in [tool : Tools, at : Places, cites : SUBSET Nat],
         NEW o \in Outcomes, NEW c \in BOOLEAN, Record(a, o, c)
  PROVE  /\ action' = a /\ outcome' = o
         /\ steps' = steps + 1 /\ noProgress' \in Nat /\ pc' = "persist!"
         /\ recent' \in Seq(Keys) /\ Len(recent') <= 2
<1>1. Key(a) \in Keys
  BY DEF Key, Keys
<1>2. recent \in Seq(Keys) /\ Len(recent) <= 2 /\ noProgress \in Nat
  BY DEF TypeInvariant
<1> DEFINE last == IF Len(recent) = 2 THEN Tail(recent) ELSE recent
<1>3. last \in Seq(Keys) /\ Len(last) \in 0..1
  <2>1. CASE Len(recent) = 2
    <3>1. recent # << >>
      BY <2>1, <1>2, EmptySeq
    <3>2. Tail(recent) \in Seq(Keys) /\ Len(Tail(recent)) = Len(recent) - 1
      BY <3>1, <1>2, HeadTailProperties
    <3>3. QED
      BY <3>2, <2>1
  <2>2. CASE Len(recent) # 2
    <3>1. Len(recent) \in Nat
      BY <1>2, LenProperties
    <3>2. \A n \in Nat : n <= 2 /\ n # 2 => n \in 0..1
      OBVIOUS
    <3>3. last = recent
      BY <2>2
    <3>4. QED
      BY <3>1, <3>2, <3>3, <2>2, <1>2
  <2>3. QED
    BY <2>1, <2>2
<1>4. recent' = Append(last, Key(a))
  BY DEF Record
<1>5. recent' \in Seq(Keys) /\ Len(recent') = Len(last) + 1
  BY <1>1, <1>3, <1>4, AppendProperties
<1>6. noProgress' \in Nat
  BY <1>2 DEF Record
<1>7. Len(recent') <= 2
  <2>1. \A n \in 0..1 : n + 1 <= 2
    OBVIOUS
  <2>2. QED
    BY <1>3, <1>5, <2>1
<1>8. action' = a /\ outcome' = o /\ steps' = steps + 1 /\ pc' = "persist!"
  <2>1. action' = a
    BY DEF Record
  <2>2. outcome' = o
    BY DEF Record
  <2>3. steps' = steps + 1
    BY DEF Record
  <2>4. pc' = "persist!"
    BY DEF Record
  <2>5. QED
    BY <2>1, <2>2, <2>3, <2>4
<1>9. QED
  BY <1>5, <1>6, <1>7, <1>8

LEMMA Initially == Init => AgentInv
<1> SUFFICES ASSUME Init PROVE AgentInv
  OBVIOUS
<1>1. TypeInvariant
  <2>1. runRow \in [status : Finished \cup {"absent", "running"},
                    reason : Reasons, steps : Nat, calls : Nat]
    BY DEF Init, Reasons
  <2>2. stepRow \in [1..MaxSteps -> StepRows]
    BY Ingredients DEF Init
  <2>3. /\ pc \in Labels /\ reason \in Reasons /\ status \in Finished
        /\ outcome \in Outcomes
    BY DEF Init, Labels, Reasons, Finished, Outcomes
  <2>4. /\ uses \in [Metered -> Nat] /\ performed \in [Metered -> Nat]
        /\ seen \in Pages
        /\ action \in [tool : Tools, at : Places, cites : SUBSET Nat]
    BY Ingredients DEF Init
  <2>5. recent \in Seq(Keys) /\ Len(recent) <= 2
    BY EmptySeq DEF Init
  <2>6. QED
    BY <2>1, <2>2, <2>3, <2>4, <2>5 DEF Init, TypeInvariant
<1>2. Metering
  BY Constants DEF Init, Metering, NoUses
<1>3. Recorded /\ RecordHasNoGap
  BY DEF Init, Recorded, Written, RecordHasNoGap, Present, NoStep
<1>4. Cited
  BY DEF Init, Cited, FindingsAreBacked
<1>5. QED
  BY <1>1, <1>2, <1>3, <1>4 DEF AgentInv

-----------------------------------------------------------------------------
\* What does not write a step changes nothing in what is recorded of it.
LEMMA RowsKept ==
  ASSUME AgentInv, UNCHANGED <<stepRow, attempt>>, Written' \in Int,
         Written' <= Written, pc' = "persist!" => steps' > 0,
         pc' \in {"persist!", "persist-failed!"} => outcome' # "absent"
  PROVE  Recorded' /\ RecordHasNoGap'
<1>1. RecordHasNoGap'
  BY DEF AgentInv, RecordHasNoGap, Present
<1>2. Written \in Int
  BY DEF AgentInv, TypeInvariant, Written
<1>3. \A s \in 1..Written' : s \in 1..Written
  BY <1>2
<1>4. \A s \in 1..Written' : stepRow'[s].by = attempt' /\ Present(s)'
  BY <1>3 DEF AgentInv, Recorded, Present
<1>5. \A s \in 1..MaxSteps : stepRow'[s].by <= attempt'
  BY DEF AgentInv, Recorded
<1>6. QED
  BY <1>1, <1>4, <1>5 DEF Recorded

LEMMA FindingsKept ==
  ASSUME FindingsAreBacked, UNCHANGED <<findings, stepRow, attempt>>
  PROVE  FindingsAreBacked'
BY DEF FindingsAreBacked, OwnSteps

\* The types of what most actions leave alone.
RowTypes ==
  /\ runRow \in [status : Finished \cup {"absent", "running"},
                 reason : Reasons, steps : Nat, calls : Nat]
  /\ stepRow \in [1..MaxSteps -> StepRows]
  /\ attempt \in Nat /\ crashes \in Nat /\ faults \in Nat

CountTypes ==
  /\ steps \in Nat /\ calls \in Nat /\ uses \in [Metered -> Nat]
  /\ rejections \in Nat /\ noProgress \in Nat /\ spent \in Nat
  /\ performed \in [Metered -> Nat]

StepTypes ==
  /\ action \in [tool : Tools, at : Places, cites : SUBSET Nat]
  /\ outcome \in Outcomes /\ seen \in Pages
  /\ recent \in Seq(Keys) /\ Len(recent) <= 2
  /\ findings \subseteq [step : Nat, cites : SUBSET Nat]

ControlTypes ==
  /\ pc \in Labels /\ reason \in Reasons /\ status \in Finished
  /\ late \in BOOLEAN /\ closed \in BOOLEAN
  /\ pc = "loop" => reason = "none"

LEMMA TypeParts ==
  TypeInvariant <=> RowTypes /\ CountTypes /\ StepTypes /\ ControlTypes
BY Zenon DEF TypeInvariant, RowTypes, CountTypes, StepTypes, ControlTypes

LEMMA TypePartsPrimed ==
  RowTypes' /\ CountTypes' /\ StepTypes' /\ ControlTypes' => TypeInvariant'
BY Zenon DEF TypeInvariant, RowTypes, CountTypes, StepTypes, ControlTypes

LEMMA StopTyped ==
  ASSUME NEW r \in Reasons, StopBy(r)
  PROVE  reason' \in Reasons /\ status' \in Finished
BY DEF StopBy, Finished

LEMMA FaultTyped ==
  ASSUME faults \in Nat, DatabaseFails
  PROVE  faults' \in Nat
BY DEF DatabaseFails

LEMMA CreateRunKeeps == AgentInv /\ CreateRun => AgentInv'
<1> SUFFICES ASSUME AgentInv, CreateRun PROVE AgentInv'
  OBVIOUS
<1>1. RowTypes /\ CountTypes /\ StepTypes /\ ControlTypes
  BY TypeParts DEF AgentInv
<1>2. RowTypes'
  <2>1. faults' \in Nat
    BY <1>1, FaultTyped DEF CreateRun, RowTypes
  <2>2. runRow' = runRow \/ runRow' = [runRow EXCEPT !.status = "running"]
    BY DEF CreateRun
  <2>3. runRow' \in [status : Finished \cup {"absent", "running"},
                     reason : Reasons, steps : Nat, calls : Nat]
    BY <1>1, <2>2 DEF RowTypes
  <2>4. attempt' \in Nat
    BY <1>1 DEF CreateRun, RowTypes
  <2>5. QED
    BY <1>1, <2>1, <2>3, <2>4 DEF CreateRun, RowTypes, outside
<1>3. CountTypes' /\ StepTypes' /\ ControlTypes'
  BY <1>1 DEF CreateRun, counts, verdict, step, history, outside, CountTypes,
    StepTypes, ControlTypes, Labels
<1>4. Metering'
  BY DEF CreateRun, AgentInv, Metering, counts, verdict, step, history
<1>5. Recorded' /\ RecordHasNoGap'
  <2>1. stepRow' = stepRow /\ attempt' \in {attempt, attempt + 1} /\ Written' = 0
        /\ pc' \in {"open", "threw"}
    BY DEF CreateRun, Written
  <2>2. \A s \in 1..MaxSteps : stepRow'[s].by <= attempt'
    BY <2>1, <1>1 DEF AgentInv, Recorded, RowTypes, StepRows
  <2>3. RecordHasNoGap'
    BY <2>1 DEF AgentInv, RecordHasNoGap, Present
  <2>4. QED
    BY <2>1, <2>2, <2>3 DEF Recorded
<1>6. Cited'
  <2>1. findings = {} /\ findings' = findings /\ pc' \in {"open", "threw"}
    BY DEF CreateRun, AgentInv, Cited, history
  <2>2. QED
    BY <2>1 DEF Cited, FindingsAreBacked
<1>7. QED
  BY <1>2, <1>3, <1>4, <1>5, <1>6, TypePartsPrimed DEF AgentInv

LEMMA OpenKeeps == AgentInv /\ Open => AgentInv'
<1> SUFFICES ASSUME AgentInv, Open PROVE AgentInv'
  OBVIOUS
<1>1. RowTypes /\ CountTypes /\ StepTypes /\ ControlTypes
  BY TypeParts DEF AgentInv
<1>2. RowTypes' /\ CountTypes' /\ StepTypes'
  BY <1>1 DEF Open, rows, counts, verdict, step, history, outside, RowTypes,
    CountTypes, StepTypes
<1>3. ControlTypes'
  BY <1>1 DEF Open, outside, verdict, ControlTypes, Labels, AgentInv, Metering
<1>4. Metering'
  BY Constants DEF Open, AgentInv, Metering, counts, step, history
<1>5. Recorded' /\ RecordHasNoGap'
  <2>1. /\ UNCHANGED <<stepRow, attempt>> /\ Written = 0 /\ Written' = 0
        /\ pc' \in {"loop", "threw"}
    BY DEF Open, Written, AgentInv, Metering, rows, counts
  <2>2. QED
    BY <2>1, RowsKept
<1>6. Cited'
  <2>1. UNCHANGED <<findings, stepRow, attempt>> /\ pc' \in {"loop", "threw"}
    BY DEF Open, rows, history
  <2>2. QED
    BY <2>1, FindingsKept DEF AgentInv, Cited
<1>7. QED
  BY <1>2, <1>3, <1>4, <1>5, <1>6, TypePartsPrimed DEF AgentInv

LEMMA StopOnBudgetKeeps == AgentInv /\ StopOnBudget => AgentInv'
<1> SUFFICES ASSUME AgentInv, StopOnBudget PROVE AgentInv'
  OBVIOUS
<1>1. RowTypes /\ CountTypes /\ StepTypes /\ ControlTypes
  BY TypeParts DEF AgentInv
<1>2. RowTypes' /\ CountTypes' /\ StepTypes'
  BY <1>1 DEF StopOnBudget, rows, counts, step, history, outside, RowTypes,
    CountTypes, StepTypes
<1>3. ControlTypes'
  <2>1. reason' \in Reasons /\ status' \in Finished
    BY StopTyped DEF StopOnBudget, Reasons
  <2>2. QED
    BY <1>1, <2>1 DEF StopOnBudget, outside, ControlTypes, Labels
<1>4. Metering'
  BY DEF StopOnBudget, AgentInv, Metering, counts
<1>5. Recorded' /\ RecordHasNoGap'
  <2>1. /\ UNCHANGED <<stepRow, attempt>> /\ Written = steps /\ Written' = 0
        /\ pc' = "complete!" /\ steps \in Nat
    BY <1>1 DEF StopOnBudget, Written, rows, CountTypes
  <2>2. QED
    BY <2>1, RowsKept
<1>6. Cited'
  <2>1. UNCHANGED <<findings, stepRow, attempt>> /\ pc' = "complete!"
    BY DEF StopOnBudget, rows, history
  <2>2. QED
    BY <2>1, FindingsKept DEF AgentInv, Cited
<1>7. QED
  BY <1>2, <1>3, <1>4, <1>5, <1>6, TypePartsPrimed DEF AgentInv

\* A first observation is counted, and there is room for it.
LEMMA ShotsCounted ==
  ASSUME NEW f \in [Metered -> Nat],
         f = uses, \A t \in Metered : f[t] <= MaxUses[t]
  PROVE  /\ Shots(f, Captured) \in [Metered -> Nat]
         /\ \A t \in Metered : Shots(f, Captured)[t] <= MaxUses[t]
<1>1. "screenshot" \in Metered /\ MaxUses \in [Metered -> Nat]
  BY Constants DEF Metered
<1>2. Captured \in {0, 1} /\ (Captured = 1 => f["screenshot"] < MaxUses["screenshot"])
  BY DEF Captured
<1>3. f["screenshot"] + Captured \in Nat
      /\ f["screenshot"] + Captured <= MaxUses["screenshot"]
  BY <1>1, <1>2
<1>4. Shots(f, Captured) = [f EXCEPT !["screenshot"] = f["screenshot"] + Captured]
  BY DEF Shots
<1>5. QED
  BY <1>1, <1>3, <1>4

LEMMA ObserveKeeps == AgentInv /\ Observe => AgentInv'
<1> SUFFICES ASSUME AgentInv, Observe PROVE AgentInv'
  OBVIOUS
<1>1. RowTypes /\ CountTypes /\ StepTypes /\ ControlTypes
  BY TypeParts DEF AgentInv
<1>2. /\ performed = uses /\ uses \in [Metered -> Nat]
      /\ \A t \in Metered : uses[t] <= MaxUses[t]
  BY <1>1 DEF Observe, AgentInv, Metering, CountTypes
<1>3. /\ uses' \in [Metered -> Nat] /\ performed' = uses'
      /\ \A t \in Metered : performed'[t] <= MaxUses[t]
  <2>1. uses' = Shots(uses, Captured) /\ performed' = Shots(uses, Captured)
    BY <1>2 DEF Observe
  <2>2. QED
    BY <2>1, <1>2, ShotsCounted
<1>4. steps \in Nat /\ steps < MaxSteps /\ calls \in Nat /\ calls < MaxProviderCalls
  <2>1. ~(steps >= MaxSteps) /\ ~(calls >= MaxProviderCalls)
    BY DEF Observe, Exhausted
  <2>2. QED
    BY <1>1, <2>1, Constants DEF CountTypes
<1>5. RowTypes' /\ CountTypes' /\ StepTypes' /\ ControlTypes'
  <2>1. RowTypes' /\ StepTypes' /\ ControlTypes'
    BY <1>1 DEF Observe, rows, verdict, history, outside, RowTypes, StepTypes,
      ControlTypes, Labels
  <2>2. CountTypes'
    BY <1>1, <1>3, <1>4 DEF Observe, CountTypes
  <2>3. QED
    BY <2>1, <2>2
<1>6. Metering'
  <2>1. steps' = steps /\ calls' = calls + 1 /\ pc' = "decide"
    BY DEF Observe
  <2>2. steps' < MaxSteps /\ steps' <= MaxSteps /\ calls' <= MaxProviderCalls
    BY <2>1, <1>4, Constants
  <2>3. QED
    BY <1>3, <2>1, <2>2 DEF Metering
<1>7. Recorded' /\ RecordHasNoGap'
  <2>1. /\ UNCHANGED <<stepRow, attempt>> /\ Written = steps /\ Written' = steps
        /\ pc' = "decide"
    BY DEF Observe, Written, rows
  <2>2. QED
    BY <2>1, <1>4, RowsKept
<1>8. Cited'
  <2>1. UNCHANGED <<findings, stepRow, attempt>> /\ pc' = "decide"
    BY DEF Observe, rows, history
  <2>2. QED
    BY <2>1, FindingsKept DEF AgentInv, Cited
<1>9. QED
  BY <1>5, <1>6, <1>7, <1>8, TypePartsPrimed DEF AgentInv

LEMMA ObserveFailsKeeps == AgentInv /\ ObserveFails => AgentInv'
<1> SUFFICES ASSUME AgentInv, ObserveFails PROVE AgentInv'
  OBVIOUS
<1>1. RowTypes /\ CountTypes /\ StepTypes /\ ControlTypes
  BY TypeParts DEF AgentInv
<1>2. /\ performed = uses /\ uses \in [Metered -> Nat]
      /\ \A t \in Metered : performed[t] <= MaxUses[t]
  BY <1>1 DEF ObserveFails, AgentInv, Metering, CountTypes
<1>3. performed' \in [Metered -> Nat] /\ \A t \in Metered : performed'[t] <= MaxUses[t]
  <2>1. performed' = performed \/ performed' = Shots(performed, Captured)
    BY DEF ObserveFails
  <2>2. QED
    BY <2>1, <1>2, ShotsCounted
<1>4. RowTypes' /\ CountTypes' /\ StepTypes'
  BY <1>1, <1>3 DEF ObserveFails, rows, counts, step, history, outside, RowTypes,
    CountTypes, StepTypes
<1>5. ControlTypes'
  <2>1. reason' \in Reasons /\ status' \in Finished
    BY StopTyped DEF ObserveFails, Reasons
  <2>2. QED
    BY <1>1, <2>1 DEF ObserveFails, outside, ControlTypes, Labels
<1>6. Metering'
  BY <1>3 DEF ObserveFails, AgentInv, Metering, counts
<1>7. Recorded' /\ RecordHasNoGap'
  <2>1. /\ UNCHANGED <<stepRow, attempt>> /\ Written = steps /\ Written' = 0
        /\ pc' = "complete!" /\ steps \in Nat
    BY <1>1 DEF ObserveFails, Written, rows, CountTypes
  <2>2. QED
    BY <2>1, RowsKept
<1>8. Cited'
  <2>1. UNCHANGED <<findings, stepRow, attempt>> /\ pc' = "complete!"
    BY DEF ObserveFails, rows, history
  <2>2. QED
    BY <2>1, FindingsKept DEF AgentInv, Cited
<1>9. QED
  BY <1>4, <1>5, <1>6, <1>7, <1>8, TypePartsPrimed DEF AgentInv

LEMMA ProviderFailsKeeps == AgentInv /\ ProviderFails => AgentInv'
<1> SUFFICES ASSUME AgentInv, ProviderFails PROVE AgentInv'
  OBVIOUS
<1>1. RowTypes /\ CountTypes /\ StepTypes /\ ControlTypes
  BY TypeParts DEF AgentInv
<1>2. RowTypes' /\ CountTypes' /\ StepTypes'
  <2>1. RowTypes' /\ CountTypes'
    BY <1>1 DEF ProviderFails, rows, counts, outside, RowTypes, CountTypes
  <2>2. StepTypes'
    BY <1>1, Ingredients DEF ProviderFails, history, StepTypes, Outcomes
  <2>3. QED
    BY <2>1, <2>2
<1>3. ControlTypes'
  <2>1. reason' \in Reasons /\ status' \in Finished
    BY StopTyped DEF ProviderFails, Reasons
  <2>2. QED
    BY <1>1, <2>1 DEF ProviderFails, outside, ControlTypes, Labels
<1>4. Metering'
  BY DEF ProviderFails, AgentInv, Metering, counts
<1>5. Recorded' /\ RecordHasNoGap'
  <2>1. /\ UNCHANGED <<stepRow, attempt>> /\ Written = steps /\ Written' = steps
        /\ pc' = "persist-failed!" /\ steps \in Nat /\ outcome' = "failed"
    BY <1>1 DEF ProviderFails, Written, rows, counts, CountTypes
  <2>2. QED
    BY <2>1, RowsKept
<1>6. Cited'
  <2>1. UNCHANGED <<findings, stepRow, attempt>> /\ pc' = "persist-failed!"
    BY DEF ProviderFails, rows, history
  <2>2. QED
    BY <2>1, FindingsKept DEF AgentInv, Cited
<1>7. QED
  BY <1>2, <1>3, <1>4, <1>5, <1>6, TypePartsPrimed DEF AgentInv

LEMMA CompleteRunKeeps == AgentInv /\ CompleteRun => AgentInv'
<1> SUFFICES ASSUME AgentInv, CompleteRun PROVE AgentInv'
  OBVIOUS
<1>1. RowTypes /\ CountTypes /\ StepTypes /\ ControlTypes
  BY TypeParts DEF AgentInv
<1>2. RowTypes'
  <2>1. faults' \in Nat
    BY <1>1, FaultTyped DEF CompleteRun, RowTypes
  <2>2. \/ runRow' = runRow
        \/ runRow' = [status |-> status, reason |-> reason, steps |-> steps,
                      calls |-> calls]
    BY DEF CompleteRun, Reported
  <2>3. runRow' \in [status : Finished \cup {"absent", "running"},
                     reason : Reasons, steps : Nat, calls : Nat]
    BY <1>1, <2>2 DEF RowTypes, CountTypes, ControlTypes
  <2>4. QED
    BY <1>1, <2>1, <2>3 DEF CompleteRun, RowTypes, outside
<1>3. CountTypes' /\ StepTypes' /\ ControlTypes'
  BY <1>1 DEF CompleteRun, counts, verdict, step, history, outside, CountTypes,
    StepTypes, ControlTypes, Labels
<1>4. Metering'
  BY DEF CompleteRun, AgentInv, Metering, counts, step
<1>5. Recorded' /\ RecordHasNoGap'
  <2>1. /\ UNCHANGED <<stepRow, attempt>> /\ Written = 0 /\ Written' = 0
        /\ pc' \in {"returned", "threw"}
    BY DEF CompleteRun, Written
  <2>2. QED
    BY <2>1, RowsKept
<1>6. Cited'
  <2>1. UNCHANGED <<findings, stepRow, attempt>> /\ pc' \in {"returned", "threw"}
    BY DEF CompleteRun, history
  <2>2. QED
    BY <2>1, FindingsKept DEF AgentInv, Cited
<1>7. QED
  BY <1>2, <1>3, <1>4, <1>5, <1>6, TypePartsPrimed DEF AgentInv

\* A rejected answer is a step; one that is allowed has something left of its
\* own, and cites recorded steps only.
LEMMA DecideKeeps == AgentInv /\ Decide => AgentInv'
<1> SUFFICES ASSUME AgentInv, Decide PROVE AgentInv'
  OBVIOUS
<1>1. RowTypes /\ CountTypes /\ StepTypes /\ ControlTypes /\ TypeInvariant
  BY TypeParts DEF AgentInv
<1>2. PICK a \in Actions, c \in Costs :
        /\ spent' = spent + c
        /\ \/ StopBy("COST_BUDGET_EXHAUSTED")
           \/ UNCHANGED verdict
        /\ \/ /\ Record(a, "rejected", FALSE)
              /\ rejections' = rejections + 1
           \/ /\ ~Denied(a)
              /\ action' = a /\ outcome' = "allowed"
              /\ pc' = "act"
              /\ UNCHANGED <<steps, rejections, noProgress, recent, lastFingerprint>>
  BY DEF Decide
<1>3. a \in [tool : Tools, at : Places, cites : SUBSET Nat] /\ c \in Nat
  BY Constants
<1>4. /\ pc = "decide" /\ performed = uses /\ steps < MaxSteps
      /\ \A t \in Metered : performed[t] <= MaxUses[t]
      /\ steps <= MaxSteps /\ calls <= MaxProviderCalls
  BY DEF Decide, AgentInv, Metering
<1>5. UNCHANGED <<rows, calls, uses, seen, findings, performed, outside, faults>>
  BY DEF Decide
<1>6. RowTypes'
  BY <1>1, <1>5 DEF rows, outside, RowTypes
<1>7. reason' \in Reasons /\ status' \in Finished
  <2>1. CASE StopBy("COST_BUDGET_EXHAUSTED")
    BY <2>1, StopTyped DEF Reasons
  <2>2. CASE UNCHANGED verdict
    BY <2>2, <1>1 DEF verdict, ControlTypes
  <2>3. QED
    BY <1>2, <2>1, <2>2
<1>8. spent' \in Nat
  BY <1>1, <1>2, <1>3 DEF CountTypes
<1>9. CASE Record(a, "rejected", FALSE) /\ rejections' = rejections + 1
  <2>1. /\ action' = a /\ outcome' = "rejected" /\ steps' = steps + 1
        /\ noProgress' \in Nat /\ pc' = "persist!"
        /\ recent' \in Seq(Keys) /\ Len(recent') <= 2
    BY <1>1, <1>3, <1>9, RecordTyped DEF Outcomes
  <2>2. CountTypes' /\ StepTypes' /\ ControlTypes'
    <3>1. CountTypes'
      BY <2>1, <1>1, <1>5, <1>8, <1>9 DEF CountTypes
    <3>2. StepTypes'
      BY <2>1, <1>1, <1>3, <1>5 DEF StepTypes, Outcomes
    <3>3. ControlTypes'
      BY <2>1, <1>1, <1>5, <1>7 DEF ControlTypes, Labels, outside
    <3>4. QED
      BY <3>1, <3>2, <3>3
  <2>3. Metering'
    <3>1. steps' <= MaxSteps
      BY <2>1, <1>1, <1>4, Constants DEF CountTypes
    <3>2. QED
      BY <3>1, <2>1, <1>4, <1>5 DEF Metering
  <2>4. Recorded' /\ RecordHasNoGap'
    <3>1. /\ UNCHANGED <<stepRow, attempt>> /\ Written = steps /\ Written' = steps
          /\ steps \in Nat /\ steps' > 0
      BY <2>1, <1>1, <1>4, <1>5 DEF Written, rows, CountTypes
    <3>2. QED
      BY <3>1, <2>1, RowsKept
  <2>5. Cited'
    <3>1. UNCHANGED <<findings, stepRow, attempt>>
      BY <1>5 DEF rows
    <3>2. QED
      BY <3>1, <2>1, FindingsKept DEF AgentInv, Cited
  <2>6. QED
    BY <1>6, <2>2, <2>3, <2>4, <2>5, TypePartsPrimed DEF AgentInv
<1>10. CASE /\ ~Denied(a)
            /\ action' = a /\ outcome' = "allowed"
            /\ pc' = "act"
            /\ UNCHANGED <<steps, rejections, noProgress, recent, lastFingerprint>>
  <2>1. /\ a.tool \in Metered => uses[a.tool] < MaxUses[a.tool]
        /\ a.tool = "report_finding" => a.cites \subseteq 1..steps
    BY <1>1, <1>10, Constants DEF Denied, OverBudget, Unbacked, CountTypes
  <2>2. CountTypes' /\ StepTypes' /\ ControlTypes'
    <3>1. CountTypes'
      BY <1>1, <1>5, <1>8, <1>10 DEF CountTypes
    <3>2. StepTypes'
      BY <1>1, <1>3, <1>5, <1>10 DEF StepTypes, Outcomes
    <3>3. ControlTypes'
      BY <1>1, <1>5, <1>7, <1>10 DEF ControlTypes, Labels, outside
    <3>4. QED
      BY <3>1, <3>2, <3>3
  <2>3. Metering'
    BY <2>1, <1>4, <1>5, <1>10 DEF Metering
  <2>4. Recorded' /\ RecordHasNoGap'
    <3>1. /\ UNCHANGED <<stepRow, attempt>> /\ Written = steps /\ Written' = steps
          /\ steps \in Nat
      BY <1>1, <1>4, <1>5, <1>10 DEF Written, rows, CountTypes
    <3>2. QED
      BY <3>1, <1>10, RowsKept
  <2>5. Cited'
    <3>1. UNCHANGED <<findings, stepRow, attempt>>
      BY <1>5 DEF rows
    <3>2. QED
      BY <3>1, <2>1, <1>10, FindingsKept DEF AgentInv, Cited
  <2>6. QED
    BY <1>6, <2>2, <2>3, <2>4, <2>5, TypePartsPrimed DEF AgentInv
<1>11. QED
  BY <1>2, <1>9, <1>10

\* What an action that is carried out uses up was left.
LEMMA UsedCounted ==
  ASSUME AgentInv, pc = "act"
  PROVE  /\ performed = uses
         /\ Used(uses) \in [Metered -> Nat]
         /\ \A t \in Metered : Used(uses)[t] <= MaxUses[t]
<1>1. /\ performed = uses /\ uses \in [Metered -> Nat]
      /\ \A t \in Metered : uses[t] <= MaxUses[t]
      /\ action.tool \in Metered => uses[action.tool] < MaxUses[action.tool]
  BY DEF AgentInv, Metering, TypeInvariant
<1>2. CASE action.tool \in Metered
  <2>1. Used(uses) = [uses EXCEPT ![action.tool] = uses[action.tool] + 1]
    BY <1>2 DEF Used
  <2>2. uses[action.tool] + 1 \in Nat /\ uses[action.tool] + 1 <= MaxUses[action.tool]
    BY <1>1, <1>2, Constants
  <2>3. QED
    BY <2>1, <2>2, <1>1, <1>2
<1>3. CASE action.tool \notin Metered
  BY <1>1, <1>3 DEF Used
<1>4. QED
  BY <1>2, <1>3, <1>1

LEMMA ActKeeps == AgentInv /\ Act => AgentInv'
<1> SUFFICES ASSUME AgentInv, Act PROVE AgentInv'
  OBVIOUS
<1>1. RowTypes /\ CountTypes /\ StepTypes /\ ControlTypes /\ TypeInvariant
  BY TypeParts DEF AgentInv
<1>2. /\ pc = "act" /\ uses' = Used(uses) /\ performed' = Used(performed)
      /\ rejections' = 0
      /\ reason' = IF action.tool = "finish" THEN "FINISHED_BY_AGENT" ELSE reason
      /\ UNCHANGED <<rows, calls, spent, status, seen, outside, faults>>
  BY DEF Act
<1>3. PICK changed \in BOOLEAN : Record(Normalized(action), "executed", changed)
  BY DEF Act
<1>4. Normalized(action) \in [tool : Tools, at : Places, cites : SUBSET Nat]
  <2>1. action \in [tool : Tools, at : Places, cites : SUBSET Nat]
    BY <1>1 DEF StepTypes
  <2>2. Resolve[action.at] \in Places
    BY <2>1, Constants
  <2>3. QED
    BY <2>1, <2>2 DEF Normalized
<1>5. /\ action' = Normalized(action) /\ outcome' = "executed"
      /\ steps' = steps + 1 /\ noProgress' \in Nat /\ pc' = "persist!"
      /\ recent' \in Seq(Keys) /\ Len(recent') <= 2
  BY <1>1, <1>3, <1>4, RecordTyped DEF Outcomes
<1>6. /\ uses' \in [Metered -> Nat] /\ performed' = uses'
      /\ \A t \in Metered : performed'[t] <= MaxUses[t]
  BY <1>2, UsedCounted
<1>7. /\ steps \in Nat /\ steps < MaxSteps /\ calls <= MaxProviderCalls
      /\ action.cites \subseteq Nat
      /\ action.tool = "report_finding" => action.cites \subseteq 1..steps
  BY <1>1, <1>2 DEF AgentInv, Metering, Cited, CountTypes, StepTypes
<1>8. \/ findings' = findings
      \/ /\ action.tool = "report_finding"
         /\ findings' = findings \cup {[step |-> steps + 1, cites |-> action.cites]}
  BY DEF Act
<1>9. RowTypes' /\ CountTypes' /\ StepTypes' /\ ControlTypes'
  <2>1. RowTypes'
    BY <1>1, <1>2 DEF rows, outside, RowTypes
  <2>2. CountTypes'
    BY <1>1, <1>2, <1>5, <1>6 DEF CountTypes
  <2>3. findings' \subseteq [step : Nat, cites : SUBSET Nat]
    BY <1>1, <1>7, <1>8 DEF StepTypes
  <2>4. StepTypes'
    BY <2>3, <1>1, <1>2, <1>4, <1>5 DEF StepTypes, Outcomes
  <2>5. ControlTypes'
    BY <1>1, <1>2, <1>5 DEF ControlTypes, Labels, Reasons, outside
  <2>6. QED
    BY <2>1, <2>2, <2>4, <2>5
<1>10. Metering'
  <2>1. steps' <= MaxSteps
    BY <1>5, <1>7, Constants
  <2>2. QED
    BY <2>1, <1>2, <1>5, <1>6, <1>7 DEF Metering
<1>11. UNCHANGED <<stepRow, attempt>> /\ Written = steps /\ Written' = steps
  BY <1>2, <1>5, <1>7 DEF Written, rows
<1>12. Recorded' /\ RecordHasNoGap'
  <2>1. steps' > 0
    BY <1>5, <1>7
  <2>2. QED
    BY <2>1, <1>5, <1>7, <1>11, RowsKept
<1>13. FindingsAreBacked'
  <2>1. FindingsAreBacked /\ OwnSteps' = OwnSteps
    BY <1>11 DEF AgentInv, Cited, OwnSteps
  <2>2. \A s \in 1..steps : s \in OwnSteps /\ s < steps + 1
    <3> TAKE s \in 1..steps
    <3>1. stepRow[s].by = attempt
      BY <1>11 DEF AgentInv, Recorded
    <3>2. s \in 1..MaxSteps /\ s < steps + 1
      BY <1>7, Constants
    <3>3. QED
      BY <3>1, <3>2 DEF OwnSteps
  <2>3. ASSUME NEW f \in findings', NEW s \in f.cites
        PROVE  s \in OwnSteps /\ s < f.step
    <3>1. CASE f \in findings
      BY <3>1, <2>1, <2>3 DEF FindingsAreBacked
    <3>2. CASE /\ f = [step |-> steps + 1, cites |-> action.cites]
               /\ action.tool = "report_finding"
      BY <3>2, <2>2, <2>3, <1>7
    <3>3. QED
      BY <3>1, <3>2, <1>8
  <2>4. QED
    BY <2>1, <2>3 DEF FindingsAreBacked
<1>14. Cited'
  BY <1>5, <1>13 DEF Cited
<1>15. QED
  BY <1>9, <1>10, <1>12, <1>14, TypePartsPrimed DEF AgentInv

LEMMA ActFailsKeeps == AgentInv /\ ActFails => AgentInv'
<1> SUFFICES ASSUME AgentInv, ActFails PROVE AgentInv'
  OBVIOUS
<1>1. RowTypes /\ CountTypes /\ StepTypes /\ ControlTypes
  BY TypeParts DEF AgentInv
<1>2. pc = "act" /\ (performed' = performed \/ performed' = Used(performed))
  BY DEF ActFails
<1>3. performed' \in [Metered -> Nat] /\ \A t \in Metered : performed'[t] <= MaxUses[t]
  BY <1>1, <1>2, UsedCounted DEF AgentInv, Metering, CountTypes
<1>4. RowTypes' /\ CountTypes' /\ StepTypes'
  BY <1>1, <1>3 DEF ActFails, rows, counts, step, history, outside, RowTypes,
    CountTypes, StepTypes
<1>5. ControlTypes'
  <2>1. reason' \in Reasons /\ status' \in Finished
    BY StopTyped DEF ActFails, Reasons
  <2>2. QED
    BY <1>1, <2>1 DEF ActFails, outside, ControlTypes, Labels
<1>6. Metering'
  BY <1>3 DEF ActFails, AgentInv, Metering, counts
<1>7. Recorded' /\ RecordHasNoGap'
  <2>1. /\ UNCHANGED <<stepRow, attempt>> /\ Written = steps /\ Written' = 0
        /\ pc' = "complete!" /\ steps \in Nat
    BY <1>1 DEF ActFails, Written, rows, CountTypes
  <2>2. QED
    BY <2>1, RowsKept
<1>8. Cited'
  <2>1. UNCHANGED <<findings, stepRow, attempt>> /\ pc' = "complete!"
    BY DEF ActFails, rows, history
  <2>2. QED
    BY <2>1, FindingsKept DEF AgentInv, Cited
<1>9. QED
  BY <1>4, <1>5, <1>6, <1>7, <1>8, TypePartsPrimed DEF AgentInv

\* A write that fails may have taken effect.
LEMMA StepLostMeans ==
  ASSUME AgentInv, NEW s, StepLost(s)
  PROVE  /\ faults' \in Nat /\ pc' = "complete!"
         /\ reason' \in Reasons /\ status' \in Finished
         /\ WriteStep(s) \/ UNCHANGED stepRow
<1>1. faults' \in Nat
  BY FaultTyped DEF StepLost, AgentInv, TypeInvariant
<1>2. reason' \in Reasons /\ status' \in Finished
  BY StopTyped DEF StepLost, Reasons, BrowserErrors
<1>3. QED
  BY <1>1, <1>2 DEF StepLost

\* The step that is due follows what the attempt has written.
LEMMA RowsAfterWrite ==
  ASSUME AgentInv, UNCHANGED <<attempt, findings>>, NEW s \in 1..MaxSteps,
         pc \in {"persist!", "persist-failed!"}, s = Written + 1,
         WriteStep(s) \/ UNCHANGED stepRow,
         pc' \in {"loop", "complete!"},
         pc' = "loop" => WriteStep(s) /\ steps' = s
  PROVE  /\ stepRow' \in [1..MaxSteps -> StepRows]
         /\ Recorded' /\ RecordHasNoGap' /\ Cited'
<1>1. /\ TypeInvariant /\ RecordHasNoGap /\ FindingsAreBacked
      /\ outcome # "absent" /\ Written \in Int
      /\ \A t \in 1..MaxSteps : stepRow[t].by <= attempt
      /\ \A t \in 1..(s - 1) : stepRow[t].by = attempt /\ Present(t)
  <2>1. Written \in Int
    BY DEF AgentInv, TypeInvariant, Written
  <2>2. s - 1 = Written
    BY <2>1
  <2>3. QED
    BY <2>1, <2>2 DEF AgentInv, Recorded, Cited
<1>2. CASE WriteStep(s)
  <2>1. /\ stepRow' \in [1..MaxSteps -> StepRows]
        /\ \A t \in 1..MaxSteps : stepRow'[t].by <= attempt
        /\ \A t \in 1..s : stepRow'[t].by = attempt /\ Present(t)'
        /\ \A t \in 1..MaxSteps : stepRow[t].by = attempt => stepRow'[t].by = attempt
        /\ RecordHasNoGap'
    BY <1>1, <1>2, WriteStepKeepsRecord
  <2>2. Written' = 0 \/ Written' = s
    BY DEF Written
  <2>3. \A t \in 1..Written' : t \in 1..s
    BY <2>2
  <2>4. Recorded'
    <3>1. pc' \notin {"persist!", "persist-failed!"}
      OBVIOUS
    <3>2. \A t \in 1..Written' : stepRow'[t].by = attempt' /\ Present(t)'
      BY <2>1, <2>3
    <3>3. \A t \in 1..MaxSteps : stepRow'[t].by <= attempt'
      BY <2>1
    <3>4. QED
      BY <3>1, <3>2, <3>3 DEF Recorded
  <2>5. OwnSteps \subseteq OwnSteps'
    BY <2>1 DEF OwnSteps
  <2>6. Cited'
    BY <1>1, <2>5 DEF FindingsAreBacked, Cited
  <2>7. QED
    BY <2>1, <2>4, <2>6
<1>3. CASE UNCHANGED stepRow /\ pc' = "complete!"
  <2>1. Written' = 0
    BY <1>3 DEF Written
  <2>2. Written >= 0
    BY DEF AgentInv, Recorded, TypeInvariant, Written
  <2>3. Recorded' /\ RecordHasNoGap'
    BY <2>1, <2>2, <1>1, <1>3, RowsKept
  <2>4. Cited'
    BY <1>1, <1>3, FindingsKept DEF Cited
  <2>5. QED
    BY <2>3, <2>4, <1>1, <1>3 DEF TypeInvariant
<1>4. QED
  BY <1>2, <1>3

LEMMA PersistStepKeeps == AgentInv /\ PersistStep => AgentInv'
<1> SUFFICES ASSUME AgentInv, PersistStep PROVE AgentInv'
  OBVIOUS
<1>1. RowTypes /\ CountTypes /\ StepTypes /\ ControlTypes
  BY TypeParts DEF AgentInv
<1>2. /\ pc = "persist!"
      /\ UNCHANGED <<runRow, attempt, counts, step, history, performed, outside>>
      /\ \/ WriteStep(steps) /\ Judge /\ pc' = Onward /\ UNCHANGED faults
         \/ StepLost(steps)
  BY DEF PersistStep
<1>3. /\ faults' \in Nat /\ pc' \in {"loop", "complete!"}
      /\ reason' \in Reasons /\ status' \in Finished
      /\ WriteStep(steps) \/ UNCHANGED stepRow
      /\ pc' = "loop" => reason' = "none" /\ WriteStep(steps)
  <2>1. CASE StepLost(steps)
    BY <2>1, StepLostMeans
  <2>2. CASE WriteStep(steps) /\ Judge /\ pc' = Onward /\ UNCHANGED faults
    <3>1. reason' \in Reasons /\ status' \in Finished
      <4>1. CASE StopBy("NO_PROGRESS")
        BY <4>1, StopTyped DEF Reasons
      <4>2. CASE StopBy("TOO_MANY_REJECTIONS")
        BY <4>2, StopTyped DEF Reasons
      <4>3. CASE UNCHANGED verdict
        BY <4>3, <1>1 DEF verdict, ControlTypes
      <4>4. QED
        BY <2>2, <4>1, <4>2, <4>3 DEF Judge
    <3>2. pc' \in {"loop", "complete!"} /\ (pc' = "loop" => reason' = "none")
      BY <2>2 DEF Onward
    <3>3. QED
      BY <3>1, <3>2, <2>2, <1>1 DEF RowTypes
  <2>3. QED
    BY <1>2, <2>1, <2>2
<1>4. /\ steps \in 1..MaxSteps /\ Written = steps - 1
      /\ steps' = steps /\ findings' = findings
  BY <1>1, <1>2, Constants DEF AgentInv, Metering, Recorded, Written, counts,
    history, CountTypes
<1>5. steps = Written + 1
  BY <1>4
<1>6. stepRow' \in [1..MaxSteps -> StepRows] /\ Recorded' /\ RecordHasNoGap' /\ Cited'
  BY <1>2, <1>3, <1>4, <1>5, RowsAfterWrite
<1>7. RowTypes' /\ CountTypes' /\ StepTypes' /\ ControlTypes'
  <2>1. RowTypes'
    BY <1>1, <1>2, <1>3, <1>6 DEF RowTypes, outside
  <2>2. CountTypes' /\ StepTypes'
    BY <1>1, <1>2 DEF counts, step, history, CountTypes, StepTypes
  <2>3. ControlTypes'
    BY <1>1, <1>2, <1>3 DEF ControlTypes, Labels, outside
  <2>4. QED
    BY <2>1, <2>2, <2>3
<1>8. Metering'
  BY <1>2, <1>3 DEF AgentInv, Metering, counts
<1>9. QED
  BY <1>6, <1>7, <1>8, TypePartsPrimed DEF AgentInv

LEMMA PersistProviderFailureKeeps ==
  AgentInv /\ PersistProviderFailure => AgentInv'
<1> SUFFICES ASSUME AgentInv, PersistProviderFailure PROVE AgentInv'
  OBVIOUS
<1>1. RowTypes /\ CountTypes /\ StepTypes /\ ControlTypes
  BY TypeParts DEF AgentInv
<1>2. /\ pc = "persist-failed!"
      /\ UNCHANGED <<runRow, attempt, calls, uses, rejections, noProgress, spent,
                     step, history, performed, outside>>
      /\ \/ /\ WriteStep(steps + 1) /\ steps' = steps + 1
            /\ pc' = "complete!"
            /\ UNCHANGED <<verdict, faults>>
         \/ StepLost(steps + 1) /\ UNCHANGED steps
  BY DEF PersistProviderFailure
<1>3. /\ faults' \in Nat /\ pc' = "complete!"
      /\ reason' \in Reasons /\ status' \in Finished
      /\ WriteStep(steps + 1) \/ UNCHANGED stepRow
      /\ steps' \in {steps, steps + 1}
  <2>1. CASE StepLost(steps + 1) /\ UNCHANGED steps
    BY <2>1, StepLostMeans
  <2>2. CASE /\ WriteStep(steps + 1) /\ steps' = steps + 1
             /\ pc' = "complete!"
             /\ UNCHANGED <<verdict, faults>>
    BY <2>2, <1>1 DEF verdict, RowTypes, ControlTypes
  <2>3. QED
    BY <1>2, <2>1, <2>2
<1>4. steps \in Nat /\ steps < MaxSteps /\ Written = steps /\ findings' = findings
  BY <1>1, <1>2 DEF AgentInv, Metering, Written, history, CountTypes
<1>5. steps + 1 \in 1..MaxSteps /\ steps + 1 = Written + 1
  BY <1>4, Constants
<1>6. stepRow' \in [1..MaxSteps -> StepRows] /\ Recorded' /\ RecordHasNoGap' /\ Cited'
  BY <1>2, <1>3, <1>4, <1>5, RowsAfterWrite
<1>7. RowTypes' /\ CountTypes' /\ StepTypes' /\ ControlTypes'
  <2>1. RowTypes'
    BY <1>1, <1>2, <1>3, <1>6 DEF RowTypes, outside
  <2>2. CountTypes' /\ StepTypes'
    BY <1>1, <1>2, <1>3, <1>4 DEF step, history, CountTypes, StepTypes
  <2>3. ControlTypes'
    BY <1>1, <1>2, <1>3 DEF ControlTypes, Labels, outside
  <2>4. QED
    BY <2>1, <2>2, <2>3
<1>8. Metering'
  <2>1. steps' <= MaxSteps
    BY <1>3, <1>4, Constants
  <2>2. QED
    BY <2>1, <1>2, <1>3 DEF AgentInv, Metering
<1>9. QED
  BY <1>6, <1>7, <1>8, TypePartsPrimed DEF AgentInv

LEMMA OutsideKeeps == AgentInv /\ (Elapse \/ MissionTimeout) => AgentInv'
<1> SUFFICES ASSUME AgentInv, Elapse \/ MissionTimeout PROVE AgentInv'
  OBVIOUS
<1>1. /\ UNCHANGED <<rows, pc, counts, verdict, step, history, performed, crashes,
                     faults>>
      /\ late' \in {late, TRUE} /\ closed' \in {closed, TRUE}
  BY DEF Elapse, MissionTimeout
<1>2. RowTypes /\ CountTypes /\ StepTypes /\ ControlTypes
  BY TypeParts DEF AgentInv
<1>3. RowTypes' /\ CountTypes' /\ StepTypes' /\ ControlTypes'
  BY <1>1, <1>2 DEF rows, counts, verdict, step, history, RowTypes, CountTypes,
    StepTypes, ControlTypes
<1>4. Metering'
  BY <1>1 DEF AgentInv, Metering, counts, verdict, step
<1>5. Recorded' /\ RecordHasNoGap'
  BY <1>1 DEF AgentInv, Recorded, RecordHasNoGap, Present, Written, rows, counts, step
<1>6. Cited'
  BY <1>1, FindingsKept DEF AgentInv, Cited, rows, counts, step, history
<1>7. QED
  BY <1>3, <1>4, <1>5, <1>6, TypePartsPrimed DEF AgentInv

LEMMA CrashKeeps == AgentInv /\ Crash => AgentInv'
<1> SUFFICES ASSUME AgentInv, Crash PROVE AgentInv'
  OBVIOUS
<1>1. RowTypes /\ CountTypes /\ StepTypes /\ ControlTypes
  BY TypeParts DEF AgentInv
<1>2. /\ crashes' = crashes + 1 /\ UNCHANGED <<rows, faults>>
      /\ \/ /\ pc' = "dead"
            /\ UNCHANGED <<counts, verdict, step, history, performed, late, closed>>
         \/ Restart
  BY DEF Crash
<1>3. RowTypes'
  BY <1>1, <1>2 DEF rows, RowTypes
<1>4. Recorded' /\ RecordHasNoGap'
  <2>1. UNCHANGED <<stepRow, attempt>> /\ Written' = 0 /\ pc' \in {"dead", "create-run"}
    BY <1>2 DEF Restart, Written, rows
  <2>2. \A s \in 1..MaxSteps : stepRow'[s].by <= attempt'
    BY <2>1 DEF AgentInv, Recorded
  <2>3. QED
    BY <2>1, <2>2 DEF AgentInv, Recorded, RecordHasNoGap, Present
<1>5. CASE /\ pc' = "dead"
           /\ UNCHANGED <<counts, verdict, step, history, performed, late, closed>>
  <2>1. CountTypes' /\ StepTypes' /\ ControlTypes'
    BY <1>1, <1>2, <1>5 DEF counts, verdict, step, history, CountTypes, StepTypes,
      ControlTypes, Labels
  <2>2. Metering'
    BY <1>5 DEF AgentInv, Metering, counts
  <2>3. Cited'
    BY <1>2, <1>5, FindingsKept DEF AgentInv, Cited, rows, history
  <2>4. QED
    BY <1>3, <1>4, <2>1, <2>2, <2>3, TypePartsPrimed DEF AgentInv
<1>6. CASE Restart
  <2>1. CountTypes'
    BY <1>6, Ingredients DEF Restart, CountTypes
  <2>2. StepTypes'
    <3>1. recent' \in Seq(Keys) /\ Len(recent') <= 2
      BY <1>6, EmptySeq DEF Restart
    <3>2. QED
      BY <3>1, <1>6, Ingredients DEF Restart, StepTypes, Outcomes
  <2>3. ControlTypes'
    BY <1>1, <1>2, <1>6 DEF Restart, ControlTypes, Labels, Reasons, Finished
  <2>4. Metering'
    BY <1>6, Constants DEF Restart, Metering, NoUses
  <2>5. Cited'
    BY <1>6 DEF Restart, Cited, FindingsAreBacked
  <2>6. QED
    BY <1>3, <1>4, <2>1, <2>2, <2>3, <2>4, <2>5, TypePartsPrimed DEF AgentInv
<1>7. QED
  BY <1>2, <1>5, <1>6

LEMMA Stutters == AgentInv /\ UNCHANGED vars => AgentInv'
<1> SUFFICES ASSUME AgentInv, UNCHANGED vars PROVE AgentInv'
  OBVIOUS
<1>1. /\ UNCHANGED <<rows, pc, counts, verdict, step, history, performed, faults>>
      /\ UNCHANGED outside
  BY DEF vars
<1>2. RowTypes /\ CountTypes /\ StepTypes /\ ControlTypes
  BY TypeParts DEF AgentInv
<1>3. RowTypes' /\ CountTypes' /\ StepTypes' /\ ControlTypes'
  BY <1>1, <1>2 DEF rows, counts, verdict, step, history, outside, RowTypes,
    CountTypes, StepTypes, ControlTypes
<1>4. Metering'
  BY <1>1 DEF AgentInv, Metering, counts, verdict, step
<1>5. Recorded' /\ RecordHasNoGap'
  BY <1>1 DEF AgentInv, Recorded, RecordHasNoGap, Present, Written, rows, counts, step
<1>6. Cited'
  BY <1>1, FindingsKept DEF AgentInv, Cited, rows, counts, step, history
<1>7. QED
  BY <1>3, <1>4, <1>5, <1>6, TypePartsPrimed DEF AgentInv

LEMMA Inductive == AgentInv /\ [Next]_vars => AgentInv'
<1> SUFFICES ASSUME AgentInv, [Next]_vars PROVE AgentInv'
  OBVIOUS
<1>1. CASE Agent
  BY <1>1, CreateRunKeeps, OpenKeeps, StopOnBudgetKeeps, ObserveKeeps,
    ObserveFailsKeeps, DecideKeeps, ProviderFailsKeeps, ActKeeps, ActFailsKeeps,
    PersistStepKeeps, PersistProviderFailureKeeps, CompleteRunKeeps DEF Agent
<1>2. CASE Elapse \/ MissionTimeout
  BY <1>2, OutsideKeeps
<1>3. CASE Crash
  BY <1>3, CrashKeeps
<1>4. CASE UNCHANGED vars
  BY <1>4, Stutters
<1>5. QED
  BY <1>1, <1>2, <1>3, <1>4 DEF Next

LEMMA AgentInvAlways == Spec => []AgentInv
BY Initially, Inductive, PTL DEF Spec

-----------------------------------------------------------------------------
\* Whatever the model proposes and whatever fails, autonomousBrowserMission
\* goes on only while it has no reason to stop, and its rows and local
\* variables hold values the code gives a meaning to.
THEOREM AgentTypeCorrect == Spec => []TypeInvariant
<1>1. AgentInv => TypeInvariant
  BY DEF AgentInv
<1>2. QED
  BY <1>1, AgentInvAlways, PTL

\* Of no metered tool does the page of one attempt go through more than its
\* budget, also where a tool fails or times out after its effect; and the loop
\* exceeds neither its steps nor its provider calls.
THEOREM AgentEffectsWithinBudgets == Spec => []EffectsWithinBudgets
<1>1. AgentInv => EffectsWithinBudgets
  BY DEF AgentInv, Metering, EffectsWithinBudgets
<1>2. QED
  BY <1>1, AgentInvAlways, PTL

\* The BrowserAgentStep rows of a run have no gap, and the steps of a later
\* attempt come before those that are left of an earlier one, however many
\* workers died and however many writes failed.
THEOREM AgentRecordHasNoGap == Spec => []RecordHasNoGap
<1>1. AgentInv => RecordHasNoGap
  BY DEF AgentInv
<1>2. QED
  BY <1>1, AgentInvAlways, PTL

\* A finding is reported only with evidence that the same attempt recorded
\* before.
THEOREM AgentFindingsAreBacked == Spec => []FindingsAreBacked
<1>1. AgentInv => FindingsAreBacked
  BY DEF AgentInv, Cited
<1>2. QED
  BY <1>1, AgentInvAlways, PTL

-----------------------------------------------------------------------------
(***************************************************************************)
(* RecordTellsTheRun.  While the loop runs, the steps of the attempt are   *)
(* those it has counted, without the one that it is about to write; when   *)
(* it is over, the counts and the verdict agree with the record, so that   *)
(* what is reported then does.                                             *)
(***************************************************************************)
Deciding == {"loop", "decide", "act"}
Working == Deciding \cup {"open", "persist!", "persist-failed!", "complete!"}
TheFinish == <<"finish", "nothing">>

Agreed ==
  /\ \E n \in {steps, steps - 1, steps + 1} :
       OwnSteps = 1..n /\ (faults = 0 => n = steps)
  /\ status = "completed" => reason = "FINISHED_BY_AGENT"
  /\ reason = "FINISHED_BY_AGENT" =>
       /\ steps \in OwnSteps
       /\ stepRow[steps].key = TheFinish
       /\ stepRow[steps].outcome = "executed"

Telling ==
  /\ pc \in Working => runRow.status = "running"
  /\ pc = "open" => OwnSteps = {}
  /\ pc \in Deciding \cup {"persist-failed!"} => OwnSteps = 1..steps
  /\ pc = "persist!" => OwnSteps = 1..(steps - 1)
  /\ pc = "complete!" => Agreed
  /\ status = "completed" => reason \in {"none", "FINISHED_BY_AGENT"}
  /\ pc \in {"create-run", "open", "loop", "decide"} => reason = "none"
  /\ pc = "act" => reason # "FINISHED_BY_AGENT"
  /\ pc = "persist-failed!" => reason = "PROVIDER_FAILURE"
  /\ pc = "persist!" /\ reason = "FINISHED_BY_AGENT" =>
       Key(action) = TheFinish /\ outcome = "executed"
  /\ pc = "act" /\ action.tool = "finish" => action.at = "nothing"

TellInv == Telling /\ RecordTellsTheRun

LEMMA SameOwnSteps ==
  ASSUME UNCHANGED <<stepRow, attempt>>
  PROVE  OwnSteps' = OwnSteps
BY DEF OwnSteps

\* Rows that are not written tell what they told.
LEMMA RowsTell ==
  ASSUME RecordTellsTheRun, UNCHANGED rows, faults' = 0 => faults = 0
  PROVE  RecordTellsTheRun'
<1>1. OwnSteps' = OwnSteps /\ runRow' = runRow /\ stepRow' = stepRow
  BY SameOwnSteps DEF rows
<1> QED
  BY <1>1 DEF RecordTellsTheRun, ReportedStepsAreThere, VerdictIsRecorded

LEMMA OpenRowTells ==
  ASSUME runRow'.status = "running"
  PROVE  RecordTellsTheRun'
BY DEF RecordTellsTheRun, ReportedStepsAreThere, VerdictIsRecorded, Finished

\* A step that is written is the attempt's next one.
LEMMA OwnAfterWrite ==
  ASSUME TypeInvariant, NEW s \in 1..MaxSteps, OwnSteps = 1..(s - 1),
         WriteStep(s), attempt' = attempt
  PROVE  /\ OwnSteps' = 1..s
         /\ stepRow'[s] = [by |-> attempt, key |-> Key(action), outcome |-> outcome]
         /\ \A t \in 1..MaxSteps : t # s => stepRow'[t] = stepRow[t]
<1>1. stepRow \in [1..MaxSteps -> StepRows] /\ MaxSteps \in Nat
  BY Constants DEF TypeInvariant
<1> DEFINE row == [by |-> attempt, key |-> Key(action), outcome |-> outcome]
<1>2. stepRow' = [stepRow EXCEPT ![s] = row]
  BY DEF WriteStep
<1>3. row.by = attempt
  OBVIOUS
<1> HIDE DEF row
<1>4. /\ stepRow'[s] = row
      /\ \A t \in 1..MaxSteps : t # s => stepRow'[t] = stepRow[t]
  BY <1>1, <1>2
<1>5. \A t \in 1..MaxSteps :
        stepRow'[t].by = attempt' <=> t = s \/ stepRow[t].by = attempt
  BY <1>3, <1>4
<1>6. \A t \in 1..MaxSteps : t \in OwnSteps' <=> t = s \/ t \in OwnSteps
  BY <1>5 DEF OwnSteps
<1>7. \A t \in 1..MaxSteps : t \in 1..s <=> t = s \/ t \in 1..(s - 1)
  BY <1>1
<1>8. OwnSteps' \subseteq 1..MaxSteps /\ 1..s \subseteq 1..MaxSteps
  BY <1>1 DEF OwnSteps
<1>9. OwnSteps' = 1..s
  BY <1>6, <1>7, <1>8
<1> QED
  BY <1>4, <1>9 DEF row

LEMMA TellInitially == Init => TellInv
<1> SUFFICES ASSUME Init PROVE TellInv
  OBVIOUS
<1> QED
  BY DEF Init, TellInv, Telling, Working, Deciding, RecordTellsTheRun,
    ReportedStepsAreThere, VerdictIsRecorded, Finished

\* A loop that ends between two steps has counted those that are recorded.
LEMMA EndsBetweenSteps ==
  ASSUME AgentInv, TellInv, UNCHANGED <<rows, counts>>, pc' = "complete!",
         pc \in Deciding, NEW r, r # "FINISHED_BY_AGENT", StopBy(r),
         faults' = faults
  PROVE  TellInv'
<1>1. RecordTellsTheRun'
  BY RowsTell DEF TellInv
<1>2. OwnSteps' = 1..steps' /\ steps' \in Nat
  BY SameOwnSteps DEF TellInv, Telling, rows, counts, AgentInv, TypeInvariant
<1>3. reason' = r /\ status' = "completed_with_limitations"
  BY DEF StopBy
<1>4. Agreed'
  BY <1>2, <1>3 DEF Agreed
<1> QED
  BY <1>1, <1>3, <1>4 DEF TellInv, Telling, rows, Working, Deciding

LEMMA CreateRunTells == AgentInv /\ TellInv /\ CreateRun => TellInv'
<1> SUFFICES ASSUME AgentInv, TellInv, CreateRun PROVE TellInv'
  OBVIOUS
<1>1. pc = "create-run" /\ UNCHANGED <<stepRow, reason, status>>
  BY DEF CreateRun, verdict
<1>2. \A r \in [status : Finished \cup {"absent", "running"},
                reason : Reasons, steps : Nat, calls : Nat] :
        [r EXCEPT !.status = "running"].status = "running"
  OBVIOUS
<1>3. [runRow EXCEPT !.status = "running"].status = "running"
  BY <1>2 DEF AgentInv, TypeInvariant
<1>4. CASE runRow' = [runRow EXCEPT !.status = "running"]
           /\ attempt' = attempt + 1 /\ pc' = "open"
  <2>1. \A s \in 1..MaxSteps : stepRow'[s].by # attempt'
    BY <1>1, <1>4 DEF AgentInv, Recorded, TypeInvariant, StepRows
  <2>2. OwnSteps' = {}
    BY <2>1 DEF OwnSteps
  <2>3. RecordTellsTheRun'
    BY <1>3, <1>4, OpenRowTells
  <2> QED
    BY <1>1, <1>3, <1>4, <2>2, <2>3 DEF TellInv, Telling, Deciding
<1>5. CASE /\ DatabaseFails /\ pc' = "threw" /\ attempt' = attempt
           /\ runRow' \in {runRow, [runRow EXCEPT !.status = "running"]}
  <2>1. faults' # 0
    BY <1>5 DEF DatabaseFails, AgentInv, TypeInvariant
  <2>2. RecordTellsTheRun'
    BY <1>1, <1>3, <1>5, <2>1, OpenRowTells, RowsTell DEF TellInv, rows
  <2> QED
    BY <1>1, <1>5, <2>2 DEF TellInv, Telling, Working, Deciding
<1> QED
  BY <1>4, <1>5 DEF CreateRun

LEMMA OpenTells == AgentInv /\ TellInv /\ Open => TellInv'
<1> SUFFICES ASSUME AgentInv, TellInv, Open PROVE TellInv'
  OBVIOUS
<1>1. /\ pc = "open" /\ pc' \in {"loop", "threw"}
      /\ UNCHANGED <<rows, counts, verdict, step, faults>>
  BY DEF Open
<1>2. RecordTellsTheRun'
  BY <1>1, RowsTell DEF TellInv
<1>3. steps = 0 /\ steps' = 0
  BY <1>1 DEF AgentInv, Metering, counts
<1>4. OwnSteps' = 1..steps'
  BY <1>1, <1>3, SameOwnSteps DEF TellInv, Telling, rows
<1> QED
  BY <1>1, <1>2, <1>4 DEF TellInv, Telling, Working, Deciding, rows, verdict

LEMMA ObserveTells ==
  AgentInv /\ TellInv /\ (StopOnBudget \/ Observe \/ ObserveFails) => TellInv'
<1> SUFFICES ASSUME AgentInv, TellInv, StopOnBudget \/ Observe \/ ObserveFails
             PROVE  TellInv'
  OBVIOUS
<1>1. CASE StopOnBudget
  BY <1>1, EndsBetweenSteps DEF StopOnBudget, Deciding
<1>2. CASE ObserveFails
  BY <1>2, EndsBetweenSteps DEF ObserveFails, Deciding, BrowserErrors
<1>3. CASE Observe
  <2>1. /\ pc = "loop" /\ pc' = "decide"
        /\ UNCHANGED <<rows, steps, verdict, faults>>
    BY <1>3 DEF Observe
  <2>2. RecordTellsTheRun'
    BY <2>1, RowsTell DEF TellInv
  <2>3. OwnSteps' = 1..steps'
    BY <2>1, SameOwnSteps DEF TellInv, Telling, rows, Deciding
  <2> QED
    BY <2>1, <2>2, <2>3 DEF TellInv, Telling, Working, Deciding, rows, verdict
<1> QED
  BY <1>1, <1>2, <1>3

LEMMA DecideTells == AgentInv /\ TellInv /\ Decide => TellInv'
<1> SUFFICES ASSUME AgentInv, TellInv, Decide PROVE TellInv'
  OBVIOUS
<1>1. pc = "decide" /\ UNCHANGED <<rows, faults>> /\ steps \in Nat
  BY DEF Decide, AgentInv, TypeInvariant
<1>2. RecordTellsTheRun'
  BY <1>1, RowsTell DEF TellInv
<1>3. OwnSteps' = 1..steps
  BY <1>1, SameOwnSteps DEF TellInv, Telling, rows, Deciding
<1>4. reason = "none"
  BY <1>1 DEF TellInv, Telling
<1>5. \/ reason' = "COST_BUDGET_EXHAUSTED" /\ status' # "completed"
      \/ reason' = "none"
  BY <1>4 DEF Decide, StopBy, verdict
<1>6. \/ pc' = "persist!" /\ steps' = steps + 1
      \/ /\ pc' = "act" /\ steps' = steps
         /\ action'.tool = "finish" => action'.at = "nothing"
  BY Constants DEF Decide, Record
<1>7. steps' - 1 = steps \/ pc' # "persist!"
  BY <1>1, <1>6
<1> QED
  BY <1>1, <1>2, <1>3, <1>5, <1>6, <1>7 DEF TellInv, Telling, Working, Deciding, rows

LEMMA ProviderFailsTells == AgentInv /\ TellInv /\ ProviderFails => TellInv'
<1> SUFFICES ASSUME AgentInv, TellInv, ProviderFails PROVE TellInv'
  OBVIOUS
<1>1. /\ pc = "decide" /\ UNCHANGED <<rows, faults, counts>>
      /\ pc' = "persist-failed!" /\ reason' = "PROVIDER_FAILURE"
      /\ status' # "completed"
  BY DEF ProviderFails, StopBy
<1>2. RecordTellsTheRun'
  BY <1>1, RowsTell DEF TellInv
<1>3. OwnSteps' = 1..steps'
  BY <1>1, SameOwnSteps DEF TellInv, Telling, rows, counts, Deciding
<1> QED
  BY <1>1, <1>2, <1>3 DEF TellInv, Telling, Working, Deciding, rows

LEMMA ActTells == AgentInv /\ TellInv /\ Act => TellInv'
<1> SUFFICES ASSUME AgentInv, TellInv, Act PROVE TellInv'
  OBVIOUS
<1>1. pc = "act" /\ UNCHANGED <<rows, faults, status>> /\ steps \in Nat
  BY DEF Act, AgentInv, TypeInvariant
<1>2. RecordTellsTheRun'
  BY <1>1, RowsTell DEF TellInv
<1>3. OwnSteps' = 1..steps
  BY <1>1, SameOwnSteps DEF TellInv, Telling, rows, Deciding
<1>4. /\ action' = Normalized(action) /\ outcome' = "executed"
      /\ steps' = steps + 1 /\ pc' = "persist!"
      /\ reason' = IF action.tool = "finish" THEN "FINISHED_BY_AGENT" ELSE reason
  BY DEF Act, Record
<1>5. steps' - 1 = steps
  BY <1>1, <1>4
<1>6. reason' = "FINISHED_BY_AGENT" => action.tool = "finish" /\ action' = action
  BY <1>1, <1>4 DEF TellInv, Telling, Normalized
<1>7. reason' = "FINISHED_BY_AGENT" => Key(action') = TheFinish
  BY <1>1, <1>6 DEF TellInv, Telling, Key, TheFinish
<1>8. status' = "completed" => reason' \in {"none", "FINISHED_BY_AGENT"}
  BY <1>1, <1>4 DEF TellInv, Telling
<1>9. Key(action)' = Key(action')
  BY DEF Key
<1> QED
  BY <1>1, <1>2, <1>3, <1>4, <1>5, <1>7, <1>8, <1>9 DEF TellInv, Telling,
    Working, Deciding, rows

LEMMA ActFailsTells == AgentInv /\ TellInv /\ ActFails => TellInv'
<1> SUFFICES ASSUME AgentInv, TellInv, ActFails PROVE TellInv'
  OBVIOUS
<1>1. PICK r \in BrowserErrors : StopBy(r)
  BY DEF ActFails
<1>2. /\ pc = "act" /\ pc' = "complete!"
      /\ UNCHANGED <<rows, counts, faults>>
  BY DEF ActFails
<1>3. r # "FINISHED_BY_AGENT"
  BY DEF BrowserErrors
<1> QED
  BY <1>1, <1>2, <1>3, EndsBetweenSteps DEF Deciding

\* A step that was lost, or not, ends the loop.
LEMMA StepLostTells ==
  ASSUME AgentInv, TellInv, NEW s \in 1..MaxSteps, OwnSteps = 1..(s - 1),
         StepLost(s), s \in {steps, steps + 1},
         UNCHANGED <<runRow, attempt, steps>>,
         pc \in {"persist!", "persist-failed!"}
  PROVE  TellInv'
<1>1. steps \in Nat /\ MaxSteps \in Nat /\ runRow.status = "running"
  BY Constants DEF AgentInv, TypeInvariant, TellInv, Telling, Working
<1>2. /\ faults' # 0 /\ pc' = "complete!" /\ reason' = "BROWSER_FAILURE"
      /\ status' # "completed"
      /\ WriteStep(s) \/ UNCHANGED stepRow
  BY DEF StepLost, StopBy, DatabaseFails, AgentInv, TypeInvariant
<1>3. OwnSteps' = 1..s \/ OwnSteps' = 1..(s - 1)
  BY <1>2, OwnAfterWrite, SameOwnSteps DEF AgentInv
<1>4. \E n \in {steps, steps - 1, steps + 1} : OwnSteps' = 1..n
  BY <1>1, <1>3
<1>5. Agreed'
  BY <1>2, <1>4 DEF Agreed
<1>6. RecordTellsTheRun'
  BY <1>1, OpenRowTells
<1> QED
  BY <1>1, <1>2, <1>5, <1>6 DEF TellInv, Telling, Deciding

LEMMA PersistStepTells == AgentInv /\ TellInv /\ PersistStep => TellInv'
<1> SUFFICES ASSUME AgentInv, TellInv, PersistStep PROVE TellInv'
  OBVIOUS
<1>1. /\ pc = "persist!" /\ UNCHANGED <<runRow, attempt, counts, step>>
      /\ steps' = steps /\ steps \in 1..MaxSteps /\ runRow.status = "running"
      /\ OwnSteps = 1..(steps - 1)
  BY Constants DEF PersistStep, counts, AgentInv, TypeInvariant, Recorded,
    Metering, TellInv, Telling, Working
<1>2. CASE StepLost(steps)
  BY <1>1, <1>2, StepLostTells
<1>3. CASE WriteStep(steps) /\ Judge /\ pc' = Onward /\ UNCHANGED faults
  <2>1. /\ OwnSteps' = 1..steps
        /\ stepRow'[steps]
             = [by |-> attempt, key |-> Key(action), outcome |-> outcome]
    BY <1>1, <1>3, OwnAfterWrite DEF AgentInv
  <2>2. \/ UNCHANGED <<reason, status>>
        \/ /\ reason' \in {"NO_PROGRESS", "TOO_MANY_REJECTIONS"}
           /\ status' # "completed"
    BY <1>3 DEF Judge, StopBy, verdict
  <2>3. /\ pc' \in {"loop", "complete!"}
        /\ pc' = "loop" <=> reason' = "none"
    BY <1>3 DEF Onward
  <2>4. reason' = "FINISHED_BY_AGENT" =>
          /\ stepRow'[steps].key = TheFinish
          /\ stepRow'[steps].outcome = "executed"
    BY <1>1, <2>1, <2>2 DEF TellInv, Telling
  <2>5. status' = "completed" => reason' \in {"none", "FINISHED_BY_AGENT"}
    BY <2>2 DEF TellInv, Telling
  <2>6. pc' = "complete!" => Agreed'
    BY <1>1, <2>1, <2>3, <2>4, <2>5 DEF Agreed
  <2>7. RecordTellsTheRun'
    BY <1>1, OpenRowTells
  <2> QED
    BY <1>1, <2>1, <2>3, <2>5, <2>6, <2>7 DEF TellInv, Telling, Deciding
<1> QED
  BY <1>2, <1>3 DEF PersistStep

LEMMA PersistProviderFailureTells ==
  AgentInv /\ TellInv /\ PersistProviderFailure => TellInv'
<1> SUFFICES ASSUME AgentInv, TellInv, PersistProviderFailure PROVE TellInv'
  OBVIOUS
<1>1. /\ pc = "persist-failed!" /\ UNCHANGED <<runRow, attempt>>
      /\ steps \in Nat /\ steps + 1 \in 1..MaxSteps
      /\ runRow.status = "running" /\ OwnSteps = 1..steps
      /\ reason = "PROVIDER_FAILURE"
  BY Constants DEF PersistProviderFailure, AgentInv, TypeInvariant, Metering,
    TellInv, Telling, Working
<1>2. (steps + 1) - 1 = steps
  BY <1>1
<1>3. CASE StepLost(steps + 1) /\ UNCHANGED steps
  BY <1>1, <1>2, <1>3, StepLostTells
<1>4. CASE /\ WriteStep(steps + 1) /\ steps' = steps + 1
           /\ pc' = "complete!"
           /\ UNCHANGED <<verdict, faults>>
  <2>1. OwnSteps' = 1..steps'
    BY <1>1, <1>2, <1>4, OwnAfterWrite DEF AgentInv
  <2>2. UNCHANGED <<reason, status>>
    BY <1>4 DEF verdict
  <2>3. Agreed'
    BY <1>1, <1>4, <2>1, <2>2 DEF Agreed, TellInv, Telling
  <2>4. RecordTellsTheRun'
    BY <1>1, OpenRowTells
  <2> QED
    BY <1>1, <1>4, <2>2, <2>3, <2>4 DEF TellInv, Telling, Deciding
<1> QED
  BY <1>3, <1>4 DEF PersistProviderFailure

\* What is reported agrees with the record.
LEMMA CompleteRunTells == AgentInv /\ TellInv /\ CompleteRun => TellInv'
<1> SUFFICES ASSUME AgentInv, TellInv, CompleteRun PROVE TellInv'
  OBVIOUS
<1>1. /\ pc = "complete!" /\ pc' \in {"returned", "threw"}
      /\ UNCHANGED <<stepRow, attempt, steps, reason, status>>
      /\ Agreed /\ faults \in Nat
      /\ runRow.status = "running"
  BY DEF CompleteRun, verdict, counts, TellInv, Telling, Working, AgentInv,
    TypeInvariant
<1>2. faults' = 0 => faults = 0
  BY <1>1 DEF CompleteRun, DatabaseFails
<1>3. runRow' \in {runRow, Reported}
  BY DEF CompleteRun
<1>4. OwnSteps' = OwnSteps
  BY <1>1, SameOwnSteps
<1>5. RecordTellsTheRun'
  <2>1. CASE runRow' = runRow
    BY <1>1, <2>1, OpenRowTells
  <2>2. CASE runRow' = Reported
    <3>1. /\ runRow'.status = status /\ runRow'.reason = reason
          /\ runRow'.steps = steps
      BY <2>2 DEF Reported
    <3>2. ReportedStepsAreThere'
      BY <1>1, <1>2, <1>4, <3>1 DEF ReportedStepsAreThere, Agreed
    <3>3. VerdictIsRecorded'
      BY <1>1, <1>4, <3>1 DEF VerdictIsRecorded, Agreed, TheFinish
    <3> QED
      BY <3>2, <3>3 DEF RecordTellsTheRun
  <2> QED
    BY <1>3, <2>1, <2>2
<1> QED
  BY <1>1, <1>5 DEF TellInv, Telling, Working, Deciding

LEMMA OutsideTells ==
  AgentInv /\ TellInv /\ (Elapse \/ MissionTimeout \/ Crash \/ UNCHANGED vars)
    => TellInv'
<1> SUFFICES ASSUME AgentInv, TellInv,
                    Elapse \/ MissionTimeout \/ Crash \/ UNCHANGED vars
             PROVE  TellInv'
  OBVIOUS
<1>1. UNCHANGED <<rows, faults>>
  BY DEF Elapse, MissionTimeout, Crash, vars
<1>2. RecordTellsTheRun'
  BY <1>1, RowsTell DEF TellInv
<1>3. OwnSteps' = OwnSteps
  BY <1>1, SameOwnSteps DEF rows
<1>4. CASE Crash
  BY <1>1, <1>2, <1>4 DEF Crash, Restart, TellInv, Telling, Working, Deciding,
    verdict
<1>5. CASE ~Crash
  <2>1. UNCHANGED <<rows, pc, steps, reason, status, action, outcome, faults>>
    BY <1>5 DEF Elapse, MissionTimeout, vars, counts, verdict, step
  <2>2. Agreed' = Agreed
    BY <1>3, <2>1 DEF Agreed, rows
  <2>3. Telling'
    BY <1>3, <2>1, <2>2 DEF TellInv, Telling, rows, Key
  <2> QED
    BY <1>2, <2>3 DEF TellInv
<1> QED
  BY <1>4, <1>5

LEMMA TellInductive == AgentInv /\ TellInv /\ [Next]_vars => TellInv'
BY CreateRunTells, OpenTells, ObserveTells, DecideTells, ProviderFailsTells,
  ActTells, ActFailsTells, PersistStepTells, PersistProviderFailureTells,
  CompleteRunTells, OutsideTells DEF Next, Agent

LEMMA TellAlways == Spec => []TellInv
BY TellInitially, TellInductive, AgentInvAlways, PTL DEF Spec

\* The row of a run that is over has the number of its last attempt's steps,
\* but for a write that failed, and says that the agent finished only where
\* the last of these steps is the agent's finish.
THEOREM AgentRecordTellsTheRun == Spec => []RecordTellsTheRun
BY TellAlways, PTL DEF TellInv

-----------------------------------------------------------------------------
(***************************************************************************)
(* LoopDoesNotInsist.  The count of rejections is no less than the number  *)
(* of rejected steps at the end of the record, and the two keys that are   *)
(* remembered are those of the last two steps.                             *)
(***************************************************************************)
Rejected(s) == stepRow[s].outcome = "rejected"

\* No more than r steps at the end of the first n are rejected in a row.
Trail(n, r) ==
  \A s \in 1..n : (\A t \in s..n : Rejected(t)) => n - s + 1 <= r

Refusing ==
  /\ pc \in {"create-run", "open"} => rejections = 0
  /\ pc \in Deciding => rejections < MaxRejections /\ Trail(steps, rejections)
  /\ pc = "persist!" =>
       /\ outcome \in {"executed", "rejected"}
       /\ outcome = "executed" => rejections = 0
       /\ outcome = "rejected" =>
            /\ rejections \in 1..MaxRejections
            /\ Trail(steps - 1, rejections - 1)
  /\ pc = "persist-failed!" => outcome = "failed"

Last == IF pc = "persist!" THEN Key(action) ELSE stepRow[steps].key

\* The action is the third of its kind in a row.
Third ==
  /\ steps > 2
  /\ stepRow[steps - 1].key = Key(action)
  /\ stepRow[steps - 2].key = Key(action)

Remembering ==
  /\ pc \in {"create-run", "open"} => recent = << >>
  /\ pc \in Deciding \cup {"persist!"} =>
       /\ steps = 0 => recent = << >>
       /\ steps = 1 => recent = <<Last>>
       /\ steps > 1 => recent = <<stepRow[steps - 1].key, Last>>
  /\ pc = "act" => ~Repeated(action)
  /\ pc = "persist!" /\ outcome = "executed" /\ action.tool # "navigate" =>
       ~Third

LoopInv == Refusing /\ Remembering /\ LoopDoesNotInsist

LEMMA RowsDoNotInsist ==
  ASSUME LoopDoesNotInsist, UNCHANGED <<stepRow, attempt>>
  PROVE  LoopDoesNotInsist'
<1>1. OwnSteps' = OwnSteps
  BY SameOwnSteps
<1>2. RejectionsEnd'
  BY <1>1 DEF LoopDoesNotInsist, RejectionsEnd, Window
<1>3. NoThirdTime'
  BY <1>1 DEF LoopDoesNotInsist, NoThirdTime
<1> QED
  BY <1>2, <1>3 DEF LoopDoesNotInsist

LEMMA RejectionsBounded == MaxRejections \in Nat /\ MaxRejections > 0
BY AgentAssumption

\* A step that is written is the first rejection too many only if the trail
\* was full, and a third time only if it was remembered twice.
LEMMA LoopAfterWrite ==
  ASSUME TypeInvariant, LoopDoesNotInsist, NEW s \in 1..MaxSteps,
         OwnSteps = 1..(s - 1), WriteStep(s), attempt' = attempt,
         outcome = "rejected" =>
           /\ rejections \in 1..MaxRejections
           /\ Trail(s - 1, rejections - 1),
         outcome = "executed" /\ action.tool # "navigate" /\ s > 2 =>
           ~(/\ stepRow[s - 1].key = Key(action)
             /\ stepRow[s - 2].key = Key(action))
  PROVE  LoopDoesNotInsist'
<1>1. /\ OwnSteps' = 1..s
      /\ stepRow'[s] = [by |-> attempt, key |-> Key(action), outcome |-> outcome]
      /\ \A t \in 1..MaxSteps : t # s => stepRow'[t] = stepRow[t]
  BY OwnAfterWrite
<1>2. MaxSteps \in Nat /\ MaxRejections \in Nat /\ MaxRejections > 0
  BY Constants, RejectionsBounded
<1>3. ASSUME NEW u \in 1..MaxSteps,
             Window(u, MaxRejections + 1)' = u..(u + MaxRejections)
      PROVE  \E t \in Window(u, MaxRejections + 1)' :
               stepRow'[t].outcome # "rejected"
  <2>0. SUFFICES \E t \in u..(u + MaxRejections) :
                   stepRow'[t].outcome # "rejected"
    BY <1>3
  <2>1. u..(u + MaxRejections) \subseteq 1..s
    BY <1>1, <1>3 DEF Window
  <2>2. u + MaxRejections \in 1..s
    BY <1>2, <2>1
  <2>3. CASE u + MaxRejections = s
    <3>1. CASE outcome # "rejected"
      <4>1. stepRow'[s].outcome # "rejected"
        BY <1>1, <3>1
      <4>2. s \in u..(u + MaxRejections)
        BY <1>2, <2>3
      <4> QED
        BY <4>1, <4>2
    <3>2. CASE outcome = "rejected"
      <4>1. u \in 1..(s - 1) /\ s - 1 - u + 1 = MaxRejections
        BY <1>2, <2>3
      <4>2. rejections - 1 < MaxRejections /\ rejections - 1 \in Int
        BY <1>2, <3>2
      <4>3. ~(s - 1 - u + 1 <= rejections - 1)
        BY <4>1, <4>2, <1>2
      <4>4. PICK t \in u..(s - 1) : ~Rejected(t)
        BY <3>2, <4>1, <4>3 DEF Trail
      <4>5. t \in 1..MaxSteps /\ t # s /\ t \in u..(u + MaxRejections)
        BY <1>2, <2>3
      <4>6. stepRow'[t] = stepRow[t]
        BY <1>1, <4>5
      <4> QED
        BY <4>4, <4>5, <4>6 DEF Rejected
    <3> QED
      BY <3>1, <3>2
  <2>4. CASE u + MaxRejections < s
    <3>1. \A t \in u..(u + MaxRejections) :
            /\ t \in 1..(s - 1) /\ t \in 1..MaxSteps /\ t # s
            /\ u <= t /\ t < u + (MaxRejections + 1)
      BY <1>2, <2>4
    <3>2. \A t \in 1..(s - 1) :
            u <= t /\ t < u + (MaxRejections + 1) => t \in u..(u + MaxRejections)
      BY <1>2
    <3>3. Window(u, MaxRejections + 1) = u..(u + MaxRejections)
      BY <3>1, <3>2 DEF Window
    <3>4. PICK t \in u..(u + MaxRejections) : stepRow[t].outcome # "rejected"
      BY <3>3 DEF LoopDoesNotInsist, RejectionsEnd
    <3>5. stepRow'[t] = stepRow[t]
      BY <1>1, <3>1
    <3> QED
      BY <3>4, <3>5
  <2> QED
    BY <1>2, <2>2, <2>3, <2>4
<1>4. RejectionsEnd'
  BY <1>3 DEF RejectionsEnd
<1>5. ASSUME NEW u \in 1..(MaxSteps - 2),
             u..(u + 2) \subseteq OwnSteps',
             \A t \in u..(u + 2) : /\ stepRow'[t].outcome = "executed"
                                   /\ stepRow'[t].key = stepRow'[u].key
      PROVE  stepRow'[u].key[1] = "navigate"
  <2>1. u \in 1..MaxSteps /\ u + 1 \in 1..MaxSteps /\ u + 2 \in 1..MaxSteps
    BY <1>2
  <2>2. u \in u..(u + 2) /\ u + 1 \in u..(u + 2) /\ u + 2 \in u..(u + 2)
    OBVIOUS
  <2>3. u + 2 \in 1..s
    BY <1>1, <1>5, <2>2
  <2>4. CASE u + 2 = s
    <3>1. /\ stepRow'[s].outcome = "executed"
          /\ stepRow'[u].key = stepRow'[s].key
          /\ stepRow'[u + 1].key = stepRow'[s].key
      BY <1>5, <2>2, <2>4
    <3>2. u = s - 2 /\ u + 1 = s - 1 /\ u # s /\ u + 1 # s /\ s > 2
      BY <2>4
    <3>3. stepRow'[u] = stepRow[s - 2] /\ stepRow'[u + 1] = stepRow[s - 1]
      BY <1>1, <2>1, <3>2
    <3>4. /\ stepRow[s - 1].key = Key(action) /\ stepRow[s - 2].key = Key(action)
          /\ outcome = "executed"
      BY <1>1, <3>1, <3>3
    <3>5. action.tool = "navigate"
      BY <3>2, <3>4
    <3> QED
      BY <3>3, <3>4, <3>5 DEF Key
  <2>5. CASE u + 2 < s
    <3>1. \A t \in u..(u + 2) :
            t \in 1..(s - 1) /\ t \in 1..MaxSteps /\ t # s
      BY <1>2, <2>5
    <3>2. \A t \in u..(u + 2) : stepRow'[t] = stepRow[t]
      BY <1>1, <3>1
    <3>3. u..(u + 2) \subseteq OwnSteps
      BY <3>1
    <3>4. \A t \in u..(u + 2) : /\ stepRow[t].outcome = "executed"
                                /\ stepRow[t].key = stepRow[u].key
      BY <1>5, <2>2, <3>2
    <3>5. stepRow[u].key[1] = "navigate"
      BY <3>3, <3>4 DEF LoopDoesNotInsist, NoThirdTime
    <3> QED
      BY <2>2, <3>2, <3>5
  <2> QED
    BY <2>3, <2>4, <2>5
<1>6. NoThirdTime'
  BY <1>5 DEF NoThirdTime
<1> QED
  BY <1>4, <1>6 DEF LoopDoesNotInsist

LEMMA LoopInitially == Init => LoopInv
<1> SUFFICES ASSUME Init PROVE LoopInv
  OBVIOUS
<1>1. MaxSteps \in Nat /\ MaxRejections \in Nat
  BY Constants, RejectionsBounded
<1>2. \A s \in 1..MaxSteps : stepRow[s].outcome = "absent"
  BY DEF Init, NoStep
<1>3. RejectionsEnd
  <2> SUFFICES ASSUME NEW s \in 1..MaxSteps,
                      Window(s, MaxRejections + 1) = s..(s + MaxRejections)
               PROVE  \E t \in Window(s, MaxRejections + 1) :
                        stepRow[t].outcome # "rejected"
    BY DEF RejectionsEnd
  <2>1. s \in s..(s + MaxRejections)
    BY <1>1
  <2> QED
    BY <1>2, <2>1
<1>4. NoThirdTime
  <2>1. \A s \in 1..(MaxSteps - 2) : s \in 1..MaxSteps /\ s \in s..(s + 2)
    BY <1>1
  <2> QED
    BY <1>2, <2>1 DEF NoThirdTime
<1> QED
  BY <1>3, <1>4 DEF Init, LoopInv, Refusing, Remembering, Deciding,
    LoopDoesNotInsist

\* What ends the loop, or follows its end, writes no step.
LEMMA EndKeepsLoop ==
  ASSUME LoopInv, UNCHANGED <<stepRow, attempt>>,
         pc' \in {"complete!", "returned", "threw", "dead"}
  PROVE  LoopInv'
<1>1. LoopDoesNotInsist'
  BY RowsDoNotInsist DEF LoopInv
<1> QED
  BY <1>1 DEF LoopInv, Refusing, Remembering, Deciding

LEMMA CreateRunKeepsLoop == AgentInv /\ LoopInv /\ CreateRun => LoopInv'
<1> SUFFICES ASSUME AgentInv, LoopInv, CreateRun PROVE LoopInv'
  OBVIOUS
<1>1. pc = "create-run" /\ UNCHANGED <<stepRow, rejections, recent>>
  BY DEF CreateRun, counts, history
<1>2. CASE pc' = "threw" /\ attempt' = attempt
  BY <1>1, <1>2, EndKeepsLoop
<1>3. CASE pc' = "open" /\ attempt' = attempt + 1
  <2>1. \A s \in 1..MaxSteps : stepRow'[s].by # attempt'
    BY <1>1, <1>3 DEF AgentInv, Recorded, TypeInvariant, StepRows
  <2>2. OwnSteps' = {}
    BY <2>1 DEF OwnSteps
  <2>3. \A s \in 1..MaxSteps : s \in s..(s + MaxRejections)
    BY RejectionsBounded
  <2>4. RejectionsEnd'
    BY <2>2, <2>3 DEF RejectionsEnd, Window
  <2>5. \A s \in 1..(MaxSteps - 2) : s \in s..(s + 2)
    BY Constants
  <2>6. NoThirdTime'
    BY <2>2, <2>5 DEF NoThirdTime
  <2> QED
    BY <1>1, <1>3, <2>4, <2>6 DEF LoopInv, Refusing, Remembering, Deciding,
      LoopDoesNotInsist
<1> QED
  BY <1>2, <1>3 DEF CreateRun

LEMMA OpenKeepsLoop == AgentInv /\ LoopInv /\ Open => LoopInv'
<1> SUFFICES ASSUME AgentInv, LoopInv, Open PROVE LoopInv'
  OBVIOUS
<1>1. /\ pc = "open" /\ pc' \in {"loop", "threw"}
      /\ UNCHANGED <<stepRow, attempt, steps, rejections, recent>>
  BY DEF Open, rows, counts, history
<1>2. steps' = 0 /\ rejections' = 0 /\ recent' = << >>
  BY <1>1 DEF AgentInv, Metering, LoopInv, Refusing, Remembering
<1>3. LoopDoesNotInsist'
  BY <1>1, RowsDoNotInsist DEF LoopInv
<1>4. Trail(steps, rejections)'
  BY <1>2 DEF Trail
<1>5. Refusing'
  BY <1>1, <1>2, <1>4, RejectionsBounded DEF Refusing
<1>6. Remembering'
  BY <1>1, <1>2 DEF Remembering
<1> QED
  BY <1>3, <1>5, <1>6 DEF LoopInv

LEMMA ObserveKeepsLoop ==
  AgentInv /\ LoopInv /\ (StopOnBudget \/ Observe \/ ObserveFails) => LoopInv'
<1> SUFFICES ASSUME AgentInv, LoopInv, StopOnBudget \/ Observe \/ ObserveFails
             PROVE  LoopInv'
  OBVIOUS
<1>1. CASE StopOnBudget \/ ObserveFails
  BY <1>1, EndKeepsLoop DEF StopOnBudget, ObserveFails, rows
<1>2. CASE Observe
  <2>1. /\ pc = "loop" /\ pc' = "decide"
        /\ UNCHANGED <<stepRow, attempt, steps, rejections, recent>>
    BY <1>2 DEF Observe, rows, history
  <2>2. LoopDoesNotInsist'
    BY <2>1, RowsDoNotInsist DEF LoopInv
  <2>3. Trail(steps, rejections)'
    BY <2>1 DEF LoopInv, Refusing, Deciding, Trail, Rejected
  <2>4. Refusing'
    BY <2>1, <2>3 DEF LoopInv, Refusing, Deciding
  <2>5. Remembering'
    BY <2>1 DEF LoopInv, Remembering, Deciding, Last
  <2> QED
    BY <2>2, <2>4, <2>5 DEF LoopInv
<1> QED
  BY <1>1, <1>2

\* Sequences of two.
LEMMA AppendToOne ==
  ASSUME NEW x, NEW y
  PROVE  Append(<<x>>, y) = <<x, y>>
<1> DEFINE S == {x, y}
<1>1. <<x>> \in Seq(S) /\ Len(<<x>>) = 1 /\ y \in S /\ <<x>>[1] = x
  OBVIOUS
<1>2. <<x, y>> \in Seq(S) /\ Len(<<x, y>>) = 2 /\ <<x, y>>[1] = x /\ <<x, y>>[2] = y
  OBVIOUS
<1>3. /\ Append(<<x>>, y) \in Seq(S)
      /\ Len(Append(<<x>>, y)) = Len(<<x>>) + 1
      /\ \A i \in 1..Len(<<x>>) : Append(<<x>>, y)[i] = <<x>>[i]
      /\ Append(<<x>>, y)[Len(<<x>>) + 1] = y
  <2> HIDE DEF S
  <2> QED
    BY <1>1, AppendProperties
<1> DEFINE s == Append(<<x>>, y)
           t == <<x, y>>
<1>4. s \in Seq(S) /\ Len(s) = 2 /\ s[1] = x /\ s[2] = y
  BY <1>1, <1>3
<1>5. t \in Seq(S) /\ Len(t) = 2 /\ t[1] = x /\ t[2] = y
  BY <1>2
<1>6. s = t
  <2> HIDE DEF s, t, S
  <2>1. \A i \in 1..Len(s) : s[i] = t[i]
    BY <1>4, <1>5
  <2> QED
    BY <1>4, <1>5, <2>1, SeqEqual
<1> QED
  BY <1>6

LEMMA TailOfTwo ==
  ASSUME NEW x, NEW y
  PROVE  Len(<<x, y>>) = 2 /\ Tail(<<x, y>>) = <<y>>
OBVIOUS

\* The last two keys, when one more is remembered.
LEMMA RecordRemembers ==
  ASSUME TypeInvariant, Remembering, pc \in Deciding, NEW a, NEW o, NEW c,
         Record(a, o, c), stepRow' = stepRow
  PROVE  /\ steps' = 1 => recent' = <<Last'>>
         /\ steps' > 1 => recent' = <<stepRow'[steps' - 1].key, Last'>>
<1>1. /\ steps \in Nat /\ steps' = steps + 1 /\ action' = a
      /\ pc' = "persist!" /\ pc # "persist!"
  BY DEF TypeInvariant, Record, Deciding
<1>2. recent' = Append(IF Len(recent) = 2 THEN Tail(recent) ELSE recent, Key(a))
  BY DEF Record
<1>3. Last' = Key(a) /\ Last = stepRow[steps].key
  BY <1>1 DEF Last, Key
<1>4. CASE steps = 0
  <2>1. recent = << >>
    BY <1>4 DEF Remembering
  <2>2. recent' = <<Key(a)>>
    BY <1>2, <2>1
  <2> QED
    BY <1>1, <1>3, <1>4, <2>2
<1>5. CASE steps = 1
  <2>1. recent = <<Last>>
    BY <1>5 DEF Remembering
  <2>2. recent' = Append(recent, Key(a))
    <3>1. Len(recent) = 1
      BY <2>1
    <3> QED
      BY <1>2, <3>1
  <2>3. recent' = <<Last, Key(a)>>
    BY <2>1, <2>2, AppendToOne
  <2> QED
    BY <1>1, <1>3, <1>5, <2>3
<1>6. CASE steps > 1
  <2>1. recent = <<stepRow[steps - 1].key, Last>>
    BY <1>6 DEF Remembering
  <2>2. Len(recent) = 2 /\ Tail(recent) = <<Last>>
    BY <2>1, TailOfTwo
  <2>3. recent' = <<Last, Key(a)>>
    BY <1>2, <2>2, AppendToOne
  <2>4. steps' - 1 = steps
    BY <1>1
  <2> QED
    BY <1>1, <1>3, <1>6, <2>3, <2>4
<1> QED
  BY <1>1, <1>4, <1>5, <1>6

LEMMA DecideKeepsLoop == AgentInv /\ LoopInv /\ Decide => LoopInv'
<1> SUFFICES ASSUME AgentInv, LoopInv, Decide PROVE LoopInv'
  OBVIOUS
<1>1. /\ pc = "decide" /\ UNCHANGED <<stepRow, attempt>>
      /\ steps \in Nat /\ rejections \in Nat
      /\ TypeInvariant
  BY DEF Decide, rows, AgentInv, TypeInvariant
<1>2. /\ rejections < MaxRejections /\ Trail(steps, rejections)
      /\ Remembering
  BY <1>1 DEF LoopInv, Refusing, Deciding
<1>3. LoopDoesNotInsist'
  BY <1>1, RowsDoNotInsist DEF LoopInv
<1>4. ASSUME NEW a \in Actions, Record(a, "rejected", FALSE),
             rejections' = rejections + 1
      PROVE  LoopInv'
  <2>1. /\ outcome' = "rejected" /\ pc' = "persist!" /\ steps' = steps + 1
    BY <1>4 DEF Record
  <2>2. steps' - 1 = steps /\ rejections' - 1 = rejections
    BY <1>1, <1>4, <2>1
  <2>3. Trail(steps - 1, rejections - 1)'
    BY <1>1, <1>2, <2>2 DEF Trail, Rejected
  <2>4. rejections' \in 1..MaxRejections
    BY <1>1, <1>2, <1>4, RejectionsBounded
  <2>5. Refusing'
    BY <2>1, <2>3, <2>4 DEF Refusing, Deciding
  <2>6. /\ steps' = 1 => recent' = <<Last'>>
        /\ steps' > 1 => recent' = <<stepRow'[steps' - 1].key, Last'>>
    BY <1>1, <1>2, <1>4, RecordRemembers DEF Deciding
  <2>7. Remembering'
    BY <1>1, <2>1, <2>6 DEF Remembering
  <2> QED
    BY <1>3, <2>5, <2>7 DEF LoopInv
<1>5. ASSUME NEW a \in Actions, ~Denied(a), action' = a, outcome' = "allowed",
             pc' = "act", UNCHANGED <<steps, rejections, recent>>
      PROVE  LoopInv'
  <2>1. Trail(steps, rejections)'
    BY <1>1, <1>2, <1>5 DEF Trail, Rejected
  <2>2. Refusing'
    BY <1>2, <1>5, <2>1 DEF Refusing, Deciding
  <2>3. ~Repeated(action)'
    BY <1>5 DEF Denied, Repeated, Key
  <2>4. Last' = Last
    BY <1>1, <1>5 DEF Last
  <2>5. Remembering'
    BY <1>1, <1>2, <1>5, <2>3, <2>4 DEF Remembering, Deciding
  <2> QED
    BY <1>3, <2>2, <2>5 DEF LoopInv
<1> QED
  BY <1>4, <1>5 DEF Decide

LEMMA ProviderFailsKeepsLoop ==
  AgentInv /\ LoopInv /\ ProviderFails => LoopInv'
<1> SUFFICES ASSUME AgentInv, LoopInv, ProviderFails PROVE LoopInv'
  OBVIOUS
<1>1. /\ UNCHANGED <<stepRow, attempt>>
      /\ pc' = "persist-failed!" /\ outcome' = "failed"
  BY DEF ProviderFails, rows
<1>2. LoopDoesNotInsist'
  BY <1>1, RowsDoNotInsist DEF LoopInv
<1> QED
  BY <1>1, <1>2 DEF LoopInv, Refusing, Remembering, Deciding

LEMMA ActKeepsLoop == AgentInv /\ LoopInv /\ Act => LoopInv'
<1> SUFFICES ASSUME AgentInv, LoopInv, Act PROVE LoopInv'
  OBVIOUS
<1>1. /\ pc = "act" /\ UNCHANGED <<stepRow, attempt>>
      /\ steps \in Nat /\ TypeInvariant
  BY DEF Act, rows, AgentInv, TypeInvariant
<1>2. ~Repeated(action) /\ Remembering
  BY <1>1 DEF LoopInv, Remembering
<1>3. LoopDoesNotInsist'
  BY <1>1, RowsDoNotInsist DEF LoopInv
<1>4. PICK changed \in BOOLEAN : Record(Normalized(action), "executed", changed)
  BY DEF Act
<1>5. /\ outcome' = "executed" /\ pc' = "persist!" /\ steps' = steps + 1
      /\ action' = Normalized(action) /\ rejections' = 0
  BY <1>4 DEF Record, Act
<1>6. Refusing'
  BY <1>5 DEF Refusing, Deciding
<1>7. /\ steps' = 1 => recent' = <<Last'>>
      /\ steps' > 1 => recent' = <<stepRow'[steps' - 1].key, Last'>>
  BY <1>1, <1>2, <1>4, RecordRemembers DEF Deciding
<1>8. action'.tool # "navigate" => ~Third'
  <2> SUFFICES ASSUME action'.tool # "navigate", Third' PROVE FALSE
    OBVIOUS
  <2>1. action.tool # "navigate" /\ action' = action
    <3>1. action \in [tool : Tools, at : Places, cites : SUBSET Nat]
      BY <1>1 DEF TypeInvariant
    <3>2. \A a \in [tool : Tools, at : Places, cites : SUBSET Nat] :
            [a EXCEPT !.at = Resolve[@]].tool = a.tool
      OBVIOUS
    <3> QED
      BY <1>5, <3>1, <3>2 DEF Normalized
  <2>2. steps > 1 /\ steps' - 1 = steps /\ steps' - 2 = steps - 1
    BY <1>1, <1>5 DEF Third
  <2>3. stepRow[steps].key = Key(action) /\ stepRow[steps - 1].key = Key(action)
    BY <1>1, <2>1, <2>2 DEF Third, Key
  <2>4. recent = <<stepRow[steps - 1].key, stepRow[steps].key>>
    BY <1>1, <1>2, <2>2 DEF Remembering, Deciding, Last
  <2> QED
    BY <1>2, <2>3, <2>4 DEF Repeated
<1>9. Remembering'
  BY <1>1, <1>5, <1>7, <1>8 DEF Remembering, Deciding
<1> QED
  BY <1>3, <1>6, <1>9 DEF LoopInv

LEMMA PersistStepKeepsLoop ==
  AgentInv /\ TellInv /\ LoopInv /\ PersistStep => LoopInv'
<1> SUFFICES ASSUME AgentInv, TellInv, LoopInv, PersistStep PROVE LoopInv'
  OBVIOUS
<1>1. /\ pc = "persist!" /\ TypeInvariant
      /\ UNCHANGED <<attempt, steps, rejections, recent>>
      /\ steps \in 1..MaxSteps /\ OwnSteps = 1..(steps - 1)
      /\ rejections \in Nat
  BY Constants DEF PersistStep, counts, history, AgentInv, TypeInvariant,
    Recorded, Metering, TellInv, Telling
<1>2. WriteStep(steps) => LoopDoesNotInsist'
  <2> SUFFICES ASSUME WriteStep(steps) PROVE LoopDoesNotInsist'
    OBVIOUS
  <2>1. outcome = "rejected" => /\ rejections \in 1..MaxRejections
                                /\ Trail(steps - 1, rejections - 1)
    BY <1>1 DEF LoopInv, Refusing
  <2>2. outcome = "executed" /\ action.tool # "navigate" /\ steps > 2 =>
           ~(/\ stepRow[steps - 1].key = Key(action)
             /\ stepRow[steps - 2].key = Key(action))
    BY <1>1 DEF LoopInv, Remembering, Third
  <2> QED
    BY <1>1, <2>1, <2>2, LoopAfterWrite DEF LoopInv
<1>3. CASE StepLost(steps)
  <2>1. pc' = "complete!" /\ (WriteStep(steps) \/ UNCHANGED stepRow)
    BY <1>3 DEF StepLost
  <2>2. LoopDoesNotInsist'
    BY <1>1, <1>2, <2>1, RowsDoNotInsist DEF LoopInv
  <2> QED
    BY <2>1, <2>2 DEF LoopInv, Refusing, Remembering, Deciding
<1>4. CASE WriteStep(steps) /\ Judge /\ pc' = Onward
  <2>1. pc' \in {"loop", "complete!"} /\ LoopDoesNotInsist'
    BY <1>2, <1>4 DEF Onward
  <2>2. /\ stepRow'[steps]
             = [by |-> attempt, key |-> Key(action), outcome |-> outcome]
        /\ \A t \in 1..MaxSteps : t # steps => stepRow'[t] = stepRow[t]
    BY <1>1, <1>4, OwnAfterWrite
  <2>3. pc' = "loop" => rejections < MaxRejections
    <3> SUFFICES ASSUME pc' = "loop", rejections >= MaxRejections PROVE FALSE
      BY <1>1, RejectionsBounded
    <3>1. reason' = "none"
      BY <1>4 DEF Onward
    <3> QED
      BY <1>4, <3>1 DEF Judge, StopBy
  <2>4. Trail(steps, rejections)'
    <3> SUFFICES ASSUME NEW s \in 1..steps,
                        \A t \in s..steps : Rejected(t)'
                 PROVE  steps - s + 1 <= rejections
      BY <1>1 DEF Trail
    <3>1. steps \in s..steps
      BY <1>1
    <3>2. outcome = "rejected"
      BY <2>2, <3>1 DEF Rejected
    <3>3. rejections \in 1..MaxRejections /\ Trail(steps - 1, rejections - 1)
      BY <1>1, <3>2 DEF LoopInv, Refusing
    <3>4. CASE s = steps
      BY <1>1, <3>3, <3>4, RejectionsBounded
    <3>5. CASE s # steps
      <4>1. s \in 1..(steps - 1)
        BY <1>1, <3>5
      <4>2. \A t \in s..(steps - 1) :
              t \in 1..MaxSteps /\ t # steps /\ t \in s..steps
        BY <1>1, Constants
      <4>3. \A t \in s..(steps - 1) : Rejected(t)
        BY <2>2, <4>2 DEF Rejected
      <4>4. steps - 1 - s + 1 <= rejections - 1
        BY <3>3, <4>1, <4>3 DEF Trail
      <4> QED
        BY <1>1, <4>4
    <3> QED
      BY <3>4, <3>5
  <2>5. Refusing'
    BY <1>1, <2>1, <2>3, <2>4 DEF Refusing, Deciding
  <2>6. Last = Key(action) /\ stepRow'[steps].key = Key(action)
    BY <1>1, <2>2 DEF Last
  <2>7. steps > 1 => stepRow'[steps - 1] = stepRow[steps - 1]
    <3>1. steps > 1 => steps - 1 \in 1..MaxSteps /\ steps - 1 # steps
      BY <1>1, Constants
    <3> QED
      BY <2>2, <3>1
  <2>8. Remembering'
    <3>1. pc' = "loop" => Last' = Last
      BY <1>1, <2>6 DEF Last
    <3>2. /\ steps = 1 => recent = <<Last>>
          /\ steps > 1 => recent = <<stepRow[steps - 1].key, Last>>
      BY <1>1 DEF LoopInv, Remembering
    <3> QED
      BY <1>1, <2>1, <2>7, <3>1, <3>2 DEF Remembering, Deciding
  <2> QED
    BY <2>1, <2>5, <2>8 DEF LoopInv
<1> QED
  BY <1>3, <1>4 DEF PersistStep

LEMMA PersistProviderFailureKeepsLoop ==
  AgentInv /\ TellInv /\ LoopInv /\ PersistProviderFailure => LoopInv'
<1> SUFFICES ASSUME AgentInv, TellInv, LoopInv, PersistProviderFailure
             PROVE  LoopInv'
  OBVIOUS
<1>1. /\ pc = "persist-failed!" /\ pc' = "complete!" /\ attempt' = attempt
      /\ TypeInvariant /\ steps \in Nat /\ steps + 1 \in 1..MaxSteps
      /\ OwnSteps = 1..steps /\ outcome = "failed"
      /\ WriteStep(steps + 1) \/ UNCHANGED stepRow
  BY Constants DEF PersistProviderFailure, StepLost, AgentInv, TypeInvariant,
    Metering, TellInv, Telling, LoopInv, Refusing
<1>2. OwnSteps = 1..((steps + 1) - 1)
  BY <1>1
<1>3. LoopDoesNotInsist'
  BY <1>1, <1>2, LoopAfterWrite, RowsDoNotInsist DEF LoopInv
<1> QED
  BY <1>1, <1>3 DEF LoopInv, Refusing, Remembering, Deciding

LEMMA OutsideKeepsLoop ==
  AgentInv /\ LoopInv /\ (Elapse \/ MissionTimeout \/ Crash \/ UNCHANGED vars)
    => LoopInv'
<1> SUFFICES ASSUME AgentInv, LoopInv,
                    Elapse \/ MissionTimeout \/ Crash \/ UNCHANGED vars
             PROVE  LoopInv'
  OBVIOUS
<1>1. UNCHANGED <<stepRow, attempt>>
  BY DEF Elapse, MissionTimeout, Crash, vars, rows
<1>2. LoopDoesNotInsist'
  BY <1>1, RowsDoNotInsist DEF LoopInv
<1>3. CASE Crash /\ pc' = "dead"
  BY <1>1, <1>3, EndKeepsLoop
<1>4. CASE Restart
  BY <1>2, <1>4 DEF Restart, LoopInv, Refusing, Remembering, Deciding
<1>5. CASE ~Crash
  <2>1. UNCHANGED <<pc, steps, rejections, recent, action, outcome>>
    BY <1>5 DEF Elapse, MissionTimeout, vars, counts, step, history
  <2>2. Trail(steps, rejections)' = Trail(steps, rejections)
    BY <1>1, <2>1 DEF Trail, Rejected
  <2>3. Trail(steps - 1, rejections - 1)' = Trail(steps - 1, rejections - 1)
    BY <1>1, <2>1 DEF Trail, Rejected
  <2>4. Refusing'
    BY <2>1, <2>2, <2>3 DEF LoopInv, Refusing
  <2>5. Remembering'
    BY <1>1, <2>1 DEF LoopInv, Remembering, Last, Third, Repeated, Key
  <2> QED
    BY <1>2, <2>4, <2>5 DEF LoopInv
<1> QED
  BY <1>3, <1>4, <1>5 DEF Crash

LEMMA LoopInductive ==
  AgentInv /\ TellInv /\ LoopInv /\ [Next]_vars => LoopInv'
<1> SUFFICES ASSUME AgentInv, TellInv, LoopInv, [Next]_vars PROVE LoopInv'
  OBVIOUS
<1>1. CASE ActFails \/ CompleteRun
  BY <1>1, EndKeepsLoop DEF ActFails, CompleteRun, rows
<1> QED
  BY <1>1, CreateRunKeepsLoop, OpenKeepsLoop, ObserveKeepsLoop,
    DecideKeepsLoop, ProviderFailsKeepsLoop, ActKeepsLoop,
    PersistStepKeepsLoop, PersistProviderFailureKeepsLoop, OutsideKeepsLoop
    DEF Next, Agent

\* However the model insists, no attempt has more rejections in a row than it
\* may, and carries out nothing but a navigation three times running.
THEOREM AgentDoesNotInsist == Spec => []LoopDoesNotInsist
<1>1. LoopInv => LoopDoesNotInsist
  BY DEF LoopInv
<1> QED
  BY <1>1, LoopInitially, LoopInductive, TellAlways, AgentInvAlways, PTL
    DEF Spec

=============================================================================
