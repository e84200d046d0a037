---------------------------- MODULE BrowserAgent ----------------------------
(***************************************************************************)
(* autonomousBrowserMission: one agent that observes a page, asks a model  *)
(* for an action, has it judged, carries it out and records the step, until*)
(* a budget or the agent itself ends the loop.  An action is the code      *)
(* between two awaits.  A worker that dies is followed by another that     *)
(* takes the same run up again.                                            *)
(***************************************************************************)
EXTENDS Integers, Sequences

CONSTANTS
  MaxSteps, MaxProviderCalls,     \* budgets of the loop
  MaxUses,                        \* budgets of the metered tools
  MaxRejections, MaxNoProgress,   \* in a row
  MaxCost,                        \* tokens or cost, whichever is first
  Actions,                        \* what the model may propose
  Places,                         \* targets and URLs, or "nothing"
  Resolve,                        \* what a URL resolves to at the target
  Pages,                          \* what an observation can look like
  Costs,                          \* of one decision
  MaxFaults, MaxCrashes           \* of the database, of the worker

Metered == {"navigate", "click", "fill", "screenshot"}
Tools == Metered \cup {"inspect", "scroll", "wait", "report_finding", "finish"}

\* The configuration allows no loop without a step or a provider call, and
\* asks for one rejection and one idle step at least. The schema of actions
\* gives a finish no target.
ASSUME AgentAssumption ==
  /\ MaxSteps \in Nat \ {0} /\ MaxProviderCalls \in Nat \ {0}
  /\ MaxUses \in [Metered -> Nat]
  /\ MaxRejections \in Nat \ {0} /\ MaxNoProgress \in Nat \ {0}
  /\ MaxCost \in Nat /\ Costs \subseteq Nat
  /\ "nothing" \in Places /\ Resolve \in [Places -> Places]
  /\ Actions \subseteq [tool : Tools, at : Places, cites : SUBSET Nat]
  /\ \A a \in Actions : a.tool = "finish" => a.at = "nothing"
  /\ Pages # {}
  /\ MaxFaults \in Nat /\ MaxCrashes \in Nat

VARIABLES
  runRow,      \* the BrowserAgentRun row
  stepRow,     \* the BrowserAgentStep rows by sequence
  attempt,     \* how often the run has been taken up
  pc,          \* where the mission is
  steps, calls, uses, rejections, noProgress,     \* counts
  spent,       \* inputTokens, outputTokens, estimatedCost
  reason, status,                                 \* terminalReason, runStatus
  seen,        \* the current observation
  action,      \* the current action
  outcome,     \* of the current action
  recent,      \* the last two of historyKeys
  lastFingerprint,    \* the last of progressFingerprints
  findings,    \* each with its step
  performed,   \* what the page has gone through
  late,        \* whether missionTimeoutMs has elapsed
  closed,      \* whether the mission was given up and its browser closed
  faults, crashes

counts == <<steps, calls, uses, rejections, noProgress, spent>>
verdict == <<reason, status>>
step == <<seen, action, outcome>>
history == <<recent, lastFingerprint, findings>>
rows == <<runRow, stepRow, attempt>>
outside == <<late, closed, crashes>>
vars == <<rows, pc, counts, verdict, step, history, performed, outside, faults>>

NoAction == [tool |-> "finish", at |-> "nothing", cites |-> {}]
NoKey == <<"nothing", "nothing">>
NoStep == [by |-> 0, key |-> NoKey, outcome |-> "absent"]

Finished == {"completed", "completed_with_limitations"}

NoUses == [t \in Metered |-> 0]
FirstPage == CHOOSE p \in Pages : TRUE

Init ==
  /\ runRow = [status |-> "absent", reason |-> "none", steps |-> 0, calls |-> 0]
  /\ stepRow = [s \in 1..MaxSteps |-> NoStep]
  /\ attempt = 0
  /\ pc = "create-run"
  /\ steps = 0 /\ calls = 0 /\ uses = NoUses
  /\ rejections = 0 /\ noProgress = 0 /\ spent = 0
  /\ reason = "none" /\ status = "completed"
  /\ seen = FirstPage /\ action = NoAction /\ outcome = "absent"
  /\ recent = << >> /\ lastFingerprint = << >> /\ findings = {}
  /\ performed = NoUses
  /\ late = FALSE /\ closed = FALSE
  /\ faults = 0 /\ crashes = 0

DatabaseFails ==
  /\ faults < MaxFaults
  /\ faults' = faults + 1

\* terminalReason and runStatus of an end that the agent did not choose.
StopBy(r) ==
  /\ reason' = r
  /\ status' = "completed_with_limitations"

BrowserErrors == {"BROWSER_FAILURE", "EXTERNAL_NAVIGATION_BLOCKED"}

-----------------------------------------------------------------------------
(***************************************************************************)
(* Before the loop: nothing here is inside the try.                        *)
(***************************************************************************)

\* upsertBrowserAgentRun: a row that is there keeps what it has reported. A
\* write that fails may have taken effect, here and below.
CreateRun ==
  /\ pc = "create-run"
  /\ \/ /\ runRow' = [runRow EXCEPT !.status = "running"]
        /\ attempt' = attempt + 1
        /\ pc' = "open"
        /\ UNCHANGED faults
     \/ /\ DatabaseFails
        /\ runRow' \in {runRow, [runRow EXCEPT !.status = "running"]}
        /\ pc' = "threw"
        /\ UNCHANGED attempt
  /\ UNCHANGED <<stepRow, counts, verdict, step, history, performed, outside>>

Open ==
  /\ pc = "open"
  /\ \/ pc' = "loop" /\ ~closed
     \/ pc' = "threw"
  /\ UNCHANGED <<rows, counts, verdict, step, history, performed, outside,
                 faults>>

-----------------------------------------------------------------------------
(***************************************************************************)
(* The loop.                                                               *)
(***************************************************************************)
Exhausted ==
  (IF late THEN {"TIME_BUDGET_EXHAUSTED"} ELSE {})
    \cup (IF steps >= MaxSteps THEN {"STEP_BUDGET_EXHAUSTED"} ELSE {})
    \cup (IF calls >= MaxProviderCalls THEN {"PROVIDER_BUDGET_EXHAUSTED"}
          ELSE {})

StopOnBudget ==
  /\ pc = "loop" /\ Exhausted # {}
  /\ StopBy(IF late THEN "TIME_BUDGET_EXHAUSTED"
            ELSE IF steps >= MaxSteps THEN "STEP_BUDGET_EXHAUSTED"
            ELSE "PROVIDER_BUDGET_EXHAUSTED")
  /\ pc' = "complete!"
  /\ UNCHANGED <<rows, counts, step, history, performed, outside, faults>>

\* The first observation takes a screenshot if there is one to take.
Captured == IF steps = 0 /\ uses["screenshot"] < MaxUses["screenshot"]
            THEN 1 ELSE 0

Shots(f, n) == [f EXCEPT !["screenshot"] = @ + n]

\* observePage, and the provider call it is followed by.
Observe ==
  /\ pc = "loop" /\ Exhausted = {} /\ ~closed
  /\ seen' \in Pages
  /\ uses' = Shots(uses, Captured)
  /\ performed' = Shots(performed, Captured)
  /\ calls' = calls + 1
  /\ pc' = "decide"
  /\ UNCHANGED <<rows, steps, rejections, noProgress, spent, verdict, action,
                 outcome, history, outside, faults>>

\* Variant: the observation stands outside the try.
ObserveFailsOutside ==
  /\ pc = "loop" /\ Exhausted = {}
  /\ pc' = "threw"
  /\ UNCHANGED <<rows, counts, verdict, step, history, performed, outside,
                 faults>>

ObserveFails ==
  /\ pc = "loop" /\ Exhausted = {}
  /\ \E r \in BrowserErrors : StopBy(r)
  /\ performed' \in {performed, Shots(performed, Captured)}
  /\ pc' = "complete!"
  /\ UNCHANGED <<rows, counts, step, history, outside, faults>>

Key(a) == <<a.tool, a.at>>

Normalized(a) ==
  IF a.tool = "navigate" THEN [a EXCEPT !.at = Resolve[@]] ELSE a

\* Variant: a repetition is one only where nothing has changed for long.
RepeatedIdle(a) == recent = <<Key(a), Key(a)>> /\ noProgress >= MaxNoProgress

\* The same proposal as the last two actions, as these were normalised.
Repeated(a) == recent = <<Key(a), Key(a)>>

\* Variant: a budget is over when it is exceeded.
OverBudgetExceeded(a) == a.tool \in Metered /\ uses[a.tool] > MaxUses[a.tool]

OverBudget(a) == a.tool \in Metered /\ uses[a.tool] >= MaxUses[a.tool]

\* Variant: the step that reports is evidence, too.
UnbackedOwn(a) ==
  a.tool = "report_finding" /\ ~(a.cites \subseteq 1..(steps + 1))

\* Evidence is whatever was a step before.
Unbacked(a) == a.tool = "report_finding" /\ ~(a.cites \subseteq 1..steps)

\* evaluateSafety, as far as it is the worker's own state that denies.
Denied(a) ==
  \/ steps >= MaxSteps \/ calls > MaxProviderCalls
  \/ Repeated(a) \/ OverBudget(a) \/ Unbacked(a)

\* What the page, the origin or the configuration can deny.
Deniable == {"navigate", "click", "fill"}

\* What is remembered of a step, allowed or not.
Fingerprint(a) ==
  <<seen, a.tool, IF a.tool \in {"click", "fill"} THEN a.at ELSE "nothing">>

Record(a, o, stateChanged) ==
  /\ action' = a /\ outcome' = o
  /\ steps' = steps + 1
  /\ recent' = Append(IF Len(recent) = 2 THEN Tail(recent) ELSE recent, Key(a))
  /\ lastFingerprint' = Fingerprint(a)
  /\ noProgress' = IF lastFingerprint = Fingerprint(a) /\ ~stateChanged
                   THEN noProgress + 1 ELSE 0
  /\ pc' = "persist!"

\* The model's answer is paid for and judged. An answer that exhausts the
\* budget is carried out all the same.
Decide ==
  /\ pc = "decide"
  /\ \E a \in Actions, c \in Costs :
       /\ spent' = spent + c
       /\ IF spent + c > MaxCost THEN StopBy("COST_BUDGET_EXHAUSTED")
          ELSE UNCHANGED verdict
       /\ \/ /\ Denied(a) \/ a.tool \in Deniable
             /\ Record(a, "rejected", FALSE)
             /\ rejections' = rejections + 1
          \/ /\ ~Denied(a)
             /\ action' = a /\ outcome' = "allowed"
             /\ pc' = "act"
             /\ UNCHANGED <<steps, rejections, noProgress, recent, lastFingerprint>>
  /\ UNCHANGED <<rows, calls, uses, seen, findings, performed, outside, faults>>

\* The call fails, or takes longer than a step may.
ProviderFails ==
  /\ pc = "decide"
  /\ StopBy("PROVIDER_FAILURE")
  /\ action' = NoAction /\ outcome' = "failed"
  /\ pc' = "persist-failed!"
  /\ UNCHANGED <<rows, counts, seen, history, performed, outside, faults>>

\* These do nothing to the page but ask where it is.
Idle == {"inspect", "report_finding", "finish"}

Used(f) == IF action.tool \in Metered THEN [f EXCEPT ![action.tool] = @ + 1]
           ELSE f

\* executeTool succeeds.
Act ==
  /\ pc = "act" /\ (closed => action.tool \in Idle)
  /\ uses' = Used(uses) /\ performed' = Used(performed)
  /\ rejections' = 0
  /\ findings' = IF action.tool = "report_finding"
                 THEN findings \cup {[step |-> steps + 1, cites |-> action.cites]}
                 ELSE findings
  /\ reason' = IF action.tool = "finish" THEN "FINISHED_BY_AGENT" ELSE reason
  /\ \E changed \in BOOLEAN :
       /\ action.tool \notin {"inspect", "wait"} => changed
       /\ Record(Normalized(action), "executed", changed)
  /\ UNCHANGED <<rows, calls, spent, status, seen, outside, faults>>

\* It throws or times out, with or without an effect on the page.
ActFails ==
  /\ pc = "act"
  /\ \E r \in BrowserErrors :
       /\ action.tool \in Idle => r = "EXTERNAL_NAVIGATION_BLOCKED"
       /\ StopBy(r)
  /\ performed' \in {performed, Used(performed)}
  /\ pc' = "complete!"
  /\ UNCHANGED <<rows, counts, step, history, outside, faults>>

WriteStep(s) ==
  stepRow' = [stepRow EXCEPT ![s] =
                [by |-> attempt, key |-> Key(action), outcome |-> outcome]]

\* Variant: a step that cannot be written is forgotten.
StepLostForgotten(s) ==
  /\ DatabaseFails
  /\ pc' = "loop"
  /\ UNCHANGED <<stepRow, verdict>>

\* Variant: what has ended the loop before the error is kept.
StepLostKeepsReason(s) ==
  /\ DatabaseFails
  /\ WriteStep(s) \/ UNCHANGED stepRow
  /\ StopBy(IF reason = "none" THEN "BROWSER_FAILURE" ELSE reason)
  /\ pc' = "complete!"

\* An error of the write ends the loop, whether it took effect or not.
StepLost(s) ==
  /\ DatabaseFails
  /\ WriteStep(s) \/ UNCHANGED stepRow
  /\ StopBy("BROWSER_FAILURE")
  /\ pc' = "complete!"

\* Variant: rejected actions are no reason to stop.
JudgeProgressOnly ==
  IF noProgress >= MaxNoProgress THEN StopBy("NO_PROGRESS")
  ELSE UNCHANGED verdict

\* What a step that was written means for the loop.
Judge ==
  IF noProgress >= MaxNoProgress THEN StopBy("NO_PROGRESS")
  ELSE IF rejections >= MaxRejections THEN StopBy("TOO_MANY_REJECTIONS")
  ELSE UNCHANGED verdict

\* Variant: the loop ends where a budget does.
OnwardAlways == "loop"

Onward == IF reason' = "none" THEN "loop" ELSE "complete!"

PersistStep ==
  /\ pc = "persist!"
  /\ \/ WriteStep(steps) /\ Judge /\ pc' = Onward /\ UNCHANGED faults
     \/ StepLost(steps)
  /\ UNCHANGED <<runRow, attempt, counts, step, history, performed, outside>>

\* Variant: the step of a decision that failed does not count.
PersistProviderFailureUncounted ==
  /\ pc = "persist-failed!"
  /\ \/ /\ WriteStep(steps + 1)
        /\ pc' = "complete!"
        /\ UNCHANGED <<verdict, faults>>
     \/ StepLost(steps + 1)
  /\ UNCHANGED <<runRow, attempt, counts, step, history, performed, outside>>

\* The step of a decision that failed is counted once it is written.
PersistProviderFailure ==
  /\ pc = "persist-failed!"
  /\ \/ /\ WriteStep(steps + 1) /\ steps' = steps + 1
        /\ pc' = "complete!"
        /\ UNCHANGED <<verdict, faults>>
     \/ StepLost(steps + 1) /\ UNCHANGED steps
  /\ UNCHANGED <<runRow, attempt, calls, uses, rejections, noProgress, spent,
                 step, history, performed, outside>>

Reported == [status |-> status, reason |-> reason, steps |-> steps, calls |-> calls]

CompleteRun ==
  /\ pc = "complete!"
  /\ \/ runRow' = Reported /\ pc' = "returned" /\ UNCHANGED faults
     \/ DatabaseFails /\ runRow' \in {runRow, Reported} /\ pc' = "threw"
  /\ UNCHANGED <<stepRow, attempt, counts, verdict, step, history, performed,
                 outside>>

Agent ==
  \/ CreateRun \/ Open \/ StopOnBudget \/ Observe \/ ObserveFails \/ Decide
  \/ ProviderFails \/ Act \/ ActFails \/ PersistStep \/ PersistProviderFailure
  \/ CompleteRun

-----------------------------------------------------------------------------
Elapse ==
  /\ ~late /\ late' = TRUE
  /\ UNCHANGED <<rows, pc, counts, verdict, step, history, performed, closed,
                 crashes, faults>>

\* runWithTimeout gives the mission up, and runMissionJob closes its browser.
MissionTimeout ==
  /\ ~closed /\ closed' = TRUE
  /\ UNCHANGED <<rows, pc, counts, verdict, step, history, performed, late,
                 crashes, faults>>

\* The local variables of autonomousBrowserMission when it is called again.
Restart ==
  /\ pc' = "create-run"
  /\ steps' = 0 /\ calls' = 0 /\ uses' = NoUses
  /\ rejections' = 0 /\ noProgress' = 0 /\ spent' = 0
  /\ reason' = "none" /\ status' = "completed"
  /\ seen' = FirstPage /\ action' = NoAction /\ outcome' = "absent"
  /\ recent' = << >> /\ lastFingerprint' = << >> /\ findings' = {}
  /\ performed' = NoUses
  /\ late' = FALSE /\ closed' = FALSE

\* The worker dies. The queue hands the job out again, unless the mission was
\* given up and the job has failed.
Crash ==
  /\ crashes < MaxCrashes /\ crashes' = crashes + 1
  /\ \/ /\ closed /\ pc' = "dead"
        /\ UNCHANGED <<counts, verdict, step, history, performed, late, closed>>
     \/ Restart
  /\ UNCHANGED <<rows, faults>>

Next == Agent \/ Elapse \/ MissionTimeout \/ Crash

Spec == Init /\ [][Next]_vars

\* Node runs every continuation that is due, and every call has a timeout.
FairSpec == Spec /\ WF_vars(Agent)

-----------------------------------------------------------------------------
(***************************************************************************)
(* Properties.                                                             *)
(***************************************************************************)
Labels == {"create-run", "open", "loop", "decide", "act", "persist!",
           "persist-failed!", "complete!", "returned", "threw", "dead"}

Reasons == BrowserErrors \cup
  {"none", "FINISHED_BY_AGENT", "STEP_BUDGET_EXHAUSTED",
   "PROVIDER_BUDGET_EXHAUSTED", "TIME_BUDGET_EXHAUSTED",
   "COST_BUDGET_EXHAUSTED", "NO_PROGRESS", "TOO_MANY_REJECTIONS",
   "PROVIDER_FAILURE"}

Outcomes == {"absent", "allowed", "executed", "rejected", "failed"}

Keys == (Tools \cup {"nothing"}) \X Places

StepRows == [by : Nat, key : Keys, outcome : Outcomes]

\* Every row and local variable holds a value the code gives a meaning to; a
\* mission that goes on has no reason to stop, unless it just found one.
TypeInvariant ==
  /\ runRow \in [status : Finished \cup {"absent", "running"},
                 reason : Reasons, steps : Nat, calls : Nat]
  /\ stepRow \in [1..MaxSteps -> StepRows]
  /\ attempt \in Nat /\ crashes \in Nat /\ faults \in Nat
  /\ pc \in Labels
  /\ steps \in Nat /\ calls \in Nat /\ uses \in [Metered -> Nat]
  /\ rejections \in Nat /\ noProgress \in Nat /\ spent \in Nat
  /\ reason \in Reasons /\ status \in Finished
  /\ action \in [tool : Tools, at : Places, cites : SUBSET Nat]
  /\ outcome \in Outcomes /\ seen \in Pages
  /\ recent \in Seq(Keys) /\ Len(recent) <= 2
  /\ findings \subseteq [step : Nat, cites : SUBSET Nat]
  /\ performed \in [Metered -> Nat]
  /\ late \in BOOLEAN /\ closed \in BOOLEAN
  /\ pc = "loop" => reason = "none"

\* Whatever fails, and whether or not a tool that failed had its effect, the
\* page never goes through more of a tool than its budget, and the loop takes
\* no more steps and asks the model no more often than it may.
EffectsWithinBudgets ==
  /\ \A t \in Metered : performed[t] <= MaxUses[t]
  /\ steps <= MaxSteps /\ calls <= MaxProviderCalls

Present(s) == stepRow[s].outcome # "absent"

\* The recorded steps have no gap, and where a run was taken up again the
\* steps of the later attempt come first.
RecordHasNoGap ==
  \A s \in 1..MaxSteps, t \in 1..MaxSteps :
    Present(s) /\ t < s => Present(t) /\ stepRow[t].by >= stepRow[s].by

OwnSteps == {s \in 1..MaxSteps : stepRow[s].by = attempt}

\* A run that is over says how many steps its last attempt has recorded; a
\* failing write can make it one more or one less.
ReportedStepsAreThere ==
  runRow.status \in Finished =>
    \E n \in {runRow.steps, runRow.steps - 1, runRow.steps + 1} :
      OwnSteps = 1..n /\ (faults = 0 => n = runRow.steps)

\* A finding cites only steps that were recorded before it, by the attempt
\* that found it.
FindingsAreBacked ==
  \A f \in findings : \A s \in f.cites :
    s \in OwnSteps /\ s < f.step

\* A run that says the agent finished has the agent's finish as the last step
\* it recorded, and a run without limitations is one the agent finished.
VerdictIsRecorded ==
  /\ runRow.status = "completed" => runRow.reason = "FINISHED_BY_AGENT"
  /\ runRow.status \in Finished /\ runRow.reason = "FINISHED_BY_AGENT" =>
       /\ runRow.steps \in OwnSteps
       /\ stepRow[runRow.steps].key = <<"finish", "nothing">>
       /\ stepRow[runRow.steps].outcome = "executed"

Window(s, n) == {t \in OwnSteps : s <= t /\ t < s + n}

\* No attempt has more rejections in a row than it may.
RejectionsEnd ==
  \A s \in 1..MaxSteps :
    Window(s, MaxRejections + 1) = s..(s + MaxRejections) =>
      \E t \in Window(s, MaxRejections + 1) : stepRow[t].outcome # "rejected"

\* Nothing is carried out three times running, navigations excepted: those
\* are remembered by the URL they resolve to, and compared as proposed.
NoThirdTime ==
  \A s \in 1..(MaxSteps - 2) :
    /\ s..(s + 2) \subseteq OwnSteps
    /\ \A t \in s..(s + 2) : /\ stepRow[t].outcome = "executed"
                             /\ stepRow[t].key = stepRow[s].key
    => stepRow[s].key[1] = "navigate"

\* The run's row and the recorded steps tell one story.
RecordTellsTheRun == ReportedStepsAreThere /\ VerdictIsRecorded

\* The loop does not insist: not on what is refused, nor on what it has done.
LoopDoesNotInsist == RejectionsEnd /\ NoThirdTime

\* A mission that got as far as its loop reports its run, even when it has
\* been given up, unless the database fails or the worker dies.
OpenedRunSettles ==
  pc = "loop" ~>
    (runRow.status \in Finished \/ faults > 0 \/ pc \in {"create-run", "dead"})

=============================================================================
