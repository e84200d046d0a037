------------------------- MODULE GitHubExportProofs -------------------------
(***************************************************************************)
(* Theorems of GitHubExport, for every set of findings, requests, retries  *)
(* and any number of attempts and faults.                                  *)
(***************************************************************************)
EXTENDS GitHubExport, FiniteSetTheorems, TLAPS

(***************************************************************************)
(* Type correctness.                                                       *)
(***************************************************************************)

\* The counts of finalizeGitHubExportBatch are numbers: they count some of
\* the finitely many findings.
LEMMA OwnRowsAreCounted ==
  ASSUME NEW status
  PROVE  OwnRows(status) \in Nat
<1>1. IsFiniteSet({f \in Findings : owner[f] = current /\ row[f] = status})
  BY FS_Subset, ExportAssumption
<1>2. QED
  BY <1>1, FS_CardinalityType DEF OwnRows

\* Init establishes the types.
LEMMA InitTypes == Init => TypeInvariant
<1> SUFFICES ASSUME Init PROVE TypeInvariant
  OBVIOUS
<1> USE ExportAssumption, FaultAssumption DEF Init, ZeroCount
<1>1. RowTypes
  BY DEF RowTypes, Tally
<1>2. GitHubTypes /\ QueueTypes
  BY DEF GitHubTypes, QueueTypes
<1>3. WorkerTypes
  BY DEF WorkerTypes, WorkerLabels, Errors, Tally
<1>4. RequestTypes
  BY DEF RequestTypes
<1>5. QED
  BY <1>1, <1>2, <1>3, <1>4 DEF TypeInvariant, FaultKinds

\* A fault is counted, or no fault happens.
LEMMA FaultTypes ==
  ASSUME faults \in [FaultKinds -> Nat], NEW k \in FaultKinds, Fault(k)
  PROVE  faults' \in [FaultKinds -> Nat]
BY DEF Fault

\* Adding a job keeps the queue's types.
LEMMA EnqueuedTypes ==
  ASSUME TypeInvariant, NEW b \in Requests, job' = Enqueued(b),
         UNCHANGED <<attemptsMade, stalls, worker>>
  PROVE  QueueTypes' /\ WorkerTypes'
BY ExportAssumption DEF TypeInvariant, QueueTypes, WorkerTypes, Enqueued, worker

\* Every step of the worker keeps the types.
LEMMA WorkerKeepsTypes == TypeInvariant /\ (Worker \/ WorkerCrash) => TypeInvariant'
<1> SUFFICES ASSUME TypeInvariant, Worker \/ WorkerCrash PROVE TypeInvariant'
  OBVIOUS
<1> USE ExportAssumption, FaultAssumption
<1> USE DEF TypeInvariant, batches, rows, github, queue, requests, retries
<1>1. ASSUME NEW b \in Requests, StartJob(b) PROVE TypeInvariant'
  BY <1>1 DEF StartJob, RowTypes, GitHubTypes, QueueTypes, WorkerTypes,
              RequestTypes, WorkerLabels, Errors
<1>2. CASE MarkBatchRunning
  BY <1>2 DEF MarkBatchRunning, Goto, RowTypes, GitHubTypes, QueueTypes,
              WorkerTypes, RequestTypes, WorkerLabels, Errors
<1>3. CASE ReadBatch
  BY <1>3 DEF ReadBatch, Goto, RowTypes, GitHubTypes, QueueTypes,
              WorkerTypes, RequestTypes, WorkerLabels, Errors
<1>4. CASE MarkCreating
  BY <1>4 DEF MarkCreating, Goto, RowTypes, RowStatus, GitHubTypes, QueueTypes,
              WorkerTypes, RequestTypes, WorkerLabels, Errors
<1>5. CASE Search \/ SearchAgain
  BY <1>5 DEF Search, SearchAgain, Ask, RowTypes, GitHubTypes, QueueTypes,
              WorkerTypes, RequestTypes, WorkerLabels, Errors
<1>6. CASE Post
  <2>1. faults' \in [FaultKinds -> Nat]
    BY <1>6, FaultTypes DEF Post, FaultKinds
  <2>2. GitHubTypes'
    <3>1. item \in Findings
      BY <1>6 DEF Post, WorkerTypes
    <3>2. CASE OpenIssue
      BY <3>1, <3>2 DEF OpenIssue, GitHubTypes
    <3>3. CASE UNCHANGED github
      BY <3>3 DEF GitHubTypes
    <3>4. QED
      BY <1>6, <3>2, <3>3 DEF Post
  <2>3. WorkerTypes'
    BY <1>6 DEF Post, WorkerTypes, WorkerLabels, Errors
  <2>4. RowTypes' /\ QueueTypes' /\ RequestTypes'
    BY <1>6 DEF Post, RowTypes, QueueTypes, RequestTypes
  <2>5. QED
    BY <2>1, <2>2, <2>3, <2>4
<1>7. CASE MarkSkipped \/ MarkCreated \/ MarkFailed
  <2>1. RowTypes'
    BY <1>7 DEF MarkSkipped, MarkCreated, MarkFailed, MarkItem, Goto, RowTypes,
                RowStatus
  <2>2. WorkerTypes'
    BY <1>7 DEF MarkSkipped, MarkCreated, MarkFailed, MarkItem, Goto,
                WorkerTypes, WorkerLabels, Errors
  <2>3. GitHubTypes' /\ QueueTypes' /\ RequestTypes' /\ UNCHANGED faults
    BY <1>7 DEF MarkSkipped, MarkCreated, MarkFailed, MarkItem, GitHubTypes,
                QueueTypes, RequestTypes
  <2>4. QED
    BY <2>1, <2>2, <2>3
<1>8. CASE RecordUsage
  BY <1>8 DEF RecordUsage, Goto, RowTypes, GitHubTypes, QueueTypes,
              WorkerTypes, RequestTypes, WorkerLabels, Errors
<1>9. CASE CountRows
  <2>1. tally' \in Tally
    BY <1>9, OwnRowsAreCounted DEF CountRows, Tally
  <2>2. QED
    BY <1>9, <2>1 DEF CountRows, Goto, RowTypes, GitHubTypes, QueueTypes,
                      WorkerTypes, RequestTypes, WorkerLabels, Errors
<1>10. CASE FinalizeBatch
  <2>1. Outcome(tally) \in FinishedBatch
    BY DEF Outcome, FinishedBatch
  <2>2. RowTypes'
    BY <1>10, <2>1 DEF FinalizeBatch, Goto, RowTypes, WorkerTypes
  <2>3. QED
    BY <1>10, <2>2 DEF FinalizeBatch, Goto, GitHubTypes, QueueTypes,
                       WorkerTypes, RequestTypes, WorkerLabels, Errors
<1>11. CASE JobDone
  BY <1>11 DEF JobDone, Leave, ZeroCount, Tally, RowTypes, GitHubTypes,
               QueueTypes, WorkerTypes, RequestTypes, WorkerLabels, Errors
<1>12. CASE JobFailed
  <2>1. QueueTypes'
    BY <1>12 DEF JobFailed, QueueTypes, WorkerTypes
  <2>2. QED
    BY <1>12, <2>1 DEF JobFailed, Leave, ZeroCount, Tally, RowTypes,
                       GitHubTypes, WorkerTypes, RequestTypes, WorkerLabels,
                       Errors
<1>13. CASE WorkerCrash
  <2>1. faults' \in [FaultKinds -> Nat]
    BY <1>13, FaultTypes DEF WorkerCrash, FaultKinds
  <2>2. QueueTypes'
    BY <1>13 DEF WorkerCrash, QueueTypes, WorkerTypes
  <2>3. QED
    BY <1>13, <2>1, <2>2 DEF WorkerCrash, Leave, ZeroCount, Tally, RowTypes,
                             GitHubTypes, WorkerTypes, RequestTypes,
                             WorkerLabels, Errors
<1>14. QED
  BY <1>1, <1>2, <1>3, <1>4, <1>5, <1>6, <1>7, <1>8, <1>9, <1>10, <1>11,
     <1>12, <1>13 DEF Worker

\* Every step of a request or a retry keeps the types, and so does the index.
LEMMA RequestsKeepTypes ==
  ASSUME TypeInvariant,
         \/ \E r \in Requests : Request(r) \/ RequestCrash(r)
         \/ \E x \in Retries : Retry(x)
         \/ \E f \in Findings : Index(f)
  PROVE  TypeInvariant'
<1> USE ExportAssumption, FaultAssumption
<1> USE DEF TypeInvariant, batches, rows, github, queue, worker, requests,
            retries
<1>1. ASSUME NEW r \in Requests, NEW f \in Findings, ReadRow(r, f)
      PROVE  TypeInvariant'
  BY <1>1 DEF ReadRow, RowTypes, GitHubTypes, QueueTypes, WorkerTypes,
              RequestTypes
<1>2. ASSUME NEW r \in Requests, Commit(r) PROVE TypeInvariant'
  BY <1>2 DEF Commit, RowTypes, RowStatus, GitHubTypes, QueueTypes,
              WorkerTypes, RequestTypes
<1>3. ASSUME NEW r \in Requests, Rollback(r) PROVE TypeInvariant'
  BY <1>3 DEF Rollback, RowTypes, GitHubTypes, QueueTypes, WorkerTypes,
              RequestTypes
<1>4. ASSUME NEW r \in Requests, EnqueueExport(r) PROVE TypeInvariant'
  <2>1. faults' \in [FaultKinds -> Nat]
    BY <1>4, FaultTypes DEF EnqueueExport, FaultKinds
  <2>2. QueueTypes' /\ WorkerTypes'
    <3>1. CASE job' = Enqueued(r)
      BY <1>4, <3>1, EnqueuedTypes DEF EnqueueExport
    <3>2. CASE UNCHANGED job
      BY <1>4, <3>2 DEF EnqueueExport, QueueTypes, WorkerTypes
    <3>3. QED
      BY <1>4, <3>1, <3>2 DEF EnqueueExport
  <2>3. QED
    BY <1>4, <2>1, <2>2 DEF EnqueueExport, RowTypes, GitHubTypes, RequestTypes
<1>5. ASSUME NEW r \in Requests, RequestCrash(r) PROVE TypeInvariant'
  <2>1. faults' \in [FaultKinds -> Nat]
    BY <1>5, FaultTypes DEF RequestCrash, FaultKinds
  <2>2. QED
    BY <1>5, <2>1 DEF RequestCrash, RowTypes, GitHubTypes, QueueTypes,
                      WorkerTypes, RequestTypes
<1>6. ASSUME NEW x \in Retries, ResetFailedRows(x) PROVE TypeInvariant'
  BY <1>6 DEF ResetFailedRows, RowTypes, RowStatus, GitHubTypes, QueueTypes,
              WorkerTypes, RequestTypes
<1>7. ASSUME NEW x \in Retries, ResetBatch(x) PROVE TypeInvariant'
  BY <1>7 DEF ResetBatch, RowTypes, GitHubTypes, QueueTypes, WorkerTypes,
              RequestTypes
<1>8. ASSUME NEW x \in Retries, EnqueueRetry(x) PROVE TypeInvariant'
  <2>1. faults' \in [FaultKinds -> Nat]
    BY <1>8, FaultTypes DEF EnqueueRetry, FaultKinds
  <2>2. QueueTypes' /\ WorkerTypes'
    <3>1. CASE job' = Enqueued(retryOf[x])
      <4>1. retryOf[x] \in Requests
        BY <1>8 DEF EnqueueRetry, RequestTypes
      <4>2. QED
        BY <1>8, <3>1, <4>1, EnqueuedTypes DEF EnqueueRetry
    <3>2. CASE UNCHANGED job
      BY <1>8, <3>2 DEF EnqueueRetry, QueueTypes, WorkerTypes
    <3>3. QED
      BY <1>8, <3>1, <3>2 DEF EnqueueRetry
  <2>3. QED
    BY <1>8, <2>1, <2>2 DEF EnqueueRetry, RowTypes, GitHubTypes, RequestTypes
<1>9. ASSUME NEW f \in Findings, Index(f) PROVE TypeInvariant'
  BY <1>9 DEF Index, RowTypes, GitHubTypes, QueueTypes, WorkerTypes,
              RequestTypes
<1>10. QED
  BY <1>1, <1>2, <1>3, <1>4, <1>5, <1>6, <1>7, <1>8, <1>9 DEF Request, Retry

\* The types hold for every instance of the export: no interleaving of
\* requests, retries, attempts and crashes grants a job an attempt too many
\* or lets the worker go on without an active job.
THEOREM ExportTypeCorrect == Spec => []TypeInvariant
<1>1. TypeInvariant /\ [Next]_vars => TypeInvariant'
  <2> SUFFICES ASSUME TypeInvariant, [Next]_vars PROVE TypeInvariant'
    OBVIOUS
  <2>1. CASE Next
    BY <2>1, WorkerKeepsTypes, RequestsKeepTypes DEF Next
  <2>2. CASE UNCHANGED vars
    BY <2>2 DEF vars, batches, rows, github, queue, worker, requests, retries,
                TypeInvariant, RowTypes, GitHubTypes, QueueTypes, WorkerTypes,
                RequestTypes
  <2>3. QED
    BY <2>1, <2>2
<1>2. QED
  BY InitTypes, <1>1, PTL DEF Spec


-----------------------------------------------------------------------------
(***************************************************************************)
(* Rows and issues. The worker is the only process that opens an issue and *)
(* it holds no other evidence than its own last search: what it is about   *)
(* to write must be backed already.                                        *)
(***************************************************************************)
Backed ==
  /\ RowsBackedByIssues
  /\ \A f \in Findings : indexed[f] => issues[f] > 0
  /\ pc \in {"skip!", "created!", "usage!"} => issues[item] > 0

\* Issues are never taken away, and only Post opens one.
LEMMA IssuesStay ==
  ASSUME TypeInvariant, [Next]_vars
  PROVE  \A f \in Findings : issues'[f] >= issues[f]
<1> USE DEF TypeInvariant, GitHubTypes
<1>1. CASE UNCHANGED issues
  BY <1>1
<1>2. CASE Post
  BY <1>2 DEF Post, OpenIssue, WorkerTypes, github
<1>3. QED
  BY <1>1, <1>2
  DEF Next, Worker, WorkerCrash, StartJob, MarkBatchRunning, ReadBatch,
      MarkCreating, Search, SearchAgain, Ask, MarkSkipped, MarkCreated,
      MarkFailed, MarkItem, RecordUsage, CountRows, FinalizeBatch, JobDone,
      JobFailed, Request, ReadRow, Commit, Rollback, EnqueueExport,
      RequestCrash, Retry, ResetFailedRows, ResetBatch, EnqueueRetry, Index,
      github, vars

\* No link, no CREATED or SKIPPED and no usage event without an issue behind
\* it, for any interleaving of batches, retries and crashes.
THEOREM ExportsAreBacked == Spec => []RowsBackedByIssues
<1>1. Init => Backed
  BY DEF Init, Backed, RowsBackedByIssues, Absent
<1>2. TypeInvariant /\ Backed /\ [Next]_vars => Backed'
  <2> SUFFICES ASSUME TypeInvariant, Backed, [Next]_vars PROVE Backed'
    OBVIOUS
  <2> USE DEF Backed, RowsBackedByIssues
  <2>0. \A f \in Findings : issues'[f] >= issues[f]
    BY IssuesStay
  <2>t. /\ issues \in [Findings -> Nat] /\ issues' \in [Findings -> Nat]
        /\ row \in [Findings -> RowStatus \cup {Absent}]
        /\ url \in [Findings -> BOOLEAN]
    <3>1. TypeInvariant'
      BY WorkerKeepsTypes, RequestsKeepTypes
      DEF Next, vars, batches, rows, github, queue, worker, requests, retries,
          TypeInvariant, RowTypes, GitHubTypes, QueueTypes, WorkerTypes,
          RequestTypes
    <3>2. QED
      BY <3>1 DEF TypeInvariant, GitHubTypes, RowTypes
  <2>1. CASE Search \/ SearchAgain
    BY <2>1 DEF Search, SearchAgain, Ask, Errors, rows, github, TypeInvariant,
                WorkerTypes
  <2>2. CASE Post
    <3>1. item \in Findings
      BY <2>2 DEF Post, TypeInvariant, WorkerTypes
    <3>2. CASE OpenIssue
      BY <2>2, <2>0, <2>t, <3>1, <3>2 DEF Post, OpenIssue, rows
    <3>3. CASE ~OpenIssue
      BY <2>2, <3>3 DEF Post, Errors, rows, github
    <3>4. QED
      BY <3>2, <3>3
  <2>3. CASE MarkSkipped \/ MarkCreated \/ MarkFailed
    BY <2>3, <2>t DEF MarkSkipped, MarkCreated, MarkFailed, MarkItem, Goto,
                      github
  <2>4. CASE RecordUsage
    BY <2>4 DEF RecordUsage, Goto, rows, github
  <2>5. CASE MarkCreating
    BY <2>5, <2>t DEF MarkCreating, Goto, github
  <2>6. ASSUME NEW r \in Requests, Commit(r) PROVE Backed'
    BY <2>6, <2>t DEF Commit, github, worker
  <2>7. ASSUME NEW x \in Retries, ResetFailedRows(x) PROVE Backed'
    BY <2>7, <2>t DEF ResetFailedRows, github, worker
  <2>8. ASSUME NEW f \in Findings, Index(f) PROVE Backed'
    BY <2>8, <2>t DEF Index, rows, worker
  <2>9. CASE UNCHANGED <<rows, usage, github>> /\ pc' \notin {"skip!", "created!", "usage!"}
    BY <2>9 DEF rows, github
  <2>10. CASE UNCHANGED <<rows, usage, github, worker>>
    BY <2>10 DEF rows, github, worker
  <2>11. QED
    BY <2>1, <2>2, <2>3, <2>4, <2>5, <2>6, <2>7, <2>8, <2>9, <2>10
    DEF Next, Worker, WorkerCrash, StartJob, MarkBatchRunning, ReadBatch,
        CountRows, FinalizeBatch, JobDone, JobFailed, Leave, Goto, Request,
        ReadRow, Rollback, EnqueueExport, RequestCrash, Retry, ResetBatch,
        EnqueueRetry, vars
<1>3. QED
  BY <1>1, <1>2, ExportTypeCorrect, PTL DEF Spec, Backed

(***************************************************************************)
(* One issue. When the search knows every issue, the worker posts only     *)
(* after a search that found none, and nobody else posts.                  *)
(***************************************************************************)
OneIssue ==
  ~SearchLag =>
    /\ \A f \in Findings : issues[f] <= 1
    /\ \A f \in Findings : issues[f] > 0 => indexed[f]
    /\ pc = "post" => issues[item] = 0

\* At most one issue per finding, whatever is lost, retried or repeated.
THEOREM AtMostOneIssue == Spec => []OneIssuePerFinding
<1>1. Init => OneIssue
  BY DEF Init, OneIssue
<1>2. TypeInvariant /\ OneIssue /\ [Next]_vars => OneIssue'
  <2> SUFFICES ASSUME TypeInvariant, OneIssue, [Next]_vars, ~SearchLag
               PROVE  OneIssue'
    BY DEF OneIssue
  <2> USE DEF OneIssue, TypeInvariant, GitHubTypes
  <2>1. CASE SearchAgain
    BY <2>1 DEF SearchAgain, Ask, Errors, github, WorkerTypes
  <2>2. CASE Post
    <3>1. item \in Findings
      BY <2>2 DEF Post, WorkerTypes
    <3>2. CASE OpenIssue
      <4>1. /\ indexed' = [indexed EXCEPT ![item] = TRUE]
            /\ issues' = [issues EXCEPT ![item] = 1]
        BY <2>2, <3>1, <3>2 DEF Post, OpenIssue
      <4>2. pc' # "post"
        BY <2>2 DEF Post, Errors
      <4>3. QED
        BY <3>1, <4>1, <4>2
    <3>3. CASE ~OpenIssue
      BY <2>2, <3>3 DEF Post, Errors, github
    <3>4. QED
      BY <3>2, <3>3
  <2>3. ASSUME NEW f \in Findings, Index(f) PROVE OneIssue'
    BY <2>3 DEF Index, worker
  <2>4. CASE UNCHANGED github /\ pc' # "post"
    BY <2>4 DEF github
  <2>5. CASE UNCHANGED <<github, worker>>
    BY <2>5 DEF github, worker
  <2>6. QED
    BY <2>1, <2>2, <2>3, <2>4, <2>5
    DEF Next, Worker, WorkerCrash, StartJob, MarkBatchRunning, ReadBatch,
        MarkCreating, Search, Ask, Errors, MarkSkipped, MarkCreated,
        MarkFailed, MarkItem, RecordUsage, CountRows, FinalizeBatch, JobDone,
        JobFailed, Leave, Goto, Request, ReadRow, Commit, Rollback,
        EnqueueExport, RequestCrash, Retry, ResetFailedRows, ResetBatch,
        EnqueueRetry, vars
<1>3. OneIssue => OneIssuePerFinding
  BY DEF OneIssue, OneIssuePerFinding
<1>4. QED
  BY <1>1, <1>2, <1>3, ExportTypeCorrect, PTL DEF Spec

-----------------------------------------------------------------------------
(***************************************************************************)
(* Finished batches, when nobody retries. A batch is finished by its own   *)
(* job only, a job belongs to a batch that is committed, and while a job   *)
(* runs every row it has still to write belongs to an unfinished batch:    *)
(* its own, or one that took the row over and has to wait for the worker.  *)
(***************************************************************************)
AtItem == {"search", "search-again", "post", "skip!", "created!"} \cup Errors

InLoop == AtItem \cup {"usage!", "next", "finalize!"}

Settled(f) == row[f] \in {"CREATED", "FAILED", "SKIPPED"}

Unfinished(f) == owner[f] \in Requests => batch[owner[f]] \notin FinishedBatch

NotYetCommitted ==
  \A r \in Requests : requestPc[r] = "reading" =>
    /\ batch[r] = Absent /\ job[r] = "none"
    /\ \A f \in Findings : owner[f] # r

LoopGoesOn ==
  /\ pc \in InLoop \cup {"read", "job-failed"} =>
       batch[current] \notin FinishedBatch
  /\ pc \in InLoop =>
       /\ \A f \in left : Unfinished(f)
       /\ \A f \in Findings :
            owner[f] = current /\ f \notin left
              /\ ~(pc \in AtItem /\ f = item) => Settled(f)
  /\ pc \in AtItem => Unfinished(item)
  /\ pc = "finalize!" =>
       /\ left = {}
       /\ tally.failed = 0 =>
            \A f \in Findings : owner[f] = current => row[f] # "FAILED"

SettledInv == RowsSettled /\ NotYetCommitted /\ LoopGoesOn

\* A count of zero failed rows means that there is none.
LEMMA NoRowsCounted ==
  ASSUME NEW status, OwnRows(status) = 0
  PROVE  \A f \in Findings : owner[f] = current => row[f] # status
<1>1. IsFiniteSet({f \in Findings : owner[f] = current /\ row[f] = status})
  BY FS_Subset, ExportAssumption
<1>2. {f \in Findings : owner[f] = current /\ row[f] = status} = {}
  BY <1>1, FS_EmptySet DEF OwnRows
<1>3. QED
  BY <1>2

\* Steps of the worker that write a row.
LEMMA ItemStepsSettle ==
  ASSUME TypeInvariant, SettledInv,
         MarkCreating \/ MarkSkipped \/ MarkCreated \/ MarkFailed
  PROVE  SettledInv'
<1> USE DEF SettledInv, TypeInvariant, RowTypes, WorkerTypes
<1>1. CASE MarkCreating
  <2>1. PICK f \in left : /\ item' = f
                          /\ left' = left \ {f}
                          /\ row' = [row EXCEPT ![f] = "CREATING"]
    BY <1>1 DEF MarkCreating
  <2>2. pc = "next" /\ pc' = "search" /\ f \in Findings /\ Unfinished(f)
    BY <1>1, <2>1 DEF MarkCreating, Goto, LoopGoesOn, InLoop
  <2>3. UNCHANGED <<batches, owner, current, tally, job, requests>>
    BY <1>1 DEF MarkCreating, queue
  <2>4. RowsSettled'
    BY <2>1, <2>2, <2>3 DEF RowsSettled, Unfinished, batches
  <2>5. NotYetCommitted'
    BY <2>3 DEF NotYetCommitted, batches, requests
  <2>6. LoopGoesOn'
    BY <2>1, <2>2, <2>3 DEF LoopGoesOn, InLoop, AtItem, Errors, Unfinished,
                            Settled, batches
  <2>7. QED
    BY <2>4, <2>5, <2>6
<1>2. CASE MarkSkipped \/ MarkCreated \/ MarkFailed
  <2>1. PICK status \in {"SKIPPED", "CREATED", "FAILED"} :
          row' = [row EXCEPT ![item] = status]
    BY <1>2 DEF MarkSkipped, MarkCreated, MarkFailed, MarkItem
  <2>2. /\ pc \in AtItem /\ pc' \in {"next", "usage!", "job-failed"}
        /\ item \in Findings /\ Unfinished(item)
    BY <1>2 DEF MarkSkipped, MarkCreated, MarkFailed, MarkItem, Goto, AtItem,
                Errors, LoopGoesOn
  <2>3. UNCHANGED <<batches, owner, current, left, item, tally, job, requests>>
    BY <1>2 DEF MarkSkipped, MarkCreated, MarkFailed, MarkItem, queue
  <2>4. RowsSettled'
    <3> SUFFICES ASSUME NEW b \in Requests, NEW f \in Findings, owner[f] = b,
                        batch[b] \in FinishedBatch
                 PROVE  row'[f] = row[f]
      BY <2>3 DEF RowsSettled, batches, FinishedBatch
    <3>1. f # item
      BY <2>2 DEF Unfinished
    <3>2. QED
      BY <2>1, <2>2, <3>1
  <2>5. NotYetCommitted'
    BY <2>3 DEF NotYetCommitted, batches, requests
  <2>6. LoopGoesOn'
    BY <2>1, <2>2, <2>3 DEF LoopGoesOn, InLoop, AtItem, Errors, Unfinished,
                            Settled, batches
  <2>7. QED
    BY <2>4, <2>5, <2>6
<1>3. QED
  BY <1>1, <1>2

\* Steps of the worker that write no row.
LEMMA OtherStepsSettle ==
  ASSUME TypeInvariant, SettledInv, Worker \/ WorkerCrash, UNCHANGED rows
  PROVE  SettledInv'
<1> USE DEF SettledInv, TypeInvariant, RowTypes, WorkerTypes, rows
<1>1. ASSUME NEW b \in Requests, StartJob(b) PROVE SettledInv'
  BY <1>1 DEF StartJob, RowsSettled, NotYetCommitted, LoopGoesOn,
              InLoop, AtItem, Errors, batches, requests, QueueTypes
<1>2. CASE MarkBatchRunning
  BY <1>2 DEF MarkBatchRunning, Goto, RowsSettled, FinishedBatch,
              NotYetCommitted, LoopGoesOn, InLoop, AtItem, Errors, queue,
              requests
<1>3. CASE ReadBatch
  BY <1>3 DEF ReadBatch, Goto, Exported, RowsSettled, Unfinished,
              Settled, NotYetCommitted, LoopGoesOn, InLoop, AtItem, Errors,
              batches, queue, requests
<1>4. CASE Search \/ SearchAgain \/ Post \/ RecordUsage
  <2>1. UNCHANGED <<batches, queue, current, left, item, tally, requests>>
    BY <1>4 DEF Search, SearchAgain, Ask, Post, RecordUsage
  <2>2. \/ pc \in AtItem /\ pc' \in AtItem
        \/ pc = "usage!" /\ pc' = "next"
    BY <1>4 DEF Search, SearchAgain, Ask, Post, RecordUsage, Goto, AtItem,
                Errors
  <2>3. QED
    BY <2>1, <2>2 DEF RowsSettled, Unfinished, Settled,
      NotYetCommitted, LoopGoesOn, InLoop, AtItem, Errors, batches, queue,
      requests
<1>5. CASE CountRows
  <2>1. /\ pc = "next" /\ pc' = "finalize!" /\ left = {}
        /\ tally'.failed = OwnRows("FAILED")
        /\ UNCHANGED <<batches, queue, current, left, item, requests>>
    BY <1>5 DEF CountRows, Goto
  <2>2. tally'.failed = 0 =>
          \A f \in Findings : owner[f] = current => row[f] # "FAILED"
    BY <2>1, NoRowsCounted
  <2>3. QED
    BY <2>1, <2>2 DEF RowsSettled, Unfinished, Settled,
      NotYetCommitted, LoopGoesOn, InLoop, AtItem, Errors, batches, queue,
      requests
<1>6. CASE FinalizeBatch
  <2>1. /\ pc = "finalize!" /\ pc' = "job-done"
        /\ batch' = [batch EXCEPT ![current] = Outcome(tally)]
        /\ UNCHANGED <<queue, current, requests>>
    BY <1>6 DEF FinalizeBatch, Goto
  <2>2. \A f \in Findings : owner[f] = current =>
          Settled(f) /\ (tally.failed = 0 => row[f] # "FAILED")
    BY <2>1 DEF LoopGoesOn, InLoop, AtItem, Errors
  <2>3. Outcome(tally) = "COMPLETED" => tally.failed = 0
    BY DEF Outcome
  <2>4. RowsSettled'
    BY <2>1, <2>2, <2>3 DEF RowsSettled, Settled
  <2>5. NotYetCommitted'
    BY <2>1 DEF NotYetCommitted, queue, requests
  <2>6. LoopGoesOn'
    BY <2>1 DEF LoopGoesOn, InLoop, AtItem, Errors
  <2>7. QED
    BY <2>4, <2>5, <2>6
<1>7. CASE JobDone \/ JobFailed \/ WorkerCrash
  <2>1. /\ pc # "idle" /\ pc' = "idle"
        /\ UNCHANGED <<batches, requests>>
        /\ \E state : job' = [job EXCEPT ![current] = state]
    BY <1>7 DEF JobDone, JobFailed, WorkerCrash, Leave
  <2>2. QED
    BY <2>1 DEF RowsSettled, NotYetCommitted, LoopGoesOn, InLoop,
      AtItem, Errors, batches, requests, QueueTypes
<1>8. CASE MarkCreating \/ MarkSkipped \/ MarkCreated \/ MarkFailed
  BY <1>8, ItemStepsSettle
<1>9. QED
  BY <1>1, <1>2, <1>3, <1>4, <1>5, <1>6, <1>7, <1>8 DEF Worker

\* A commit takes rows over for a batch that no job works for yet.
LEMMA RequestStepsSettle ==
  ASSUME TypeInvariant, SettledInv, NEW r \in Requests,
         Request(r) \/ RequestCrash(r)
  PROVE  SettledInv'
<1> USE DEF SettledInv, TypeInvariant, RowTypes, WorkerTypes, RequestTypes
<1>1. CASE Commit(r)
  <2>1. /\ batch' = [batch EXCEPT ![r] = "QUEUED"]
        /\ \A f \in Findings : f \notin Selected[r] =>
             owner'[f] = owner[f] /\ row'[f] = row[f]
        /\ \A f \in Selected[r] : owner'[f] = r
        /\ requestPc' = [requestPc EXCEPT ![r] = "enqueue"]
        /\ UNCHANGED <<queue, worker>>
    BY <1>1, ExportAssumption DEF Commit
  <2>2. requestPc[r] = "reading" /\ job[r] = "none"
    BY <1>1 DEF Commit, ReadAll, NotYetCommitted
  <2>3. pc # "idle" => current # r
    BY <2>2
  <2>4. RowsSettled'
    <3>1. SUFFICES ASSUME NEW b \in Requests, NEW f \in Findings,
                          owner'[f] = b
                   PROVE  /\ batch'[b] \in FinishedBatch =>
                               row'[f] \in {"CREATED", "FAILED", "SKIPPED"}
                          /\ batch'[b] = "COMPLETED" => row'[f] # "FAILED"
      BY DEF RowsSettled
    <3>2. CASE b = r
      <4>1. batch'[b] = "QUEUED"
        BY <2>1, <3>2
      <4>2. QED
        BY <4>1 DEF FinishedBatch
    <3>3. CASE b # r
      <4>1. f \notin Selected[r]
        BY <2>1, <3>1, <3>3
      <4>2. owner[f] = b /\ row'[f] = row[f] /\ batch'[b] = batch[b]
        BY <2>1, <3>1, <3>3, <4>1
      <4>3. QED
        BY <4>2 DEF RowsSettled
    <3>4. QED
      BY <3>2, <3>3
  <2>5. NotYetCommitted'
    BY <2>1 DEF NotYetCommitted, queue
  <2>6. \A f \in Findings : Unfinished(f) => Unfinished(f)'
    BY <2>1 DEF Unfinished, FinishedBatch
  <2>7. \A f \in Findings : pc # "idle" /\ owner'[f] = current =>
          owner[f] = current /\ row'[f] = row[f]
    BY <2>1, <2>3
  <2>8. pc # "idle" => batch'[current] = batch[current]
    BY <2>1, <2>3
  <2>9. LoopGoesOn'
    <3> USE DEF InLoop, AtItem, Errors, worker
    <3>1. pc \in AtItem => item \in Findings
      OBVIOUS
    <3>2. QED
      BY <2>1, <2>6, <2>7, <2>8, <3>1 DEF LoopGoesOn, Settled
  <2>10. QED
    BY <2>4, <2>5, <2>9
<1>2. CASE ~Commit(r)
  <2>1. /\ UNCHANGED <<batches, rows, worker>>
        /\ \A q \in Requests :
             requestPc'[q] = "reading" => requestPc[q] = "reading" /\ job'[q] = job[q]
    BY <1>2 DEF Request, ReadRow, Rollback, EnqueueExport, RequestCrash,
                Enqueued, queue, QueueTypes
  <2>2. QED
    BY <2>1 DEF RowsSettled, NotYetCommitted, LoopGoesOn,
      Unfinished, Settled, batches, rows, worker
<1>3. QED
  BY <1>1, <1>2

\* It holds until somebody retries.
LEMMA AlwaysSettled == Spec => [](Unretried => SettledInv)
<1> DEFINE Inv == Unretried => SettledInv
<1>1. Init => Inv
  BY ExportAssumption DEF Init, SettledInv, RowsSettled, FinishedBatch, Absent,
     NotYetCommitted, LoopGoesOn, InLoop, AtItem, Errors
<1>2. TypeInvariant /\ Inv /\ [Next]_vars => Inv'
  <2> SUFFICES ASSUME TypeInvariant, Inv, [Next]_vars, Unretried'
               PROVE  SettledInv'
    OBVIOUS
  <2>1. ASSUME NEW x \in Retries, Retry(x)
        PROVE  FALSE
    <3>1. retryPc \in [Retries -> {"idle", "batch!", "enqueue", "done"}]
      BY DEF TypeInvariant, RequestTypes
    <3>2. retryPc'[x] # "idle"
      BY <2>1, <3>1 DEF Retry, ResetFailedRows, ResetBatch, EnqueueRetry
    <3>3. QED
      BY <3>2 DEF Unretried
  <2>2. UNCHANGED retries
    BY <2>1 DEF Next, Worker, WorkerCrash, StartJob, MarkBatchRunning,
      ReadBatch, MarkCreating, Search, SearchAgain, Ask, Post, MarkSkipped,
      MarkCreated, MarkFailed, MarkItem, RecordUsage, CountRows,
      FinalizeBatch, JobDone, JobFailed, Request, ReadRow, Commit, Rollback,
      EnqueueExport, RequestCrash, Index, vars
  <2>3. SettledInv
    BY <2>2 DEF Unretried, retries
  <2>4. CASE Worker \/ WorkerCrash
    <3>1. \/ MarkCreating \/ MarkSkipped \/ MarkCreated \/ MarkFailed
          \/ UNCHANGED rows
      BY <2>4 DEF Worker, WorkerCrash, StartJob, MarkBatchRunning, ReadBatch,
                  Search, SearchAgain, Ask, Post, RecordUsage, CountRows,
                  FinalizeBatch, JobDone, JobFailed
    <3>2. QED
      BY <2>3, <2>4, <3>1, ItemStepsSettle, OtherStepsSettle
  <2>5. ASSUME NEW r \in Requests, Request(r) \/ RequestCrash(r)
        PROVE  SettledInv'
    BY <2>3, <2>5, RequestStepsSettle
  <2>6. CASE UNCHANGED <<batches, rows, worker, requests, job>>
    BY <2>3, <2>6 DEF SettledInv, RowsSettled, NotYetCommitted,
      LoopGoesOn, Unfinished, Settled, batches, rows, worker, requests
  <2>7. QED
    BY <2>1, <2>4, <2>5, <2>6 DEF Next, Index, vars, queue
<1>3. QED
  BY <1>1, <1>2, ExportTypeCorrect, PTL DEF Spec

\* Until somebody retries, no finished batch has a row still to be done.
THEOREM FinishedMeansSettled == Spec => []FinishedBatchIsSettled
<1>1. (Unretried => SettledInv) => FinishedBatchIsSettled
  BY DEF SettledInv, FinishedBatchIsSettled
<1>2. QED
  BY <1>1, AlwaysSettled, PTL

-----------------------------------------------------------------------------
(***************************************************************************)
(* One batch. Its rows are the selected ones and nobody takes them over, so*)
(* a row that was exported stays so; and it is exported again only after an*)
(* issue that no row tells of, for which an answer or a process was lost.  *)
(***************************************************************************)
OneBatch == \A q, r \in Requests : q = r

\* What there is of a batch that was never committed.
Uncommitted ==
  \A r \in Requests :
    /\ requestPc[r] = "reading" => batch[r] = Absent
    /\ batch[r] = Absent =>
         /\ job[r] = "none" /\ requestPc[r] # "enqueue"
         /\ \A x \in Retries : retryPc[x] \in {"batch!", "enqueue"} => retryOf[x] # r
         /\ \A f \in Findings : row[f] = Absent /\ owner[f] = NoBatch
    /\ batch[r] # Absent =>
         \A f \in Findings : owner[f] = r <=> f \in Selected[r]

\* The issues nothing else accounts for than a loss.
Told(f) == Exported(f) \/ (pc = "created!" /\ item = f)

Accounted ==
  /\ \A f \in left : ~Exported(f)
  /\ pc \in AtItem => ~Exported(item) /\ item \notin left
  /\ \A f \in Findings :
       issues[f] <= faults["lost"] + faults["crash"] + (IF Told(f) THEN 1 ELSE 0)

BatchInv == Uncommitted /\ Accounted

LEMMA InitBatch == Init => BatchInv
<1> SUFFICES ASSUME Init PROVE BatchInv
  OBVIOUS
<1>1. Uncommitted
  BY DEF Init, Uncommitted
<1>2. Accounted
  BY DEF Init, Accounted, AtItem, Errors, FaultKinds
<1>3. QED
  BY <1>1, <1>2 DEF BatchInv

\* The worker works for a batch that is there.
LEMMA WorksForABatch ==
  ASSUME TypeInvariant, Uncommitted, pc # "idle"
  PROVE  current \in Requests /\ job[current] = "active" /\ batch[current] # Absent
BY DEF TypeInvariant, WorkerTypes, Uncommitted

\* What the worker does to the batch and the queue.
LEMMA WorkerCommits ==
  ASSUME TypeInvariant, Uncommitted, Worker \/ WorkerCrash
  PROVE  /\ UNCHANGED <<owner, requests, retries>>
         /\ \A r \in Requests : batch'[r] = Absent <=> batch[r] = Absent
         /\ \A r \in Requests : job[r] = "none" => job'[r] = "none"
         /\ UNCHANGED row \/ \E r \in Requests : batch[r] # Absent
<1>1. CASE \E b \in Requests : StartJob(b)
  BY <1>1 DEF StartJob, batches, rows, requests, retries, TypeInvariant, QueueTypes
<1> USE DEF batches, rows, requests, retries, queue
<1>2. CASE MarkBatchRunning \/ FinalizeBatch
  <2>1. /\ current \in Requests /\ batch[current] # Absent
        /\ batch \in [Requests -> FinishedBatch \cup {Absent, "QUEUED", "RUNNING"}]
    BY <1>2, WorksForABatch
    DEF MarkBatchRunning, FinalizeBatch, Goto, TypeInvariant, RowTypes
  <2>2. \E status \in FinishedBatch \cup {"RUNNING"} :
          batch' = [batch EXCEPT ![current] = status]
    BY <1>2 DEF MarkBatchRunning, FinalizeBatch, Outcome, FinishedBatch
  <2>3. Absent \notin FinishedBatch \cup {"RUNNING"}
    BY DEF Absent, FinishedBatch
  <2>4. \A r \in Requests : batch'[r] = Absent <=> batch[r] = Absent
    BY <2>1, <2>2, <2>3
  <2>5. QED
    BY <1>2, <2>4 DEF MarkBatchRunning, FinalizeBatch
<1>3. CASE JobDone \/ JobFailed \/ WorkerCrash
  <2>1. current \in Requests /\ job[current] = "active"
    BY <1>3, WorksForABatch DEF JobDone, JobFailed, WorkerCrash
  <2>2. \E state : job' = [job EXCEPT ![current] = state]
    BY <1>3 DEF JobDone, JobFailed, WorkerCrash
  <2>3. \A r \in Requests : job[r] = "none" => job'[r] = "none"
    BY <2>1, <2>2 DEF TypeInvariant, QueueTypes
  <2>4. QED
    BY <1>3, <2>3 DEF JobDone, JobFailed, WorkerCrash
<1>4. CASE MarkCreating \/ MarkSkipped \/ MarkCreated \/ MarkFailed
  <2>1. current \in Requests /\ batch[current] # Absent
    BY <1>4, WorksForABatch
    DEF MarkCreating, MarkSkipped, MarkCreated, MarkFailed, MarkItem, Goto
  <2>2. UNCHANGED <<owner, requests, retries, batch, job>>
    BY <1>4 DEF MarkCreating, MarkSkipped, MarkCreated, MarkFailed, MarkItem
  <2>3. QED
    BY <2>1, <2>2
<1>5. CASE \/ ReadBatch \/ Search \/ SearchAgain \/ Post \/ RecordUsage \/ CountRows
  BY <1>5 DEF ReadBatch, Search, SearchAgain, Ask, Post, RecordUsage, CountRows
<1>6. QED
  BY <1>1, <1>2, <1>3, <1>4, <1>5 DEF Worker

LEMMA UncommittedStays ==
  ASSUME OneBatch, TypeInvariant, Uncommitted, [Next]_vars
  PROVE  Uncommitted'
<1> USE DEF batches, rows, queue, requests, retries
<1>1. CASE Worker \/ WorkerCrash
  <2>1. \A r \in Requests : batch[r] = Absent => row' = row
    BY <1>1, WorkerCommits DEF OneBatch
  <2>2. QED
    BY <1>1, <2>1, WorkerCommits DEF Uncommitted
<1>2. ASSUME NEW r \in Requests, Commit(r) PROVE Uncommitted'
  <2>1. /\ requestPc[r] = "reading" /\ batch' = [batch EXCEPT ![r] = "QUEUED"]
        /\ owner' = [f \in Findings |-> IF f \in Selected[r] THEN r ELSE owner[f]]
        /\ requestPc' = [requestPc EXCEPT ![r] = "enqueue"]
    BY <1>2 DEF Commit, ReadAll
  <2>2. /\ \A q \in Requests : batch'[q] = "QUEUED" /\ requestPc'[q] = "enqueue"
        /\ \A f \in Findings : owner'[f] = r <=> f \in Selected[r]
    BY <2>1, ExportAssumption DEF OneBatch, TypeInvariant, RowTypes, RequestTypes, Uncommitted
  <2>3. QED
    BY <2>2 DEF OneBatch, Uncommitted, Absent
<1>3. ASSUME NEW r \in Requests, EnqueueExport(r) PROVE Uncommitted'
  <2>1. \A q \in Requests : batch[q] = Absent => job'[q] = job[q] /\ q # r
    BY <1>3 DEF EnqueueExport, Enqueued, Uncommitted, TypeInvariant, QueueTypes
  <2>2. QED
    BY <1>3, <2>1 DEF EnqueueExport, Uncommitted, TypeInvariant, RequestTypes
<1>4. ASSUME NEW r \in Requests, \/ \E f \in Findings : ReadRow(r, f)
                                 \/ Rollback(r) \/ RequestCrash(r)
      PROVE  Uncommitted'
  BY <1>4 DEF ReadRow, Rollback, RequestCrash, Uncommitted, TypeInvariant, RequestTypes
<1>5. ASSUME NEW x \in Retries, ResetFailedRows(x) PROVE Uncommitted'
  <2>1. PICK b \in Requests :
          /\ batch[b] # Absent
          /\ retryOf' = [retryOf EXCEPT ![x] = b]
    BY <1>5 DEF ResetFailedRows
  <2>2. \A q \in Requests : batch[q] # Absent
    BY <2>1 DEF OneBatch
  <2>3. QED
    BY <1>5, <2>2 DEF ResetFailedRows, Uncommitted
<1>6. ASSUME NEW x \in Retries, ResetBatch(x) \/ EnqueueRetry(x) PROVE Uncommitted'
  <2>1. retryOf[x] \in Requests /\ batch[retryOf[x]] # Absent
    BY <1>6 DEF ResetBatch, EnqueueRetry, TypeInvariant, RequestTypes, Uncommitted
  <2>2. \A q \in Requests : batch[q] # Absent
    BY <2>1 DEF OneBatch
  <2>3. \A q \in Requests : batch'[q] # Absent
    BY <1>6, <2>2 DEF ResetBatch, EnqueueRetry, TypeInvariant, RowTypes, Absent
  <2>4. UNCHANGED <<owner, requestPc>>
    BY <1>6 DEF ResetBatch, EnqueueRetry
  <2>5. QED
    BY <2>2, <2>3, <2>4 DEF Uncommitted
<1>7. CASE UNCHANGED <<batches, rows, queue, requests, retries>>
  BY <1>7 DEF Uncommitted
<1>8. QED
  BY <1>1, <1>2, <1>3, <1>4, <1>5, <1>6, <1>7 DEF Next, Request, Retry, Index, vars

\* Faults are counted and never taken back.
LEMMA FaultsGrow ==
  ASSUME TypeInvariant, [Next]_vars
  PROVE  /\ faults \in [FaultKinds -> Nat] /\ faults' \in [FaultKinds -> Nat]
         /\ \A k \in FaultKinds : faults'[k] >= faults[k]
<1>1. faults \in [FaultKinds -> Nat]
  BY DEF TypeInvariant
<1>2. CASE UNCHANGED faults
  BY <1>1, <1>2
<1>3. ASSUME NEW k \in FaultKinds, Fault(k)
      PROVE  /\ faults' \in [FaultKinds -> Nat]
             /\ \A j \in FaultKinds : faults'[j] >= faults[j]
  BY <1>1, <1>3 DEF Fault
<1>4. UNCHANGED faults \/ \E k \in FaultKinds : Fault(k)
  BY DEF Next, Worker, WorkerCrash, StartJob, MarkBatchRunning, ReadBatch,
     MarkCreating, Search, SearchAgain, Ask, Post, MarkSkipped, MarkCreated,
     MarkFailed, MarkItem, RecordUsage, CountRows, FinalizeBatch, JobDone,
     JobFailed, Request, ReadRow, Commit, Rollback, EnqueueExport, RequestCrash,
     Retry, ResetFailedRows, ResetBatch, EnqueueRetry, Index, vars, FaultKinds
<1>5. QED
  BY <1>1, <1>2, <1>3, <1>4

\* Where no issue is opened, what was told must stay told, or a loss be counted.
LEMMA NoIssueOpened ==
  ASSUME TypeInvariant, Accounted, [Next]_vars, UNCHANGED issues,
         \A f \in Findings : Told(f) => Told(f)' \/ faults'["crash"] > faults["crash"]
  PROVE  \A f \in Findings :
           issues'[f] <= faults'["lost"] + faults'["crash"]
                           + (IF Told(f)' THEN 1 ELSE 0)
<1> SUFFICES ASSUME NEW f \in Findings
             PROVE  issues[f] <= faults'["lost"] + faults'["crash"]
                                   + (IF Told(f)' THEN 1 ELSE 0)
  OBVIOUS
<1>1. /\ issues[f] \in Nat /\ faults["lost"] \in Nat /\ faults["crash"] \in Nat
      /\ faults'["lost"] \in Nat /\ faults'["crash"] \in Nat
      /\ faults'["lost"] >= faults["lost"] /\ faults'["crash"] >= faults["crash"]
  BY FaultsGrow DEF TypeInvariant, GitHubTypes, FaultKinds
<1>2. issues[f] <= faults["lost"] + faults["crash"] + (IF Told(f) THEN 1 ELSE 0)
  BY DEF Accounted
<1>3. CASE ~Told(f) \/ Told(f)'
  BY <1>1, <1>2, <1>3
<1>4. CASE Told(f) /\ ~Told(f)'
  <2>1. faults'["crash"] > faults["crash"]
    BY <1>4
  <2>2. QED
    BY <1>1, <1>2, <1>4, <2>1
<1>5. QED
  BY <1>3, <1>4

\* The steps of the worker that write no row and open no issue.
LEMMA QuietAccounts ==
  ASSUME TypeInvariant, Accounted, [Next]_vars, UNCHANGED <<rows, issues>>,
         \/ UNCHANGED worker
         \/ /\ UNCHANGED left \/ ReadBatch \/ left' = {}
            /\ \/ pc \in AtItem \ {"created!"} /\ pc' \in AtItem /\ UNCHANGED <<item, left>>
               \/ pc' \notin AtItem
            /\ pc = "created!" => faults'["crash"] > faults["crash"]
  PROVE  Accounted'
<1>1. \A f \in Findings : Exported(f)' <=> Exported(f)
  BY DEF Exported, rows
<1>2. left' \subseteq Findings /\ \A f \in left' : ~Exported(f)'
  BY <1>1 DEF TypeInvariant, WorkerTypes, Accounted, ReadBatch, worker
<1>3. pc' \in AtItem => ~Exported(item)' /\ item' \notin left'
  BY DEF Accounted, Exported, rows, worker
<1>4. \A f \in Findings : Told(f) => Told(f)' \/ faults'["crash"] > faults["crash"]
  BY <1>1 DEF Told, worker
<1>5. QED
  BY <1>2, <1>3, <1>4, NoIssueOpened DEF Accounted

LEMMA PostAccounts ==
  ASSUME TypeInvariant, Accounted, [Next]_vars, Post
  PROVE  Accounted'
<1>1. /\ pc = "post" /\ item \in Findings /\ pc' \in {"created!", "fail!", "fail-retry!"}
      /\ UNCHANGED <<rows, left, item>>
  BY DEF Post, Errors, TypeInvariant, WorkerTypes
<1>2. /\ \A f \in Findings : Exported(f)' <=> Exported(f)
      /\ ~Exported(item) /\ item \notin left /\ ~Told(item)
  BY <1>1 DEF Exported, rows, Accounted, AtItem, Told
<1>3. (\A f \in left : ~Exported(f))'
  BY <1>1, <1>2 DEF Accounted, TypeInvariant, WorkerTypes
<1>4. (pc \in AtItem => ~Exported(item) /\ item \notin left)'
  BY <1>1, <1>2 DEF Exported, rows
<1>5. ASSUME NEW f \in Findings
      PROVE  issues'[f] <= faults'["lost"] + faults'["crash"]
                             + (IF Told(f)' THEN 1 ELSE 0)
  <2>1. /\ issues[f] \in Nat /\ faults["lost"] \in Nat /\ faults["crash"] \in Nat
        /\ faults'["lost"] \in Nat /\ faults'["crash"] \in Nat
        /\ faults'["lost"] >= faults["lost"] /\ faults'["crash"] >= faults["crash"]
    BY FaultsGrow DEF TypeInvariant, GitHubTypes, FaultKinds
  <2>2. issues[f] <= faults["lost"] + faults["crash"] + (IF Told(f) THEN 1 ELSE 0)
    BY DEF Accounted
  <2>3. CASE f # item
    <3>1. issues'[f] = issues[f]
      BY <2>3 DEF Post, OpenIssue, github, TypeInvariant, GitHubTypes
    <3>2. Told(f) => Told(f)'
      BY <1>1, <1>2 DEF Told
    <3>3. QED
      BY <2>1, <2>2, <3>1, <3>2
  <2>4. CASE f = item /\ OpenIssue /\ pc' = "created!"
    <3>1. issues'[f] = issues[f] + 1
      BY <1>1, <2>4 DEF OpenIssue, TypeInvariant, GitHubTypes
    <3>2. ~Told(f) /\ Told(f)'
      BY <1>1, <1>2, <2>4 DEF Told
    <3>3. QED
      BY <2>1, <2>2, <3>1, <3>2
  <2>5. CASE f = item /\ OpenIssue /\ Fault("lost")
    <3>1. issues'[f] = issues[f] + 1
      BY <1>1, <2>5 DEF OpenIssue, TypeInvariant, GitHubTypes
    <3>2. ~Told(f)
      BY <1>2, <2>5
    <3>3. faults'["lost"] = faults["lost"] + 1
      BY <2>5 DEF Fault, TypeInvariant, FaultKinds
    <3>4. QED
      BY <2>1, <2>2, <3>1, <3>2, <3>3
  <2>6. CASE f = item /\ UNCHANGED github
    <3>1. issues'[f] = issues[f] /\ ~Told(f)
      BY <1>2, <2>6 DEF github
    <3>2. QED
      BY <2>1, <2>2, <3>1
  <2>7. QED
    BY <2>3, <2>4, <2>5, <2>6 DEF Post
<1>6. QED
  BY <1>3, <1>4, <1>5 DEF Accounted

LEMMA ItemAccounts ==
  ASSUME TypeInvariant, Accounted, [Next]_vars,
         MarkCreating \/ MarkSkipped \/ MarkCreated \/ MarkFailed
  PROVE  Accounted'
<1>t. /\ row \in [Findings -> RowStatus \cup {Absent}] /\ url \in [Findings -> BOOLEAN]
      /\ left \subseteq Findings
  BY DEF TypeInvariant, RowTypes, WorkerTypes
<1>1. CASE MarkCreating
  <2>1. PICK f \in left : /\ item' = f
                          /\ left' = left \ {f}
                          /\ row' = [row EXCEPT ![f] = "CREATING"]
    BY <1>1 DEF MarkCreating
  <2>2. pc = "next" /\ pc' = "search" /\ f \in Findings /\ ~Exported(f)
        /\ UNCHANGED <<url, issues>>
    BY <1>1, <1>t, <2>1 DEF MarkCreating, Goto, Accounted, github
  <2>3. \A g \in Findings : Exported(g)' <=> Exported(g)
    BY <1>t, <2>1, <2>2 DEF Exported
  <2>4. ~Exported(item)' /\ item' \notin left'
    BY <1>t, <2>1, <2>2 DEF Exported
  <2>5. \A g \in Findings : Told(g) => Told(g)'
    BY <2>2, <2>3 DEF Told
  <2>6. (\A g \in left : ~Exported(g))'
    BY <1>t, <2>1, <2>3 DEF Accounted
  <2>7. QED
    BY <2>2, <2>4, <2>5, <2>6, NoIssueOpened DEF Accounted
<1>2. CASE MarkSkipped \/ MarkCreated \/ MarkFailed
  <2>1. /\ pc \in AtItem /\ pc' \notin AtItem /\ item \in Findings
        /\ UNCHANGED <<left, item, issues>>
        /\ \A f \in Findings \ {item} : row'[f] = row[f] /\ url'[f] = url[f]
    BY <1>2, <1>t DEF MarkSkipped, MarkCreated, MarkFailed, MarkItem, Goto, AtItem,
       Errors, TypeInvariant, WorkerTypes, github
  <2>2. \A f \in Findings \ {item} : Exported(f)' <=> Exported(f)
    BY <2>1 DEF Exported
  <2>3. pc = "created!" => Exported(item)'
    BY <1>2, <1>t, <2>1 DEF MarkSkipped, MarkCreated, MarkFailed, MarkItem, Goto, Exported
  <2>4. item \notin left /\ ~Exported(item)
    BY <2>1 DEF Accounted
  <2>5. \A f \in Findings : Told(f) => Told(f)'
    BY <2>1, <2>2, <2>3, <2>4 DEF Told
  <2>6. (\A f \in left : ~Exported(f))'
    BY <1>t, <2>1, <2>2, <2>4 DEF Accounted
  <2>7. QED
    BY <2>1, <2>5, <2>6, NoIssueOpened DEF Accounted
<1>3. QED
  BY <1>1, <1>2

LEMMA AccountedStays ==
  ASSUME OneBatch, TypeInvariant, Uncommitted, Accounted, [Next]_vars
  PROVE  Accounted'
<1> USE DEF github, rows
<1>1. CASE MarkCreating \/ MarkSkipped \/ MarkCreated \/ MarkFailed \/ Post
  BY <1>1, ItemAccounts, PostAccounts
<1>2. CASE \/ \E b \in Requests : StartJob(b)
           \/ MarkBatchRunning \/ CountRows \/ FinalizeBatch \/ RecordUsage
           \/ JobDone \/ JobFailed \/ ReadBatch
  BY <1>2, QuietAccounts DEF StartJob, MarkBatchRunning, CountRows, FinalizeBatch,
     RecordUsage, JobDone, JobFailed, ReadBatch, Leave, Goto, AtItem, Errors
<1>3. CASE Search \/ SearchAgain
  BY <1>3, QuietAccounts DEF Search, SearchAgain, Ask, AtItem, Errors
<1>4. CASE WorkerCrash
  <2>1. faults'["crash"] > faults["crash"]
    BY <1>4 DEF WorkerCrash, Fault, TypeInvariant, FaultKinds
  <2>2. QED
    BY <1>4, <2>1, QuietAccounts DEF WorkerCrash, Leave, AtItem, Errors
<1>5. ASSUME NEW r \in Requests, Commit(r) PROVE Accounted'
  <2>1. requestPc[r] = "reading" /\ UNCHANGED <<issues, url, worker>>
    BY <1>5 DEF Commit, ReadAll
  <2>2. \A q \in Requests : batch[q] = Absent
    BY <2>1 DEF OneBatch, Uncommitted
  <2>3. pc = "idle" /\ \A f \in Findings : row[f] = Absent
    BY <2>1, <2>2, WorksForABatch DEF Uncommitted
  <2>4. \A f \in Findings : row'[f] \in {"QUEUED", Absent}
    BY <1>5, <2>3 DEF Commit
  <2>5. \A f \in Findings : ~Exported(f)'
    BY <2>4 DEF Exported, Absent
  <2>6. \A f \in Findings : ~Told(f)
    BY <2>3 DEF Told, Exported, Absent
  <2>7. QED
    BY <2>1, <2>3, <2>5, <2>6, NoIssueOpened
    DEF Accounted, worker, AtItem, Errors, TypeInvariant, WorkerTypes
<1>6. ASSUME NEW x \in Retries, ResetFailedRows(x) PROVE Accounted'
  <2>1. /\ UNCHANGED <<issues, url, worker>>
        /\ \A f \in Findings : row'[f] = row[f] \/ (row[f] = "FAILED" /\ row'[f] = "QUEUED")
    BY <1>6 DEF ResetFailedRows
  <2>2. \A f \in Findings : (Exported(f)' <=> Exported(f)) /\ (Told(f)' <=> Told(f))
    BY <2>1 DEF Exported, Told, worker
  <2>3. QED
    BY <2>1, <2>2, NoIssueOpened
    DEF Accounted, worker, AtItem, Errors, TypeInvariant, WorkerTypes
<1>7. CASE UNCHANGED <<rows, issues, worker>>
  BY <1>7, QuietAccounts
<1>8. QED
  BY <1>1, <1>2, <1>3, <1>4, <1>5, <1>6, <1>7
  DEF Next, Worker, Request, ReadRow, Rollback, EnqueueExport, RequestCrash, Retry,
      ResetBatch, EnqueueRetry, Index, vars

(***************************************************************************)
(* The counts, until somebody retries.                                     *)
(***************************************************************************)
Sum(t) == t.created + t.failed + t.skipped

Counted ==
  /\ pc = "finalize!" => Sum(tally) = Cardinality(Selected[current])
  /\ \A b \in Requests : batch[b] \in FinishedBatch =>
       Sum(count[b]) = Cardinality(Selected[b])

LEMMA DisjointCounts ==
  ASSUME NEW S, NEW T, IsFiniteSet(S), IsFiniteSet(T), S \cap T = {}
  PROVE  /\ IsFiniteSet(S \cup T)
         /\ Cardinality(S \cup T) = Cardinality(S) + Cardinality(T)
<1>1. Cardinality(S \cap T) = 0
  BY FS_EmptySet
<1>2. Cardinality(S) \in Nat /\ Cardinality(T) \in Nat
  BY FS_CardinalityType
<1>3. /\ IsFiniteSet(S \cup T)
      /\ Cardinality(S \cup T) = Cardinality(S) + Cardinality(T) - Cardinality(S \cap T)
  BY FS_Union, Zenon
<1>4. QED
  BY <1>1, <1>2, <1>3

\* What the three counts count is what there is.
LEMMA CountsAreWhole ==
  ASSUME TypeInvariant, Uncommitted, pc # "idle",
         \A f \in Findings : owner[f] = current => Settled(f)
  PROVE  OwnRows("CREATED") + OwnRows("FAILED") + OwnRows("SKIPPED")
           = Cardinality(Selected[current])
<1> DEFINE Own(s) == {f \in Findings : owner[f] = current /\ row[f] = s}
<1>1. /\ IsFiniteSet(Own("CREATED")) /\ IsFiniteSet(Own("FAILED"))
      /\ IsFiniteSet(Own("SKIPPED"))
  BY FS_Subset, ExportAssumption
<1>2. current \in Requests /\ Selected[current] \subseteq Findings
      /\ \A f \in Findings : owner[f] = current <=> f \in Selected[current]
  BY WorksForABatch, ExportAssumption DEF Uncommitted
<1>3. Selected[current] = (Own("CREATED") \cup Own("FAILED")) \cup Own("SKIPPED")
  BY <1>2 DEF Settled
<1> DEFINE Two == Own("CREATED") \cup Own("FAILED")
<1>4. /\ IsFiniteSet(Two)
      /\ Cardinality(Two) = Cardinality(Own("CREATED")) + Cardinality(Own("FAILED"))
  <2>1. Own("CREATED") \cap Own("FAILED") = {}
    OBVIOUS
  <2> HIDE DEF Own
  <2>2. QED
    BY <1>1, <2>1, DisjointCounts
<1>5. Cardinality(Selected[current]) = Cardinality(Two) + Cardinality(Own("SKIPPED"))
  <2>1. Two \cap Own("SKIPPED") = {}
    OBVIOUS
  <2>2. Selected[current] = Two \cup Own("SKIPPED")
    BY <1>3
  <2> HIDE DEF Own, Two
  <2>3. QED
    BY <1>1, <1>4, <2>1, <2>2, DisjointCounts
<1>6. QED
  BY <1>4, <1>5 DEF OwnRows

LEMMA CountedStays ==
  ASSUME OneBatch, TypeInvariant, SettledInv, Uncommitted, Counted, [Next]_vars,
         UNCHANGED retries
  PROVE  Counted'
<1> USE DEF batches
<1>t. /\ count \in [Requests -> Tally]
      /\ batch \in [Requests -> FinishedBatch \cup {Absent, "QUEUED", "RUNNING"}]
      /\ "QUEUED" \notin FinishedBatch /\ "RUNNING" \notin FinishedBatch
  BY DEF TypeInvariant, RowTypes, FinishedBatch
<1>1. CASE CountRows
  <2>1. /\ pc = "next" /\ pc' = "finalize!" /\ left = {}
        /\ tally' = [created |-> OwnRows("CREATED"), failed |-> OwnRows("FAILED"),
                     skipped |-> OwnRows("SKIPPED")]
        /\ UNCHANGED <<batch, count, current>>
    BY <1>1 DEF CountRows, Goto
  <2>2. \A f \in Findings : owner[f] = current => Settled(f)
    BY <2>1 DEF SettledInv, LoopGoesOn, InLoop, AtItem, Errors
  <2>3. OwnRows("CREATED") + OwnRows("FAILED") + OwnRows("SKIPPED")
          = Cardinality(Selected[current])
    BY <2>1, <2>2, CountsAreWhole
  <2>4. QED
    BY <2>1, <2>3 DEF Counted, Sum
<1>2. CASE FinalizeBatch
  <2>1. /\ pc = "finalize!" /\ pc' = "job-done" /\ current \in Requests
        /\ count' = [count EXCEPT ![current] = tally]
        /\ batch' = [batch EXCEPT ![current] = Outcome(tally)]
    BY <1>2, WorksForABatch DEF FinalizeBatch, Goto
  <2>2. Sum(tally) = Cardinality(Selected[current])
    BY <2>1 DEF Counted
  <2>3. \A b \in Requests :
          IF b = current THEN count'[b] = tally
                         ELSE count'[b] = count[b] /\ batch'[b] = batch[b]
    BY <1>t, <2>1
  <2>4. QED
    BY <2>1, <2>2, <2>3 DEF Counted
<1>3. CASE MarkBatchRunning
  <2>1. /\ pc' = "read" /\ batch' = [batch EXCEPT ![current] = "RUNNING"]
        /\ UNCHANGED count
    BY <1>3 DEF MarkBatchRunning, Goto
  <2>2. QED
    BY <1>t, <2>1 DEF Counted
<1>4. ASSUME NEW r \in Requests, Commit(r) PROVE Counted'
  <2>1. /\ batch' = [batch EXCEPT ![r] = "QUEUED"] /\ UNCHANGED <<count, worker>>
        /\ requestPc[r] = "reading"
    BY <1>4 DEF Commit, ReadAll
  <2>2. QED
    BY <1>t, <2>1 DEF Counted, worker
<1>5. CASE UNCHANGED batches /\ (UNCHANGED worker \/ pc' # "finalize!")
  BY <1>5 DEF Counted, worker
<1>6. ASSUME NEW x \in Retries, ResetBatch(x) PROVE FALSE
  BY <1>6 DEF ResetBatch, retries, TypeInvariant, RequestTypes
<1>7. QED
  BY <1>1, <1>2, <1>3, <1>4, <1>5, <1>6
  DEF Next, Worker, WorkerCrash, StartJob, ReadBatch, MarkCreating, Search,
      SearchAgain, Ask, Errors, Post, MarkSkipped, MarkCreated, MarkFailed,
      MarkItem, RecordUsage, JobDone, JobFailed, Leave, Goto, Request, ReadRow,
      Rollback, EnqueueExport, RequestCrash, Retry, ResetFailedRows,
      EnqueueRetry, Index, vars

\* A retry that has begun does not become one that has not.
LEMMA RetriesGoOn ==
  ASSUME TypeInvariant, [Next]_vars, Unretried'
  PROVE  UNCHANGED retries /\ Unretried
<1>1. ASSUME NEW x \in Retries, Retry(x) PROVE FALSE
  <2>1. retryPc'[x] # "idle"
    BY <1>1 DEF Retry, ResetFailedRows, ResetBatch, EnqueueRetry, TypeInvariant, RequestTypes
  <2>2. QED
    BY <2>1 DEF Unretried
<1>2. UNCHANGED retries
  BY <1>1 DEF Next, Worker, WorkerCrash, StartJob, MarkBatchRunning,
    ReadBatch, MarkCreating, Search, SearchAgain, Ask, Post, MarkSkipped,
    MarkCreated, MarkFailed, MarkItem, RecordUsage, CountRows,
    FinalizeBatch, JobDone, JobFailed, Request, ReadRow, Commit, Rollback,
    EnqueueExport, RequestCrash, Index, vars
<1>3. QED
  BY <1>2 DEF Unretried, retries

\* With one batch, every issue beyond the first is explained by an answer that
\* was lost or a process that died, and until somebody retries the three
\* counts of a finished batch add up to the findings requested
\* (runGitHubExportJob, finalizeGitHubExportBatch).
THEOREM BatchIsAccounted ==
  ASSUME OneBatch
  PROVE  Spec => []ExportsAreAccounted
<1> DEFINE CountInv == Unretried => Counted
           Settling == Unretried => SettledInv
<1>1. Init => BatchInv /\ CountInv
  BY InitBatch DEF Init, Counted, FinishedBatch, Absent
<1>2. TypeInvariant /\ Settling /\ BatchInv /\ CountInv /\ [Next]_vars
        => BatchInv' /\ CountInv'
  <2> SUFFICES ASSUME TypeInvariant, Settling, BatchInv, CountInv, [Next]_vars
               PROVE  BatchInv' /\ CountInv'
    OBVIOUS
  <2>1. BatchInv'
    BY UncommittedStays, AccountedStays DEF BatchInv
  <2>2. CountInv'
    BY RetriesGoOn, CountedStays DEF BatchInv
  <2>3. QED
    BY <2>1, <2>2
<1>3. TypeInvariant /\ BatchInv /\ CountInv => ExportsAreAccounted
  <2> SUFFICES ASSUME TypeInvariant, BatchInv, CountInv PROVE ExportsAreAccounted
    OBVIOUS
  <2>1. DuplicatesNeedALoss
    BY DEF BatchInv, Accounted, DuplicatesNeedALoss, TypeInvariant, GitHubTypes, FaultKinds
  <2>2. CountsAddUp
    BY DEF Counted, Sum, CountsAddUp
  <2>3. QED
    BY <2>1, <2>2 DEF ExportsAreAccounted
<1> HIDE DEF CountInv
<1>4. Spec => []Settling
  BY AlwaysSettled
<1> HIDE DEF Settling
<1>5. QED
  BY <1>1, <1>2, <1>3, <1>4, ExportTypeCorrect, PTL DEF Spec

=============================================================================
