---------------------------- MODULE GitHubExport ----------------------------
(***************************************************************************)
(* Exporting findings of one completed audit to one GitHub repository: the *)
(* requests that create a batch and its job, the export worker, the        *)
(* requests that retry a batch, and the issues on GitHub.                  *)
(*                                                                         *)
(* A finding has one export row, found by its idempotency key, which every *)
(* later batch over the finding takes over.  The worker runs one job at a  *)
(* time; requests run next to it.  One statement, one transaction commit,  *)
(* one call to GitHub or one queue operation is one action.                *)
(***************************************************************************)
EXTENDS Integers, FiniteSets

CONSTANTS
  Findings,    \* the audit's findings
  Requests,    \* export requests; each creates at most one batch
  Selected,    \* Requests -> the findings the request exports
  Retries,     \* retry requests
  Attempts,    \* attempts of the github-export job
  NoBatch,     \* no batch
  NoFinding,   \* no finding
  SearchLag,   \* GitHub's search may not know an issue that exists
  MaxFaults    \* FaultKinds -> how many faults of the kind may happen

ASSUME ExportAssumption ==
  /\ IsFiniteSet(Findings)
  /\ Selected \in [Requests -> (SUBSET Findings) \ {{}}]
  /\ Attempts \in Nat \ {0}
  /\ SearchLag \in BOOLEAN
  /\ NoBatch \notin Requests
  /\ NoFinding \notin Findings

(***************************************************************************)
(* crash - the worker process dies, or the web process inside a request;   *)
(* queue - a queue addition fails;                                         *)
(* lost  - GitHub opens an issue and its answer does not arrive, or cannot *)
(*         be read.                                                        *)
(***************************************************************************)
FaultKinds == {"crash", "queue", "lost"}

ASSUME FaultAssumption == MaxFaults \in [FaultKinds -> Nat]

RowStatus == {"QUEUED", "CREATING", "CREATED", "FAILED", "SKIPPED"}

FinishedBatch == {"COMPLETED", "PARTIALLY_COMPLETED", "FAILED"}

Absent == "absent"

VARIABLES
  batch,         \* GitHubExportBatch.status, by the request that made it
  count,         \* its createdCount, failedCount and skippedCount
  row,           \* FindingGitHubExport.status, by finding
  owner,         \* FindingGitHubExport.batchId
  url,           \* FindingGitHubExport.githubIssueUrl is set
  usage,         \* findings with a GITHUB_ISSUE_EXPORTED event
  issues,        \* issues on GitHub that carry the finding's marker
  indexed,       \* the search for the marker finds one
  job,           \* BullMQ state of the batch's job
  attemptsMade,  \* BullMQ job.attemptsMade
  stalls,        \* how often the worker died under the job
  pc,            \* where the export worker is
  current,       \* the batch it runs, or NoBatch
  left,          \* the items its loop has left
  item,          \* the item it is at, or NoFinding
  tally,         \* what finalizeGitHubExportBatch counted
  requestPc,     \* where each export request is
  plan,          \* what its transaction read about each finding
  retryPc,       \* where each retry request is
  retryOf,       \* the batch it retries, or NoBatch
  faults         \* faults so far, by kind

batches  == <<batch, count>>
rows     == <<row, owner, url>>
github   == <<issues, indexed>>
queue    == <<job, attemptsMade, stalls>>
worker   == <<pc, current, left, item, tally>>
requests == <<requestPc, plan>>
retries  == <<retryPc, retryOf>>
vars == <<batches, rows, usage, github, queue, worker, requests, retries,
          faults>>

ZeroCount == [created |-> 0, failed |-> 0, skipped |-> 0]

Init ==
  /\ batch = [b \in Requests |-> Absent]
  /\ count = [b \in Requests |-> ZeroCount]
  /\ row = [f \in Findings |-> Absent]
  /\ owner = [f \in Findings |-> NoBatch]
  /\ url = [f \in Findings |-> FALSE]
  /\ usage = {}
  /\ issues = [f \in Findings |-> 0]
  /\ indexed = [f \in Findings |-> FALSE]
  /\ job = [b \in Requests |-> "none"]
  /\ attemptsMade = [b \in Requests |-> 0]
  /\ stalls = [b \in Requests |-> 0]
  /\ pc = "idle"
  /\ current = NoBatch
  /\ left = {}
  /\ item = NoFinding
  /\ tally = ZeroCount
  /\ requestPc = [r \in Requests |-> "reading"]
  /\ plan = [r \in Requests |-> [f \in Findings |-> "unread"]]
  /\ retryPc = [x \in Retries |-> "idle"]
  /\ retryOf = [x \in Retries |-> NoBatch]
  /\ faults = [k \in FaultKinds |-> 0]

Fault(kind) ==
  /\ faults[kind] < MaxFaults[kind]
  /\ faults' = [faults EXCEPT ![kind] = @ + 1]

\* queue.add ignores a job id it still knows, finished jobs included.
Enqueued(b) ==
  IF job[b] = "none" THEN [job EXCEPT ![b] = "waiting"] ELSE job

-----------------------------------------------------------------------------
(***************************************************************************)
(* POST /api/audits/[id]/github-export. createGitHubExportBatch is one     *)
(* transaction, but reads each row in a statement of its own before it     *)
(* writes it, and PostgreSQL's read committed lets the worker in between.  *)
(***************************************************************************)
Exported(f) == row[f] = "CREATED" /\ url[f]

ReadRow(r, f) ==
  /\ requestPc[r] = "reading"
  /\ f \in Selected[r] /\ plan[r][f] = "unread"
  /\ plan' = [plan EXCEPT ![r][f] =
       IF row[f] = Absent THEN "insert"
       ELSE IF Exported(f) THEN "rebind" ELSE "requeue"]
  /\ UNCHANGED <<batches, rows, usage, github, queue, worker, requestPc,
                 retries, faults>>

ReadAll(r) ==
  /\ requestPc[r] = "reading"
  /\ \A f \in Selected[r] : plan[r][f] # "unread"

\* Another request has inserted a row with the same unique key meanwhile.
KeyConflict(r) ==
  \E f \in Selected[r] : plan[r][f] = "insert" /\ row[f] # Absent

Commit(r) ==
  /\ ReadAll(r) /\ ~KeyConflict(r)
  /\ batch' = [batch EXCEPT ![r] = "QUEUED"]
  /\ row' = [f \in Findings |->
       IF f \in Selected[r] /\ plan[r][f] # "rebind" THEN "QUEUED" ELSE row[f]]
  /\ owner' = [f \in Findings |-> IF f \in Selected[r] THEN r ELSE owner[f]]
  /\ requestPc' = [requestPc EXCEPT ![r] = "enqueue"]
  /\ UNCHANGED <<count, url, usage, github, queue, worker, plan, retries,
                 faults>>

Rollback(r) ==
  /\ ReadAll(r) /\ KeyConflict(r)
  /\ requestPc' = [requestPc EXCEPT ![r] = "done"]
  /\ UNCHANGED <<batches, rows, usage, github, queue, worker, plan, retries,
                 faults>>

EnqueueExport(r) ==
  /\ requestPc[r] = "enqueue"
  /\ requestPc' = [requestPc EXCEPT ![r] = "done"]
  /\ \/ job' = Enqueued(r) /\ UNCHANGED faults
     \/ Fault("queue") /\ UNCHANGED job
  /\ UNCHANGED <<batches, rows, usage, github, attemptsMade, stalls, worker,
                 plan, retries>>

RequestCrash(r) ==
  /\ Fault("crash")
  /\ requestPc[r] # "done"
  /\ requestPc' = [requestPc EXCEPT ![r] = "done"]
  /\ UNCHANGED <<batches, rows, usage, github, queue, worker, plan, retries>>

Request(r) ==
  \/ \E f \in Findings : ReadRow(r, f)
  \/ Commit(r) \/ Rollback(r) \/ EnqueueExport(r)

(***************************************************************************)
(* POST /api/github-export/[batchId]/retry: two statements and an enqueue  *)
(* under the job id of the first run.                                      *)
(***************************************************************************)
ResetFailedRows(x) ==
  /\ retryPc[x] = "idle"
  /\ \E b \in Requests :
       /\ batch[b] # Absent
       /\ row' = [f \in Findings |->
            IF owner[f] = b /\ row[f] = "FAILED" THEN "QUEUED" ELSE row[f]]
       /\ retryOf' = [retryOf EXCEPT ![x] = b]
  /\ retryPc' = [retryPc EXCEPT ![x] = "batch!"]
  /\ UNCHANGED <<batches, owner, url, usage, github, queue, worker, requests,
                 faults>>

ResetBatch(x) ==
  /\ retryPc[x] = "batch!"
  /\ batch' = [batch EXCEPT ![retryOf[x]] = "QUEUED"]
  /\ retryPc' = [retryPc EXCEPT ![x] = "enqueue"]
  /\ UNCHANGED <<count, rows, usage, github, queue, worker, requests, retryOf,
                 faults>>

EnqueueRetry(x) ==
  /\ retryPc[x] = "enqueue"
  /\ retryPc' = [retryPc EXCEPT ![x] = "done"]
  /\ \/ job' = Enqueued(retryOf[x]) /\ UNCHANGED faults
     \/ Fault("queue") /\ UNCHANGED job
  /\ UNCHANGED <<batches, rows, usage, github, attemptsMade, stalls, worker,
                 requests, retryOf>>

Retry(x) == ResetFailedRows(x) \/ ResetBatch(x) \/ EnqueueRetry(x)


-----------------------------------------------------------------------------
(***************************************************************************)
(* runGitHubExportJob, one job at a time.                                  *)
(***************************************************************************)
StartJob(b) ==
  /\ pc = "idle" /\ job[b] = "waiting"
  /\ job' = [job EXCEPT ![b] = "active"]
  /\ pc' = "running!"
  /\ current' = b
  /\ UNCHANGED <<batches, rows, usage, github, attemptsMade, stalls, left,
                 item, tally, requests, retries, faults>>

Goto(at, next) ==
  /\ pc = at
  /\ pc' = next

MarkBatchRunning ==
  /\ Goto("running!", "read")
  /\ batch' = [batch EXCEPT ![current] = "RUNNING"]
  /\ UNCHANGED <<count, rows, usage, github, queue, current, left, item,
                 tally, requests, retries, faults>>

\* Variant: exported rows are not passed over.
ReadBatchAll ==
  /\ Goto("read", "next")
  /\ left' = {f \in Findings : owner[f] = current}
  /\ UNCHANGED <<batches, rows, usage, github, queue, current, item, tally,
                 requests, retries, faults>>

\* The one read of the batch's rows; those it saw exported are passed over.
ReadBatch ==
  /\ Goto("read", "next")
  /\ left' = {f \in Findings : owner[f] = current /\ ~Exported(f)}
  /\ UNCHANGED <<batches, rows, usage, github, queue, current, item, tally,
                 requests, retries, faults>>

MarkCreating ==
  /\ Goto("next", "search")
  /\ \E f \in left :
       /\ item' = f
       /\ left' = left \ {f}
       /\ row' = [row EXCEPT ![f] = "CREATING"]
  /\ UNCHANGED <<batches, owner, url, usage, github, queue, current, tally,
                 requests, retries, faults>>

\* A call to GitHub that changes nothing there.
Ask(at, next) ==
  /\ pc = at
  /\ pc' \in next
  /\ UNCHANGED <<batches, rows, usage, github, queue, current, left, item,
                 tally, requests, retries, faults>>

\* classifyGitHubError: the job goes on after one, and stops at the other.
Errors == {"fail!", "fail-retry!"}

\* Variant: nothing is searched before the POST.
SearchNothing == Ask("search", {"post"})

Search == Ask("search",
  Errors \cup {IF indexed[item] THEN "skip!" ELSE "search-again"})

\* createIssue searches once more.
SearchAgain == Ask("search-again",
  Errors \cup {IF indexed[item] THEN "created!" ELSE "post"})

OpenIssue ==
  /\ issues' = [issues EXCEPT ![item] = @ + 1]
  /\ indexed' = IF SearchLag THEN indexed ELSE [indexed EXCEPT ![item] = TRUE]

\* Variant: the status of the answer is not looked at.
PostUnchecked ==
  /\ pc = "post"
  /\ pc' = "created!"
  /\ OpenIssue \/ UNCHANGED github
  /\ UNCHANGED <<batches, rows, usage, queue, current, left, item, tally,
                 requests, retries, faults>>

Post ==
  /\ pc = "post"
  /\ \/ OpenIssue /\ pc' = "created!" /\ UNCHANGED faults
     \/ OpenIssue /\ pc' = "fail-retry!" /\ Fault("lost")
     \/ pc' \in Errors /\ UNCHANGED <<github, faults>>
  /\ UNCHANGED <<batches, rows, usage, queue, current, left, item, tally,
                 requests, retries>>

\* An update of the item's row by its id.
MarkItem(at, status, next) ==
  /\ Goto(at, next)
  /\ row' = [row EXCEPT ![item] = status]
  /\ UNCHANGED <<batches, owner, usage, github, queue, current, left, item,
                 tally, requests, retries, faults>>

MarkSkipped ==
  /\ MarkItem("skip!", "SKIPPED", "next")
  /\ url' = [url EXCEPT ![item] = TRUE]

MarkCreated ==
  /\ MarkItem("created!", "CREATED", "usage!")
  /\ url' = [url EXCEPT ![item] = TRUE]

\* Variant: a failure that is retried is not written.
MarkFailedFinalOnly ==
  \/ MarkItem("fail!", "FAILED", "next") /\ UNCHANGED url
  \/ MarkItem("fail-retry!", row[item], "next") /\ UNCHANGED url

MarkFailed ==
  \/ MarkItem("fail!", "FAILED", "next") /\ UNCHANGED url
  \/ MarkItem("fail-retry!", "FAILED", "job-failed") /\ UNCHANGED url

RecordUsage ==
  /\ Goto("usage!", "next")
  /\ usage' = usage \cup {item}
  /\ UNCHANGED <<batches, rows, github, queue, current, left, item, tally,
                 requests, retries, faults>>

OwnRows(status) ==
  Cardinality({f \in Findings : owner[f] = current /\ row[f] = status})

\* Variant: a skipped row counts as created, too.
CountRowsTwice ==
  /\ Goto("next", "finalize!")
  /\ left = {}
  /\ tally' = [created |-> OwnRows("CREATED") + OwnRows("SKIPPED"),
               failed |-> OwnRows("FAILED"), skipped |-> OwnRows("SKIPPED")]
  /\ UNCHANGED <<batches, rows, usage, github, queue, current, left, item,
                 requests, retries, faults>>

CountRows ==
  /\ Goto("next", "finalize!")
  /\ left = {}
  /\ tally' = [created |-> OwnRows("CREATED"), failed |-> OwnRows("FAILED"),
               skipped |-> OwnRows("SKIPPED")]
  /\ UNCHANGED <<batches, rows, usage, github, queue, current, left, item,
                 requests, retries, faults>>

Outcome(t) ==
  IF t.failed = 0 THEN "COMPLETED"
  ELSE IF t.created > 0 \/ t.skipped > 0 THEN "PARTIALLY_COMPLETED"
  ELSE "FAILED"

FinalizeBatch ==
  /\ Goto("finalize!", "job-done")
  /\ count' = [count EXCEPT ![current] = tally]
  /\ batch' = [batch EXCEPT ![current] = Outcome(tally)]
  /\ UNCHANGED <<rows, usage, github, queue, current, left, item, tally,
                 requests, retries, faults>>

\* The worker takes up no job until the queue knows how this one ended.
Leave ==
  /\ pc' = "idle" /\ current' = NoBatch /\ left' = {} /\ item' = NoFinding
  /\ tally' = ZeroCount

JobDone ==
  /\ pc = "job-done"
  /\ job' = [job EXCEPT ![current] = "completed"]
  /\ Leave
  /\ UNCHANGED <<batches, rows, usage, github, attemptsMade, stalls, requests,
                 retries, faults>>

\* Variant: the attempt is not counted.
JobFailedUncounted ==
  /\ pc = "job-failed"
  /\ job' = [job EXCEPT ![current] =
       IF attemptsMade[current] + 1 < Attempts THEN "waiting" ELSE "failed"]
  /\ Leave
  /\ UNCHANGED <<batches, rows, usage, github, attemptsMade, stalls, requests,
                 retries, faults>>

\* Variant: one attempt too many.
JobFailedOffByOne ==
  /\ pc = "job-failed"
  /\ attemptsMade' = [attemptsMade EXCEPT ![current] = @ + 1]
  /\ job' = [job EXCEPT ![current] =
       IF attemptsMade[current] < Attempts THEN "waiting" ELSE "failed"]
  /\ Leave
  /\ UNCHANGED <<batches, rows, usage, github, stalls, requests, retries,
                 faults>>

JobFailed ==
  /\ pc = "job-failed"
  /\ attemptsMade' = [attemptsMade EXCEPT ![current] = @ + 1]
  /\ job' = [job EXCEPT ![current] =
       IF attemptsMade[current] + 1 < Attempts THEN "waiting" ELSE "failed"]
  /\ Leave
  /\ UNCHANGED <<batches, rows, usage, github, stalls, requests, retries,
                 faults>>

\* The worker dies; its job is handed out again once, then given up.
WorkerCrash ==
  /\ Fault("crash")
  /\ pc # "idle"
  /\ job' = [job EXCEPT ![current] =
       IF stalls[current] = 0 THEN "waiting" ELSE "failed"]
  /\ stalls' = [stalls EXCEPT ![current] = @ + 1]
  /\ Leave
  /\ UNCHANGED <<batches, rows, usage, github, attemptsMade, requests,
                 retries>>

Worker ==
  \/ \E b \in Requests : StartJob(b)
  \/ MarkBatchRunning \/ ReadBatch \/ MarkCreating \/ Search \/ SearchAgain
  \/ Post \/ MarkSkipped \/ MarkCreated \/ RecordUsage \/ MarkFailed
  \/ CountRows \/ FinalizeBatch \/ JobDone \/ JobFailed

\* GitHub's search index catches up.
Index(f) ==
  /\ issues[f] > 0 /\ ~indexed[f]
  /\ indexed' = [indexed EXCEPT ![f] = TRUE]
  /\ UNCHANGED <<batches, rows, usage, issues, queue, worker, requests,
                 retries, faults>>

Next ==
  \/ Worker \/ WorkerCrash
  \/ \E r \in Requests : Request(r) \/ RequestCrash(r)
  \/ \E x \in Retries : Retry(x)
  \/ \E f \in Findings : Index(f)

Spec == Init /\ [][Next]_vars

(***************************************************************************)
(* The worker takes every waiting job and goes on after every call, each   *)
(* of which has a timeout; nothing is assumed of the members' requests, of *)
(* GitHub's answers or of its index.                                       *)
(***************************************************************************)
FairSpec == Spec /\ WF_vars(Worker)

-----------------------------------------------------------------------------
(***************************************************************************)
(* Properties.                                                             *)
(***************************************************************************)
WorkerLabels ==
  {"idle", "running!", "read", "next", "search", "search-again", "post",
   "skip!", "created!", "usage!", "finalize!", "job-done", "job-failed"}
  \cup Errors

Tally == [created : Nat, failed : Nat, skipped : Nat]

RowTypes ==
  /\ batch \in [Requests -> FinishedBatch \cup {Absent, "QUEUED", "RUNNING"}]
  /\ count \in [Requests -> Tally]
  /\ row \in [Findings -> RowStatus \cup {Absent}]
  /\ owner \in [Findings -> Requests \cup {NoBatch}]
  /\ url \in [Findings -> BOOLEAN]
  /\ usage \subseteq Findings

GitHubTypes ==
  /\ issues \in [Findings -> Nat]
  /\ indexed \in [Findings -> BOOLEAN]

QueueTypes ==
  /\ job \in [Requests -> {"none", "waiting", "active", "completed", "failed"}]
  /\ attemptsMade \in [Requests -> 0..Attempts]
  /\ stalls \in [Requests -> Nat]
  /\ \A b \in Requests :
       job[b] \in {"none", "waiting", "active"} => attemptsMade[b] < Attempts

WorkerTypes ==
  /\ pc \in WorkerLabels
  /\ current \in Requests \cup {NoBatch}
  /\ left \subseteq Findings
  /\ item \in Findings \cup {NoFinding}
  /\ tally \in Tally
  /\ pc # "idle" => current \in Requests /\ job[current] = "active"
  /\ pc \in {"search", "search-again", "post", "skip!", "created!", "usage!"}
            \cup Errors => item \in Findings

RequestTypes ==
  /\ requestPc \in [Requests -> {"reading", "enqueue", "done"}]
  /\ plan \in [Requests ->
                 [Findings -> {"unread", "insert", "rebind", "requeue"}]]
  /\ retryPc \in [Retries -> {"idle", "batch!", "enqueue", "done"}]
  /\ retryOf \in [Retries -> Requests \cup {NoBatch}]
  /\ \A x \in Retries :
       retryPc[x] \in {"batch!", "enqueue"} => retryOf[x] \in Requests

\* Every row, job and process holds a value the code gives a meaning to; no
\* job has an attempt left that BullMQ would not grant it.
TypeInvariant ==
  /\ RowTypes
  /\ GitHubTypes
  /\ QueueTypes
  /\ WorkerTypes
  /\ RequestTypes
  /\ faults \in [FaultKinds -> Nat]

\* However often a finding is exported, by however many batches, attempts
\* and retries, and whatever answer is lost, GitHub has one issue for it, as
\* long as its search knows the issues there are.
OneIssuePerFinding == ~SearchLag => \A f \in Findings : issues[f] <= 1

\* With one batch, a second issue takes a search that lags and a lost
\* answer or a dead worker each time.
DuplicatesNeedALoss ==
  \A f \in Findings : issues[f] <= 1 + faults["lost"] + faults["crash"]

\* No row says CREATED or SKIPPED, keeps a link, or was billed as exported,
\* without an issue on GitHub behind it.
RowsBackedByIssues ==
  \A f \in Findings :
    url[f] \/ row[f] \in {"CREATED", "SKIPPED"} \/ f \in usage
      => issues[f] > 0

Unretried == \A x \in Retries : retryPc[x] = "idle"

RowsSettled ==
  \A b \in Requests, f \in Findings :
    owner[f] = b =>
      /\ batch[b] \in FinishedBatch => row[f] \in {"CREATED", "FAILED", "SKIPPED"}
      /\ batch[b] = "COMPLETED" => row[f] # "FAILED"

\* Until somebody retries, a finished batch has no row in progress, and a
\* COMPLETED one no failed row either, although rows are taken over by later
\* batches while it runs and its job may be run again after a crash.
FinishedBatchIsSettled == Unretried => RowsSettled

\* With one batch, until somebody retries, its three counts add up to the
\* findings requested once it is finished.
CountsAddUp ==
  Unretried => \A b \in Requests : batch[b] \in FinishedBatch =>
    count[b].created + count[b].failed + count[b].skipped
      = Cardinality(Selected[b])

\* What a batch has done is told by its rows' issues and by its counts.
ExportsAreAccounted == DuplicatesNeedALoss /\ CountsAddUp

\* Every job that is handed out ends, and if it ends well its batch was
\* finished.
JobsConclude ==
  \A b \in Requests :
    job[b] = "waiting" ~> (job[b] = "failed" \/ batch[b] \in FinishedBatch)

(***************************************************************************)
(* Said of the program, and not so.                                        *)
(***************************************************************************)
Quiet ==
  /\ \A r \in Requests : requestPc[r] = "done" /\ job[r] \in {"completed", "failed"}
  /\ \A x \in Retries : retryPc[x] \in {"idle", "done"}

\* "Retry failed", which the audit page offers for a batch with failed rows,
\* runs the batch again.
RetryRuns ==
  Quiet => \A r \in Requests : count[r].failed > 0 => batch[r] # "QUEUED"

=============================================================================
