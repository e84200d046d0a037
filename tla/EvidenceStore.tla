--------------------------- MODULE EvidenceStore ----------------------------
(***************************************************************************)
(* The findings of one audit and the evidence that backs them: the rows    *)
(* Finding and FindingEvidence, the objects in the storage bucket, and     *)
(* the processes that work on them without a common transaction: the       *)
(* mission jobs (persistFindings, then uploadAuditEvidence), the daily     *)
(* retention job, and an export that shares evidence.                      *)
(* Each database call and each storage call is one action.                 *)
(***************************************************************************)
EXTENDS Naturals, Sequences, FiniteSets, FiniteSetsExt, SequencesExt

CONSTANTS
  Reporters,     \* the executions of mission jobs that persist findings:
                 \* two of one mission, if its job stalled and ran again
  Cleaners,      \* the retention workers
  BatchSize,     \* evidenceRetentionCleanupBatchSize
  Scenarios      \* [reports, budget, crew]: what there is to report, what may
                 \* happen (see Kinds), and the retention workers there are

\* A reported finding: its fingerprint, how often it occurred, and whether
\* its evidence is a screenshot on the worker's disk.
Found(print, times, shot) == [print |-> print, times |-> times, shot |-> shot]

\* What a scenario bounds: mission jobs cut short; storage calls, and the
\* writes behind them, that fail; retention jobs cut short; exports that
\* share evidence.
Kinds == {"job", "store", "cleaner", "share"}

ASSUME ScenarioAssumption ==
  \A s \in Scenarios :
    /\ s.budget \in [Kinds -> Nat] /\ s.crew \subseteq Cleaners
    /\ \A m \in Reporters :
         /\ s.reports[m] \in Seq(Range(s.reports[m]))
         /\ \A i \in DOMAIN s.reports[m] :
              /\ s.reports[m][i].times \in Nat \ {0}
              /\ s.reports[m][i].shot \in BOOLEAN

ASSUME ReportersAssumption == IsFiniteSet(Reporters)

ASSUME BatchAssumption == BatchSize \in Nat \ {0}

VARIABLES
  findings,    \* the Finding rows, by id
  evidence,    \* the FindingEvidence rows, by id
  bucket,      \* the keys of the objects in the storage
  lastKey,     \* the last key given out: a key holds a random UUID
  storageOn,   \* the Supabase URL and key are configured
  reports,     \* reports[m]: the sequence of findings m has, each once
  crew,        \* the retention workers that run
  job,         \* job[m]: where mission job m is, and what it read
  cleaner,     \* cleaner[c]: where the retention job of worker c is
  sharing,     \* the rows an export read and is about to share
  budget,      \* what is left of the budget of each kind
  happened,    \* history: the kinds of event there have been
  raced        \* history: what two mission jobs did at the same time

settings == <<storageOn, reports, crew>>
findingVars == <<findings, raced>>
rowVars == <<evidence, bucket, lastKey>>
budgetVars == <<budget, happened>>
evidenceVars ==
  <<findings, evidence, bucket, lastKey, settings, job, cleaner, sharing,
    budget, happened, raced>>

None == 0

Happens(kind) ==
  /\ budget[kind] > 0
  /\ budget' = [budget EXCEPT ![kind] = @ - 1]
  /\ happened' = happened \cup {kind}

Prints == {f.print : f \in UNION {Range(reports[m]) : m \in Reporters}}

AtRest ==
  [pc |-> "start", known |-> {}, next |-> 1, row |-> None, sources |-> {},
   lists |-> {}, todo |-> {}, listed |-> FALSE, key |-> None]

Over(pc) == [AtRest EXCEPT !.pc = pc]

CleanerAtRest == [pc |-> "idle", todo |-> {}, claimed |-> {}, item |-> None]

EvidenceInit ==
  /\ findings = <<>>
  /\ evidence = <<>>
  /\ bucket = {}
  /\ lastKey = 0
  /\ storageOn \in BOOLEAN
  /\ job = [m \in Reporters |-> AtRest]
  /\ cleaner = [c \in Cleaners |-> CleanerAtRest]
  /\ sharing = {}
  /\ \E s \in Scenarios : reports = s.reports /\ budget = s.budget /\ crew = s.crew
  /\ happened = {}
  /\ raced = {}

(***************************************************************************)
(* persistFindings.                                                        *)
(***************************************************************************)
At(m, pc) == job[m].pc = pc

Persisting(m) == job[m].pc \in {"next", "found", "merge", "made", "list"}
Uploading(m)  == job[m].pc \in {"upload", "put"}

Current(m) == reports[m][job[m].next]

\* A new FindingEvidence row of finding row f.
EvidenceOf(f, shot) ==
  [finding |-> f, shot |-> shot, key |-> None,
   shared |-> FALSE, revoked |-> FALSE, expires |-> "never",
   claim |-> "none", deleted |-> FALSE]

RowsOf(p) == {f \in DOMAIN findings : findings[f].print = p}

\* The fingerprints of the audit are read once, before the first finding.
ReadKnown(m) ==
  /\ At(m, "start")
  /\ job' = [job EXCEPT ![m].pc = "next",
                        ![m].known = {findings[f].print : f \in DOMAIN findings}]
  /\ raced' = raced \cup (IF \E n \in Reporters \ {m} : Persisting(n)
                         THEN {"persist"} ELSE {})
  /\ UNCHANGED <<findings, rowVars, settings, cleaner, sharing, budgetVars>>

\* A fingerprint that is not known is a new row, with its evidence.
CreateFinding(m) ==
  /\ At(m, "next") /\ job[m].next \in DOMAIN reports[m]
  /\ Current(m).print \notin job[m].known
  /\ findings' = Append(findings,
                        [print |-> Current(m).print, count |-> Current(m).times,
                         sources |-> {m}, lists |-> {}])
  /\ evidence' = Append(evidence,
                        EvidenceOf(Len(findings) + 1, Current(m).shot))
  /\ job' = [job EXCEPT ![m].pc = "made", ![m].row = Len(findings) + 1]
  /\ UNCHANGED <<bucket, lastKey, settings, cleaner, sharing, budgetVars, raced>>

\* The ids of the row's evidence are read back ...
ListNewEvidence(m) ==
  /\ At(m, "made")
  /\ job' = [job EXCEPT
               ![m].pc = "list",
               ![m].lists = {e \in DOMAIN evidence :
                               evidence[e].finding = job[m].row}]
  /\ UNCHANGED <<findingVars, rowVars, settings, cleaner, sharing, budgetVars>>

\* The next finding of the loop; the locals of the last one are gone.
Advanced(j) ==
  [j EXCEPT !.pc = "next", !.next = @ + 1, !.row = None, !.sources = {},
            !.lists = {}]

\* ... and written over whatever the row lists by now.
WriteNewEvidence(m) ==
  /\ At(m, "list")
  /\ findings' = [findings EXCEPT ![job[m].row].lists = job[m].lists]
  /\ job' = [job EXCEPT
               ![m] = [Advanced(job[m]) EXCEPT
                         !.known = @ \cup {Current(m).print}]]
  /\ UNCHANGED <<rowVars, settings, cleaner, sharing, budgetVars, raced>>

\* Variant: any row of the audit, whatever its fingerprint.
FindAnyRow(m) ==
  /\ At(m, "next") /\ job[m].next \in DOMAIN reports[m]
  /\ Current(m).print \in job[m].known
  /\ \E f \in DOMAIN findings :
       job' = [job EXCEPT ![m].pc = "found", ![m].row = f,
                          ![m].sources = findings[f].sources,
                          ![m].lists = findings[f].lists]
  /\ UNCHANGED <<findingVars, rowVars, settings, cleaner, sharing, budgetVars>>

\* findFirst without an order: any of the rows with the fingerprint.
FindKnown(m) ==
  /\ At(m, "next") /\ job[m].next \in DOMAIN reports[m]
  /\ Current(m).print \in job[m].known
  /\ \E f \in RowsOf(Current(m).print) :
       job' = [job EXCEPT ![m].pc = "found", ![m].row = f,
                          ![m].sources = findings[f].sources,
                          ![m].lists = findings[f].lists]
  /\ UNCHANGED <<findingVars, rowVars, settings, cleaner, sharing, budgetVars>>

AddEvidence(m) ==
  /\ At(m, "found")
  /\ evidence' = Append(evidence, EvidenceOf(job[m].row, Current(m).shot))
  /\ job' = [job EXCEPT ![m].pc = "merge", ![m].lists = @ \cup {Len(evidence) + 1}]
  /\ UNCHANGED <<findingVars, bucket, lastKey, settings, cleaner, sharing,
                 budgetVars>>

\* Variant: the occurrences are overwritten.
MergeOverwriting(m) ==
  /\ At(m, "merge")
  /\ findings' = [findings EXCEPT
                    ![job[m].row].count = Current(m).times,
                    ![job[m].row].sources = job[m].sources \cup {m},
                    ![job[m].row].lists = job[m].lists]
  /\ job' = [job EXCEPT ![m] = Advanced(job[m])]
  /\ UNCHANGED <<rowVars, settings, cleaner, sharing, budgetVars, raced>>

\* The occurrences are incremented in the database, the lists are the ones
\* read before, with this mission's additions.
Merge(m) ==
  /\ At(m, "merge")
  /\ findings' = [findings EXCEPT
                    ![job[m].row].count = @ + Current(m).times,
                    ![job[m].row].sources = job[m].sources \cup {m},
                    ![job[m].row].lists = job[m].lists]
  /\ job' = [job EXCEPT ![m] = Advanced(job[m])]
  /\ UNCHANGED <<rowVars, settings, cleaner, sharing, budgetVars, raced>>

(***************************************************************************)
(* uploadAuditEvidence.                                                    *)
(***************************************************************************)
\* Local evidence of the audit with no object yet, of whatever mission.
Unstored ==
  {e \in DOMAIN evidence : evidence[e].shot /\ evidence[e].key = None}

\* All findings are written: the job lists what it is to upload, or leaves
\* the evidence where it is when no storage is configured.
ListUnstored(m) ==
  /\ At(m, "next") /\ job[m].next \notin DOMAIN reports[m]
  /\ job' = [job EXCEPT
               ![m] = IF storageOn
                      THEN [AtRest EXCEPT !.pc = "upload", !.todo = Unstored,
                                          !.listed = Unstored # {}]
                      ELSE Over("done")]
  /\ raced' = raced \cup (IF \E n \in Reporters \ {m} : Uploading(n)
                         THEN {"upload"} ELSE {})
  /\ UNCHANGED <<findings, rowVars, settings, cleaner, sharing, budgetVars>>

\* The object gets a key of its own, so that no upload meets another's.
PutObject(m) ==
  /\ At(m, "upload") /\ job[m].todo # {}
  /\ lastKey' = lastKey + 1
  /\ bucket' = bucket \cup {lastKey + 1}
  /\ job' = [job EXCEPT ![m].pc = "put", ![m].row = Min(job[m].todo),
                        ![m].key = lastKey + 1]
  /\ UNCHANGED <<findingVars, evidence, settings, cleaner, sharing, budgetVars>>

\* A file that cannot be read or stored is logged and the loop goes on.
PutFails(m) ==
  /\ At(m, "upload") /\ job[m].todo # {}
  /\ Happens("store")
  /\ job' = [job EXCEPT ![m].todo = @ \ {Min(@)}]
  /\ UNCHANGED <<findingVars, rowVars, settings, cleaner, sharing>>

\* markEvidenceStored: the row points to the object.
MarkStored(m) ==
  /\ At(m, "put")
  /\ evidence' = [evidence EXCEPT ![job[m].row].key = job[m].key]
  /\ job' = [job EXCEPT ![m].pc = "upload", ![m].todo = @ \ {job[m].row},
                        ![m].row = None, ![m].key = None]
  /\ UNCHANGED <<findingVars, bucket, lastKey, settings, cleaner, sharing,
                 budgetVars>>

\* The same catch covers the row: the object is there, and nobody knows it.
MarkStoredFails(m) ==
  /\ At(m, "put")
  /\ Happens("store")
  /\ job' = [job EXCEPT ![m].pc = "upload", ![m].todo = @ \ {job[m].row},
                        ![m].row = None, ![m].key = None]
  /\ UNCHANGED <<findingVars, rowVars, settings, cleaner, sharing>>

\* markEvidenceRetentionForAudit, for the rows of the audit that have no
\* expiry; a job that listed nothing does not get there.
MarkRetention(m) ==
  /\ At(m, "upload") /\ job[m].todo = {}
  /\ evidence' =
       IF job[m].listed
       THEN [e \in DOMAIN evidence |->
               IF evidence[e].expires = "never"
               THEN [evidence[e] EXCEPT !.expires = "later"]
               ELSE evidence[e]]
       ELSE evidence
  /\ job' = [job EXCEPT ![m] = Over("done")]
  /\ UNCHANGED <<findingVars, bucket, lastKey, settings, cleaner, sharing,
                 budgetVars>>

Ended(m) == job[m].pc \in {"done", "gave-up"}

AllEnded == \A m \in Reporters : Ended(m)

\* A worker dies or a database call fails: the job starts again, or was at
\* its last attempt.
JobCrashes(m) ==
  /\ ~At(m, "start") /\ ~Ended(m)
  /\ Happens("job")
  /\ \E pc \in {"start", "gave-up"} :
       job' = [job EXCEPT ![m] = Over(pc)]
  /\ UNCHANGED <<findingVars, rowVars, settings, cleaner, sharing>>

(***************************************************************************)
(* Time: evidence is kept for days and a mission lasts minutes, so the     *)
(* rows of an audit come due when its jobs have ended, and together. A     *)
(* claim goes stale after an hour, whatever its holder does.               *)
(***************************************************************************)
ComeDue ==
  /\ AllEnded
  /\ \E e \in DOMAIN evidence : evidence[e].expires = "later"
  /\ evidence' = [e \in DOMAIN evidence |->
                    [evidence[e] EXCEPT
                       !.expires = IF @ = "later" THEN "due" ELSE @]]
  /\ UNCHANGED <<findingVars, bucket, lastKey, settings, job, cleaner,
                 sharing, budgetVars>>

ClaimGoesStale(e) ==
  /\ evidence[e].claim = "held" /\ ~evidence[e].deleted
  /\ evidence' = [evidence EXCEPT ![e].claim = "stale"]
  /\ UNCHANGED <<findingVars, bucket, lastKey, settings, job, cleaner,
                 sharing, budgetVars>>

(***************************************************************************)
(* runRetentionCleanupJob.                                                 *)
(***************************************************************************)
\* Variant: evidence is claimed before its time has come.
ClaimableEarly(e) == ~evidence[e].deleted /\ evidence[e].claim # "held"

\* Variant: no claim goes stale.
ClaimableOnce(e) ==
  evidence[e].expires = "due" /\ ~evidence[e].deleted /\ evidence[e].claim = "none"

\* What claimEvidenceDueForDeletion looks for, and looks at once more when
\* it takes a row.
Claimable(e) ==
  /\ evidence[e].expires = "due"
  /\ ~evidence[e].deleted
  /\ evidence[e].claim # "held"

\* A batch of the candidates.
ListDue(c) ==
  /\ cleaner[c].pc = "idle" /\ storageOn /\ c \in crew
  /\ LET due == {e \in DOMAIN evidence : Claimable(e)} IN
     \E batch \in (SUBSET due) \ {{}} :
       /\ IF Cardinality(due) <= BatchSize THEN batch = due
          ELSE Cardinality(batch) = BatchSize
       /\ cleaner' = [cleaner EXCEPT ![c].pc = "claiming", ![c].todo = batch]
  /\ UNCHANGED <<findingVars, rowVars, settings, job, sharing, budgetVars>>

\* One updateMany per candidate, which takes the row or finds it taken; the
\* claim ends the sharing.
Claim(c) ==
  /\ cleaner[c].pc = "claiming" /\ cleaner[c].todo # {}
  /\ LET e == Min(cleaner[c].todo) IN
     /\ evidence' =
          IF Claimable(e)
          THEN [evidence EXCEPT ![e].claim = "held", ![e].revoked = TRUE,
                                ![e].shared = FALSE]
          ELSE evidence
     /\ cleaner' = [cleaner EXCEPT
                      ![c].todo = @ \ {e},
                      ![c].claimed = IF Claimable(e) THEN @ \cup {e} ELSE @]
  /\ UNCHANGED <<findingVars, bucket, lastKey, settings, job, sharing,
                 budgetVars>>

Work(c) ==
  /\ cleaner[c].todo = {} /\ cleaner[c].item = None
  /\ cleaner[c].pc = "claiming" /\ cleaner[c].claimed # {}

EndOfBatch(c) ==
  /\ cleaner[c].pc = "claiming" /\ cleaner[c].todo = {}
  /\ cleaner[c].claimed = {} /\ cleaner[c].item = None
  /\ cleaner' = [cleaner EXCEPT ![c] = CleanerAtRest]
  /\ UNCHANGED <<findingVars, rowVars, settings, job, sharing, budgetVars>>

\* storage.deleteObject, which takes a missing object for deleted; a row
\* without an object needs no call.
DeleteObject(c) ==
  /\ Work(c)
  /\ LET e == Min(cleaner[c].claimed) IN
     /\ bucket' = bucket \ {evidence[e].key}
     /\ cleaner' = [cleaner EXCEPT ![c].claimed = @ \ {e}, ![c].item = e]
  /\ UNCHANGED <<findingVars, evidence, lastKey, settings, job, sharing,
                 budgetVars>>

MarkDeleted(c) ==
  /\ cleaner[c].item # None
  /\ evidence' = [evidence EXCEPT ![cleaner[c].item].deleted = TRUE,
                                  ![cleaner[c].item].shared = FALSE]
  /\ cleaner' = [cleaner EXCEPT ![c].item = None]
  /\ UNCHANGED <<findingVars, bucket, lastKey, settings, job, sharing,
                 budgetVars>>

\* The call fails, and markEvidenceDeletionFailed gives the claim back,
\* whoever holds it by now.
DeleteFails(c) ==
  /\ Work(c)
  /\ LET e == Min(cleaner[c].claimed) IN
     /\ evidence[e].key # None
     /\ evidence' = [evidence EXCEPT ![e].claim = "none"]
     /\ cleaner' = [cleaner EXCEPT ![c].claimed = @ \ {e}]
  /\ Happens("store")
  /\ UNCHANGED <<findingVars, bucket, lastKey, settings, job, sharing>>

\* So does a row that cannot be marked after its object went.
MarkDeletedFails(c) ==
  /\ cleaner[c].item # None
  /\ evidence[cleaner[c].item].key # None
  /\ evidence' = [evidence EXCEPT ![cleaner[c].item].claim = "none"]
  /\ cleaner' = [cleaner EXCEPT ![c].item = None]
  /\ Happens("store")
  /\ UNCHANGED <<findingVars, bucket, lastKey, settings, job, sharing>>

\* The worker dies with its claims held.
CleanerCrashes(c) ==
  /\ cleaner[c].pc # "idle"
  /\ Happens("cleaner")
  /\ cleaner' = [cleaner EXCEPT ![c] = CleanerAtRest]
  /\ UNCHANGED <<findingVars, rowVars, settings, job, sharing>>

(***************************************************************************)
(* Sharing: enableExternalEvidenceForFindings and the public route.        *)
(***************************************************************************)
Shareable(e) == evidence[e].key # None /\ ~evidence[e].revoked

\* Only a completed audit is exported. The rows are read ...
ReadShareable ==
  /\ AllEnded
  /\ sharing = {} /\ \E e \in DOMAIN evidence : Shareable(e)
  /\ sharing' = {e \in DOMAIN evidence : Shareable(e)}
  /\ Happens("share")
  /\ UNCHANGED <<findingVars, rowVars, settings, job, cleaner>>

\* ... and updated by id one after the other.
Share(e) ==
  /\ e \in sharing /\ e = Min(sharing)
  /\ evidence' = [evidence EXCEPT ![e].shared = TRUE]
  /\ sharing' = sharing \ {e}
  /\ UNCHANGED <<findingVars, bucket, lastKey, settings, job, cleaner,
                 budgetVars>>

\* getPublicEvidence: the conditions under which the public route serves the
\* object of a row to whoever has the link.
Public(e) ==
  /\ evidence[e].shared
  /\ ~evidence[e].revoked
  /\ ~evidence[e].deleted
  /\ evidence[e].expires # "due"
  /\ evidence[e].key # None

JobStep(m) ==
  \/ ReadKnown(m) \/ CreateFinding(m) \/ ListNewEvidence(m)
  \/ WriteNewEvidence(m) \/ FindKnown(m) \/ AddEvidence(m) \/ Merge(m)
  \/ ListUnstored(m) \/ PutObject(m) \/ MarkStored(m) \/ MarkRetention(m)

CleanerStep(c) ==
  \/ ListDue(c) \/ Claim(c) \/ DeleteObject(c) \/ MarkDeleted(c)
  \/ EndOfBatch(c)

EvidenceNext ==
  \/ \E m \in Reporters : JobStep(m) \/ PutFails(m) \/ MarkStoredFails(m)
                              \/ JobCrashes(m)
  \/ \E c \in Cleaners : CleanerStep(c) \/ DeleteFails(c)
                             \/ MarkDeletedFails(c) \/ CleanerCrashes(c)
  \/ \E e \in DOMAIN evidence :
       ClaimGoesStale(e) \/ Share(e)
  \/ ReadShareable \/ ComeDue

\* Workers take their jobs up again, the scheduler starts the retention job
\* every day, and time passes.
EvidenceFairness ==
  /\ \A m \in Reporters : WF_evidenceVars(JobStep(m))
  /\ \A c \in Cleaners : WF_evidenceVars(CleanerStep(c))
  /\ WF_evidenceVars(\E e \in DOMAIN evidence : ClaimGoesStale(e))

EvidenceSpec == EvidenceInit /\ [][EvidenceNext]_evidenceVars /\ EvidenceFairness

(***************************************************************************)
(* Properties.                                                             *)
(***************************************************************************)
\* What the jobs that came through reported of p.
ReportedBy(m, p) ==
  MapThenSumSet(LAMBDA i : reports[m][i].times,
                {i \in DOMAIN reports[m] : reports[m][i].print = p})

Reported(p) ==
  MapThenSumSet(LAMBDA m : ReportedBy(m, p), {m \in Reporters : At(m, "done")})

Occurrences(p) == MapThenSumSet(LAMBDA f : findings[f].count, RowsOf(p))

\* A key that no row has and no uploader holds: nobody will ever delete it.
Orphans ==
  bucket \ ({evidence[e].key : e \in DOMAIN evidence}
            \cup {job[m].key : m \in Reporters})

\* Rows point to rows there are; a job in the middle of a finding has a row
\* with that finding's fingerprint, one in the middle of an upload an object.
EvidenceTypes ==
  /\ \A f \in DOMAIN findings :
       /\ findings[f].print \in Prints /\ findings[f].count \in Nat \ {0}
       /\ findings[f].sources \subseteq Reporters /\ findings[f].sources # {}
       /\ findings[f].lists \subseteq DOMAIN evidence
  /\ \A e \in DOMAIN evidence :
       /\ evidence[e].finding \in DOMAIN findings
       /\ evidence[e].key \in 0..lastKey
       /\ evidence[e].expires \in {"never", "later", "due"}
       /\ evidence[e].claim \in {"none", "held", "stale"}
  /\ \A m \in Reporters :
       /\ job[m].pc \in {"found", "merge", "made", "list"} =>
            findings[job[m].row].print = Current(m).print
       /\ At(m, "put") => job[m].row \in DOMAIN evidence /\ job[m].key # None
  /\ bucket \subseteq 1..lastKey

\* When no two jobs persisted at once and none was cut short, the findings
\* are those of a single pass over all reports: one row per fingerprint that
\* counts every occurrence, names every mission that saw it, and lists
\* exactly its evidence.
SerialFindingsAreExact ==
  AllEnded /\ "persist" \notin raced /\ "job" \notin happened =>
    /\ {findings[f].print : f \in DOMAIN findings} = Prints
    /\ \A p \in Prints :
         \A f \in RowsOf(p) :
           /\ RowsOf(p) = {f}
           /\ findings[f].count = Reported(p)
           /\ findings[f].sources =
                {m \in Reporters : \E i \in DOMAIN reports[m] :
                   reports[m][i].print = p}
           /\ findings[f].lists =
                {e \in DOMAIN evidence : evidence[e].finding = f}

\* Whatever races and repeats there were: no occurrence that a job reported
\* is missing from the rows of its fingerprint, though a row may have been
\* written twice and an occurrence counted twice.
NoOccurrenceLost ==
  AllEnded => \A p \in Prints : Occurrences(p) >= Reported(p)

\* An object nobody can find again takes two uploads at once, a job cut short,
\* or a row that could not be written after its object was; no order of
\* uploads, claims and deletions makes one.
ObjectsAreAccounted ==
  Orphans # {} => \/ "upload" \in raced
                  \/ "job" \in happened
                  \/ "store" \in happened

\* A link that resolves has its object, whoever uploads, shares, claims and
\* deletes meanwhile, and a row that is marked deleted has none.
LinksResolve ==
  \A e \in DOMAIN evidence :
    /\ Public(e) => evidence[e].key \in bucket
    /\ evidence[e].deleted => evidence[e].key \notin bucket

\* The rows tell what the jobs reported: exactly where nothing raced, and
\* without a loss whatever did (persistFindings).
FindingsAreCounted == SerialFindingsAreExact /\ NoOccurrenceLost

\* The storage and the rows agree, link for object and object for row, over
\* uploads, claims, deletions and shares in any order.
ObjectsAndRowsAgree == ObjectsAreAccounted /\ LinksResolve

Due == {e \in DOMAIN evidence : evidence[e].expires = "due"}

\* Evidence whose time has come is deleted in the end, over failing calls and
\* over workers that die holding its claim.
DueIsDeleted ==
  storageOn /\ crew # {} /\ Due # {} ~> \A e \in Due : evidence[e].deleted

=============================================================================
