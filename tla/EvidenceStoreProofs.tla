------------------------- MODULE EvidenceStoreProofs -------------------------
(***************************************************************************)
(* Theorems about EvidenceStore, for any number of mission jobs, retention *)
(* workers, findings and faults, and any size of a batch.                  *)
(***************************************************************************)
EXTENDS EvidenceStore, FiniteSetTheorems, WellFoundedInduction, TLAPS

-----------------------------------------------------------------------------
(***************************************************************************)
(* What the rows and the jobs look like.                                   *)
(***************************************************************************)

FindingRow ==
  [print : Prints, count : Nat \ {0}, sources : SUBSET Reporters, lists : SUBSET Nat]

EvidenceRow ==
  [finding : Nat, shot : BOOLEAN, key : Nat, shared : BOOLEAN, revoked : BOOLEAN,
   expires : {"never", "later", "due"}, claim : {"none", "held", "stale"},
   deleted : BOOLEAN]

JobRow ==
  [pc : {"start", "next", "found", "merge", "made", "list", "upload", "put", "done",
         "gave-up"},
   known : SUBSET Prints, next : Nat, row : Nat, sources : SUBSET Reporters,
   lists : SUBSET Nat, todo : SUBSET Nat, listed : BOOLEAN, key : Nat]

CleanerRow ==
  [pc : {"idle", "claiming"}, todo : SUBSET Nat, claimed : SUBSET Nat, item : Nat]

Reports ==
  \A m \in Reporters : \A i \in DOMAIN reports[m] :
    reports[m][i].times \in Nat \ {0} /\ reports[m][i].shot \in BOOLEAN

Findings ==
  /\ findings \in Seq(FindingRow)
  /\ \A f \in DOMAIN findings :
       findings[f].sources # {} /\ findings[f].lists \subseteq DOMAIN evidence

Evidence ==
  /\ evidence \in Seq(EvidenceRow) /\ lastKey \in Nat /\ bucket \subseteq 1..lastKey
  /\ \A e \in DOMAIN evidence :
       evidence[e].finding \in DOMAIN findings /\ evidence[e].key <= lastKey

\* What job m has read is there; it holds a key as long as it has put an
\* object that no row points to.
Refers(m) ==
  /\ job[m].pc \in {"found", "merge", "made", "list"} =>
       /\ job[m].row \in DOMAIN findings /\ job[m].next \in DOMAIN reports[m]
       /\ findings[job[m].row].print = Current(m).print
  /\ job[m].lists \subseteq DOMAIN evidence
  /\ job[m].todo \subseteq DOMAIN evidence
  /\ job[m].key <= lastKey /\ (job[m].key # None <=> At(m, "put"))
  /\ At(m, "put") => job[m].row \in job[m].todo

Jobs == job \in [Reporters -> JobRow] /\ \A m \in Reporters : Refers(m)

Holds(c) == cleaner[c].claimed \cup ({cleaner[c].item} \ {None})

CleanersInv ==
  /\ cleaner \in [Cleaners -> CleanerRow]
  /\ \A c \in Cleaners :
       cleaner[c].todo \subseteq DOMAIN evidence /\ Holds(c) \subseteq DOMAIN evidence
  /\ sharing \subseteq DOMAIN evidence

EvidenceInv == Reports /\ Findings /\ Evidence /\ Jobs /\ CleanersInv

-----------------------------------------------------------------------------
LEMMA MinIsMember ==
  ASSUME NEW S \in SUBSET Nat, S # {}
  PROVE  Min(S) \in S
<1>1. PICK x \in S : \A y \in S : ~ (<<y, x>> \in OpToRel(<, Nat))
  BY NatLessThanWellFounded, WFMin
<1>2. \A y \in S : x =< y
  <2> SUFFICES ASSUME NEW y \in S, y < x PROVE FALSE
    OBVIOUS
  <2>1. <<y, x>> \in Nat \X Nat /\ <<y, x>>[1] < <<y, x>>[2]
    OBVIOUS
  <2>2. <<y, x>> \in OpToRel(<, Nat)
    BY <2>1 DEF OpToRel
  <2> QED
    BY <1>1, <2>2
<1> QED
  BY <1>2 DEF Min

LEMMA InitEvidence == EvidenceInit => EvidenceInv
<1> SUFFICES ASSUME EvidenceInit PROVE EvidenceInv
  OBVIOUS
<1>1. Reports
  BY ScenarioAssumption DEF EvidenceInit, Reports
<1>2. Findings /\ Evidence
  BY DEF EvidenceInit, Findings, Evidence
<1>3. AtRest \in JobRow
  BY DEF AtRest, JobRow, None
<1>4. Jobs
  BY <1>3 DEF EvidenceInit, Jobs, Refers, At, AtRest, None
<1>5. CleanersInv
  BY DEF EvidenceInit, CleanersInv, CleanerRow, CleanerAtRest, Holds, None
<1> QED
  BY <1>1, <1>2, <1>4, <1>5 DEF EvidenceInv

\* Rows are only added, and keys only given out.
Grows ==
  /\ UNCHANGED reports
  /\ DOMAIN findings \subseteq DOMAIN findings'
  /\ \A f \in DOMAIN findings : findings'[f].print = findings[f].print
  /\ DOMAIN evidence \subseteq DOMAIN evidence'
  /\ lastKey <= lastKey'

LEMMA PrintsStay ==
  ASSUME UNCHANGED reports
  PROVE  Prints' = Prints /\ JobRow' = JobRow /\ FindingRow' = FindingRow
BY DEF Prints, JobRow, FindingRow

LEMMA ReferenceStays ==
  ASSUME EvidenceInv, Grows, lastKey' \in Nat, NEW m \in Reporters, job'[m] = job[m]
  PROVE  Refers(m)'
<1>1. job[m] \in JobRow /\ lastKey \in Nat /\ Refers(m)
  BY DEF EvidenceInv, Jobs, Evidence
<1>2. job[m].key <= lastKey'
  BY <1>1 DEF Refers, JobRow, Grows
<1>3. At(m, "put")' <=> At(m, "put")
  BY DEF At
<1>4. Current(m)' = Current(m)
  BY DEF Current, Grows
<1>5. job[m].pc \in {"found", "merge", "made", "list"} =>
        /\ job[m].row \in DOMAIN findings' /\ job[m].next \in DOMAIN reports'[m]
        /\ findings'[job[m].row].print = Current(m)'.print
  BY <1>1, <1>4 DEF Refers, Grows
<1> QED
  BY <1>1, <1>2, <1>3, <1>5 DEF Refers, Grows

LEMMA JobsStay ==
  ASSUME EvidenceInv, Grows, lastKey' \in Nat, UNCHANGED job
  PROVE  Jobs'
BY ReferenceStays, PrintsStay DEF EvidenceInv, Jobs, Grows

LEMMA JobsMove ==
  ASSUME EvidenceInv, Grows, lastKey' \in Nat, NEW m \in Reporters,
         \E j \in JobRow : job' = [job EXCEPT ![m] = j],
         Refers(m)'
  PROVE  Jobs'
<1>1. job' \in [Reporters -> JobRow] /\ \A k \in Reporters \ {m} : job'[k] = job[k]
  BY DEF EvidenceInv, Jobs
<1>2. \A k \in Reporters \ {m} : Refers(k)'
  BY <1>1, ReferenceStays
<1> QED
  BY <1>1, <1>2, PrintsStay DEF Jobs, Grows

\* Jobs that only read, or give up.
LEMMA ReadingKept ==
  ASSUME EvidenceInv, NEW m \in Reporters,
         \/ ReadKnown(m) \/ ListNewEvidence(m) \/ FindKnown(m) \/ ListUnstored(m)
         \/ PutFails(m) \/ MarkStoredFails(m) \/ JobCrashes(m)
  PROVE  EvidenceInv'
<1>1. /\ UNCHANGED <<findings, evidence, bucket, lastKey, reports, cleaner, sharing>>
      /\ job \in [Reporters -> JobRow] /\ job[m] \in JobRow /\ Refers(m)
      /\ lastKey \in Nat
  BY DEF ReadKnown, ListNewEvidence, FindKnown, ListUnstored, PutFails,
     MarkStoredFails, JobCrashes, findingVars, rowVars, settings, EvidenceInv,
     Jobs, Evidence
<1>2. Grows
  BY <1>1 DEF Grows
<1>3. AtRest \in JobRow /\ \A pc \in {"start", "done", "gave-up"} : Over(pc) \in JobRow
  BY DEF AtRest, Over, JobRow, None
<1>4. Jobs'
  <2>1. CASE ReadKnown(m)
    <3>0. \A f \in DOMAIN findings : findings[f] \in FindingRow
      BY DEF EvidenceInv, Findings
    <3>1. {findings[f].print : f \in DOMAIN findings} \subseteq Prints
      BY <3>0 DEF FindingRow
    <3> DEFINE j == [job[m] EXCEPT !.pc = "next",
                       !.known = {findings[f].print : f \in DOMAIN findings}]
    <3>2. j \in JobRow /\ job' = [job EXCEPT ![m] = j]
      BY <1>1, <2>1, <3>1 DEF ReadKnown, JobRow
    <3>3. /\ job'[m].pc = "next" /\ job'[m].lists = job[m].lists
          /\ job'[m].todo = job[m].todo /\ job'[m].key = job[m].key
      BY <1>1, <3>2 DEF JobRow
    <3>4. Refers(m)'
      BY <1>1, <2>1, <3>3 DEF ReadKnown, Refers, At
    <3> QED
      BY <1>1, <1>2, <3>2, <3>4, JobsMove
  <2>2. CASE ListNewEvidence(m)
    <3> DEFINE j == [job[m] EXCEPT !.pc = "list",
                       !.lists = {e \in DOMAIN evidence :
                                    evidence[e].finding = job[m].row}]
    <3>1. DOMAIN evidence \subseteq Nat
      BY DEF EvidenceInv, Evidence
    <3>2. j \in JobRow /\ job' = [job EXCEPT ![m] = j]
      BY <1>1, <2>2, <3>1 DEF ListNewEvidence, JobRow
    <3>3. /\ j.pc = "list" /\ j.row = job[m].row /\ j.next = job[m].next
          /\ j.lists \subseteq DOMAIN evidence /\ j.todo = job[m].todo /\ j.key = job[m].key
      BY <1>1 DEF JobRow
    <3>4. job'[m] = j
      BY <1>1, <3>2
    <3>5. Refers(m)'
      BY <1>1, <2>2, <3>3, <3>4 DEF ListNewEvidence, Refers, At, Current
    <3> QED
      BY <1>1, <1>2, <3>2, <3>5, JobsMove
  <2>3. CASE FindKnown(m)
    <3>1. PICK f \in RowsOf(Current(m).print) :
            job' = [job EXCEPT ![m].pc = "found", ![m].row = f,
                               ![m].sources = findings[f].sources,
                               ![m].lists = findings[f].lists]
      BY <2>3 DEF FindKnown
    <3> DEFINE j == [job[m] EXCEPT !.pc = "found", !.row = f,
                       !.sources = findings[f].sources, !.lists = findings[f].lists]
    <3>2. /\ f \in DOMAIN findings /\ findings[f].print = Current(m).print
          /\ findings[f] \in FindingRow /\ f \in Nat
          /\ findings[f].lists \subseteq DOMAIN evidence
      BY DEF RowsOf, EvidenceInv, Findings
    <3>3. j \in JobRow /\ job' = [job EXCEPT ![m] = j]
      BY <1>1, <3>1, <3>2 DEF JobRow, FindingRow
    <3>4. /\ j.pc = "found" /\ j.row = f /\ j.next = job[m].next
          /\ j.lists = findings[f].lists /\ j.todo = job[m].todo /\ j.key = job[m].key
      BY <1>1 DEF JobRow
    <3>5. job'[m] = j
      BY <1>1, <3>3
    <3>6. Current(m)' = Current(m) /\ At(m, "next") /\ job[m].next \in DOMAIN reports[m]
      BY <1>1, <2>3, <3>4, <3>5 DEF FindKnown, Current
    <3>7. Refers(m)'
      BY <1>1, <3>2, <3>4, <3>5, <3>6 DEF Refers, At
    <3> QED
      BY <1>1, <1>2, <3>3, <3>7, JobsMove
  <2>4. CASE ListUnstored(m)
    <3> DEFINE u == [AtRest EXCEPT !.pc = "upload", !.todo = Unstored,
                                   !.listed = Unstored # {}]
               j == IF storageOn THEN u ELSE Over("done")
    <3>1. Unstored \subseteq DOMAIN evidence /\ DOMAIN evidence \subseteq Nat
      BY DEF Unstored, EvidenceInv, Evidence
    <3>2. u \in JobRow
      BY <1>3, <3>1 DEF JobRow
    <3>3. j \in JobRow /\ job' = [job EXCEPT ![m] = j]
      <4>1. j \in JobRow
        BY <1>3, <3>2
      <4>2. job' = [job EXCEPT ![m] = j]
        BY <2>4 DEF ListUnstored
      <4> QED
        BY <4>1, <4>2
    <3>4. /\ j.pc \in {"upload", "done"} /\ j.lists = {} /\ j.key = None
          /\ j.todo \subseteq DOMAIN evidence
      BY <3>1 DEF Over, AtRest
    <3>5. job'[m] = j
      BY <1>1, <3>3
    <3>6. Refers(m)'
      BY <1>1, <3>4, <3>5 DEF Refers, At, None
    <3> QED
      BY <1>1, <1>2, <3>3, <3>6, JobsMove
  <2>5. CASE PutFails(m)
    <3> DEFINE j == [job[m] EXCEPT !.todo = @ \ {Min(@)}]
    <3>1. j \in JobRow /\ job' = [job EXCEPT ![m] = j]
      BY <1>1, <2>5 DEF PutFails, JobRow
    <3>2. /\ j.pc = job[m].pc /\ j.lists = job[m].lists /\ j.key = job[m].key
          /\ j.todo \subseteq job[m].todo
      BY <1>1 DEF JobRow
    <3>3. job'[m] = j
      BY <1>1, <3>1
    <3>4. Refers(m)'
      BY <1>1, <2>5, <3>2, <3>3 DEF PutFails, Refers, At
    <3> QED
      BY <1>1, <1>2, <3>1, <3>4, JobsMove
  <2>6. CASE MarkStoredFails(m)
    <3> DEFINE j == [job[m] EXCEPT !.pc = "upload", !.todo = @ \ {job[m].row},
                                   !.row = None, !.key = None]
    <3>1. j \in JobRow /\ job' = [job EXCEPT ![m] = j]
      BY <1>1, <2>6 DEF MarkStoredFails, JobRow, None
    <3>2. /\ j.pc = "upload" /\ j.lists = job[m].lists /\ j.key = None
          /\ j.todo \subseteq job[m].todo
      BY <1>1 DEF JobRow
    <3>3. job'[m] = j
      BY <1>1, <3>1
    <3>4. Refers(m)'
      BY <1>1, <3>2, <3>3 DEF Refers, At, None
    <3> QED
      BY <1>1, <1>2, <3>1, <3>4, JobsMove
  <2>7. CASE JobCrashes(m)
    <3>1. PICK pc \in {"start", "gave-up"} : job' = [job EXCEPT ![m] = Over(pc)]
      BY <2>7 DEF JobCrashes
    <3>2. Over(pc).pc = pc /\ Over(pc).lists = {} /\ Over(pc).key = None /\ Over(pc).todo = {}
      BY DEF Over, AtRest
    <3>3. job'[m] = Over(pc)
      BY <1>1, <3>1
    <3>4. Refers(m)'
      BY <1>1, <3>2, <3>3 DEF Refers, At, None
    <3> QED
      BY <1>1, <1>2, <1>3, <3>1, <3>4, JobsMove
  <2> QED
    BY <2>1, <2>2, <2>3, <2>4, <2>5, <2>6, <2>7
<1> QED
  BY <1>1, <1>4, PrintsStay DEF EvidenceInv, Reports, Findings, Evidence,
     CleanersInv, Holds

LEMMA EvidenceGrows ==
  ASSUME EvidenceInv, NEW f \in Nat, NEW shot \in BOOLEAN,
         evidence' = Append(evidence, EvidenceOf(f, shot))
  PROVE  /\ evidence' \in Seq(EvidenceRow)
         /\ DOMAIN evidence' = DOMAIN evidence \cup {Len(evidence) + 1}
         /\ \A e \in DOMAIN evidence : evidence'[e] = evidence[e]
         /\ evidence'[Len(evidence) + 1] = EvidenceOf(f, shot)
         /\ DOMAIN evidence \subseteq Nat /\ Len(evidence) + 1 \in Nat \ DOMAIN evidence
<1>1. EvidenceOf(f, shot) \in EvidenceRow
  BY DEF EvidenceOf, EvidenceRow, None
<1>2. evidence \in Seq(EvidenceRow) /\ DOMAIN evidence = 1..Len(evidence) /\ Len(evidence) \in Nat
  BY DEF EvidenceInv, Evidence
<1>3. evidence' \in Seq(EvidenceRow) /\ Len(evidence') = Len(evidence) + 1
  BY <1>1, <1>2
<1>4. DOMAIN evidence' = 1..(Len(evidence) + 1)
  BY <1>3
<1>5. /\ \A e \in 1..Len(evidence) : evidence'[e] = evidence[e]
      /\ evidence'[Len(evidence) + 1] = EvidenceOf(f, shot)
  BY <1>1, <1>2
<1> QED
  BY <1>2, <1>3, <1>4, <1>5

\* Rows that change one by one, none added.
LEMMA EvidenceChanges ==
  ASSUME EvidenceInv, NEW seq, DOMAIN seq = DOMAIN evidence,
         seq = [e \in DOMAIN seq |-> seq[e]],
         \A e \in DOMAIN evidence : seq[e] \in EvidenceRow
  PROVE  seq \in Seq(EvidenceRow)
<1>1. DOMAIN evidence = 1..Len(evidence) /\ Len(evidence) \in Nat
  BY DEF EvidenceInv, Evidence
<1> QED
  BY <1>1

LEMMA CreateKept ==
  ASSUME EvidenceInv, NEW m \in Reporters, CreateFinding(m)
  PROVE  EvidenceInv'
<1>1. /\ UNCHANGED <<bucket, lastKey, reports, cleaner, sharing>>
      /\ job \in [Reporters -> JobRow] /\ job[m] \in JobRow /\ Refers(m)
      /\ lastKey \in Nat /\ findings \in Seq(FindingRow)
      /\ job[m].pc = "next" /\ job[m].next \in DOMAIN reports[m]
  BY DEF CreateFinding, settings, EvidenceInv, Jobs, Evidence, Findings, At
<1> DEFINE f == Len(findings) + 1
           row == [print |-> Current(m).print, count |-> Current(m).times,
                   sources |-> {m}, lists |-> {}]
<1>2. Current(m).times \in Nat \ {0} /\ Current(m).shot \in BOOLEAN
  BY <1>1 DEF EvidenceInv, Reports, Current
<1>3. Current(m).print \in Prints
  BY <1>1 DEF Current, Prints, Range
<1>4. row \in FindingRow
  BY <1>2, <1>3 DEF FindingRow
<1>5. f \in Nat /\ DOMAIN findings = 1..Len(findings)
  BY <1>1
<1>6. /\ findings' \in Seq(FindingRow) /\ DOMAIN findings' = DOMAIN findings \cup {f}
      /\ \A g \in DOMAIN findings : findings'[g] = findings[g]
      /\ findings'[f] = row
  <2>1. findings' = Append(findings, row)
    BY DEF CreateFinding
  <2>2. findings' \in Seq(FindingRow) /\ Len(findings') = f
    BY <1>1, <1>4, <2>1
  <2> QED
    BY <1>1, <1>4, <1>5, <2>1, <2>2
<1>7. evidence' = Append(evidence, EvidenceOf(f, Current(m).shot))
  BY DEF CreateFinding
<1>8. Grows
  BY <1>1, <1>2, <1>5, <1>6, <1>7, EvidenceGrows DEF Grows
<1>9. Findings'
  <2>1. row.sources # {} /\ row.lists = {}
    OBVIOUS
  <2> QED
    BY <1>1, <1>6, <1>8, <2>1, PrintsStay DEF Findings, EvidenceInv, Grows
<1>10. Evidence'
  <2>1. EvidenceOf(f, Current(m).shot).finding = f
        /\ EvidenceOf(f, Current(m).shot).key = None
    BY DEF EvidenceOf
  <2>2. \A e \in DOMAIN evidence : /\ evidence[e].finding \in DOMAIN findings
                                   /\ evidence[e].key <= lastKey
    BY DEF EvidenceInv, Evidence
  <2>3. \A e \in DOMAIN evidence' : /\ evidence'[e].finding \in DOMAIN findings'
                                    /\ evidence'[e].key <= lastKey
    BY <1>1, <1>2, <1>5, <1>6, <1>7, <2>1, <2>2, EvidenceGrows DEF None
  <2> QED
    BY <1>1, <1>2, <1>5, <1>7, <2>3, EvidenceGrows DEF Evidence, EvidenceInv
<1>11. Jobs'
  <2> DEFINE j == [job[m] EXCEPT !.pc = "made", !.row = f]
  <2>1. j \in JobRow /\ job' = [job EXCEPT ![m] = j]
    BY <1>1, <1>5 DEF CreateFinding, JobRow
  <2>2. /\ j.pc = "made" /\ j.row = f /\ j.next = job[m].next /\ j.lists = job[m].lists
        /\ j.todo = job[m].todo /\ j.key = job[m].key
    BY <1>1 DEF JobRow
  <2>3. job'[m] = j
    BY <1>1, <2>1
  <2>4. Current(m)' = Current(m)
    BY <1>1, <2>2, <2>3 DEF Current
  <2>5. Refers(m)'
    BY <1>1, <1>6, <1>8, <2>2, <2>3, <2>4 DEF Refers, At, Grows
  <2> QED
    BY <1>1, <1>8, <2>1, <2>5, JobsMove
<1>12. CleanersInv'
  BY <1>1, <1>8 DEF EvidenceInv, CleanersInv, Holds, Grows
<1> QED
  BY <1>1, <1>9, <1>10, <1>11, <1>12 DEF EvidenceInv, Reports

LEMMA AddKept ==
  ASSUME EvidenceInv, NEW m \in Reporters, AddEvidence(m)
  PROVE  EvidenceInv'
<1>1. /\ UNCHANGED <<findings, bucket, lastKey, reports, cleaner, sharing>>
      /\ job \in [Reporters -> JobRow] /\ job[m] \in JobRow /\ Refers(m)
      /\ lastKey \in Nat /\ findings \in Seq(FindingRow)
      /\ job[m].pc = "found" /\ job[m].row \in DOMAIN findings
      /\ job[m].next \in DOMAIN reports[m]
  BY DEF AddEvidence, settings, findingVars, EvidenceInv, Jobs, Evidence,
     Findings, At, Refers
<1>2. Current(m).shot \in BOOLEAN /\ job[m].row \in Nat
  BY <1>1 DEF EvidenceInv, Reports, Current
<1>3. evidence' = Append(evidence, EvidenceOf(job[m].row, Current(m).shot))
  BY DEF AddEvidence
<1>4. Grows
  BY <1>1, <1>2, <1>3, EvidenceGrows DEF Grows
<1>5. Findings'
  BY <1>1, <1>4, PrintsStay DEF Findings, EvidenceInv, Grows
<1>6. Evidence'
  <2>1. EvidenceOf(job[m].row, Current(m).shot).finding = job[m].row
        /\ EvidenceOf(job[m].row, Current(m).shot).key = None
    BY DEF EvidenceOf
  <2>2. \A e \in DOMAIN evidence : /\ evidence[e].finding \in DOMAIN findings
                                   /\ evidence[e].key <= lastKey
    BY DEF EvidenceInv, Evidence
  <2>3. \A e \in DOMAIN evidence' : /\ evidence'[e].finding \in DOMAIN findings'
                                    /\ evidence'[e].key <= lastKey
    BY <1>1, <1>2, <1>3, <2>1, <2>2, EvidenceGrows DEF None
  <2> QED
    BY <1>1, <1>2, <1>3, <2>3, EvidenceGrows DEF Evidence, EvidenceInv
<1>7. Jobs'
  <2> DEFINE j == [job[m] EXCEPT !.pc = "merge", !.lists = @ \cup {Len(evidence) + 1}]
  <2>1. j \in JobRow /\ job' = [job EXCEPT ![m] = j]
    BY <1>1, <1>2, <1>3, EvidenceGrows DEF AddEvidence, JobRow
  <2>2. /\ j.pc = "merge" /\ j.row = job[m].row /\ j.next = job[m].next
        /\ j.lists = job[m].lists \cup {Len(evidence) + 1}
        /\ j.todo = job[m].todo /\ j.key = job[m].key
    BY <1>1 DEF JobRow
  <2>3. job'[m] = j
    BY <1>1, <2>1
  <2>4. Current(m)' = Current(m)
    BY <1>1, <2>2, <2>3 DEF Current
  <2>5. j.lists \subseteq DOMAIN evidence'
    BY <1>1, <1>2, <1>3, <2>2, EvidenceGrows DEF Refers
  <2>6. Refers(m)'
    BY <1>1, <1>4, <2>2, <2>3, <2>4, <2>5 DEF Refers, At, Grows
  <2> QED
    BY <1>1, <1>4, <2>1, <2>6, JobsMove
<1>8. CleanersInv'
  BY <1>1, <1>4 DEF EvidenceInv, CleanersInv, Holds, Grows
<1> QED
  BY <1>1, <1>5, <1>6, <1>7, <1>8 DEF EvidenceInv, Reports

\* A row that is written again keeps its fingerprint.
LEMMA MergeKept ==
  ASSUME EvidenceInv, NEW m \in Reporters, WriteNewEvidence(m) \/ Merge(m)
  PROVE  EvidenceInv'
<1>1. /\ UNCHANGED <<evidence, bucket, lastKey, reports, cleaner, sharing>>
      /\ job \in [Reporters -> JobRow] /\ job[m] \in JobRow /\ Refers(m)
      /\ lastKey \in Nat /\ findings \in Seq(FindingRow)
      /\ job[m].pc \in {"list", "merge"} /\ job[m].row \in DOMAIN findings
      /\ job[m].next \in DOMAIN reports[m]
  BY DEF WriteNewEvidence, Merge, settings, rowVars, EvidenceInv, Jobs,
     Evidence, Findings, At, Refers
<1>2. /\ findings[job[m].row] \in FindingRow /\ job[m].lists \subseteq DOMAIN evidence
      /\ DOMAIN evidence \subseteq Nat
      /\ Current(m).times \in Nat \ {0} /\ Current(m).print \in Prints
  BY <1>1 DEF Refers, EvidenceInv, Evidence, Reports, Current, Prints, Range
<1>3. PICK row \in FindingRow :
        /\ findings' = [findings EXCEPT ![job[m].row] = row]
        /\ row.print = findings[job[m].row].print
        /\ row.sources # {} /\ row.lists \subseteq DOMAIN evidence
  <2>1. CASE WriteNewEvidence(m)
    <3> DEFINE row == [findings[job[m].row] EXCEPT !.lists = job[m].lists]
    <3>1. /\ row \in FindingRow /\ row.print = findings[job[m].row].print
          /\ row.sources = findings[job[m].row].sources /\ row.lists = job[m].lists
      BY <1>2 DEF FindingRow
    <3>2. findings' = [findings EXCEPT ![job[m].row] = row]
      BY <1>1, <2>1 DEF WriteNewEvidence
    <3>3. findings[job[m].row].sources # {}
      BY <1>1 DEF EvidenceInv, Findings
    <3> QED
      BY <1>2, <3>1, <3>2, <3>3
  <2>2. CASE Merge(m)
    <3> DEFINE row == [findings[job[m].row] EXCEPT
                         !.count = @ + Current(m).times,
                         !.sources = job[m].sources \cup {m}, !.lists = job[m].lists]
    <3>0. /\ findings[job[m].row].count + Current(m).times \in Nat \ {0}
          /\ job[m].sources \subseteq Reporters /\ job[m].lists \subseteq Nat
      BY <1>1, <1>2 DEF FindingRow, JobRow
    <3>1. /\ row \in FindingRow /\ row.print = findings[job[m].row].print
          /\ row.sources = job[m].sources \cup {m} /\ row.lists = job[m].lists
      BY <1>2, <3>0 DEF FindingRow
    <3>2. findings' = [findings EXCEPT ![job[m].row] = row]
      BY <1>1, <2>2 DEF Merge
    <3> QED
      BY <1>2, <3>1, <3>2
  <2> QED
    BY <2>1, <2>2
<1>4. /\ findings' \in Seq(FindingRow) /\ DOMAIN findings' = DOMAIN findings
      /\ findings'[job[m].row] = row
      /\ \A f \in DOMAIN findings \ {job[m].row} : findings'[f] = findings[f]
  BY <1>1, <1>3
<1>5. Grows
  BY <1>1, <1>3, <1>4 DEF Grows
<1>6. Findings'
  BY <1>1, <1>3, <1>4, PrintsStay DEF Findings, EvidenceInv
<1>7. Evidence'
  BY <1>1, <1>4 DEF EvidenceInv, Evidence
<1>8. Jobs'
  <2> DEFINE a == Advanced(job[m])
             b == [a EXCEPT !.known = @ \cup {Current(m).print}]
  <2>1. a \in JobRow /\ a.pc = "next" /\ a.lists = {} /\ a.todo = job[m].todo
        /\ a.key = job[m].key
    <3>1. a = [job[m] EXCEPT !.pc = "next", !.next = job[m].next + 1, !.row = 0,
                             !.sources = {}, !.lists = {}]
      BY DEF Advanced, None
    <3>2. job[m].next + 1 \in Nat
      BY <1>1 DEF JobRow
    <3>3. [job[m] EXCEPT !.pc = "next", !.next = job[m].next + 1, !.row = 0,
                         !.sources = {}, !.lists = {}] \in JobRow
      BY <1>1, <3>2 DEF JobRow
    <3>4. /\ a.pc = "next" /\ a.lists = {}
          /\ a.todo = job[m].todo /\ a.key = job[m].key
      BY <1>1 DEF Advanced, JobRow
    <3> QED
      BY <3>1, <3>3, <3>4
  <2>2. b \in JobRow /\ b.pc = "next" /\ b.lists = {} /\ b.todo = job[m].todo
        /\ b.key = job[m].key
    BY <1>2, <2>1 DEF JobRow
  <2>3. job' = [job EXCEPT ![m] = a] \/ job' = [job EXCEPT ![m] = b]
    BY DEF WriteNewEvidence, Merge
  <2>4. job'[m] \in {a, b}
    BY <1>1, <2>3
  <2>5. /\ job'[m].pc = "next" /\ job'[m].lists = {} /\ job'[m].todo = job[m].todo
        /\ job'[m].key = job[m].key
    BY <2>1, <2>2, <2>4
  <2>6. Refers(m)'
    BY <1>1, <2>5 DEF Refers, At
  <2> QED
    BY <1>1, <1>5, <2>1, <2>2, <2>3, <2>6, JobsMove
<1>9. CleanersInv'
  BY <1>1 DEF EvidenceInv, CleanersInv, Holds
<1> QED
  BY <1>1, <1>6, <1>7, <1>8, <1>9 DEF EvidenceInv, Reports

LEMMA PutKept ==
  ASSUME EvidenceInv, NEW m \in Reporters, PutObject(m)
  PROVE  EvidenceInv'
<1>1. /\ UNCHANGED <<findings, evidence, reports, cleaner, sharing>>
      /\ job \in [Reporters -> JobRow] /\ job[m] \in JobRow /\ Refers(m)
      /\ lastKey \in Nat /\ lastKey' = lastKey + 1 /\ bucket' = bucket \cup {lastKey + 1}
      /\ job[m].todo # {}
  BY DEF PutObject, settings, findingVars, EvidenceInv, Jobs, Evidence
<1>2. Grows
  BY <1>1 DEF Grows
<1>3. Findings'
  BY <1>1, PrintsStay DEF EvidenceInv, Findings
<1>4. Evidence'
  <2>1. bucket' \subseteq 1..lastKey'
    BY <1>1 DEF EvidenceInv, Evidence
  <2>2. \A e \in DOMAIN evidence : evidence[e].key <= lastKey + 1
    <3>1. \A e \in DOMAIN evidence : evidence[e] \in EvidenceRow /\ evidence[e].key <= lastKey
      BY DEF EvidenceInv, Evidence
    <3> QED
      BY <1>1, <3>1 DEF EvidenceRow
  <2> QED
    BY <1>1, <2>1, <2>2 DEF EvidenceInv, Evidence
<1>5. Jobs'
  <2> DEFINE j == [job[m] EXCEPT !.pc = "put", !.row = Min(job[m].todo),
                                 !.key = lastKey + 1]
  <2>1. Min(job[m].todo) \in job[m].todo /\ job[m].todo \subseteq Nat
    BY <1>1, MinIsMember DEF JobRow
  <2>0. lastKey + 1 \in Nat /\ lastKey' \in Nat
    BY <1>1
  <2>2. j \in JobRow /\ job' = [job EXCEPT ![m] = j]
    <3>1. Min(job[m].todo) \in Nat
      BY <2>1
    <3>2. j \in JobRow
      BY <1>1, <2>0, <3>1 DEF JobRow
    <3>3. job' = [job EXCEPT ![m] = j]
      BY DEF PutObject
    <3> QED
      BY <3>2, <3>3
  <2>3. /\ j.pc = "put" /\ j.row = Min(job[m].todo) /\ j.key = lastKey + 1
        /\ j.lists = job[m].lists /\ j.todo = job[m].todo
    BY <1>1 DEF JobRow
  <2>4. job'[m] = j
    BY <1>1, <2>2
  <2>5. Refers(m)'
    BY <1>1, <2>1, <2>3, <2>4 DEF Refers, At, None
  <2> QED
    BY <1>2, <2>0, <2>2, <2>5, JobsMove
<1>6. CleanersInv'
  BY <1>1 DEF EvidenceInv, CleanersInv, Holds
<1> QED
  BY <1>1, <1>3, <1>4, <1>5, <1>6 DEF EvidenceInv, Reports

\* Steps that change rows of evidence and nothing else that is stored.
Rewrites ==
  /\ UNCHANGED <<findings, bucket, lastKey, reports>>
  /\ evidence' \in Seq(EvidenceRow) /\ DOMAIN evidence' = DOMAIN evidence
  /\ \A e \in DOMAIN evidence : /\ evidence'[e].finding = evidence[e].finding
                                /\ evidence'[e].key <= lastKey

LEMMA RewritesKept ==
  ASSUME EvidenceInv, Rewrites
  PROVE  Grows /\ lastKey' \in Nat /\ Reports' /\ Findings' /\ Evidence'
<1>1. Grows /\ lastKey' \in Nat /\ Reports'
  BY DEF Rewrites, Grows, EvidenceInv, Evidence, Reports
<1>2. Findings'
  BY PrintsStay DEF Rewrites, EvidenceInv, Findings
<1>3. Evidence'
  BY DEF Rewrites, EvidenceInv, Evidence
<1> QED
  BY <1>1, <1>2, <1>3

\* The row that MarkStored writes, and those that are written one at a time.
LEMMA RowChanges ==
  ASSUME EvidenceInv, NEW e \in DOMAIN evidence, NEW row \in EvidenceRow,
         evidence' = [evidence EXCEPT ![e] = row]
  PROVE  /\ evidence' \in Seq(EvidenceRow) /\ DOMAIN evidence' = DOMAIN evidence
         /\ evidence'[e] = row
         /\ \A d \in DOMAIN evidence \ {e} : evidence'[d] = evidence[d]
BY DEF EvidenceInv, Evidence

LEMMA StoreKept ==
  ASSUME EvidenceInv, NEW m \in Reporters, MarkStored(m) \/ MarkRetention(m)
  PROVE  EvidenceInv'
<1>1. /\ UNCHANGED <<findings, bucket, lastKey, reports, cleaner, sharing>>
      /\ job \in [Reporters -> JobRow] /\ job[m] \in JobRow /\ Refers(m)
      /\ lastKey \in Nat
      /\ \A e \in DOMAIN evidence : evidence[e] \in EvidenceRow /\ evidence[e].key <= lastKey
  BY DEF MarkStored, MarkRetention, settings, findingVars, EvidenceInv, Jobs,
     Evidence
<1>2. Rewrites
  <2>1. CASE MarkStored(m)
    <3> DEFINE row == [evidence[job[m].row] EXCEPT !.key = job[m].key]
    <3>1. job[m].row \in DOMAIN evidence /\ job[m].key <= lastKey /\ job[m].key \in Nat
      BY <1>1, <2>1 DEF MarkStored, Refers, JobRow
    <3>2. /\ row \in EvidenceRow /\ row.finding = evidence[job[m].row].finding
          /\ row.key = job[m].key
      BY <1>1, <3>1 DEF EvidenceRow
    <3>3. evidence' = [evidence EXCEPT ![job[m].row] = row]
      BY <2>1, <3>1 DEF MarkStored
    <3>4. /\ evidence' \in Seq(EvidenceRow) /\ DOMAIN evidence' = DOMAIN evidence
          /\ evidence'[job[m].row] = row
          /\ \A d \in DOMAIN evidence \ {job[m].row} : evidence'[d] = evidence[d]
      BY <3>1, <3>2, <3>3, RowChanges
    <3> QED
      BY <1>1, <3>1, <3>2, <3>4 DEF Rewrites
  <2>2. CASE MarkRetention(m) /\ job[m].listed
    <3>1. evidence' = [e \in DOMAIN evidence |->
                         IF evidence[e].expires = "never"
                         THEN [evidence[e] EXCEPT !.expires = "later"]
                         ELSE evidence[e]]
      BY <2>2 DEF MarkRetention
    <3>2. \A e \in DOMAIN evidence :
            /\ evidence'[e] \in EvidenceRow
            /\ evidence'[e].finding = evidence[e].finding
            /\ evidence'[e].key = evidence[e].key
      BY <1>1, <3>1 DEF EvidenceRow
    <3>3. evidence' \in Seq(EvidenceRow) /\ DOMAIN evidence' = DOMAIN evidence
      BY <3>1, <3>2, EvidenceChanges
    <3> QED
      BY <1>1, <3>2, <3>3 DEF Rewrites
  <2>3. CASE MarkRetention(m) /\ ~job[m].listed
    <3>1. evidence' = evidence
      BY <2>3 DEF MarkRetention
    <3> QED
      BY <1>1, <3>1 DEF Rewrites, EvidenceInv, Evidence
  <2> QED
    BY <2>1, <2>2, <2>3
<1>3. Jobs'
  <2>1. CASE MarkStored(m)
    <3> DEFINE j == [job[m] EXCEPT !.pc = "upload", !.todo = @ \ {job[m].row},
                                   !.row = None, !.key = None]
    <3>1. j \in JobRow /\ job' = [job EXCEPT ![m] = j]
      BY <1>1, <2>1 DEF MarkStored, JobRow, None
    <3>2. /\ j.pc = "upload" /\ j.lists = job[m].lists /\ j.key = None
          /\ j.todo \subseteq job[m].todo
      BY <1>1 DEF JobRow
    <3>3. job'[m] = j
      BY <1>1, <3>1
    <3>4. Refers(m)'
      BY <1>1, <1>2, <3>2, <3>3 DEF Refers, At, None, Rewrites
    <3> QED
      BY <1>1, <1>2, <3>1, <3>4, RewritesKept, JobsMove
  <2>2. CASE MarkRetention(m)
    <3>1. Over("done") \in JobRow
      BY DEF AtRest, Over, JobRow, None
    <3>2. job' = [job EXCEPT ![m] = Over("done")]
      BY <2>2 DEF MarkRetention
    <3>3. /\ Over("done").pc = "done" /\ Over("done").lists = {} /\ Over("done").todo = {}
          /\ Over("done").key = None
      BY DEF Over, AtRest
    <3>4. job'[m] = Over("done")
      BY <1>1, <3>2
    <3>5. Refers(m)'
      BY <1>1, <3>3, <3>4 DEF Refers, At, None
    <3> QED
      BY <1>1, <1>2, <3>1, <3>2, <3>5, RewritesKept, JobsMove
  <2> QED
    BY <2>1, <2>2
<1>4. CleanersInv'
  BY <1>1, <1>2 DEF EvidenceInv, CleanersInv, Holds, Rewrites
<1> QED
  BY <1>2, <1>3, <1>4, RewritesKept DEF EvidenceInv

\* What a retention worker may do to a row ...
Kept(e) ==
  /\ evidence'[e].finding = evidence[e].finding /\ evidence'[e].key = evidence[e].key
  /\ evidence'[e].expires = evidence[e].expires
  /\ evidence[e].revoked => evidence'[e].revoked

\* ... and to what it holds: it takes rows that are due, revokes what it
\* claims, and marks only the row whose object it has deleted.
CleanerDoes(c) ==
  /\ UNCHANGED <<findings, raced, lastKey, job, reports, sharing>>
  /\ happened \subseteq happened'
  /\ evidence' \in Seq(EvidenceRow) /\ DOMAIN evidence' = DOMAIN evidence
  /\ \A e \in DOMAIN evidence :
       Kept(e) /\ (evidence'[e].deleted => evidence[e].deleted \/ e = cleaner[c].item)
  /\ cleaner' \in [Cleaners -> CleanerRow]
  /\ \A k \in Cleaners \ {c} : cleaner'[k] = cleaner[k]
  /\ \A e \in cleaner'[c].todo :
       e \in cleaner[c].todo \/ (e \in DOMAIN evidence /\ evidence[e].expires = "due")
  /\ \A e \in cleaner'[c].claimed :
       e \in cleaner[c].claimed \/ (e \in cleaner[c].todo /\ evidence'[e].revoked)
  /\ \/ cleaner'[c].item \in {None, cleaner[c].item} /\ UNCHANGED bucket
     \/ /\ cleaner'[c].item \in cleaner[c].claimed
        /\ bucket' = bucket \ {evidence[cleaner'[c].item].key}

LEMMA CleanerRests == CleanerAtRest \in CleanerRow
BY DEF CleanerAtRest, CleanerRow, None

\* The rows as a worker leaves them.
Touched(c) ==
  /\ evidence' \in Seq(EvidenceRow) /\ DOMAIN evidence' = DOMAIN evidence
  /\ \A e \in DOMAIN evidence :
       Kept(e) /\ (evidence'[e].deleted => evidence[e].deleted \/ e = cleaner[c].item)

\* The row that a worker writes.
LEMMA CleanerWrites ==
  ASSUME EvidenceInv, NEW c \in Cleaners, NEW e \in DOMAIN evidence,
         NEW row \in EvidenceRow, evidence' = [evidence EXCEPT ![e] = row],
         row.finding = evidence[e].finding, row.key = evidence[e].key,
         row.expires = evidence[e].expires, evidence[e].revoked => row.revoked,
         row.deleted => evidence[e].deleted \/ e = cleaner[c].item
  PROVE  Touched(c)
BY RowChanges DEF Kept, Touched

LEMMA CleanerMoves ==
  ASSUME EvidenceInv, NEW c \in Cleaners, NEW r \in CleanerRow, Touched(c),
         cleaner' = [cleaner EXCEPT ![c] = r],
         UNCHANGED <<findings, raced, lastKey, job, reports, sharing>>,
         happened \subseteq happened',
         \A e \in r.todo :
           e \in cleaner[c].todo \/ (e \in DOMAIN evidence /\ evidence[e].expires = "due"),
         \A e \in r.claimed :
           e \in cleaner[c].claimed \/ (e \in cleaner[c].todo /\ evidence'[e].revoked),
         \/ r.item \in {None, cleaner[c].item} /\ UNCHANGED bucket
         \/ r.item \in cleaner[c].claimed /\ bucket' = bucket \ {evidence[r.item].key}
  PROVE  CleanerDoes(c)
<1>1. /\ cleaner' \in [Cleaners -> CleanerRow] /\ cleaner'[c] = r
      /\ \A k \in Cleaners \ {c} : cleaner'[k] = cleaner[k]
  BY DEF EvidenceInv, CleanersInv
<1> QED
  BY <1>1 DEF CleanerDoes, Touched

LEMMA CleanerActs ==
  ASSUME EvidenceInv, NEW c \in Cleaners,
         \/ CleanerStep(c) \/ DeleteFails(c) \/ MarkDeletedFails(c) \/ CleanerCrashes(c)
  PROVE  CleanerDoes(c)
<1>1. /\ cleaner \in [Cleaners -> CleanerRow] /\ cleaner[c] \in CleanerRow
      /\ evidence \in Seq(EvidenceRow) /\ DOMAIN evidence \subseteq Nat
      /\ \A e \in DOMAIN evidence : evidence[e] \in EvidenceRow
      /\ cleaner[c].todo \subseteq DOMAIN evidence /\ Holds(c) \subseteq DOMAIN evidence
      /\ cleaner[c].claimed \subseteq Nat /\ cleaner[c].todo \subseteq Nat
  BY DEF EvidenceInv, CleanersInv, Evidence, CleanerRow
<1>2. UNCHANGED evidence => Touched(c)
  BY <1>1 DEF Kept, Touched
<1>3. CASE ListDue(c)
  <2> DEFINE due == {e \in DOMAIN evidence : Claimable(e)}
  <2>1. PICK batch \in SUBSET due :
          cleaner' = [cleaner EXCEPT ![c].pc = "claiming", ![c].todo = batch]
    BY <1>3 DEF ListDue
  <2> DEFINE r == [cleaner[c] EXCEPT !.pc = "claiming", !.todo = batch]
  <2>2. /\ r \in CleanerRow /\ r.todo = batch /\ r.claimed = cleaner[c].claimed
        /\ r.item = cleaner[c].item
    BY <1>1 DEF CleanerRow
  <2>3. cleaner' = [cleaner EXCEPT ![c] = r]
    BY <2>1
  <2>4. \A e \in batch : e \in DOMAIN evidence /\ evidence[e].expires = "due"
    BY DEF Claimable
  <2>5. UNCHANGED <<findings, raced, lastKey, job, reports, sharing, happened, evidence, bucket>>
    BY <1>3 DEF ListDue, findingVars, rowVars, settings, budgetVars
  <2> HIDE DEF r
  <2> QED
    BY <1>2, <2>2, <2>3, <2>4, <2>5, CleanerMoves
<1>4. CASE Claim(c)
  <2> DEFINE e == Min(cleaner[c].todo)
             row == [evidence[e] EXCEPT !.claim = "held", !.revoked = TRUE, !.shared = FALSE]
             r == [cleaner[c] EXCEPT !.todo = @ \ {e},
                     !.claimed = IF Claimable(e) THEN @ \cup {e} ELSE @]
  <2>1. e \in cleaner[c].todo /\ e \in DOMAIN evidence
    BY <1>1, <1>4, MinIsMember DEF Claim
  <2>2. /\ r \in CleanerRow /\ r.todo \subseteq cleaner[c].todo /\ r.item = cleaner[c].item
        /\ \A d \in r.claimed : d \in cleaner[c].claimed \/ (d = e /\ Claimable(e))
    BY <1>1, <2>1 DEF CleanerRow
  <2>3. cleaner' = [cleaner EXCEPT ![c] = r]
    BY <1>4 DEF Claim
  <2>4. UNCHANGED <<findings, raced, lastKey, job, reports, sharing, happened, bucket>>
    BY <1>4 DEF Claim, findingVars, settings, budgetVars
  <2> HIDE DEF r
  <2>5. CASE Claimable(e)
    <3>1. /\ row \in EvidenceRow /\ row.revoked /\ row.finding = evidence[e].finding
          /\ row.key = evidence[e].key /\ row.expires = evidence[e].expires
          /\ row.deleted = evidence[e].deleted
      BY <1>1, <2>1 DEF EvidenceRow
    <3>2. evidence' = [evidence EXCEPT ![e] = row]
      BY <1>4, <2>5 DEF Claim
    <3>3. evidence'[e].revoked
      BY <2>1, <3>1, <3>2, RowChanges
    <3> HIDE DEF e, row
    <3>4. Touched(c)
      BY <2>1, <3>1, <3>2, CleanerWrites
    <3> QED
      BY <2>1, <2>2, <2>3, <2>4, <3>3, <3>4, CleanerMoves
  <2>6. CASE ~Claimable(e)
    <3>1. UNCHANGED evidence
      BY <1>4, <2>6 DEF Claim
    <3> HIDE DEF e
    <3> QED
      BY <1>2, <2>2, <2>3, <2>4, <2>6, <3>1, CleanerMoves
  <2> QED
    BY <2>5, <2>6
<1>5. CASE DeleteObject(c)
  <2> DEFINE e == Min(cleaner[c].claimed)
             r == [cleaner[c] EXCEPT !.claimed = @ \ {e}, !.item = e]
  <2>1. e \in cleaner[c].claimed /\ e \in Nat
    BY <1>1, <1>5, MinIsMember DEF DeleteObject, Work
  <2>2. /\ r \in CleanerRow /\ r.todo = cleaner[c].todo /\ r.item = e
        /\ r.claimed \subseteq cleaner[c].claimed
    BY <1>1, <2>1 DEF CleanerRow
  <2>3. cleaner' = [cleaner EXCEPT ![c] = r] /\ bucket' = bucket \ {evidence[e].key}
    BY <1>5 DEF DeleteObject
  <2>4. UNCHANGED <<findings, raced, lastKey, job, reports, sharing, happened, evidence>>
    BY <1>5 DEF DeleteObject, findingVars, settings, budgetVars
  <2> HIDE DEF r, e
  <2> QED
    BY <1>2, <2>1, <2>2, <2>3, <2>4, CleanerMoves
<1>6. CASE MarkDeleted(c) \/ MarkDeletedFails(c)
  <2> DEFINE e == cleaner[c].item
             r == [cleaner[c] EXCEPT !.item = None]
  <2>1. e \in DOMAIN evidence
    BY <1>1, <1>6 DEF MarkDeleted, MarkDeletedFails, Holds
  <2>2. /\ r \in CleanerRow /\ r.todo = cleaner[c].todo /\ r.item = None
        /\ r.claimed = cleaner[c].claimed
    BY <1>1 DEF CleanerRow, None
  <2>3. cleaner' = [cleaner EXCEPT ![c] = r]
    BY <1>6 DEF MarkDeleted, MarkDeletedFails
  <2>4. /\ UNCHANGED <<findings, raced, lastKey, job, reports, sharing, bucket>>
        /\ happened \subseteq happened'
    BY <1>6 DEF MarkDeleted, MarkDeletedFails, Happens, findingVars, settings,
       budgetVars
  <2>5. PICK row \in EvidenceRow :
          /\ evidence' = [evidence EXCEPT ![e] = row]
          /\ row.finding = evidence[e].finding /\ row.key = evidence[e].key
          /\ row.expires = evidence[e].expires /\ row.revoked = evidence[e].revoked
    <3>1. CASE MarkDeleted(c)
      <4> DEFINE row == [evidence[e] EXCEPT !.deleted = TRUE, !.shared = FALSE]
      <4>0. evidence[e] \in EvidenceRow
        BY <1>1, <2>1
      <4>1. /\ row \in EvidenceRow /\ row.finding = evidence[e].finding
            /\ row.key = evidence[e].key /\ row.expires = evidence[e].expires
            /\ row.revoked = evidence[e].revoked
        BY <4>0 DEF EvidenceRow
      <4>2. evidence' = [evidence EXCEPT ![e] = row]
        BY <3>1 DEF MarkDeleted
      <4> QED
        BY <4>1, <4>2
    <3>2. CASE MarkDeletedFails(c)
      <4> DEFINE row == [evidence[e] EXCEPT !.claim = "none"]
      <4>1. /\ row \in EvidenceRow /\ row.finding = evidence[e].finding
            /\ row.key = evidence[e].key /\ row.expires = evidence[e].expires
            /\ row.revoked = evidence[e].revoked
        BY <1>1, <2>1 DEF EvidenceRow
      <4>2. evidence' = [evidence EXCEPT ![e] = row]
        BY <3>2 DEF MarkDeletedFails
      <4> QED
        BY <4>1, <4>2
    <3> QED
      BY <1>6, <3>1, <3>2
  <2> HIDE DEF r
  <2>6. Touched(c)
    BY <2>1, <2>5, CleanerWrites
  <2> QED
    BY <2>2, <2>3, <2>4, <2>6, CleanerMoves
<1>7. CASE EndOfBatch(c) \/ CleanerCrashes(c)
  <2>1. cleaner' = [cleaner EXCEPT ![c] = CleanerAtRest]
    BY <1>7 DEF EndOfBatch, CleanerCrashes
  <2>2. /\ UNCHANGED <<findings, raced, lastKey, job, reports, sharing, evidence, bucket>>
        /\ happened \subseteq happened'
    BY <1>7 DEF EndOfBatch, CleanerCrashes, Happens, findingVars, rowVars, settings,
       budgetVars
  <2>3. CleanerAtRest.todo = {} /\ CleanerAtRest.claimed = {} /\ CleanerAtRest.item = None
    BY DEF CleanerAtRest
  <2> QED
    BY <1>2, <2>1, <2>2, <2>3, CleanerRests, CleanerMoves
<1>8. CASE DeleteFails(c)
  <2> DEFINE e == Min(cleaner[c].claimed)
             r == [cleaner[c] EXCEPT !.claimed = @ \ {e}]
             row == [evidence[e] EXCEPT !.claim = "none"]
  <2>1. e \in cleaner[c].claimed /\ e \in DOMAIN evidence
    BY <1>1, <1>8, MinIsMember DEF DeleteFails, Work, Holds
  <2>2. /\ r \in CleanerRow /\ r.todo = cleaner[c].todo /\ r.item = cleaner[c].item
        /\ r.claimed \subseteq cleaner[c].claimed
    BY <1>1 DEF CleanerRow
  <2>3. cleaner' = [cleaner EXCEPT ![c] = r] /\ evidence' = [evidence EXCEPT ![e] = row]
    BY <1>8 DEF DeleteFails
  <2>4. /\ row \in EvidenceRow /\ row.finding = evidence[e].finding
        /\ row.key = evidence[e].key /\ row.expires = evidence[e].expires
        /\ row.revoked = evidence[e].revoked /\ row.deleted = evidence[e].deleted
    BY <1>1, <2>1 DEF EvidenceRow
  <2>5. /\ UNCHANGED <<findings, raced, lastKey, job, reports, sharing, bucket>>
        /\ happened \subseteq happened'
    BY <1>8 DEF DeleteFails, Happens, findingVars, settings
  <2> HIDE DEF r, row, e
  <2>6. Touched(c)
    BY <2>1, <2>3, <2>4, CleanerWrites
  <2> QED
    BY <2>2, <2>3, <2>5, <2>6, CleanerMoves
<1> QED
  BY <1>3, <1>4, <1>5, <1>6, <1>7, <1>8 DEF CleanerStep

LEMMA CleanerKept ==
  ASSUME EvidenceInv, NEW c \in Cleaners, CleanerDoes(c)
  PROVE  EvidenceInv'
<1>1. /\ evidence \in Seq(EvidenceRow) /\ lastKey \in Nat /\ bucket \subseteq 1..lastKey
      /\ \A e \in DOMAIN evidence :
           evidence[e].finding \in DOMAIN findings /\ evidence[e].key <= lastKey
      /\ bucket' \subseteq bucket
  BY DEF EvidenceInv, Evidence, CleanerDoes
<1>2. Grows
  BY <1>1 DEF Grows, CleanerDoes
<1>3. Reports' /\ Findings'
  BY PrintsStay DEF EvidenceInv, Reports, Findings, CleanerDoes
<1>4. Evidence'
  BY <1>1 DEF Evidence, CleanerDoes, Kept
<1>5. Jobs'
  BY <1>1, <1>2, JobsStay DEF CleanerDoes
<1>6. CleanersInv'
  <2>1. \A k \in Cleaners \ {c} :
          /\ cleaner'[k].todo \subseteq DOMAIN evidence
          /\ cleaner'[k].claimed \cup ({cleaner'[k].item} \ {None}) \subseteq DOMAIN evidence
    BY DEF EvidenceInv, CleanersInv, CleanerDoes, Holds
  <2>2. /\ cleaner[c].todo \subseteq DOMAIN evidence
        /\ cleaner[c].claimed \cup ({cleaner[c].item} \ {None}) \subseteq DOMAIN evidence
    BY DEF EvidenceInv, CleanersInv, Holds
  <2>3. /\ cleaner'[c].todo \subseteq DOMAIN evidence
        /\ cleaner'[c].claimed \subseteq DOMAIN evidence
        /\ {cleaner'[c].item} \ {None} \subseteq DOMAIN evidence
    BY <2>2 DEF CleanerDoes
  <2>4. sharing \subseteq DOMAIN evidence
    BY DEF EvidenceInv, CleanersInv
  <2> QED
    BY <2>1, <2>3, <2>4 DEF CleanersInv, Holds, CleanerDoes
<1> QED
  BY <1>3, <1>4, <1>5, <1>6 DEF EvidenceInv

\* Time and the exports: keys and deletions stay as they are, and a row comes
\* due only when the jobs have ended.
OthersDo ==
  /\ UNCHANGED <<findings, raced, bucket, lastKey, job, reports, cleaner>>
  /\ happened \subseteq happened'
  /\ evidence' \in Seq(EvidenceRow) /\ DOMAIN evidence' = DOMAIN evidence
  /\ \A e \in DOMAIN evidence :
       /\ evidence'[e].finding = evidence[e].finding
       /\ evidence'[e].key = evidence[e].key
       /\ evidence'[e].revoked = evidence[e].revoked
       /\ evidence'[e].deleted = evidence[e].deleted
       /\ \/ evidence'[e].expires = evidence[e].expires
          \/ evidence[e].expires = "later" /\ evidence'[e].expires = "due" /\ AllEnded
  /\ sharing' \subseteq DOMAIN evidence

LEMMA OthersAct ==
  ASSUME EvidenceInv,
         \/ \E e \in DOMAIN evidence : ClaimGoesStale(e) \/ Share(e)
         \/ ReadShareable \/ ComeDue \/ UNCHANGED evidenceVars
  PROVE  OthersDo
<1>1. /\ evidence \in Seq(EvidenceRow) /\ sharing \subseteq DOMAIN evidence
      /\ \A e \in DOMAIN evidence : evidence[e] \in EvidenceRow
  BY DEF EvidenceInv, CleanersInv, Evidence
<1>2. ASSUME NEW e \in DOMAIN evidence, ClaimGoesStale(e) \/ Share(e)
      PROVE  OthersDo
  <2>1. PICK row \in EvidenceRow :
          /\ evidence' = [evidence EXCEPT ![e] = row]
          /\ row.finding = evidence[e].finding /\ row.key = evidence[e].key
          /\ row.expires = evidence[e].expires /\ row.revoked = evidence[e].revoked
          /\ row.deleted = evidence[e].deleted
    <3>0. evidence[e] \in EvidenceRow
      BY <1>1
    <3>1. CASE ClaimGoesStale(e)
      <4> DEFINE row == [evidence[e] EXCEPT !.claim = "stale"]
      <4>1. /\ row \in EvidenceRow /\ row.finding = evidence[e].finding
            /\ row.key = evidence[e].key /\ row.expires = evidence[e].expires
            /\ row.revoked = evidence[e].revoked /\ row.deleted = evidence[e].deleted
        BY <3>0 DEF EvidenceRow
      <4>2. evidence' = [evidence EXCEPT ![e] = row]
        BY <3>1 DEF ClaimGoesStale
      <4> QED
        BY <4>1, <4>2
    <3>2. CASE Share(e)
      <4> DEFINE row == [evidence[e] EXCEPT !.shared = TRUE]
      <4>1. /\ row \in EvidenceRow /\ row.finding = evidence[e].finding
            /\ row.key = evidence[e].key /\ row.expires = evidence[e].expires
            /\ row.revoked = evidence[e].revoked /\ row.deleted = evidence[e].deleted
        BY <3>0 DEF EvidenceRow
      <4>2. evidence' = [evidence EXCEPT ![e] = row]
        BY <3>2 DEF Share
      <4> QED
        BY <4>1, <4>2
    <3> QED
      BY <1>2, <3>1, <3>2
  <2>2. /\ evidence' \in Seq(EvidenceRow) /\ DOMAIN evidence' = DOMAIN evidence
        /\ evidence'[e] = row
        /\ \A d \in DOMAIN evidence \ {e} : evidence'[d] = evidence[d]
    BY <2>1, RowChanges
  <2>3. /\ UNCHANGED <<findings, raced, bucket, lastKey, job, reports, cleaner, happened>>
        /\ sharing' \subseteq DOMAIN evidence
    BY <1>1, <1>2 DEF ClaimGoesStale, Share, findingVars, settings, budgetVars
  <2> QED
    BY <2>1, <2>2, <2>3 DEF OthersDo
<1>3. CASE ReadShareable
  <2>1. /\ UNCHANGED <<findings, raced, evidence, bucket, lastKey, job, reports, cleaner>>
        /\ happened \subseteq happened' /\ sharing' \subseteq DOMAIN evidence
    BY <1>3 DEF ReadShareable, Happens, findingVars, rowVars, settings
  <2> QED
    BY <1>1, <2>1 DEF OthersDo
<1>4. CASE ComeDue
  <2>1. /\ evidence' = [e \in DOMAIN evidence |->
                          [evidence[e] EXCEPT
                             !.expires = IF @ = "later" THEN "due" ELSE @]]
        /\ AllEnded
    BY <1>4 DEF ComeDue
  <2>2. \A e \in DOMAIN evidence :
          /\ evidence'[e] \in EvidenceRow
          /\ evidence'[e].finding = evidence[e].finding
          /\ evidence'[e].key = evidence[e].key
          /\ evidence'[e].revoked = evidence[e].revoked
          /\ evidence'[e].deleted = evidence[e].deleted
          /\ \/ evidence'[e].expires = evidence[e].expires
             \/ evidence[e].expires = "later" /\ evidence'[e].expires = "due"
    <3> SUFFICES ASSUME NEW e \in DOMAIN evidence
                 PROVE  /\ evidence'[e] \in EvidenceRow
                        /\ evidence'[e].finding = evidence[e].finding
                        /\ evidence'[e].key = evidence[e].key
                        /\ evidence'[e].revoked = evidence[e].revoked
                        /\ evidence'[e].deleted = evidence[e].deleted
                        /\ \/ evidence'[e].expires = evidence[e].expires
                           \/ evidence[e].expires = "later" /\ evidence'[e].expires = "due"
      OBVIOUS
    <3>1. evidence[e] \in EvidenceRow
      BY <1>1
    <3>2. CASE evidence[e].expires = "later"
      <4>1. evidence'[e] = [evidence[e] EXCEPT !.expires = "due"]
        BY <2>1, <3>2
      <4> QED
        BY <3>1, <3>2, <4>1 DEF EvidenceRow
    <3>3. CASE evidence[e].expires # "later"
      <4>1. evidence'[e] = [evidence[e] EXCEPT !.expires = evidence[e].expires]
        BY <2>1, <3>3
      <4> QED
        BY <3>1, <4>1 DEF EvidenceRow
    <3> QED
      BY <3>2, <3>3
  <2>3. evidence' \in Seq(EvidenceRow) /\ DOMAIN evidence' = DOMAIN evidence
    BY <2>1, <2>2, EvidenceChanges
  <2>4. UNCHANGED <<findings, raced, bucket, lastKey, job, reports, cleaner, happened, sharing>>
    BY <1>4 DEF ComeDue, findingVars, settings, budgetVars
  <2> QED
    BY <1>1, <2>1, <2>2, <2>3, <2>4 DEF OthersDo
<1>5. CASE UNCHANGED evidenceVars
  BY <1>1, <1>5 DEF evidenceVars, settings, OthersDo
<1> QED
  BY <1>2, <1>3, <1>4, <1>5

LEMMA OthersKept ==
  ASSUME EvidenceInv, OthersDo
  PROVE  EvidenceInv'
<1>1. lastKey \in Nat /\ \A e \in DOMAIN evidence :
        evidence[e].finding \in DOMAIN findings /\ evidence[e].key <= lastKey
  BY DEF EvidenceInv, Evidence
<1>2. Grows
  BY <1>1 DEF Grows, OthersDo
<1>3. Reports' /\ Findings'
  BY PrintsStay DEF EvidenceInv, Reports, Findings, OthersDo
<1>4. Evidence'
  BY <1>1 DEF EvidenceInv, Evidence, OthersDo
<1>5. Jobs'
  BY <1>1, <1>2, JobsStay DEF OthersDo
<1>6. CleanersInv'
  BY DEF EvidenceInv, CleanersInv, Holds, OthersDo
<1> QED
  BY <1>3, <1>4, <1>5, <1>6 DEF EvidenceInv

\* The steps, sorted by what they may do.
Fails(m) == PutFails(m) \/ MarkStoredFails(m) \/ JobCrashes(m)

LEMMA NextCases ==
  [EvidenceNext]_evidenceVars =>
    \/ \E m \in Reporters : JobStep(m) \/ Fails(m)
    \/ \E c \in Cleaners : \/ CleanerStep(c) \/ DeleteFails(c)
                           \/ MarkDeletedFails(c) \/ CleanerCrashes(c)
    \/ \/ \E e \in DOMAIN evidence : ClaimGoesStale(e) \/ Share(e)
       \/ ReadShareable \/ ComeDue \/ UNCHANGED evidenceVars
BY DEF EvidenceNext, Fails

LEMMA NextEvidence == EvidenceInv /\ [EvidenceNext]_evidenceVars => EvidenceInv'
<1> SUFFICES ASSUME EvidenceInv, [EvidenceNext]_evidenceVars PROVE EvidenceInv'
  OBVIOUS
<1>1. ASSUME NEW m \in Reporters, JobStep(m) \/ Fails(m) PROVE EvidenceInv'
  BY <1>1, ReadingKept, CreateKept, AddKept, MergeKept, PutKept, StoreKept
  DEF JobStep, Fails
<1>2. ASSUME NEW c \in Cleaners,
             \/ CleanerStep(c) \/ DeleteFails(c) \/ MarkDeletedFails(c)
             \/ CleanerCrashes(c)
      PROVE  EvidenceInv'
  BY <1>2, CleanerActs, CleanerKept
<1>3. ASSUME \/ \E e \in DOMAIN evidence : ClaimGoesStale(e) \/ Share(e)
             \/ ReadShareable \/ ComeDue \/ UNCHANGED evidenceVars
      PROVE  EvidenceInv'
  BY <1>3, OthersAct, OthersKept
<1> QED
  BY <1>1, <1>2, <1>3, NextCases

LEMMA AlwaysEvidence == EvidenceSpec => []EvidenceInv
BY InitEvidence, NextEvidence, PTL DEF EvidenceSpec

\* The types: rows point to rows there are, a job in the middle of a finding
\* has a row with that finding's fingerprint, one in the middle of an upload
\* an object (persistFindings, uploadAuditEvidence).
THEOREM EvidenceIsTyped == EvidenceSpec => []EvidenceTypes
<1>1. EvidenceInv => EvidenceTypes
  <2> SUFFICES ASSUME EvidenceInv PROVE EvidenceTypes
    OBVIOUS
  <2>1. ASSUME NEW f \in DOMAIN findings
        PROVE  /\ findings[f].print \in Prints /\ findings[f].count \in Nat \ {0}
               /\ findings[f].sources \subseteq Reporters /\ findings[f].sources # {}
               /\ findings[f].lists \subseteq DOMAIN evidence
    <3>1. findings[f] \in FindingRow
      BY DEF EvidenceInv, Findings
    <3> QED
      BY <3>1 DEF EvidenceInv, Findings, FindingRow
  <2>2. ASSUME NEW e \in DOMAIN evidence
        PROVE  /\ evidence[e].finding \in DOMAIN findings
               /\ evidence[e].key \in 0..lastKey
               /\ evidence[e].expires \in {"never", "later", "due"}
               /\ evidence[e].claim \in {"none", "held", "stale"}
    <3>1. evidence[e] \in EvidenceRow /\ evidence[e].key <= lastKey /\ lastKey \in Nat
      BY DEF EvidenceInv, Evidence
    <3>2. evidence[e].finding \in DOMAIN findings
      BY DEF EvidenceInv, Evidence
    <3> QED
      BY <3>1, <3>2 DEF EvidenceRow
  <2>3. ASSUME NEW m \in Reporters
        PROVE  /\ job[m].pc \in {"found", "merge", "made", "list"} =>
                    findings[job[m].row].print = Current(m).print
               /\ At(m, "put") => job[m].row \in DOMAIN evidence /\ job[m].key # None
    BY DEF EvidenceInv, Jobs, Refers
  <2>4. bucket \subseteq 1..lastKey
    BY DEF EvidenceInv, Evidence
  <2> QED
    BY <2>1, <2>2, <2>3, <2>4 DEF EvidenceTypes
<1> QED
  BY <1>1, AlwaysEvidence, PTL

-----------------------------------------------------------------------------
(***************************************************************************)
(* What a step of a mission job does to the objects and their rows.        *)
(***************************************************************************)

\* Nothing raced, was cut short or failed.
Tame == "upload" \notin raced /\ "job" \notin happened /\ "store" \notin happened

\* Every step but the two that put an object and that point a row to it.
PlainJob(m) ==
  /\ ~Ended(m) /\ ~At(m, "put")'
  /\ UNCHANGED <<bucket, lastKey, cleaner>>
  /\ raced \subseteq raced' /\ happened \subseteq happened'
  /\ DOMAIN evidence \subseteq DOMAIN evidence'
  /\ \A e \in DOMAIN evidence :
       /\ evidence'[e].key = evidence[e].key
       /\ evidence'[e].revoked = evidence[e].revoked
       /\ evidence'[e].deleted = evidence[e].deleted
       /\ evidence'[e].expires = "due" <=> evidence[e].expires = "due"
  /\ \A e \in DOMAIN evidence' \ DOMAIN evidence :
       /\ evidence'[e].key = None /\ evidence'[e].expires # "due"
       /\ ~evidence'[e].deleted
  /\ \A n \in Reporters \ {m} : job'[n] = job[n]
  /\ Tame' => ~At(m, "put")
  /\ Tame' /\ Uploading(m)' =>
       /\ \A n \in Reporters \ {m} : ~Uploading(n)
       /\ job'[m].todo \subseteq Unstored

Plain(m) ==
  \/ ReadKnown(m) \/ CreateFinding(m) \/ ListNewEvidence(m) \/ WriteNewEvidence(m)
  \/ FindKnown(m) \/ AddEvidence(m) \/ Merge(m) \/ ListUnstored(m)
  \/ MarkRetention(m) \/ Fails(m)

LEMMA PlainActs ==
  ASSUME EvidenceInv, NEW m \in Reporters, Plain(m)
  PROVE  PlainJob(m)
<1>1. /\ job \in [Reporters -> JobRow] /\ job[m] \in JobRow /\ Refers(m)
      /\ DOMAIN evidence \subseteq Nat
      /\ \A e \in DOMAIN evidence : evidence[e] \in EvidenceRow
  BY DEF EvidenceInv, Jobs, Evidence
<1>2. CASE \/ ReadKnown(m) \/ ListNewEvidence(m) \/ WriteNewEvidence(m)
           \/ FindKnown(m) \/ Merge(m)
  <2>1. /\ UNCHANGED <<evidence, bucket, lastKey, cleaner, happened>>
        /\ raced \subseteq raced'
    BY <1>2 DEF ReadKnown, ListNewEvidence, WriteNewEvidence, FindKnown, Merge,
       findingVars, rowVars, settings, budgetVars
  <2>2. ~Ended(m) /\ ~At(m, "put")
    BY <1>2 DEF ReadKnown, ListNewEvidence, WriteNewEvidence, FindKnown, Merge,
       At, Ended
  <2>3. /\ job'[m].pc \in {"next", "list", "found"}
        /\ \A n \in Reporters \ {m} : job'[n] = job[n]
    <3>1. CASE ReadKnown(m) \/ ListNewEvidence(m)
      BY <1>1, <3>1 DEF ReadKnown, ListNewEvidence, JobRow
    <3>2. CASE FindKnown(m)
      BY <1>1, <3>2 DEF FindKnown, JobRow
    <3>3. CASE WriteNewEvidence(m) \/ Merge(m)
      <4> DEFINE a == Advanced(job[m])
                 b == [a EXCEPT !.known = @ \cup {Current(m).print}]
      <4>1. job' = [job EXCEPT ![m] = a] \/ job' = [job EXCEPT ![m] = b]
        BY <3>3 DEF WriteNewEvidence, Merge
      <4>2. a.pc = "next" /\ b.pc = "next"
        BY <1>1 DEF Advanced, JobRow
      <4> HIDE DEF a, b
      <4> QED
        BY <1>1, <4>1, <4>2
    <3> QED
      BY <1>2, <3>1, <3>2, <3>3
  <2> QED
    BY <2>1, <2>2, <2>3 DEF PlainJob, At, Uploading
<1>3. CASE CreateFinding(m) \/ AddEvidence(m)
  <2>1. /\ UNCHANGED <<bucket, lastKey, cleaner, happened, raced>>
        /\ ~Ended(m) /\ ~At(m, "put")
    BY <1>3 DEF CreateFinding, AddEvidence, findingVars, settings, budgetVars, At, Ended
  <2>2. PICK f \in Nat, shot \in BOOLEAN :
          evidence' = Append(evidence, EvidenceOf(f, shot))
    <3>1. job[m].next \in DOMAIN reports[m] /\ job[m].row \in Nat /\ Len(findings) + 1 \in Nat
      BY <1>1, <1>3 DEF CreateFinding, AddEvidence, Refers, At, JobRow, EvidenceInv, Findings
    <3>2. Current(m).shot \in BOOLEAN
      BY <3>1 DEF EvidenceInv, Reports, Current
    <3> QED
      BY <1>3, <3>1, <3>2 DEF CreateFinding, AddEvidence
  <2>3. EvidenceOf(f, shot).key = None /\ EvidenceOf(f, shot).expires = "never"
        /\ EvidenceOf(f, shot).deleted = FALSE
    BY DEF EvidenceOf
  <2>4. /\ job'[m].pc \in {"made", "merge"}
        /\ \A n \in Reporters \ {m} : job'[n] = job[n]
    <3>1. CASE CreateFinding(m)
      BY <1>1, <3>1 DEF CreateFinding, JobRow
    <3>2. CASE AddEvidence(m)
      BY <1>1, <3>2 DEF AddEvidence, JobRow
    <3> QED
      BY <1>3, <3>1, <3>2
  <2> QED
    BY <2>1, <2>2, <2>3, <2>4, EvidenceGrows DEF PlainJob, At, Uploading
<1>4. CASE ListUnstored(m)
  <2>1. /\ UNCHANGED <<evidence, bucket, lastKey, cleaner, happened>>
        /\ raced \subseteq raced' /\ ~Ended(m) /\ ~At(m, "put")
        /\ "upload" \notin raced' => \A n \in Reporters \ {m} : ~Uploading(n)
    BY <1>4 DEF ListUnstored, rowVars, settings, budgetVars, At, Ended
  <2> DEFINE u == [AtRest EXCEPT !.pc = "upload", !.todo = Unstored,
                                 !.listed = Unstored # {}]
             j == IF storageOn THEN u ELSE Over("done")
  <2>2. job' = [job EXCEPT ![m] = j]
    BY <1>4 DEF ListUnstored
  <2>3. j.pc \in {"upload", "done"} /\ j.todo \subseteq Unstored
    BY DEF Over, AtRest
  <2> HIDE DEF j
  <2>4. /\ job'[m] = j /\ \A n \in Reporters \ {m} : job'[n] = job[n]
    BY <1>1, <2>2
  <2> QED
    BY <2>1, <2>3, <2>4 DEF PlainJob, At, Tame
<1>5. CASE MarkRetention(m)
  <2>1. /\ UNCHANGED <<bucket, lastKey, cleaner, happened, raced>>
        /\ ~Ended(m) /\ ~At(m, "put") /\ job' = [job EXCEPT ![m] = Over("done")]
    BY <1>5 DEF MarkRetention, findingVars, settings, budgetVars, At, Ended
  <2>2. Over("done").pc = "done"
    BY DEF Over, AtRest
  <2>3. job'[m].pc = "done" /\ \A n \in Reporters \ {m} : job'[n] = job[n]
    BY <1>1, <2>1, <2>2
  <2>4. /\ DOMAIN evidence' = DOMAIN evidence
        /\ \A e \in DOMAIN evidence :
             \/ evidence'[e] = evidence[e]
             \/ /\ evidence[e].expires = "never"
                /\ evidence'[e] = [evidence[e] EXCEPT !.expires = "later"]
    BY <1>5 DEF MarkRetention
  <2>5. \A e \in DOMAIN evidence :
          /\ evidence'[e].key = evidence[e].key
          /\ evidence'[e].revoked = evidence[e].revoked
          /\ evidence'[e].deleted = evidence[e].deleted
          /\ evidence'[e].expires = "due" <=> evidence[e].expires = "due"
    BY <1>1, <2>4 DEF EvidenceRow
  <2> QED
    BY <2>1, <2>3, <2>4, <2>5 DEF PlainJob, At, Uploading
<1>6. CASE Fails(m)
  <2>1. /\ UNCHANGED <<evidence, bucket, lastKey, cleaner, raced>>
        /\ happened \subseteq happened' /\ ~Ended(m) /\ ~Tame'
    BY <1>6 DEF Fails, PutFails, MarkStoredFails, JobCrashes, Happens, findingVars,
       rowVars, settings, At, Ended, Tame
  <2>2. /\ job'[m].pc \in {"upload", "start", "gave-up"}
        /\ \A n \in Reporters \ {m} : job'[n] = job[n]
    <3>1. CASE PutFails(m)
      BY <1>1, <3>1 DEF PutFails, JobRow, At
    <3>2. CASE MarkStoredFails(m)
      BY <1>1, <3>2 DEF MarkStoredFails, JobRow
    <3>3. CASE JobCrashes(m)
      <4>1. PICK pc \in {"start", "gave-up"} : job' = [job EXCEPT ![m] = Over(pc)]
        BY <3>3 DEF JobCrashes
      <4>2. Over(pc).pc = pc
        BY DEF Over, AtRest
      <4> QED
        BY <1>1, <4>1, <4>2
    <3> QED
      BY <1>6, <3>1, <3>2, <3>3 DEF Fails
  <2> QED
    BY <2>1, <2>2 DEF PlainJob, At
<1> QED
  BY <1>2, <1>3, <1>4, <1>5, <1>6 DEF Plain

\* An object is put under a key nobody had; a row is pointed to it.
PutJob(m) ==
  /\ At(m, "upload") /\ At(m, "put")'
  /\ UNCHANGED <<evidence, cleaner, raced, happened>>
  /\ lastKey' = lastKey + 1 /\ bucket' = bucket \cup {lastKey + 1}
  /\ job'[m].key = lastKey + 1 /\ job'[m].todo = job[m].todo
  /\ \A n \in Reporters \ {m} : job'[n] = job[n]

LEMMA PutActs ==
  ASSUME EvidenceInv, NEW m \in Reporters, PutObject(m)
  PROVE  PutJob(m)
<1>1. job \in [Reporters -> JobRow] /\ job[m] \in JobRow
  BY DEF EvidenceInv, Jobs
<1> DEFINE j == [job[m] EXCEPT !.pc = "put", !.row = Min(job[m].todo), !.key = lastKey + 1]
<1>2. job' = [job EXCEPT ![m] = j]
  BY DEF PutObject
<1>3. j.pc = "put" /\ j.key = lastKey + 1 /\ j.todo = job[m].todo
  BY <1>1 DEF JobRow
<1> HIDE DEF j
<1>4. job'[m] = j /\ \A n \in Reporters \ {m} : job'[n] = job[n]
  BY <1>1, <1>2
<1> QED
  BY <1>3, <1>4 DEF PutObject, PutJob, findingVars, settings, budgetVars, At

StoreJob(m) ==
  /\ At(m, "put") /\ At(m, "upload")'
  /\ UNCHANGED <<bucket, lastKey, cleaner, raced, happened>>
  /\ job[m].row \in DOMAIN evidence /\ DOMAIN evidence' = DOMAIN evidence
  /\ \A d \in DOMAIN evidence \ {job[m].row} : evidence'[d] = evidence[d]
  /\ LET e == job[m].row IN
       /\ evidence'[e].key = job[m].key
       /\ evidence'[e].revoked = evidence[e].revoked
       /\ evidence'[e].deleted = evidence[e].deleted
       /\ evidence'[e].expires = evidence[e].expires
  /\ job'[m].todo = job[m].todo \ {job[m].row}
  /\ \A n \in Reporters \ {m} : job'[n] = job[n]

LEMMA StoreActs ==
  ASSUME EvidenceInv, NEW m \in Reporters, MarkStored(m)
  PROVE  StoreJob(m)
<1>1. /\ job \in [Reporters -> JobRow] /\ job[m] \in JobRow /\ Refers(m)
      /\ evidence \in Seq(EvidenceRow) /\ At(m, "put")
  BY DEF EvidenceInv, Jobs, Evidence, MarkStored
<1>2. job[m].row \in DOMAIN evidence /\ evidence[job[m].row] \in EvidenceRow
  BY <1>1 DEF Refers
<1> DEFINE j == [job[m] EXCEPT !.pc = "upload", !.todo = @ \ {job[m].row},
                               !.row = None, !.key = None]
           row == [evidence[job[m].row] EXCEPT !.key = job[m].key]
<1>3. job' = [job EXCEPT ![m] = j] /\ evidence' = [evidence EXCEPT ![job[m].row] = row]
  BY DEF MarkStored
<1>4. j.pc = "upload" /\ j.todo = job[m].todo \ {job[m].row}
  BY <1>1 DEF JobRow
<1>5. /\ row.key = job[m].key /\ row.revoked = evidence[job[m].row].revoked
      /\ row.deleted = evidence[job[m].row].deleted
      /\ row.expires = evidence[job[m].row].expires
  BY <1>2 DEF EvidenceRow
<1> HIDE DEF j, row
<1>6. job'[m] = j /\ \A n \in Reporters \ {m} : job'[n] = job[n]
  BY <1>1, <1>3
<1>7. /\ DOMAIN evidence' = DOMAIN evidence /\ evidence'[job[m].row] = row
      /\ \A d \in DOMAIN evidence \ {job[m].row} : evidence'[d] = evidence[d]
  BY <1>2, <1>3
<1>8. UNCHANGED <<bucket, lastKey, cleaner, raced, happened>>
  BY DEF MarkStored, findingVars, settings, budgetVars
<1> QED
  BY <1>1, <1>2, <1>4, <1>5, <1>6, <1>7, <1>8 DEF StoreJob, At

LEMMA JobCases ==
  ASSUME EvidenceInv, [EvidenceNext]_evidenceVars
  PROVE  \/ \E m \in Reporters : PlainJob(m) \/ PutJob(m) \/ StoreJob(m)
         \/ \E c \in Cleaners : CleanerDoes(c)
         \/ OthersDo
<1>1. ASSUME NEW m \in Reporters, JobStep(m) \/ Fails(m)
      PROVE  PlainJob(m) \/ PutJob(m) \/ StoreJob(m)
  BY <1>1, PlainActs, PutActs, StoreActs DEF JobStep, Plain
<1> QED
  BY <1>1, NextCases, CleanerActs, OthersAct

-----------------------------------------------------------------------------
(***************************************************************************)
(* The life of an object: a key is one row's or one uploader's; a row      *)
(* comes due when nobody uploads any more, and is claimed, and with that   *)
(* revoked, before its object goes.                                        *)
(***************************************************************************)

KeysAreOwn ==
  /\ \A e, d \in DOMAIN evidence :
       evidence[e].key = evidence[d].key /\ evidence[e].key # None => e = d
  /\ \A m \in Reporters : At(m, "put") =>
       \A e \in DOMAIN evidence : evidence[e].key # job[m].key
  /\ \A m, n \in Reporters :
       At(m, "put") /\ At(n, "put") /\ job[m].key = job[n].key => m = n

ObjectsLive ==
  /\ \A m \in Reporters : At(m, "put") => job[m].key \in bucket
  /\ \A e \in DOMAIN evidence :
       evidence[e].key # None => evidence[e].key \in bucket \/ evidence[e].revoked

DueIsLate == (\E e \in DOMAIN evidence : evidence[e].expires = "due") => AllEnded

ClaimsRevoke ==
  \A c \in Cleaners :
    /\ \A e \in cleaner[c].todo : evidence[e].expires = "due"
    /\ \A e \in Holds(c) : evidence[e].revoked /\ evidence[e].expires = "due"
    /\ cleaner[c].item # None => evidence[cleaner[c].item].key \notin bucket

DeletedIsGone ==
  \A e \in DOMAIN evidence :
    evidence[e].deleted => evidence[e].expires = "due" /\ evidence[e].key \notin bucket

LifeInv == KeysAreOwn /\ ObjectsLive /\ DueIsLate /\ ClaimsRevoke /\ DeletedIsGone

\* Which keys there are, and where the rows that a worker holds are.
LEMMA KeysGivenOut ==
  ASSUME EvidenceInv
  PROVE  /\ lastKey \in Nat /\ bucket \subseteq 1..lastKey
         /\ \A e \in DOMAIN evidence : evidence[e].key \in 0..lastKey
         /\ \A m \in Reporters : job[m].key \in 0..lastKey
         /\ \A m \in Reporters : job[m].key # None <=> At(m, "put")
<1>1. \A e \in DOMAIN evidence : evidence[e] \in EvidenceRow /\ evidence[e].key <= lastKey
  BY DEF EvidenceInv, Evidence
<1>2. \A m \in Reporters : job[m] \in JobRow /\ job[m].key <= lastKey
  BY DEF EvidenceInv, Jobs, Refers
<1>3. lastKey \in Nat
  BY DEF EvidenceInv, Evidence
<1>4. \A e \in DOMAIN evidence : evidence[e].key \in 0..lastKey
  BY <1>1, <1>3 DEF EvidenceRow
<1>5. \A m \in Reporters : job[m].key \in 0..lastKey
  BY <1>2, <1>3 DEF JobRow
<1> QED
  BY <1>3, <1>4, <1>5 DEF EvidenceInv, Evidence, Jobs, Refers

LEMMA HeldRows ==
  ASSUME EvidenceInv, NEW c \in Cleaners
  PROVE  /\ cleaner[c].todo \subseteq DOMAIN evidence
         /\ cleaner[c].claimed \subseteq DOMAIN evidence
         /\ cleaner[c].item # None => cleaner[c].item \in DOMAIN evidence
         /\ cleaner[c].claimed \subseteq Holds(c)
         /\ cleaner[c].item # None => cleaner[c].item \in Holds(c)
         /\ Holds(c) \subseteq DOMAIN evidence
BY DEF EvidenceInv, CleanersInv, Holds

LEMMA InitLife == EvidenceInit => LifeInv
<1> SUFFICES ASSUME EvidenceInit PROVE LifeInv
  OBVIOUS
<1>1. /\ DOMAIN evidence = {} /\ \A m \in Reporters : ~At(m, "put")
      /\ \A c \in Cleaners : cleaner[c].todo = {} /\ Holds(c) = {} /\ cleaner[c].item = None
  BY DEF EvidenceInit, At, AtRest, CleanerAtRest, Holds, None
<1> QED
  BY <1>1 DEF LifeInv, KeysAreOwn, ObjectsLive, DueIsLate, ClaimsRevoke, DeletedIsGone

LEMMA PlainLife ==
  ASSUME EvidenceInv, LifeInv, NEW m \in Reporters, PlainJob(m)
  PROVE  LifeInv'
<1>1. \A n \in Reporters : At(n, "put")' => At(n, "put") /\ job'[n] = job[n]
  BY DEF PlainJob, At
<1>2. \A e \in DOMAIN evidence' : evidence'[e].key # None =>
        e \in DOMAIN evidence /\ evidence'[e].key = evidence[e].key
  BY DEF PlainJob
<1>3. KeysAreOwn'
  <2>1. \A e, d \in DOMAIN evidence' :
          evidence'[e].key = evidence'[d].key /\ evidence'[e].key # None => e = d
    BY <1>2 DEF LifeInv, KeysAreOwn
  <2>2. ASSUME NEW n \in Reporters, At(n, "put")', NEW e \in DOMAIN evidence'
        PROVE  evidence'[e].key # job'[n].key
    <3>1. At(n, "put") /\ job'[n].key = job[n].key /\ job[n].key # None
      BY <1>1, <2>2, KeysGivenOut
    <3> QED
      BY <1>2, <3>1 DEF LifeInv, KeysAreOwn
  <2>3. \A k, n \in Reporters :
          At(k, "put")' /\ At(n, "put")' /\ job'[k].key = job'[n].key => k = n
    BY <1>1 DEF LifeInv, KeysAreOwn
  <2> QED
    BY <2>1, <2>2, <2>3 DEF KeysAreOwn
<1>4. ObjectsLive'
  <2>1. \A n \in Reporters : At(n, "put")' => job'[n].key \in bucket'
    BY <1>1 DEF LifeInv, ObjectsLive, PlainJob
  <2>2. \A e \in DOMAIN evidence' :
          evidence'[e].key # None => evidence'[e].key \in bucket' \/ evidence'[e].revoked
    BY <1>2 DEF LifeInv, ObjectsLive, PlainJob
  <2> QED
    BY <2>1, <2>2 DEF ObjectsLive
<1>5. \A e \in DOMAIN evidence : evidence[e].expires # "due"
  BY DEF LifeInv, DueIsLate, PlainJob, AllEnded
<1>6. \A e \in DOMAIN evidence' : evidence'[e].expires # "due" /\ ~evidence'[e].deleted
  BY <1>5 DEF PlainJob, LifeInv, DeletedIsGone
<1>7. DueIsLate' /\ DeletedIsGone'
  BY <1>6 DEF DueIsLate, DeletedIsGone
<1>8. \A c \in Cleaners : cleaner[c].todo = {} /\ Holds(c) = {} /\ cleaner[c].item = None
  BY <1>5, HeldRows DEF LifeInv, ClaimsRevoke
<1>9. ClaimsRevoke'
  BY <1>8 DEF ClaimsRevoke, Holds, PlainJob
<1> QED
  BY <1>3, <1>4, <1>7, <1>9 DEF LifeInv

LEMMA PutLife ==
  ASSUME EvidenceInv, LifeInv, NEW m \in Reporters, PutJob(m)
  PROVE  LifeInv'
<1>1. \A n \in Reporters \ {m} : (At(n, "put")' <=> At(n, "put")) /\ job'[n] = job[n]
  BY DEF PutJob, At
<1>2. /\ lastKey \in Nat /\ job'[m].key = lastKey + 1 /\ bucket' = bucket \cup {lastKey + 1}
      /\ \A e \in DOMAIN evidence : evidence[e].key # lastKey + 1
      /\ \A n \in Reporters : job[n].key # lastKey + 1
      /\ lastKey + 1 \notin bucket /\ lastKey + 1 # None
      /\ UNCHANGED <<evidence, cleaner>>
  BY KeysGivenOut DEF PutJob, None
<1>3. KeysAreOwn'
  <2>1. \A n \in Reporters : At(n, "put")' =>
          \A e \in DOMAIN evidence' : evidence'[e].key # job'[n].key
    BY <1>1, <1>2 DEF LifeInv, KeysAreOwn
  <2>2. \A k, n \in Reporters :
          At(k, "put")' /\ At(n, "put")' /\ job'[k].key = job'[n].key => k = n
    BY <1>1, <1>2 DEF LifeInv, KeysAreOwn
  <2> QED
    BY <1>2, <2>1, <2>2 DEF LifeInv, KeysAreOwn
<1>4. ObjectsLive'
  BY <1>1, <1>2 DEF LifeInv, ObjectsLive
<1>5. \A e \in DOMAIN evidence : evidence[e].expires # "due"
  BY DEF LifeInv, DueIsLate, PutJob, AllEnded, Ended, At
<1>6. DueIsLate' /\ DeletedIsGone'
  BY <1>2, <1>5 DEF LifeInv, DueIsLate, DeletedIsGone
<1>7. \A c \in Cleaners : cleaner[c].todo = {} /\ Holds(c) = {} /\ cleaner[c].item = None
  BY <1>5, HeldRows DEF LifeInv, ClaimsRevoke
<1>8. ClaimsRevoke'
  BY <1>2, <1>7 DEF ClaimsRevoke, Holds
<1> QED
  BY <1>3, <1>4, <1>6, <1>8 DEF LifeInv

LEMMA StoreLife ==
  ASSUME EvidenceInv, LifeInv, NEW m \in Reporters, StoreJob(m)
  PROVE  LifeInv'
<1>1. \A n \in Reporters : At(n, "put")' => At(n, "put") /\ n # m /\ job'[n] = job[n]
  BY DEF StoreJob, At
<1> DEFINE k == job[m].key
           r == job[m].row
<1>2. /\ At(m, "put") /\ k # None /\ r \in DOMAIN evidence /\ evidence'[r].key = k
      /\ k \in bucket /\ bucket' = bucket /\ DOMAIN evidence' = DOMAIN evidence
      /\ \A e \in DOMAIN evidence \ {r} : evidence'[e] = evidence[e]
      /\ \A e \in DOMAIN evidence : evidence[e].key # k
      /\ \A n \in Reporters \ {m} : At(n, "put") => job[n].key # k
      /\ UNCHANGED cleaner
  BY KeysGivenOut DEF StoreJob, LifeInv, ObjectsLive, KeysAreOwn
<1>3. \A e \in DOMAIN evidence :
        /\ evidence'[e].revoked = evidence[e].revoked
        /\ evidence'[e].deleted = evidence[e].deleted
        /\ evidence'[e].expires = evidence[e].expires
  BY DEF StoreJob
<1> HIDE DEF k, r
<1>4. KeysAreOwn'
  <2>1. \A e, d \in DOMAIN evidence' :
          evidence'[e].key = evidence'[d].key /\ evidence'[e].key # None => e = d
    BY <1>2 DEF LifeInv, KeysAreOwn
  <2>2. \A n \in Reporters : At(n, "put")' =>
          \A e \in DOMAIN evidence' : evidence'[e].key # job'[n].key
    BY <1>1, <1>2 DEF LifeInv, KeysAreOwn
  <2>3. \A i, n \in Reporters :
          At(i, "put")' /\ At(n, "put")' /\ job'[i].key = job'[n].key => i = n
    BY <1>1 DEF LifeInv, KeysAreOwn
  <2> QED
    BY <2>1, <2>2, <2>3 DEF KeysAreOwn
<1>5. ObjectsLive'
  <2>1. \A n \in Reporters : At(n, "put")' => job'[n].key \in bucket'
    BY <1>1, <1>2 DEF LifeInv, ObjectsLive
  <2>2. \A e \in DOMAIN evidence' :
          evidence'[e].key # None => evidence'[e].key \in bucket' \/ evidence'[e].revoked
    BY <1>2, <1>3 DEF LifeInv, ObjectsLive
  <2> QED
    BY <2>1, <2>2 DEF ObjectsLive
<1>6. \A e \in DOMAIN evidence : evidence[e].expires # "due"
  BY DEF LifeInv, DueIsLate, StoreJob, AllEnded, Ended, At
<1>7. DueIsLate' /\ DeletedIsGone'
  BY <1>2, <1>3, <1>6 DEF LifeInv, DueIsLate, DeletedIsGone
<1>8. \A c \in Cleaners : cleaner[c].todo = {} /\ Holds(c) = {} /\ cleaner[c].item = None
  BY <1>6, HeldRows DEF LifeInv, ClaimsRevoke
<1>9. ClaimsRevoke'
  BY <1>2, <1>8 DEF ClaimsRevoke, Holds
<1> QED
  BY <1>4, <1>5, <1>7, <1>9 DEF LifeInv

\* A worker holds what is due; what is due, nobody puts any more.
LEMMA CleanerLife ==
  ASSUME EvidenceInv, LifeInv, NEW c \in Cleaners, CleanerDoes(c)
  PROVE  LifeInv'
<1>1. /\ UNCHANGED job /\ DOMAIN evidence' = DOMAIN evidence /\ bucket' \subseteq bucket
      /\ \A e \in DOMAIN evidence :
           /\ evidence'[e].key = evidence[e].key
           /\ evidence'[e].expires = evidence[e].expires
           /\ evidence[e].revoked => evidence'[e].revoked
           /\ evidence'[e].deleted => evidence[e].deleted \/ e = cleaner[c].item
  BY DEF CleanerDoes, Kept
<1>2. KeysAreOwn' /\ DueIsLate'
  <2>1. \A m \in Reporters : At(m, "put")' <=> At(m, "put")
    BY <1>1 DEF At
  <2>2. AllEnded' <=> AllEnded
    BY <1>1 DEF AllEnded, Ended
  <2> QED
    BY <1>1, <2>1, <2>2 DEF LifeInv, KeysAreOwn, DueIsLate
\* The key that leaves the bucket, if one does.
<1>3. \/ UNCHANGED bucket
      \/ \E d \in cleaner[c].claimed : /\ cleaner'[c].item = d
                                       /\ bucket' = bucket \ {evidence[d].key}
  BY DEF CleanerDoes
<1>4. ObjectsLive'
  <2>1. CASE UNCHANGED bucket
    BY <1>1, <2>1 DEF LifeInv, ObjectsLive, At
  <2>2. ASSUME NEW d \in cleaner[c].claimed, bucket' = bucket \ {evidence[d].key}
        PROVE  ObjectsLive'
    <3>1. d \in DOMAIN evidence /\ evidence[d].revoked /\ evidence[d].expires = "due"
      BY HeldRows DEF LifeInv, ClaimsRevoke
    <3>2. \A m \in Reporters : ~At(m, "put")
      BY <3>1 DEF LifeInv, DueIsLate, AllEnded, Ended, At
    <3>3. \A m \in Reporters : ~At(m, "put")'
      BY <1>1, <3>2 DEF At
    <3>4. \A e \in DOMAIN evidence :
            evidence[e].key # None => evidence[e].key \in bucket' \/ evidence[e].revoked
      BY <2>2, <3>1 DEF LifeInv, ObjectsLive, KeysAreOwn
    <3> QED
      BY <1>1, <3>3, <3>4 DEF ObjectsLive
  <2> QED
    BY <1>3, <2>1, <2>2
<1>5. ASSUME NEW k \in Cleaners, k # c
      PROVE  /\ \A e \in cleaner'[k].todo : evidence'[e].expires = "due"
             /\ \A e \in Holds(k)' : evidence'[e].revoked /\ evidence'[e].expires = "due"
             /\ cleaner'[k].item # None => evidence'[cleaner'[k].item].key \notin bucket'
  <2>1. cleaner'[k] = cleaner[k] /\ Holds(k)' = Holds(k)
    BY <1>5 DEF CleanerDoes, Holds
  <2> QED
    BY <1>1, <2>1, HeldRows DEF LifeInv, ClaimsRevoke
<1>6. \A e \in cleaner'[c].todo : evidence'[e].expires = "due"
  BY <1>1, HeldRows DEF LifeInv, ClaimsRevoke, CleanerDoes
<1>7. \A e \in cleaner'[c].claimed : evidence'[e].revoked /\ evidence'[e].expires = "due"
  <2> SUFFICES ASSUME NEW e \in cleaner'[c].claimed
               PROVE  evidence'[e].revoked /\ evidence'[e].expires = "due"
    OBVIOUS
  <2>1. CASE e \in cleaner[c].claimed
    BY <1>1, <2>1, HeldRows DEF LifeInv, ClaimsRevoke
  <2>2. CASE e \in cleaner[c].todo /\ evidence'[e].revoked
    BY <1>1, <2>2, HeldRows DEF LifeInv, ClaimsRevoke
  <2> QED
    BY <2>1, <2>2 DEF CleanerDoes
<1>8. cleaner'[c].item # None =>
        LET e == cleaner'[c].item IN
          /\ evidence'[e].revoked /\ evidence'[e].expires = "due"
          /\ evidence'[e].key \notin bucket'
  <2> SUFFICES ASSUME NEW e, e = cleaner'[c].item, e # None
               PROVE  /\ evidence'[e].revoked /\ evidence'[e].expires = "due"
                      /\ evidence'[e].key \notin bucket'
    OBVIOUS
  <2>1. CASE e = cleaner[c].item
    BY <1>1, <2>1, HeldRows DEF LifeInv, ClaimsRevoke
  <2>2. CASE e \in cleaner[c].claimed /\ bucket' = bucket \ {evidence[e].key}
    BY <1>1, <2>2, HeldRows DEF LifeInv, ClaimsRevoke
  <2> QED
    BY <2>1, <2>2 DEF CleanerDoes
<1>9. ClaimsRevoke'
  <2>1. Holds(c)' = cleaner'[c].claimed \cup ({cleaner'[c].item} \ {None})
    BY DEF Holds
  <2>2. \A e \in Holds(c)' : evidence'[e].revoked /\ evidence'[e].expires = "due"
    BY <1>7, <1>8, <2>1
  <2> QED
    BY <1>5, <1>6, <1>8, <2>2 DEF ClaimsRevoke
<1>10. DeletedIsGone'
  <2> SUFFICES ASSUME NEW e \in DOMAIN evidence, evidence'[e].deleted
               PROVE  evidence'[e].expires = "due" /\ evidence'[e].key \notin bucket'
    BY <1>1 DEF DeletedIsGone
  <2>1. CASE evidence[e].deleted
    BY <1>1, <2>1 DEF LifeInv, DeletedIsGone
  <2>2. CASE e = cleaner[c].item
    <3>1. 0 \notin DOMAIN evidence
      BY DEF EvidenceInv, Evidence
    <3> QED
      BY <1>1, <2>2, <3>1, HeldRows DEF LifeInv, ClaimsRevoke, None
  <2> QED
    BY <1>1, <2>1, <2>2
<1> QED
  BY <1>2, <1>4, <1>9, <1>10 DEF LifeInv

LEMMA OthersLife ==
  ASSUME EvidenceInv, LifeInv, OthersDo
  PROVE  LifeInv'
<1>1. /\ UNCHANGED <<job, bucket, cleaner>> /\ DOMAIN evidence' = DOMAIN evidence
      /\ \A e \in DOMAIN evidence :
           /\ evidence'[e].key = evidence[e].key
           /\ evidence'[e].revoked = evidence[e].revoked
           /\ evidence'[e].deleted = evidence[e].deleted
           /\ evidence[e].expires = "due" => evidence'[e].expires = "due"
           /\ evidence'[e].expires = "due" => evidence[e].expires = "due" \/ AllEnded
  BY DEF OthersDo
<1>2. /\ \A m \in Reporters : At(m, "put")' <=> At(m, "put")
      /\ AllEnded' <=> AllEnded
      /\ \A c \in Cleaners : Holds(c)' = Holds(c)
  BY <1>1 DEF At, AllEnded, Ended, Holds
<1>3. KeysAreOwn'
  BY <1>1, <1>2 DEF LifeInv, KeysAreOwn
<1>4. ObjectsLive'
  BY <1>1, <1>2 DEF LifeInv, ObjectsLive
<1>5. DueIsLate'
  BY <1>1, <1>2 DEF LifeInv, DueIsLate
<1>6. DeletedIsGone'
  BY <1>1 DEF LifeInv, DeletedIsGone
<1>7. ClaimsRevoke'
  BY <1>1, <1>2, HeldRows DEF LifeInv, ClaimsRevoke
<1> QED
  BY <1>3, <1>4, <1>5, <1>6, <1>7 DEF LifeInv

LEMMA NextLife ==
  ASSUME EvidenceInv, LifeInv, [EvidenceNext]_evidenceVars
  PROVE  LifeInv'
BY JobCases, PlainLife, PutLife, StoreLife, CleanerLife, OthersLife

LEMMA LifeResolves == LifeInv => LinksResolve
BY DEF LifeInv, ObjectsLive, DeletedIsGone, LinksResolve, Public

-----------------------------------------------------------------------------
(***************************************************************************)
(* Where nothing raced, was cut short or failed, one job at a time uploads *)
(* what has no object yet.                                                 *)
(***************************************************************************)

OneUploads ==
  /\ \A m, n \in Reporters : Uploading(m) /\ Uploading(n) => m = n
  /\ \A m \in Reporters : Uploading(m) =>
       \A e \in job[m].todo : evidence[e].key = None

AccountInv == Tame => OneUploads /\ Orphans = {}

\* The keys by which an object is found.
FoundBy(k) ==
  \/ \E e \in DOMAIN evidence : evidence[e].key = k
  \/ \E m \in Reporters : job[m].key = k

LEMMA OrphansAreLost == Orphans = {} <=> \A k \in bucket : FoundBy(k)
BY DEF Orphans, FoundBy

LEMMA InitAccount == EvidenceInit => AccountInv
<1> SUFFICES ASSUME EvidenceInit PROVE AccountInv
  OBVIOUS
<1>1. bucket = {} /\ \A m \in Reporters : ~Uploading(m)
  BY DEF EvidenceInit, Uploading, AtRest
<1> QED
  BY <1>1, OrphansAreLost DEF AccountInv, OneUploads

LEMMA TameBefore ==
  ASSUME raced \subseteq raced', happened \subseteq happened', Tame'
  PROVE  Tame
BY DEF Tame

LEMMA PlainAccount ==
  ASSUME EvidenceInv, AccountInv, NEW m \in Reporters, PlainJob(m)
  PROVE  AccountInv'
<1> SUFFICES ASSUME Tame' PROVE OneUploads' /\ (Orphans = {})'
  BY DEF AccountInv
<1>1. OneUploads /\ \A k \in bucket : FoundBy(k)
  BY TameBefore, OrphansAreLost DEF AccountInv, PlainJob
<1>2. \A n \in Reporters \ {m} : job'[n] = job[n] /\ (Uploading(n)' <=> Uploading(n))
  BY DEF PlainJob, Uploading
<1>3. \A n \in Reporters : job[n].todo \subseteq DOMAIN evidence
  BY DEF EvidenceInv, Jobs, Refers
<1>4. \A e \in DOMAIN evidence : e \in DOMAIN evidence' /\ evidence'[e].key = evidence[e].key
  BY DEF PlainJob
<1>5. Uploading(m)' => /\ \A n \in Reporters \ {m} : ~Uploading(n)
                       /\ \A e \in job'[m].todo : evidence'[e].key = None
  BY <1>4 DEF PlainJob, Unstored
<1>6. OneUploads'
  <2>1. \A i, n \in Reporters : Uploading(i)' /\ Uploading(n)' => i = n
    BY <1>1, <1>2, <1>5 DEF OneUploads
  <2>2. ASSUME NEW n \in Reporters, Uploading(n)', NEW e \in job'[n].todo
        PROVE  evidence'[e].key = None
    <3>1. CASE n = m
      BY <1>5, <2>2, <3>1
    <3>2. CASE n # m
      BY <1>1, <1>2, <1>3, <1>4, <2>2, <3>2 DEF OneUploads
    <3> QED
      BY <3>1, <3>2
  <2> QED
    BY <2>1, <2>2 DEF OneUploads
<1>7. ASSUME NEW k \in bucket PROVE FoundBy(k)'
  <2>1. CASE \E e \in DOMAIN evidence : evidence[e].key = k
    BY <1>4, <2>1 DEF FoundBy
  <2>2. ASSUME NEW n \in Reporters, job[n].key = k PROVE FoundBy(k)'
    <3>1. At(n, "put")
      BY <2>2, KeysGivenOut DEF None
    <3>2. n # m
      BY <3>1 DEF PlainJob
    <3> QED
      BY <1>2, <2>2, <3>2 DEF FoundBy
  <2> QED
    BY <1>1, <2>1, <2>2 DEF FoundBy
<1>8. UNCHANGED bucket
  BY DEF PlainJob
<1>9. (\A k \in bucket : FoundBy(k))'
  BY <1>7, <1>8
<1> QED
  BY <1>6, <1>9, OrphansAreLost, PTL

LEMMA PutAccount ==
  ASSUME EvidenceInv, AccountInv, NEW m \in Reporters, PutJob(m)
  PROVE  AccountInv'
<1> SUFFICES ASSUME Tame' PROVE OneUploads' /\ (Orphans = {})'
  BY DEF AccountInv
<1>1. OneUploads /\ \A k \in bucket : FoundBy(k)
  BY TameBefore, OrphansAreLost DEF AccountInv, PutJob
<1>2. /\ \A n \in Reporters \ {m} : job'[n] = job[n]
      /\ \A n \in Reporters : (Uploading(n)' <=> Uploading(n)) /\ job'[n].todo = job[n].todo
  BY DEF PutJob, Uploading, At
<1>3. OneUploads'
  BY <1>1, <1>2 DEF OneUploads, PutJob
<1>4. ASSUME NEW k \in bucket PROVE FoundBy(k)'
  <2>1. CASE \E e \in DOMAIN evidence : evidence[e].key = k
    BY <2>1 DEF FoundBy, PutJob
  <2>2. ASSUME NEW n \in Reporters, job[n].key = k PROVE FoundBy(k)'
    <3>1. At(n, "put")
      BY <2>2, KeysGivenOut DEF None
    <3>2. n # m
      BY <3>1 DEF PutJob, At
    <3> QED
      BY <1>2, <2>2, <3>2 DEF FoundBy
  <2> QED
    BY <1>1, <2>1, <2>2 DEF FoundBy
<1>5. \A k : k = lastKey + 1 => FoundBy(k)'
  <2>1. \A k : job'[m].key = k => FoundBy(k)'
    BY DEF FoundBy
  <2> QED
    BY <2>1 DEF PutJob
<1>6. bucket' = bucket \cup {lastKey + 1}
  BY DEF PutJob
<1>7. (\A k \in bucket : FoundBy(k))'
  BY <1>4, <1>5, <1>6
<1> QED
  BY <1>3, <1>7, OrphansAreLost, PTL

LEMMA StoreAccount ==
  ASSUME EvidenceInv, AccountInv, NEW m \in Reporters, StoreJob(m)
  PROVE  AccountInv'
<1> SUFFICES ASSUME Tame' PROVE OneUploads' /\ (Orphans = {})'
  BY DEF AccountInv
<1>1. OneUploads /\ \A k \in bucket : FoundBy(k)
  BY TameBefore, OrphansAreLost DEF AccountInv, StoreJob
<1>2. /\ \A n \in Reporters \ {m} : job'[n] = job[n]
      /\ \A n \in Reporters : Uploading(n)' <=> Uploading(n)
  BY DEF StoreJob, Uploading, At
<1>3. /\ Uploading(m) /\ job[m].row \in job[m].todo /\ job[m].todo \subseteq DOMAIN evidence
      /\ evidence[job[m].row].key = None
  BY <1>1 DEF StoreJob, Uploading, At, EvidenceInv, Jobs, Refers, OneUploads
<1>4. OneUploads'
  <2>1. \A n \in Reporters : Uploading(n)' => n = m
    BY <1>1, <1>2, <1>3 DEF OneUploads
  <2>2. \A e \in job'[m].todo : evidence'[e].key = None
    BY <1>1, <1>3 DEF StoreJob, OneUploads
  <2> QED
    BY <2>1, <2>2 DEF OneUploads
<1>5. ASSUME NEW k \in bucket PROVE FoundBy(k)'
  <2>1. ASSUME NEW e \in DOMAIN evidence, evidence[e].key = k PROVE FoundBy(k)'
    <3>1. e # job[m].row
      BY <1>3, <2>1, KeysGivenOut DEF None
    <3> QED
      BY <2>1, <3>1 DEF FoundBy, StoreJob
  <2>2. CASE job[m].key = k
    <3>1. /\ evidence'[job[m].row].key = k /\ job[m].row \in DOMAIN evidence
          /\ DOMAIN evidence' = DOMAIN evidence
      BY <2>2 DEF StoreJob
    <3>2. \E e \in DOMAIN evidence' : evidence'[e].key = k
      BY <3>1
    <3> QED
      BY <3>2 DEF FoundBy
  <2>3. ASSUME NEW n \in Reporters \ {m}, job[n].key = k PROVE FoundBy(k)'
    BY <1>2, <2>3 DEF FoundBy
  <2> QED
    BY <1>1, <2>1, <2>2, <2>3 DEF FoundBy
<1>6. UNCHANGED bucket
  BY DEF StoreJob
<1>7. (\A k \in bucket : FoundBy(k))'
  BY <1>5, <1>6
<1> QED
  BY <1>4, <1>7, OrphansAreLost, PTL

\* The bucket only shrinks, the keys stay with the rows and the uploaders.
LEMMA RestAccount ==
  ASSUME EvidenceInv, AccountInv,
         OthersDo \/ \E c \in Cleaners : CleanerDoes(c)
  PROVE  AccountInv'
<1> SUFFICES ASSUME Tame' PROVE OneUploads' /\ (Orphans = {})'
  BY DEF AccountInv
<1>1. /\ UNCHANGED <<job, raced>> /\ happened \subseteq happened' /\ bucket' \subseteq bucket
      /\ DOMAIN evidence' = DOMAIN evidence
      /\ \A e \in DOMAIN evidence : evidence'[e].key = evidence[e].key
  BY DEF OthersDo, CleanerDoes, Kept
<1>2. OneUploads /\ \A k \in bucket : FoundBy(k)
  BY <1>1, TameBefore, OrphansAreLost DEF AccountInv
<1>3. OneUploads'
  <2>1. \A m \in Reporters : Uploading(m)' <=> Uploading(m)
    BY <1>1 DEF Uploading
  <2>2. \A m \in Reporters : job[m].todo \subseteq DOMAIN evidence
    BY DEF EvidenceInv, Jobs, Refers
  <2> QED
    BY <1>1, <1>2, <2>1, <2>2 DEF OneUploads
<1>4. \A k : FoundBy(k) => FoundBy(k)'
  BY <1>1 DEF FoundBy
<1>5. (\A k \in bucket : FoundBy(k))'
  BY <1>1, <1>2, <1>4
<1> QED
  BY <1>3, <1>5, OrphansAreLost, PTL

LEMMA NextAccount ==
  ASSUME EvidenceInv, AccountInv, [EvidenceNext]_evidenceVars
  PROVE  AccountInv'
BY JobCases, PlainAccount, PutAccount, StoreAccount, RestAccount

\* The storage and the rows agree, whatever the order of uploads, claims,
\* deletions and shares: a link that resolves has its object, a row that is
\* marked deleted has none, and an object nobody can find again takes two
\* uploads at once, a job cut short or a row that could not be written
\* (uploadAuditEvidence, runRetentionCleanupJob, getPublicEvidence).
THEOREM ObjectsAndRowsDoAgree == EvidenceSpec => []ObjectsAndRowsAgree
<1>1. LifeInv /\ AccountInv => ObjectsAndRowsAgree
  BY LifeResolves DEF AccountInv, Tame, ObjectsAndRowsAgree, ObjectsAreAccounted
<1>2. EvidenceInit => LifeInv /\ AccountInv
  BY InitLife, InitAccount
<1>3. EvidenceInv /\ LifeInv /\ AccountInv /\ [EvidenceNext]_evidenceVars
        => LifeInv' /\ AccountInv'
  BY NextLife, NextAccount
<1> QED
  BY <1>1, <1>2, <1>3, AlwaysEvidence, PTL DEF EvidenceSpec

-----------------------------------------------------------------------------
(***************************************************************************)
(* What MapThenSumSet adds up: a sum of natural numbers is the number of   *)
(* units, when each place of the sum has as many of them as its summand.   *)
(***************************************************************************)
\* Induction over the subsets of a finite set, for a set of subsets.
LEMMA SubsetInduction ==
  ASSUME NEW S, IsFiniteSet(S), NEW Good, {} \in Good,
         \A s \in SUBSET S :
           s # {} /\ (\A x \in s : s \ {x} \in Good) => s \in Good
  PROVE  S \in Good
<1> DEFINE Sizes == {Cardinality(s) : s \in {t \in SUBSET S : t \notin Good}}
<1>1. \A s \in SUBSET S : IsFiniteSet(s) /\ Cardinality(s) \in Nat
  BY FS_Subset, FS_CardinalityType
<1>2. SUFFICES ASSUME Sizes # {} PROVE FALSE
  OBVIOUS
<1>3. Sizes \subseteq Nat
  BY <1>1
<1> HIDE DEF Sizes
<1>4. PICK n \in Sizes : \A k \in Sizes : ~ (<<k, n>> \in OpToRel(<, Nat))
  BY <1>2, <1>3, NatLessThanWellFounded, WFMin
<1>5. ASSUME NEW k \in Sizes, k < n PROVE FALSE
  <2>1. <<k, n>> \in Nat \X Nat /\ <<k, n>>[1] < <<k, n>>[2]
    BY <1>3, <1>5
  <2> QED
    BY <1>4, <2>1 DEF OpToRel
<1>6. PICK s \in SUBSET S : s \notin Good /\ n = Cardinality(s)
  BY DEF Sizes
<1>7. PICK x \in s : s \ {x} \notin Good
  BY <1>6
<1>8. Cardinality(s \ {x}) \in Sizes
  BY <1>7 DEF Sizes
<1>9. Cardinality(s \ {x}) = Cardinality(s) - 1
  BY <1>1, <1>7, FS_RemoveElement
<1> QED
  BY <1>1, <1>5, <1>6, <1>8, <1>9

Pick(s) == CHOOSE x \in s : TRUE

\* The function of which a sum over S takes the value at S.
Sums(it, g, S) ==
  it = [s \in SUBSET S |-> IF s = {} THEN 0 ELSE g[Pick(s)] + it[s \ {Pick(s)}]]

LEMMA SumsStepwise ==
  ASSUME NEW S, NEW g, NEW it, Sums(it, g, S), NEW s \in SUBSET S
  PROVE  it[s] = IF s = {} THEN 0 ELSE g[Pick(s)] + it[s \ {Pick(s)}]
BY DEF Sums

\* The units at the places of s.
UnitsAt(T, place, s) == {t \in T : place[t] \in s}

LEMMA UnitsOfMore ==
  ASSUME NEW T, NEW place, NEW s, NEW x \in s,
         IsFiniteSet(UnitsAt(T, place, {x})), IsFiniteSet(UnitsAt(T, place, s \ {x}))
  PROVE  /\ IsFiniteSet(UnitsAt(T, place, s))
         /\ Cardinality(UnitsAt(T, place, s)) =
              Cardinality(UnitsAt(T, place, {x})) + Cardinality(UnitsAt(T, place, s \ {x}))
<1> DEFINE A == UnitsAt(T, place, {x})
           B == UnitsAt(T, place, s \ {x})
<1>1. UnitsAt(T, place, s) = A \cup B
  BY DEF UnitsAt
<1>2. A \cap B = {}
  BY DEF UnitsAt
<1> HIDE DEF A, B
<1>3. IsFiniteSet(A) /\ IsFiniteSet(B)
  BY DEF A, B
<1>4. /\ IsFiniteSet(A \cup B)
      /\ Cardinality(A \cup B) = Cardinality(A) + Cardinality(B) - Cardinality(A \cap B)
  BY <1>3, FS_Union, Zenon
<1>5. Cardinality(A \cap B) = 0 /\ Cardinality(A) \in Nat /\ Cardinality(B) \in Nat
  BY <1>2, <1>3, FS_EmptySet, FS_CardinalityType
<1> QED
  BY <1>1, <1>4, <1>5 DEF A, B

\* Every place in S has as many of the units T as g says.
Distributes(S, T, place, g) ==
  /\ IsFiniteSet(S) /\ \A t \in T : place[t] \in S
  /\ \A x \in S : /\ IsFiniteSet(UnitsAt(T, place, {x}))
                  /\ g[x] = Cardinality(UnitsAt(T, place, {x}))

LEMMA SumCountsUnits ==
  ASSUME NEW S, NEW T, NEW place, NEW g, Distributes(S, T, place, g)
  PROVE  /\ IsFiniteSet(T)
         /\ \E it : Sums(it, g, S)
         /\ \A it : Sums(it, g, S) => it[S] = Cardinality(T)
<1> USE DEF Distributes
<1> DEFINE Finite == {s \in SUBSET S : \A t \in SUBSET s : IsFiniteSet(UnitsAt(T, place, t))}
           units == [s \in SUBSET S |-> Cardinality(UnitsAt(T, place, s))]
<1>1. UnitsAt(T, place, {}) = {} /\ UnitsAt(T, place, S) = T
  BY DEF UnitsAt
<1>2. S \in Finite
  <2>1. {} \in Finite
    BY <1>1, FS_EmptySet
  <2>2. ASSUME NEW s \in SUBSET S, s # {}, \A x \in s : s \ {x} \in Finite
        PROVE  s \in Finite
    <3>1. PICK x \in s : TRUE
      BY <2>2
    <3>2. \A t \in SUBSET (s \ {x}) : IsFiniteSet(UnitsAt(T, place, t))
      BY <2>2, <3>1
    <3>3. ASSUME NEW t \in SUBSET s PROVE IsFiniteSet(UnitsAt(T, place, t))
      <4>1. CASE x \in t
        <5>1. IsFiniteSet(UnitsAt(T, place, t \ {x}))
          BY <3>2
        <5> QED
          BY <4>1, <5>1, UnitsOfMore
      <4>2. CASE x \notin t
        BY <3>2, <4>2
      <4> QED
        BY <4>1, <4>2
    <3> QED
      BY <3>3
  <2> HIDE DEF Finite
  <2> QED
    BY <2>1, <2>2, SubsetInduction
<1>3. \A s \in SUBSET S : IsFiniteSet(UnitsAt(T, place, s))
  BY <1>2
<1>4. ASSUME NEW s \in SUBSET S
      PROVE  units[s] = IF s = {} THEN 0 ELSE g[Pick(s)] + units[s \ {Pick(s)}]
  <2>1. CASE s = {}
    BY <1>1, <2>1, FS_EmptySet
  <2>2. CASE s # {}
    <3>1. Pick(s) \in s /\ s \ {Pick(s)} \in SUBSET S
      BY <2>2 DEF Pick
    <3>2. Cardinality(UnitsAt(T, place, s)) =
            Cardinality(UnitsAt(T, place, {Pick(s)}))
              + Cardinality(UnitsAt(T, place, s \ {Pick(s)}))
      BY <1>3, <3>1, UnitsOfMore
    <3> QED
      BY <2>2, <3>1, <3>2
  <2> QED
    BY <2>1, <2>2
<1>5. Sums(units, g, S)
  <2>1. units = [s \in SUBSET S |-> units[s]]
    OBVIOUS
  <2> HIDE DEF units
  <2> QED
    BY <1>4, <2>1 DEF Sums
<1>6. ASSUME NEW it, Sums(it, g, S) PROVE it[S] = units[S]
  <2> DEFINE Good == {s \in SUBSET S : it[s] = units[s]}
  <2> HIDE DEF units
  <2>1. {} \in Good
    BY <1>4, <1>6, SumsStepwise
  <2>2. ASSUME NEW s \in SUBSET S, s # {}, \A x \in s : s \ {x} \in Good
        PROVE  s \in Good
    <3>1. Pick(s) \in s
      BY <2>2 DEF Pick
    <3>2. it[s \ {Pick(s)}] = units[s \ {Pick(s)}]
      BY <2>2, <3>1
    <3>3. it[s] = g[Pick(s)] + it[s \ {Pick(s)}]
      BY <1>6, <2>2, SumsStepwise
    <3>4. units[s] = g[Pick(s)] + units[s \ {Pick(s)}]
      BY <1>4, <2>2
    <3> QED
      BY <3>2, <3>3, <3>4
  <2> HIDE DEF Good
  <2>3. S \in Good
    BY <2>1, <2>2, SubsetInduction
  <2> QED
    BY <2>3 DEF Good
<1> QED
  BY <1>1, <1>3, <1>5, <1>6

\* The units of one place: as many as its summand.
LEMMA UnitsOfOne ==
  ASSUME NEW x, NEW n \in Nat
  PROVE  IsFiniteSet({x} \X (1..n)) /\ Cardinality({x} \X (1..n)) = n
<1>1. IsFiniteSet({x}) /\ Cardinality({x}) = 1
  BY FS_Singleton
<1>2. IsFiniteSet(1..n) /\ Cardinality(1..n) = n
  BY FS_Interval
<1>3. /\ IsFiniteSet({x} \X (1..n))
      /\ Cardinality({x} \X (1..n)) = Cardinality({x}) * Cardinality(1..n)
  BY <1>1, <1>2, FS_Product
<1> QED
  BY <1>1, <1>2, <1>3

-----------------------------------------------------------------------------
(***************************************************************************)
(* FindingsAreCounted.  The occurrences that jobs have told the database   *)
(* of are counted against those that the rows count, fingerprint by        *)
(* fingerprint, both as the units of their sums.                           *)
(***************************************************************************)
\* The occurrences of p that the rows count, as a row and a number each.
UnitsCounted(p) ==
  {u \in Nat \X Nat : u[1] \in RowsOf(p) /\ u[2] \in 1..findings[u[1]].count}

\* Those that job m reports, as a place of a report and a number each.
UnitsOf(m, p) ==
  {u \in ({m} \X Nat) \X Nat :
     /\ u[1][2] \in DOMAIN reports[m] /\ reports[m][u[1][2]].print = p
     /\ u[2] \in 1..reports[m][u[1][2]].times}

UnitsReported(p, M) == UNION {UnitsOf(m, p) : m \in M}

RowUnits(p, f) == {u \in UnitsCounted(p) : u[1] = f}

LEMMA UnitsOfRow ==
  ASSUME EvidenceInv, NEW p, NEW f \in RowsOf(p)
  PROVE  /\ IsFiniteSet(RowUnits(p, f))
         /\ Cardinality(RowUnits(p, f)) = findings[f].count
<1>1. f \in Nat /\ findings[f].count \in Nat
  <2>1. f \in DOMAIN findings /\ findings \in Seq(FindingRow)
    BY DEF RowsOf, EvidenceInv, Findings
  <2>2. f \in Nat /\ findings[f] \in FindingRow
    BY <2>1
  <2> QED
    BY <2>2 DEF FindingRow
<1>2. RowUnits(p, f) = {f} \X (1..findings[f].count)
  BY <1>1 DEF UnitsCounted, RowUnits
<1> DEFINE n == findings[f].count
<1>3. n \in Nat
  BY <1>1
<1> HIDE DEF n
<1>4. IsFiniteSet({f} \X (1..n)) /\ Cardinality({f} \X (1..n)) = n
  BY <1>3, UnitsOfOne
<1> QED
  BY <1>2, <1>4 DEF n

LEMMA OccurrencesCounted ==
  ASSUME EvidenceInv, NEW p
  PROVE  IsFiniteSet(UnitsCounted(p)) /\ Occurrences(p) = Cardinality(UnitsCounted(p))
<1> DEFINE S == RowsOf(p)
           g == [f \in S |-> findings[f].count]
           place == [u \in UnitsCounted(p) |-> u[1]]
           Sum(it) == it = [s \in SUBSET S |-> IF s = {} THEN 0
                              ELSE findings[Pick(s)].count + it[s \ {Pick(s)}]]
<1>1. IsFiniteSet(S)
  <2>1. findings \in Seq(FindingRow)
    BY DEF EvidenceInv, Findings
  <2>2. Len(findings) \in Nat /\ DOMAIN findings = 1..Len(findings)
    BY <2>1
  <2>3. IsFiniteSet(1..Len(findings))
    BY <2>2, FS_Interval
  <2> QED
    BY <2>2, <2>3, FS_Subset DEF RowsOf
<1>2. \A u \in UnitsCounted(p) : place[u] \in S
  BY DEF UnitsCounted
<1>3. ASSUME NEW f \in S
      PROVE  /\ IsFiniteSet(UnitsAt(UnitsCounted(p), place, {f}))
             /\ g[f] = Cardinality(UnitsAt(UnitsCounted(p), place, {f}))
  <2>1. UnitsAt(UnitsCounted(p), place, {f}) = RowUnits(p, f)
    BY DEF UnitsAt, RowUnits
  <2> QED
    BY <2>1, UnitsOfRow
<1>4. Occurrences(p) = (CHOOSE it : Sum(it))[S]
  BY DEF Occurrences, MapThenSumSet, MapThenFoldSet, Pick
<1>5. ASSUME NEW it PROVE Sum(it) <=> Sums(it, g, S)
  <2>1. \A s \in SUBSET S : s # {} => g[Pick(s)] = findings[Pick(s)].count
    BY DEF Pick
  <2> HIDE DEF S, g
  <2> QED
    BY <2>1 DEF Sums
<1>6. /\ IsFiniteSet(UnitsCounted(p)) /\ \E it : Sums(it, g, S)
      /\ \A it : Sums(it, g, S) => it[S] = Cardinality(UnitsCounted(p))
  <2>1. Distributes(S, UnitsCounted(p), place, g)
    BY <1>1, <1>2, <1>3 DEF Distributes
  <2> HIDE DEF S, g, place
  <2> QED
    BY <2>1, SumCountsUnits
<1> HIDE DEF S, g, place
<1>7. \E it : Sum(it)
  BY <1>5, <1>6
<1>8. Sum(CHOOSE it : Sum(it))
  <2> HIDE DEF Sum
  <2> QED
    BY <1>7
<1> HIDE DEF Sum
<1> QED
  BY <1>4, <1>5, <1>6, <1>8

\* The reports of job m are numbered.
Numbered(m) == DOMAIN reports[m] = 1..Len(reports[m]) /\ Len(reports[m]) \in Nat

LEMMA ReportedByCounted ==
  ASSUME EvidenceInv, NEW m \in Reporters, NEW p, Numbered(m)
  PROVE  IsFiniteSet(UnitsOf(m, p)) /\ ReportedBy(m, p) = Cardinality(UnitsOf(m, p))
<1> DEFINE S == {i \in DOMAIN reports[m] : reports[m][i].print = p}
           g == [i \in S |-> reports[m][i].times]
           place == [u \in UnitsOf(m, p) |-> u[1][2]]
           Sum(it) == it = [s \in SUBSET S |-> IF s = {} THEN 0
                              ELSE reports[m][Pick(s)].times + it[s \ {Pick(s)}]]
<1>1. IsFiniteSet(S)
  <2>1. Len(reports[m]) \in Int /\ DOMAIN reports[m] = 1..Len(reports[m])
    BY DEF Numbered
  <2>2. \A n \in Int : IsFiniteSet(1..n)
    BY FS_Interval
  <2>3. IsFiniteSet(DOMAIN reports[m])
    <3> HIDE DEF S, g, place, Sum
    <3> QED
      BY <2>1, <2>2
  <2> QED
    BY <2>3, FS_Subset
<1>2. \A u \in UnitsOf(m, p) : place[u] \in S
  BY DEF UnitsOf
<1>3. ASSUME NEW i \in S
      PROVE  /\ IsFiniteSet(UnitsAt(UnitsOf(m, p), place, {i}))
             /\ g[i] = Cardinality(UnitsAt(UnitsOf(m, p), place, {i}))
  <2>1. UnitsAt(UnitsOf(m, p), place, {i}) = {<<m, i>>} \X (1..reports[m][i].times)
    <3>1. i \in Nat /\ i \in DOMAIN reports[m] /\ reports[m][i].print = p
      BY DEF Numbered
    <3>2. UnitsAt(UnitsOf(m, p), place, {i}) = {u \in UnitsOf(m, p) : u[1][2] = i}
      BY DEF UnitsAt
    <3>3. ASSUME NEW u \in {<<m, i>>} \X (1..reports[m][i].times)
          PROVE  u \in UnitsOf(m, p) /\ u[1][2] = i
      BY <3>1 DEF UnitsOf
    <3>4. ASSUME NEW u \in UnitsOf(m, p), u[1][2] = i
          PROVE  u \in {<<m, i>>} \X (1..reports[m][i].times)
      BY <3>4 DEF UnitsOf
    <3> QED
      BY <3>2, <3>3, <3>4
  <2> DEFINE n == reports[m][i].times
             x == <<m, i>>
  <2>2. n \in Nat
    BY DEF EvidenceInv, Reports
  <2> HIDE DEF n, x
  <2>3. IsFiniteSet({x} \X (1..n)) /\ Cardinality({x} \X (1..n)) = n
    BY <2>2, UnitsOfOne
  <2> QED
    BY <2>1, <2>3 DEF n, x
<1>4. ReportedBy(m, p) = (CHOOSE it : Sum(it))[S]
  BY DEF ReportedBy, MapThenSumSet, MapThenFoldSet, Pick
<1>5. ASSUME NEW it PROVE Sum(it) <=> Sums(it, g, S)
  <2>1. \A s \in SUBSET S : s # {} => g[Pick(s)] = reports[m][Pick(s)].times
    BY DEF Pick
  <2> HIDE DEF S, g
  <2> QED
    BY <2>1 DEF Sums
<1>6. /\ IsFiniteSet(UnitsOf(m, p)) /\ \E it : Sums(it, g, S)
      /\ \A it : Sums(it, g, S) => it[S] = Cardinality(UnitsOf(m, p))
  <2>1. Distributes(S, UnitsOf(m, p), place, g)
    BY <1>1, <1>2, <1>3 DEF Distributes
  <2> HIDE DEF S, g, place
  <2> QED
    BY <2>1, SumCountsUnits
<1> HIDE DEF S, g, place
<1>7. Sum(CHOOSE it : Sum(it))
  <2>1. \E it : Sum(it)
    BY <1>5, <1>6
  <2> HIDE DEF Sum
  <2> QED
    BY <2>1
<1> HIDE DEF Sum
<1> QED
  BY <1>4, <1>5, <1>6, <1>7

LEMMA ReportedCounted ==
  ASSUME EvidenceInv, NEW p, \A m \in Reporters : Numbered(m)
  PROVE  LET T == UnitsReported(p, {m \in Reporters : At(m, "done")}) IN
         IsFiniteSet(T) /\ Reported(p) = Cardinality(T)
<1> DEFINE S == {m \in Reporters : At(m, "done")}
           T == UnitsReported(p, S)
           g == [m \in S |-> ReportedBy(m, p)]
           place == [u \in T |-> u[1][1]]
           Sum(it) == it = [s \in SUBSET S |-> IF s = {} THEN 0
                              ELSE ReportedBy(Pick(s), p) + it[s \ {Pick(s)}]]
<1>1. IsFiniteSet(S)
  BY ReportersAssumption, FS_Subset
<1>2. \A u \in T : place[u] \in S
  BY DEF UnitsReported, UnitsOf
<1>3. ASSUME NEW m \in S
      PROVE  /\ IsFiniteSet(UnitsAt(T, place, {m}))
             /\ g[m] = Cardinality(UnitsAt(T, place, {m}))
  <2>1. UnitsAt(T, place, {m}) = UnitsOf(m, p)
    BY DEF UnitsAt, UnitsReported, UnitsOf
  <2>2. IsFiniteSet(UnitsOf(m, p)) /\ ReportedBy(m, p) = Cardinality(UnitsOf(m, p))
    BY ReportedByCounted
  <2> QED
    BY <2>1, <2>2
<1>4. Reported(p) = (CHOOSE it : Sum(it))[S]
  BY DEF Reported, MapThenSumSet, MapThenFoldSet, Pick
<1>5. ASSUME NEW it PROVE Sum(it) <=> Sums(it, g, S)
  <2>1. \A s \in SUBSET S : s # {} => g[Pick(s)] = ReportedBy(Pick(s), p)
    BY DEF Pick
  <2> HIDE DEF S, g
  <2> QED
    BY <2>1 DEF Sums
<1>6. /\ IsFiniteSet(T) /\ \E it : Sums(it, g, S)
      /\ \A it : Sums(it, g, S) => it[S] = Cardinality(T)
  <2>1. Distributes(S, T, place, g)
    BY <1>1, <1>2, <1>3 DEF Distributes
  <2> HIDE DEF S, T, g, place
  <2> QED
    BY <2>1, SumCountsUnits
<1> HIDE DEF g, place
<1>7. Sum(CHOOSE it : Sum(it))
  <2>1. \E it : Sum(it)
    BY <1>5, <1>6
  <2> HIDE DEF Sum
  <2> QED
    BY <2>1
<1> HIDE DEF Sum, S, T
<1>8. Reported(p) = Cardinality(T)
  BY <1>4, <1>5, <1>6, <1>7
<1> QED
  BY <1>6, <1>8 DEF S, T

-----------------------------------------------------------------------------
(***************************************************************************)
(* What a step of a mission job does to the findings, and where the job is *)
(* then.                                                                   *)
(***************************************************************************)
EvidenceFor(f) == {e \in DOMAIN evidence : evidence[e].finding = f}

\* No row of evidence is added, or one of finding f is.
SameEvidence == \A f : EvidenceFor(f)' = EvidenceFor(f)
MoreEvidence(f) ==
  /\ Len(evidence) + 1 \notin DOMAIN evidence
  /\ EvidenceFor(f)' = EvidenceFor(f) \cup {Len(evidence) + 1}
  /\ \A g : g # f => EvidenceFor(g)' = EvidenceFor(g)

Others(m) ==
  /\ UNCHANGED reports /\ raced \subseteq raced' /\ happened \subseteq happened'
  /\ \A n \in Reporters \ {m} : job'[n] = job[n]

\* The job's next label; the findings it has done and known.
Goes(m, pc, next, known) ==
  job'[m].pc = pc /\ job'[m].next = next /\ job'[m].known = known

Starts(m) ==
  /\ At(m, "start") /\ UNCHANGED findings /\ SameEvidence
  /\ Goes(m, "next", job[m].next, {findings[f].print : f \in DOMAIN findings})
  /\ "persist" \notin raced' => \A n \in Reporters \ {m} : ~Persisting(n)

Creates(m) ==
  LET f == Len(findings) + 1 IN
  /\ At(m, "next") /\ job[m].next \in DOMAIN reports[m]
  /\ Current(m).print \notin job[m].known
  /\ f \in Nat \ DOMAIN findings /\ DOMAIN findings' = DOMAIN findings \cup {f}
  /\ \A g \in DOMAIN findings : findings'[g] = findings[g]
  /\ findings'[f].print = Current(m).print /\ findings'[f].count = Current(m).times
  /\ findings'[f].sources = {m}
  /\ MoreEvidence(f)
  /\ Goes(m, "made", job[m].next, job[m].known) /\ job'[m].row = f

Lists(m) ==
  /\ At(m, "made") /\ UNCHANGED findings /\ SameEvidence
  /\ Goes(m, "list", job[m].next, job[m].known)
  /\ job'[m].row = job[m].row /\ job'[m].lists = EvidenceFor(job[m].row)

Writes(m) ==
  /\ At(m, "list") /\ SameEvidence
  /\ DOMAIN findings' = DOMAIN findings
  /\ \A g \in DOMAIN findings :
       /\ findings'[g].print = findings[g].print
       /\ findings'[g].count = findings[g].count
       /\ findings'[g].sources = findings[g].sources
       /\ findings'[g].lists = IF g = job[m].row THEN job[m].lists ELSE findings[g].lists
  /\ Goes(m, "next", job[m].next + 1, job[m].known \cup {Current(m).print})

Finds(m) ==
  /\ At(m, "next") /\ UNCHANGED findings /\ SameEvidence
  /\ job[m].next \in DOMAIN reports[m] /\ job'[m].row \in RowsOf(Current(m).print)
  /\ Goes(m, "found", job[m].next, job[m].known)
  /\ job'[m].sources = findings[job'[m].row].sources
  /\ job'[m].lists = findings[job'[m].row].lists

Adds(m) ==
  /\ At(m, "found") /\ UNCHANGED findings /\ MoreEvidence(job[m].row)
  /\ Goes(m, "merge", job[m].next, job[m].known)
  /\ job'[m].row = job[m].row /\ job'[m].sources = job[m].sources
  /\ job'[m].lists = job[m].lists \cup {Len(evidence) + 1}

Merges(m) ==
  /\ At(m, "merge") /\ SameEvidence
  /\ DOMAIN findings' = DOMAIN findings
  /\ \A g \in DOMAIN findings \ {job[m].row} : findings'[g] = findings[g]
  /\ LET f == job[m].row IN
       /\ findings'[f].print = findings[f].print
       /\ findings'[f].count = findings[f].count + Current(m).times
       /\ findings'[f].sources = job[m].sources \cup {m}
       /\ findings'[f].lists = job[m].lists
  /\ Goes(m, "next", job[m].next + 1, job[m].known)

Leaves(m) ==
  /\ At(m, "next") /\ job[m].next \notin DOMAIN reports[m]
  /\ UNCHANGED findings /\ SameEvidence
  /\ job'[m].pc \in {"upload", "done"} /\ job'[m].next = 1

Stores(m) ==
  /\ job[m].pc \in {"upload", "put"} /\ UNCHANGED findings /\ SameEvidence
  /\ job'[m].pc \in {"upload", "put", "done"} /\ job'[m].next \in {1, job[m].next}

Crashes(m) ==
  /\ UNCHANGED findings /\ SameEvidence /\ "job" \in happened'
  /\ job'[m].pc \in {"start", "gave-up"} /\ job'[m].next = 1

JobDoes(m) ==
  /\ Others(m)
  /\ \/ Starts(m) \/ Creates(m) \/ Lists(m) \/ Writes(m) \/ Finds(m) \/ Adds(m)
     \/ Merges(m) \/ Leaves(m) \/ Stores(m) \/ Crashes(m)

Rests ==
  /\ UNCHANGED <<findings, job, reports>> /\ SameEvidence
  /\ raced \subseteq raced' /\ happened \subseteq happened'

LEMMA SameRowsSameEvidence ==
  ASSUME DOMAIN evidence' = DOMAIN evidence,
         \A e \in DOMAIN evidence : evidence'[e].finding = evidence[e].finding
  PROVE  SameEvidence
BY DEF SameEvidence, EvidenceFor

LEMMA NewRowMoreEvidence ==
  ASSUME EvidenceInv, NEW f \in Nat, NEW shot \in BOOLEAN,
         evidence' = Append(evidence, EvidenceOf(f, shot))
  PROVE  MoreEvidence(f)
<1>1. EvidenceOf(f, shot).finding = f
  BY DEF EvidenceOf
<1> QED
  BY <1>1, EvidenceGrows DEF MoreEvidence, EvidenceFor

LEMMA JobActs ==
  ASSUME EvidenceInv, NEW m \in Reporters, JobStep(m) \/ Fails(m)
  PROVE  JobDoes(m)
<1>1. /\ job \in [Reporters -> JobRow] /\ job[m] \in JobRow /\ Refers(m)
      /\ findings \in Seq(FindingRow)
      /\ \A e \in DOMAIN evidence : evidence[e] \in EvidenceRow
      /\ \A f \in DOMAIN findings : findings[f] \in FindingRow
  BY DEF EvidenceInv, Jobs, Evidence, Findings
<1>2. CASE ReadKnown(m)
  <2> DEFINE known == {findings[f].print : f \in DOMAIN findings}
             j == [job[m] EXCEPT !.pc = "next", !.known = known]
  <2>1. job' = [job EXCEPT ![m] = j]
    BY <1>1, <1>2 DEF ReadKnown
  <2>2. j.pc = "next" /\ j.next = job[m].next /\ j.known = known
    BY <1>1 DEF JobRow
  <2> HIDE DEF j
  <2>3. job'[m] = j /\ \A n \in Reporters \ {m} : job'[n] = job[n]
    BY <1>1, <2>1
  <2>4. /\ UNCHANGED <<findings, evidence, reports, happened>> /\ raced \subseteq raced'
        /\ "persist" \notin raced' => \A n \in Reporters \ {m} : ~Persisting(n)
        /\ At(m, "start")
    BY <1>2 DEF ReadKnown, rowVars, settings, budgetVars
  <2>5. SameEvidence
    BY <2>4, SameRowsSameEvidence
  <2> QED
    BY <2>2, <2>3, <2>4, <2>5 DEF JobDoes, Others, Starts, Goes
<1>3. CASE CreateFinding(m)
  <2> DEFINE f == Len(findings) + 1
             row == [print |-> Current(m).print, count |-> Current(m).times,
                     sources |-> {m}, lists |-> {}]
             j == [job[m] EXCEPT !.pc = "made", !.row = f]
  <2>1. job' = [job EXCEPT ![m] = j] /\ findings' = Append(findings, row)
    BY <1>1, <1>3 DEF CreateFinding
  <2>2. j.pc = "made" /\ j.next = job[m].next /\ j.known = job[m].known /\ j.row = f
    BY <1>1 DEF JobRow
  <2> HIDE DEF j
  <2>3. job'[m] = j /\ \A n \in Reporters \ {m} : job'[n] = job[n]
    BY <1>1, <2>1
  <2>4. /\ UNCHANGED <<reports, happened, raced>> /\ At(m, "next")
        /\ job[m].next \in DOMAIN reports[m] /\ Current(m).print \notin job[m].known
    BY <1>3 DEF CreateFinding, settings, budgetVars
  <2>5. Current(m).shot \in BOOLEAN /\ Current(m).times \in Nat \ {0}
        /\ Current(m).print \in Prints
    BY <2>4 DEF EvidenceInv, Reports, Current, Prints, Range
  <2>6. row \in FindingRow
    BY <2>5 DEF FindingRow
  <2>7. row.print = Current(m).print /\ row.count = Current(m).times /\ row.sources = {m}
    OBVIOUS
  <2>8. /\ f \in Nat \ DOMAIN findings /\ DOMAIN findings' = DOMAIN findings \cup {f}
        /\ \A g \in DOMAIN findings : findings'[g] = findings[g]
        /\ findings'[f] = row
    <3> HIDE DEF row
    <3>1. Len(findings) \in Nat /\ DOMAIN findings = 1..Len(findings)
      BY <1>1
    <3>2. findings' \in Seq(FindingRow) /\ Len(findings') = f
      BY <1>1, <2>1, <2>6
    <3> QED
      BY <1>1, <2>1, <2>6, <3>1, <3>2
  <2>9. MoreEvidence(f)
    BY <1>3, <2>5, <2>8, NewRowMoreEvidence DEF CreateFinding
  <2> HIDE DEF row
  <2> QED
    BY <2>2, <2>3, <2>4, <2>7, <2>8, <2>9 DEF JobDoes, Others, Creates, Goes
<1>4. CASE ListNewEvidence(m)
  <2> DEFINE j == [job[m] EXCEPT !.pc = "list", !.lists = EvidenceFor(job[m].row)]
  <2>1. job' = [job EXCEPT ![m] = j]
    BY <1>1, <1>4 DEF ListNewEvidence, EvidenceFor
  <2>2. /\ j.pc = "list" /\ j.next = job[m].next /\ j.known = job[m].known
        /\ j.row = job[m].row /\ j.lists = EvidenceFor(job[m].row)
    BY <1>1 DEF JobRow
  <2> HIDE DEF j
  <2>3. job'[m] = j /\ \A n \in Reporters \ {m} : job'[n] = job[n]
    BY <1>1, <2>1
  <2>4. UNCHANGED <<findings, evidence, reports, happened, raced>> /\ At(m, "made")
    BY <1>4 DEF ListNewEvidence, findingVars, rowVars, settings, budgetVars
  <2>5. SameEvidence
    BY <2>4, SameRowsSameEvidence
  <2> QED
    BY <2>2, <2>3, <2>4, <2>5 DEF JobDoes, Others, Lists, Goes
<1>5. CASE WriteNewEvidence(m) \/ Merge(m)
  <2> DEFINE a == Advanced(job[m])
             b == [a EXCEPT !.known = @ \cup {Current(m).print}]
             f == job[m].row
  <2>1. /\ a.pc = "next" /\ a.next = job[m].next + 1 /\ a.known = job[m].known
        /\ b.pc = "next" /\ b.next = job[m].next + 1
        /\ b.known = job[m].known \cup {Current(m).print}
    <3>1. /\ a = [job[m] EXCEPT !.pc = "next", !.next = job[m].next + 1, !.row = None,
                                !.sources = {}, !.lists = {}]
          /\ b = [a EXCEPT !.known = job[m].known \cup {Current(m).print}]
      BY <1>1 DEF Advanced, JobRow
    <3> HIDE DEF b
    <3>2. /\ a.pc = "next" /\ a.next = job[m].next + 1 /\ a.known = job[m].known
          /\ DOMAIN a = DOMAIN job[m]
      BY <1>1, <3>1 DEF JobRow
    <3> QED
      BY <1>1, <3>1, <3>2 DEF JobRow
  <2> HIDE DEF a, b
  <2>2. /\ UNCHANGED <<evidence, reports, happened, raced>>
        /\ f \in DOMAIN findings
    BY <1>1, <1>5 DEF WriteNewEvidence, Merge, Refers, rowVars, settings, budgetVars, At
  <2>3. SameEvidence
    BY <2>2, SameRowsSameEvidence
  <2>4. CASE WriteNewEvidence(m)
    <3>1. job' = [job EXCEPT ![m] = b] /\ At(m, "list")
      BY <2>4 DEF WriteNewEvidence, a, b
    <3>2. job'[m] = b /\ \A n \in Reporters \ {m} : job'[n] = job[n]
      BY <1>1, <3>1
    <3> DEFINE row == [findings[f] EXCEPT !.lists = job[m].lists]
    <3>3. findings' = [findings EXCEPT ![f] = row]
      BY <1>1, <2>4 DEF WriteNewEvidence
    <3>4. /\ row.print = findings[f].print /\ row.count = findings[f].count
          /\ row.sources = findings[f].sources /\ row.lists = job[m].lists
      BY <1>1, <2>2 DEF FindingRow
    <3> HIDE DEF row
    <3>5. /\ DOMAIN findings' = DOMAIN findings /\ findings'[f] = row
          /\ \A g \in DOMAIN findings \ {f} : findings'[g] = findings[g]
      BY <1>1, <2>2, <3>3
    <3> QED
      BY <2>1, <2>2, <2>3, <3>1, <3>2, <3>4, <3>5 DEF JobDoes, Others, Writes, Goes
  <2>5. CASE Merge(m)
    <3>1. job' = [job EXCEPT ![m] = a] /\ At(m, "merge")
      BY <2>5 DEF Merge, a
    <3>2. job'[m] = a /\ \A n \in Reporters \ {m} : job'[n] = job[n]
      BY <1>1, <3>1
    <3> DEFINE row == [findings[f] EXCEPT !.count = @ + Current(m).times,
                         !.sources = job[m].sources \cup {m}, !.lists = job[m].lists]
    <3>3. findings' = [findings EXCEPT ![f] = row]
      BY <1>1, <2>5 DEF Merge
    <3>4. /\ row.print = findings[f].print
          /\ row.count = findings[f].count + Current(m).times
          /\ row.sources = job[m].sources \cup {m} /\ row.lists = job[m].lists
      BY <1>1, <2>2 DEF FindingRow
    <3> HIDE DEF row
    <3>5. /\ DOMAIN findings' = DOMAIN findings /\ findings'[f] = row
          /\ \A g \in DOMAIN findings \ {f} : findings'[g] = findings[g]
      BY <1>1, <2>2, <3>3
    <3> QED
      BY <2>1, <2>2, <2>3, <3>1, <3>2, <3>4, <3>5 DEF JobDoes, Others, Merges, Goes
  <2> QED
    BY <1>5, <2>4, <2>5
<1>6. CASE FindKnown(m)
  <2>1. PICK f \in RowsOf(Current(m).print) :
          job' = [job EXCEPT ![m].pc = "found", ![m].row = f,
                             ![m].sources = findings[f].sources,
                             ![m].lists = findings[f].lists]
    BY <1>6 DEF FindKnown
  <2> DEFINE j == [job[m] EXCEPT !.pc = "found", !.row = f,
                     !.sources = findings[f].sources, !.lists = findings[f].lists]
  <2>2. job' = [job EXCEPT ![m] = j]
    BY <1>1, <2>1
  <2>3. /\ j.pc = "found" /\ j.next = job[m].next /\ j.known = job[m].known
        /\ j.row = f /\ j.sources = findings[f].sources /\ j.lists = findings[f].lists
    BY <1>1 DEF JobRow
  <2> HIDE DEF j
  <2>4. job'[m] = j /\ \A n \in Reporters \ {m} : job'[n] = job[n]
    BY <1>1, <2>2
  <2>5. UNCHANGED <<findings, evidence, reports, happened, raced>> /\ At(m, "next")
        /\ job[m].next \in DOMAIN reports[m]
    BY <1>6 DEF FindKnown, findingVars, rowVars, settings, budgetVars
  <2>6. SameEvidence
    BY <2>5, SameRowsSameEvidence
  <2> QED
    BY <2>3, <2>4, <2>5, <2>6 DEF JobDoes, Others, Finds, Goes
<1>7. CASE AddEvidence(m)
  <2> DEFINE j == [job[m] EXCEPT !.pc = "merge", !.lists = @ \cup {Len(evidence) + 1}]
  <2>1. job' = [job EXCEPT ![m] = j]
    BY <1>1, <1>7 DEF AddEvidence
  <2>2. /\ j.pc = "merge" /\ j.next = job[m].next /\ j.known = job[m].known
        /\ j.row = job[m].row /\ j.sources = job[m].sources
        /\ j.lists = job[m].lists \cup {Len(evidence) + 1}
    BY <1>1 DEF JobRow
  <2> HIDE DEF j
  <2>3. job'[m] = j /\ \A n \in Reporters \ {m} : job'[n] = job[n]
    BY <1>1, <2>1
  <2>4. UNCHANGED <<findings, reports, happened, raced>> /\ At(m, "found")
    BY <1>7 DEF AddEvidence, findingVars, settings, budgetVars
  <2>5. job[m].row \in Nat /\ Current(m).shot \in BOOLEAN
    BY <1>1, <2>4 DEF At, Refers, EvidenceInv, Reports, Current
  <2>6. MoreEvidence(job[m].row)
    BY <1>7, <2>5, NewRowMoreEvidence DEF AddEvidence
  <2> QED
    BY <2>2, <2>3, <2>4, <2>6 DEF JobDoes, Others, Adds, Goes
<1>8. CASE ListUnstored(m)
  <2> DEFINE u == [AtRest EXCEPT !.pc = "upload", !.todo = Unstored,
                                 !.listed = Unstored # {}]
             j == IF storageOn THEN u ELSE Over("done")
  <2>1. job' = [job EXCEPT ![m] = j]
    BY <1>8 DEF ListUnstored
  <2>2. j.pc \in {"upload", "done"} /\ j.next = 1
    BY DEF Over, AtRest
  <2> HIDE DEF j
  <2>3. job'[m] = j /\ \A n \in Reporters \ {m} : job'[n] = job[n]
    BY <1>1, <2>1
  <2>4. /\ UNCHANGED <<findings, evidence, reports, happened>> /\ raced \subseteq raced'
        /\ At(m, "next") /\ job[m].next \notin DOMAIN reports[m]
    BY <1>8 DEF ListUnstored, rowVars, settings, budgetVars
  <2>5. SameEvidence
    BY <2>4, SameRowsSameEvidence
  <2> QED
    BY <2>2, <2>3, <2>4, <2>5 DEF JobDoes, Others, Leaves
<1>9. CASE PutObject(m) \/ MarkStored(m) \/ MarkRetention(m)
           \/ PutFails(m) \/ MarkStoredFails(m)
  <2>1. /\ UNCHANGED <<findings, reports, raced>> /\ happened \subseteq happened'
        /\ job[m].pc \in {"upload", "put"}
    BY <1>9 DEF PutObject, MarkStored, MarkRetention, PutFails, MarkStoredFails,
       Happens, findingVars, settings, budgetVars, At
  <2>2. PICK j : /\ job' = [job EXCEPT ![m] = j] /\ j.pc \in {"upload", "put", "done"}
                 /\ j.next \in {1, job[m].next}
    <3>1. CASE PutObject(m)
      <4> DEFINE j == [job[m] EXCEPT !.pc = "put", !.row = Min(job[m].todo),
                                     !.key = lastKey + 1]
      <4>1. j.pc = "put" /\ j.next = job[m].next
        BY <1>1 DEF JobRow
      <4>2. job' = [job EXCEPT ![m] = j]
        BY <3>1 DEF PutObject
      <4> QED
        BY <4>1, <4>2
    <3>2. CASE MarkStored(m) \/ MarkStoredFails(m)
      <4> DEFINE j == [job[m] EXCEPT !.pc = "upload", !.todo = @ \ {job[m].row},
                                     !.row = None, !.key = None]
      <4>1. j.pc = "upload" /\ j.next = job[m].next
        BY <1>1 DEF JobRow
      <4>2. job' = [job EXCEPT ![m] = j]
        BY <3>2 DEF MarkStored, MarkStoredFails
      <4> QED
        BY <4>1, <4>2
    <3>3. CASE PutFails(m)
      <4> DEFINE j == [job[m] EXCEPT !.todo = @ \ {Min(@)}]
      <4>1. j.pc = "upload" /\ j.next = job[m].next
        BY <1>1, <3>3 DEF JobRow, PutFails, At
      <4>2. job' = [job EXCEPT ![m] = j]
        BY <3>3 DEF PutFails
      <4> QED
        BY <4>1, <4>2
    <3>4. CASE MarkRetention(m)
      <4>1. Over("done").pc = "done" /\ Over("done").next = 1
        BY DEF Over, AtRest
      <4> QED
        BY <3>4, <4>1 DEF MarkRetention
    <3> QED
      BY <1>9, <3>1, <3>2, <3>3, <3>4
  <2>3. job'[m] = j /\ \A n \in Reporters \ {m} : job'[n] = job[n]
    BY <1>1, <2>2
  <2>4. SameEvidence
    <3>1. CASE UNCHANGED evidence
      BY <3>1, SameRowsSameEvidence
    <3>2. CASE MarkStored(m)
      <4> DEFINE row == [evidence[job[m].row] EXCEPT !.key = job[m].key]
      <4>1. evidence' = [evidence EXCEPT ![job[m].row] = row]
        BY <3>2 DEF MarkStored
      <4>2. \A e \in DOMAIN evidence : e = job[m].row => row.finding = evidence[e].finding
        BY <1>1 DEF EvidenceRow
      <4> HIDE DEF row
      <4>3. /\ DOMAIN evidence' = DOMAIN evidence
            /\ \A e \in DOMAIN evidence :
                 evidence'[e] = IF e = job[m].row THEN row ELSE evidence[e]
        BY <4>1
      <4> QED
        BY <4>2, <4>3, SameRowsSameEvidence
    <3>3. CASE MarkRetention(m)
      <4>1. /\ DOMAIN evidence' = DOMAIN evidence
            /\ \A e \in DOMAIN evidence :
                 \/ evidence'[e] = evidence[e]
                 \/ evidence'[e] = [evidence[e] EXCEPT !.expires = "later"]
        BY <3>3 DEF MarkRetention
      <4>2. \A e \in DOMAIN evidence : evidence'[e].finding = evidence[e].finding
        BY <1>1, <4>1 DEF EvidenceRow
      <4> QED
        BY <4>1, <4>2, SameRowsSameEvidence
    <3> QED
      BY <1>9, <3>1, <3>2, <3>3 DEF PutObject, PutFails, MarkStoredFails, rowVars
  <2> QED
    BY <2>1, <2>2, <2>3, <2>4 DEF JobDoes, Others, Stores
<1>10. CASE JobCrashes(m)
  <2>1. PICK pc \in {"start", "gave-up"} : job' = [job EXCEPT ![m] = Over(pc)]
    BY <1>10 DEF JobCrashes
  <2>2. Over(pc).pc = pc /\ Over(pc).next = 1
    BY DEF Over, AtRest
  <2>3. job'[m] = Over(pc) /\ \A n \in Reporters \ {m} : job'[n] = job[n]
    BY <1>1, <2>1
  <2>4. /\ UNCHANGED <<findings, evidence, reports, raced>> /\ happened \subseteq happened'
        /\ "job" \in happened'
    BY <1>10 DEF JobCrashes, Happens, findingVars, rowVars, settings
  <2>5. SameEvidence
    BY <2>4, SameRowsSameEvidence
  <2> QED
    BY <2>2, <2>3, <2>4, <2>5 DEF JobDoes, Others, Crashes
<1> QED
  BY <1>2, <1>3, <1>4, <1>5, <1>6, <1>7, <1>8, <1>9, <1>10 DEF JobStep, Fails

LEMMA FindingSteps ==
  ASSUME EvidenceInv, [EvidenceNext]_evidenceVars
  PROVE  Rests \/ \E m \in Reporters : JobDoes(m)
<1>1. ASSUME NEW c \in Cleaners, CleanerDoes(c) PROVE Rests
  BY <1>1, SameRowsSameEvidence DEF CleanerDoes, Kept, Rests
<1>2. ASSUME OthersDo PROVE Rests
  BY <1>2, SameRowsSameEvidence DEF OthersDo, Rests
<1> QED
  BY <1>1, <1>2, NextCases, JobActs, CleanerActs, OthersAct

-----------------------------------------------------------------------------
(***************************************************************************)
(* What was told is counted: whatever races and repeats there are, the     *)
(* rows of a fingerprint count no fewer occurrences than the jobs have     *)
(* told of, and, as long as no job was cut short, no more.                 *)
(***************************************************************************)
\* The reports of job m that are in the rows.
Told(m) ==
  {i \in DOMAIN reports[m] :
     /\ job[m].pc \notin {"start", "gave-up"}
     /\ job[m].pc \in {"next", "found", "merge"} => i < job[m].next
     /\ job[m].pc \in {"made", "list"} => i <= job[m].next}

UnitsTold(p) ==
  {u \in (Reporters \X Nat) \X Nat :
     /\ u[1][2] \in Told(u[1][1]) /\ reports[u[1][1]][u[1][2]].print = p
     /\ u[2] \in 1..reports[u[1][1]][u[1][2]].times}

\* A job in its loop is at a report or past the last.
InLoop ==
  \A m \in Reporters :
    /\ Numbered(m) /\ job[m].next \in 1..(Len(reports[m]) + 1)
    /\ job[m].pc = "start" => job[m].next = 1

CountInv ==
  /\ InLoop
  /\ \A p : /\ IsFiniteSet(UnitsTold(p)) /\ IsFiniteSet(UnitsCounted(p))
            /\ Cardinality(UnitsTold(p)) <= Cardinality(UnitsCounted(p))
            /\ "job" \notin happened =>
                 Cardinality(UnitsTold(p)) = Cardinality(UnitsCounted(p))

\* Nothing more is counted; a job that is cut short tells everything again.
CountsStay ==
  /\ DOMAIN findings' = DOMAIN findings
  /\ \A f \in DOMAIN findings : /\ findings'[f].print = findings[f].print
                                /\ findings'[f].count = findings[f].count
  /\ \A m \in Reporters : /\ Told(m)' \subseteq Told(m)
                          /\ "job" \notin happened' => Told(m)' = Told(m)

\* A report of job m is counted in row f, where there were c occurrences.
CountsIn(m, f, c) ==
  /\ DOMAIN findings' = DOMAIN findings \cup {f}
  /\ f \in DOMAIN findings => findings[f].print = Current(m).print /\ findings[f].count = c
  /\ f \notin DOMAIN findings => c = 0
  /\ findings'[f].print = Current(m).print
  /\ findings'[f].count = c + Current(m).times
  /\ \A g \in DOMAIN findings \ {f} : findings'[g] = findings[g]

CountsMore(m) ==
  /\ job[m].next \in DOMAIN reports[m] \ Told(m)
  /\ Told(m)' = Told(m) \cup {job[m].next}
  /\ \A n \in Reporters \ {m} : Told(n)' = Told(n)
  /\ \E f \in Nat, c \in Nat : CountsIn(m, f, c)

Counts == CountsStay \/ \E m \in Reporters : CountsMore(m)

LEMMA OthersTold ==
  ASSUME NEW m \in Reporters, Others(m), NEW n \in Reporters \ {m}
  PROVE  Told(n)' = Told(n)
BY DEF Others, Told

LEMMA LoopKept ==
  ASSUME EvidenceInv, InLoop, NEW m \in Reporters, JobDoes(m)
  PROVE  InLoop'
<1>1. job[m].next \in 1..(Len(reports[m]) + 1) /\ Numbered(m) /\ job[m] \in JobRow
  BY DEF InLoop, EvidenceInv, Jobs
<1>2. \A n \in Reporters : Numbered(n)'
  BY DEF InLoop, Numbered, JobDoes, Others
<1>3. \A n \in Reporters \ {m} : /\ job'[n].next \in 1..(Len(reports'[n]) + 1)
                                 /\ job'[n].pc = "start" => job'[n].next = 1
  BY DEF InLoop, JobDoes, Others
<1>4. reports' = reports
  BY DEF JobDoes, Others
<1>5. /\ job'[m].next \in 1..(Len(reports[m]) + 1)
      /\ job'[m].pc = "start" => job'[m].next = 1
  <2>1. job[m].pc \in {"list", "merge"} => job[m].next \in DOMAIN reports[m]
    BY DEF EvidenceInv, Jobs, Refers
  <2>2. CASE Starts(m) \/ Creates(m) \/ Lists(m) \/ Finds(m) \/ Adds(m)
    BY <1>1, <2>2 DEF Starts, Creates, Lists, Finds, Adds, Goes
  <2>3. CASE Writes(m) \/ Merges(m)
    BY <1>1, <2>1, <2>3 DEF Writes, Merges, Goes, Numbered, At
  <2>4. CASE Leaves(m) \/ Stores(m) \/ Crashes(m)
    BY <1>1, <2>4 DEF Leaves, Stores, Crashes, Numbered
  <2> QED
    BY <2>2, <2>3, <2>4 DEF JobDoes
<1> QED
  BY <1>2, <1>3, <1>4, <1>5 DEF InLoop

LEMMA ToldStays ==
  ASSUME EvidenceInv, InLoop, NEW m \in Reporters, Others(m),
         \/ Starts(m) \/ Lists(m) \/ Writes(m) \/ Finds(m) \/ Adds(m)
         \/ Leaves(m) \/ Stores(m)
  PROVE  \A n \in Reporters : Told(n)' = Told(n)
<1>1. /\ job[m].next \in 1..(Len(reports[m]) + 1) /\ Numbered(m)
      /\ job[m].pc = "start" => job[m].next = 1
  BY DEF InLoop
<1>2. reports' = reports /\ \A n \in Reporters \ {m} : Told(n)' = Told(n)
  BY OthersTold DEF Others
<1>3. CASE Starts(m)
  BY <1>1, <1>2, <1>3 DEF Starts, Goes, Told, At, Numbered
<1>4. CASE Lists(m) \/ Finds(m) \/ Adds(m)
  <2>1. Told(m)' = Told(m)
    BY <1>1, <1>2, <1>4 DEF Lists, Finds, Adds, Goes, Told, At
  <2> QED
    BY <1>2, <2>1
<1>5. CASE Leaves(m)
  BY <1>1, <1>2, <1>5 DEF Leaves, Told, At, Numbered
<1>6. CASE Stores(m)
  BY <1>1, <1>2, <1>6 DEF Stores, Told
<1>7. CASE Writes(m)
  BY <1>1, <1>2, <1>7 DEF Writes, Goes, Told, At, Numbered
<1> QED
  BY <1>3, <1>4, <1>5, <1>6, <1>7

LEMMA ToldGrows ==
  ASSUME EvidenceInv, InLoop, NEW m \in Reporters, Others(m), Creates(m) \/ Merges(m)
  PROVE  /\ job[m].next \in DOMAIN reports[m] \ Told(m)
         /\ Told(m)' = Told(m) \cup {job[m].next}
         /\ \A n \in Reporters \ {m} : Told(n)' = Told(n)
<1>1. job[m].next \in 1..(Len(reports[m]) + 1) /\ Numbered(m) /\ Refers(m)
  BY DEF InLoop, EvidenceInv, Jobs
<1>2. reports' = reports /\ \A n \in Reporters \ {m} : Told(n)' = Told(n)
  BY OthersTold DEF Others
<1>3. CASE Creates(m)
  BY <1>1, <1>2, <1>3 DEF Creates, Goes, Told, At, Numbered
<1>4. CASE Merges(m)
  <2>1. job[m].next \in DOMAIN reports[m]
    BY <1>1, <1>4 DEF Merges, At, Refers
  <2> QED
    BY <1>1, <1>2, <1>4, <2>1 DEF Merges, Goes, Told, At, Numbered
<1> QED
  BY <1>3, <1>4

LEMMA JobCounts ==
  ASSUME EvidenceInv, InLoop, NEW m \in Reporters, JobDoes(m)
  PROVE  CountsStay \/ CountsMore(m)
<1>1. Refers(m) /\ findings \in Seq(FindingRow) /\ Others(m)
  BY DEF EvidenceInv, Jobs, Findings, JobDoes
<1>2. ASSUME Starts(m) \/ Lists(m) \/ Finds(m) \/ Adds(m) \/ Leaves(m) \/ Stores(m)
      PROVE  CountsStay
  <2>1. findings' = findings
    BY <1>2 DEF Starts, Lists, Finds, Adds, Leaves, Stores
  <2> QED
    BY <1>1, <1>2, <2>1, ToldStays DEF CountsStay
<1>3. ASSUME Crashes(m) PROVE CountsStay
  <2>1. Told(m)' = {} /\ findings' = findings /\ "job" \in happened'
    BY <1>3 DEF Crashes, Told
  <2> QED
    BY <1>1, <2>1, OthersTold DEF CountsStay
<1>4. ASSUME Writes(m) PROVE CountsStay
  BY <1>1, <1>4, ToldStays DEF CountsStay, Writes
<1>5. ASSUME Creates(m) PROVE CountsMore(m)
  <2>1. Current(m).times \in Nat
    BY <1>1, <1>5, ToldGrows DEF Current, EvidenceInv, Reports, CountInv
  <2>2. CountsIn(m, Len(findings) + 1, 0) /\ Len(findings) + 1 \in Nat
    BY <1>1, <1>5, <2>1 DEF Creates, CountsIn
  <2> QED
    BY <1>1, <1>5, <2>2, ToldGrows DEF CountsMore
<1>6. ASSUME Merges(m) PROVE CountsMore(m)
  <2>1. /\ job[m].row \in DOMAIN findings
        /\ findings[job[m].row].print = Current(m).print
    BY <1>1, <1>6 DEF Merges, At, Refers
  <2> DEFINE f == job[m].row
  <2>2. findings[f] \in FindingRow /\ f \in Nat
    BY <1>1, <2>1
  <2>3. CountsIn(m, f, findings[f].count)
    BY <1>6, <2>1 DEF Merges, CountsIn
  <2> QED
    BY <1>1, <1>6, <2>2, <2>3, ToldGrows DEF CountsMore, FindingRow
<1> QED
  BY <1>2, <1>3, <1>4, <1>5, <1>6 DEF JobDoes

\* A set that grows by no more than the other stays as small.
LEMMA SetsGrow ==
  ASSUME NEW A, NEW B, NEW X, NEW Y, IsFiniteSet(A), IsFiniteSet(B),
         IsFiniteSet(X), IsFiniteSet(Y), Cardinality(X) = Cardinality(Y),
         A \cap X = {}, B \cap Y = {}
  PROVE  /\ IsFiniteSet(A \cup X) /\ IsFiniteSet(B \cup Y)
         /\ Cardinality(A) <= Cardinality(B) => Cardinality(A \cup X) <= Cardinality(B \cup Y)
         /\ Cardinality(A) = Cardinality(B) => Cardinality(A \cup X) = Cardinality(B \cup Y)
<1>1. /\ Cardinality(A) \in Nat /\ Cardinality(B) \in Nat /\ Cardinality(X) \in Nat
      /\ Cardinality(A \cap X) = 0 /\ Cardinality(B \cap Y) = 0
  BY FS_CardinalityType, FS_EmptySet
<1>2. /\ IsFiniteSet(A \cup X)
      /\ Cardinality(A \cup X) = Cardinality(A) + Cardinality(X) - Cardinality(A \cap X)
  BY FS_Union, Zenon
<1>3. /\ IsFiniteSet(B \cup Y)
      /\ Cardinality(B \cup Y) = Cardinality(B) + Cardinality(Y) - Cardinality(B \cap Y)
  BY FS_Union, Zenon
<1> QED
  BY <1>1, <1>2, <1>3

LEMMA StayingCounts ==
  ASSUME EvidenceInv, CountInv, InLoop', UNCHANGED reports, happened \subseteq happened',
         CountsStay
  PROVE  CountInv'
<1> SUFFICES ASSUME NEW p
             PROVE  /\ IsFiniteSet(UnitsTold(p)') /\ IsFiniteSet(UnitsCounted(p)')
                    /\ Cardinality(UnitsTold(p)') <= Cardinality(UnitsCounted(p)')
                    /\ "job" \notin happened' =>
                         Cardinality(UnitsTold(p)') = Cardinality(UnitsCounted(p)')
  BY DEF CountInv
<1>1. UnitsCounted(p)' = UnitsCounted(p)
  BY DEF CountsStay, UnitsCounted, RowsOf
<1>2. UnitsTold(p)' \subseteq UnitsTold(p)
  BY DEF CountsStay, UnitsTold
<1>3. "job" \notin happened' => UnitsTold(p)' = UnitsTold(p)
  BY DEF CountsStay, UnitsTold
<1>4. /\ IsFiniteSet(UnitsTold(p)) /\ IsFiniteSet(UnitsCounted(p))
      /\ Cardinality(UnitsTold(p)) <= Cardinality(UnitsCounted(p))
      /\ "job" \notin happened =>
           Cardinality(UnitsTold(p)) = Cardinality(UnitsCounted(p))
  BY DEF CountInv
<1>5. /\ IsFiniteSet(UnitsTold(p)')
      /\ Cardinality(UnitsTold(p)') <= Cardinality(UnitsTold(p))
      /\ Cardinality(UnitsTold(p)') \in Nat /\ Cardinality(UnitsTold(p)) \in Nat
      /\ Cardinality(UnitsCounted(p)) \in Nat
  BY <1>2, <1>4, FS_Subset, FS_CardinalityType
<1> QED
  BY <1>1, <1>3, <1>4, <1>5

LEMMA GrowingCounts ==
  ASSUME EvidenceInv, CountInv, InLoop', UNCHANGED reports, happened \subseteq happened',
         NEW m \in Reporters, CountsMore(m)
  PROVE  CountInv'
<1> SUFFICES ASSUME NEW p
             PROVE  /\ IsFiniteSet(UnitsTold(p)') /\ IsFiniteSet(UnitsCounted(p)')
                    /\ Cardinality(UnitsTold(p)') <= Cardinality(UnitsCounted(p)')
                    /\ "job" \notin happened' =>
                         Cardinality(UnitsTold(p)') = Cardinality(UnitsCounted(p)')
  BY DEF CountInv
<1>1. PICK f \in Nat, c \in Nat : CountsIn(m, f, c)
  BY DEF CountsMore
<1> DEFINE i == job[m].next
           n == Current(m).times
<1>2. i \in Nat /\ i \in DOMAIN reports[m] \ Told(m) /\ n \in Nat /\ n = reports[m][i].times
      /\ Current(m).print = reports[m][i].print
  BY DEF CountInv, InLoop, Numbered, CountsMore, EvidenceInv, Reports, Current
<1>3. /\ IsFiniteSet(UnitsTold(p)) /\ IsFiniteSet(UnitsCounted(p))
      /\ Cardinality(UnitsTold(p)) <= Cardinality(UnitsCounted(p))
      /\ "job" \notin happened' =>
           Cardinality(UnitsTold(p)) = Cardinality(UnitsCounted(p))
  BY DEF CountInv
<1>4. \A k \in Reporters : Told(k)' = IF k = m THEN Told(m) \cup {i} ELSE Told(k)
  BY DEF CountsMore
<1>5. \A g : g \in RowsOf(p)' <=>
              IF g = f THEN Current(m).print = p ELSE g \in RowsOf(p)
  BY <1>1 DEF CountsIn, RowsOf
<1>6. CASE Current(m).print # p
  <2>1. UnitsTold(p)' = UnitsTold(p)
    BY <1>2, <1>4, <1>6 DEF UnitsTold
  <2>2. UnitsCounted(p)' = UnitsCounted(p)
    <3>1. f \notin RowsOf(p)
      BY <1>1, <1>6 DEF CountsIn, RowsOf
    <3>2. RowsOf(p)' = RowsOf(p)
      BY <1>5, <1>6, <3>1
    <3>3. \A g \in RowsOf(p) : findings'[g].count = findings[g].count
      BY <1>1, <3>1 DEF CountsIn, RowsOf
    <3> QED
      BY <3>2, <3>3 DEF UnitsCounted
  <2> QED
    BY <1>3, <2>1, <2>2
<1>7. CASE Current(m).print = p
  <2> DEFINE X == {<<m, i>>} \X (1..n)
             Y == {f} \X ((c+1)..(c+n))
  <2>1. UnitsTold(p)' = UnitsTold(p) \cup X
    <3>1. ASSUME NEW u \in UnitsTold(p)' PROVE u \in UnitsTold(p) \cup X
      BY <1>2, <1>4, <3>1 DEF UnitsTold
    <3>2. ASSUME NEW u \in UnitsTold(p) PROVE u \in UnitsTold(p)'
      BY <1>4, <3>2 DEF UnitsTold
    <3>3. ASSUME NEW u \in X PROVE u \in UnitsTold(p)'
      <4>1. /\ u \in (Reporters \X Nat) \X Nat /\ u[1][1] = m /\ u[1][2] = i
            /\ u[2] \in 1..n
        BY <1>2, <3>3
      <4>2. i \in Told(m)'
        BY <1>4
      <4> QED
        BY <1>2, <1>7, <4>1, <4>2 DEF UnitsTold
    <3> HIDE DEF X
    <3> QED
      BY <3>1, <3>2, <3>3
  <2>2. UnitsTold(p) \cap X = {}
    BY <1>2 DEF UnitsTold
  <2>3. UnitsCounted(p)' = UnitsCounted(p) \cup Y /\ UnitsCounted(p) \cap Y = {}
    <3>1. \A g \in RowsOf(p) \ {f} : findings'[g].count = findings[g].count
      BY <1>1 DEF CountsIn, RowsOf
    <3>2. f \in RowsOf(p)' /\ findings'[f].count = c + n
      BY <1>1, <1>5, <1>7 DEF CountsIn
    <3>3. f \in RowsOf(p) => findings[f].count = c
      BY <1>1 DEF CountsIn, RowsOf
    <3>4. f \notin RowsOf(p) => c = 0
      BY <1>1, <1>7 DEF CountsIn, RowsOf
    <3>5. ASSUME NEW u \in UnitsCounted(p)' PROVE u \in UnitsCounted(p) \cup Y
      BY <1>1, <1>2, <1>5, <1>7, <3>1, <3>2, <3>3, <3>4, <3>5 DEF UnitsCounted
    <3>6. ASSUME NEW u \in UnitsCounted(p) PROVE u \in UnitsCounted(p)' /\ u \notin Y
      BY <1>1, <1>2, <1>5, <1>7, <3>1, <3>2, <3>3, <3>6 DEF UnitsCounted
    <3>7. ASSUME NEW u \in Y PROVE u \in UnitsCounted(p)'
      BY <1>1, <1>2, <3>2, <3>7 DEF UnitsCounted
    <3> HIDE DEF Y
    <3> QED
      BY <3>5, <3>6, <3>7
  <2>4. IsFiniteSet(X) /\ Cardinality(X) = n
    <3> DEFINE x == <<m, i>>
    <3> HIDE DEF x, n
    <3>1. IsFiniteSet({x} \X (1..n)) /\ Cardinality({x} \X (1..n)) = n
      BY <1>2, UnitsOfOne
    <3> QED
      BY <3>1 DEF x
  <2>5. IsFiniteSet(Y) /\ Cardinality(Y) = n
    <3> HIDE DEF n
    <3>1. IsFiniteSet((c+1)..(c+n)) /\ Cardinality((c+1)..(c+n)) = n
      <4> DEFINE a == c + 1
                 b == c + n
      <4>1. a \in Int /\ b \in Int /\ (IF a > b THEN 0 ELSE b - a + 1) = n
        BY <1>2
      <4> HIDE DEF a, b
      <4>2. IsFiniteSet(a..b) /\ Cardinality(a..b) = IF a > b THEN 0 ELSE b - a + 1
        BY <4>1, FS_Interval
      <4> QED
        BY <4>1, <4>2 DEF a, b
    <3>2. IsFiniteSet({f}) /\ Cardinality({f}) = 1
      BY FS_Singleton
    <3>3. /\ IsFiniteSet({f} \X ((c+1)..(c+n)))
          /\ Cardinality({f} \X ((c+1)..(c+n))) = Cardinality({f}) * Cardinality((c+1)..(c+n))
      BY <3>1, <3>2, FS_Product
    <3> QED
      BY <1>2, <3>1, <3>2, <3>3
  <2> HIDE DEF X, Y
  <2> QED
    BY <1>3, <2>1, <2>2, <2>3, <2>4, <2>5, SetsGrow
<1> QED
  BY <1>6, <1>7

LEMMA InitCount == EvidenceInit => CountInv
<1> SUFFICES ASSUME EvidenceInit PROVE CountInv
  OBVIOUS
<1>1. InLoop
  <2>1. PICK s \in Scenarios : reports = s.reports
    BY DEF EvidenceInit
  <2>2. \A m \in Reporters : reports[m] \in Seq(Range(reports[m]))
    BY <2>1, ScenarioAssumption
  <2>3. \A m \in Reporters : job[m].next = 1
    BY DEF EvidenceInit, AtRest
  <2> QED
    BY <2>2, <2>3 DEF InLoop, Numbered
<1>2. \A p : UnitsTold(p) = {} /\ UnitsCounted(p) = {}
  BY DEF EvidenceInit, AtRest, UnitsTold, Told, UnitsCounted, RowsOf
<1> QED
  BY <1>1, <1>2, FS_EmptySet DEF CountInv

LEMMA NextCount ==
  EvidenceInv /\ CountInv /\ [EvidenceNext]_evidenceVars => CountInv'
<1> SUFFICES ASSUME EvidenceInv, CountInv, [EvidenceNext]_evidenceVars PROVE CountInv'
  OBVIOUS
<1>0. InLoop
  BY DEF CountInv
<1>1. CASE Rests
  <2>1. InLoop' /\ CountsStay
    BY <1>0, <1>1 DEF Rests, InLoop, Numbered, CountsStay, Told
  <2> QED
    BY <1>1, <2>1, StayingCounts DEF Rests
<1>2. ASSUME NEW m \in Reporters, JobDoes(m) PROVE CountInv'
  <2>1. reports' = reports /\ happened \subseteq happened' /\ InLoop'
    BY <1>0, <1>2, LoopKept DEF JobDoes, Others
  <2> QED
    BY <1>0, <1>2, <2>1, JobCounts, StayingCounts, GrowingCounts
<1> QED
  BY <1>1, <1>2, FindingSteps

LEMMA AlwaysCounted == EvidenceSpec => []CountInv
BY InitCount, NextCount, AlwaysEvidence, PTL DEF EvidenceSpec

-----------------------------------------------------------------------------
(***************************************************************************)
(* As long as the jobs persist one after the other, each at its first      *)
(* attempt, the rows are those of a single pass.                           *)
(***************************************************************************)
Serial == "persist" \notin raced /\ "job" \notin happened

OnePersists ==
  /\ \A m, n \in Reporters : Persisting(m) /\ Persisting(n) => m = n
  /\ \A m \in Reporters : job[m].pc # "gave-up"

\* The jobs that have told of p, and the row of p that a job has in hand.
Seen(p) == {m \in Reporters : \E i \in Told(m) : reports[m][i].print = p}
Unfinished(m, f) == job[m].pc \in {"merge", "made", "list"} /\ job[m].row = f

RowsTell ==
  /\ \A f, g \in DOMAIN findings : findings[f].print = findings[g].print => f = g
  /\ \A p : Seen(p) # {} => \E f \in DOMAIN findings : findings[f].print = p
  /\ \A f \in DOMAIN findings :
       /\ findings[f].sources = Seen(findings[f].print)
       /\ (\A m \in Reporters : ~Unfinished(m, f)) => findings[f].lists = EvidenceFor(f)

RowPrints == {findings[f].print : f \in DOMAIN findings}

\* What a job in its loop knows of the rows.
Knows(m) ==
  /\ job[m].pc \in {"next", "found", "merge"} => RowPrints = job[m].known
  /\ job[m].pc \in {"made", "list"} => RowPrints = job[m].known \cup {Current(m).print}
  /\ job[m].pc \in {"found", "merge"} => job[m].sources = findings[job[m].row].sources
  /\ job[m].pc \in {"found", "merge", "list"} => job[m].lists = EvidenceFor(job[m].row)

SerialInv == Serial => OnePersists /\ RowsTell /\ \A m \in Reporters : Knows(m)

\* The job that moves is then the only one that persists.
LEMMA AloneInTheLoop ==
  ASSUME OnePersists, NEW m \in Reporters, Others(m), job'[m].pc # "gave-up",
         \/ Persisting(m)
         \/ \A n \in Reporters \ {m} : ~Persisting(n)
         \/ ~Persisting(m)'
  PROVE  OnePersists'
BY DEF OnePersists, Others, Persisting

LEMMA OthersKnow ==
  ASSUME NEW m \in Reporters, Others(m), \A n \in Reporters \ {m} : ~Persisting(n)
  PROVE  /\ \A n \in Reporters \ {m} : Knows(n)'
         /\ \A n \in Reporters \ {m} : \A f : ~Unfinished(n, f) /\ ~Unfinished(n, f)'
BY DEF Others, Persisting, Knows, Unfinished

LEMMA SeenStays ==
  ASSUME UNCHANGED reports, \A n \in Reporters : Told(n)' = Told(n)
  PROVE  \A p : Seen(p)' = Seen(p)
BY DEF Seen

LEMMA SeenGrows ==
  ASSUME EvidenceInv, InLoop, NEW m \in Reporters, Others(m), Creates(m) \/ Merges(m)
  PROVE  \A p : Seen(p)' = IF p = Current(m).print THEN Seen(p) \cup {m} ELSE Seen(p)
<1>1. /\ Told(m)' = Told(m) \cup {job[m].next} /\ reports' = reports
      /\ \A n \in Reporters \ {m} : Told(n)' = Told(n)
  BY ToldGrows DEF Others
<1>2. Current(m).print = reports[m][job[m].next].print
  BY DEF Current
<1> QED
  BY <1>1, <1>2 DEF Seen

LEMMA SerialStep ==
  ASSUME EvidenceInv, InLoop, SerialInv, NEW m \in Reporters, JobDoes(m), Serial'
  PROVE  OnePersists' /\ RowsTell' /\ \A n \in Reporters : Knows(n)'
<1>1. /\ OnePersists /\ RowsTell /\ \A n \in Reporters : Knows(n)
      /\ Others(m) /\ reports' = reports
  BY DEF JobDoes, Others, Serial, SerialInv
<1>2. /\ findings \in Seq(FindingRow)
      /\ job[m].pc \in {"found", "merge", "made", "list"} =>
           /\ job[m].row \in DOMAIN findings /\ job[m].next \in DOMAIN reports[m]
           /\ findings[job[m].row].print = Current(m).print
  BY DEF EvidenceInv, Findings, Jobs, Refers
<1>3. Persisting(m) => \A n \in Reporters \ {m} : ~Persisting(n)
  BY <1>1 DEF OnePersists
<1>4. job'[m].next = job[m].next => Current(m)' = Current(m)
  BY <1>1 DEF Current
<1>5. CASE Starts(m)
  <2>1. \A n \in Reporters \ {m} : ~Persisting(n)
    BY <1>5 DEF Starts, Serial
  <2>2. OnePersists'
    BY <1>1, <1>5, <2>1, AloneInTheLoop DEF Starts, Goes
  <2>3. \A p : Seen(p)' = Seen(p)
    BY <1>1, <1>5, ToldStays, SeenStays
  <2>4. \A f : ~Unfinished(m, f)
    BY <1>5 DEF Starts, At, Unfinished
  <2>5. RowsTell'
    BY <1>1, <1>5, <2>1, <2>3, <2>4, OthersKnow DEF RowsTell, Starts, SameEvidence
  <2>6. Knows(m)'
    BY <1>5 DEF Starts, Goes, Knows, RowPrints
  <2> QED
    BY <1>1, <2>1, <2>2, <2>5, <2>6, OthersKnow
<1>6. CASE Creates(m)
  <2>0. PICK f, p : f = Len(findings) + 1 /\ p = Current(m).print
    OBVIOUS
  <2>1. /\ Persisting(m) /\ job[m].pc = "next" /\ RowPrints = job[m].known
        /\ \A n \in Reporters \ {m} : ~Persisting(n)
    BY <1>1, <1>3, <1>6 DEF Creates, At, Persisting, Knows
  <2>2. OnePersists'
    BY <1>1, <1>6, <2>1, AloneInTheLoop DEF Creates, Goes
  <2>3. \A q : Seen(q)' = IF q = p THEN Seen(q) \cup {m} ELSE Seen(q)
    BY <1>1, <1>6, <2>0, SeenGrows
  <2>4. \A g \in DOMAIN findings : findings[g].print # p
    BY <1>6, <2>0, <2>1 DEF Creates, RowPrints
  <2>5. Seen(p) = {}
    BY <1>1, <2>4 DEF RowsTell
  <2>6. /\ DOMAIN findings' = DOMAIN findings \cup {f} /\ f \notin DOMAIN findings
        /\ \A g \in DOMAIN findings : findings'[g] = findings[g]
        /\ findings'[f].print = p /\ findings'[f].sources = {m}
        /\ job'[m].pc = "made" /\ job'[m].row = f /\ job'[m].next = job[m].next
        /\ job'[m].known = job[m].known
        /\ \A g : g # f => EvidenceFor(g)' = EvidenceFor(g)
    BY <1>6, <2>0 DEF Creates, Goes, MoreEvidence
  <2>7. \A g \in DOMAIN findings : ~Unfinished(m, g)
    BY <2>1 DEF Unfinished
  <2>8. Unfinished(m, f)'
    BY <2>6 DEF Unfinished
  <2>9. ASSUME NEW g \in DOMAIN findings'
        PROVE  /\ (findings[g].sources = Seen(findings[g].print))'
               /\ (\A n \in Reporters : ~Unfinished(n, g))' =>
                    findings'[g].lists = EvidenceFor(g)'
    <3>1. CASE g = f
      <4>1. Seen(p)' = {m}
        BY <2>3, <2>5
      <4> QED
        BY <2>6, <2>8, <3>1, <4>1
    <3>2. CASE g # f
      <4>1. g \in DOMAIN findings /\ findings'[g] = findings[g]
        BY <2>6, <3>2
      <4>2. findings[g].lists = EvidenceFor(g)
        BY <1>1, <2>1, <2>7, <4>1, OthersKnow DEF RowsTell
      <4>3. findings[g].sources = Seen(findings[g].print) /\ findings[g].print # p
        BY <1>1, <2>4, <4>1 DEF RowsTell
      <4>4. (Seen(findings[g].print))' = Seen(findings[g].print)
        BY <2>3, <4>1, <4>3
      <4> QED
        BY <2>6, <3>2, <4>1, <4>2, <4>3, <4>4
    <3> QED
      BY <3>1, <3>2
  <2>10. /\ \A g, h \in DOMAIN findings' : findings'[g].print = findings'[h].print => g = h
         /\ \A q : Seen(q)' # {} => \E g \in DOMAIN findings' : findings'[g].print = q
    <3>1. \A g, h \in DOMAIN findings' : findings'[g].print = findings'[h].print => g = h
      BY <1>1, <2>4, <2>6 DEF RowsTell
    <3>2. \A q : Seen(q)' # {} => \E g \in DOMAIN findings' : findings'[g].print = q
      BY <1>1, <2>3, <2>6 DEF RowsTell
    <3> QED
      BY <3>1, <3>2
  <2>11. RowsTell'
    BY <2>9, <2>10 DEF RowsTell
  <2>12. Knows(m)'
    <3>1. RowPrints' = RowPrints \cup {p}
      BY <2>6 DEF RowPrints
    <3>2. Current(m).print' = p
      BY <1>4, <2>0, <2>6
    <3> QED
      BY <2>1, <2>6, <3>1, <3>2 DEF Knows
  <2> QED
    BY <1>1, <2>1, <2>2, <2>11, <2>12, OthersKnow
<1>7. CASE Lists(m) \/ Finds(m) \/ Adds(m)
  <2>1. /\ Persisting(m) /\ \A n \in Reporters \ {m} : ~Persisting(n)
        /\ findings' = findings /\ job'[m].next = job[m].next
        /\ job'[m].known = job[m].known /\ job'[m].pc \in {"list", "found", "merge"}
    BY <1>3, <1>7 DEF Lists, Finds, Adds, At, Persisting, Goes
  <2>2. OnePersists'
    BY <1>1, <2>1, AloneInTheLoop
  <2>3. \A p : Seen(p)' = Seen(p)
    BY <1>1, <1>7, ToldStays, SeenStays
  <2>4. \A f \in DOMAIN findings :
          ~Unfinished(m, f)' => ~Unfinished(m, f) /\ EvidenceFor(f)' = EvidenceFor(f)
    <3>1. CASE Lists(m)
      BY <3>1 DEF Lists, Goes, At, Unfinished, SameEvidence
    <3>2. CASE Finds(m)
      BY <3>2 DEF Finds, Goes, At, Unfinished, SameEvidence
    <3>3. CASE Adds(m)
      BY <3>3 DEF Adds, Goes, At, Unfinished, MoreEvidence
    <3> QED
      BY <1>7, <3>1, <3>2, <3>3
  <2>5. \A f \in DOMAIN findings :
          (\A n \in Reporters : ~Unfinished(n, f)') =>
             findings'[f].lists = EvidenceFor(f)'
    BY <1>1, <2>1, <2>4, OthersKnow DEF RowsTell
  <2>6. RowsTell'
    BY <1>1, <2>1, <2>3, <2>5 DEF RowsTell
  <2>7. RowPrints' = RowPrints /\ Current(m)' = Current(m)
    BY <1>4, <2>1 DEF RowPrints
  <2>8. Knows(m)'
    <3>1. CASE Lists(m)
      BY <1>1, <2>1, <2>7, <3>1 DEF Lists, Goes, At, Knows, SameEvidence
    <3>2. CASE Finds(m)
      <4>1. job'[m].row \in DOMAIN findings
        BY <3>2 DEF Finds, RowsOf
      <4>2. findings[job'[m].row].lists = EvidenceFor(job'[m].row)
        <5>1. \A f : ~Unfinished(m, f)
          BY <3>2 DEF Finds, At, Unfinished
        <5> QED
          BY <1>1, <2>1, <4>1, <5>1, OthersKnow DEF RowsTell
      <4> QED
        BY <1>1, <2>1, <2>7, <3>2, <4>1, <4>2 DEF Finds, Goes, At, Knows, SameEvidence
    <3>3. CASE Adds(m)
      BY <1>1, <2>1, <2>7, <3>3 DEF Adds, Goes, At, Knows, MoreEvidence
    <3> QED
      BY <1>7, <3>1, <3>2, <3>3
  <2> QED
    BY <1>1, <2>1, <2>2, <2>6, <2>8, OthersKnow
<1>8. CASE Writes(m)
  <2> DEFINE r == job[m].row
  <2>1. /\ Persisting(m) /\ \A n \in Reporters \ {m} : ~Persisting(n)
        /\ job[m].pc = "list" /\ job'[m].pc = "next"
        /\ job[m].lists = EvidenceFor(r) /\ r \in DOMAIN findings
    BY <1>1, <1>2, <1>3, <1>8 DEF Writes, At, Persisting, Goes, Knows
  <2>2. OnePersists'
    BY <1>1, <2>1, AloneInTheLoop
  <2>3. \A p : Seen(p)' = Seen(p)
    BY <1>1, <1>8, ToldStays, SeenStays
  <2>4. /\ DOMAIN findings' = DOMAIN findings
        /\ \A g \in DOMAIN findings : /\ findings'[g].print = findings[g].print
                                      /\ findings'[g].sources = findings[g].sources
                                      /\ EvidenceFor(g)' = EvidenceFor(g)
    BY <1>8 DEF Writes, SameEvidence
  <2>5. \A g \in DOMAIN findings : findings'[g].lists = EvidenceFor(g)
    <3>1. \A g \in DOMAIN findings \ {r} : ~Unfinished(m, g)
      BY DEF Unfinished
    <3>2. \A g \in DOMAIN findings \ {r} : findings[g].lists = EvidenceFor(g)
      BY <1>1, <2>1, <3>1, OthersKnow DEF RowsTell
    <3> QED
      BY <1>8, <2>1, <3>2 DEF Writes
  <2>6. RowsTell'
    BY <1>1, <2>3, <2>4, <2>5 DEF RowsTell
  <2>7. Knows(m)'
    <3>1. RowPrints' = RowPrints
      BY <2>4 DEF RowPrints
    <3> QED
      BY <1>1, <1>8, <2>1, <3>1 DEF Knows, Writes, Goes
  <2> QED
    BY <1>1, <2>1, <2>2, <2>6, <2>7, OthersKnow
<1>9. CASE Merges(m)
  <2>0. PICK r, p : r = job[m].row /\ p = Current(m).print
    OBVIOUS
  <2>1. /\ Persisting(m) /\ \A n \in Reporters \ {m} : ~Persisting(n)
        /\ job[m].pc = "merge" /\ job'[m].pc = "next" /\ job'[m].known = job[m].known
        /\ job[m].lists = EvidenceFor(r) /\ r \in DOMAIN findings /\ findings[r].print = p
        /\ job[m].sources = findings[r].sources /\ RowPrints = job[m].known
    BY <1>1, <1>2, <1>3, <1>9, <2>0 DEF Merges, At, Persisting, Goes, Knows
  <2>2. OnePersists'
    BY <1>1, <2>1, AloneInTheLoop
  <2>3. \A q : Seen(q)' = IF q = p THEN Seen(q) \cup {m} ELSE Seen(q)
    BY <1>1, <1>9, <2>0, SeenGrows
  <2>4. /\ DOMAIN findings' = DOMAIN findings
        /\ \A g \in DOMAIN findings \ {r} : findings'[g] = findings[g]
        /\ findings'[r].print = findings[r].print
        /\ findings'[r].sources = job[m].sources \cup {m}
        /\ findings'[r].lists = job[m].lists
        /\ \A g : EvidenceFor(g)' = EvidenceFor(g)
    BY <1>9, <2>0 DEF Merges, SameEvidence
  <2>5. \A g \in DOMAIN findings : findings'[g].lists = EvidenceFor(g)
    <3>1. \A g \in DOMAIN findings \ {r} : ~Unfinished(m, g)
      BY <2>0 DEF Unfinished
    <3>2. \A g \in DOMAIN findings \ {r} : findings[g].lists = EvidenceFor(g)
      BY <1>1, <2>1, <3>1, OthersKnow DEF RowsTell
    <3> QED
      BY <2>1, <2>4, <3>2
  <2>6. \A g \in DOMAIN findings : findings'[g].print = findings[g].print
    BY <2>4
  <2>7. \A g \in DOMAIN findings : (findings[g].sources = Seen(findings[g].print))'
    <3>1. \A g \in DOMAIN findings \ {r} : findings[g].print # p
      BY <1>1, <2>1 DEF RowsTell
    <3>2. findings[r].sources = Seen(p)
      BY <1>1, <2>1 DEF RowsTell
    <3>3. (Seen(findings[r].print))' = Seen(p) \cup {m}
      BY <2>1, <2>3, <2>6
    <3>4. \A g \in DOMAIN findings \ {r} : (Seen(findings[g].print))' = Seen(findings[g].print)
      BY <2>3, <2>6, <3>1
    <3>5. \A g \in DOMAIN findings \ {r} : findings[g].sources = Seen(findings[g].print)
      BY <1>1 DEF RowsTell
    <3>6. findings'[r].sources = (Seen(findings[r].print))'
      <4>1. findings'[r].sources = findings[r].sources \cup {m}
        BY <2>1, <2>4
      <4> QED
        BY <3>2, <3>3, <4>1
    <3>7. \A g \in DOMAIN findings \ {r} :
            findings'[g].sources = (Seen(findings[g].print))'
      <4> SUFFICES ASSUME NEW g \in DOMAIN findings \ {r}
                   PROVE  findings'[g].sources = (Seen(findings[g].print))'
        OBVIOUS
      <4>1. findings'[g].sources = findings[g].sources
        BY <2>4
      <4> QED
        BY <3>4, <3>5, <4>1
    <3> QED
      BY <3>6, <3>7
  <2>8. \A q : Seen(q)' # {} => \E g \in DOMAIN findings' : findings'[g].print = q
    BY <1>1, <2>1, <2>3, <2>4, <2>6 DEF RowsTell
  <2>9. RowsTell'
    BY <1>1, <2>4, <2>5, <2>6, <2>7, <2>8 DEF RowsTell
  <2>10. Knows(m)'
    <3>1. RowPrints' = RowPrints
      BY <2>4, <2>6 DEF RowPrints
    <3> QED
      BY <2>1, <3>1 DEF Knows
  <2> QED
    BY <1>1, <2>1, <2>2, <2>9, <2>10, OthersKnow
<1>10. CASE Leaves(m) \/ Stores(m)
  <2>1. /\ findings' = findings /\ SameEvidence
        /\ job[m].pc \in {"next", "upload", "put"} /\ job'[m].pc \in {"upload", "put", "done"}
    BY <1>10 DEF Leaves, Stores, At
  <2>2. OnePersists'
    BY <1>1, <2>1, AloneInTheLoop DEF Persisting
  <2>3. \A p : Seen(p)' = Seen(p)
    BY <1>1, <1>10, ToldStays, SeenStays
  <2>4. \A n \in Reporters : \A f : Unfinished(n, f)' <=> Unfinished(n, f)
    BY <1>1, <2>1 DEF Unfinished, Others
  <2>5. RowsTell'
    BY <1>1, <2>1, <2>3, <2>4 DEF RowsTell, SameEvidence
  <2>6. \A n \in Reporters \ {m} : Knows(n)'
    <3> SUFFICES ASSUME NEW n \in Reporters \ {m} PROVE Knows(n)'
      OBVIOUS
    <3>1. job'[n] = job[n] /\ RowPrints' = RowPrints /\ Current(n)' = Current(n)
      BY <1>1, <2>1 DEF Others, RowPrints, Current
    <3> QED
      BY <1>1, <2>1, <3>1 DEF Knows, SameEvidence
  <2>7. Knows(m)'
    BY <2>1 DEF Knows
  <2> QED
    BY <2>2, <2>5, <2>6, <2>7
<1>11. CASE Crashes(m)
  BY <1>11 DEF Crashes, Serial
<1> QED
  BY <1>5, <1>6, <1>7, <1>8, <1>9, <1>10, <1>11 DEF JobDoes

LEMMA InitSerial == EvidenceInit => SerialInv
<1> SUFFICES ASSUME EvidenceInit PROVE SerialInv
  OBVIOUS
<1>1. \A m \in Reporters : job[m].pc = "start"
  BY DEF EvidenceInit, AtRest
<1>2. DOMAIN findings = {}
  BY DEF EvidenceInit
<1>3. \A p : Seen(p) = {}
  BY <1>1 DEF Seen, Told
<1> QED
  BY <1>1, <1>2, <1>3 DEF SerialInv, OnePersists, RowsTell, Knows, Persisting

LEMMA NextSerial ==
  EvidenceInv /\ CountInv /\ SerialInv /\ [EvidenceNext]_evidenceVars => SerialInv'
<1> SUFFICES ASSUME EvidenceInv, CountInv, SerialInv, [EvidenceNext]_evidenceVars, Serial'
             PROVE  OnePersists' /\ RowsTell' /\ \A n \in Reporters : Knows(n)'
  BY DEF SerialInv
<1>1. CASE Rests
  <2>1. /\ OnePersists /\ RowsTell /\ (\A n \in Reporters : Knows(n)) /\ SameEvidence
        /\ UNCHANGED <<findings, job, reports>>
    BY <1>1 DEF SerialInv, Serial, Rests
  <2>2. /\ RowPrints' = RowPrints /\ \A p : Seen(p)' = Seen(p)
        /\ \A n \in Reporters : Current(n)' = Current(n)
        /\ \A n \in Reporters : \A f : Unfinished(n, f)' <=> Unfinished(n, f)
    BY <2>1 DEF RowPrints, Seen, Told, Current, Unfinished
  <2>3. OnePersists'
    BY <2>1 DEF OnePersists, Persisting
  <2>4. RowsTell'
    BY <2>1, <2>2 DEF RowsTell, SameEvidence
  <2>5. \A n \in Reporters : Knows(n)'
    BY <2>1, <2>2 DEF Knows, SameEvidence
  <2> QED
    BY <2>3, <2>4, <2>5
<1>2. CASE \E m \in Reporters : JobDoes(m)
  BY <1>2, SerialStep DEF CountInv
<1> QED
  BY <1>1, <1>2, FindingSteps

\* The rows tell what the jobs reported, for any jobs and findings: where no
\* two jobs persisted at once and none was cut short exactly, with one row per
\* fingerprint, and whatever did without the loss of an occurrence
\* (persistFindings).
THEOREM FindingsAreAlwaysCounted == EvidenceSpec => []FindingsAreCounted
<1>1. EvidenceInv /\ CountInv => NoOccurrenceLost
  <2> SUFFICES ASSUME EvidenceInv, CountInv, AllEnded, NEW p \in Prints
               PROVE  Occurrences(p) >= Reported(p)
    BY DEF NoOccurrenceLost
  <2>1. UnitsTold(p) = UnitsReported(p, {m \in Reporters : At(m, "done")})
    <3>1. \A m \in Reporters :
            Told(m) = IF At(m, "done") THEN DOMAIN reports[m] ELSE {}
      BY DEF AllEnded, Ended, Told, At
    <3>2. \A m \in Reporters : DOMAIN reports[m] \subseteq Nat
      BY DEF CountInv, InLoop, Numbered
    <3> QED
      BY <3>1, <3>2 DEF UnitsTold, UnitsReported, UnitsOf
  <2>2. Reported(p) = Cardinality(UnitsTold(p))
    BY <2>1, ReportedCounted DEF CountInv, InLoop
  <2>3. /\ Occurrences(p) = Cardinality(UnitsCounted(p))
        /\ IsFiniteSet(UnitsTold(p)) /\ IsFiniteSet(UnitsCounted(p))
        /\ Cardinality(UnitsTold(p)) <= Cardinality(UnitsCounted(p))
    BY OccurrencesCounted DEF CountInv
  <2>4. Cardinality(UnitsTold(p)) \in Nat /\ Cardinality(UnitsCounted(p)) \in Nat
    BY <2>3, FS_CardinalityType
  <2> QED
    BY <2>2, <2>3, <2>4
<1>2. EvidenceInv /\ CountInv /\ SerialInv => SerialFindingsAreExact
  <2> SUFFICES ASSUME EvidenceInv, CountInv, SerialInv, AllEnded, Serial
               PROVE  /\ {findings[f].print : f \in DOMAIN findings} = Prints
                      /\ \A p \in Prints : \A f \in RowsOf(p) :
                           /\ RowsOf(p) = {f}
                           /\ findings[f].count = Reported(p)
                           /\ findings[f].sources =
                                {m \in Reporters : \E i \in DOMAIN reports[m] :
                                   reports[m][i].print = p}
                           /\ findings[f].lists =
                                {e \in DOMAIN evidence : evidence[e].finding = f}
    BY DEF SerialFindingsAreExact, Serial
  <2>1. /\ \A m \in Reporters : At(m, "done") /\ Told(m) = DOMAIN reports[m]
        /\ RowsTell
    BY DEF SerialInv, OnePersists, AllEnded, Ended, At, Told
  <2>2. \A p : Seen(p) = {m \in Reporters : \E i \in DOMAIN reports[m] :
                            reports[m][i].print = p}
    BY <2>1 DEF Seen
  <2>3. \A p \in Prints : Seen(p) # {}
    BY <2>2 DEF Prints, Range
  <2>4. {findings[f].print : f \in DOMAIN findings} = Prints
    <3>1. \A f \in DOMAIN findings : findings[f].print \in Prints
      <4>1. \A f \in DOMAIN findings : findings[f] \in FindingRow
        BY DEF EvidenceInv, Findings
      <4> QED
        BY <4>1 DEF FindingRow
    <3> QED
      BY <2>1, <2>3, <3>1 DEF RowsTell
  <2>5. ASSUME NEW p \in Prints, NEW f \in RowsOf(p)
        PROVE  /\ RowsOf(p) = {f} /\ findings[f].count = Reported(p)
               /\ findings[f].sources = Seen(p) /\ findings[f].lists = EvidenceFor(f)
    <3>1. f \in DOMAIN findings /\ findings[f].print = p
      BY DEF RowsOf
    <3>2. RowsOf(p) = {f}
      BY <2>1, <3>1 DEF RowsTell, RowsOf
    <3>3. findings[f].sources = Seen(p) /\ findings[f].lists = EvidenceFor(f)
      BY <2>1, <3>1 DEF RowsTell, Unfinished, At
    <3>4. UnitsTold(p) = UnitsReported(p, {m \in Reporters : At(m, "done")})
      <4>1. \A m \in Reporters : DOMAIN reports[m] \subseteq Nat
        BY DEF CountInv, InLoop, Numbered
      <4> QED
        BY <2>1, <4>1 DEF UnitsTold, UnitsReported, UnitsOf
    <3>5. Reported(p) = Cardinality(UnitsCounted(p))
      BY <3>4, ReportedCounted DEF CountInv, InLoop, Serial
    <3>6. UnitsCounted(p) = RowUnits(p, f)
      BY <3>2 DEF UnitsCounted, RowUnits
    <3> QED
      BY <3>2, <3>3, <3>5, <3>6, UnitsOfRow
  <2> QED
    BY <2>2, <2>4, <2>5 DEF EvidenceFor
<1>3. EvidenceSpec => []SerialInv
  BY InitSerial, NextSerial, AlwaysEvidence, AlwaysCounted, PTL DEF EvidenceSpec
<1> QED
  BY <1>1, <1>2, <1>3, AlwaysEvidence, AlwaysCounted, PTL DEF FindingsAreCounted

====
