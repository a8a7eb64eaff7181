--------------------------- MODULE DataPlane_proofs ---------------------------
(***************************************************************************)
(* What the tenant's data outside the control plane promises, for any      *)
(* uploads, files, messages, minutes, runs and rows of the registries:     *)
(* an ingested dataset is whole, every mail is explained, what is served   *)
(* went through the gate, and lineage that was emitted is whole.           *)
(*                                                                         *)
(* Each part has an inductive invariant of its own, the lemmas that its    *)
(* steps keep it, one that it holds at first, and one that it implies the  *)
(* promise.  The last section puts the four together: a step of one part   *)
(* leaves the variables of the others as they are.                         *)
(***************************************************************************)
EXTENDS DataPlane, FiniteSetTheorems, SequenceTheorems, TLAPS

\* What a sequence holds.
Items(s) == {s[i] : i \in DOMAIN s}

----------------------------------------------------------------------------
(* Datasets.  *)

\* The steps an upload may be at.
UploadSteps == Working \cup {"unused", "answered", "died"}

\* The shapes of the four stores and of the uploads.
UploadShapes ==
    /\ upload \in [Datasets -> [step : UploadSteps, file : Files \cup {None}]]
    /\ object \in [Datasets -> Files \cup {None}]
    /\ lake \in [Datasets -> Files \cup {None, Empty}]
    /\ status \in [Datasets -> {None, "ingested", "failed"}]
    /\ registered \subseteq Datasets

\* What a request at this step has written: only an upload that has come as far
\* as the table in the lake, and never one that has not.
UploadWrote(d) ==
    /\ upload[d].step = "unused" => object[d] = None
    /\ upload[d].step \in {"unused", "stored", "flushed"} => lake[d] = None
    /\ upload[d].step = "landed" => lake[d] = object[d]
    /\ upload[d].step = "registered" => d \in registered
    /\ upload[d].step \in Working \ {"registered"} => d \notin registered
    /\ upload[d].step = "unused" => d \notin registered
    /\ upload[d].step \in Working => object[d] \in Files

\* What holds of the stores and the row whatever the request does.
Behind(d) ==
    /\ d \in registered => object[d] \in Files /\ lake[d] = object[d]
    /\ lake[d] # None => object[d] \in Files
    /\ status[d] # None <=> upload[d].step = "answered"
    /\ status[d] = "ingested" => d \in registered

\* The inductive invariant of the uploads.
UploadInv == UploadShapes /\ \A d \in Datasets : UploadWrote(d) /\ Behind(d)

\* At first there is nothing, or the files of the datasets that are done.
LEMMA UploadStart ==
    ASSUME NEW done, done \subseteq Datasets, NEW f, done # {} => f \in Files, NEW S,
           DatasetsStart(done, f, S)
    PROVE  UploadInv
<1>1. /\ upload = [d \in Datasets |-> IF d \in done THEN [step |-> "answered", file |-> f]
                                                   ELSE [step |-> "unused", file |-> None]]
      /\ object = [d \in Datasets |-> IF d \in done THEN f ELSE None]
      /\ lake = [d \in Datasets |-> IF d \in done THEN f ELSE None]
      /\ status = [d \in Datasets |-> IF d \in done THEN "ingested" ELSE None]
      /\ registered = done
  BY DEF DatasetsStart
<1>2. UploadShapes
  BY <1>1 DEF UploadShapes, UploadSteps
<1>3. ASSUME NEW d \in Datasets PROVE UploadWrote(d) /\ Behind(d)
  <2>1. CASE d \in done
    BY <1>1, <2>1, NoneIsNoStatus, FilesAreFiles DEF UploadWrote, Behind, Working
  <2>2. CASE d \notin done
    BY <1>1, <2>2, NoneIsNoStatus DEF UploadWrote, Behind, Working
  <2> QED
    BY <2>1, <2>2
<1> QED
  BY <1>2, <1>3 DEF UploadInv

\* A step of one upload leaves the others' stores alone.
LEMMA OthersStay ==
    ASSUME UploadInv, NEW d \in Datasets, DatasetStep(d)
    PROVE  /\ UploadShapes'
           /\ \A e \in Datasets \ {d} : UploadWrote(e)' /\ Behind(e)'
<1> DEFINE Same(e) == /\ upload'[e] = upload[e] /\ object'[e] = object[e]
                      /\ lake'[e] = lake[e] /\ status'[e] = status[e]
                      /\ (e \in registered' <=> e \in registered)
<1>1. UploadShapes' /\ \A e \in Datasets \ {d} : Same(e)
  <2> USE DEF UploadInv, UploadShapes, UploadSteps, Working
  <2>1. CASE PutObject(d)      BY <2>1 DEF PutObject
  <2>2. CASE FlushRow(d)       BY <2>2 DEF FlushRow, GoTo
  <2>3. CASE CreateTable(d)    BY <2>3 DEF CreateTable, GoTo
  <2>4. CASE Overwrite(d)      BY <2>4 DEF Overwrite, GoTo
  <2>5. CASE RegisterDataset(d) BY <2>5 DEF RegisterDataset, GoTo
  <2>6. CASE CommitIngested(d) BY <2>6 DEF CommitIngested, UpdateStatus, GoTo
  <2>7. CASE CommitFailed(d)   BY <2>7 DEF CommitFailed, UpdateStatus, GoTo
  <2>8. CASE UploadDies(d)     BY <2>8 DEF UploadDies, GoTo
  <2>9. CASE TagColumns(d)     BY <2>9 DEF TagColumns
  <2>10. QED
    BY <2>1, <2>2, <2>3, <2>4, <2>5, <2>6, <2>7, <2>8, <2>9 DEF DatasetStep
<1>2. ASSUME NEW e \in Datasets \ {d} PROVE UploadWrote(e)' /\ Behind(e)'
  <2>1. Same(e) /\ UploadWrote(e) /\ Behind(e)
    BY <1>1, <1>2 DEF UploadInv
  <2>2. QED
    BY <2>1 DEF UploadWrote, Behind
<1>3. QED
  BY <1>1, <1>2

\* The step of an upload itself, one case for every operation.
LEMMA OwnStep ==
    ASSUME UploadInv, NEW d \in Datasets, DatasetStep(d)
    PROVE  UploadWrote(d)' /\ Behind(d)'
<1> USE FilesAreFiles, NoneIsNoStatus
    DEF UploadInv, UploadShapes, UploadSteps, Working, UploadWrote, Behind
<1>1. CASE PutObject(d)      BY <1>1 DEF PutObject
<1>2. CASE FlushRow(d)       BY <1>2 DEF FlushRow, GoTo
<1>3. CASE CreateTable(d)    BY <1>3 DEF CreateTable, GoTo
<1>4. CASE Overwrite(d)      BY <1>4 DEF Overwrite, GoTo
<1>5. CASE RegisterDataset(d) BY <1>5 DEF RegisterDataset, GoTo
<1>6. CASE CommitIngested(d) BY <1>6 DEF CommitIngested, UpdateStatus, GoTo
<1>7. CASE CommitFailed(d)   BY <1>7 DEF CommitFailed, UpdateStatus, GoTo
<1>8. CASE UploadDies(d)     BY <1>8 DEF UploadDies, GoTo
<1>9. CASE TagColumns(d)     BY <1>9 DEF TagColumns
<1>10. QED
  BY <1>1, <1>2, <1>3, <1>4, <1>5, <1>6, <1>7, <1>8, <1>9 DEF DatasetStep

\* An upload takes its step, and the others' stores stay as they are.
LEMMA UploadStep ==
    ASSUME UploadInv, DatasetsNext
    PROVE  UploadInv'
<1>1. PICK d \in Datasets : DatasetStep(d)
  BY DEF DatasetsNext
<1>2. UploadShapes' /\ \A e \in Datasets \ {d} : UploadWrote(e)' /\ Behind(e)'
  BY <1>1, OthersStay
<1>3. UploadWrote(d)' /\ Behind(d)'
  BY <1>1, OwnStep
<1> QED
  BY <1>2, <1>3 DEF UploadInv

\* A dataset that says it is ingested has its file in every store, and any valid
\* query on the file's columns is answered.
LEMMA UploadPromise ==
    ASSUME UploadInv
    PROVE  IngestedIsWhole /\ DatasetsTypeOK
<1>0. DatasetsTypeOK
  BY DEF UploadInv, UploadShapes, UploadSteps, DatasetsTypeOK
<1>1. IngestedIsWhole
  <2> SUFFICES ASSUME NEW d \in Datasets
               PROVE  /\ status[d] = "ingested" =>
                            /\ d \in registered
                            /\ lake[d] = object[d] /\ object[d] \in Files
                            /\ \A q \in Requests :
                                  RequestValid(q) /\ Answerable(q, object[d]) => QueryCode(d, q) = 200
                      /\ d \in registered => lake[d] \in Files /\ lake[d] = object[d]
                      /\ lake[d] # None => object[d] # None
                      /\ object[d] # None /\ status[d] = None
                            => upload[d].step \in Working \cup {"died"}
    BY DEF IngestedIsWhole
  <2>1. UploadWrote(d) /\ Behind(d) /\ upload[d].step \in UploadSteps
    BY DEF UploadInv, UploadShapes
  <2>2. ASSUME status[d] = "ingested"
        PROVE  /\ d \in registered /\ lake[d] = object[d] /\ object[d] \in Files
               /\ \A q \in Requests :
                     RequestValid(q) /\ Answerable(q, object[d]) => QueryCode(d, q) = 200
    <3>1. d \in registered /\ lake[d] = object[d] /\ object[d] \in Files
      BY <2>1, <2>2 DEF Behind
    <3>2. ASSUME NEW q \in Requests, Answerable(q, object[d]) PROVE QueryCode(d, q) = 200
      <4>1. TableAnswers(d, q)
        BY <3>1, <3>2 DEF TableAnswers
      <4>2. status[d] # None
        BY <2>2, NoneIsNoStatus
      <4>3. QED
        BY <2>2, <3>1, <4>1, <4>2 DEF QueryCode
    <3>3. QED
      BY <3>1, <3>2
  <2>3. d \in registered => lake[d] \in Files /\ lake[d] = object[d]
    BY <2>1 DEF Behind
  <2>4. lake[d] # None => object[d] # None
    BY <2>1, FilesAreFiles DEF Behind
  <2>5. object[d] # None /\ status[d] = None => upload[d].step \in Working \cup {"died"}
    BY <2>1 DEF UploadWrote, Behind, UploadSteps
  <2>6. QED
    BY <2>2, <2>3, <2>4, <2>5
<1> QED
  BY <1>0, <1>1

----------------------------------------------------------------------------
(* Reports.  *)

\* Messages whose mail may still go out.
Unmailed == {m \in Messages : job[m].step \in {"queued", "received", "resolved", "rendered", "stored"}}

\* A job as the steps leave it: a stored workbook is in the store.
IsJob(j) ==
    /\ DOMAIN j = {"step", "tries", "book", "key"}
    /\ j.step \in Running \cup {"unsent", "queued", "done", "dead"}
    /\ j.tries \in 0..MaxRetries
    /\ j.step = "dead" => j.tries = MaxRetries
    /\ j.key \in Keys \cup {None}
    /\ j.step \in {"stored", "mailed"} => j.key \in DOMAIN workbooks

\* The shapes of the variables: the clock, the faults and the jobs within bounds.
ReportShapes ==
    /\ DOMAIN job = Messages
    /\ \A m \in Messages : IsJob(job[m])
    /\ DOMAIN workbooks \subseteq Keys
    /\ clock \in 0..MaxClock /\ ticked \in BOOLEAN
    /\ faults \in 0..MaxFaults /\ excuses \in Nat
    /\ \E S : mails \in Seq(S)

\* Every mail, and every message that may still become one, is paid for by a
\* minute the heartbeat has served or by an excuse.
Owed == clock + (IF ticked THEN 1 ELSE 0) + excuses
Ledger == Len(mails) + Cardinality(Unmailed) <= Owed

\* A mail links to a workbook, and a workbook stays.
MailsAreKept == \A i \in DOMAIN mails : mails[i].key \in DOMAIN workbooks

\* The inductive invariant of the reports.
ReportInv == ReportShapes /\ Ledger /\ MailsAreKept

\* What is owed is a number.
LEMMA SumIsNatural ==
    ASSUME NEW c \in Nat, NEW t \in BOOLEAN, NEW e \in Nat
    PROVE  c + (IF t THEN 1 ELSE 0) + e \in Nat
  OBVIOUS

\* There are finitely many messages: one more or one less counts one.
LEMMA UnmailedIsFinite ==
    /\ IsFiniteSet(Unmailed)
    /\ Cardinality(Unmailed) \in Nat
    /\ \A m \in Messages \ Unmailed : /\ IsFiniteSet(Unmailed \cup {m})
                                      /\ Cardinality(Unmailed \cup {m}) = Cardinality(Unmailed) + 1
    /\ \A m \in Unmailed : Cardinality(Unmailed \ {m}) = Cardinality(Unmailed) - 1
<1>1. IsFiniteSet(Unmailed)
  <2>1. Unmailed \in SUBSET Messages
    BY DEF Unmailed
  <2> QED
    BY <2>1, MessagesAreFinite, FS_Subset
<1>2. Cardinality(Unmailed) \in Nat
  BY <1>1, FS_CardinalityType
<1>3. ASSUME NEW m \in Messages \ Unmailed
      PROVE  /\ IsFiniteSet(Unmailed \cup {m})
             /\ Cardinality(Unmailed \cup {m}) = Cardinality(Unmailed) + 1
  BY <1>1, <1>3, FS_AddElement
<1>4. ASSUME NEW m \in Unmailed
      PROVE  Cardinality(Unmailed \ {m}) = Cardinality(Unmailed) - 1
  BY <1>1, <1>4, FS_RemoveElement
<1> QED
  BY <1>1, <1>2, <1>3, <1>4

\* A step of one message moves that message at most into or out of Unmailed.
LEMMA JobMoves ==
    ASSUME ReportInv, NEW m \in Messages, NEW next, job' = [job EXCEPT ![m] = next]
    PROVE  /\ Cardinality(Unmailed') \in Nat
           /\ (m \in Unmailed' <=> m \in Unmailed) => Cardinality(Unmailed') = Cardinality(Unmailed)
           /\ Cardinality(Unmailed') <= Cardinality(Unmailed) + 1
           /\ m \in Unmailed => Cardinality(Unmailed') <= Cardinality(Unmailed)
           /\ m \in Unmailed /\ m \notin Unmailed'
                => Cardinality(Unmailed') = Cardinality(Unmailed) - 1
           /\ m \notin Unmailed' => Cardinality(Unmailed') <= Cardinality(Unmailed)
<1>1. \A n \in Messages : n # m => (n \in Unmailed' <=> n \in Unmailed)
  BY DEF ReportInv, ReportShapes, Unmailed
<1>2. Unmailed' \subseteq Messages /\ Unmailed \subseteq Messages
  BY DEF Unmailed
<1>3. Cardinality(Unmailed) \in Nat /\ (m \in Unmailed => Cardinality(Unmailed \ {m}) \in Nat)
  <2>1. \A S \in SUBSET Messages : Cardinality(S) \in Nat
    BY MessagesAreFinite, FS_Subset, FS_CardinalityType
  <2> QED
    BY <1>2, <2>1
<1>4. CASE m \in Unmailed' <=> m \in Unmailed
  <2>1. Unmailed' = Unmailed
    BY <1>1, <1>2, <1>4
  <2>2. Cardinality(Unmailed') = Cardinality(Unmailed)
    BY <2>1
  <2> QED
    BY <1>3, <1>4, <2>2
<1>5. CASE m \notin Unmailed /\ m \in Unmailed'
  <2>1. Unmailed' = Unmailed \cup {m}
    BY <1>1, <1>2, <1>5
  <2>2. Cardinality(Unmailed') = Cardinality(Unmailed) + 1
    BY <1>5, <2>1, UnmailedIsFinite
  <2> QED
    BY <1>3, <1>5, <2>2
<1>6. CASE m \in Unmailed /\ m \notin Unmailed'
  <2>1. Unmailed' = Unmailed \ {m}
    BY <1>1, <1>2, <1>6
  <2>2. Cardinality(Unmailed') = Cardinality(Unmailed) - 1
    BY <1>6, <2>1, UnmailedIsFinite
  <2>3. Cardinality(Unmailed') \in Nat
    BY <1>3, <1>6, <2>1
  <2> QED
    BY <1>3, <1>6, <2>2, <2>3
<1> QED
  BY <1>4, <1>5, <1>6

\* One message takes a step that sends no mail and stores no workbook, and the
\* messages that may still be mailed stay paid for.
Quiet(m, next) ==
    /\ job' = [job EXCEPT ![m] = next] /\ IsJob(next)
    /\ UNCHANGED <<clock, workbooks, mails>>
    /\ ticked' \in BOOLEAN /\ faults' \in 0..MaxFaults /\ excuses' \in Nat
    /\ Cardinality(Unmailed') + Owed <= Cardinality(Unmailed) + Owed'

\* Such a step keeps the invariant.
LEMMA QuietStep ==
    ASSUME ReportInv, NEW m \in Messages, NEW next, Quiet(m, next)
    PROVE  ReportInv'
<1>1. ReportShapes'
  <2>1. \A n \in Messages : IsJob(job'[n])
    BY DEF ReportInv, ReportShapes, Quiet
  <2>2. \A n \in Messages : IsJob(job[n])'
    BY <2>1 DEF IsJob, Quiet
  <2> QED
    BY <2>2 DEF ReportInv, ReportShapes, Quiet
<1>2. Ledger'
  <2>1. Len(mails) \in Nat /\ Len(mails') = Len(mails)
    BY LenProperties DEF ReportInv, ReportShapes, Quiet
  <2>3. Owed \in Nat /\ Owed' \in Nat
    <3>1. clock \in Nat /\ ticked \in BOOLEAN /\ excuses \in Nat
      BY ReportBoundsAreNaturals DEF ReportInv, ReportShapes
    <3>2. clock' \in Nat /\ ticked' \in BOOLEAN /\ excuses' \in Nat
      BY <3>1 DEF Quiet
    <3>3. Owed \in Nat
      BY <3>1 DEF Owed
    <3>4. Owed' \in Nat
      BY <3>2, SumIsNatural, Zenon DEF Owed
    <3> QED
      BY <3>3, <3>4
  <2>2. Cardinality(Unmailed) \in Nat /\ Cardinality(Unmailed') \in Nat
    BY UnmailedIsFinite, JobMoves DEF Quiet
  <2>4. Cardinality(Unmailed') + Owed <= Cardinality(Unmailed) + Owed'
    BY DEF Quiet
  <2> QED
    BY <2>1, <2>2, <2>3, <2>4 DEF ReportInv, Ledger
<1>3. MailsAreKept'
  BY DEF ReportInv, MailsAreKept, Quiet
<1> QED
  BY <1>1, <1>2, <1>3 DEF ReportInv

\* The steps of one message that neither store a workbook nor mail it.
LEMMA QuietSteps ==
    ASSUME ReportInv, NEW m \in Messages,
           \/ Receive(m) \/ JobFails(m) \/ WorkerDies(m) \/ Resolve(m) \/ Unresolved(m)
           \/ Render(m) \/ NotRenderable(m) \/ NoRecipients(m) \/ Acknowledge(m)
    PROVE  ReportInv'
<1>0. /\ DOMAIN job = Messages /\ IsJob(job[m])
      /\ ticked \in BOOLEAN /\ faults \in 0..MaxFaults /\ excuses \in Nat /\ clock \in Nat
      /\ Cardinality(Unmailed) \in Nat
  BY UnmailedIsFinite, ReportBoundsAreNaturals DEF ReportInv, ReportShapes
<1>9. Owed \in Nat
  BY <1>0 DEF Owed
<1>1. IsJob(Raised(m)) /\ Raised(m).step \in {"queued", "dead"}
  BY <1>0, ReportBoundsAreNaturals DEF Raised, Unsent, IsJob
<1>2. ASSUME NEW next, job' = [job EXCEPT ![m] = next], IsJob(next), m \in Unmailed,
             UNCHANGED <<clock, ticked, workbooks, mails, excuses>>, faults' \in 0..MaxFaults
      PROVE  ReportInv'
  <2>1. Cardinality(Unmailed') <= Cardinality(Unmailed) /\ Cardinality(Unmailed') \in Nat
    BY <1>2, JobMoves
  <2>2. Owed' = Owed
    BY <1>2 DEF Owed
  <2>3. Quiet(m, next)
    BY <1>0, <1>2, <1>9, <2>1, <2>2 DEF Quiet
  <2> QED
    BY <2>3, QuietStep
<1>3. ASSUME NEW next, job' = [job EXCEPT ![m] = next], IsJob(next),
             job[m].step = "mailed", Excused(m), faults' \in 0..MaxFaults,
             UNCHANGED <<clock, ticked, workbooks, mails>>
      PROVE  ReportInv'
  <2>1. Cardinality(Unmailed') <= Cardinality(Unmailed) + 1 /\ Cardinality(Unmailed') \in Nat
    BY <1>3, JobMoves
  <2>2. excuses' = excuses + 1
    BY <1>3 DEF Excused
  <2>3. Owed' = Owed + 1
    BY <1>0, <1>3, <2>2 DEF Owed
  <2>4. Quiet(m, next)
    BY <1>0, <1>3, <1>9, <2>1, <2>2, <2>3 DEF Quiet
  <2> QED
    BY <2>4, QuietStep
<1>4. CASE Receive(m)
  <2> DEFINE next == [job[m] EXCEPT !.step = "received"]
  <2>1. job' = [job EXCEPT ![m] = next] /\ IsJob(next) /\ m \in Unmailed
    BY <1>0, <1>4 DEF Receive, Unmailed, IsJob, Running
  <2> HIDE DEF next
  <2> QED
    BY <1>0, <1>2, <1>4, <2>1 DEF Receive
<1>5. CASE JobFails(m)
  <2> DEFINE next == Raised(m)
  <2>1. job' = [job EXCEPT ![m] = next] /\ IsJob(next) /\ faults' \in 0..MaxFaults
    BY <1>0, <1>1, <1>5, ReportBoundsAreNaturals DEF JobFails, Fault
  <2> HIDE DEF next
  <2>2. CASE job[m].step = "mailed"
    BY <1>3, <1>5, <2>1, <2>2 DEF JobFails
  <2>3. CASE job[m].step # "mailed"
    <3>1. m \in Unmailed /\ excuses' = excuses
      BY <1>5, <2>3 DEF JobFails, Excused, Unmailed, Running
    <3> QED
      BY <1>2, <1>5, <2>1, <3>1 DEF JobFails
  <2> QED
    BY <2>2, <2>3
<1>6. CASE WorkerDies(m)
  <2> DEFINE next == [Unsent EXCEPT !.step = "queued", !.tries = job[m].tries]
  <2>1. job' = [job EXCEPT ![m] = next] /\ IsJob(next) /\ faults' \in 0..MaxFaults
    BY <1>0, <1>6, ReportBoundsAreNaturals DEF WorkerDies, Fault, IsJob, Unsent
  <2> HIDE DEF next
  <2>2. CASE job[m].step = "mailed"
    BY <1>3, <1>6, <2>1, <2>2 DEF WorkerDies
  <2>3. CASE job[m].step # "mailed"
    <3>1. m \in Unmailed /\ excuses' = excuses
      BY <1>6, <2>3 DEF WorkerDies, Excused, Unmailed, Running
    <3> QED
      BY <1>2, <1>6, <2>1, <3>1 DEF WorkerDies
  <2> QED
    BY <2>2, <2>3
<1>7. ASSUME NEW next, NEW from \in {"received", "resolved", "rendered", "stored"},
             Step(m, from, next), IsJob(next), UNCHANGED <<workbooks, mails, excuses>>
      PROVE  ReportInv'
  <2>1. m \in Unmailed /\ faults' \in 0..MaxFaults
    BY <1>0, <1>7 DEF Step, Unmailed
  <2> QED
    BY <1>2, <1>7, <2>1 DEF Step
<1>8. CASE Resolve(m)
  <2> DEFINE next == [job[m] EXCEPT !.step = "resolved", !.book = report]
  <2>1. IsJob(next)
    BY <1>0 DEF IsJob, Running
  <2> QED
    BY <1>7, <1>8, <2>1 DEF Resolve
<1>10. CASE Render(m)
  <2> DEFINE next == [job[m] EXCEPT !.step = "rendered", !.book = [row |-> @, sheet |-> Workbook(@)]]
  <2>1. IsJob(next)
    BY <1>0 DEF IsJob, Running
  <2> QED
    BY <1>7, <1>10, <2>1 DEF Render
<1>11. CASE Unresolved(m) \/ NotRenderable(m) \/ NoRecipients(m)
  BY <1>1, <1>7, <1>11 DEF Unresolved, NotRenderable, NoRecipients
<1>12. CASE Acknowledge(m)
  <2> DEFINE next == [Unsent EXCEPT !.step = "done", !.tries = job[m].tries]
  <2>1. IsJob(next) /\ next.step = "done"
    BY <1>0 DEF IsJob, Unsent
  <2>2. job' = [job EXCEPT ![m] = next] /\ UNCHANGED <<clock, ticked, faults, workbooks, mails, excuses>>
    BY <1>12 DEF Acknowledge, Step
  <2> HIDE DEF next
  <2>3. m \notin Unmailed'
    BY <1>0, <2>1, <2>2 DEF Unmailed
  <2>4. Cardinality(Unmailed') <= Cardinality(Unmailed) /\ Cardinality(Unmailed') \in Nat
    BY <2>2, <2>3, JobMoves
  <2>5. Owed' = Owed
    BY <2>2 DEF Owed
  <2>6. Quiet(m, next)
    BY <1>0, <1>9, <2>1, <2>2, <2>4, <2>5 DEF Quiet
  <2> QED
    BY <2>6, QuietStep
<1> QED
  BY <1>4, <1>5, <1>6, <1>8, <1>10, <1>11, <1>12

\* A message is paid for by the minute the heartbeat serves with it, one sent
\* again by the excuse of the heartbeat's second run.
LEMMA DispatchSteps ==
    ASSUME ReportInv, NEW m \in Messages, Dispatch(m) \/ DispatchAgain(m)
    PROVE  ReportInv'
<1> DEFINE next == [job[m] EXCEPT !.step = "queued"]
<1>0. /\ DOMAIN job = Messages /\ IsJob(job[m])
      /\ ticked \in BOOLEAN /\ faults \in 0..MaxFaults /\ excuses \in Nat /\ clock \in Nat
      /\ Cardinality(Unmailed) \in Nat
  BY UnmailedIsFinite, ReportBoundsAreNaturals DEF ReportInv, ReportShapes
<1>1. job' = [job EXCEPT ![m] = next] /\ UNCHANGED <<clock, workbooks, mails>>
  BY <1>0 DEF Dispatch, DispatchAgain, Send
<1>2. IsJob(next)
  BY <1>0 DEF IsJob
<1> HIDE DEF next
<1>3. Cardinality(Unmailed') <= Cardinality(Unmailed) + 1 /\ Cardinality(Unmailed') \in Nat
  BY <1>1, JobMoves
<1>4. Owed' = Owed + 1 /\ ticked' \in BOOLEAN /\ faults' \in 0..MaxFaults /\ excuses' \in Nat
  <2>1. CASE Dispatch(m)
    BY <1>0, <2>1 DEF Dispatch, Owed
  <2>2. CASE DispatchAgain(m)
    BY <1>0, <2>2, ReportBoundsAreNaturals DEF DispatchAgain, Fault, Owed
  <2> QED
    BY <2>1, <2>2
<1>5. Owed \in Nat
  BY <1>0 DEF Owed
<1>6. Quiet(m, next)
  BY <1>0, <1>1, <1>2, <1>3, <1>4, <1>5 DEF Quiet
<1> QED
  BY <1>6, QuietStep

\* A workbook stays in the store: the key of one is a key of the store afterwards.
LEMMA StoreStep ==
    ASSUME ReportInv, NEW m \in Messages, Store(m)
    PROVE  ReportInv'
<1>0. PICK second \in Seconds :
        /\ job[m].step = "rendered"
        /\ job' = [job EXCEPT ![m] = [job[m] EXCEPT !.step = "stored", !.key = <<clock, second>>]]
        /\ UNCHANGED <<tenant, report, clock, ticked, faults, mails, excuses>>
        /\ workbooks' = [k \in {<<clock, second>>} \cup DOMAIN workbooks |->
                            IF k = <<clock, second>> THEN job[m].book.sheet ELSE workbooks[k]]
  BY DEF Store, Step
<1> DEFINE key == <<clock, second>>
           next == [job[m] EXCEPT !.step = "stored", !.key = key]
<1>1. DOMAIN workbooks' = {key} \cup DOMAIN workbooks /\ key \in Keys
  BY <1>0 DEF Keys, ReportInv, ReportShapes
<1>2. /\ job' = [job EXCEPT ![m] = next] /\ next.step = "stored"
      /\ DOMAIN next = {"step", "tries", "book", "key"}
      /\ next.tries \in 0..MaxRetries /\ next.key = key
  BY <1>0, <1>1 DEF ReportInv, ReportShapes, IsJob
<1> HIDE DEF next, key
<1>3. ReportShapes'
  <2>1. ASSUME NEW n \in Messages
        PROVE  IsJob(job[n])'
    <3>1. CASE n = m
      <4>1. job'[n] = next
        BY <1>2, <3>1 DEF ReportInv, ReportShapes
      <4> QED
        BY <1>1, <1>2, <4>1 DEF IsJob, Running
    <3>2. CASE n # m
      <4>1. job'[n] = job[n] /\ IsJob(job[n])
        BY <1>2, <3>2 DEF ReportInv, ReportShapes
      <4>2. DOMAIN workbooks \subseteq DOMAIN workbooks'
        BY <1>1
      <4>3. job[n].step \in {"stored", "mailed"} => job[n].key \in DOMAIN workbooks'
        BY <4>1, <4>2 DEF IsJob
      <4> QED
        BY <4>1, <4>3 DEF IsJob
    <3> QED
      BY <3>1, <3>2
  <2> QED
    BY <1>0, <1>1, <1>2, <2>1 DEF ReportInv, ReportShapes
<1>4. Cardinality(Unmailed') = Cardinality(Unmailed)
  <2>1. m \in Unmailed /\ m \in Unmailed'
    BY <1>0, <1>2 DEF Unmailed, ReportInv, ReportShapes
  <2> QED
    BY <1>2, <2>1, JobMoves
<1>5. Ledger'
  BY <1>0, <1>4 DEF ReportInv, Ledger, Owed
<1>6. MailsAreKept'
  BY <1>0, <1>1 DEF ReportInv, MailsAreKept
<1> QED
  BY <1>3, <1>5, <1>6 DEF ReportInv

\* A message that mails its workbook pays for the mail.
LEMMA MailStep ==
    ASSUME ReportInv, NEW m \in Messages, Mail(m)
    PROVE  ReportInv'
<1> DEFINE next == [job[m] EXCEPT !.step = "mailed"]
           mail == [message |-> m, key |-> job[m].key, sheet |-> job[m].book.sheet]
<1>0. /\ job[m].step = "stored" /\ job' = [job EXCEPT ![m] = next]
      /\ UNCHANGED <<tenant, report, clock, ticked, faults, workbooks, excuses>>
      /\ mails' = Append(mails, mail)
  BY DEF Mail, Step
<1>1. mail.key \in DOMAIN workbooks
  BY <1>0 DEF ReportInv, ReportShapes, IsJob
<1>2. IsJob(next) /\ next.step = "mailed"
  BY <1>0 DEF ReportInv, ReportShapes, IsJob, Running
<1>3. PICK S : mails \in Seq(S)
  BY DEF ReportInv, ReportShapes
<1> HIDE DEF next, mail
<1>4. /\ mails' \in Seq(S \cup {mail}) /\ Len(mails') = Len(mails) + 1 /\ Len(mails) \in Nat
      /\ \A i \in DOMAIN mails' : mails'[i] = mail \/ (i \in DOMAIN mails /\ mails'[i] = mails[i])
  <2>1. mails \in Seq(S \cup {mail})
    BY <1>3
  <2> QED
    BY <1>0, <2>1, AppendProperties, LenProperties
<1>5. ReportShapes'
  <2>1. \E T : mails' \in Seq(T)
    BY <1>4
  <2>2. \A n \in Messages : IsJob(job[n])'
    BY <1>0, <1>2 DEF ReportInv, ReportShapes, IsJob
  <2> QED
    BY <1>0, <2>1, <2>2 DEF ReportInv, ReportShapes
<1>6. Ledger'
  <2>1. m \in Unmailed /\ m \notin Unmailed'
    BY <1>0, <1>2 DEF Unmailed, ReportInv, ReportShapes
  <2>2. Cardinality(Unmailed') = Cardinality(Unmailed) - 1
    BY <1>0, <2>1, JobMoves
  <2>3. Owed' = Owed /\ Owed \in Nat /\ Cardinality(Unmailed) \in Nat
    BY <1>0, ReportBoundsAreNaturals, UnmailedIsFinite DEF ReportInv, ReportShapes, Owed
  <2> QED
    BY <1>4, <2>2, <2>3 DEF ReportInv, Ledger
<1>7. MailsAreKept'
  BY <1>0, <1>1, <1>4 DEF ReportInv, MailsAreKept
<1> QED
  BY <1>5, <1>6, <1>7 DEF ReportInv

\* Every step of the heartbeat, of a job and of the administrators.
LEMMA ReportStep ==
    ASSUME ReportInv, ReportsNext
    PROVE  ReportInv'
<1>1. CASE MinutePasses
  <2>1. Unmailed' = Unmailed /\ UNCHANGED <<job, workbooks, mails, faults, excuses>>
    BY <1>1 DEF MinutePasses, Unmailed
  <2>2. Cardinality(Unmailed) \in Nat /\ Len(mails) \in Nat
    BY UnmailedIsFinite, LenProperties DEF ReportInv, ReportShapes
  <2>3. Owed' >= Owed /\ Owed' \in Nat /\ Owed \in Nat
    BY <1>1, ReportBoundsAreNaturals DEF MinutePasses, ReportInv, ReportShapes, Owed
  <2>4. Ledger'
    BY <2>1, <2>2, <2>3 DEF ReportInv, Ledger
  <2>5. ReportShapes'
    <3>1. \A m \in Messages : IsJob(job[m])'
      BY <1>1 DEF MinutePasses, ReportInv, ReportShapes, IsJob
    <3>2. clock' \in 0..MaxClock
      BY <1>1, ReportBoundsAreNaturals DEF MinutePasses, ReportInv, ReportShapes
    <3> QED
      BY <1>1, <3>1, <3>2 DEF MinutePasses, ReportInv, ReportShapes
  <2> QED
    BY <2>1, <2>4, <2>5 DEF ReportInv, MailsAreKept
<1>2. CASE SuspendTenant \/ EditReport
  <2>1. UNCHANGED <<clock, ticked, job, workbooks, mails, faults, excuses>>
    BY <1>2 DEF SuspendTenant, EditReport
  <2> QED
    BY <2>1 DEF ReportInv, ReportShapes, IsJob, Ledger, Owed, Unmailed, MailsAreKept
<1>3. CASE \E m \in Messages : JobStep(m)
  BY <1>3, QuietSteps, DispatchSteps, StoreStep, MailStep DEF JobStep
<1> QED
  BY <1>1, <1>2, <1>3 DEF ReportsNext

\* At first nothing is mailed and nothing waits to be.
LEMMA ReportStart ==
    ASSUME NEW rows, ReportsInit(rows)
    PROVE  ReportInv
<1>1. Unmailed = {} /\ mails = <<>> /\ Len(mails) = 0 /\ DOMAIN mails = {}
  BY DEF ReportsInit, Unmailed, Unsent
<1>2. Cardinality(Unmailed) = 0
  BY <1>1, FS_EmptySet
<1>3. ReportShapes
  <2>1. \A m \in Messages : IsJob(job[m])
    BY ReportBoundsAreNaturals DEF ReportsInit, IsJob, Unsent
  <2>2. DOMAIN workbooks = {} /\ \E S : mails \in Seq(S)
    <3>1. mails \in Seq({})
      BY DEF ReportsInit
    <3> QED
      BY <3>1 DEF ReportsInit
  <2>3. /\ DOMAIN job = Messages /\ clock \in 0..MaxClock /\ ticked \in BOOLEAN
        /\ faults \in 0..MaxFaults /\ excuses \in Nat
    <3>1. clock = 0 /\ faults = 0 /\ excuses = 0 /\ ticked = FALSE
      BY DEF ReportsInit
    <3>2. ticked \in BOOLEAN
      BY <3>1
    <3>3. DOMAIN job = Messages
      BY DEF ReportsInit
    <3> QED
      BY <3>1, <3>2, <3>3, ReportBoundsAreNaturals
  <2> QED
    BY <2>1, <2>2, <2>3 DEF ReportShapes
<1>4. Ledger
  BY <1>1, <1>2 DEF ReportsInit, Ledger, Owed
<1> QED
  BY <1>1, <1>3, <1>4 DEF ReportInv, MailsAreKept

\* What the ledger says of mails: none without a minute or an excuse.
LEMMA ReportPromise ==
    ASSUME ReportInv
    PROVE  MailsAreExplained /\ ReportsTypeOK
<1>1. Len(mails) \in Nat /\ Cardinality(Unmailed) \in Nat
  BY UnmailedIsFinite, LenProperties DEF ReportInv, ReportShapes
<1>2. Len(mails) <= clock + 1 + excuses
  BY <1>1, ReportBoundsAreNaturals DEF ReportInv, ReportShapes, Ledger, Owed
<1> QED
  BY <1>2 DEF ReportInv, ReportShapes, IsJob, MailsAreKept, MailsAreExplained, ReportsTypeOK

----------------------------------------------------------------------------
(* The gate.  *)

\* The steps of a Dagster run.
StepNames == {"truncate", "insert", "test_staging", "build_mart", "test_mart", "promote",
              "count_serving", "count_mart"}

\* The place of a step in a plan.
Rank(x) ==
    CASE x = "truncate" -> 1 [] x = "insert" -> 2 [] x = "test_staging" -> 3
      [] x = "build_mart" -> 4 [] x = "test_mart" -> 5 [] x = "promote" -> 6
      [] x = "count_serving" -> 7 [] x = "count_mart" -> 8

\* A sequence of steps that keeps that order.
Ordered(s) ==
    /\ s \in Seq(StepNames)
    /\ \A i, j \in DOMAIN s : i < j => Rank(s[i]) < Rank(s[j])

\* The order of the steps is the order of their ranks, and taking the first step
\* away takes one with the smallest rank.
LEMMA FirstStep ==
    ASSUME NEW s, Ordered(s), s # <<>>
    PROVE  /\ Head(s) \in Items(s) /\ Head(s) \in StepNames
           /\ \A x \in Items(s) : x \in StepNames /\ Rank(Head(s)) <= Rank(x)
           /\ Ordered(Tail(s)) /\ Items(Tail(s)) = Items(s) \ {Head(s)}
           /\ Len(s) = 1 <=> Tail(s) = <<>>
<1>1. /\ s \in Seq(StepNames) /\ Len(s) \in Nat /\ Len(s) > 0 /\ DOMAIN s = 1..Len(s)
      /\ \A i \in 1..Len(s) : s[i] \in StepNames
      /\ \A i, j \in 1..Len(s) : i < j => Rank(s[i]) < Rank(s[j])
  BY LenProperties, ElementOfSeq, EmptySeq DEF Ordered
<1>2. Head(s) = s[1]
  BY <1>1, HeadTailProperties
<1>3. /\ Tail(s) \in Seq(StepNames) /\ Len(Tail(s)) = Len(s) - 1
      /\ DOMAIN Tail(s) = 1..(Len(s) - 1) /\ \A i \in 1..(Len(s) - 1) : Tail(s)[i] = s[i + 1]
  BY <1>1, HeadTailProperties, LenProperties
<1>4. \A x \in StepNames : Rank(x) \in 1..8
  BY DEF StepNames, Rank
<1>5. \A x \in Items(s) : x \in StepNames /\ Rank(Head(s)) <= Rank(x)
  <2> SUFFICES ASSUME NEW i \in 1..Len(s)
               PROVE  s[i] \in StepNames /\ Rank(Head(s)) <= Rank(s[i])
    BY <1>1 DEF Items
  <2>1. Rank(s[1]) \in 1..8 /\ Rank(s[i]) \in 1..8
    BY <1>1, <1>4
  <2> QED
    BY <1>1, <1>2, <2>1
<1>6. Ordered(Tail(s))
  BY <1>1, <1>3 DEF Ordered
<1>7. Items(Tail(s)) = Items(s) \ {Head(s)}
  <2>1. ASSUME NEW i \in 1..(Len(s) - 1)
        PROVE  Tail(s)[i] \in Items(s) \ {Head(s)}
    <3>1. i + 1 \in 1..Len(s) /\ Tail(s)[i] = s[i + 1] /\ 1 < i + 1 /\ 1 \in 1..Len(s)
      BY <1>1, <1>3, <2>1
    <3>2. Rank(s[1]) < Rank(s[i + 1]) /\ Rank(s[1]) \in 1..8
      BY <1>1, <1>4, <3>1
    <3>3. s[1] # s[i + 1]
      BY <3>2
    <3> QED
      BY <1>1, <1>2, <3>1, <3>3 DEF Items
  <2>2. ASSUME NEW i \in 1..Len(s), s[i] # Head(s)
        PROVE  s[i] \in Items(Tail(s))
    <3>1. i - 1 \in 1..(Len(s) - 1) /\ s[i] = Tail(s)[i - 1]
      BY <1>1, <1>2, <1>3, <2>2
    <3> QED
      BY <1>3, <3>1 DEF Items
  <2> QED
    BY <1>1, <1>3, <2>1, <2>2 DEF Items
<1>8. Head(s) \in Items(s) /\ Head(s) \in StepNames
  BY <1>1, <1>2 DEF Items
<1>9. Len(s) = 1 <=> Tail(s) = <<>>
  <2>1. Len(Tail(s)) = 0 <=> Tail(s) = <<>>
    BY <1>3, EmptySeq
  <2> QED
    BY <1>1, <1>3, <2>1
<1> QED
  BY <1>5, <1>6, <1>7, <1>8, <1>9

\* One such sequence before another, where the ranks allow it.
LEMMA OrderedConcat ==
    ASSUME NEW s, NEW t, Ordered(s), Ordered(t),
           \A x \in Items(s), y \in Items(t) : Rank(x) < Rank(y)
    PROVE  Ordered(s \o t) /\ Items(s \o t) = Items(s) \cup Items(t)
<1>1. /\ s \in Seq(StepNames) /\ t \in Seq(StepNames) /\ Len(s) \in Nat /\ Len(t) \in Nat
      /\ DOMAIN s = 1..Len(s) /\ DOMAIN t = 1..Len(t)
  BY LenProperties DEF Ordered
<1> DEFINE u == s \o t
<1>2. /\ u \in Seq(StepNames) /\ DOMAIN u = 1..(Len(s) + Len(t))
      /\ \A i \in 1..(Len(s) + Len(t)) : u[i] = IF i <= Len(s) THEN s[i] ELSE t[i - Len(s)]
  BY <1>1, ConcatProperties, LenProperties
<1> HIDE DEF u
<1>3. ASSUME NEW i \in 1..(Len(s) + Len(t)), NEW j \in 1..(Len(s) + Len(t)), i < j
      PROVE  Rank(u[i]) < Rank(u[j])
  <2>1. CASE j <= Len(s)
    BY <1>1, <1>2, <1>3, <2>1 DEF Ordered
  <2>2. CASE i > Len(s)
    <3>1. i - Len(s) \in DOMAIN t /\ j - Len(s) \in DOMAIN t /\ i - Len(s) < j - Len(s)
      BY <1>1, <1>3, <2>2
    <3>2. u[i] = t[i - Len(s)] /\ u[j] = t[j - Len(s)]
      BY <1>1, <1>2, <1>3, <2>2
    <3> QED
      BY <3>1, <3>2 DEF Ordered
  <2>3. CASE i <= Len(s) /\ j > Len(s)
    <3>1. u[i] \in Items(s) /\ u[j] \in Items(t)
      <4>1. i \in DOMAIN s /\ j - Len(s) \in DOMAIN t
        BY <1>1, <1>3, <2>3
      <4>2. u[i] = s[i]
        BY <1>2, <2>3
      <4>3. u[j] = t[j - Len(s)]
        BY <1>1, <1>2, <2>3
      <4> QED
        BY <4>1, <4>2, <4>3 DEF Items
    <3> QED
      BY <3>1
  <2> QED
    BY <1>1, <1>3, <2>1, <2>2, <2>3
<1>4. \A i \in 1..(Len(s) + Len(t)) : u[i] \in Items(s) \cup Items(t)
  <2> SUFFICES ASSUME NEW i \in 1..(Len(s) + Len(t)) PROVE u[i] \in Items(s) \cup Items(t)
    OBVIOUS
  <2>1. CASE i <= Len(s)
    BY <1>1, <1>2, <2>1 DEF Items
  <2>2. CASE i > Len(s)
    <3>1. i - Len(s) \in DOMAIN t
      BY <1>1, <2>2
    <3> QED
      BY <1>1, <1>2, <2>2, <3>1 DEF Items
  <2> QED
    BY <1>1, <2>1, <2>2
<1>5. Items(s) \subseteq Items(u)
  BY <1>1, <1>2 DEF Items
<1>6. Items(t) \subseteq Items(u)
  <2> SUFFICES ASSUME NEW k \in DOMAIN t PROVE t[k] \in Items(u)
    BY DEF Items
  <2>1. k + Len(s) \in DOMAIN u /\ u[k + Len(s)] = t[k]
    BY <1>1, <1>2
  <2> QED
    BY <2>1 DEF Items
<1> QED
  BY <1>2, <1>3, <1>4, <1>5, <1>6 DEF Ordered, Items, u

\* A plan has the steps of the chosen assets, and an asset comes with all of its.
LEMMA PlanHasItsSteps ==
    ASSUME NEW selection \in Selections
    PROVE  /\ Ordered(Plan(selection)) /\ Plan(selection) # <<>>
           /\ "truncate" \in Items(Plan(selection)) <=> "raw" \in selection
           /\ "insert" \in Items(Plan(selection)) <=> "raw" \in selection
           /\ "build_mart" \in Items(Plan(selection)) <=> "mart" \in selection
           /\ "test_mart" \in Items(Plan(selection)) <=> "mart" \in selection
           /\ "promote" \in Items(Plan(selection)) <=> "serving" \in selection
           /\ "count_serving" \in Items(Plan(selection)) <=> "serving" \in selection
           /\ "count_mart" \in Items(Plan(selection)) <=> "serving" \in selection
<1>1. \A x \in StepNames : Rank(x) \in 1..8
  BY DEF StepNames, Rank
<1>2. /\ Ordered(<<>>) /\ Items(<<>>) = {}
  BY DEF Ordered, Items
<1>3. /\ Ordered(Chosen("raw", selection))
      /\ Items(Chosen("raw", selection)) = IF "raw" \in selection THEN {"truncate", "insert"} ELSE {}
  <2>1. Ordered(<<"truncate", "insert">>) /\ Items(<<"truncate", "insert">>) = {"truncate", "insert"}
    BY DEF Ordered, Items, Rank, StepNames
  <2> QED
    BY <1>2, <2>1 DEF Chosen, StepsOf
<1>4. /\ Ordered(Chosen("staging", selection))
      /\ Items(Chosen("staging", selection)) = IF "staging" \in selection THEN {"test_staging"} ELSE {}
  <2>1. Ordered(<<"test_staging">>) /\ Items(<<"test_staging">>) = {"test_staging"}
    BY DEF Ordered, Items, Rank, StepNames
  <2> QED
    BY <1>2, <2>1 DEF Chosen, StepsOf
<1>5. /\ Ordered(Chosen("mart", selection))
      /\ Items(Chosen("mart", selection)) = IF "mart" \in selection THEN {"build_mart", "test_mart"} ELSE {}
  <2>1. Ordered(<<"build_mart", "test_mart">>) /\ Items(<<"build_mart", "test_mart">>) = {"build_mart", "test_mart"}
    BY DEF Ordered, Items, Rank, StepNames
  <2> QED
    BY <1>2, <2>1 DEF Chosen, StepsOf
<1>6. /\ Ordered(Chosen("serving", selection))
      /\ Items(Chosen("serving", selection)) =
            IF "serving" \in selection THEN {"promote", "count_serving", "count_mart"} ELSE {}
  <2>1. /\ Ordered(<<"promote", "count_serving", "count_mart">>)
        /\ Items(<<"promote", "count_serving", "count_mart">>) = {"promote", "count_serving", "count_mart"}
    BY DEF Ordered, Items, Rank, StepNames
  <2> QED
    BY <1>2, <2>1 DEF Chosen, StepsOf
<1> DEFINE two == Chosen("raw", selection) \o Chosen("staging", selection)
           three == two \o Chosen("mart", selection)
<1>7. Ordered(two) /\ Items(two) = Items(Chosen("raw", selection)) \cup Items(Chosen("staging", selection))
  <2>1. \A x \in Items(Chosen("raw", selection)), y \in Items(Chosen("staging", selection)) : Rank(x) < Rank(y)
    BY <1>3, <1>4 DEF Rank
  <2> QED
    BY <1>3, <1>4, <2>1, OrderedConcat
<1> HIDE DEF two
<1>8. Ordered(three) /\ Items(three) = Items(two) \cup Items(Chosen("mart", selection))
  <2>1. \A x \in Items(two), y \in Items(Chosen("mart", selection)) : Rank(x) < Rank(y)
    BY <1>3, <1>4, <1>5, <1>7 DEF Rank
  <2> QED
    BY <1>5, <1>7, <2>1, OrderedConcat
<1> HIDE DEF three
<1>9. /\ Ordered(three \o Chosen("serving", selection))
      /\ Items(three \o Chosen("serving", selection)) = Items(three) \cup Items(Chosen("serving", selection))
  <2>1. \A x \in Items(three), y \in Items(Chosen("serving", selection)) : Rank(x) < Rank(y)
    BY <1>3, <1>4, <1>5, <1>6, <1>7, <1>8 DEF Rank
  <2> QED
    BY <1>6, <1>8, <2>1, OrderedConcat
<1>10. Plan(selection) = three \o Chosen("serving", selection)
  BY DEF Plan, two, three
<1>11. /\ Ordered(Plan(selection))
       /\ Items(Plan(selection)) = Items(Chosen("raw", selection)) \cup Items(Chosen("staging", selection))
             \cup Items(Chosen("mart", selection)) \cup Items(Chosen("serving", selection))
  BY <1>7, <1>8, <1>9, <1>10
<1>12. Plan(selection) # <<>>
  <2>1. PICK a \in AssetNames : a \in selection
    <3>1. selection \subseteq AssetNames /\ selection # {}
      BY DEF Selections
    <3> QED
      BY <3>1
  <2>2. Items(Plan(selection)) # {}
    BY <1>3, <1>4, <1>5, <1>6, <1>11, <2>1 DEF AssetNames
  <2> QED
    BY <1>2, <2>2
<1> QED
  BY <1>3, <1>4, <1>5, <1>6, <1>11, <1>12

\* The batches a run may load, and the ends a run may have.
Batches == Seeds \cup {Nothing}
RunEnds == {"none", "going", "success", "failed", "blocked", "check failed"}

\* What a run is, wherever it stands: it tests the mart it builds, and builds
\* it from a raw table it has done with.
IsRun(d) ==
    /\ DOMAIN d = {"steps", "end", "batch", "rows", "assets", "gated", "lone"}
    /\ d.end \in RunEnds
    /\ d.end = "going" <=> d.steps # <<>>
    /\ d.batch \in Batches /\ d.gated \in BOOLEAN
    /\ Ordered(d.steps)
    /\ "truncate" \in Items(d.steps) => "insert" \in Items(d.steps)
    /\ "build_mart" \in Items(d.steps) => "test_mart" \in Items(d.steps)
    /\ "promote" \in Items(d.steps) => "count_serving" \in Items(d.steps)
    /\ "test_mart" \in Items(d.steps) /\ "build_mart" \notin Items(d.steps)
          => Items(d.steps) \cap {"truncate", "insert"} = {}

\* The steps after the swap of the serving table.
Counts == {"count_serving", "count_mart"}

\* What a run that nothing overlaps with has left in the tables.
LeftBehind(d, r, m, s) ==
    /\ "insert" \in Items(d.steps) /\ "truncate" \notin Items(d.steps) => r = <<>>
    /\ d.batch # Nothing /\ "insert" \notin Items(d.steps) => r = <<d.batch>>
    /\ "test_mart" \in Items(d.steps) /\ "build_mart" \notin Items(d.steps) => m = r
    /\ d.gated =>
          /\ "test_mart" \notin Items(d.steps)
          /\ MartTests(m)
          /\ d.batch # Nothing => m = <<d.batch>>
    /\ Items(d.steps) \cap Counts # {} /\ "promote" \notin Items(d.steps) =>
          /\ Items(d.steps) \subseteq Counts /\ m \in Seq(Batches)
          /\ IF "count_serving" \in Items(d.steps) THEN s.rows = m ELSE d.rows = Len(m)

\* A run that started without company has none while it goes.
Alone == \A r, s \in DagsterRuns :
            dagster[r].end = "going" /\ dagster[r].lone /\ dagster[s].end = "going" => r = s

\* What a run that has promoted its mart vouches for.
Served(d, rows) ==
    /\ d.end # "none" /\ Items(d.steps) \cap {"test_mart", "promote"} = {}
    /\ d.gated /\ d.lone =>
          /\ MartTests(rows)
          /\ d.batch # Nothing => rows = <<d.batch>>

\* The tables hold batches, and the serving table is some run's.
TablesHold ==
    /\ raw \in Seq(Batches)
    /\ mart # Nothing => mart \in Seq(Batches)
    /\ serving # Nothing => serving.by \in DagsterRuns /\ Served(dagster[serving.by], serving.rows)

\* A loaded schedule belongs to the registry the location was loaded from.
SchedulesHold ==
    /\ IsRegistry(registry)
    /\ \A s \in loaded : /\ IsSchedule(s, registry.targets)
                        /\ s.kind \in {"pipeline", "transform_job", "catalog"}

\* A failed count found no rows, and a blocked run, and only one, has an event.
GateReports ==
    \A r \in DagsterRuns :
       /\ dagster[r].end = "check failed" /\ dagster[r].lone => dagster[r].rows = 0
       /\ dagster[r].end = "blocked" <=> \E e \in events : e.run = r

\* The inductive invariant of the code location.
GateInv ==
    /\ DOMAIN dagster = DagsterRuns
    /\ \A r \in DagsterRuns : IsRun(dagster[r])
    /\ \A r \in DagsterRuns : dagster[r].end = "going" /\ dagster[r].lone => LeftBehind(dagster[r], raw, mart, serving)
    /\ Alone /\ TablesHold /\ SchedulesHold /\ GateReports

\* One going run takes a step, and keeps what the invariant says of it.
Goes(r, next) ==
    /\ dagster[r].end = "going"
    /\ dagster' = [dagster EXCEPT ![r] = next]
    /\ IsRun(next) /\ next.end # "none" /\ next.lone = dagster[r].lone
    /\ next.end = "going" /\ next.lone => LeftBehind(next, raw', mart', serving')
    /\ raw' \in Seq(Batches) /\ (mart' # Nothing => mart' \in Seq(Batches))
    /\ serving' # Nothing =>
          /\ serving'.by \in DagsterRuns
          /\ serving'.by # r => serving' = serving
          /\ serving'.by = r => Served(next, serving'.rows)
    /\ next.end = "check failed" /\ next.lone => next.rows = 0
    /\ next.end = "blocked" <=> \E e \in events' : e.run = r
    /\ \A s \in DagsterRuns \ {r} : (\E e \in events' : e.run = s) <=> (\E e \in events : e.run = s)
    /\ UNCHANGED <<registry, loaded>>

\* A run without company is alone in taking steps, so that no step of another
\* run undoes what the invariant says of it.
LEMMA RunGoes ==
    ASSUME GateInv, NEW r \in DagsterRuns, NEW next, Goes(r, next)
    PROVE  GateInv'
<1>1. /\ dagster[r].end = "going" /\ next.lone = dagster[r].lone
      /\ dagster'[r] = next /\ DOMAIN dagster' = DagsterRuns
      /\ \A s \in DagsterRuns \ {r} : dagster'[s] = dagster[s]
  BY DEF Goes, GateInv
<1>2. \A s \in DagsterRuns : IsRun(dagster'[s])
  BY <1>1 DEF Goes, GateInv
<1>3. Alone'
  BY <1>1 DEF GateInv, Alone
<1>4. ASSUME NEW s \in DagsterRuns, dagster'[s].end = "going", dagster'[s].lone
      PROVE  LeftBehind(dagster'[s], raw', mart', serving')
  <2>1. s = r
    BY <1>1, <1>4 DEF GateInv, Alone
  <2> QED
    BY <1>1, <1>4, <2>1 DEF Goes
<1>5. TablesHold'
  <2>1. raw' \in Seq(Batches) /\ (mart' # Nothing => mart' \in Seq(Batches))
    BY DEF Goes
  <2>2. ASSUME serving' # Nothing
        PROVE  serving'.by \in DagsterRuns /\ Served(dagster'[serving'.by], serving'.rows)
    <3>1. CASE serving'.by = r
      BY <1>1, <2>2, <3>1 DEF Goes
    <3>2. CASE serving'.by # r
      <4>1. serving' = serving /\ serving'.by \in DagsterRuns
        BY <2>2, <3>2 DEF Goes
      <4>2. Served(dagster[serving.by], serving.rows)
        BY <2>2, <4>1 DEF GateInv, TablesHold
      <4> QED
        BY <1>1, <3>2, <4>1, <4>2
    <3> QED
      BY <3>1, <3>2
  <2> QED
    BY <2>1, <2>2 DEF TablesHold, Served
<1>6. SchedulesHold'
  BY DEF Goes, GateInv, SchedulesHold, IsRegistry, IsSchedule
<1>7. GateReports'
  BY <1>1 DEF Goes, GateInv, GateReports
<1>8. \A s \in DagsterRuns : IsRun(dagster[s])'
  BY <1>2 DEF IsRun
<1>9. \A s \in DagsterRuns : (dagster[s].end = "going" /\ dagster[s].lone => LeftBehind(dagster[s], raw, mart, serving))'
  BY <1>4 DEF LeftBehind
<1> QED
  BY <1>1, <1>3, <1>5, <1>6, <1>7, <1>8, <1>9 DEF GateInv

\* The serving table of another step is what it was.
LEMMA ServingStays ==
    ASSUME GateInv, NEW r \in DagsterRuns, NEW next, UNCHANGED serving,
           next.end # "none", Items(next.steps) \subseteq Items(dagster[r].steps),
           next.batch = dagster[r].batch, next.lone = dagster[r].lone,
           next.gated => dagster[r].gated \/ "test_mart" \in Items(dagster[r].steps)
    PROVE  serving' # Nothing =>
              /\ serving'.by \in DagsterRuns
              /\ serving'.by # r => serving' = serving
              /\ serving'.by = r => Served(next, serving'.rows)
BY DEF GateInv, TablesHold, Served

\* The run as it is once its first step is done.
LEMMA Advancing ==
    ASSUME GateInv, NEW r \in DagsterRuns, dagster[r].end = "going"
    PROVE  /\ IsRun(Advanced(r)) /\ Advanced(r).end \in {"going", "success"}
           /\ Advanced(r).batch = dagster[r].batch /\ Advanced(r).lone = dagster[r].lone
           /\ Advanced(r).gated = dagster[r].gated /\ Advanced(r).rows = dagster[r].rows
           /\ Advanced(r).end = "going" => dagster[r].end = "going"
           /\ Items(Advanced(r).steps) = Items(dagster[r].steps) \ {Head(dagster[r].steps)}
           /\ Head(dagster[r].steps) \in Items(dagster[r].steps)
           /\ \A x \in Items(dagster[r].steps) :
                 x \in StepNames /\ Rank(Head(dagster[r].steps)) <= Rank(x)
<1>1. IsRun(dagster[r]) /\ dagster[r].steps # <<>>
  BY DEF GateInv, IsRun
<1> DEFINE steps == dagster[r].steps
<1>2. /\ Head(steps) \in Items(steps) /\ Head(steps) \in StepNames
      /\ \A x \in Items(steps) : x \in StepNames /\ Rank(Head(steps)) <= Rank(x)
      /\ Ordered(Tail(steps)) /\ Items(Tail(steps)) = Items(steps) \ {Head(steps)}
      /\ Len(steps) = 1 <=> Tail(steps) = <<>>
  BY <1>1, FirstStep DEF IsRun
<1>3. /\ DOMAIN Advanced(r) = {"steps", "end", "batch", "rows", "assets", "gated", "lone"}
      /\ Advanced(r).steps = Tail(steps)
      /\ Advanced(r).end = IF Len(steps) = 1 THEN "success" ELSE "going"
      /\ Advanced(r).batch = dagster[r].batch /\ Advanced(r).lone = dagster[r].lone
      /\ Advanced(r).gated = dagster[r].gated /\ Advanced(r).rows = dagster[r].rows
  BY <1>1 DEF Advanced, IsRun
<1>4. /\ "test_mart" \notin Items(Tail(steps)) => "build_mart" \notin Items(Tail(steps))
      /\ "insert" \notin Items(Tail(steps)) => "truncate" \notin Items(Tail(steps))
      /\ "count_serving" \notin Items(Tail(steps)) => "promote" \notin Items(Tail(steps))
  BY <1>1, <1>2 DEF IsRun, Rank
<1>5. "test_mart" \in Items(Tail(steps)) /\ "build_mart" \notin Items(Tail(steps))
         => Items(Tail(steps)) \cap {"truncate", "insert"} = {}
  BY <1>1, <1>2 DEF IsRun, Rank
<1>6. IsRun(Advanced(r))
  BY <1>1, <1>2, <1>3, <1>4, <1>5 DEF IsRun, RunEnds
<1> QED
  BY <1>2, <1>3, <1>6

\* A run that ends early leaves what it wrote.
LEMMA Ending ==
    ASSUME GateInv, NEW r \in DagsterRuns, NEW e \in {"failed", "blocked"},
           dagster[r].end = "going", Ends(r, e), UNCHANGED <<raw, mart, serving, registry, loaded>>,
           e = "blocked" <=> \E v \in events' : v.run = r,
           \A s \in DagsterRuns \ {r} : (\E v \in events' : v.run = s) <=> (\E v \in events : v.run = s)
    PROVE  GateInv'
<1> DEFINE next == [dagster[r] EXCEPT !.end = e, !.steps = <<>>]
<1>1. dagster' = [dagster EXCEPT ![r] = next]
  BY DEF Ends, GateInv
<1>2. Ordered(<<>>) /\ Items(<<>>) = {}
  BY DEF Ordered, Items
<1>3. IsRun(dagster[r])
  BY DEF GateInv
<1>4. /\ next.steps = <<>> /\ next.end = e /\ next.lone = dagster[r].lone
      /\ next.batch = dagster[r].batch /\ next.gated = dagster[r].gated
      /\ DOMAIN next = DOMAIN dagster[r]
  BY <1>3 DEF IsRun
<1> HIDE DEF next
<1>5. IsRun(next)
  BY <1>2, <1>3, <1>4 DEF IsRun, RunEnds
<1>6. serving' # Nothing =>
         /\ serving'.by \in DagsterRuns
         /\ serving'.by # r => serving' = serving
         /\ serving'.by = r => Served(next, serving'.rows)
  BY <1>2, <1>4, ServingStays
<1>7. Goes(r, next)
  BY <1>1, <1>4, <1>5, <1>6 DEF Goes, GateInv, TablesHold
<1> QED
  BY <1>7, RunGoes

\* A failed test, of an asset's run or of a job's.
LEMMA FailedGate ==
    ASSUME GateInv, NEW r \in DagsterRuns, NEW asset, dagster[r].end = "going",
           GateFails(r, asset), UNCHANGED <<raw, mart, serving, registry, loaded>>
    PROVE  GateInv'
<1>1. ~\E v \in events : v.run = r
  BY DEF GateInv, GateReports
<1>2. CASE events' = events \cup {[run |-> r, asset |-> asset]} /\ Ends(r, "blocked")
  <2>1. \E v \in events' : v.run = r
    <3>1. [run |-> r, asset |-> asset] \in events' /\ [run |-> r, asset |-> asset].run = r
      BY <1>2
    <3> QED
      BY <3>1
  <2>2. \A s \in DagsterRuns \ {r} : (\E v \in events' : v.run = s) <=> (\E v \in events : v.run = s)
    BY <1>2
  <2> QED
    BY <1>2, <2>1, <2>2, Ending
<1>3. CASE Ends(r, "failed") /\ UNCHANGED events
  BY <1>1, <1>3, Ending
<1> QED
  BY <1>2, <1>3 DEF GateFails

\* A step that is done.
LEMMA StepDone ==
    ASSUME GateInv, NEW r \in DagsterRuns, dagster[r].end = "going", Advance(r),
           UNCHANGED <<serving, registry, loaded, events>>,
           raw' \in Seq(Batches), mart' # Nothing => mart' \in Seq(Batches),
           dagster[r].lone => LeftBehind(Advanced(r), raw', mart', serving')
    PROVE  GateInv'
<1> DEFINE next == Advanced(r)
<1>1. dagster' = [dagster EXCEPT ![r] = next]
  BY DEF Advance
<1>2. /\ IsRun(next) /\ next.end \in {"going", "success"} /\ next.lone = dagster[r].lone
      /\ next.batch = dagster[r].batch /\ next.gated = dagster[r].gated
      /\ Items(next.steps) \subseteq Items(dagster[r].steps)
  BY Advancing
<1>3. next.lone => LeftBehind(next, raw', mart', serving')
  BY <1>2
<1> HIDE DEF next
<1>4. serving' # Nothing =>
         /\ serving'.by \in DagsterRuns
         /\ serving'.by # r => serving' = serving
         /\ serving'.by = r => Served(next, serving'.rows)
  BY <1>2, ServingStays
<1>5. ~\E v \in events : v.run = r
  BY DEF GateInv, GateReports
<1>6. Goes(r, next)
  BY <1>1, <1>2, <1>3, <1>4, <1>5 DEF Goes
<1> QED
  BY <1>6, RunGoes

\* The steps that write the raw table, test it and build the mart, and a fault.
LEMMA TableSteps ==
    ASSUME GateInv, NEW r \in DagsterRuns,
           RunBreaks(r) \/ Truncate(r) \/ InsertArrow(r) \/ TestStaging(r) \/ BuildMart(r)
    PROVE  GateInv'
<1> DEFINE L == Items(dagster[r].steps)
           first == Head(dagster[r].steps)
<1>0. /\ IsRun(dagster[r]) /\ raw \in Seq(Batches) /\ (mart # Nothing => mart \in Seq(Batches))
      /\ dagster[r].end = "going"
      /\ dagster[r].lone => LeftBehind(dagster[r], raw, mart, serving)
  BY DEF GateInv, TablesHold, RunBreaks, Truncate, InsertArrow, TestStaging, BuildMart, At
<1>1. /\ Advanced(r).batch = dagster[r].batch /\ Advanced(r).lone = dagster[r].lone
      /\ Advanced(r).gated = dagster[r].gated /\ Advanced(r).rows = dagster[r].rows
      /\ Items(Advanced(r).steps) = L \ {first}
      /\ first \in L
      /\ \A x \in L : x \in StepNames /\ Rank(first) <= Rank(x)
  BY <1>0, Advancing
<1>2. CASE RunBreaks(r)
  <2>1. ~\E v \in events : v.run = r
    BY <1>0 DEF GateInv, GateReports
  <2> QED
    BY <1>2, <2>1, Ending DEF RunBreaks
<1>3. CASE Truncate(r)
  <2>1. raw' = <<>> /\ raw' \in Seq(Batches) /\ first = "truncate"
    BY <1>3 DEF Truncate, At
  <2>2. dagster[r].lone => LeftBehind(Advanced(r), raw', mart', serving')
    <3>1. "test_mart" \in L /\ "build_mart" \notin L => FALSE
      BY <1>0, <1>1, <2>1 DEF IsRun
    <3>2. "insert" \in Items(Advanced(r).steps)
      BY <1>0, <1>1, <2>1 DEF IsRun
    <3> QED
      BY <1>0, <1>1, <1>3, <2>1, <3>1, <3>2 DEF LeftBehind, Truncate
  <2> QED
    BY <1>0, <1>3, <2>1, <2>2, StepDone DEF Truncate
<1>4. CASE InsertArrow(r)
  <2>1. raw' = Append(raw, dagster[r].batch) /\ raw' \in Seq(Batches) /\ first = "insert"
    BY <1>0, <1>4, AppendProperties DEF InsertArrow, At, IsRun
  <2>2. "truncate" \notin L
    BY <1>1, <2>1 DEF Rank
  <2>3. dagster[r].lone => raw' = <<dagster[r].batch>>
    <3>1. dagster[r].lone => raw = <<>>
      BY <1>0, <1>1, <2>1, <2>2 DEF LeftBehind
    <3>2. Append(<<>>, dagster[r].batch) = <<dagster[r].batch>>
      OBVIOUS
    <3> QED
      BY <2>1, <3>1, <3>2
  <2>4. dagster[r].lone => LeftBehind(Advanced(r), raw', mart', serving')
    <3>1. SUFFICES ASSUME dagster[r].lone PROVE LeftBehind(Advanced(r), raw', mart', serving')
      OBVIOUS
    <3>2. "test_mart" \in L /\ "build_mart" \notin L => FALSE
      BY <1>0, <1>1, <2>1 DEF IsRun
    <3> QED
      BY <1>0, <1>1, <1>4, <2>1, <2>3, <3>1, <3>2 DEF LeftBehind, InsertArrow
  <2> QED
    BY <1>0, <1>4, <2>1, <2>4, StepDone DEF InsertArrow
<1>5. CASE TestStaging(r)
  <2>1. CASE Advance(r) /\ UNCHANGED events
    <3>1. first = "test_staging"
      BY <1>5 DEF TestStaging, At
    <3>2. dagster[r].lone => LeftBehind(Advanced(r), raw', mart', serving')
      BY <1>0, <1>1, <1>5, <3>1 DEF LeftBehind, TestStaging
    <3> QED
      BY <1>0, <1>5, <2>1, <3>2, StepDone DEF TestStaging
  <2>2. CASE GateFails(r, "staging")
    BY <1>0, <1>5, <2>2, FailedGate DEF TestStaging
  <2> QED
    BY <1>5, <2>1, <2>2 DEF TestStaging
<1>6. CASE BuildMart(r)
  <2>1. mart' = raw /\ raw' = raw /\ first = "build_mart"
    BY <1>6 DEF BuildMart, At
  <2>2. "test_mart" \in L
    BY <1>0, <1>1, <2>1 DEF IsRun
  <2>3. dagster[r].lone => LeftBehind(Advanced(r), raw', mart', serving')
    BY <1>0, <1>1, <2>1, <2>2 DEF LeftBehind, Counts
  <2> QED
    BY <1>0, <1>6, <2>1, <2>3, StepDone DEF BuildMart
<1> QED
  BY <1>2, <1>3, <1>4, <1>5, <1>6

\* The tests of the mart: what passes is gated, what fails is not served.
LEMMA GatedStep ==
    ASSUME GateInv, NEW r \in DagsterRuns, TestMart(r)
    PROVE  GateInv'
<1> DEFINE L == Items(dagster[r].steps)
           first == Head(dagster[r].steps)
           next == [Advanced(r) EXCEPT !.gated = TRUE]
<1>0. /\ IsRun(dagster[r]) /\ raw \in Seq(Batches) /\ (mart # Nothing => mart \in Seq(Batches))
      /\ dagster[r].end = "going" /\ first = "test_mart"
      /\ dagster[r].lone => LeftBehind(dagster[r], raw, mart, serving)
      /\ UNCHANGED <<raw, mart, serving, registry, loaded>>
  BY DEF GateInv, TablesHold, TestMart, At
<1>1. /\ IsRun(Advanced(r)) /\ Advanced(r).end \in {"going", "success"}
      /\ Advanced(r).batch = dagster[r].batch /\ Advanced(r).lone = dagster[r].lone
      /\ Items(Advanced(r).steps) = L \ {first}
      /\ first \in L
      /\ \A x \in L : x \in StepNames /\ Rank(first) <= Rank(x)
  BY <1>0, Advancing
<1>2. CASE ~MartTests(mart) /\ GateFails(r, "mart")
  BY <1>0, <1>2, FailedGate
<1>3. CASE MartTests(mart) /\ dagster' = [dagster EXCEPT ![r] = next] /\ UNCHANGED events
  <2>1. /\ next.steps = Advanced(r).steps /\ next.end = Advanced(r).end /\ next.gated = TRUE
        /\ next.batch = Advanced(r).batch /\ next.lone = Advanced(r).lone
        /\ DOMAIN next = DOMAIN Advanced(r)
    BY <1>1 DEF IsRun
  <2>0. dagster' = [dagster EXCEPT ![r] = next]
    BY <1>3
  <2> HIDE DEF next
  <2>2. IsRun(next)
    BY <1>1, <2>1 DEF IsRun
  <2>3. {"insert", "build_mart"} \cap L = {}
    BY <1>0, <1>1 DEF Rank
  <2>4. dagster[r].lone => LeftBehind(next, raw', mart', serving')
    BY <1>0, <1>1, <1>3, <2>1, <2>3 DEF LeftBehind, Counts
  <2>5. serving' # Nothing =>
           /\ serving'.by \in DagsterRuns
           /\ serving'.by # r => serving' = serving
           /\ serving'.by = r => Served(next, serving'.rows)
    BY <1>0, <1>1, <2>1, ServingStays
  <2>6. ~\E v \in events : v.run = r
    BY <1>0 DEF GateInv, GateReports
  <2>7. Goes(r, next)
    BY <1>0, <1>1, <1>3, <2>0, <2>1, <2>2, <2>4, <2>5, <2>6 DEF Goes
  <2> QED
    BY <2>7, RunGoes
<1> QED
  BY <1>2, <1>3 DEF TestMart

\* The swap of the serving table.
LEMMA PromoteStep ==
    ASSUME GateInv, NEW r \in DagsterRuns, Promote(r)
    PROVE  GateInv'
<1> DEFINE L == Items(dagster[r].steps)
           first == Head(dagster[r].steps)
           next == Advanced(r)
<1>0. /\ IsRun(dagster[r]) /\ raw \in Seq(Batches) /\ (mart # Nothing => mart \in Seq(Batches))
      /\ dagster[r].end = "going" /\ first = "promote"
      /\ dagster[r].lone => LeftBehind(dagster[r], raw, mart, serving)
      /\ UNCHANGED <<raw, mart, registry, loaded, events>>
      /\ ~\E v \in events : v.run = r
  BY DEF GateInv, TablesHold, GateReports, Promote, At
<1>1. /\ IsRun(next) /\ next.end \in {"going", "success"}
      /\ next.batch = dagster[r].batch /\ next.lone = dagster[r].lone
      /\ next.gated = dagster[r].gated
      /\ Items(next.steps) = L \ {first}
      /\ first \in L
      /\ \A x \in L : x \in StepNames /\ Rank(first) <= Rank(x)
  BY <1>0, Advancing
<1>2. CASE mart = Nothing /\ Ends(r, "failed") /\ UNCHANGED serving
  BY <1>0, <1>2, Ending
<1>3. CASE mart # Nothing /\ serving' = [rows |-> mart, by |-> r] /\ Advance(r)
  <2>0. dagster' = [dagster EXCEPT ![r] = next]
    BY <1>3 DEF Advance
  <2> HIDE DEF next
  <2>1. Items(next.steps) \subseteq Counts
    <3>1. \A x \in StepNames : x # "promote" /\ 6 <= Rank(x) => x \in Counts
      BY DEF StepNames, Rank, Counts
    <3>2. Rank("promote") = 6
      BY DEF Rank
    <3> QED
      BY <1>0, <1>1, <3>1, <3>2
  <2>2. serving'.by = r /\ serving'.rows = mart /\ mart \in Seq(Batches)
    BY <1>0, <1>3
  <2>3. dagster[r].lone => LeftBehind(next, raw', mart', serving')
    <3>1. "insert" \notin L
      BY <1>0, <1>1 DEF Rank
    <3>2. Items(next.steps) \cap Counts # {} => "count_serving" \in Items(next.steps)
      BY <1>0, <1>1, <2>1 DEF IsRun, Counts
    <3> QED
      BY <1>0, <1>1, <2>1, <2>2, <3>1, <3>2 DEF LeftBehind, Counts
  <2>4. Served(next, mart)
    BY <1>0, <1>1, <2>1 DEF Served, LeftBehind, Counts
  <2>5. Goes(r, next)
    BY <1>0, <1>1, <2>0, <2>2, <2>3, <2>4 DEF Goes
  <2> QED
    BY <2>5, RunGoes
<1> QED
  BY <1>2, <1>3 DEF Promote

\* The count of the serving table.
LEMMA CountServingStep ==
    ASSUME GateInv, NEW r \in DagsterRuns, CountServing(r)
    PROVE  GateInv'
<1> DEFINE L == Items(dagster[r].steps)
           first == Head(dagster[r].steps)
           next == [Advanced(r) EXCEPT !.rows = Len(serving.rows)]
<1>0. /\ IsRun(dagster[r]) /\ raw \in Seq(Batches) /\ (mart # Nothing => mart \in Seq(Batches))
      /\ dagster[r].end = "going" /\ first = "count_serving"
      /\ dagster[r].lone => LeftBehind(dagster[r], raw, mart, serving)
      /\ UNCHANGED <<raw, mart, serving, registry, loaded, events>>
      /\ ~\E v \in events : v.run = r
  BY DEF GateInv, TablesHold, GateReports, CountServing, At
<1>1. /\ IsRun(Advanced(r)) /\ Advanced(r).end \in {"going", "success"}
      /\ Advanced(r).batch = dagster[r].batch /\ Advanced(r).lone = dagster[r].lone
      /\ Advanced(r).gated = dagster[r].gated
      /\ Items(Advanced(r).steps) = L \ {first}
      /\ first \in L
      /\ \A x \in L : x \in StepNames /\ Rank(first) <= Rank(x)
  BY <1>0, Advancing
<1>2. /\ next.steps = Advanced(r).steps /\ next.end = Advanced(r).end
      /\ next.rows = Len(serving.rows)
      /\ next.batch = Advanced(r).batch /\ next.lone = Advanced(r).lone
      /\ next.gated = Advanced(r).gated /\ DOMAIN next = DOMAIN Advanced(r)
  BY <1>1 DEF IsRun
<1>3. dagster' = [dagster EXCEPT ![r] = next]
  BY DEF CountServing
<1> HIDE DEF next
<1>4. IsRun(next)
  BY <1>1, <1>2 DEF IsRun
<1>5. "promote" \notin L /\ "insert" \notin L /\ "build_mart" \notin L
  BY <1>0, <1>1 DEF Rank
<1>6. dagster[r].lone => LeftBehind(next, raw', mart', serving')
  BY <1>0, <1>1, <1>2, <1>5 DEF LeftBehind, Counts
<1>7. serving' # Nothing =>
         /\ serving'.by \in DagsterRuns
         /\ serving'.by # r => serving' = serving
         /\ serving'.by = r => Served(next, serving'.rows)
  BY <1>0, <1>1, <1>2, ServingStays
<1>8. Goes(r, next)
  BY <1>0, <1>1, <1>2, <1>3, <1>4, <1>6, <1>7 DEF Goes
<1> QED
  BY <1>8, RunGoes

\* The count of the mart, and the check.
LEMMA CountStep ==
    ASSUME GateInv, NEW r \in DagsterRuns, CountMart(r)
    PROVE  GateInv'
<1> DEFINE L == Items(dagster[r].steps)
           first == Head(dagster[r].steps)
           next == [Advanced(r) EXCEPT !.end = IF CheckPassed(r) THEN @ ELSE "check failed"]
<1>0. /\ IsRun(dagster[r]) /\ raw \in Seq(Batches) /\ (mart # Nothing => mart \in Seq(Batches))
      /\ dagster[r].end = "going" /\ first = "count_mart"
      /\ dagster[r].lone => LeftBehind(dagster[r], raw, mart, serving)
      /\ UNCHANGED <<raw, mart, serving, registry, loaded, events>>
      /\ ~\E v \in events : v.run = r
  BY DEF GateInv, TablesHold, GateReports, CountMart, At
<1>1. /\ IsRun(Advanced(r)) /\ Advanced(r).end \in {"going", "success"}
      /\ Advanced(r).batch = dagster[r].batch /\ Advanced(r).lone = dagster[r].lone
      /\ Advanced(r).gated = dagster[r].gated /\ Advanced(r).rows = dagster[r].rows
      /\ Items(Advanced(r).steps) = L \ {first}
      /\ first \in L
      /\ \A x \in L : x \in StepNames /\ Rank(first) <= Rank(x)
  BY <1>0, Advancing
<1>2. /\ next.steps = Advanced(r).steps
      /\ next.end = IF CheckPassed(r) THEN Advanced(r).end ELSE "check failed"
      /\ next.batch = Advanced(r).batch /\ next.lone = Advanced(r).lone /\ next.rows = Advanced(r).rows
      /\ next.gated = Advanced(r).gated /\ DOMAIN next = DOMAIN Advanced(r)
  BY <1>1 DEF IsRun
<1>3. dagster' = [dagster EXCEPT ![r] = next]
  BY DEF CountMart
<1> HIDE DEF next
<1>4. Items(next.steps) = {}
  <2>1. \A x \in StepNames : 8 <= Rank(x) => x = "count_mart"
    BY DEF StepNames, Rank
  <2>2. Rank("count_mart") = 8
    BY DEF Rank
  <2> QED
    BY <1>0, <1>1, <1>2, <2>1, <2>2
<1>5. next.steps = <<>>
  <2>1. next.steps \in Seq(StepNames)
    BY <1>1, <1>2 DEF IsRun, Ordered
  <2>2. DOMAIN next.steps = 1..Len(next.steps) /\ Len(next.steps) \in Nat
    BY <2>1, LenProperties
  <2>3. Len(next.steps) = 0
    <3>1. 1 \notin DOMAIN next.steps
      BY <1>4 DEF Items
    <3> QED
      BY <2>2, <3>1
  <2> QED
    BY <2>1, <2>3, EmptySeq
<1>6. IsRun(next) /\ next.end \in {"success", "check failed"}
  BY <1>1, <1>2, <1>5 DEF IsRun, RunEnds
<1>7. next.end = "check failed" /\ next.lone => next.rows = 0
  <2>1. dagster[r].lone => mart \in Seq(Batches) /\ dagster[r].rows = Len(mart)
    <3>1. {"promote", "count_serving"} \cap L = {}
      BY <1>0, <1>1 DEF Rank
    <3> QED
      BY <1>0, <1>1, <3>1 DEF LeftBehind, Counts
  <2>2. dagster[r].lone => Len(mart) \in Nat
    BY <2>1, LenProperties
  <2>3. dagster[r].lone /\ ~CheckPassed(r) => dagster[r].rows = 0
    BY <2>1, <2>2 DEF CheckPassed
  <2> QED
    BY <1>1, <1>2, <2>3
<1>8. serving' # Nothing =>
         /\ serving'.by \in DagsterRuns
         /\ serving'.by # r => serving' = serving
         /\ serving'.by = r => Served(next, serving'.rows)
  BY <1>0, <1>1, <1>2, <1>6, ServingStays
<1>9. Goes(r, next)
  BY <1>0, <1>1, <1>2, <1>3, <1>6, <1>7, <1>8 DEF Goes
<1> QED
  BY <1>9, RunGoes

\* A run starts: what was alone is alone no more.
LEMMA LaunchStep ==
    ASSUME GateInv, NEW r \in DagsterRuns, NEW selection \in Selections, NEW b \in Batches,
           NEW assets, Launch(r, selection, b, assets), b # Nothing => "raw" \in selection,
           UNCHANGED <<raw, mart, serving, registry, loaded, events>>
    PROVE  GateInv'
<1> DEFINE next == [NotStarted EXCEPT !.steps = Plan(selection), !.end = "going",
                                      !.batch = b, !.assets = assets, !.lone = Going = {}]
<1>1. /\ next.steps = Plan(selection) /\ next.end = "going" /\ next.batch = b
      /\ next.lone = (Going = {}) /\ next.gated = FALSE
      /\ DOMAIN next = {"steps", "end", "batch", "rows", "assets", "gated", "lone"}
  BY DEF NotStarted
<1>2. /\ dagster[r].end = "none" /\ DOMAIN dagster' = DagsterRuns /\ dagster'[r] = next
      /\ \A s \in DagsterRuns \ {r} :
            dagster'[s] = IF s \in Going THEN [dagster[s] EXCEPT !.lone = FALSE] ELSE dagster[s]
  <2>1. /\ dagster[r].end = "none"
        /\ dagster' = [s \in DagsterRuns |->
                         CASE s = r -> next
                           [] s \in Going -> [dagster[s] EXCEPT !.lone = FALSE]
                           [] OTHER -> dagster[s]]
    BY DEF Launch
  <2> HIDE DEF next
  <2>2. r \notin Going
    BY <2>1 DEF Going
  <2> QED
    BY <2>1, <2>2
<1> HIDE DEF next
<1>3. /\ IsRun(next)
      /\ LeftBehind(next, raw, mart, serving)
  BY <1>1, PlanHasItsSteps DEF IsRun, RunEnds, LeftBehind, Counts
<1>4. \A s \in DagsterRuns \ {r} :
         /\ IsRun(dagster[s]) /\ DOMAIN dagster'[s] = DOMAIN dagster[s]
         /\ dagster'[s].steps = dagster[s].steps /\ dagster'[s].end = dagster[s].end
         /\ dagster'[s].batch = dagster[s].batch /\ dagster'[s].gated = dagster[s].gated
         /\ dagster'[s].rows = dagster[s].rows
         /\ dagster[s].end = "going" => ~dagster'[s].lone
         /\ dagster[s].end # "going" => dagster'[s].lone = dagster[s].lone
  BY <1>2 DEF GateInv, IsRun, Going
<1>5. \A s \in DagsterRuns : IsRun(dagster'[s])
  <2>1. ASSUME NEW s \in DagsterRuns \ {r} PROVE IsRun(dagster'[s])
    BY <1>4, <2>1 DEF IsRun
  <2> QED
    BY <1>2, <1>3, <2>1
<1>6. ASSUME NEW s \in DagsterRuns, dagster'[s].end = "going", dagster'[s].lone
      PROVE  /\ s = r /\ LeftBehind(dagster'[s], raw, mart, serving)
             /\ Going = {}
  <2>1. s = r
    BY <1>4, <1>6
  <2> QED
    BY <1>1, <1>2, <1>3, <1>6, <2>1
<1>7. Alone'
  <2> SUFFICES ASSUME NEW s \in DagsterRuns, NEW t \in DagsterRuns,
                      dagster'[s].end = "going", dagster'[s].lone, dagster'[t].end = "going"
               PROVE  s = t
    BY DEF Alone
  <2>1. s = r /\ Going = {}
    BY <1>6
  <2>2. t # r => dagster[t].end = "going"
    BY <1>4
  <2> QED
    BY <2>1, <2>2 DEF Going
<1>8. TablesHold'
  <2>1. ASSUME serving # Nothing
        PROVE  serving.by \in DagsterRuns /\ Served(dagster'[serving.by], serving.rows)
    <3>1. serving.by \in DagsterRuns /\ Served(dagster[serving.by], serving.rows)
      BY <2>1 DEF GateInv, TablesHold
    <3>2. serving.by # r
      BY <1>2, <3>1 DEF Served
    <3> QED
      BY <1>4, <3>1, <3>2 DEF Served
  <2> QED
    BY <2>1 DEF GateInv, TablesHold
<1>9. GateReports'
  <2>1. ASSUME NEW s \in DagsterRuns
        PROVE  /\ dagster'[s].end = "check failed" /\ dagster'[s].lone => dagster'[s].rows = 0
               /\ dagster'[s].end = "blocked" <=> \E e \in events : e.run = s
    <3>1. CASE s = r
      BY <1>1, <1>2, <3>1 DEF GateInv, GateReports
    <3>2. CASE s # r
      <4>1. dagster'[s].end = dagster[s].end /\ dagster'[s].rows = dagster[s].rows
        BY <1>4, <3>2
      <4>2. dagster'[s].end = "check failed" /\ dagster'[s].lone => dagster[s].lone
        BY <1>4, <3>2, <4>1
      <4> QED
        BY <4>1, <4>2 DEF GateInv, GateReports
    <3> QED
      BY <3>1, <3>2
  <2> QED
    BY <2>1 DEF GateReports
<1>10. SchedulesHold'
  BY DEF GateInv, SchedulesHold, IsRegistry, IsSchedule
<1>11. \A s \in DagsterRuns : IsRun(dagster[s])'
  BY <1>5 DEF IsRun
<1>12. \A s \in DagsterRuns : (dagster[s].end = "going" /\ dagster[s].lone => LeftBehind(dagster[s], raw, mart, serving))'
  BY <1>6 DEF LeftBehind
<1> QED
  BY <1>2, <1>7, <1>8, <1>9, <1>10, <1>11, <1>12 DEF GateInv

\* A job whose op ends where it starts.
LEMMA OpStep ==
    ASSUME GateInv, NEW r \in DagsterRuns, NEW found \in BOOLEAN, OpEnds(r, found),
           UNCHANGED <<raw, mart, serving, registry, loaded, events>>
    PROVE  GateInv'
<1> DEFINE e == IF found THEN "success" ELSE "failed"
           next == [dagster[r] EXCEPT !.end = e, !.steps = <<>>]
<1>1. dagster[r].end = "none" /\ dagster' = [dagster EXCEPT ![r] = next] /\ IsRun(dagster[r])
  BY DEF OpEnds, Ends, GateInv
<1>2. /\ next.steps = <<>> /\ next.end \in {"success", "failed"} /\ next.lone = dagster[r].lone
      /\ next.batch = dagster[r].batch /\ next.gated = dagster[r].gated
      /\ DOMAIN next = DOMAIN dagster[r]
  BY <1>1 DEF IsRun
<1> HIDE DEF next, e
<1>3. Ordered(<<>>) /\ Items(<<>>) = {}
  BY DEF Ordered, Items
<1>4. IsRun(next)
  BY <1>1, <1>2, <1>3 DEF IsRun, RunEnds
<1>5. /\ DOMAIN dagster' = DagsterRuns /\ dagster'[r] = next
      /\ \A s \in DagsterRuns \ {r} : dagster'[s] = dagster[s]
  BY <1>1 DEF GateInv
<1>6. \A s \in DagsterRuns : IsRun(dagster'[s])
  BY <1>4, <1>5 DEF GateInv
<1>7. Alone'
  BY <1>2, <1>5 DEF GateInv, Alone
<1>8. TablesHold'
  <2>1. ASSUME serving # Nothing
        PROVE  serving.by \in DagsterRuns /\ Served(dagster'[serving.by], serving.rows)
    <3>1. serving.by \in DagsterRuns /\ Served(dagster[serving.by], serving.rows)
      BY <2>1 DEF GateInv, TablesHold
    <3>2. serving.by # r
      BY <1>1, <3>1 DEF Served
    <3> QED
      BY <1>5, <3>1, <3>2
  <2> QED
    BY <2>1 DEF GateInv, TablesHold
<1>9. GateReports'
  <2>1. ASSUME NEW s \in DagsterRuns
        PROVE  /\ dagster'[s].end = "check failed" /\ dagster'[s].lone => dagster'[s].rows = 0
               /\ dagster'[s].end = "blocked" <=> \E v \in events : v.run = s
    <3>1. CASE s = r
      <4>1. ~\E v \in events : v.run = r
        BY <1>1 DEF GateInv, GateReports
      <4>2. dagster'[r].end \notin {"blocked", "check failed"}
        BY <1>2, <1>5
      <4>3. ~\E v \in events : v.run = s
        BY <3>1, <4>1
      <4>4. dagster'[s].end # "blocked" /\ dagster'[s].end # "check failed"
        BY <3>1, <4>2
      <4> QED
        BY <4>3, <4>4
    <3>2. CASE s # r
      BY <1>5, <3>2 DEF GateInv, GateReports
    <3> QED
      BY <3>1, <3>2
  <2> QED
    BY <2>1 DEF GateReports
<1>10. SchedulesHold'
  BY DEF GateInv, SchedulesHold, IsRegistry, IsSchedule
<1>11. \A s \in DagsterRuns : IsRun(dagster[s])'
  BY <1>6 DEF IsRun
<1>12. \A s \in DagsterRuns : (dagster[s].end = "going" /\ dagster[s].lone => LeftBehind(dagster[s], raw, mart, serving))'
  <2>1. \A s \in DagsterRuns : dagster'[s].end = "going" => s # r
    BY <1>2, <1>5
  <2>2. \A s \in DagsterRuns : dagster'[s].end = "going" /\ dagster'[s].lone => LeftBehind(dagster'[s], raw, mart, serving)
    BY <1>5, <2>1 DEF GateInv
  <2> QED
    BY <2>2 DEF LeftBehind
<1> QED
  BY <1>5, <1>7, <1>8, <1>9, <1>10, <1>11, <1>12 DEF GateInv

\* A run that starts, by hand or by a schedule.
LEMMA StartSteps ==
    ASSUME GateInv, NEW r \in DagsterRuns, Materialize(r) \/ ScheduleFires(r)
    PROVE  GateInv'
<1>0. /\ UNCHANGED <<raw, mart, serving, registry, loaded, events>>
      /\ Nothing \in Batches /\ Seeds \subseteq Batches
  BY DEF Materialize, ScheduleFires, Batches
<1>1. CASE Materialize(r)
  <2>1. PICK selection \in Assets, b \in Seeds :
           Launch(r, selection, IF "raw" \in selection THEN b ELSE Nothing, TRUE)
    BY <1>1 DEF Materialize
  <2>2. selection \in Selections
    BY AssetsAreSelections
  <2>3. CASE "raw" \in selection
    <3>1. Launch(r, selection, b, TRUE) /\ b \in Batches
      BY <1>0, <2>1, <2>3
    <3> QED
      BY <1>0, <2>2, <2>3, <3>1, LaunchStep
  <2>4. CASE "raw" \notin selection
    <3>1. Launch(r, selection, Nothing, TRUE)
      BY <2>1, <2>4
    <3> QED
      BY <1>0, <2>2, <3>1, LaunchStep
  <2> QED
    BY <2>3, <2>4
<1>2. CASE ScheduleFires(r)
  <2>1. PICK s \in loaded :
           CASE s.kind = "pipeline" -> OpEnds(r, LoadTarget(s.target) # Nothing)
             [] s.kind = "catalog"  -> OpEnds(r, s.target \in registry.tenants)
             [] s.kind = "transform_job" ->
                  \/ LoadTarget(s.target) = Nothing /\ OpEnds(r, FALSE)
                  \/ LoadTarget(s.target) # Nothing /\ Build(r, LoadTarget(s.target))
    BY <1>2 DEF ScheduleFires
  <2>2. s.kind \in {"pipeline", "transform_job", "catalog"} /\ IsSchedule(s, registry.targets)
    BY DEF GateInv, SchedulesHold
  <2>3. CASE s.kind = "pipeline"
    <3>1. OpEnds(r, LoadTarget(s.target) # Nothing)
      BY <2>1, <2>3
    <3> QED
      BY <1>0, <3>1, OpStep
  <2>4. CASE s.kind = "catalog"
    <3> DEFINE found == s.target \in registry.tenants
    <3>1. OpEnds(r, found) /\ found \in BOOLEAN
      BY <2>1, <2>4
    <3> HIDE DEF found
    <3> QED
      BY <1>0, <3>1, OpStep
  <2>5. CASE s.kind = "transform_job"
    <3>1. \/ LoadTarget(s.target) = Nothing /\ OpEnds(r, FALSE)
          \/ LoadTarget(s.target) # Nothing /\ Build(r, LoadTarget(s.target))
      BY <2>1, <2>5
    <3>2. CASE OpEnds(r, FALSE)
      BY <1>0, <3>2, OpStep
    <3>3. CASE LoadTarget(s.target) # Nothing /\ Build(r, LoadTarget(s.target))
      <4> DEFINE built == IF LoadTarget(s.target).selection = "" THEN {"staging", "mart"}
                          ELSE {LoadTarget(s.target).selection}
      <4>1. LoadTarget(s.target).selection \in AssetNames \cup {""}
        BY <2>2, <2>5, <3>3 DEF LoadTarget, IsSchedule
      <4>2. built \in Selections
        BY <4>1 DEF Selections, AssetNames
      <4>3. Launch(r, built, Nothing, FALSE)
        BY <3>3 DEF Build
      <4> HIDE DEF built
      <4> QED
        BY <1>0, <4>2, <4>3, LaunchStep
    <3> QED
      BY <3>1, <3>2, <3>3
  <2> QED
    BY <2>2, <2>3, <2>4, <2>5
<1> QED
  BY <1>1, <1>2

\* The registry only loses what it has, and the location loads what is there.
LEMMA RegistrySteps ==
    ASSUME GateInv, LoadLocation \/ EditRegistry
    PROVE  GateInv'
<1>0. UNCHANGED <<raw, mart, serving, dagster, events>>
  BY DEF LoadLocation, EditRegistry
<1>1. SchedulesHold'
  <2>1. CASE LoadLocation
    <3>1. \A s \in BuildCatalogSchedules(registry.tenants) :
             IsSchedule(s, registry.targets) /\ s.kind = "catalog"
      <4> SUFFICES ASSUME NEW t \in registry.tenants
                   PROVE  LET s == [kind |-> "catalog", target |-> t, enabled |-> TRUE]
                          IN  IsSchedule(s, registry.targets) /\ s.kind = "catalog"
        BY DEF BuildCatalogSchedules
      <4> QED
        BY DEF IsSchedule
    <3>2. \A s \in BuildSchedules(registry.schedules) :
             IsSchedule(s, registry.targets) /\ s.kind \in {"pipeline", "transform_job"}
      BY DEF GateInv, SchedulesHold, IsRegistry, BuildSchedules
    <3>3. registry' = registry
      BY <2>1 DEF LoadLocation
    <3>4. \A s \in loaded' : IsSchedule(s, registry.targets)
                            /\ s.kind \in {"pipeline", "transform_job", "catalog"}
      BY <2>1, <3>1, <3>2 DEF LoadLocation
    <3> QED
      BY <3>3, <3>4 DEF GateInv, SchedulesHold
  <2>2. CASE EditRegistry
    <3>1. /\ IsRegistry(registry)
          /\ \A s \in loaded : IsSchedule(s, registry.targets)
                              /\ s.kind \in {"pipeline", "transform_job", "catalog"}
          /\ loaded' = loaded
      BY <2>2 DEF GateInv, SchedulesHold, EditRegistry
    <3>2. CASE \E s \in registry.schedules :
                  \/ registry' = [registry EXCEPT !.schedules = @ \ {s}]
                  \/ registry' = [registry EXCEPT !.schedules = (@ \ {s}) \cup {[s EXCEPT !.enabled = FALSE]}]
      <4>1. PICK s \in registry.schedules :
                  \/ registry' = [registry EXCEPT !.schedules = @ \ {s}]
                  \/ registry' = [registry EXCEPT !.schedules = (@ \ {s}) \cup {[s EXCEPT !.enabled = FALSE]}]
        BY <3>2
      <4>2. IsSchedule(s, registry.targets)
        BY <3>1 DEF IsRegistry
      <4>3. IsSchedule([s EXCEPT !.enabled = FALSE], registry.targets)
        BY <4>2 DEF IsSchedule
      <4>4. /\ DOMAIN registry' = DOMAIN registry /\ registry'.targets = registry.targets
            /\ registry'.schedules \subseteq registry.schedules \cup {[s EXCEPT !.enabled = FALSE]}
        BY <3>1, <4>1 DEF IsRegistry
      <4>5. IsRegistry(registry')
        BY <3>1, <4>3, <4>4 DEF IsRegistry
      <4> QED
        BY <3>1, <4>4, <4>5 DEF SchedulesHold, IsRegistry, IsSchedule
    <3>3. CASE \E t \in registry.tenants : registry' = [registry EXCEPT !.tenants = @ \ {t}]
      BY <3>1, <3>3 DEF SchedulesHold, IsRegistry
    <3>4. CASE \E t \in DOMAIN registry.targets :
                  registry' = [registry EXCEPT !.targets =
                                 [u \in DOMAIN registry.targets \ {t} |-> registry.targets[u]]]
      <4>1. /\ DOMAIN registry' = DOMAIN registry /\ registry'.schedules = registry.schedules
            /\ DOMAIN registry'.targets \subseteq DOMAIN registry.targets
            /\ \A u \in DOMAIN registry'.targets : registry'.targets[u] = registry.targets[u]
        BY <3>1, <3>4 DEF IsRegistry
      <4>2. \A s : IsSchedule(s, registry.targets) => IsSchedule(s, registry'.targets)
        BY <4>1 DEF IsSchedule
      <4> QED
        BY <3>1, <4>1, <4>2 DEF SchedulesHold, IsRegistry
    <3> QED
      BY <2>2, <3>2, <3>3, <3>4 DEF EditRegistry
  <2> QED
    BY <2>1, <2>2
<1>2. Alone' /\ TablesHold' /\ GateReports'
  BY <1>0 DEF GateInv, Alone, TablesHold, GateReports
<1>3. \A s \in DagsterRuns : IsRun(dagster[s])'
  BY <1>0 DEF GateInv, IsRun
<1>4. \A s \in DagsterRuns : (dagster[s].end = "going" /\ dagster[s].lone => LeftBehind(dagster[s], raw, mart, serving))'
  BY <1>0 DEF GateInv, LeftBehind
<1> QED
  BY <1>0, <1>1, <1>2, <1>3, <1>4 DEF GateInv

\* Every step of the code location keeps the invariant.
LEMMA GateStep ==
    ASSUME GateInv, LocationNext
    PROVE  GateInv'
<1>1. CASE LoadLocation \/ EditRegistry
  BY <1>1, RegistrySteps
<1>2. ASSUME NEW r \in DagsterRuns, RunStep(r) PROVE GateInv'
  BY <1>2, StartSteps, TableSteps, GatedStep, PromoteStep, CountServingStep, CountStep DEF RunStep
<1> QED
  BY <1>1, <1>2 DEF LocationNext

\* At first nothing has run; the registry is one of those given.
LEMMA GateStart ==
    ASSUME NEW registries, LocationInit(registries), \A R \in registries : IsRegistry(R)
    PROVE  GateInv
<1>1. /\ DOMAIN dagster = DagsterRuns /\ \A r \in DagsterRuns : dagster[r] = NotStarted
      /\ raw = <<>> /\ mart = Nothing /\ serving = Nothing /\ events = {} /\ loaded = {}
      /\ IsRegistry(registry)
  BY DEF LocationInit
<1>2. Ordered(<<>>) /\ Items(<<>>) = {}
  BY DEF Ordered, Items
<1>3. IsRun(NotStarted) /\ NotStarted.end = "none"
  BY <1>2 DEF IsRun, NotStarted, RunEnds, Batches
<1>4. Alone /\ GateReports
  BY <1>1, <1>3 DEF Alone, GateReports
<1>5. TablesHold /\ SchedulesHold
  BY <1>1 DEF TablesHold, SchedulesHold
<1> QED
  BY <1>1, <1>3, <1>4, <1>5 DEF GateInv

\* What is served by a run that ran alone is what its tests passed.
LEMMA GatePromise ==
    ASSUME GateInv
    PROVE  ServedWentThroughTheGate /\ LocationTypeOK
<1>1. \A rows : MartTests(rows) => StagingTests(rows)
  BY DEF MartTests, StagingTests
<1>2. ServedWentThroughTheGate
  BY <1>1 DEF GateInv, TablesHold, Served, GateReports, ServedWentThroughTheGate
<1>3. BatchesIn(raw) \subseteq Batches
  <2>1. \A i \in DOMAIN raw : raw[i] \in Batches
    BY ElementOfSeq, LenProperties DEF GateInv, TablesHold
  <2> QED
    BY <2>1 DEF BatchesIn
<1>4. LocationTypeOK
  BY <1>3 DEF GateInv, IsRun, RunEnds, SchedulesHold, IsSchedule, Batches, LocationTypeOK
<1> QED
  BY <1>2, <1>4

----------------------------------------------------------------------------
(* The lineage.  *)

\* The edges of a pipeline, and of a cube.
Hops(p) == {Edge(SourceRef(p), IcebergRef(p)), Edge(IcebergRef(p), ClickhouseRef(p.target))}
CubeHop(m) == Edge(ClickhouseRef(m.base_table), CubeRef(m))

\* An edge is what the two ends say.
IsEdge(e) == e = Edge(e.from, e.to)

\* What a run has posted, or has yet to post.
Covers(run) == lineage \cup Items(run.edges)

\* A run that has read the pipelines covers the hops of each it does not miss, and
\* one that has read the models the hop of each cube.
IsCatalogRun(run) ==
    /\ DOMAIN run = {"stage", "edges", "missed"}
    /\ \E S : run.edges \in Seq(S)
    /\ \A e \in Items(run.edges) : IsEdge(e)
    /\ run.stage = "emitting" <=> run.edges # <<>> /\ run.stage # "pipelines read"
    /\ run.stage \in {"pipelines read", "emitting", "done"} =>
          \A p \in pipelines \ run.missed : Hops(p) \subseteq Covers(run)
    /\ run.stage \in {"emitting", "done"} =>
          \A m \in models \ run.missed : m.enabled => CubeHop(m) \in Covers(run)

\* The inductive invariant of the catalog.
LineageInv ==
    /\ scope \in BOOLEAN
    /\ pipelines \subseteq PipelineRows /\ models \subseteq ModelRows
    /\ lineage \subseteq [from : entities, to : entities]
    /\ DOMAIN catalogRun = CatalogRuns
    /\ \A c \in CatalogRuns : IsCatalogRun(catalogRun[c])

\* Nothing is in an empty sequence.
LEMMA NoItems == Items(<<>>) = {}
  BY DEF Items

\* The rows of a query, in whatever order, are the rows.
LEMMA RowsInAnyOrder ==
    ASSUME NEW S, IsFiniteSet(S), NEW rows \in InAnyOrder(S)
    PROVE  rows \in Seq(S) /\ Items(rows) = S /\ Len(rows) \in Nat /\ DOMAIN rows = 1..Len(rows)
<1>1. Cardinality(S) \in Nat
  BY FS_CardinalityType
<1>2. rows \in [1..Cardinality(S) -> S] /\ \A row \in S : \E i \in DOMAIN rows : rows[i] = row
  BY DEF InAnyOrder
<1>3. rows \in Seq(S)
  BY <1>1, <1>2
<1> QED
  BY <1>2, <1>3, LenProperties DEF Items

\* The edges built from the pipelines' rows have the hops of each.
LEMMA PipelineEdges ==
    ASSUME NEW S, NEW rows \in Seq(S)
    PROVE  /\ \E T : BuildPipelineEdges(rows) \in Seq(T)
           /\ \A e \in Items(BuildPipelineEdges(rows)) : IsEdge(e)
           /\ \A i \in DOMAIN rows : Hops(rows[i]) \subseteq Items(BuildPipelineEdges(rows))
<1> DEFINE edges == BuildPipelineEdges(rows)
<1>1. Len(rows) \in Nat /\ DOMAIN rows = 1..Len(rows) /\ 2 * Len(rows) \in Nat
  BY LenProperties
<1>2. /\ DOMAIN edges = 1..(2 * Len(rows))
      /\ \A k \in 1..(2 * Len(rows)) :
            edges[k] = LET p == rows[(k + 1) \div 2]
                       IN  IF k % 2 = 1 THEN Edge(SourceRef(p), IcebergRef(p))
                           ELSE Edge(IcebergRef(p), ClickhouseRef(p.target))
  BY DEF BuildPipelineEdges
<1>3. edges \in Seq({edges[k] : k \in 1..(2 * Len(rows))})
  <2>1. edges \in [1..(2 * Len(rows)) -> {edges[k] : k \in 1..(2 * Len(rows))}]
    BY DEF BuildPipelineEdges
  <2> HIDE DEF edges
  <2> QED
    BY <1>1, <2>1
<1> HIDE DEF edges
<1>4. ASSUME NEW i \in DOMAIN rows
      PROVE  Hops(rows[i]) \subseteq Items(edges)
  <2>1. /\ i \in 1..Len(rows) /\ i \in Nat
        /\ 2 * i \in 1..(2 * Len(rows)) /\ 2 * i - 1 \in 1..(2 * Len(rows))
    BY <1>1, <1>4
  <2>2. edges[2 * i] = Edge(IcebergRef(rows[i]), ClickhouseRef(rows[i].target))
    <3>1. (2 * i + 1) \div 2 = i
      BY <2>1
    <3>2. (2 * i) % 2 = 0
      BY <2>1
    <3>3. edges[2 * i] = LET p == rows[(2 * i + 1) \div 2]
                         IN  IF (2 * i) % 2 = 1 THEN Edge(SourceRef(p), IcebergRef(p))
                             ELSE Edge(IcebergRef(p), ClickhouseRef(p.target))
      BY <1>2, <2>1
    <3> QED
      BY <3>1, <3>2, <3>3
  <2>3. edges[2 * i - 1] = Edge(SourceRef(rows[i]), IcebergRef(rows[i]))
    <3>1. (2 * i - 1 + 1) \div 2 = i
      <4>1. 2 * i - 1 + 1 = 2 * i /\ (2 * i) \div 2 = i
        BY <2>1
      <4> QED
        BY <4>1
    <3>2. (2 * i - 1) % 2 = 1
      BY <2>1
    <3> QED
      BY <1>2, <2>1, <3>1, <3>2
  <2> QED
    BY <1>2, <2>1, <2>2, <2>3 DEF Hops, Items
<1>5. \A x, y : IsEdge(Edge(x, y))
  BY DEF Edge, IsEdge
<1>6. \A e \in Items(edges) : IsEdge(e)
  BY <1>2, <1>5 DEF Items
<1> QED
  BY <1>3, <1>4, <1>6 DEF edges

\* The edges built from the models' rows have the hop of each cube.
LEMMA SemanticEdges ==
    ASSUME NEW S, NEW rows \in Seq(S)
    PROVE  /\ \E T : BuildSemanticEdges(rows) \in Seq(T)
           /\ \A e \in Items(BuildSemanticEdges(rows)) : IsEdge(e)
           /\ \A i \in DOMAIN rows : CubeHop(rows[i]) \in Items(BuildSemanticEdges(rows))
<1> DEFINE edges == BuildSemanticEdges(rows)
<1>1. Len(rows) \in Nat /\ DOMAIN rows = 1..Len(rows)
  BY LenProperties
<1>2. /\ DOMAIN edges = 1..Len(rows)
      /\ \A k \in 1..Len(rows) : edges[k] = CubeHop(rows[k])
  BY <1>1 DEF BuildSemanticEdges, CubeHop
<1>3. edges \in Seq({edges[k] : k \in 1..Len(rows)})
  <2>1. edges \in [1..Len(rows) -> {edges[k] : k \in 1..Len(rows)}]
    BY <1>1 DEF BuildSemanticEdges
  <2> HIDE DEF edges
  <2> QED
    BY <1>1, <2>1
<1> HIDE DEF edges
<1>4. \A i \in DOMAIN rows : CubeHop(rows[i]) \in Items(edges)
  BY <1>1, <1>2 DEF Items
<1>5. \A x, y : IsEdge(Edge(x, y))
  BY DEF Edge, IsEdge
<1>6. \A e \in Items(edges) : IsEdge(e)
  BY <1>2, <1>5 DEF Items, CubeHop
<1> QED
  BY <1>3, <1>4, <1>6 DEF edges

\* The steps that only start, end or move a run on: it has no edges then.
LEMMA GoesOn ==
    ASSUME LineageInv, NEW c \in CatalogRuns, NEW from, NEW to, GoOn(c, from, to),
           to \notin {"pipelines read", "emitting", "done"},
           lineage' = lineage, entities \subseteq entities'
    PROVE  LineageInv'
<1> DEFINE next == [NoCatalogRun EXCEPT !.stage = to]
<1>1. /\ next.stage = to /\ next.edges = <<>> /\ DOMAIN next = {"stage", "edges", "missed"}
      /\ catalogRun' = [catalogRun EXCEPT ![c] = next] /\ UNCHANGED <<scope, pipelines, models>>
  BY DEF NoCatalogRun, GoOn
<1> HIDE DEF next
<1>2. \E S : next.edges \in Seq(S)
  <2>1. <<>> \in Seq({})
    BY EmptySeq
  <2> QED
    BY <1>1, <2>1
<1>3. ASSUME NEW d \in CatalogRuns PROVE IsCatalogRun(catalogRun[d])'
  <2>1. CASE d = c
    <3>1. catalogRun'[d] = next
      BY <1>1, <2>1 DEF LineageInv
    <3>2. Items(next.edges) = {}
      BY <1>1, NoItems
    <3> QED
      BY <1>1, <1>2, <3>1, <3>2 DEF IsCatalogRun
  <2>2. CASE d # c
    <3>1. catalogRun'[d] = catalogRun[d] /\ IsCatalogRun(catalogRun[d])
      BY <1>1, <2>2 DEF LineageInv
    <3> QED
      BY <1>1, <3>1 DEF IsCatalogRun, Covers
  <2> QED
    BY <2>1, <2>2
<1> QED
  BY <1>1, <1>3 DEF LineageInv

\* A row that changes is one that the runs which have read the rows miss.
LEMMA EditSteps ==
    ASSUME LineageInv, EditPipelines \/ EditModels \/ PipelineLands \/ TenantGoes
    PROVE  LineageInv'
<1>1. CASE EditPipelines
  <2>1. PICK p \in PipelineRows :
          /\ pipelines' \in {pipelines \cup {p}, pipelines \ {p}}
          /\ Missed(p, {"pipelines read", "emitting", "done"})
          /\ UNCHANGED <<scope, models, entities, lineage>>
    BY <1>1 DEF EditPipelines
  <2>2. ASSUME NEW d \in CatalogRuns PROVE IsCatalogRun(catalogRun[d])'
    <3>0. IsCatalogRun(catalogRun[d])
      BY DEF LineageInv
    <3>1. /\ catalogRun'[d].stage = catalogRun[d].stage /\ catalogRun'[d].edges = catalogRun[d].edges
          /\ DOMAIN catalogRun'[d] = DOMAIN catalogRun[d]
          /\ catalogRun[d].missed \subseteq catalogRun'[d].missed
          /\ catalogRun[d].stage \in {"pipelines read", "emitting", "done"} => p \in catalogRun'[d].missed
      BY <2>1, <3>0 DEF Missed, IsCatalogRun
    <3>2. catalogRun[d].stage \in {"pipelines read", "emitting", "done"} =>
             pipelines' \ catalogRun'[d].missed \subseteq pipelines \ catalogRun[d].missed
      BY <2>1, <3>1
    <3> QED
      BY <2>1, <3>0, <3>1, <3>2 DEF IsCatalogRun, Covers
  <2> QED
    BY <2>1, <2>2 DEF LineageInv, Missed
<1>2. CASE EditModels
  <2>1. PICK m \in ModelRows :
          /\ models' \in {models \cup {m}, models \ {m}}
          /\ Missed(m, {"emitting", "done"})
          /\ UNCHANGED <<scope, pipelines, entities, lineage>>
    BY <1>2 DEF EditModels
  <2>2. ASSUME NEW d \in CatalogRuns PROVE IsCatalogRun(catalogRun[d])'
    <3>0. IsCatalogRun(catalogRun[d])
      BY DEF LineageInv
    <3>1. /\ catalogRun'[d].stage = catalogRun[d].stage /\ catalogRun'[d].edges = catalogRun[d].edges
          /\ DOMAIN catalogRun'[d] = DOMAIN catalogRun[d]
          /\ catalogRun[d].missed \subseteq catalogRun'[d].missed
          /\ catalogRun[d].stage \in {"emitting", "done"} => m \in catalogRun'[d].missed
      BY <2>1, <3>0 DEF Missed, IsCatalogRun
    <3>2. catalogRun[d].stage \in {"emitting", "done"} =>
             models' \ catalogRun'[d].missed \subseteq models \ catalogRun[d].missed
      BY <2>1, <3>1
    <3> QED
      BY <2>1, <3>0, <3>1, <3>2 DEF IsCatalogRun, Covers
  <2> QED
    BY <2>1, <2>2 DEF LineageInv, Missed
<1>3. CASE PipelineLands \/ TenantGoes
  <2>1. /\ UNCHANGED <<catalogRun, entities, lineage>> /\ scope' \in BOOLEAN
        /\ pipelines' \subseteq pipelines /\ models' \subseteq models
    BY <1>3 DEF PipelineLands, TenantGoes, LineageInv
  <2>2. ASSUME NEW d \in CatalogRuns PROVE IsCatalogRun(catalogRun[d])'
    <3>1. IsCatalogRun(catalogRun[d])
      BY DEF LineageInv
    <3> QED
      BY <2>1, <3>1 DEF IsCatalogRun, Covers
  <2> QED
    BY <2>1, <2>2 DEF LineageInv
<1> QED
  BY <1>1, <1>2, <1>3

\* A run that reads the pipelines misses none of those there are.
LEMMA ReadingPipelines ==
    ASSUME LineageInv, NEW c \in CatalogRuns, ReadPipelines(c)
    PROVE  LineageInv'
<1>1. PICK rows \in InAnyOrder(pipelines) :
         catalogRun' = [catalogRun EXCEPT ![c].stage = "pipelines read",
                                          ![c].edges = BuildPipelineEdges(rows)]
  BY DEF ReadPipelines
<1>2. UNCHANGED <<scope, pipelines, models, entities, lineage>>
  BY DEF ReadPipelines
<1>3. IsFiniteSet(pipelines)
  BY RowsAreFinite, FS_Subset DEF LineageInv
<1>4. rows \in Seq(pipelines) /\ Items(rows) = pipelines
  BY <1>3, RowsInAnyOrder
<1>5. ASSUME NEW p \in pipelines PROVE Hops(p) \subseteq Items(BuildPipelineEdges(rows))
  <2>1. PICK i \in DOMAIN rows : rows[i] = p
    BY <1>4 DEF Items
  <2> QED
    BY <1>4, <2>1, PipelineEdges
<1>6. \E T : BuildPipelineEdges(rows) \in Seq(T)
  BY <1>4, PipelineEdges
<1>7. /\ catalogRun'[c].stage = "pipelines read" /\ catalogRun'[c].edges = BuildPipelineEdges(rows)
      /\ DOMAIN catalogRun'[c] = {"stage", "edges", "missed"}
      /\ DOMAIN catalogRun' = CatalogRuns
      /\ \A d \in CatalogRuns \ {c} : catalogRun'[d] = catalogRun[d]
  BY <1>1 DEF LineageInv, IsCatalogRun
<1>8. ASSUME NEW d \in CatalogRuns PROVE IsCatalogRun(catalogRun[d])'
  <2>1. CASE d = c
    <3>1. \A p \in pipelines : Hops(p) \subseteq (lineage' \cup Items(catalogRun'[c].edges))
      BY <1>5, <1>7
    <3> QED
      BY <1>2, <1>4, <1>6, <1>7, <2>1, <3>1, PipelineEdges DEF IsCatalogRun, Covers
  <2>2. CASE d # c
    <3>1. catalogRun'[d] = catalogRun[d] /\ IsCatalogRun(catalogRun[d])
      BY <1>7, <2>2 DEF LineageInv
    <3> QED
      BY <1>2, <3>1 DEF IsCatalogRun, Covers
  <2> QED
    BY <2>1, <2>2
<1> QED
  BY <1>2, <1>7, <1>8 DEF LineageInv

\* A sequence after another holds what either holds.
LEMMA ConcatKeepsBoth ==
    ASSUME NEW S, NEW s \in Seq(S), NEW T, NEW t \in Seq(T)
    PROVE  /\ s \o t \in Seq(S \cup T)
           /\ Items(s \o t) = Items(s) \cup Items(t)
<1>1. s \in Seq(S \cup T) /\ t \in Seq(S \cup T)
  OBVIOUS
<1>2. /\ Len(s) \in Nat /\ Len(t) \in Nat /\ DOMAIN s = 1..Len(s) /\ DOMAIN t = 1..Len(t)
  BY LenProperties
<1> DEFINE u == s \o t
<1>3. /\ u \in Seq(S \cup T) /\ DOMAIN u = 1..(Len(s) + Len(t))
      /\ \A i \in 1..(Len(s) + Len(t)) : u[i] = IF i <= Len(s) THEN s[i] ELSE t[i - Len(s)]
  BY <1>1, <1>2, ConcatProperties, LenProperties
<1> HIDE DEF u
<1>4. Items(s) \subseteq Items(u)
  BY <1>2, <1>3 DEF Items
<1>5. Items(t) \subseteq Items(u)
  <2> SUFFICES ASSUME NEW k \in DOMAIN t PROVE t[k] \in Items(u)
    BY DEF Items
  <2>1. k + Len(s) \in DOMAIN u /\ u[k + Len(s)] = t[k]
    BY <1>2, <1>3
  <2> QED
    BY <2>1 DEF Items
<1>6. Items(u) \subseteq Items(s) \cup Items(t)
  <2> SUFFICES ASSUME NEW i \in 1..(Len(s) + Len(t)) PROVE u[i] \in Items(s) \cup Items(t)
    BY <1>3 DEF Items
  <2>1. CASE i <= Len(s)
    BY <1>2, <1>3, <2>1 DEF Items
  <2>2. CASE i > Len(s)
    <3>1. i - Len(s) \in DOMAIN t
      BY <1>2, <2>2
    <3> QED
      BY <1>2, <1>3, <2>2, <3>1 DEF Items
  <2> QED
    BY <1>2, <2>1, <2>2
<1> QED
  BY <1>3, <1>4, <1>5, <1>6 DEF u

\* A run that reads the models misses none of those there are, and has all edges.
LEMMA ReadingModels ==
    ASSUME LineageInv, NEW c \in CatalogRuns, ReadModels(c)
    PROVE  LineageInv'
<1> DEFINE enabled == {m \in models : m.enabled}
           run == catalogRun[c]
<1>1. PICK rows \in InAnyOrder(enabled) :
         LET edges == catalogRun[c].edges \o BuildSemanticEdges(rows)
         IN  catalogRun' = [catalogRun EXCEPT ![c].edges = edges,
                                              ![c].stage = IF edges = <<>> THEN "done" ELSE "emitting"]
  BY DEF ReadModels
<1> DEFINE edges == run.edges \o BuildSemanticEdges(rows)
<1>2. UNCHANGED <<scope, pipelines, models, entities, lineage>> /\ run.stage = "pipelines read"
  BY DEF ReadModels
<1>11. \A e \in Items(run.edges) \cup Items(BuildSemanticEdges(rows)) : IsEdge(e)
  <2>1. IsFiniteSet(enabled)
    <3>1. enabled \subseteq ModelRows
      BY DEF LineageInv
    <3> QED
      BY <3>1, RowsAreFinite, FS_Subset
  <2>2. rows \in Seq(enabled)
    BY <2>1, RowsInAnyOrder
  <2> QED
    BY <2>2, SemanticEdges DEF LineageInv, IsCatalogRun
<1>3. IsFiniteSet(enabled)
  <2>1. enabled \subseteq ModelRows
    BY DEF LineageInv
  <2> QED
    BY <2>1, RowsAreFinite, FS_Subset
<1>4. rows \in Seq(enabled) /\ Items(rows) = enabled
  BY <1>3, RowsInAnyOrder
<1>5. PICK S, T : run.edges \in Seq(S) /\ BuildSemanticEdges(rows) \in Seq(T)
  BY <1>4, SemanticEdges DEF LineageInv, IsCatalogRun
<1>6. /\ edges \in Seq(S \cup T)
      /\ Items(edges) = Items(run.edges) \cup Items(BuildSemanticEdges(rows))
  <2> DEFINE s == run.edges
             t == BuildSemanticEdges(rows)
  <2>1. s \in Seq(S) /\ t \in Seq(T)
    BY <1>5
  <2>2. edges = s \o t
    OBVIOUS
  <2> HIDE DEF s, t, edges
  <2>3. edges \in Seq(S \cup T) /\ Items(edges) = Items(s) \cup Items(t)
    BY <2>1, <2>2, ConcatKeepsBoth
  <2> QED
    BY <2>3 DEF s, t
<1>7. ASSUME NEW m \in models, m.enabled PROVE CubeHop(m) \in Items(edges)
  <2>1. PICK i \in DOMAIN rows : rows[i] = m
    BY <1>4, <1>7 DEF Items
  <2>2. CubeHop(m) \in Items(BuildSemanticEdges(rows))
    BY <1>4, <2>1, SemanticEdges
  <2> QED
    BY <1>6, <2>2
<1>8. /\ catalogRun'[c].edges = edges /\ catalogRun'[c].missed = run.missed
      /\ catalogRun'[c].stage = IF edges = <<>> THEN "done" ELSE "emitting"
      /\ DOMAIN catalogRun'[c] = {"stage", "edges", "missed"}
      /\ DOMAIN catalogRun' = CatalogRuns
      /\ \A d \in CatalogRuns \ {c} : catalogRun'[d] = catalogRun[d]
  BY <1>1 DEF LineageInv, IsCatalogRun
<1> HIDE DEF edges
<1>9. \A p \in pipelines \ run.missed : Hops(p) \subseteq lineage \cup Items(edges)
  BY <1>2, <1>6 DEF LineageInv, IsCatalogRun, Covers
<1>10. ASSUME NEW d \in CatalogRuns PROVE IsCatalogRun(catalogRun[d])'
  <2>1. CASE d = c
    <3>1. \E U : edges \in Seq(U)
      BY <1>6
    <3> QED
      BY <1>2, <1>6, <1>7, <1>8, <1>9, <1>11, <2>1, <3>1 DEF IsCatalogRun, Covers
  <2>2. CASE d # c
    <3>1. catalogRun'[d] = catalogRun[d] /\ IsCatalogRun(catalogRun[d])
      BY <1>8, <2>2 DEF LineageInv
    <3> QED
      BY <1>2, <3>1 DEF IsCatalogRun, Covers
  <2> QED
    BY <2>1, <2>2
<1> QED
  BY <1>2, <1>8, <1>10 DEF LineageInv

\* What is posted is no longer to be posted; what other runs need stays posted.
LEMMA Emitting ==
    ASSUME LineageInv, NEW c \in CatalogRuns, EmitEdge(c)
    PROVE  LineageInv'
<1> DEFINE run == catalogRun[c]
           e == Head(run.edges)
<1>1. /\ run.stage = "emitting" /\ run.edges # <<>> /\ IsCatalogRun(run)
      /\ UNCHANGED <<scope, pipelines, models>>
      /\ entities' = entities \cup {e.from, e.to} /\ lineage' = lineage \cup {e}
  BY DEF EmitEdge, LineageInv, IsCatalogRun
<1>2. PICK S : run.edges \in Seq(S)
  BY <1>1 DEF IsCatalogRun
<1>3. /\ Tail(run.edges) \in Seq(S) /\ Items(run.edges) \subseteq Items(Tail(run.edges)) \cup {e}
      /\ Len(run.edges) = 1 <=> Tail(run.edges) = <<>>
  <2>1. Len(run.edges) \in Nat /\ Len(run.edges) > 0 /\ DOMAIN run.edges = 1..Len(run.edges)
    BY <1>1, <1>2, LenProperties, EmptySeq
  <2>2. e = run.edges[1]
    BY <1>1, <1>2, HeadTailProperties
  <2>3. /\ Tail(run.edges) \in Seq(S) /\ Len(Tail(run.edges)) = Len(run.edges) - 1
        /\ DOMAIN Tail(run.edges) = 1..(Len(run.edges) - 1)
        /\ \A i \in 1..(Len(run.edges) - 1) : Tail(run.edges)[i] = run.edges[i + 1]
    BY <1>1, <1>2, HeadTailProperties, LenProperties
  <2>4. ASSUME NEW i \in DOMAIN run.edges, i # 1
        PROVE  run.edges[i] \in Items(Tail(run.edges))
    <3>1. i - 1 \in 1..(Len(run.edges) - 1) /\ run.edges[i] = Tail(run.edges)[i - 1]
      BY <2>1, <2>3, <2>4
    <3> QED
      BY <2>3, <3>1 DEF Items
  <2>5. Len(Tail(run.edges)) = 0 <=> Tail(run.edges) = <<>>
    BY <2>3, EmptySeq
  <2>6. Items(run.edges) \subseteq Items(Tail(run.edges)) \cup {e}
    BY <2>2, <2>4 DEF Items
  <2> QED
    BY <2>1, <2>3, <2>5, <2>6
<1>4. lineage' \subseteq [from : entities', to : entities']
  <2>1. e \in Items(run.edges)
    <3>1. 1 \in DOMAIN run.edges /\ e = run.edges[1]
      BY <1>1, <1>2, HeadTailProperties, LenProperties, EmptySeq
    <3> QED
      BY <3>1 DEF Items
  <2>2. e = [from |-> e.from, to |-> e.to]
    BY <1>1, <2>1 DEF IsCatalogRun, IsEdge, Edge
  <2>3. e \in [from : entities', to : entities']
    <3>1. e.from \in entities' /\ e.to \in entities'
      BY <1>1
    <3> HIDE DEF e
    <3> QED
      BY <2>2, <3>1
  <2>4. lineage \subseteq [from : entities', to : entities']
    BY <1>1 DEF LineageInv
  <2> QED
    BY <1>1, <2>3, <2>4
<1>5. Items(Tail(run.edges)) \subseteq Items(run.edges)
  <2>1. Len(run.edges) \in Nat /\ Len(run.edges) > 0 /\ DOMAIN run.edges = 1..Len(run.edges)
    BY <1>1, <1>2, LenProperties, EmptySeq
  <2>2. /\ DOMAIN Tail(run.edges) = 1..(Len(run.edges) - 1)
        /\ \A i \in 1..(Len(run.edges) - 1) : Tail(run.edges)[i] = run.edges[i + 1]
    BY <1>1, <1>2, HeadTailProperties, LenProperties
  <2>3. \A i \in 1..(Len(run.edges) - 1) : i + 1 \in DOMAIN run.edges
    BY <2>1
  <2> QED
    BY <2>2, <2>3 DEF Items
<1>6. /\ catalogRun'[c].edges = Tail(run.edges) /\ catalogRun'[c].missed = run.missed
      /\ catalogRun'[c].stage = IF Tail(run.edges) = <<>> THEN "done" ELSE "emitting"
      /\ DOMAIN catalogRun'[c] = {"stage", "edges", "missed"}
      /\ DOMAIN catalogRun' = CatalogRuns
      /\ \A d \in CatalogRuns \ {c} : catalogRun'[d] = catalogRun[d]
  BY <1>1, <1>3 DEF EmitEdge, LineageInv, IsCatalogRun
<1>7. Covers(run) \subseteq lineage' \cup Items(Tail(run.edges))
  BY <1>1, <1>3 DEF Covers
<1>8. ASSUME NEW d \in CatalogRuns PROVE IsCatalogRun(catalogRun[d])'
  <2>1. CASE d = c
    <3>1. \E U : Tail(run.edges) \in Seq(U)
      BY <1>3
    <3>2. \A v \in Items(Tail(run.edges)) : IsEdge(v)
      BY <1>1, <1>5 DEF IsCatalogRun
    <3>3. /\ \A p \in pipelines \ run.missed : Hops(p) \subseteq lineage' \cup Items(Tail(run.edges))
          /\ \A m \in models \ run.missed : m.enabled => CubeHop(m) \in lineage' \cup Items(Tail(run.edges))
      <4> HIDE DEF e
      <4> QED
        BY <1>1, <1>7 DEF IsCatalogRun
    <3> HIDE DEF e
    <3> QED
      BY <1>1, <1>6, <2>1, <3>1, <3>2, <3>3 DEF IsCatalogRun, Covers
  <2>2. CASE d # c
    <3>1. catalogRun'[d] = catalogRun[d] /\ IsCatalogRun(catalogRun[d])
      BY <1>6, <2>2 DEF LineageInv
    <3>2. lineage \subseteq lineage'
      BY <1>1
    <3> HIDE DEF e
    <3> QED
      BY <1>1, <3>1, <3>2 DEF IsCatalogRun, Covers
  <2> QED
    BY <2>1, <2>2
<1> HIDE DEF e
<1> QED
  BY <1>1, <1>4, <1>6, <1>8 DEF LineageInv

\* Every step of the catalog keeps the invariant.
LEMMA LineageStep ==
    ASSUME LineageInv, CatalogNext
    PROVE  LineageInv'
<1>1. CASE EditPipelines \/ EditModels \/ PipelineLands \/ TenantGoes
  BY <1>1, EditSteps
<1>2. ASSUME NEW c \in CatalogRuns, CatalogStep(c) PROVE LineageInv'
  <2>1. CASE AssetStarts(c)
    BY <2>1, GoesOn DEF AssetStarts
  <2>2. CASE JobStarts(c)
    <3>1. CASE scope
      BY <2>2, <3>1, GoesOn DEF JobStarts
    <3>2. CASE ~scope
      BY <2>2, <3>2, GoesOn DEF JobStarts
    <3> QED
      BY <3>1, <3>2
  <2>3. CASE StageFails(c)
    <3> DEFINE from == catalogRun[c].stage
    <3>1. GoOn(c, from, "failed") /\ lineage' = lineage /\ entities \subseteq entities'
      BY <2>3 DEF StageFails
    <3> HIDE DEF from
    <3> QED
      BY <3>1, GoesOn
  <2>4. CASE ClickhouseMetadata(c)
    BY <2>4, GoesOn DEF ClickhouseMetadata
  <2>5. CASE IcebergMetadata(c)
    BY <2>5, GoesOn DEF IcebergMetadata
  <2>6. CASE DbtMetadata(c)
    BY <2>6, GoesOn DEF DbtMetadata
  <2> QED
    BY <1>2, <2>1, <2>2, <2>3, <2>4, <2>5, <2>6, ReadingPipelines, ReadingModels, Emitting
       DEF CatalogStep
<1> QED
  BY <1>1, <1>2 DEF CatalogNext

\* At first no run has read anything.
LEMMA LineageStart == ASSUME CatalogInit PROVE LineageInv
<1>1. /\ scope = TRUE /\ pipelines = {} /\ models = {} /\ lineage = {}
      /\ DOMAIN catalogRun = CatalogRuns /\ \A c \in CatalogRuns : catalogRun[c] = NoCatalogRun
  BY DEF CatalogInit
<1>2. IsCatalogRun(NoCatalogRun)
  <2>1. Items(<<>>) = {}
    BY NoItems
  <2>2. <<>> \in Seq({})
    BY EmptySeq
  <2>3. \E S : NoCatalogRun.edges \in Seq(S)
    BY <2>2 DEF NoCatalogRun
  <2> QED
    BY <2>1, <2>3 DEF IsCatalogRun, NoCatalogRun
<1> QED
  BY <1>1, <1>2 DEF LineageInv

\* Posted edges are steps of a path.
LEMMA HopReaches ==
    ASSUME NEW x, NEW y, Edge(x, y) \in lineage, NEW S,
           x \in S, \A e \in lineage : e.from \in S => e.to \in S
    PROVE  y \in S
<1>1. Edge(x, y).from = x /\ Edge(x, y).to = y
  BY DEF Edge
<1> QED
  BY <1>1

\* A run that is done has posted a path for every pipeline and every cube on it.
LEMMA LineagePromise ==
    ASSUME LineageInv
    PROVE  LineageIsWhole /\ CatalogTypeOK
<1>1. CatalogTypeOK
  BY DEF LineageInv, IsCatalogRun, CatalogTypeOK
<1>2. ASSUME NEW c \in CatalogRuns, catalogRun[c].stage = "done",
             NEW p \in pipelines \ catalogRun[c].missed
      PROVE  /\ Reaches(SourceRef(p), ClickhouseRef(p.target))
             /\ \A m \in models \ catalogRun[c].missed :
                   m.enabled /\ m.base_table = p.target => Reaches(SourceRef(p), CubeRef(m))
  <2>1. catalogRun[c].edges = <<>> /\ Items(catalogRun[c].edges) = {}
    BY <1>2, NoItems DEF LineageInv, IsCatalogRun
  <2>2. /\ Edge(SourceRef(p), IcebergRef(p)) \in lineage
        /\ Edge(IcebergRef(p), ClickhouseRef(p.target)) \in lineage
    BY <1>2, <2>1 DEF LineageInv, IsCatalogRun, Covers, Hops
  <2>3. \A x, y : Edge(x, y) \in lineage => x \in entities /\ y \in entities
    BY DEF LineageInv, Edge
  <2>4. Reaches(SourceRef(p), ClickhouseRef(p.target))
    <3>1. ASSUME NEW S, SourceRef(p) \in S, \A e \in lineage : e.from \in S => e.to \in S
          PROVE  ClickhouseRef(p.target) \in S
      <4>1. IcebergRef(p) \in S
        BY <2>2, <3>1, HopReaches
      <4> QED
        BY <2>2, <3>1, <4>1, HopReaches
    <3> QED
      BY <2>2, <2>3, <3>1 DEF Reaches
  <2>5. ASSUME NEW m \in models \ catalogRun[c].missed, m.enabled, m.base_table = p.target
        PROVE  Reaches(SourceRef(p), CubeRef(m))
    <3>1. Edge(ClickhouseRef(p.target), CubeRef(m)) \in lineage
      BY <1>2, <2>1, <2>5 DEF LineageInv, IsCatalogRun, Covers, CubeHop
    <3>2. ASSUME NEW S, SourceRef(p) \in S, \A e \in lineage : e.from \in S => e.to \in S
          PROVE  CubeRef(m) \in S
      <4>1. IcebergRef(p) \in S
        BY <2>2, <3>2, HopReaches
      <4>2. ClickhouseRef(p.target) \in S
        BY <2>2, <3>2, <4>1, HopReaches
      <4> QED
        BY <3>1, <3>2, <4>2, HopReaches
    <3> QED
      BY <2>2, <2>3, <3>1, <3>2 DEF Reaches
  <2> QED
    BY <2>4, <2>5
<1> QED
  BY <1>1, <1>2 DEF LineageIsWhole

----------------------------------------------------------------------------
(* The parts together.  *)

\* The four invariants.
DataPlaneInv == UploadInv /\ ReportInv /\ GateInv /\ LineageInv

\* A step of another part leaves the variables, and what is said of them.
LEMMA OthersHold ==
    ASSUME DataPlaneInv
    PROVE  /\ UNCHANGED datasetVars => UploadInv'
           /\ UNCHANGED reportVars => ReportInv'
           /\ UNCHANGED locationVars => GateInv'
           /\ UNCHANGED catalogVars => LineageInv'
<1>1. ASSUME UNCHANGED datasetVars PROVE UploadInv'
  BY <1>1 DEF DataPlaneInv, datasetVars, UploadInv, UploadShapes, UploadWrote, Behind
<1>2. ASSUME UNCHANGED reportVars PROVE ReportInv'
  BY <1>2 DEF DataPlaneInv, reportVars, ReportInv, ReportShapes, IsJob, Ledger, Owed, Unmailed,
              MailsAreKept
<1>3. ASSUME UNCHANGED locationVars PROVE GateInv'
  BY <1>3 DEF DataPlaneInv, locationVars, GateInv, IsRun, LeftBehind, Alone, TablesHold,
              Served, SchedulesHold, GateReports
<1>4. ASSUME UNCHANGED catalogVars PROVE LineageInv'
  BY <1>4 DEF DataPlaneInv, catalogVars, LineageInv, IsCatalogRun, Covers
<1> QED
  BY <1>1, <1>2, <1>3, <1>4

\* At first one part has its rows or its registry, and the others nothing.
LEMMA DataPlaneStart == Init => DataPlaneInv
<1> SUFFICES ASSUME Init PROVE DataPlaneInv
  OBVIOUS
<1>1. UploadInv
  <2>1. CASE part = "mail"
    <3>1. PICK f \in Files, S \in TagSets : DatasetsStart(Ready, f, S)
      BY <2>1 DEF Init
    <3> QED
      BY <3>1, ReadyAreDatasets, UploadStart
  <2>2. CASE part # "mail"
    <3>1. DatasetsStart({}, None, {})
      BY <2>2 DEF Init, DatasetsInit
    <3> QED
      BY <3>1, UploadStart
  <2> QED
    BY <2>1, <2>2
<1>2. ReportInv
  BY ReportStart DEF Init
<1>3. GateInv
  <2>1. IsRegistry(NoRegistry)
    BY DEF IsRegistry, NoRegistry
  <2>2. \A R \in (IF part = "gate" THEN Registries ELSE {NoRegistry}) : IsRegistry(R)
    BY <2>1, RegistriesAreRegistries
  <2> QED
    BY <2>2, GateStart DEF Init
<1>4. LineageInv
  BY LineageStart DEF Init
<1> QED
  BY <1>1, <1>2, <1>3, <1>4 DEF DataPlaneInv

\* A step is a step of one part.
LEMMA DataPlaneStep == DataPlaneInv /\ [Next]_vars => DataPlaneInv'
<1> SUFFICES ASSUME DataPlaneInv, [Next]_vars PROVE DataPlaneInv'
  OBVIOUS
<1>1. CASE DataNext
  BY <1>1, UploadStep, OthersHold DEF DataNext, DataPlaneInv, reportVars, locationVars, catalogVars
<1>2. CASE MailNext
  BY <1>2, ReportStep, OthersHold DEF MailNext, DataPlaneInv, datasetVars, locationVars, catalogVars
<1>3. CASE GateNext
  BY <1>3, GateStep, OthersHold DEF GateNext, DataPlaneInv, datasetVars, reportVars, catalogVars
<1>4. CASE LineageNext
  BY <1>4, LineageStep, OthersHold
     DEF LineageNext, DataPlaneInv, datasetVars, reportVars, locationVars
<1>5. CASE UNCHANGED vars
  BY <1>5, OthersHold DEF vars, DataPlaneInv
<1> QED
  BY <1>1, <1>2, <1>3, <1>4, <1>5 DEF Next

LEMMA DataPlaneAlways == Spec => []DataPlaneInv
BY DataPlaneStart, DataPlaneStep, PTL DEF Spec

\* The shapes of every part's variables, the bounds of a job's retries and of the
\* faults among them (src/backend/app/api/v1/datasets.py:56-88, src/backend/app/reporting/actors.py,
\* src/data-platform/orchestration/novasight_orchestration).
THEOREM DataPlaneTypeCorrect == Spec => []TypeOK
<1>1. DataPlaneInv => TypeOK
  BY UploadPromise, ReportPromise, GatePromise, LineagePromise DEF DataPlaneInv, TypeOK
<1> QED
  BY <1>1, DataPlaneAlways, PTL

\* A dataset that says it is ingested has its file in every store, and any valid
\* query on the file's columns is answered
\* (src/backend/app/api/v1/datasets.py:71-87).
THEOREM IngestedDatasetIsWhole == Spec => []IngestedIsWhole
<1>1. DataPlaneInv => IngestedIsWhole
  BY UploadPromise DEF DataPlaneInv
<1> QED
  BY <1>1, DataPlaneAlways, PTL

\* However messages are sent twice, jobs retried and workers killed, a report is
\* mailed no more often than the heartbeat has served minutes and faults excuse,
\* and every mail has its workbook in the store
\* (src/backend/app/reporting/schedule.py:28-31,
\* src/backend/app/reporting/service.py:143-159).
THEOREM EveryMailIsExplained == Spec => []MailsAreExplained
<1>1. DataPlaneInv => MailsAreExplained
  BY ReportPromise DEF DataPlaneInv
<1> QED
  BY <1>1, DataPlaneAlways, PTL

\* However runs are launched, fail and overlap with others, what a run that went
\* through the gate and overlapped with none has put into the serving table passes
\* the tests of both layers, and is the batch it loaded, if it loaded one
\* (src/data-platform/orchestration/novasight_orchestration/dbt_assets.py:35-66,
\* serving.py:95-150).
THEOREM WhatIsServedWasGated == Spec => []ServedWentThroughTheGate
<1>1. DataPlaneInv => ServedWentThroughTheGate
  BY GatePromise DEF DataPlaneInv
<1> QED
  BY <1>1, DataPlaneAlways, PTL

\* However rows are edited while runs of the catalog read and post, one that is done
\* has left a path from the source of every pipeline it read to its table, and to
\* every cube on that table
\* (src/data-platform/orchestration/novasight_orchestration/catalog.py:301-314,
\* catalog_lineage.py:127-194).
THEOREM EmittedLineageIsWhole == Spec => []LineageIsWhole
<1>1. DataPlaneInv => LineageIsWhole
  BY LineagePromise DEF DataPlaneInv
<1> QED
  BY <1>1, DataPlaneAlways, PTL
==============================================================================
