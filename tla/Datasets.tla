------------------------------ MODULE Datasets ------------------------------
(***************************************************************************)
(* Datasets: the upload of a CSV file into the object store, the Iceberg   *)
(* table written from it, its registration in ClickHouse, and queries      *)
(* (src/backend/app/api/v1/datasets.py, services/datasets.py,              *)
(* services/clickhouse_datasets.py, ingestion/csv_iceberg.py,              *)
(* ingestion/iceberg_writer.py).                                           *)
(*                                                                         *)
(* Four stores, one request, no transaction across them: the row of the    *)
(* dataset is flushed early and committed last, with its status.  Every    *)
(* upload makes a dataset of its own, so that the two share a name here.   *)
(***************************************************************************)
EXTENDS DatasetQueries

CONSTANTS
    Datasets,    \* uploads, each of a fresh dataset_id
    Files,       \* what is uploaded: [name, size, parses, columns, numeric, rows]
    TagSets,     \* columns an operator tags
    MaxUpload,   \* settings.max_upload_mb
    Requests,    \* the queries that are asked
    Empty        \* what a table holds that was created and not written

ASSUME FilesAreFiles == None \notin Files /\ Empty \notin Files /\ Empty # None
ASSUME NoneIsNoStatus == None \notin {"ingested", "failed"}
ASSUME MaxUploadIsPositive == MaxUpload \in Nat \ {0}

VARIABLES
    upload,      \* the step of the request, and the file it has
    object,      \* the raw file in the object store
    lake,        \* the Iceberg table: None, Empty, or the file it holds
    registered,  \* datasets that have a table in ClickHouse
    status,      \* the committed row's status, None if there is no row
    tags         \* datasets.sensitive_columns

datasetVars == <<upload, object, lake, registered, status, tags>>

Working == {"stored", "flushed", "created", "landed", "registered"}

DatasetsTypeOK ==
    /\ \A d \in Datasets :
          /\ upload[d].step \in Working \cup {"unused", "answered", "died"}
          /\ upload[d].file \in Files \cup {None}
          /\ object[d] \in Files \cup {None}
          /\ lake[d] \in Files \cup {None, Empty}
          /\ status[d] \in {None, "ingested", "failed"}
    /\ registered \subseteq Datasets

\* 400 without a name, 415 for another extension, 413 over the cap, 400 when
\* empty: nothing has been written.
UploadAccepted(f) == f.name = "csv" /\ f.size \in 1..MaxUpload

\* The datasets of done were uploaded before, with the file f, and tagged.
DatasetsStart(done, f, S) ==
    /\ upload = [d \in Datasets |-> IF d \in done THEN [step |-> "answered", file |-> f]
                                                ELSE [step |-> "unused", file |-> None]]
    /\ object = [d \in Datasets |-> IF d \in done THEN f ELSE None]
    /\ lake = [d \in Datasets |-> IF d \in done THEN f ELSE None]
    /\ registered = done
    /\ status = [d \in Datasets |-> IF d \in done THEN "ingested" ELSE None]
    /\ tags = [d \in Datasets |-> IF d \in done THEN S ELSE {}]

DatasetsInit == DatasetsStart({}, None, {})

GoTo(d, step) == upload' = [upload EXCEPT ![d].step = step]

----------------------------------------------------------------------------
(* The upload.  *)

PutObject(d) ==
    /\ upload[d].step = "unused"
    /\ \E f \in {g \in Files : UploadAccepted(g)} :
          /\ upload' = [upload EXCEPT ![d] = [step |-> "stored", file |-> f]]
          /\ object' = [object EXCEPT ![d] = f]
    /\ UNCHANGED <<lake, registered, status, tags>>

\* The INSERT.  No other session sees the row before the commit.
FlushRow(d) ==
    /\ upload[d].step = "stored"
    /\ GoTo(d, "flushed")
    /\ UNCHANGED <<object, lake, registered, status, tags>>

\* CsvIcebergPipeline.run: the raw file is read back and parsed; the table is
\* created, which the catalog commits, and then overwritten.
CreateTable(d) ==
    /\ upload[d].step = "flushed" /\ object[d].parses
    /\ lake' = [lake EXCEPT ![d] = Empty]
    /\ GoTo(d, "created")
    /\ UNCHANGED <<object, registered, status, tags>>

Overwrite(d) ==
    /\ upload[d].step = "created"
    /\ lake' = [lake EXCEPT ![d] = object[d]]
    /\ GoTo(d, "landed")
    /\ UNCHANGED <<object, registered, status, tags>>

\* The table's location is looked up in the catalog, and a ClickHouse table
\* made on it.
RegisterDataset(d) ==
    /\ upload[d].step = "landed"
    /\ registered' = registered \cup {d}
    /\ GoTo(d, "registered")
    /\ UNCHANGED <<object, lake, status, tags>>

UpdateStatus(d, s) ==
    /\ status' = [status EXCEPT ![d] = s]
    /\ GoTo(d, "answered")
    /\ UNCHANGED <<object, lake, registered, tags>>

(* Mutant: the status is committed as soon as the table has landed.        *)
CommitEarly(d) == upload[d].step \in {"landed", "registered"} /\ UpdateStatus(d, "ingested")

CommitIngested(d) == upload[d].step = "registered" /\ UpdateStatus(d, "ingested")

\* Whatever the pipeline or the registration raises, after its effect or
\* before it, is a 502, and the row is kept.
CommitFailed(d) ==
    upload[d].step \in {"flushed", "created", "landed", "registered"} /\ UpdateStatus(d, "failed")

\* The process dies, the INSERT or the commit fails: what was written outside
\* the database stays, and the row goes.
UploadDies(d) ==
    /\ upload[d].step \in Working
    /\ GoTo(d, "died")
    /\ UNCHANGED <<object, lake, registered, status, tags>>

\* No endpoint sets the column; an operator may once there is a row.
TagColumns(d) ==
    /\ status[d] # None /\ tags[d] = {}
    /\ \E S \in TagSets : tags' = [tags EXCEPT ![d] = S]
    /\ UNCHANGED <<upload, object, lake, registered, status>>

DatasetStep(d) ==
    \/ PutObject(d) \/ FlushRow(d) \/ CreateTable(d) \/ Overwrite(d) \/ RegisterDataset(d)
    \/ CommitIngested(d) \/ CommitFailed(d) \/ UploadDies(d) \/ TagColumns(d)

DatasetsNext == \E d \in Datasets : DatasetStep(d)

----------------------------------------------------------------------------
(* The reads: responses are functions of the state. *)

\* What ClickHouse answers on a dataset's table: a table that is not there is
\* UNKNOWN_TABLE; one without data, or a column it does not know, an error.
TableAnswers(d, request) ==
    /\ d \in registered /\ lake[d] \in Files
    /\ Answerable(request, lake[d])

QueryCode(d, request) ==
    IF status[d] = None THEN 404
    ELSE IF status[d] # "ingested" \/ d \notin registered THEN 409
    ELSE IF TableAnswers(d, request) THEN 200 ELSE 500

\* The body of a 200.
QueryDataset(d, request, principal, encryption) ==
    ApplyToRows(RunAggregation(request, lake[d]), tags[d], MayViewSensitive(principal, encryption))

ListDatasets == {d \in Datasets : status[d] # None}

\* The tables of the tenant's database, or nothing when ClickHouse cannot be
\* asked.
ListTables == {registered, {}}

\* An ingested dataset has its object, the table of it in the lake and one in
\* ClickHouse, and any valid query that can be answered on the file is answered
\* from it.  What the stores hold beyond that belongs to a row that says
\* "failed", or to a request that runs or has died (api/v1/datasets.py:71-87).
IngestedIsWhole ==
    \A d \in Datasets :
       /\ status[d] = "ingested" =>
             /\ d \in registered
             /\ lake[d] = object[d] /\ object[d] \in Files
             /\ \A q \in Requests :
                   RequestValid(q) /\ Answerable(q, object[d]) => QueryCode(d, q) = 200
       /\ d \in registered => lake[d] \in Files /\ lake[d] = object[d]
       /\ lake[d] # None => object[d] # None
       /\ object[d] # None /\ status[d] = None
             => upload[d].step \in Working \cup {"died"}
=============================================================================
