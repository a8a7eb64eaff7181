----------------------------- MODULE ModelCode -----------------------------
(***************************************************************************)
(* dbt models and semantic models: their rows, the files generated from    *)
(* them, and the transform job a dbt model is run by                       *)
(* (src/backend/app/services/dbt_models.py, semantic_models.py,            *)
(* transforms.py, src/backend/app/codegen).  A row's table is "dbt" or     *)
(* "cube"; its text stands for the SQL, the tests and the configuration.   *)
(***************************************************************************)
EXTENDS Tables, TLC

LOCAL INSTANCE Functions

Models(rows, table) == {i \in DOMAIN rows : rows[i].table = table}

NameFree(rows, table, name) == \A i \in Models(rows, table) : rows[i].name # name

CreateModel(new, table, name, text) ==
    Insert(new, [table |-> table, name |-> name, text |-> text, enabled |-> TRUE])

\* A PATCH is a record with the fields it sets.  A new name has to be free.
PatchAccepted(rows, i, patch) ==
    "name" \in DOMAIN patch /\ patch.name # rows[i].name
        => NameFree(rows, rows[i].table, patch.name)

DeleteModel(i) == Delete({i})

----------------------------------------------------------------------------
(* Code generation: the enabled models are written.                        *)

Wanted(rows, table) ==
    {[name |-> rows[i].name, text |-> rows[i].text] :
        i \in {j \in Models(rows, table) : rows[j].enabled}}

NamesOf(models) == {m.name : m \in models}

\* write_tenant_models: every wanted file is written, then the others are
\* removed.  Of models of one name the last one written stays.
DbtFiles(models) ==
    {f \in [NamesOf(models) -> {m.text : m \in models}] :
        \A n \in NamesOf(models) : [name |-> n, text |-> f[n]] \in models}

\* It may stop in between: some files are written, and if all are, some others
\* may be removed.
PartlyWritten(old, models) ==
    UNION {{Restrict(f, S) @@ old : S \in SUBSET DOMAIN f} : f \in DbtFiles(models)}
      \cup UNION {{f @@ Restrict(old, S) : S \in SUBSET DOMAIN old} : f \in DbtFiles(models)}

\* The cube file is written aside and moved into place.
CubeFile(models) == models

----------------------------------------------------------------------------
(* Running a dbt model. *)

JobsFor(rows, name) == {i \in DOMAIN rows : rows[i].table = "job" /\ rows[i].selection = name}

\* More than one job for the selection raises MultipleResultsFound.
Runnable(rows, m) == m \in Models(rows, "dbt") /\ rows[m].enabled
                     /\ Cardinality(JobsFor(rows, rows[m].name)) <= 1

\* The GraphQL mutation: an error of HTTP or of Dagster, or an answer without a
\* run, is a DagsterError, whether Dagster has taken the run or not.
Execute == {"answered", "taken", "failed"}

\* The row of a job, by its id.
LoadTransform(rows, job) == {rows[i] : i \in {job} \cap {x \in DOMAIN rows : rows[x].table = "job"}}

(* Mutant: the new job is made and never added to the session.             *)
EnsureJobUnsaved(rows, new, name) == [job |-> new, writes |-> NoWrites]

\* Find or create: the job of this selection, and the writes that make it.
EnsureJob(rows, new, name) ==
    LET found == JobsFor(rows, name)
    IN  IF found = {}
        THEN [job |-> new, writes |-> Insert(new, [table |-> "job", selection |-> name])]
        ELSE [job |-> CHOOSE j \in found : TRUE, writes |-> NoWrites]
=============================================================================
