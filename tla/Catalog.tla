------------------------------ MODULE Catalog ------------------------------
(***************************************************************************)
(* The data catalog: the metadata ingested into OpenMetadata, and the      *)
(* lineage emitted for what it cannot see, from the sources through the    *)
(* lake into ClickHouse and on to the cubes                                *)
(* (src/data-platform/orchestration/novasight_orchestration/catalog.py,    *)
(* catalog_lineage.py, catalog_om_runner.py, dynamic.py, registry.py).     *)
(*                                                                         *)
(* A run is of the asset, whose scope is the environment's database, or of *)
(* the job of one tenant, which alone emits lineage.  Every stage is a     *)
(* process of its own; the registry is read twice, after the metadata is   *)
(* in, and the edges are posted one at a time.                             *)
(***************************************************************************)
EXTENDS Naturals, FiniteSets, Sequences

CONSTANTS
    NoObject,      \* the object of a pipeline without one
    CatalogRuns,   \* bound: runs, in all
    PipelineRows,  \* pipelines there may be: [object, source, target]
    ModelRows      \* semantic models there may be: [name, base_table, enabled]

ASSUME RowsAreFinite == IsFiniteSet(PipelineRows) /\ IsFiniteSet(ModelRows)

VARIABLES
    scope,         \* whether the tenant has a row and a resource map
    pipelines, models,    \* the registry's rows
    lakeTables, servedTables,   \* the tables there are
    catalogRun,    \* per run: its stage, its edges, and what it missed
    entities, lineage   \* OpenMetadata: the entities, the edges between them

catalogVars == <<scope, pipelines, models, lakeTables, servedTables,
                 catalogRun, entities, lineage>>

Ref(service, table) == [service |-> service, table |-> table]

\* The table an object came from; without an object, it has the target's name.
SourceRef(p) ==
    Ref(<<"sources", p.source>>, IF p.object = NoObject THEN p.target ELSE p.object)
IcebergRef(p) == Ref(<<"iceberg">>, p.target)
ClickhouseRef(t) == Ref(<<"clickhouse">>, t)
CubeRef(m) == Ref(<<"cube">>, m.name)

Edge(a, b) == [from |-> a, to |-> b]

(* Mutant: the hop through the lake ends there.                            *)
LakeEdgesOnly(rows) == [i \in DOMAIN rows |-> Edge(SourceRef(rows[i]), IcebergRef(rows[i]))]

\* Two edges for a pipeline, one after the other; the scope of a tenant's job
\* always has an Iceberg namespace.
BuildPipelineEdges(rows) ==
    [k \in 1..(2 * Len(rows)) |->
       LET p == rows[(k + 1) \div 2]
       IN  IF k % 2 = 1 THEN Edge(SourceRef(p), IcebergRef(p))
           ELSE Edge(IcebergRef(p), ClickhouseRef(p.target))]

BuildSemanticEdges(rows) ==
    [i \in DOMAIN rows |-> Edge(ClickhouseRef(rows[i].base_table), CubeRef(rows[i]))]

\* No query of the registry says in which order it wants its rows.
InAnyOrder(S) ==
    {rows \in [1..Cardinality(S) -> S] : \A row \in S : \E i \in DOMAIN rows : rows[i] = row}

----------------------------------------------------------------------------

Ended == {"none", "done", "asset done", "failed"}

NoCatalogRun == [stage |-> "none", edges |-> <<>>, missed |-> {}]

CatalogInit ==
    /\ scope = TRUE
    /\ pipelines = {} /\ models = {}
    /\ lakeTables = {} /\ servedTables = {}
    /\ catalogRun = [c \in CatalogRuns |-> NoCatalogRun]
    /\ entities = {} /\ lineage = {}

\* The API, and the ETL workers.  A run that has read the rows, or is reading
\* them, misses what changes.
Missed(what, stages) ==
    catalogRun' = [c \in CatalogRuns |->
                     IF catalogRun[c].stage \in stages
                     THEN [catalogRun[c] EXCEPT !.missed = @ \cup {what}] ELSE catalogRun[c]]

EditPipelines ==
    /\ scope
    /\ \E p \in PipelineRows :
          /\ pipelines' \in {pipelines \cup {p}, pipelines \ {p}} \ {pipelines}
          /\ Missed(p, {"pipelines read", "emitting", "done"})
    /\ UNCHANGED <<scope, models, lakeTables, servedTables, entities, lineage>>

EditModels ==
    /\ scope
    /\ \E m \in ModelRows :
          /\ models' \in {models \cup {m}, models \ {m}} \ {models}
          /\ Missed(m, {"emitting", "done"})
    /\ UNCHANGED <<scope, pipelines, lakeTables, servedTables, entities, lineage>>

PipelineLands ==
    /\ \E p \in pipelines :
          /\ p.target \notin servedTables
          /\ lakeTables' = lakeTables \cup {p.target}
          /\ servedTables' \in {servedTables \cup {p.target}, servedTables}
    /\ UNCHANGED <<scope, pipelines, models, catalogRun, entities, lineage>>

\* Its rows go with it.
TenantGoes ==
    /\ scope
    /\ scope' = FALSE
    /\ pipelines' = {} /\ models' = {}
    /\ UNCHANGED <<lakeTables, servedTables, catalogRun, entities, lineage>>

----------------------------------------------------------------------------

GoOn(c, from, to) ==
    /\ catalogRun[c].stage = from
    /\ catalogRun' = [catalogRun EXCEPT ![c] = [NoCatalogRun EXCEPT !.stage = to]]
    /\ UNCHANGED <<scope, pipelines, models, lakeTables, servedTables>>

\* The asset, as long as it is materialised.
AssetStarts(c) == GoOn(c, "none", "asset") /\ UNCHANGED <<entities, lineage>>

\* The job, by its schedule or by hand: LookupError for a tenant that has gone.
JobStarts(c) ==
    /\ GoOn(c, "none", IF scope THEN "job" ELSE "failed")
    /\ UNCHANGED <<entities, lineage>>

\* A stage's process exits non-zero: the run ends, and what it posted stays.
StageFails(c) ==
    /\ catalogRun[c].stage \notin Ended
    /\ GoOn(c, catalogRun[c].stage, "failed")
    /\ UNCHANGED <<entities, lineage>>

\* A scan adds the tables it finds; entities without a table are left to
\* OpenMetadata.
ClickhouseMetadata(c) ==
    /\ \/ GoOn(c, "asset", "asset served")
       \/ GoOn(c, "job", "job served")
    /\ entities' = entities \cup {ClickhouseRef(t) : t \in servedTables}
    /\ UNCHANGED lineage

\* Best effort, and only with a namespace.
IcebergMetadata(c) ==
    /\ GoOn(c, "job served", "job lake")
    /\ \/ entities' = entities \cup {Ref(<<"iceberg">>, t) : t \in lakeTables}
       \/ UNCHANGED entities
    /\ UNCHANGED lineage

\* The dbt models describe tables that are there already.  No lineage for a
\* run without a tenant.
DbtMetadata(c) ==
    /\ \/ GoOn(c, "asset served", "asset done")
       \/ GoOn(c, "job lake", "lineage")
    /\ UNCHANGED <<entities, lineage>>

ReadPipelines(c) ==
    /\ catalogRun[c].stage = "lineage"
    /\ \E rows \in InAnyOrder(pipelines) :
          catalogRun' = [catalogRun EXCEPT ![c].stage = "pipelines read",
                                           ![c].edges = BuildPipelineEdges(rows)]
    /\ UNCHANGED <<scope, pipelines, models, lakeTables, servedTables, entities, lineage>>

\* Nothing is emitted without edges.
ReadModels(c) ==
    /\ catalogRun[c].stage = "pipelines read"
    /\ \E rows \in InAnyOrder({m \in models : m.enabled}) :
          LET edges == catalogRun[c].edges \o BuildSemanticEdges(rows)
          IN  catalogRun' = [catalogRun EXCEPT ![c].edges = edges,
                                               ![c].stage = IF edges = <<>> THEN "done" ELSE "emitting"]
    /\ UNCHANGED <<scope, pipelines, models, lakeTables, servedTables, entities, lineage>>

\* Entities that are not there are made first.
EmitEdge(c) ==
    /\ catalogRun[c].stage = "emitting"
    /\ LET e == Head(catalogRun[c].edges)
       IN  /\ entities' = entities \cup {e.from, e.to}
           /\ lineage' = lineage \cup {e}
    /\ catalogRun' = [catalogRun EXCEPT ![c].edges = Tail(@),
                         ![c].stage = IF Len(catalogRun[c].edges) = 1 THEN "done" ELSE @]
    /\ UNCHANGED <<scope, pipelines, models, lakeTables, servedTables>>

CatalogStep(c) ==
    \/ AssetStarts(c) \/ JobStarts(c) \/ StageFails(c)
    \/ ClickhouseMetadata(c) \/ IcebergMetadata(c) \/ DbtMetadata(c)
    \/ ReadPipelines(c) \/ ReadModels(c) \/ EmitEdge(c)

CatalogNext ==
    \/ EditPipelines \/ EditModels \/ PipelineLands \/ TenantGoes
    \/ \E c \in CatalogRuns : CatalogStep(c)

----------------------------------------------------------------------------

CatalogTypeOK ==
    /\ scope \in BOOLEAN
    /\ pipelines \subseteq PipelineRows /\ models \subseteq ModelRows
    /\ lineage \subseteq [from : entities, to : entities]
    /\ \A c \in CatalogRuns : catalogRun[c].stage = "emitting" <=> catalogRun[c].edges # <<>> /\ catalogRun[c].stage # "pipelines read"

\* There is a path of lineage edges from a to b: b is in every set that has a
\* and what the edges lead to.
Reaches(a, b) ==
    /\ {a, b} \subseteq entities
    /\ \A S \in SUBSET entities :
          a \in S /\ (\A e \in lineage : e.from \in S => e.to \in S) => b \in S

\* After a tenant's catalog run has ended well, the source of every pipeline
\* whose row did not change since the run read it leads to its serving table,
\* and on to every enabled cube built on that table; whatever other runs, and
\* runs that failed half way, have posted, and whichever of the tables there
\* are (catalog.py:301-314, catalog_lineage.py:127-194).
LineageIsWhole ==
    \A c \in CatalogRuns : catalogRun[c].stage = "done" =>
       \A p \in pipelines \ catalogRun[c].missed :
          /\ Reaches(SourceRef(p), ClickhouseRef(p.target))
          /\ \A m \in models \ catalogRun[c].missed :
                m.enabled /\ m.base_table = p.target => Reaches(SourceRef(p), CubeRef(m))
=============================================================================
