---------------------------- MODULE CodeLocation ----------------------------
(***************************************************************************)
(* The Dagster code location: the assets raw -> dbt build -> serving with  *)
(* their quality gate, and the jobs started by the schedules that were in  *)
(* the registry when the location was loaded                               *)
(* (src/data-platform/orchestration, src/data-platform/dbt/models).        *)
(*                                                                         *)
(* A run executes the steps of the assets it selects in their order; each  *)
(* step is one statement on tables that other runs use too.  Nothing locks *)
(* them, and a run that ends early leaves what it wrote.                   *)
(*                                                                         *)
(* The rows of the regional sales are kept as the batches they came in: a  *)
(* batch is "good", has a region "twice" once the names are trimmed and    *)
(* lower-cased, or an amount that is "negative"; two batches in one table  *)
(* have every region twice.                                                *)
(***************************************************************************)
EXTENDS Naturals, Sequences, FiniteSets

CONSTANTS
    Nothing,       \* no batch, no table, no row
    DagsterRuns,   \* bound: runs, in all
    Seeds,         \* batches the seed file may hold
    Assets         \* selections of assets that are materialised

AssetNames == {"raw", "staging", "mart", "serving"}
Selections == {S \in SUBSET AssetNames : S # {}}

ASSUME AssetsAreSelections == Assets \subseteq Selections

VARIABLES
    raw,           \* the raw table, a sequence of batches
    mart,          \* the mart's table, Nothing before the first build
    serving,       \* the serving table, and how it came about; Nothing at first
    dagster,       \* per run: the steps it still has, its batch, its end
    registry,      \* the schedules, [kind, target, enabled], their targets by
                   \* id, and the tenants
    loaded,        \* the schedules as they were when the location was loaded
    events         \* quality_gate_failure: the run and the asset

locationVars == <<raw, mart, serving, dagster, registry, loaded, events>>

NotStarted == [steps |-> <<>>, end |-> "none", batch |-> Nothing, rows |-> Nothing,
               assets |-> FALSE, gated |-> FALSE, lone |-> FALSE]
Going == {r \in DagsterRuns : dagster[r].end = "going"}

----------------------------------------------------------------------------
(* The data tests of the dbt project.  The raw table's columns hold no     *)
(* NULL, so that not_null does not fail, and the rank is unique whenever   *)
(* the region is.  A share is in its range when no amount is negative.     *)

BatchesIn(rows) == {rows[i] : i \in DOMAIN rows}

Unique(rows) == Len(rows) <= 1 /\ "twice" \notin BatchesIn(rows)
InRange(rows) == "negative" \notin BatchesIn(rows)

StagingTests(rows) == Unique(rows)
MartTests(rows) == Unique(rows) /\ InRange(rows)

----------------------------------------------------------------------------
(* The assets, in the order of their dependencies.  dbt build runs a model *)
(* and then its tests; the staging model is a view of the raw table.       *)

StepsOf(asset) ==
    CASE asset = "raw"       -> <<"truncate", "insert">>
      [] asset = "staging"   -> <<"test_staging">>
      [] asset = "mart"      -> <<"build_mart", "test_mart">>
      [] asset = "serving"   -> <<"promote", "count_serving", "count_mart">>

Chosen(asset, selection) == IF asset \in selection THEN StepsOf(asset) ELSE <<>>

Plan(selection) ==
    Chosen("raw", selection) \o Chosen("staging", selection)
      \o Chosen("mart", selection) \o Chosen("serving", selection)

\* A run of assets, or of a job's op, with its own batch; alone as long as no
\* other run starts.
Launch(r, selection, b, assets) ==
    /\ dagster[r].end = "none"
    /\ dagster' = [s \in DagsterRuns |->
                     CASE s = r -> [NotStarted EXCEPT !.steps = Plan(selection), !.end = "going",
                                                      !.batch = b, !.assets = assets, !.lone = Going = {}]
                       [] s \in Going -> [dagster[s] EXCEPT !.lone = FALSE]
                       [] OTHER -> dagster[s]]

Materialize(r) ==
    /\ \E selection \in Assets, b \in Seeds :
          Launch(r, selection, IF "raw" \in selection THEN b ELSE Nothing, TRUE)
    /\ UNCHANGED <<raw, mart, serving, registry, loaded, events>>

At(r, step) == dagster[r].end = "going" /\ Head(dagster[r].steps) = step

Advanced(r) ==
    [dagster[r] EXCEPT !.steps = Tail(@), !.end = IF Len(dagster[r].steps) = 1 THEN "success" ELSE @]

Advance(r) == dagster' = [dagster EXCEPT ![r] = Advanced(r)]

\* A step that raises ends the run, and what comes after it is skipped.
Ends(r, end) == dagster' = [dagster EXCEPT ![r].end = end, ![r].steps = <<>>]

RunBreaks(r) ==
    /\ dagster[r].end = "going"
    /\ Ends(r, "failed")
    /\ UNCHANGED <<raw, mart, serving, registry, loaded, events>>

Truncate(r) ==
    /\ At(r, "truncate")
    /\ raw' = <<>>
    /\ Advance(r)
    /\ UNCHANGED <<mart, serving, registry, loaded, events>>

InsertArrow(r) ==
    /\ At(r, "insert")
    /\ raw' = Append(raw, dagster[r].batch)
    /\ Advance(r)
    /\ UNCHANGED <<mart, serving, registry, loaded, events>>

\* dbt skips what is downstream of a failed test and exits non-zero; the event
\* is emitted for the assets, not for a transform job's op.
GateFails(r, asset) ==
    \/ /\ dagster[r].assets
       /\ events' = events \cup {[run |-> r, asset |-> asset]}
       /\ Ends(r, "blocked")
    \/ ~dagster[r].assets /\ Ends(r, "failed") /\ UNCHANGED events

TestStaging(r) ==
    /\ At(r, "test_staging")
    /\ \/ StagingTests(raw) /\ Advance(r) /\ UNCHANGED events
       \/ ~StagingTests(raw) /\ GateFails(r, "staging")
    /\ UNCHANGED <<raw, mart, serving, registry, loaded>>

\* The staging view and the intermediate model are read with it.
BuildMart(r) ==
    /\ At(r, "build_mart")
    /\ mart' = raw
    /\ Advance(r)
    /\ UNCHANGED <<raw, serving, registry, loaded, events>>

(* Mutant: a failed test is reported, and the run goes on.                 *)
TestMartAndGoOn(r) ==
    /\ At(r, "test_mart")
    /\ dagster' = [dagster EXCEPT ![r] = [Advanced(r) EXCEPT !.gated = TRUE]]
    /\ events' = IF MartTests(mart) THEN events ELSE events \cup {[run |-> r, asset |-> "mart"]}
    /\ UNCHANGED <<raw, mart, serving, registry, loaded>>

\* The mart of a failed test stays where it is.
TestMart(r) ==
    /\ At(r, "test_mart")
    /\ \/ /\ MartTests(mart)
          /\ dagster' = [dagster EXCEPT ![r] = [Advanced(r) EXCEPT !.gated = TRUE]]
          /\ UNCHANGED events
       \/ ~MartTests(mart) /\ GateFails(r, "mart")
    /\ UNCHANGED <<raw, mart, serving, registry, loaded>>

\* CREATE OR REPLACE ... AS SELECT, which fails without a mart.
Promote(r) ==
    /\ At(r, "promote")
    /\ \/ mart # Nothing /\ serving' = [rows |-> mart, by |-> r] /\ Advance(r)
       \/ mart = Nothing /\ Ends(r, "failed") /\ UNCHANGED serving
    /\ UNCHANGED <<raw, mart, registry, loaded, events>>

\* The count of what is served now, by this run or by one that came after.
CountServing(r) ==
    /\ At(r, "count_serving")
    /\ dagster' = [dagster EXCEPT ![r] = [Advanced(r) EXCEPT !.rows = Len(serving.rows)]]
    /\ UNCHANGED <<raw, mart, serving, registry, loaded, events>>

\* The mart is counted, and the check comes after the table was replaced: a
\* check that fails is reported and stops nothing.
CheckPassed(r) == dagster[r].rows > 0 /\ dagster[r].rows = Len(mart)

CountMart(r) ==
    /\ At(r, "count_mart")
    /\ dagster' = [dagster EXCEPT ![r] =
                     [Advanced(r) EXCEPT !.end = IF CheckPassed(r) THEN @ ELSE "check failed"]]
    /\ UNCHANGED <<raw, mart, serving, registry, loaded, events>>

----------------------------------------------------------------------------
(* Schedules.  They are read when the location is loaded, and not again;   *)
(* an error of the database leaves the location without any.               *)

\* A schedule for a pipeline or a transform job; another kind is passed over.
BuildSchedules(rows) == {s \in rows : s.kind \in {"pipeline", "transform_job"}}

\* One for every tenant with a resource map, whatever its status.
BuildCatalogSchedules(tenants) == {[kind |-> "catalog", target |-> t, enabled |-> TRUE] : t \in tenants}

LoadLocation ==
    /\ \E dynamic \in {BuildSchedules(registry.schedules), {}},
          refresh \in {BuildCatalogSchedules(registry.tenants), {}} : loaded' = dynamic \cup refresh
    /\ UNCHANGED <<raw, mart, serving, dagster, registry, events>>

\* The API edits and deletes schedules, and deletes their targets.
EditRegistry ==
    /\ \/ \E s \in registry.schedules :
             \/ registry' = [registry EXCEPT !.schedules = @ \ {s}]
             \/ registry' = [registry EXCEPT !.schedules = (@ \ {s}) \cup {[s EXCEPT !.enabled = FALSE]}]
       \/ \E t \in registry.tenants : registry' = [registry EXCEPT !.tenants = @ \ {t}]
       \/ \E t \in DOMAIN registry.targets :
             registry' = [registry EXCEPT !.targets =
                            [u \in DOMAIN registry.targets \ {t} |-> registry.targets[u]]]
    /\ UNCHANGED <<raw, mart, serving, dagster, loaded, events>>

\* The row of a target, as it is when the run starts; LookupError without one.
LoadTarget(id) == IF id \in DOMAIN registry.targets THEN registry.targets[id] ELSE Nothing

\* A job whose op only reads a row here: run_pipeline_op logs (the ETL workers
\* run pipelines), and what run_catalog_op does is in module Catalog.
OpEnds(r, found) == dagster[r].end = "none" /\ Ends(r, IF found THEN "success" ELSE "failed")

\* run_transform_op builds the selection of the job's row.
Build(r, target) ==
    Launch(r, IF target.selection = "" THEN {"staging", "mart"} ELSE {target.selection}, Nothing, FALSE)

ScheduleFires(r) ==
    /\ \E s \in {t \in loaded : t.enabled} :
          CASE s.kind = "pipeline" -> OpEnds(r, LoadTarget(s.target) # Nothing)
            [] s.kind = "catalog"  -> OpEnds(r, s.target \in registry.tenants)
            [] s.kind = "transform_job" ->
                 \/ LoadTarget(s.target) = Nothing /\ OpEnds(r, FALSE)
                 \/ LoadTarget(s.target) # Nothing /\ Build(r, LoadTarget(s.target))
    /\ UNCHANGED <<raw, mart, serving, registry, loaded, events>>

\* A row of schedules names its target, and a transform job what it builds.
IsSchedule(s, targets) ==
    /\ DOMAIN s = {"kind", "target", "enabled"} /\ s.enabled \in BOOLEAN
    /\ s.kind = "transform_job" /\ s.target \in DOMAIN targets /\ targets[s.target] # Nothing
          => targets[s.target].selection \in AssetNames \cup {""}

IsRegistry(R) ==
    /\ DOMAIN R = {"schedules", "targets", "tenants"}
    /\ \A s \in R.schedules : IsSchedule(s, R.targets)

LocationInit(registries) ==
    /\ raw = <<>> /\ mart = Nothing /\ serving = Nothing
    /\ dagster = [r \in DagsterRuns |-> NotStarted]
    /\ registry \in registries
    /\ loaded = {}
    /\ events = {}

RunStep(r) ==
    \/ Materialize(r) \/ ScheduleFires(r) \/ RunBreaks(r)
    \/ Truncate(r) \/ InsertArrow(r) \/ TestStaging(r) \/ BuildMart(r) \/ TestMart(r)
    \/ Promote(r) \/ CountServing(r) \/ CountMart(r)

LocationNext == LoadLocation \/ EditRegistry \/ \E r \in DagsterRuns : RunStep(r)

LocationTypeOK ==
    /\ \A r \in DagsterRuns :
          /\ dagster[r].end \in {"none", "going", "success", "failed", "blocked", "check failed"}
          /\ dagster[r].end = "going" <=> dagster[r].steps # <<>>
          /\ dagster[r].batch \in Seeds \cup {Nothing}
    /\ BatchesIn(raw) \subseteq Seeds \cup {Nothing}
    /\ \A s \in loaded : s.kind \in {"pipeline", "transform_job", "catalog"} /\ s.enabled \in BOOLEAN

\* What a run that went through the gate itself, and overlapped with no other,
\* has put into the serving table has passed every test, and is the batch the
\* run had ingested if it did; its check fails only for an empty mart.  And a
\* run is blocked exactly when it has reported the asset whose test failed
\* (dbt_assets.py:35-66, serving.py:95-150).
ServedWentThroughTheGate ==
    /\ serving # Nothing =>
          LET run == dagster[serving.by]
          IN  run.gated /\ run.lone
                 => /\ StagingTests(serving.rows) /\ MartTests(serving.rows)
                    /\ run.batch # Nothing => serving.rows = <<run.batch>>
    /\ \A r \in DagsterRuns :
          /\ dagster[r].end = "check failed" /\ dagster[r].lone => dagster[r].rows = 0
          /\ dagster[r].end = "blocked" <=> \E e \in events : e.run = r
=============================================================================
