----------------------------- MODULE DataPlane -----------------------------
(***************************************************************************)
(* The tenant's data outside the control plane: datasets and the reports   *)
(* on them, the gated assets of the Dagster code location, and the         *)
(* catalog.  They work on different tables of the same ClickHouse          *)
(* database, so that their steps commute: a behaviour is about one of the  *)
(* parts, and the others stay as they are.  The reports run on datasets    *)
(* that were uploaded, and on others that were not.                        *)
(***************************************************************************)
EXTENDS Reports, CodeLocation, Catalog

CONSTANTS
    Parts,          \* the parts
    ReportRows,     \* rows of the report, and registries of schedules, there may
    Registries,     \* be at first
    Ready           \* datasets the reports find uploaded

ASSUME RegistriesAreRegistries == \A R \in Registries : IsRegistry(R)
ASSUME ReadyAreDatasets == Ready \subseteq Datasets

VARIABLE part

NoRegistry == [schedules |-> {}, targets |-> <<>>, tenants |-> {}]

vars == <<part, datasetVars, reportVars, locationVars, catalogVars>>

Init ==
    /\ part \in Parts
    /\ IF part = "mail" THEN \E f \in Files, S \in TagSets :
                                UploadAccepted(f) /\ f.parses /\ DatasetsStart(Ready, f, S)
                        ELSE DatasetsInit
    /\ ReportsInit(IF part = "mail" THEN ReportRows ELSE {None})
    /\ LocationInit(IF part = "gate" THEN Registries ELSE {NoRegistry})
    /\ CatalogInit

DataNext == part = "data" /\ DatasetsNext /\ UNCHANGED <<part, reportVars, locationVars, catalogVars>>
MailNext == part = "mail" /\ ReportsNext /\ UNCHANGED <<part, datasetVars, locationVars, catalogVars>>
GateNext == part = "gate" /\ LocationNext /\ UNCHANGED <<part, datasetVars, reportVars, catalogVars>>
LineageNext ==
    part = "catalog" /\ CatalogNext /\ UNCHANGED <<part, datasetVars, reportVars, locationVars>>

Next == DataNext \/ MailNext \/ GateNext \/ LineageNext

Spec == Init /\ [][Next]_vars

\* Every variable has the shape its module declares, the retries of a report's
\* job and the ends of a Dagster run among them.
TypeOK == DatasetsTypeOK /\ ReportsTypeOK /\ LocationTypeOK /\ CatalogTypeOK
=============================================================================
