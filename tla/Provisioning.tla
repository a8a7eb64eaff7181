---------------------------- MODULE Provisioning ----------------------------
(***************************************************************************)
(* The control plane's provisioning saga, for ONE slug: distinct slugs get *)
(* distinct physical names (tenancy/resources.py), so their calls share    *)
(* nothing.  A provision call creates the Iceberg namespace, then the      *)
(* ClickHouse database (the dbt schema has the database's name, so that    *)
(* its step does nothing), pushing a compensation for each, and commits    *)
(* the registry rows last; a deprovision call drops the homes and deletes  *)
(* the rows last.  Nothing serialises two calls but the unique slug.       *)
(*                                                                         *)
(* A tenant is named by the call that registered it, and a home by the     *)
(* call that created it, so that a resource dropped and made again under   *)
(* the same name is told from the one it replaced.                         *)
(***************************************************************************)
EXTENDS Naturals

CONSTANTS
    Calls,       \* the provision and deprovision requests, each made once
    Founder,     \* the call that registered the tenant there is at first
    Nobody,      \* no tenant, no creator
    Job,         \* an ETL job, as the creator of a home
    MaxFaults    \* bound: crashes, lost replies and failing compensations

ASSUME DistinctNames ==
    /\ Founder \notin Calls /\ Nobody \notin Calls /\ Job \notin Calls
    /\ Founder # Nobody /\ Founder # Job /\ Nobody # Job
ASSUME MaxFaultsIsNatural == MaxFaults \in Nat

VARIABLES
    row,     \* the registered tenant, or Nobody
    home,    \* home[h]: the creator of the resource h, or Nobody
    tables,  \* the namespace holds tables
    pc,
    made,    \* made[c]: the compensation stack of the provision call c
    target,  \* target[c]: the tenant the deprovision call c read
    jobs,    \* tenants whose context an ETL job has resolved
    strayed,  \* history: a job wrote for a tenant already being torn down
    beside,   \* history: the deprovisions that began beside another call
    trampled, \* history: one has dropped a home in use by another tenant
    faults

vars == <<row, home, tables, pc, made, target, jobs, strayed, beside, trampled,
          faults>>

Homes == {"namespace", "database"}
Tenants == Calls \cup {Founder}

Provisioning == {"create namespace", "look up database", "create database",
                 "register", "undo"}
Deprovisioning == {"purge tables", "drop namespace", "drop database", "delete"}
Running == Provisioning \cup Deprovisioning
Ended == {"done", "failed", "crashed"}

TypeOK ==
    /\ row \in Tenants \cup {Nobody}
    /\ home \in [Homes -> Tenants \cup {Job, Nobody}]
    /\ tables \in BOOLEAN
    /\ pc \in [Calls -> {"new"} \cup Running \cup Ended]
    /\ made \in [Calls -> SUBSET Homes]
    /\ target \in [Calls -> Tenants \cup {Nobody}]
    /\ jobs \subseteq Tenants
    /\ strayed \in BOOLEAN
    /\ beside \subseteq Calls
    /\ trampled \in BOOLEAN
    /\ faults \in 0..MaxFaults

(* An empty deployment, or one tenant provisioned earlier.                 *)
Init ==
    /\ row \in {Nobody, Founder}
    /\ home = [h \in Homes |-> row]
    /\ tables = FALSE
    /\ pc = [c \in Calls |-> "new"]
    /\ made = [c \in Calls |-> {}]
    /\ target = [c \in Calls |-> Nobody]
    /\ jobs = {}
    /\ strayed = FALSE
    /\ beside = {}
    /\ trampled = FALSE
    /\ faults = 0

history == <<beside, trampled>>

Goto(c, step) == pc' = [pc EXCEPT ![c] = step]
Quiet == \A c \in Calls : pc[c] \notin Running
Fault == faults < MaxFaults /\ faults' = faults + 1

-----------------------------------------------------------------------------
(* provision                                                               *)

CheckRegistry(c) ==
    /\ pc[c] = "new"
    /\ \/ row = Nobody /\ Goto(c, "create namespace")
       \/ row # Nobody /\ Goto(c, "failed")
    /\ UNCHANGED <<row, home, tables, made, target, jobs, strayed, history, faults>>

(* Mutant: the compensation is pushed before the request is sent.          *)
PushThenCreate(c, h, next) ==
    /\ made' = [made EXCEPT ![c] = @ \cup {h}]
    /\ \/ /\ home[h] = Nobody
          /\ home' = [home EXCEPT ![h] = c]
          /\ Goto(c, next)
       \/ /\ home[h] # Nobody
          /\ Goto(c, "undo")
          /\ UNCHANGED home
    /\ UNCHANGED <<row, tables, target, jobs, strayed, history, faults>>

(* Creating a home that is there raises, and the stack does not grow.      *)
CreateHome(c, h, next) ==
    /\ \/ /\ home[h] = Nobody
          /\ home' = [home EXCEPT ![h] = c]
          /\ made' = [made EXCEPT ![c] = @ \cup {h}]
          /\ Goto(c, next)
       \/ /\ home[h] # Nobody
          /\ Goto(c, "undo")
          /\ UNCHANGED <<home, made>>
    /\ UNCHANGED <<row, tables, target, jobs, strayed, history, faults>>

(* Mutant: a namespace that is there already is adopted.                   *)
AdoptNamespace(c) ==
    /\ pc[c] = "create namespace"
    /\ Goto(c, "look up database")
    /\ made' = [made EXCEPT ![c] = @ \cup {"namespace"}]
    /\ home' = [home EXCEPT !["namespace"] = IF @ = Nobody THEN c ELSE @]
    /\ UNCHANGED <<row, tables, target, jobs, strayed, history, faults>>

CreateNamespace(c) ==
    /\ pc[c] = "create namespace"
    /\ CreateHome(c, "namespace", "look up database")

(* system.databases is asked first; CREATE DATABASE is another request.    *)
LookUpDatabase(c) ==
    /\ pc[c] = "look up database"
    /\ \/ home["database"] = Nobody /\ Goto(c, "create database")
       \/ home["database"] # Nobody /\ Goto(c, "undo")
    /\ UNCHANGED <<row, home, tables, made, target, jobs, strayed, history, faults>>

CreateDatabase(c) ==
    /\ pc[c] = "create database"
    /\ CreateHome(c, "database", "register")

(* Mutant: the tenant is written with a state of its own.                  *)
RegisterPending(c) ==
    /\ pc[c] = "register"
    /\ row' = c /\ Goto(c, "pending")
    /\ UNCHANGED <<home, tables, made, target, jobs, strayed, history, faults>>

(* Flush and commit; the unique slug rejects a second row.  On success the *)
(* call returns, and its compensations are forgotten.                      *)
Register(c) ==
    /\ pc[c] = "register"
    /\ \/ /\ row = Nobody
          /\ row' = c
          /\ made' = [made EXCEPT ![c] = {}]
          /\ Goto(c, "done")
       \/ /\ row # Nobody
          /\ Goto(c, "undo")
          /\ UNCHANGED <<row, made>>
    /\ UNCHANGED <<home, tables, target, jobs, strayed, history, faults>>

(* A request fails with no effect.                                         *)
ProvisionFails(c) ==
    /\ pc[c] \in Provisioning \ {"undo"}
    /\ Goto(c, "undo")
    /\ UNCHANGED <<row, home, tables, made, target, jobs, strayed, history, faults>>

(* The home was created, but the reply is lost: no compensation is pushed. *)
CreateReplyLost(c) ==
    /\ Fault
    /\ \E h \in Homes :
         /\ \/ pc[c] = "create namespace" /\ h = "namespace"
            \/ pc[c] = "create database" /\ h = "database"
         /\ home[h] = Nobody
         /\ home' = [home EXCEPT ![h] = c]
    /\ Goto(c, "undo")
    /\ UNCHANGED <<row, tables, made, target, jobs, strayed, history>>

(* The compensations, in reverse.  Dropping a home that is gone is         *)
(* tolerated; dropping a namespace with tables raises and is only logged.  *)
Undo(c, h, dropped) ==
    /\ pc[c] = "undo" /\ h \in made[c]
    /\ h = "namespace" => "database" \notin made[c]
    /\ home' = IF dropped THEN [home EXCEPT ![h] = Nobody] ELSE home
    /\ made' = [made EXCEPT ![c] = @ \ {h}]
    /\ UNCHANGED <<row, tables, pc, target, jobs, strayed, history>>

Compensate(c) ==
    /\ \E h \in Homes : Undo(c, h, h = "namespace" => ~tables)
    /\ UNCHANGED faults

CompensationFails(c) ==
    /\ Fault
    /\ \E h \in Homes : Undo(c, h, FALSE)

(* Mutant: the compensations stop before the namespace.                    *)
UndoneTooEarly(c) ==
    /\ pc[c] = "undo" /\ made[c] \subseteq {"namespace"}
    /\ Goto(c, "failed")
    /\ UNCHANGED <<row, home, tables, made, target, jobs, strayed, history, faults>>

Undone(c) ==
    /\ pc[c] = "undo" /\ made[c] = {}
    /\ Goto(c, "failed")
    /\ UNCHANGED <<row, home, tables, made, target, jobs, strayed, history, faults>>

-----------------------------------------------------------------------------
(* deprovision                                                             *)

(* Mutant: a slug that is not registered is torn down all the same.        *)
ReadWithout404(c) ==
    /\ pc[c] = "new"
    /\ beside' = IF Quiet THEN beside ELSE beside \cup {c}
    /\ target' = [target EXCEPT ![c] = row]
    /\ Goto(c, "purge tables")
    /\ UNCHANGED <<row, home, tables, made, jobs, strayed, trampled, faults>>

(* Reads the tenant and its resource map, or answers 404.  Nothing keeps a *)
(* deprovision from beginning beside another call, or again while the one  *)
(* before it is at work.                                                   *)
ReadTenant(c) ==
    /\ pc[c] = "new"
    /\ beside' = IF Quiet THEN beside ELSE beside \cup {c}
    /\ target' = [target EXCEPT ![c] = row]
    /\ \/ row = Nobody /\ Goto(c, "failed")
       \/ row # Nobody /\ Goto(c, "purge tables")
    /\ UNCHANGED <<row, home, tables, made, jobs, strayed, trampled, faults>>

PurgeTables(c) ==
    /\ pc[c] = "purge tables"
    /\ tables' = FALSE
    /\ Goto(c, "drop namespace")
    /\ UNCHANGED <<row, home, made, target, jobs, strayed, history, faults>>

(* Whoever made a home uses it as the registered tenant, or as a provision *)
(* call that still has it on its stack.                                    *)
InUse(h) == \/ row # Nobody /\ home[h] = row
            \/ \E p \in Calls : home[h] = p /\ h \in made[p]

(* The drop names the resource, whoever made it.                           *)
DropHome(c, h, next) ==
    /\ home' = [home EXCEPT ![h] = Nobody]
    /\ trampled' = (trampled \/ (InUse(h) /\ home[h] # target[c]))
    /\ Goto(c, next)
    /\ UNCHANGED <<row, tables, made, target, jobs, strayed, beside, faults>>

DropNamespace(c) ==
    /\ pc[c] = "drop namespace" /\ ~tables
    /\ DropHome(c, "namespace", "drop database")

DropDatabase(c) ==
    /\ pc[c] = "drop database"
    /\ DropHome(c, "database", "delete")

(* DELETE by primary key: of a tenant already deleted it matches no row.   *)
DeleteRow(c) ==
    /\ pc[c] = "delete"
    /\ \/ row = target[c] /\ row' = Nobody
       \/ row # target[c] /\ UNCHANGED row
    /\ Goto(c, "done")
    /\ UNCHANGED <<home, tables, made, target, jobs, strayed, history, faults>>

(* Any request may fail; dropping a namespace that has tables always does. *)
DeprovisionFails(c) ==
    /\ pc[c] \in Deprovisioning
    /\ Goto(c, "failed")
    /\ UNCHANGED <<row, home, tables, made, target, jobs, strayed, history, faults>>

-----------------------------------------------------------------------------
(* The process dies, or the request is cancelled: CancelledError is not an *)
(* Exception, so that no compensation runs either.                         *)
Crash(c) ==
    /\ pc[c] \in Running
    /\ Fault
    /\ Goto(c, "crashed")
    /\ made' = [made EXCEPT ![c] = {}]
    /\ UNCHANGED <<row, home, tables, target, jobs, strayed, history>>

(* ETL jobs resolve their tenant once and write later.                     *)
TornDown(t) == row # t \/ \E c \in Calls : target[c] = t

JobResolves ==
    /\ row # Nobody
    /\ jobs' = jobs \cup {row}
    /\ UNCHANGED <<row, home, tables, pc, made, target, strayed, history, faults>>

JobEnsuresNamespace(t) ==
    /\ t \in jobs /\ home["namespace"] = Nobody
    /\ home' = [home EXCEPT !["namespace"] = Job]
    /\ strayed' = (strayed \/ TornDown(t))
    /\ UNCHANGED <<row, tables, pc, made, target, jobs, history, faults>>

JobWritesTable(t) ==
    /\ t \in jobs /\ home["namespace"] # Nobody
    /\ tables' = TRUE
    /\ strayed' = (strayed \/ TornDown(t))
    /\ UNCHANGED <<row, home, pc, made, target, jobs, history, faults>>

JobEnds(t) ==
    /\ t \in jobs
    /\ jobs' = jobs \ {t}
    /\ UNCHANGED <<row, home, tables, pc, made, target, strayed, history, faults>>

-----------------------------------------------------------------------------
Provision(c) ==
    \/ CheckRegistry(c) \/ CreateNamespace(c) \/ LookUpDatabase(c)
    \/ CreateDatabase(c) \/ Register(c) \/ ProvisionFails(c)
    \/ CreateReplyLost(c) \/ Compensate(c) \/ CompensationFails(c) \/ Undone(c)

Deprovision(c) ==
    \/ ReadTenant(c) \/ PurgeTables(c) \/ DropNamespace(c) \/ DropDatabase(c)
    \/ DeleteRow(c) \/ DeprovisionFails(c)

Next ==
    \/ \E c \in Calls : Provision(c) \/ Deprovision(c) \/ Crash(c)
    \/ JobResolves
    \/ \E t \in Tenants :
         JobEnsuresNamespace(t) \/ JobWritesTable(t) \/ JobEnds(t)

Spec == Init /\ [][Next]_vars

-----------------------------------------------------------------------------
(* "a new tenant's fully isolated, queryable environment" (docs/           *)
(* PROVISIONING.md): until its own teardown begins, a registered tenant    *)
(* has both homes, made by the call that registered it and never adopted,  *)
(* whatever calls fail, crash or overlap, until a teardown tramples.       *)
TenantIsWhole ==
    ~trampled /\ row # Nobody /\ (\A c \in Calls : target[c] # row)
        => \A h \in Homes : home[h] = row

(* A compensation names the resource, not its creator, and still never     *)
(* destroys what another call made under the same name, until a teardown   *)
(* tramples.                                                               *)
UndoesOnlyItsOwn ==
    [][\A c \in Calls : \A h \in made[c] \ made'[c] :
         ~trampled /\ pc'[c] = "undo" /\ home'[h] # home[h] => home[h] = c]_vars

(* Without crashes, lost replies, failing compensations and jobs that      *)
(* outlive their tenant, and until a teardown tramples, a slug that is not *)
(* registered is free again as soon as no call works on it: the saga       *)
(* leaves nothing behind.                                                  *)
FreeSlugIsClean ==
    Quiet /\ row = Nobody /\ faults = 0 /\ ~strayed /\ ~trampled
        => \A h \in Homes : home[h] = Nobody

(* What it takes for a teardown to drop what another tenant uses: a second *)
(* teardown of one tenant, begun while some call for the slug was at work. *)
(* One teardown of a tenant never does, whatever it races with, and two    *)
(* never do if the second waits for the slug to be quiet.                  *)
TornDownTwice ==
    \E c, d \in Calls : /\ c # d /\ d \in beside
                        /\ target[c] = target[d] /\ target[d] # Nobody

TramplingTakesTwo == trampled => TornDownTwice
=============================================================================
