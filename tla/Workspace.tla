----------------------------- MODULE Workspace -----------------------------
(***************************************************************************)
(* The API of one tenant's workspace under concurrent requests: dashboards *)
(* and charts (Boards), dbt and semantic models, their generated files and *)
(* the runs of dbt models (ModelCode), the tenant's users and their tokens *)
(* (Access).                                                               *)
(*                                                                         *)
(* A request is authorised and loads what it needs, flushes its writes,    *)
(* and, before its transaction ends, has the effects no rollback undoes:   *)
(* files are written, a Dagster run is launched.  It may end without a     *)
(* commit at any step: an error, a client that is gone, a crash.  A        *)
(* behaviour belongs to one workload, which says what requests there are.  *)
(***************************************************************************)
EXTENDS Boards, ModelCode, Access, Sequences

CONSTANTS
    Requests,    \* requests in progress at a time
    Workloads,   \* kinds of requests, the rows and tokens there are at first, the
                 \* bodies of PATCH requests, and the bound ids on the ids handed out,
                 \* a new one to every row
    Names, Texts,                      \* bodies of the requests
    Positions, FilterLists, Layouts,
    RoleSets, UserEmails,
    MaxRuns      \* bound: Dagster runs launched

\* A walk from a filter up its parents never comes to an end if and only if some
\* filters have each a parent among themselves.
WalkEnds(filters) ==
    ~\E S \in (SUBSET DOMAIN filters) \ {{}} :
        \A i \in S : \E j \in S : filters[j].id = filters[i].parent

\* What a row is told apart by: of two with one claim, one has to give way.
Claim(row) ==
    CASE row.table = "job" -> <<"job", row.selection>>
      [] row.table = "user" -> <<"user", row.email>>
      [] OTHER -> <<row.table, row.name>>

\* A row has the columns of its table.
IsRow(row) ==
    /\ row = [c \in DOMAIN row |-> row[c]] /\ "table" \in DOMAIN row
    /\ row.table \in {"board", "tile", "chart", "dbt", "cube", "job", "user"}
    /\ row.table = "board" => "filters" \in DOMAIN row
    /\ row.table = "tile" => /\ {"board", "chart", "kind", "position"} \subseteq DOMAIN row
                             /\ row.position \in Nat
                             /\ row.kind = "chart" => row.chart # None
    /\ row.table \in {"dbt", "cube"} => {"name", "text", "enabled"} \subseteq DOMAIN row
    /\ row.table = "job" => "selection" \in DOMAIN row
    /\ row.table = "user" => {"email", "roles"} \subseteq DOMAIN row

\* A tile is on a dashboard, and shows a chart if it has one.
RefersToRows(t, all) ==
    /\ all[t].board \in Of(all, "board")
    /\ all[t].chart # None => all[t].chart \in Of(all, "chart")

\* The tables are those of a database that keeps its foreign keys, and in which
\* no two requests have raced; the body of a PATCH has columns only, no email,
\* and that of a model's no roles.
ASSUME WorkloadsFitTheTables ==
    \A w \in Workloads :
      /\ w.ids \in Nat /\ Len(w.rows) \in 0..w.ids
      /\ w.rows = [i \in 1..Len(w.rows) |-> w.rows[i]]
      /\ \A i \in DOMAIN w.rows : IsRow(w.rows[i])
      /\ \A b \in Of(w.rows, "board") : WalkEnds(w.rows[b].filters)
      /\ \A i \in Of(w.rows, "tile") : RefersToRows(i, w.rows)
      /\ \A i, j \in {x \in DOMAIN w.rows : w.rows[x].table \in {"job", "user", "dbt", "cube"}} :
            Claim(w.rows[i]) = Claim(w.rows[j]) => i = j
      /\ \A p \in w.patches :
            /\ "table" \notin DOMAIN p /\ "email" \notin DOMAIN p
            /\ "update_model" \in w.kinds => "roles" \notin DOMAIN p

\* A list of filters is finite, a position is a natural number, NULL is no id,
\* and a request that runs is not one that is over.
ASSUME FiltersAreFinite == \A f \in FilterLists : IsFiniteSet(DOMAIN f)
ASSUME PositionsAreNaturals ==
    Positions \subseteq Nat /\ \A layout \in Layouts : \A i \in DOMAIN layout : layout[i] \in Nat
ASSUME NoneIsNoId == None \notin Nat
ASSUME FatesAreNoRequests == Requests \cap {"committed", "aborted"} = {}

VARIABLES
    work,        \* the workload
    rows,        \* the committed tables
    nextId,
    dbtFiles,    \* the tenant's dbt directory: model name -> text
    cubeFile,    \* the models in the tenant's Cube file
    runs,        \* Dagster runs, in the order of launch
    tokens,      \* tokens that are valid
    tenant,
    req,         \* what each request is doing
    raced        \* history: <<table, name>> that two requests claimed at once

vars == <<work, rows, nextId, dbtFiles, cubeFile, runs, tokens, tenant, req, raced>>

Idle == [step |-> "idle"]
Active == {r \in Requests : req[r] # Idle}
Does(kind) == kind \in work.kinds

Active0 == [status |-> "active", mapped |-> TRUE]

Init ==
    /\ work \in Workloads
    /\ rows = work.rows
    /\ nextId = Cardinality(DOMAIN work.rows) + 1
    /\ \E f \in DbtFiles(Wanted(rows, "dbt")) : dbtFiles = f
    /\ cubeFile = CubeFile(Wanted(rows, "cube"))
    /\ runs = <<>>
    /\ tokens = work.tokens
    /\ tenant = Active0
    /\ req = [r \in Requests |-> Idle]
    /\ raced = {}

----------------------------------------------------------------------------
(* The start of a request: a valid token, a tenant, the role the route     *)
(* asks for, and what the service checks on the rows it loads.  Anything   *)
(* else is an error response that changes nothing.                         *)

Editors == {t \in tokens : RequireTenantEditor(t)}
Superusers == {t \in tokens : RequireTenantSuperuser(t)}

Begin(r, op, callers, claims, accepted, writes) ==
    /\ req[r] = Idle
    /\ Does(op.kind)
    /\ HasContext(tenant) /\ callers # {}
    /\ accepted
    /\ req' = [s \in Requests |->
                 CASE s = r -> [step |-> "loaded", op |-> op, writes |-> writes, claims |-> claims,
                                lone |-> Active = {}, models |-> {}]
                   [] s \in Active -> [req[s] EXCEPT !.lone = FALSE]
                   [] OTHER -> Idle]
    /\ raced' = raced \cup {c \in claims : \E s \in Active : c \in req[s].claims}
    /\ UNCHANGED <<work, rows, dbtFiles, cubeFile, runs, tokens, tenant>>

\* The same for a request that makes a row.
BeginNew(r, op, callers, claims, accepted, writes) ==
    /\ nextId <= work.ids
    /\ nextId' = nextId + 1
    /\ Begin(r, op, callers, claims, accepted, writes)

BeginOld(r, op, callers, claims, accepted, writes) ==
    /\ Begin(r, op, callers, claims, accepted, writes)
    /\ UNCHANGED nextId

ChartRequest(r) ==
    \/ BeginNew(r, [kind |-> "create_chart"], Editors, {}, TRUE, CreateChart(nextId))
    \/ \E c \in Of(rows, "chart") :
          \/ BeginOld(r, [kind |-> "update_chart", id |-> c, spec |-> 2], Editors, {},
                      TRUE, UpdateChart(rows, c, 2))
          \/ BeginOld(r, [kind |-> "delete_chart", id |-> c], Editors, {},
                      TRUE, DeleteChart(c))

BoardRequest(r) ==
    \/ BeginNew(r, [kind |-> "create_board"], Editors, {}, TRUE, CreateBoard(nextId))
    \/ \E b \in Of(rows, "board") :
          \/ \E name \in {None, "second"}, filters \in FilterLists \cup {None} :
                BeginOld(r, [kind |-> "update_board", id |-> b, name |-> name, filters |-> filters],
                         Editors, {}, filters # None => FiltersValid(filters),
                         UpdateBoard(rows, b, name, filters))
          \/ BeginOld(r, [kind |-> "delete_board", id |-> b], Editors, {},
                      TRUE, DeleteBoard(rows, b))
          \/ \E c \in Of(rows, "chart") \cup {None} :
                BeginNew(r, [kind |-> "add_tile", id |-> b], Editors, {},
                         TRUE, AddTile(rows, nextId, b, c))
          \/ \E layout \in Layouts :
                BeginOld(r, [kind |-> "set_layout", id |-> b, layout |-> layout],
                         Editors, {}, TRUE, SetLayout(rows, b, layout))
    \/ \E i \in Of(rows, "tile") :
          \/ \E p \in Positions :
                BeginOld(r, [kind |-> "update_tile", id |-> i, position |-> p],
                         Editors, {}, TRUE, UpdateTile(rows, i, p))
          \/ BeginOld(r, [kind |-> "delete_tile", id |-> i], Editors, {},
                      TRUE, DeleteTile(i))

ModelRequest(r, table) ==
    \/ \E n \in Names, x \in Texts :
          BeginNew(r, [kind |-> "create_model", table |-> table, name |-> n, text |-> x],
                   Superusers, {<<table, n>>},
                   NameFree(rows, table, n), CreateModel(nextId, table, n, x))
    \/ \E i \in Models(rows, table) :
          \/ \E patch \in work.patches :
                BeginOld(r, [kind |-> "update_model", table |-> table, id |-> i, patch |-> patch],
                         Superusers,
                         IF "name" \in DOMAIN patch THEN {<<table, patch.name>>} ELSE {},
                         PatchAccepted(rows, i, patch), Assign(rows, i, patch))
          \/ BeginOld(r, [kind |-> "delete_model", table |-> table, id |-> i],
                      Superusers, {}, TRUE, DeleteModel(i))

DbtRequest(r) == ModelRequest(r, "dbt")
SemanticRequest(r) == ModelRequest(r, "cube")

RunRequest(r) ==
    \E m \in Models(rows, "dbt") :
       LET name == rows[m].name
           job  == EnsureJob(rows, nextId, name)
           op   == [kind |-> "run_model", id |-> m, job |-> job.job]
       IN  IF job.job = nextId
           THEN BeginNew(r, op, Superusers, {<<"job", name>>},
                         Runnable(rows, m), job.writes)
           ELSE BeginOld(r, op, Superusers, {<<"job", name>>},
                         Runnable(rows, m), job.writes)

UserRequest(r) ==
    \/ \E e \in UserEmails, roles \in RoleSets :
          BeginNew(r, [kind |-> "create_user", email |-> e],
                   {t \in Superusers : GuardRoleAssignment(roles, t)},
                   {<<"user", e>>}, ~EmailTaken(rows, e), CreateUser(nextId, e, roles))
    \/ \E u \in Of(rows, "user") :
          \/ \E patch \in work.patches :
                BeginOld(r, [kind |-> "update_user", id |-> u],
                         {t \in Superusers : GuardRoleAssignment(PatchRoles(patch), t)},
                         {}, TRUE, Assign(rows, u, patch))
          \/ BeginOld(r, [kind |-> "delete_user", id |-> u], Superusers,
                      {}, TRUE, DeleteUser(u))

----------------------------------------------------------------------------
(* The rest of a request. *)

GeneratesCode(op) == op.kind \in {"create_model", "update_model", "delete_model"}
Launches(op) == op.kind = "run_model"

To(r, step) == req' = [req EXCEPT ![r].step = step]

End(r, fate) ==
    /\ req' = [req EXCEPT ![r] = Idle]
    /\ runs' = [k \in DOMAIN runs |->
                  IF runs[k].by = r THEN [runs[k] EXCEPT !.by = fate] ELSE runs[k]]

Abort(r) ==
    /\ req[r] # Idle
    /\ End(r, "aborted")
    /\ UNCHANGED <<work, rows, nextId, dbtFiles, cubeFile, tokens, tenant, raced>>

\* The writes are sent, once no uncommitted writes stand in their way.
Flush(r) ==
    /\ req[r].step = "loaded"
    /\ \A s \in Active \ {r} : req[s].step # "loaded" => ~Waits(rows, req[r].writes, req[s].writes)
    /\ Accepted(rows, req[r].writes)
    /\ To(r, IF GeneratesCode(req[r].op) \/ Launches(req[r].op) THEN "flushed" ELSE "ready")
    /\ UNCHANGED <<work, rows, nextId, dbtFiles, cubeFile, runs, tokens, tenant, raced>>

(* Mutant: the models are listed as they were committed.                   *)
ListModelsCommitted(r) ==
    /\ req[r].step = "flushed" /\ GeneratesCode(req[r].op)
    /\ req' = [req EXCEPT ![r].step = "listed", ![r].models = Wanted(rows, req[r].op.table)]
    /\ UNCHANGED <<work, rows, nextId, dbtFiles, cubeFile, runs, tokens, tenant, raced>>

\* _regenerate reads the models: the committed ones and its own changes.
ListModels(r) ==
    /\ req[r].step = "flushed" /\ GeneratesCode(req[r].op)
    /\ req' = [req EXCEPT ![r].step = "listed",
                 ![r].models = Wanted(Applied(rows, req[r].writes), req[r].op.table)]
    /\ UNCHANGED <<work, rows, nextId, dbtFiles, cubeFile, runs, tokens, tenant, raced>>

\* The files are written before the commit.
WriteFiles(r) ==
    /\ req[r].step = "listed"
    /\ req' = [req EXCEPT ![r].step = "ready", ![r].models = {}]
    /\ IF req[r].op.table = "dbt"
       THEN dbtFiles' \in DbtFiles(req[r].models) /\ UNCHANGED cubeFile
       ELSE cubeFile' = CubeFile(req[r].models) /\ UNCHANGED dbtFiles
    /\ UNCHANGED <<work, rows, nextId, runs, tokens, tenant, raced>>

\* The disk fails half-way, and the request with it.
WriteFails(r) ==
    /\ req[r].step = "listed" /\ req[r].op.table = "dbt"
    /\ dbtFiles' \in PartlyWritten(dbtFiles, req[r].models)
    /\ End(r, "aborted")
    /\ UNCHANGED <<work, rows, nextId, cubeFile, tokens, tenant, raced>>

\* A DagsterError ends the request in 503 and a rollback.
Launch(r) ==
    /\ req[r].step = "flushed" /\ Launches(req[r].op)
    /\ Len(runs) < MaxRuns
    /\ \E answer \in Execute :
          /\ runs' = IF answer = "failed" THEN runs
                     ELSE Append(runs, [job |-> req[r].op.job, state |-> "queued",
                                        by |-> IF answer = "taken" THEN "aborted" ELSE r])
          /\ req' = [req EXCEPT ![r] = IF answer = "answered" THEN [@ EXCEPT !.step = "ready"]
                                       ELSE Idle]
    /\ UNCHANGED <<work, rows, nextId, dbtFiles, cubeFile, tokens, tenant, raced>>

Commit(r) ==
    /\ req[r].step = "ready"
    /\ rows' = Applied(rows, req[r].writes)
    /\ End(r, "committed")
    /\ UNCHANGED <<work, nextId, dbtFiles, cubeFile, tokens, tenant, raced>>

----------------------------------------------------------------------------
(* The other actors. *)

\* run_transform_op: a job that is not there fails the run; a selection that
\* matches no model builds nothing.
RunTransform(k) ==
    LET found == LoadTransform(rows, runs[k].job) IN
    /\ runs[k].state = "queued"
    /\ runs' = [runs EXCEPT ![k].state =
                  IF found = {} THEN "failed"
                  ELSE IF \E j \in found : j.selection \in DOMAIN dbtFiles THEN "built"
                  ELSE "nothing"]
    /\ UNCHANGED <<work, rows, nextId, dbtFiles, cubeFile, tokens, tenant, req, raced>>

LogIn(u) ==
    /\ Does("login") /\ MayLogIn(rows, tenant, u)
    /\ tokens' = tokens \cup Login(rows, u)
    /\ UNCHANGED <<work, rows, nextId, dbtFiles, cubeFile, runs, tenant, req, raced>>

RefreshToken(t) ==
    /\ Does("login") /\ MayRefresh(rows, tenant, t)
    /\ tokens' = tokens \cup Refresh(rows, t)
    /\ UNCHANGED <<work, rows, nextId, dbtFiles, cubeFile, runs, tenant, req, raced>>

Expire(t) ==
    /\ Does("login")
    /\ tokens' = tokens \ {t}
    /\ UNCHANGED <<work, rows, nextId, dbtFiles, cubeFile, runs, tenant, req, raced>>

\* The operator suspends the tenant, or takes it back.
SetStatus(s) ==
    /\ Does("suspend") /\ tenant.status # s
    /\ tenant' = [tenant EXCEPT !.status = s]
    /\ UNCHANGED <<work, rows, nextId, dbtFiles, cubeFile, runs, tokens, req, raced>>

Next ==
    \/ \E r \in Requests :
          \/ ChartRequest(r) \/ BoardRequest(r)
          \/ DbtRequest(r) \/ SemanticRequest(r) \/ RunRequest(r)
          \/ UserRequest(r)
          \/ Flush(r) \/ ListModels(r) \/ WriteFiles(r) \/ WriteFails(r) \/ Launch(r)
          \/ Commit(r) \/ Abort(r)
    \/ \E k \in DOMAIN runs : RunTransform(k)
    \/ \E u \in Of(rows, "user") : LogIn(u)
    \/ \E t \in tokens : RefreshToken(t) \/ Expire(t)
    \/ \E s \in {"active", "suspended"} : SetStatus(s)

Spec == Init /\ [][Next]_vars

----------------------------------------------------------------------------
(* Properties. *)

\* The variables keep their types, and every row refers to rows that exist.
TypeOK ==
    /\ DOMAIN rows \subseteq 1..(nextId - 1) /\ nextId \in 1..(work.ids + 1)
    /\ \A i \in DOMAIN rows : /\ rows[i].table \in {"board", "tile", "chart", "dbt", "cube", "job", "user"}
                              /\ Parents(rows[i]) \subseteq Of(rows, "board") \cup Of(rows, "chart")
    /\ \A r \in Active : req[r].step \in {"loaded", "flushed", "listed", "ready"}
    /\ \A k \in DOMAIN runs : /\ runs[k].state \in {"queued", "failed", "built", "nothing"}
                              /\ runs[k].by \in Active \cup {"committed", "aborted"}

\* What a board request that met no other one does to the tables: an added tile
\* comes last also when tiles were deleted or moved before, a layout moves every
\* tile it names and no other dashboard's, a deletion takes with it what hangs
\* on the row and nothing else
\* (DashboardService.add_tile, set_layout, delete; ChartService.delete).
Without(S) == [i \in DOMAIN rows \ S |-> rows[i]]

LoneEffect(op) ==
    CASE op.kind = "add_tile" ->
           \E new \in DOMAIN rows' :
              /\ rows = [i \in DOMAIN rows' \ {new} |-> rows'[i]]
              /\ \A i \in TilesOf(rows, op.id) : rows[i].position < rows'[new].position
      [] op.kind = "set_layout" ->
           rows' = [i \in DOMAIN rows |->
                      IF i \in TilesOf(rows, op.id) \cap DOMAIN op.layout
                      THEN [rows[i] EXCEPT !.position = op.layout[i]] ELSE rows[i]]
      [] op.kind = "update_tile" -> rows' = [rows EXCEPT ![op.id].position = op.position]
      [] op.kind = "delete_tile" -> rows' = Without({op.id})
      [] op.kind = "delete_chart" ->
           rows' = Without({op.id} \cup {i \in Of(rows, "tile") : rows[i].chart = op.id})
      [] op.kind = "delete_board" -> rows' = Without({op.id} \cup TilesOf(rows, op.id))
      [] OTHER -> TRUE

\* Also beside other requests: no row is lost but by its own deletion, its
\* dashboard's or its chart's, and no position changes but by a request that
\* names the tile.
Frame(op) ==
    /\ op.kind \notin {"delete_tile", "delete_chart", "delete_board", "delete_model", "delete_user"}
         => DOMAIN rows \subseteq DOMAIN rows'
    /\ \A i \in Of(rows, "tile") \cap DOMAIN rows' :
         rows'[i].position # rows[i].position =>
           \/ op.kind = "update_tile" /\ op.id = i
           \/ op.kind = "set_layout" /\ i \in DOMAIN op.layout /\ op.id = rows[i].board

BoardChangesAreWhole ==
    [][\A r \in Requests : Commit(r) =>
         Frame(req[r].op) /\ (req[r].lone => LoneEffect(req[r].op))]_vars

\* The list counts the tiles the page shows, whatever was deleted meanwhile, and
\* the walk from a stored filter up its parents, which the page takes at every
\* change, ends (DashboardService._to_read, list_for_tenant; DashboardUpdate).
BoardsStayWhole ==
    \A b \in Of(rows, "board") :
        /\ TileCount(rows, b) = Cardinality(Shown(rows, b))
        /\ WalkEnds(rows[b].filters)

\* Whatever failed or overlapping requests left behind, the first model request
\* that runs alone and commits leaves exactly the files of the enabled models
\* (DbtModelService._regenerate, SemanticModelService._regenerate).
FilesAreRepaired ==
    [][\A r \in Requests : Commit(r) /\ req[r].lone /\ GeneratesCode(req[r].op) =>
         IF req[r].op.table = "dbt" THEN dbtFiles' \in DbtFiles(Wanted(rows', "dbt"))
         ELSE cubeFile' = Wanted(rows', "cube")]_vars

\* The Dagster run is launched before the job it will load is committed: once
\* the request has committed, the run finds its job; two models have one name,
\* and two jobs one selection, only if two requests claimed it at once, which
\* for an email even then cannot be (TransformService.run_model,
\* _ensure_transform_job, _require_name_free, uq_users_tenant_id_email).
ClaimsAreKept ==
    /\ \A k \in DOMAIN runs : runs[k].by = "committed" => runs[k].job \in Of(rows, "job")
    /\ \A i, j \in {x \in DOMAIN rows : rows[x].table \in {"job", "user", "dbt", "cube"}} :
          i # j /\ Claim(rows[i]) = Claim(rows[j]) =>
            rows[i].table # "user" /\ Claim(rows[i]) \in raced

\* In a tenant without a platform admin no sequence of user requests, logins and
\* refreshes makes one (_guard_role_assignment, AuthService.refresh).
NoAdminFromWithin ==
    /\ \A i \in Of(work.rows, "user") : PlatformAdmin \notin work.rows[i].roles
    /\ \A t \in work.tokens : PlatformAdmin \notin t.roles
    =>
        /\ \A i \in Of(rows, "user") : PlatformAdmin \notin rows[i].roles
        /\ \A t \in tokens : PlatformAdmin \notin t.roles
=============================================================================
