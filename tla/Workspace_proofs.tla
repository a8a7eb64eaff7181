-------------------------- MODULE Workspace_proofs --------------------------
(***************************************************************************)
(* Two inductive invariants, for any number of requests, rows, users and   *)
(* tokens.                                                                 *)
(*                                                                         *)
(* Inv: nobody inside a tenant makes a platform admin.  The role can get   *)
(* into a row only through the writes of a request, into those only past   *)
(* the guard, and past the guard only with a token that has it; a token    *)
(* has the roles of a row.                                                 *)
(*                                                                         *)
(* WorkspaceInv: the rows refer to rows that exist and are told apart by   *)
(* their claims (TablesHold); what every open request is about to write    *)
(* keeps them so, whichever request commits first (RequestsHold), since    *)
(* two open requests never write what the other depends on (PairsHold);    *)
(* the runs find their jobs (RunsHold); and a request that met no other    *)
(* writes and generates what its body asks for of the tables as they are   *)
(* (LoneHolds).                                                            *)
(***************************************************************************)
EXTENDS Workspace, FiniteSetTheorems, SequenceTheorems, WellFoundedInduction, TLAPS

\* A row that is no user, or a user without the role.
Ordinary(row) ==
    /\ "table" \in DOMAIN row
    /\ row.table = "user" => "roles" \in DOMAIN row /\ PlatformAdmin \notin row.roles

\* Writes that cannot make a row any other.
Harmless(writes) ==
    \A i \in DOMAIN writes :
       /\ writes[i].verb \in {"insert", "update", "delete"}
       /\ writes[i].verb = "insert" => Ordinary(writes[i].set)
       /\ writes[i].verb = "update" =>
             /\ "table" \notin DOMAIN writes[i].set
             /\ "roles" \in DOMAIN writes[i].set => PlatformAdmin \notin writes[i].set.roles

OrdinaryRows == \A i \in DOMAIN rows : Ordinary(rows[i])
OrdinaryTokens == \A t \in tokens : PlatformAdmin \notin t.roles
HarmlessRequests ==
    /\ DOMAIN req = Requests
    /\ \A r \in Requests : req[r] # Idle =>
          "writes" \in DOMAIN req[r] /\ Harmless(req[r].writes)

Safe == work \in Workloads /\ OrdinaryRows /\ OrdinaryTokens /\ HarmlessRequests

\* The premise of the property: there is no platform admin at first.
Pristine ==
    /\ \A i \in Of(work.rows, "user") : PlatformAdmin \notin work.rows[i].roles
    /\ \A t \in work.tokens : PlatformAdmin \notin t.roles

Inv == work \in Workloads /\ (Pristine => Safe)

-----------------------------------------------------------------------------
(* What requests write. *)

LEMMA InsertIsHarmless ==
    ASSUME NEW i, NEW row, Ordinary(row)
    PROVE  Harmless(Insert(i, row))
BY DEF Insert, Harmless

LEMMA DeleteIsHarmless ==
    ASSUME NEW S
    PROVE  Harmless(Delete(S))
BY DEF Delete, Harmless

LEMMA NoWritesAreHarmless == Harmless(NoWrites)
BY DEF NoWrites, Harmless

\* An assignment sends some of the columns it is given.
LEMMA AssignIsHarmless ==
    ASSUME NEW i, NEW values, "table" \notin DOMAIN values,
           "roles" \in DOMAIN values => PlatformAdmin \notin values.roles
    PROVE  Harmless(Assign(rows, i, values))
<1> DEFINE changed == {c \in DOMAIN values : rows[i][c] # values[c]}
           sent == [c \in changed |-> values[c]]
<1>1. CASE changed = {}
  BY <1>1, NoWritesAreHarmless DEF Assign
<1>2. CASE changed # {}
  <2>1. Assign(rows, i, values) = [j \in {i} |-> [verb |-> "update", set |-> sent]]
    BY <1>2 DEF Assign
  <2>2. "table" \notin DOMAIN sent
    OBVIOUS
  <2>3. "roles" \in DOMAIN sent => PlatformAdmin \notin sent.roles
    OBVIOUS
  <2> HIDE DEF sent
  <2> QED
    BY <2>1, <2>2, <2>3 DEF Harmless
<1> QED
  BY <1>1, <1>2

\* Harmless writes leave every row ordinary.
LEMMA AppliedIsOrdinary ==
    ASSUME OrdinaryRows, NEW writes, Harmless(writes),
           NEW i \in DOMAIN Applied(rows, writes)
    PROVE  Ordinary(Applied(rows, writes)[i])
<1> DEFINE gone == Sent(writes, "delete")
           left == (DOMAIN rows \cup Sent(writes, "insert")) \ (gone \cup Cascaded(rows, gone))
           row == Applied(rows, writes)[i]
<1>1. i \in left
  BY DEF Applied
<1>2. row = CASE i \notin DOMAIN writes -> rows[i]
              [] i \notin DOMAIN rows   -> writes[i].set
              [] OTHER                  -> Updated(rows[i], writes[i].set)
  BY <1>1 DEF Applied
<1>3. CASE i \notin DOMAIN writes
  <2>1. i \in DOMAIN rows /\ (i \notin DOMAIN rows => FALSE)
    BY <1>1, <1>3 DEF Sent
  <2>2. row = rows[i]
    BY <1>2, <1>3, <2>1
  <2> QED
    BY <2>1, <2>2 DEF OrdinaryRows
<1>4. CASE i \in DOMAIN writes /\ i \notin DOMAIN rows
  <2>1. row = writes[i].set /\ writes[i].verb = "insert"
    BY <1>1, <1>2, <1>4 DEF Sent
  <2> QED
    BY <1>4, <2>1 DEF Harmless
<1>5. CASE i \in DOMAIN writes /\ i \in DOMAIN rows
  <2>1. row = Updated(rows[i], writes[i].set)
    BY <1>2, <1>5
  <2>2. Ordinary(rows[i]) /\ writes[i].verb \in {"insert", "update"}
    BY <1>1, <1>5 DEF OrdinaryRows, Harmless, Sent
  <2>3. CASE writes[i].verb = "insert"
    <3>1. Ordinary(writes[i].set)
      BY <1>5, <2>3 DEF Harmless
    <3> QED
      BY <2>1, <2>2, <3>1 DEF Updated, Ordinary
  <2>4. CASE writes[i].verb = "update"
    <3>1. /\ "table" \notin DOMAIN writes[i].set
          /\ "roles" \in DOMAIN writes[i].set => PlatformAdmin \notin writes[i].set.roles
      BY <1>5, <2>4 DEF Harmless
    <3> QED
      BY <2>1, <2>2, <3>1 DEF Updated, Ordinary
  <2> QED
    BY <2>2, <2>3, <2>4
<1> QED
  BY <1>3, <1>4, <1>5

-----------------------------------------------------------------------------
(* The start of a request. *)

LEMMA BeginIsSafe ==
    ASSUME Safe, NEW r \in Requests, NEW op, NEW callers, NEW claims, NEW accepted,
           NEW writes, Harmless(writes), Begin(r, op, callers, claims, accepted, writes)
    PROVE  Safe'
<1>1. UNCHANGED <<work, rows, tokens>>
  BY DEF Begin
<1>2. req' = [s \in Requests |->
                 CASE s = r -> [step |-> "loaded", op |-> op, writes |-> writes, claims |-> claims,
                                lone |-> Active = {}, models |-> {}]
                   [] s \in Active -> [req[s] EXCEPT !.lone = FALSE]
                   [] OTHER -> Idle]
  BY DEF Begin
<1>3. ASSUME NEW s \in Requests, req'[s] # Idle
      PROVE  "writes" \in DOMAIN req'[s] /\ Harmless(req'[s].writes)
  <2> DEFINE begun == [step |-> "loaded", op |-> op, writes |-> writes, claims |-> claims,
                       lone |-> Active = {}, models |-> {}]
  <2>0. r \notin Active
    BY DEF Begin, Active
  <2>1. CASE s = r
    <3>1. req'[r] = begun
      <4> HIDE DEF begun
      <4> QED
        BY <1>2, <2>0 DEF begun
    <3>2. "writes" \in DOMAIN begun /\ begun.writes = writes
      OBVIOUS
    <3> QED
      BY <2>1, <3>1, <3>2
  <2>2. CASE s # r /\ s \in Active
    <3>1. req'[s] = [req[s] EXCEPT !.lone = FALSE]
      BY <1>2, <2>2
    <3>2. "writes" \in DOMAIN req[s] /\ Harmless(req[s].writes)
      BY <2>2 DEF Active, Safe, HarmlessRequests
    <3> QED
      BY <3>1, <3>2
  <2>3. CASE s # r /\ s \notin Active
    BY <1>2, <1>3, <2>3
  <2> QED
    BY <2>1, <2>2, <2>3
<1>4. DOMAIN req' = Requests
  BY <1>2
<1> QED
  BY <1>1, <1>3, <1>4 DEF Safe, OrdinaryRows, OrdinaryTokens, HarmlessRequests

LEMMA BeginOldIsSafe ==
    ASSUME Safe, NEW r \in Requests, NEW op, NEW callers, NEW claims, NEW accepted,
           NEW writes, Harmless(writes), BeginOld(r, op, callers, claims, accepted, writes)
    PROVE  Safe'
BY BeginIsSafe DEF BeginOld

LEMMA BeginNewIsSafe ==
    ASSUME Safe, NEW r \in Requests, NEW op, NEW callers, NEW claims, NEW accepted,
           NEW writes, Harmless(writes), BeginNew(r, op, callers, claims, accepted, writes)
    PROVE  Safe'
BY BeginIsSafe DEF BeginNew

LEMMA PatchesAreOfColumns ==
    ASSUME Safe, NEW p \in work.patches
    PROVE  /\ "table" \notin DOMAIN p
           /\ "update_model" \in work.kinds => "roles" \notin DOMAIN p
<1>1. work \in Workloads
  BY DEF Safe
<1>2. \A q \in work.patches : /\ "table" \notin DOMAIN q
                              /\ "update_model" \in work.kinds => "roles" \notin DOMAIN q
  BY <1>1, WorkloadsFitTheTables
<1> QED
  BY <1>2

LEMMA ChartRequestIsSafe ==
    ASSUME Safe, NEW r \in Requests, ChartRequest(r)
    PROVE  Safe'
<1>1. CASE BeginNew(r, [kind |-> "create_chart"], Editors, {}, TRUE, CreateChart(nextId))
  <2>1. Harmless(CreateChart(nextId))
    BY InsertIsHarmless DEF CreateChart, Ordinary
  <2> QED
    BY <1>1, <2>1, BeginNewIsSafe
<1>2. ASSUME NEW c \in Of(rows, "chart"),
             BeginOld(r, [kind |-> "update_chart", id |-> c, spec |-> 2], Editors, {},
                      TRUE, UpdateChart(rows, c, 2))
      PROVE  Safe'
  <2>1. Harmless(UpdateChart(rows, c, 2))
    BY AssignIsHarmless DEF UpdateChart
  <2> QED
    BY <1>2, <2>1, BeginOldIsSafe
<1>3. ASSUME NEW c \in Of(rows, "chart"),
             BeginOld(r, [kind |-> "delete_chart", id |-> c], Editors, {}, TRUE, DeleteChart(c))
      PROVE  Safe'
  <2>1. Harmless(DeleteChart(c))
    BY DeleteIsHarmless DEF DeleteChart
  <2> QED
    BY <1>3, <2>1, BeginOldIsSafe
<1> QED
  BY <1>1, <1>2, <1>3 DEF ChartRequest

LEMMA BoardRequestIsSafe ==
    ASSUME Safe, NEW r \in Requests, BoardRequest(r)
    PROVE  Safe'
<1>1. CASE BeginNew(r, [kind |-> "create_board"], Editors, {}, TRUE, CreateBoard(nextId))
  <2>1. Harmless(CreateBoard(nextId))
    BY InsertIsHarmless DEF CreateBoard, NewBoard, Ordinary
  <2> QED
    BY <1>1, <2>1, BeginNewIsSafe
<1>2. ASSUME NEW b \in Of(rows, "board"), NEW name \in {None, "second"},
             NEW filters \in FilterLists \cup {None},
             BeginOld(r, [kind |-> "update_board", id |-> b, name |-> name, filters |-> filters],
                      Editors, {}, filters # None => FiltersValid(filters),
                      UpdateBoard(rows, b, name, filters))
      PROVE  Safe'
  <2> DEFINE given == [name |-> name, filters |-> filters]
             values == [c \in {x \in DOMAIN given : given[x] # None} |-> given[c]]
  <2>1. UpdateBoard(rows, b, name, filters) = Assign(rows, b, values)
    BY DEF UpdateBoard
  <2>2. "table" \notin DOMAIN values /\ "roles" \notin DOMAIN values
    OBVIOUS
  <2> HIDE DEF values
  <2>3. Harmless(UpdateBoard(rows, b, name, filters))
    BY <2>1, <2>2, AssignIsHarmless
  <2> QED
    BY <1>2, <2>3, BeginOldIsSafe
<1>3. ASSUME NEW b \in Of(rows, "board"),
             BeginOld(r, [kind |-> "delete_board", id |-> b], Editors, {},
                      TRUE, DeleteBoard(rows, b))
      PROVE  Safe'
  <2>1. Harmless(DeleteBoard(rows, b))
    BY DeleteIsHarmless DEF DeleteBoard
  <2> QED
    BY <1>3, <2>1, BeginOldIsSafe
<1>4. ASSUME NEW b \in Of(rows, "board"), NEW c \in Of(rows, "chart") \cup {None},
             BeginNew(r, [kind |-> "add_tile", id |-> b], Editors, {},
                      TRUE, AddTile(rows, nextId, b, c))
      PROVE  Safe'
  <2>1. Harmless(AddTile(rows, nextId, b, c))
    BY InsertIsHarmless DEF AddTile, Ordinary
  <2> QED
    BY <1>4, <2>1, BeginNewIsSafe
<1>5. ASSUME NEW b \in Of(rows, "board"), NEW layout \in Layouts,
             BeginOld(r, [kind |-> "set_layout", id |-> b, layout |-> layout],
                      Editors, {}, TRUE, SetLayout(rows, b, layout))
      PROVE  Safe'
  <2>1. Harmless(SetLayout(rows, b, layout))
    BY DEF SetLayout, Harmless
  <2> QED
    BY <1>5, <2>1, BeginOldIsSafe
<1>6. ASSUME NEW i \in Of(rows, "tile"), NEW p \in Positions,
             BeginOld(r, [kind |-> "update_tile", id |-> i, position |-> p],
                      Editors, {}, TRUE, UpdateTile(rows, i, p))
      PROVE  Safe'
  <2>1. Harmless(UpdateTile(rows, i, p))
    BY AssignIsHarmless DEF UpdateTile
  <2> QED
    BY <1>6, <2>1, BeginOldIsSafe
<1>7. ASSUME NEW i \in Of(rows, "tile"),
             BeginOld(r, [kind |-> "delete_tile", id |-> i], Editors, {}, TRUE, DeleteTile(i))
      PROVE  Safe'
  <2>1. Harmless(DeleteTile(i))
    BY DeleteIsHarmless DEF DeleteTile
  <2> QED
    BY <1>7, <2>1, BeginOldIsSafe
<1> QED
  BY <1>1, <1>2, <1>3, <1>4, <1>5, <1>6, <1>7 DEF BoardRequest

\* A model's patch has no roles.
LEMMA ModelRequestIsSafe ==
    ASSUME Safe, NEW r \in Requests, NEW table \in {"dbt", "cube"}, ModelRequest(r, table)
    PROVE  Safe'
<1>1. ASSUME NEW n \in Names, NEW x \in Texts,
             BeginNew(r, [kind |-> "create_model", table |-> table, name |-> n, text |-> x],
                      Superusers, {<<table, n>>},
                      NameFree(rows, table, n), CreateModel(nextId, table, n, x))
      PROVE  Safe'
  <2>1. Harmless(CreateModel(nextId, table, n, x))
    BY InsertIsHarmless DEF CreateModel, Ordinary
  <2> QED
    BY <1>1, <2>1, BeginNewIsSafe
<1>2. ASSUME NEW i \in Models(rows, table), NEW patch \in work.patches, NEW claims,
             BeginOld(r, [kind |-> "update_model", table |-> table, id |-> i, patch |-> patch],
                      Superusers, claims, PatchAccepted(rows, i, patch), Assign(rows, i, patch))
      PROVE  Safe'
  <2>1. "update_model" \in work.kinds
    BY <1>2 DEF BeginOld, Begin, Does
  <2>2. "table" \notin DOMAIN patch /\ "roles" \notin DOMAIN patch
    BY <2>1, PatchesAreOfColumns
  <2>3. Harmless(Assign(rows, i, patch))
    BY <2>2, AssignIsHarmless
  <2> QED
    BY <1>2, <2>3, BeginOldIsSafe
<1>3. ASSUME NEW i \in Models(rows, table),
             BeginOld(r, [kind |-> "delete_model", table |-> table, id |-> i],
                      Superusers, {}, TRUE, DeleteModel(i))
      PROVE  Safe'
  <2>1. Harmless(DeleteModel(i))
    BY DeleteIsHarmless DEF DeleteModel
  <2> QED
    BY <1>3, <2>1, BeginOldIsSafe
<1> QED
  BY <1>1, <1>2, <1>3 DEF ModelRequest

LEMMA RunRequestIsSafe ==
    ASSUME Safe, NEW r \in Requests, RunRequest(r)
    PROVE  Safe'
<1>1. PICK m \in Models(rows, "dbt") :
        LET name == rows[m].name
            job  == EnsureJob(rows, nextId, name)
            op   == [kind |-> "run_model", id |-> m, job |-> job.job]
        IN  IF job.job = nextId
            THEN BeginNew(r, op, Superusers, {<<"job", name>>}, Runnable(rows, m), job.writes)
            ELSE BeginOld(r, op, Superusers, {<<"job", name>>}, Runnable(rows, m), job.writes)
  BY DEF RunRequest
<1> DEFINE job == EnsureJob(rows, nextId, rows[m].name)
           row == [table |-> "job", selection |-> rows[m].name]
<1>2. job.writes \in {NoWrites, Insert(nextId, row)}
  BY DEF EnsureJob
<1>3. Harmless(job.writes)
  <2>1. Ordinary(row)
    BY DEF Ordinary
  <2> QED
    BY <1>2, <2>1, InsertIsHarmless, NoWritesAreHarmless
<1> HIDE DEF job
<1> QED
  BY <1>1, <1>3, BeginNewIsSafe, BeginOldIsSafe DEF job

\* A role that is granted passes the guard, and nobody has the role it looks for.
LEMMA GrantedIsOrdinary ==
    ASSUME Safe, NEW roles, NEW t \in tokens, GuardRoleAssignment(roles, t)
    PROVE  PlatformAdmin \notin roles
BY DEF Safe, OrdinaryTokens, GuardRoleAssignment, RolesOf

LEMMA UserRequestIsSafe ==
    ASSUME Safe, NEW r \in Requests, UserRequest(r)
    PROVE  Safe'
<1>1. ASSUME NEW e \in UserEmails, NEW roles \in RoleSets,
             BeginNew(r, [kind |-> "create_user", email |-> e],
                      {t \in Superusers : GuardRoleAssignment(roles, t)},
                      {<<"user", e>>}, ~EmailTaken(rows, e), CreateUser(nextId, e, roles))
      PROVE  Safe'
  <2>1. PICK t \in tokens : GuardRoleAssignment(roles, t)
    BY <1>1 DEF BeginNew, Begin, Superusers
  <2>2. Harmless(CreateUser(nextId, e, roles))
    BY <2>1, GrantedIsOrdinary, InsertIsHarmless DEF CreateUser, Ordinary
  <2> QED
    BY <1>1, <2>2, BeginNewIsSafe
<1>2. ASSUME NEW u \in Of(rows, "user"), NEW patch \in work.patches,
             BeginOld(r, [kind |-> "update_user", id |-> u],
                      {t \in Superusers : GuardRoleAssignment(PatchRoles(patch), t)},
                      {}, TRUE, Assign(rows, u, patch))
      PROVE  Safe'
  <2>1. PICK t \in tokens : GuardRoleAssignment(PatchRoles(patch), t)
    BY <1>2 DEF BeginOld, Begin, Superusers
  <2>2. "roles" \in DOMAIN patch => PlatformAdmin \notin patch.roles
    BY <2>1, GrantedIsOrdinary DEF PatchRoles
  <2>3. "table" \notin DOMAIN patch
    BY PatchesAreOfColumns
  <2>4. Harmless(Assign(rows, u, patch))
    BY <2>2, <2>3, AssignIsHarmless
  <2> QED
    BY <1>2, <2>4, BeginOldIsSafe
<1>3. ASSUME NEW u \in Of(rows, "user"),
             BeginOld(r, [kind |-> "delete_user", id |-> u], Superusers, {}, TRUE, DeleteUser(u))
      PROVE  Safe'
  <2>1. Harmless(DeleteUser(u))
    BY DeleteIsHarmless DEF DeleteUser
  <2> QED
    BY <1>3, <2>1, BeginOldIsSafe
<1> QED
  BY <1>1, <1>2, <1>3 DEF UserRequest

-----------------------------------------------------------------------------
(* The rest of a request changes no writes, and what is committed was      *)
(* harmless.                                                               *)

LEMMA RestIsSafe ==
    ASSUME Safe, NEW r \in Requests, req[r] # Idle, UNCHANGED <<work, rows, tokens>>,
           DOMAIN req' = Requests,
           \A s \in Requests : s # r => req'[s] = req[s],
           \/ req'[r] = Idle
           \/ "writes" \in DOMAIN req'[r] /\ req'[r].writes = req[r].writes
    PROVE  Safe'
<1>1. ASSUME NEW s \in Requests, req'[s] # Idle
      PROVE  "writes" \in DOMAIN req'[s] /\ Harmless(req'[s].writes)
  <2>1. CASE s = r
    <3>1. "writes" \in DOMAIN req'[r] /\ req'[r].writes = req[r].writes
      BY <1>1, <2>1
    <3>2. Harmless(req[r].writes)
      BY DEF Safe, HarmlessRequests
    <3> QED
      BY <2>1, <3>1, <3>2
  <2>2. CASE s # r
    BY <1>1, <2>2 DEF Safe, HarmlessRequests
  <2> QED
    BY <2>1, <2>2
<1> QED
  BY <1>1 DEF Safe, OrdinaryRows, OrdinaryTokens, HarmlessRequests

LEMMA EndIsSafe ==
    ASSUME Safe, NEW r \in Requests, req[r] # Idle, UNCHANGED <<work, rows, tokens>>,
           req' = [req EXCEPT ![r] = Idle]
    PROVE  Safe'
BY RestIsSafe DEF Safe, HarmlessRequests

LEMMA StepIsSafe ==
    ASSUME Safe, NEW r \in Requests, req[r] # Idle, UNCHANGED <<work, rows, tokens>>,
           NEW step, req' = [req EXCEPT ![r].step = step]
    PROVE  Safe'
<1>1. DOMAIN req = Requests /\ "writes" \in DOMAIN req[r]
  BY DEF Safe, HarmlessRequests
<1>2. DOMAIN req' = Requests /\ \A s \in Requests : s # r => req'[s] = req[s]
  BY <1>1
<1>3. "writes" \in DOMAIN req'[r] /\ req'[r].writes = req[r].writes
  BY <1>1
<1> QED
  BY <1>2, <1>3, RestIsSafe

LEMMA ListingIsSafe ==
    ASSUME Safe, NEW r \in Requests, req[r] # Idle, UNCHANGED <<work, rows, tokens>>,
           NEW step, NEW models, req' = [req EXCEPT ![r].step = step, ![r].models = models]
    PROVE  Safe'
<1>1. DOMAIN req = Requests /\ "writes" \in DOMAIN req[r]
  BY DEF Safe, HarmlessRequests
<1>2. DOMAIN req' = Requests /\ \A s \in Requests : s # r => req'[s] = req[s]
  BY <1>1
<1>3. "writes" \in DOMAIN req'[r] /\ req'[r].writes = req[r].writes
  BY <1>1
<1> QED
  BY <1>2, <1>3, RestIsSafe

LEMMA RequestStepIsSafe ==
    ASSUME Safe, NEW r \in Requests,
           \/ Flush(r) \/ ListModels(r) \/ WriteFiles(r) \/ WriteFails(r)
           \/ Launch(r) \/ Abort(r)
    PROVE  Safe'
<1>0. Idle.step = "idle"
  BY DEF Idle
<1>1. CASE Flush(r)
  <2>1. req[r] # Idle /\ UNCHANGED <<work, rows, tokens>>
    BY <1>0, <1>1 DEF Flush
  <2>2. CASE req' = [req EXCEPT ![r].step = "flushed"]
    BY <2>1, <2>2, StepIsSafe
  <2>3. CASE req' = [req EXCEPT ![r].step = "ready"]
    BY <2>1, <2>3, StepIsSafe
  <2> QED
    BY <1>1, <2>2, <2>3 DEF Flush, To
<1>2. CASE ListModels(r)
  BY <1>0, <1>2, ListingIsSafe DEF ListModels
<1>3. CASE WriteFiles(r)
  BY <1>0, <1>3, ListingIsSafe DEF WriteFiles
<1>4. CASE WriteFails(r)
  <2>1. req[r] # Idle /\ UNCHANGED <<work, rows, tokens>>
    BY <1>0, <1>4 DEF WriteFails
  <2>2. req' = [req EXCEPT ![r] = Idle]
    BY <1>4 DEF WriteFails, End
  <2> QED
    BY <2>1, <2>2, EndIsSafe
<1>5. CASE Launch(r)
  <2>1. PICK answer \in Execute :
            req' = [req EXCEPT ![r] =
                      IF answer = "answered" THEN [@ EXCEPT !.step = "ready"] ELSE Idle]
    BY <1>5 DEF Launch
  <2>2. DOMAIN req = Requests
    BY DEF Safe, HarmlessRequests
  <2>3. req[r] # Idle /\ UNCHANGED <<work, rows, tokens>>
    BY <1>0, <1>5 DEF Launch
  <2>4. CASE answer = "answered"
    <3>1. req' = [req EXCEPT ![r].step = "ready"]
      BY <2>1, <2>2, <2>4
    <3> QED
      BY <2>3, <3>1, StepIsSafe
  <2>5. CASE answer # "answered"
    <3>1. req' = [req EXCEPT ![r] = Idle]
      BY <2>1, <2>2, <2>5
    <3> QED
      BY <2>3, <3>1, EndIsSafe
  <2> QED
    BY <2>4, <2>5
<1>6. CASE Abort(r)
  <2>1. req[r] # Idle /\ UNCHANGED <<work, rows, tokens>>
    BY <1>6 DEF Abort
  <2>2. req' = [req EXCEPT ![r] = Idle]
    BY <1>6 DEF Abort, End
  <2> QED
    BY <2>1, <2>2, EndIsSafe
<1> QED
  BY <1>1, <1>2, <1>3, <1>4, <1>5, <1>6

LEMMA CommitIsSafe ==
    ASSUME Safe, NEW r \in Requests, Commit(r)
    PROVE  Safe'
<1>1. req[r] # Idle
  BY DEF Commit, Idle
<1>2. OrdinaryRows'
  <2>1. Harmless(req[r].writes)
    BY <1>1 DEF Safe, HarmlessRequests
  <2>2. rows' = Applied(rows, req[r].writes)
    BY DEF Commit
  <2> QED
    BY <2>1, <2>2, AppliedIsOrdinary DEF Safe, OrdinaryRows
<1>3. HarmlessRequests'
  <2>1. req' = [req EXCEPT ![r] = Idle]
    BY DEF Commit, End
  <2> QED
    BY <2>1 DEF Safe, HarmlessRequests
<1> QED
  BY <1>2, <1>3 DEF Commit, Safe, OrdinaryTokens

-----------------------------------------------------------------------------
(* The other actors.                                                       *)

\* A token has the roles of a user's row.
LEMMA MintedIsOrdinary ==
    ASSUME Safe, NEW u \in Of(rows, "user"), NEW kind
    PROVE  PlatformAdmin \notin Mint(kind, u, rows[u].roles).roles
BY DEF Safe, OrdinaryRows, Ordinary, Of, Mint

LEMMA OthersAreSafe ==
    ASSUME Safe,
           \/ \E k \in DOMAIN runs : RunTransform(k)
           \/ \E u \in Of(rows, "user") : LogIn(u)
           \/ \E t \in tokens : RefreshToken(t) \/ Expire(t)
           \/ \E s \in {"active", "suspended"} : SetStatus(s)
    PROVE  Safe'
<1>1. CASE UNCHANGED <<work, rows, tokens, req>>
  BY <1>1 DEF Safe, OrdinaryRows, OrdinaryTokens, HarmlessRequests
<1>2. ASSUME UNCHANGED <<work, rows, req>>, OrdinaryTokens'
      PROVE  Safe'
  BY <1>2 DEF Safe, OrdinaryRows, HarmlessRequests
<1>3. ASSUME NEW k, RunTransform(k)
      PROVE  Safe'
  BY <1>1, <1>3 DEF RunTransform
<1>4. ASSUME NEW u \in Of(rows, "user"), LogIn(u)
      PROVE  Safe'
  <2>1. \A t \in Login(rows, u) : PlatformAdmin \notin t.roles
    BY MintedIsOrdinary DEF Login
  <2>2. OrdinaryTokens'
    BY <1>4, <2>1 DEF LogIn, Safe, OrdinaryTokens
  <2> QED
    BY <1>2, <1>4, <2>2 DEF LogIn
<1>5. ASSUME NEW t \in tokens, RefreshToken(t)
      PROVE  Safe'
  <2>1. t.user \in Of(rows, "user")
    BY <1>5 DEF RefreshToken, MayRefresh, MayLogIn, Of
  <2>2. \A n \in Refresh(rows, t) : PlatformAdmin \notin n.roles
    BY <2>1, MintedIsOrdinary DEF Refresh
  <2>3. OrdinaryTokens'
    BY <1>5, <2>2 DEF RefreshToken, Safe, OrdinaryTokens
  <2> QED
    BY <1>2, <1>5, <2>3 DEF RefreshToken
<1>6. ASSUME NEW t \in tokens, Expire(t)
      PROVE  Safe'
  <2>1. OrdinaryTokens'
    BY <1>6 DEF Expire, Safe, OrdinaryTokens
  <2> QED
    BY <1>2, <1>6, <2>1 DEF Expire
<1>7. ASSUME NEW s, SetStatus(s)
      PROVE  Safe'
  BY <1>1, <1>7 DEF SetStatus
<1> QED
  BY <1>3, <1>4, <1>5, <1>6, <1>7

-----------------------------------------------------------------------------
(* The theorem about the platform admins.                                  *)

LEMMA InitEstablishesInv == Init => Inv
<1> SUFFICES ASSUME Init, Pristine
             PROVE  Safe
  BY DEF Init, Inv
<1>1. work \in Workloads /\ rows = work.rows /\ tokens = work.tokens
  BY DEF Init
<1>2. ASSUME NEW i \in DOMAIN rows
      PROVE  Ordinary(rows[i])
  <2>1. IsRow(work.rows[i])
    BY <1>1, <1>2, WorkloadsFitTheTables
  <2> QED
    BY <1>1, <1>2, <2>1 DEF Pristine, Of, Ordinary, IsRow
<1>3. HarmlessRequests
  BY DEF Init, HarmlessRequests
<1> QED
  BY <1>1, <1>2, <1>3 DEF Safe, OrdinaryRows, OrdinaryTokens, Pristine

LEMMA NextPreservesSafe ==
    ASSUME Safe, [Next]_vars
    PROVE  Safe'
<1>1. ASSUME NEW r \in Requests,
             \/ ChartRequest(r) \/ BoardRequest(r)
             \/ DbtRequest(r) \/ SemanticRequest(r) \/ RunRequest(r) \/ UserRequest(r)
      PROVE  Safe'
  <2>1. CASE ChartRequest(r) \/ BoardRequest(r)
    BY <2>1, ChartRequestIsSafe, BoardRequestIsSafe
  <2>2. CASE DbtRequest(r) \/ SemanticRequest(r)
    BY <2>2, ModelRequestIsSafe DEF DbtRequest, SemanticRequest
  <2>3. CASE RunRequest(r) \/ UserRequest(r)
    BY <2>3, RunRequestIsSafe, UserRequestIsSafe
  <2> QED
    BY <1>1, <2>1, <2>2, <2>3
<1>2. ASSUME NEW r \in Requests,
             \/ Flush(r) \/ ListModels(r) \/ WriteFiles(r) \/ WriteFails(r)
             \/ Launch(r) \/ Abort(r) \/ Commit(r)
      PROVE  Safe'
  BY <1>2, RequestStepIsSafe, CommitIsSafe
<1>3. CASE UNCHANGED vars
  BY <1>3 DEF vars, Safe, OrdinaryRows, OrdinaryTokens, HarmlessRequests
<1> QED
  BY <1>1, <1>2, <1>3, OthersAreSafe DEF Next

LEMMA NextPreservesInv == Inv /\ [Next]_vars => Inv'
<1> SUFFICES ASSUME Inv, [Next]_vars
             PROVE  Inv'
  OBVIOUS
<1>1. work' = work
  <2>1. ASSUME NEW r \in Requests,
               \/ ChartRequest(r) \/ BoardRequest(r)
               \/ DbtRequest(r) \/ SemanticRequest(r) \/ RunRequest(r) \/ UserRequest(r)
        PROVE  work' = work
    <3>1. ASSUME NEW op, NEW callers, NEW claims, NEW accepted, NEW writes,
                 \/ BeginOld(r, op, callers, claims, accepted, writes)
                 \/ BeginNew(r, op, callers, claims, accepted, writes)
          PROVE  work' = work
      BY <3>1 DEF BeginOld, BeginNew, Begin
    <3>2. CASE ChartRequest(r)
      BY <3>1, <3>2, Zenon DEF ChartRequest
    <3>3. CASE BoardRequest(r)
      BY <3>1, <3>3, Zenon DEF BoardRequest
    <3>4. CASE DbtRequest(r) \/ SemanticRequest(r)
      BY <3>1, <3>4, Zenon DEF DbtRequest, SemanticRequest, ModelRequest
    <3>5. CASE RunRequest(r)
      BY <3>1, <3>5, Zenon DEF RunRequest
    <3>6. CASE UserRequest(r)
      BY <3>1, <3>6, Zenon DEF UserRequest
    <3> QED
      BY <2>1, <3>2, <3>3, <3>4, <3>5, <3>6
  <2>2. ASSUME NEW r \in Requests,
               \/ Flush(r) \/ ListModels(r) \/ WriteFiles(r) \/ WriteFails(r)
               \/ Launch(r) \/ Abort(r) \/ Commit(r)
        PROVE  work' = work
    BY <2>2 DEF Flush, ListModels, WriteFiles, WriteFails, Launch, Abort, Commit
  <2>3. CASE \/ \E k \in DOMAIN runs : RunTransform(k)
             \/ \E u \in Of(rows, "user") : LogIn(u)
             \/ \E t \in tokens : RefreshToken(t) \/ Expire(t)
             \/ \E s \in {"active", "suspended"} : SetStatus(s)
    BY <2>3 DEF RunTransform, LogIn, RefreshToken, Expire, SetStatus
  <2>4. CASE UNCHANGED vars
    BY <2>4 DEF vars
  <2> QED
    BY <2>1, <2>2, <2>3, <2>4 DEF Next
<1> QED
  BY <1>1, NextPreservesSafe DEF Inv, Pristine

LEMMA InvIsEnough == Inv => NoAdminFromWithin
BY DEF Inv, Safe, Pristine, OrdinaryRows, OrdinaryTokens, Ordinary, NoAdminFromWithin, Of

\* Requests, logins and refreshes make no platform admin in a tenant that has
\* none, however many of them overlap or fail, for any users, roles and tokens
\* (_guard_role_assignment, UserService, AuthService.login, refresh).
THEOREM NobodyMakesAnAdmin == Spec => []NoAdminFromWithin
<1>1. Init => Inv
  BY InitEstablishesInv
<1>2. Inv /\ [Next]_vars => Inv'
  BY NextPreservesInv
<1>3. Inv => NoAdminFromWithin
  BY InvIsEnough
<1> QED
  BY <1>1, <1>2, <1>3, PTL DEF Spec

-----------------------------------------------------------------------------
(* The rows, the open requests and the runs.                               *)

Kinds == {"board", "tile", "chart", "dbt", "cube", "job", "user"}

\* Tables of which a request claims a name before it writes it.
Claimed == {"dbt", "cube", "job"}

\* A row of its table that is whole by itself.
WholeRow(row) == IsRow(row) /\ (row.table = "board" => WalkEnds(row.filters))

TablesHold ==
    /\ rows = [i \in DOMAIN rows |-> rows[i]]
    /\ nextId \in 1..(work.ids + 1) /\ DOMAIN rows \subseteq 1..(nextId - 1)
    /\ \A i \in DOMAIN rows : WholeRow(rows[i])
    /\ \A i \in Of(rows, "tile") : RefersToRows(i, rows)
    /\ \A i, j \in Of(rows, "user") : rows[i].email = rows[j].email => i = j
    /\ \A i, j \in DOMAIN rows :
          i # j /\ rows[i].table \in Claimed /\ Claim(rows[i]) = Claim(rows[j]) => Claim(rows[i]) \in raced

Pending(r) == Sent(req[r].writes, "insert")

\* An id that was handed out before and is no longer about to be inserted is, if
\* it is still there, that of a row of this table; and an id of a tile, of one on
\* this dashboard.
Known(i, table) ==
    /\ i \in 1..(nextId - 1)
    /\ \A s \in Active : i \notin Pending(s)
    /\ i \in DOMAIN rows => rows[i].table = table
KnownOn(i, b) == i \in DOMAIN rows => rows[i].board = b

\* No row but this one has the claim, or two requests have raced for it.
Unclaimed(i, c) ==
    c \in raced \/ \A j \in DOMAIN rows \ {i} : rows[j].table \in Claimed => Claim(rows[j]) # c

\* What a request inserts, updates and deletes.
NewRow(i, row, q) ==
    /\ DOMAIN q.writes = {i} /\ i \in 1..(nextId - 1) /\ i \notin DOMAIN rows
    /\ WholeRow(row)
    /\ row.table = "tile" =>
          /\ Known(row.board, "board")
          /\ row.chart # None => Known(row.chart, "chart")
    /\ row.table \in Claimed => Claim(row) \in q.claims /\ Unclaimed(i, Claim(row))

Moves(op, i) ==
    \/ op.kind = "update_tile" /\ op.id = i
    \/ op.kind = "set_layout" /\ i \in DOMAIN op.layout /\ KnownOn(i, op.id)

Change(i, set, q) ==
    \E table \in Kinds :
       /\ Known(i, table) /\ "table" \notin DOMAIN set
       /\ table = "board" /\ "filters" \in DOMAIN set => WalkEnds(set.filters)
       /\ table = "tile" =>
             /\ {"board", "chart", "kind"} \cap DOMAIN set = {}
             /\ "position" \in DOMAIN set => set.position \in Nat /\ Moves(q.op, i)
       /\ table \in {"dbt", "cube"} /\ "name" \in DOMAIN set =>
             /\ DOMAIN q.writes = {i}
             /\ <<table, set.name>> \in q.claims /\ Unclaimed(i, <<table, set.name>>)
       /\ table = "job" => "selection" \notin DOMAIN set
       /\ table = "user" => "email" \notin DOMAIN set

Deletions == {"delete_tile", "delete_chart", "delete_board", "delete_model", "delete_user"}

Removal(i, q) == q.op.kind \in Deletions /\ \E table \in Kinds \ {"job"} : Known(i, table)

Writes(q) ==
    \A i \in DOMAIN q.writes :
       /\ q.writes[i].verb \in {"insert", "update", "delete"}
       /\ q.writes[i].verb = "insert" => NewRow(i, q.writes[i].set, q)
       /\ q.writes[i].verb = "update" => Change(i, q.writes[i].set, q)
       /\ q.writes[i].verb = "delete" => Removal(i, q)

\* The job of a run is there, or about to be.
HasJob(q) ==
    \/ q.op.job \in Of(rows, "job")
    \/ /\ q.op.job \in DOMAIN q.writes
       /\ q.writes[q.op.job].verb = "insert" /\ q.writes[q.op.job].set.table = "job"

IsRequest(q) ==
    /\ DOMAIN q = {"step", "op", "writes", "claims", "lone", "models"}
    /\ q.step \in {"loaded", "flushed", "listed", "ready"} /\ q.lone \in BOOLEAN
    /\ GeneratesCode(q.op) => q.op.table \in {"dbt", "cube"}
    /\ q.step = "listed" => GeneratesCode(q.op)
    /\ Launches(q.op) => HasJob(q)
    /\ Writes(q)

RequestsHold ==
    /\ DOMAIN req = Requests
    /\ \A r \in Active : IsRequest(req[r])

Flushed == {r \in Active : req[r].step # "loaded"}

\* Requests beside each other.
PairsHold ==
    /\ \A r, s \in Active : r # s =>
          /\ Pending(r) \cap Pending(s) = {}
          /\ req[r].claims \cap req[s].claims \subseteq raced
          /\ ~req[r].lone
    /\ \A r \in Flushed : Accepted(rows, req[r].writes)
    /\ \A r, s \in Flushed : r # s => ~Waits(rows, req[r].writes, req[s].writes)

RunsHold ==
    /\ \E S : runs \in Seq(S)
    /\ \A k \in DOMAIN runs :
          /\ DOMAIN runs[k] = {"job", "state", "by"}
          /\ runs[k].state \in {"queued", "failed", "built", "nothing"}
          /\ runs[k].by \in Active \cup {"committed", "aborted"}
          /\ runs[k].by = "committed" => runs[k].job \in Of(rows, "job")
          /\ runs[k].by \in Active =>
                /\ req[runs[k].by].step = "ready" /\ Launches(req[runs[k].by].op)
                /\ runs[k].job = req[runs[k].by].op.job

\* What a request that runs alone is about to write is what its body asks for
\* of the tables as they are, and its files are those of the models it leaves.
Asked(op, writes) ==
    /\ op.kind = "add_tile" =>
          \E i, row : /\ writes = Insert(i, row)
                      /\ \A t \in TilesOf(rows, op.id) : rows[t].position < row.position
    /\ op.kind = "set_layout" => writes = SetLayout(rows, op.id, op.layout)
    /\ op.kind = "update_tile" =>
          op.id \in Of(rows, "tile") /\ writes = UpdateTile(rows, op.id, op.position)
    /\ op.kind = "delete_tile" => op.id \in Of(rows, "tile") /\ writes = DeleteTile(op.id)
    /\ op.kind = "delete_chart" => op.id \in Of(rows, "chart") /\ writes = DeleteChart(op.id)
    /\ op.kind = "delete_board" => op.id \in Of(rows, "board") /\ writes = DeleteBoard(rows, op.id)

Leaves(q) == Wanted(Applied(rows, q.writes), q.op.table)

LoneHolds ==
    \A r \in Active : req[r].lone =>
       /\ Asked(req[r].op, req[r].writes)
       /\ req[r].step = "listed" => req[r].models = Leaves(req[r])
       /\ req[r].step = "ready" /\ GeneratesCode(req[r].op) =>
             IF req[r].op.table = "dbt" THEN dbtFiles \in DbtFiles(Leaves(req[r]))
             ELSE cubeFile = CubeFile(Leaves(req[r]))

WorkspaceInv ==
    work \in Workloads /\ TablesHold /\ RequestsHold /\ PairsHold /\ RunsHold /\ LoneHolds

-----------------------------------------------------------------------------
(* Induction without a predicate as a parameter: a set of natural numbers  *)
(* that is not empty has a least element.                                  *)

LEMMA Least ==
    ASSUME NEW T, T \subseteq Nat, T # {}
    PROVE  \E x \in T : \A y \in T : x <= y
<1> DEFINE F == {1..n : n \in T}
<1>1. F # {} /\ \A s \in F : s \in SUBSET Nat /\ IsFiniteSet(s)
  <2>1. ASSUME NEW n \in T PROVE 1..n \in SUBSET Nat /\ IsFiniteSet(1..n)
    <3>1. n \in Int
      OBVIOUS
    <3> QED
      BY <3>1, FS_Interval
  <2> QED
    BY <2>1
<1>2. PICK s \in F : \A t \in F : ~ (<<t, s>> \in StrictSubsetOrdering(Nat))
  <2>1. F \subseteq FiniteSubsetsOf(Nat)
    BY <1>1 DEF FiniteSubsetsOf
  <2>2. IsWellFoundedOn(StrictSubsetOrdering(Nat), FiniteSubsetsOf(Nat))
    BY FS_StrictSubsetOrderingWellFounded
  <2> HIDE DEF F
  <2> QED
    BY <1>1, <2>1, <2>2, WFMin
<1>3. PICK x \in T : s = 1..x
  OBVIOUS
<1>4. ASSUME NEW y \in T, y < x PROVE FALSE
  <2>1. 1..y \in F /\ 1..y \subseteq 1..x /\ x \in 1..x /\ x \notin 1..y
    BY <1>4
  <2>2. <<1..y, s>> \in StrictSubsetOrdering(Nat)
    BY <1>1, <1>3, <2>1 DEF StrictSubsetOrdering
  <2> QED
    BY <1>2, <2>1, <2>2
<1> QED
  BY <1>4

\* A finite set of natural numbers has a greatest element: the cardinalities of
\* its subsets without one have no least element.
LEMMA Greatest ==
    ASSUME NEW T, T \subseteq Nat, T # {}, IsFiniteSet(T)
    PROVE  \E x \in T : \A y \in T : y <= x
<1> DEFINE Bad == {S \in SUBSET T : S # {} /\ ~\E x \in S : \A y \in S : y <= x}
           sizes == {Cardinality(S) : S \in Bad}
<1> SUFFICES ASSUME T \in Bad PROVE FALSE
  OBVIOUS
<1>1. \A S \in Bad : IsFiniteSet(S) /\ Cardinality(S) \in Nat
  BY FS_Subset, FS_CardinalityType
<1>2. sizes \subseteq Nat /\ sizes # {}
  BY <1>1
<1>3. PICK n \in sizes : \A m \in sizes : n <= m
  BY <1>2, Least
<1>4. PICK S \in Bad : n = Cardinality(S)
  OBVIOUS
<1>5. PICK a \in S : TRUE
  OBVIOUS
<1> DEFINE R == {y \in S : y > a}
<1>6. R # {} /\ R \in SUBSET T
  BY <1>4, <1>5
<1>7. R \in Bad
  <2>1. ASSUME NEW x \in R, \A y \in R : y <= x PROVE \A y \in S : y <= x
    BY <1>5, <2>1
  <2> QED
    BY <1>6, <2>1
<1>8. R \subseteq S \ {a} /\ Cardinality(S \ {a}) = Cardinality(S) - 1 /\ IsFiniteSet(S \ {a})
  <2>1. IsFiniteSet(S)
    BY <1>1, <1>4
  <2>2. IsFiniteSet(S \ {a}) /\ Cardinality(S \ {a}) = Cardinality(S) - 1
    BY <1>5, <2>1, FS_RemoveElement
  <2>3. a \in Nat
    BY <1>4, <1>5
  <2> QED
    BY <2>2, <2>3
<1>9. Cardinality(R) <= Cardinality(S) - 1
  <2> HIDE DEF R
  <2>1. PICK Q : Q = S \ {a}
    OBVIOUS
  <2>2. R \in SUBSET Q /\ IsFiniteSet(Q)
    BY <1>8, <2>1
  <2>3. Cardinality(R) <= Cardinality(Q)
    BY <2>2, FS_Subset
  <2> QED
    BY <1>8, <2>1, <2>3
<1>10. Cardinality(R) \in sizes
  BY <1>7
<1>11. Cardinality(R) \in Nat /\ Cardinality(S) \in Nat /\ Cardinality(S) <= Cardinality(R)
  BY <1>1, <1>3, <1>4, <1>7, <1>10
<1> QED
  BY <1>9, <1>11

-----------------------------------------------------------------------------
(* What the services compute.                                              *)

\* The position of an added tile is beyond those of the dashboard's tiles.
LEMMA NextPositionIsBeyond ==
    ASSUME NEW all, NEW b, IsFiniteSet(DOMAIN all),
           \A i \in TilesOf(all, b) : all[i].position \in Nat
    PROVE  /\ NextPosition(all, b) \in Nat
           /\ \A i \in TilesOf(all, b) : all[i].position < NextPosition(all, b)
<1> DEFINE taken == {all[i].position : i \in TilesOf(all, b)}
<1>1. CASE taken = {}
  BY <1>1 DEF NextPosition
<1>2. CASE taken # {}
  <2>1. IsFiniteSet(TilesOf(all, b))
    <3>1. TilesOf(all, b) \subseteq DOMAIN all
      BY DEF TilesOf, Of
    <3> QED
      BY <3>1, FS_Subset
  <2>2. taken \subseteq Nat
    OBVIOUS
  <2>3. IsFiniteSet(taken)
    <3> DEFINE f == [i \in TilesOf(all, b) |-> all[i].position]
    <3>1. f \in Surjection(TilesOf(all, b), taken)
      BY DEF Surjection
    <3> HIDE DEF f, taken
    <3> QED
      BY <2>1, <3>1, FS_Surjection
  <2> DEFINE p == CHOOSE p \in taken : \A q \in taken : q <= p
  <2>4. p \in taken /\ \A q \in taken : q <= p
    <3> HIDE DEF taken
    <3> QED
      BY <1>2, <2>2, <2>3, Greatest
  <2>5. NextPosition(all, b) = p + 1
    BY <1>2 DEF NextPosition
  <2>6. \A i \in TilesOf(all, b) : all[i].position \in taken
    OBVIOUS
  <2> HIDE DEF taken, p
  <2> QED
    BY <2>2, <2>4, <2>5, <2>6
<1> QED
  BY <1>1, <1>2

\* Filters whose walk is empty after as many steps as there are filters have no
\* loop: a loop stays in the walk.
LEMMA WalkFindsLoops ==
    ASSUME NEW filters, IsFiniteSet(DOMAIN filters), FiltersValid(filters)
    PROVE  WalkEnds(filters)
<1> DEFINE n == Cardinality(DOMAIN filters)
           up(i) == {j \in DOMAIN filters : filters[j].id = filters[i].parent}
           Is(w, m) == w = [k \in 0..m |-> IF k = 0 THEN DOMAIN filters
                                           ELSE UNION {up(i) : i \in w[k - 1]}]
           walk == CHOOSE w : Is(w, n)
<1>1. n \in Nat
  BY FS_CardinalityType
<1>2. walk[n] = {}
  BY DEF FiltersValid
<1> HIDE DEF n
<1>3. ASSUME NEW m \in Nat PROVE \E w : Is(w, m)
  <2> DEFINE T == {k \in Nat : ~\E w : Is(w, k)}
  <2> SUFFICES ASSUME T # {} PROVE FALSE
    OBVIOUS
  <2>1. PICK x \in T : \A y \in T : x <= y
    BY Least
  <2>2. x # 0
    <3> DEFINE w == [k \in 0..0 |-> DOMAIN filters]
    <3>1. Is(w, 0)
      OBVIOUS
    <3> HIDE DEF w
    <3> QED
      BY <3>1
  <2>3. PICK w : Is(w, x - 1)
    <3>1. x - 1 \in Nat /\ x - 1 \notin T
      <4> HIDE DEF Is
      <4> QED
        BY <2>1, <2>2
    <3> HIDE DEF Is
    <3> QED
      BY <3>1
  <2> DEFINE v == [k \in 0..x |-> IF k = 0 THEN DOMAIN filters ELSE UNION {up(i) : i \in w[k - 1]}]
  <2>4. ASSUME NEW k \in 0..(x - 1) PROVE v[k] = w[k]
    <3>1. k \in 0..x
      BY <2>1
    <3>2. w[k] = IF k = 0 THEN DOMAIN filters ELSE UNION {up(i) : i \in w[k - 1]}
      BY <2>3
    <3> QED
      BY <3>1, <3>2
  <2>5. ASSUME NEW k \in 0..x, k # 0 PROVE v[k - 1] = w[k - 1]
    <3>1. k - 1 \in 0..(x - 1)
      BY <2>1, <2>5
    <3> HIDE DEF v
    <3> QED
      BY <2>4, <3>1
  <2>6. Is(v, x)
    BY <2>5
  <2> HIDE DEF v, Is
  <2> QED
    BY <2>6
<1>4. Is(walk, n)
  BY <1>1, <1>3
<1>5. ASSUME NEW S \in (SUBSET DOMAIN filters) \ {{}},
             \A i \in S : \E j \in S : filters[j].id = filters[i].parent
      PROVE  FALSE
  <2> DEFINE T == {k \in 0..n : walk[k] \cap S = {}}
  <2> HIDE DEF walk
  <2>1. T \subseteq Nat /\ n \in T
    BY <1>1, <1>2
  <2>2. PICK x \in T : \A y \in T : x <= y
    BY <2>1, Least
  <2>3. x # 0
    BY <1>1, <1>4, <1>5
  <2>4. x - 1 \in 0..n /\ x - 1 \notin T
    BY <1>1, <2>2, <2>3
  <2>5. PICK i \in S : i \in walk[x - 1]
    BY <2>4
  <2>6. PICK j \in S : j \in up(i)
    BY <1>5
  <2>7. walk[x] = UNION {up(k) : k \in walk[x - 1]}
    BY <1>1, <1>4, <2>3
  <2>8. j \in walk[x]
    BY <2>5, <2>6, <2>7
  <2> QED
    BY <2>8
<1> QED
  BY <1>5 DEF WalkEnds

-----------------------------------------------------------------------------
(* What becomes of a request's writes while others go on.                  *)

Settled == {i \in 1..(nextId - 1) : \A s \in Active : i \notin Pending(s)}

\* Ids that are settled stay so, and what they were they are, if they are there.
Grows ==
    /\ nextId \in Nat /\ nextId' \in {nextId, nextId + 1}
    /\ raced \subseteq raced'
    /\ Settled \subseteq Settled'
    /\ \A i \in Settled \cap DOMAIN rows' :
          /\ i \in DOMAIN rows /\ rows'[i].table = rows[i].table
          /\ rows[i].table = "tile" => rows'[i].board = rows[i].board
    /\ Of(rows, "job") \subseteq Of(rows', "job")

Continues(s) ==
    /\ s \in Active /\ s \in Active' /\ DOMAIN req'[s] = DOMAIN req[s]
    /\ req'[s].op = req[s].op /\ req'[s].writes = req[s].writes /\ req'[s].claims = req[s].claims

\* Nobody takes the ids it is about to insert, or the names it claims.
Undisturbed(s) ==
    /\ Pending(s) \cap DOMAIN rows' = {}
    /\ \A c \in req[s].claims, i \in 1..(nextId - 1) : Unclaimed(i, c) => Unclaimed(i, c)'

LEMMA KnownIsSettled ==
    ASSUME NEW i, NEW table
    PROVE  Known(i, table) <=> i \in Settled /\ (i \in DOMAIN rows => rows[i].table = table)
BY DEF Known, Settled

LEMMA StillInRange ==
    ASSUME NEW n \in Nat, NEW m \in {n, n + 1}
    PROVE  \A i \in 1..(n - 1) : i \in 1..(m - 1)
OBVIOUS

LEMMA KnownStays ==
    ASSUME Grows, NEW i, NEW table, Known(i, table)
    PROVE  /\ Known(i, table)'
           /\ table = "tile" => \A b : KnownOn(i, b) => KnownOn(i, b)'
<1>1. i \in Settled /\ (i \in DOMAIN rows => rows[i].table = table)
  BY KnownIsSettled
<1>2. Known(i, table)' <=> i \in Settled' /\ (i \in DOMAIN rows' => rows'[i].table = table)
  BY DEF Known, Settled
<1> QED
  BY <1>1, <1>2 DEF Grows, KnownOn

LEMMA WritesStay ==
    ASSUME Grows, NEW s, Continues(s), Undisturbed(s), Writes(req[s])
    PROVE  Writes(req[s])'
<1> DEFINE q == req[s]
           w == q.writes
<1>0. /\ req'[s].writes = w /\ req'[s].op = q.op /\ req'[s].claims = q.claims
  BY DEF Continues
<1>00. \A i \in 1..(nextId - 1) : i \in 1..(nextId' - 1)
  <2>1. nextId \in Nat /\ nextId' \in {nextId, nextId + 1}
    BY DEF Grows
  <2> QED
    BY <2>1, StillInRange
<1>1. ASSUME NEW i \in DOMAIN w, w[i].verb = "insert"
      PROVE  NewRow(i, w[i].set, q)'
  <2>1. PICK row : row = w[i].set
    OBVIOUS
  <2>2. NewRow(i, row, q)
    BY <1>1, <2>1 DEF Writes
  <2>3. /\ DOMAIN w = {i} /\ i \in 1..(nextId - 1)
        /\ WholeRow(row)
        /\ row.table = "tile" =>
              /\ Known(row.board, "board")
              /\ row.chart # None => Known(row.chart, "chart")
        /\ row.table \in Claimed => Claim(row) \in q.claims /\ Unclaimed(i, Claim(row))
    BY <2>2 DEF NewRow
  <2>4. i \in 1..(nextId' - 1) /\ i \notin DOMAIN rows'
    BY <1>1, <1>00, <2>3 DEF Undisturbed, Pending, Sent
  <2>5. row.table = "tile" =>
          /\ Known(row.board, "board")'
          /\ row.chart # None => Known(row.chart, "chart")'
    BY <2>3, KnownStays
  <2>6. row.table \in Claimed => Unclaimed(i, Claim(row))'
    BY <2>3 DEF Undisturbed
  <2>7. NewRow(i, row, q)'
    BY <1>0, <2>3, <2>4, <2>5, <2>6 DEF NewRow
  <2> QED
    BY <1>0, <2>1, <2>7
<1>2. ASSUME NEW i \in DOMAIN w, w[i].verb = "update"
      PROVE  Change(i, w[i].set, q)'
  <2>1. PICK set : set = w[i].set
    OBVIOUS
  <2>2. Change(i, set, q)
    BY <1>2, <2>1 DEF Writes
  <2>3. PICK table \in Kinds :
          /\ Known(i, table) /\ "table" \notin DOMAIN set
          /\ table = "board" /\ "filters" \in DOMAIN set => WalkEnds(set.filters)
          /\ table = "tile" =>
             /\ {"board", "chart", "kind"} \cap DOMAIN set = {}
             /\ "position" \in DOMAIN set => set.position \in Nat /\ Moves(q.op, i)
          /\ table \in {"dbt", "cube"} /\ "name" \in DOMAIN set =>
             /\ DOMAIN q.writes = {i}
             /\ <<table, set.name>> \in q.claims /\ Unclaimed(i, <<table, set.name>>)
          /\ table = "job" => "selection" \notin DOMAIN set
          /\ table = "user" => "email" \notin DOMAIN set
    BY <2>2 DEF Change
  <2>4. Known(i, table)' /\ i \in 1..(nextId - 1)
    BY <2>3, KnownStays DEF Known
  <2>5. table = "tile" /\ Moves(q.op, i) => Moves(q.op, i)'
    <3>1. table = "tile" => \A b : KnownOn(i, b) => KnownOn(i, b)'
      BY <2>3, KnownStays
    <3> QED
      BY <1>0, <3>1 DEF Moves
  <2>6. table \in {"dbt", "cube"} /\ "name" \in DOMAIN set => Unclaimed(i, <<table, set.name>>)'
    BY <2>3, <2>4 DEF Undisturbed
  <2>7. Change(i, set, q)'
    BY <1>0, <2>3, <2>4, <2>5, <2>6 DEF Change
  <2> QED
    BY <1>0, <2>1, <2>7
<1>3. ASSUME NEW i \in DOMAIN w, w[i].verb = "delete"
      PROVE  Removal(i, q)'
  <2>1. PICK table \in Kinds \ {"job"} : q.op.kind \in Deletions /\ Known(i, table)
    BY <1>3 DEF Writes, Removal
  <2>2. Known(i, table)'
    BY <2>1, KnownStays
  <2> QED
    BY <1>0, <2>1, <2>2 DEF Removal
<1>4. \A i \in DOMAIN w : w[i].verb \in {"insert", "update", "delete"}
  BY DEF Writes
<1> QED
  BY <1>0, <1>1, <1>2, <1>3, <1>4 DEF Writes

LEMMA RequestStays ==
    ASSUME Grows, NEW s, Continues(s), Undisturbed(s), IsRequest(req[s]),
           req'[s].step \in {"loaded", "flushed", "listed", "ready"}, req'[s].lone \in BOOLEAN,
           req'[s].step = "listed" => GeneratesCode(req'[s].op)
    PROVE  IsRequest(req[s])'
<1>1. Writes(req[s])'
  BY WritesStay DEF IsRequest
<1>2. /\ req'[s].writes = req[s].writes /\ req'[s].op = req[s].op
      /\ DOMAIN req'[s] = {"step", "op", "writes", "claims", "lone", "models"}
  BY DEF Continues, IsRequest
<1>3. Launches(req[s].op) => HasJob(req[s])'
  <2>1. Launches(req[s].op) => HasJob(req[s])
    BY DEF IsRequest
  <2> QED
    BY <1>2, <2>1 DEF HasJob, Grows
<1>4. GeneratesCode(req[s].op) => req[s].op.table \in {"dbt", "cube"}
  BY DEF IsRequest
<1> QED
  BY <1>1, <1>2, <1>3, <1>4 DEF IsRequest

-----------------------------------------------------------------------------
(* Steps that leave the tables alone.                                      *)

LEMMA PendingAreNew ==
    ASSUME RequestsHold, NEW s \in Active, NEW i \in Pending(s)
    PROVE  i \notin DOMAIN rows /\ i \in 1..(nextId - 1)
BY DEF RequestsHold, IsRequest, Writes, NewRow, Pending, Sent

LEMMA QuietGrows ==
    ASSUME TablesHold, RequestsHold, UNCHANGED rows,
           nextId' \in {nextId, nextId + 1}, raced \subseteq raced',
           \A s \in Active' : \/ s \in Active /\ Pending(s)' = Pending(s)
                              \/ Pending(s)' \cap 1..(nextId - 1) = {}
    PROVE  Grows /\ \A s \in Active : Undisturbed(s)
<1>0. nextId \in Nat
  BY DEF TablesHold
<1>1. Settled \subseteq Settled'
  <2> SUFFICES ASSUME NEW i \in Settled PROVE i \in Settled'
    OBVIOUS
  <2>1. i \in 1..(nextId - 1) /\ \A s \in Active : i \notin Pending(s)
    BY DEF Settled
  <2>2. i \in 1..(nextId' - 1)
    BY <1>0, <2>1, StillInRange
  <2>3. \A s \in Active' : i \notin Pending(s)'
    BY <2>1
  <2> QED
    BY <2>2, <2>3 DEF Settled
<1>2. \A i \in Settled \cap DOMAIN rows' :
          /\ i \in DOMAIN rows /\ rows'[i].table = rows[i].table
          /\ rows[i].table = "tile" => rows'[i].board = rows[i].board
  OBVIOUS
<1>3. Of(rows, "job") \subseteq Of(rows', "job")
  OBVIOUS
<1>4. Grows
  BY <1>0, <1>1, <1>2, <1>3 DEF Grows
<1>5. ASSUME NEW s \in Active PROVE Undisturbed(s)
  <2>1. Pending(s) \cap DOMAIN rows' = {}
    BY PendingAreNew
  <2>2. \A c, i : Unclaimed(i, c) => Unclaimed(i, c)'
    BY DEF Unclaimed
  <2> QED
    BY <2>1, <2>2 DEF Undisturbed
<1> QED
  BY <1>4, <1>5

LEMMA QuietTables ==
    ASSUME TablesHold, work \in Workloads, UNCHANGED <<work, rows>>,
           nextId' = nextId \/ (nextId' = nextId + 1 /\ nextId <= work.ids), raced \subseteq raced'
    PROVE  TablesHold'
<1>1. work.ids \in Nat /\ nextId \in 1..(work.ids + 1)
  BY WorkloadsFitTheTables DEF TablesHold
<1>2. nextId' \in 1..(work.ids + 1) /\ \A i \in 1..(nextId - 1) : i \in 1..(nextId' - 1)
  <2>1. nextId \in Nat /\ nextId' \in {nextId, nextId + 1}
    BY <1>1
  <2>2. nextId' \in 1..(work.ids + 1)
    BY <1>1
  <2> QED
    BY <2>1, <2>2, StillInRange
<1>3. DOMAIN rows' \subseteq 1..(nextId' - 1)
  BY <1>2 DEF TablesHold
<1> QED
  BY <1>2, <1>3 DEF TablesHold

\* A request goes on with what it is to write, or it is over.
Goes(r, q) ==
    \/ q = Idle
    \/ /\ DOMAIN q = DOMAIN req[r]
       /\ q.op = req[r].op /\ q.writes = req[r].writes /\ q.claims = req[r].claims
       /\ q.lone = req[r].lone
       /\ q.step \in {"loaded", "flushed", "listed", "ready"}
       /\ q.step = "listed" => GeneratesCode(q.op)
       /\ req[r].step = "loaded" =>
             /\ Accepted(rows, q.writes)
             /\ \A s \in Flushed \ {r} : ~Waits(rows, q.writes, req[s].writes)

LEMMA ActiveHasColumns ==
    ASSUME NEW q, DOMAIN q = {"step", "op", "writes", "claims", "lone", "models"}
    PROVE  q # Idle
<1>1. "op" \in DOMAIN q /\ "op" \notin DOMAIN Idle
  BY DEF Idle
<1> QED
  BY <1>1

LEMMA WaitsIsSymmetric ==
    ASSUME NEW all, NEW v, NEW w
    PROVE  Waits(all, v, w) <=> Waits(all, w, v)
BY DEF Waits

LEMMA StepHolds ==
    ASSUME WorkspaceInv, NEW r \in Active, NEW q, Goes(r, q),
           UNCHANGED <<work, rows, nextId, raced>>, req' = [req EXCEPT ![r] = q]
    PROVE  TablesHold' /\ RequestsHold' /\ PairsHold'
<1> USE DEF WorkspaceInv
<1>0. /\ DOMAIN req = Requests /\ DOMAIN req' = Requests /\ req'[r] = q /\ r \in Requests
      /\ \A s \in Requests \ {r} : req'[s] = req[s]
  BY DEF RequestsHold, Active
<1>1. DOMAIN req[r] = {"step", "op", "writes", "claims", "lone", "models"} /\ req[r].lone \in BOOLEAN
  BY DEF RequestsHold, IsRequest
<1>2. \A s \in Active' : s \in Active /\ Continues(s) /\ (s = r => q # Idle)
  <2>1. ASSUME NEW s \in Active', s # r PROVE s \in Active /\ Continues(s)
    BY <1>0, <2>1 DEF Active, Continues
  <2>2. ASSUME r \in Active' PROVE q # Idle /\ Continues(r)
    BY <1>0, <2>2 DEF Active, Continues, Goes
  <2> QED
    BY <2>1, <2>2
<1>3. \A s \in Active' : Pending(s)' = Pending(s)
  BY <1>2 DEF Pending, Continues
<1>4. TablesHold'
  <2>1. nextId' = nextId \/ (nextId' = nextId + 1 /\ nextId <= work.ids)
    OBVIOUS
  <2>2. TablesHold /\ work \in Workloads /\ UNCHANGED <<work, rows>> /\ raced \subseteq raced'
    OBVIOUS
  <2> QED
    BY <2>1, <2>2, QuietTables
<1>5. Grows /\ \A s \in Active : Undisturbed(s)
  <2>1. nextId' \in {nextId, nextId + 1} /\ raced \subseteq raced'
    OBVIOUS
  <2> QED
    BY <1>2, <1>3, <2>1, QuietGrows
<1>6. RequestsHold'
  <2>1. ASSUME NEW s \in Active' PROVE IsRequest(req[s])'
    <3>1. s \in Active /\ IsRequest(req[s])
      BY <1>2 DEF RequestsHold
    <3>2. /\ req'[s].step \in {"loaded", "flushed", "listed", "ready"} /\ req'[s].lone \in BOOLEAN
          /\ req'[s].step = "listed" => GeneratesCode(req'[s].op)
      <4>1. CASE s = r
        BY <1>0, <1>1, <1>2, <4>1 DEF Goes
      <4>2. CASE s # r
        BY <1>0, <3>1, <4>2 DEF IsRequest, Active
      <4> QED
        BY <4>1, <4>2
    <3> QED
      BY <1>2, <1>5, <3>1, <3>2, RequestStays
  <2> QED
    BY <1>0, <2>1 DEF RequestsHold
<1>7. PairsHold'
  <2>1. ASSUME NEW s \in Active', NEW t \in Active', s # t
        PROVE  /\ Pending(s)' \cap Pending(t)' = {}
               /\ req'[s].claims \cap req'[t].claims \subseteq raced'
               /\ ~req'[s].lone
    <3>1. /\ Pending(s) \cap Pending(t) = {}
          /\ req[s].claims \cap req[t].claims \subseteq raced
          /\ ~req[s].lone
      BY <1>2, <2>1 DEF PairsHold
    <3>2. req'[s].claims = req[s].claims /\ req'[t].claims = req[t].claims
      BY <1>2 DEF Continues
    <3>3. req'[s].lone = req[s].lone
      BY <1>0, <1>2 DEF Goes, Active
    <3> QED
      BY <1>3, <3>1, <3>2, <3>3
  <2>2. \A s \in Flushed' : s \in Active /\ req'[s].writes = req[s].writes /\ (s # r => s \in Flushed)
    BY <1>0, <1>2 DEF Flushed, Continues, Active
  <2>3. ASSUME NEW s \in Flushed' PROVE Accepted(rows', req'[s].writes)
    <3>1. CASE s # r \/ req[r].step # "loaded"
      BY <2>2, <3>1 DEF PairsHold, Flushed
    <3>2. CASE s = r /\ req[r].step = "loaded"
      BY <1>0, <1>2, <2>2, <3>2 DEF Goes, Flushed
    <3> QED
      BY <3>1, <3>2
  <2>4. ASSUME NEW s \in Flushed', NEW t \in Flushed', s # t
        PROVE  ~Waits(rows', req'[s].writes, req'[t].writes)
    <3>1. CASE s \in Flushed /\ t \in Flushed
      BY <2>2, <2>4, <3>1 DEF PairsHold
    <3>2. CASE s = r /\ req[r].step = "loaded"
      BY <1>0, <1>2, <2>2, <2>4, <3>2 DEF Goes, Flushed
    <3>3. CASE t = r /\ req[r].step = "loaded"
      <4>1. ~Waits(rows, req[r].writes, req[s].writes)
        BY <1>0, <1>2, <2>2, <2>4, <3>3 DEF Goes, Flushed
      <4> QED
        BY <2>2, <3>3, <4>1, WaitsIsSymmetric
    <3> QED
      BY <2>2, <3>1, <3>2, <3>3 DEF Flushed
  <2> QED
    BY <2>1, <2>3, <2>4 DEF PairsHold
<1> QED
  BY <1>4, <1>6, <1>7

LEMMA RunsContinue ==
    ASSUME RunsHold, UNCHANGED runs, Active' \subseteq Requests,
           \A s \in Active : Continues(s) /\ (req[s].step = "ready" => req'[s].step = "ready"),
           Of(rows, "job") \subseteq Of(rows', "job")
    PROVE  RunsHold'
<1>1. ASSUME NEW k \in DOMAIN runs
      PROVE  /\ runs[k].by \in Active' \cup {"committed", "aborted"}
             /\ runs[k].by = "committed" => runs[k].job \in Of(rows', "job")
             /\ runs[k].by \in Active' =>
                  /\ req'[runs[k].by].step = "ready" /\ Launches(req'[runs[k].by].op)
                  /\ runs[k].job = req'[runs[k].by].op.job
  <2>1. /\ runs[k].by \in Active \cup {"committed", "aborted"}
        /\ runs[k].by = "committed" => runs[k].job \in Of(rows, "job")
        /\ runs[k].by \in Active =>
             /\ req[runs[k].by].step = "ready" /\ Launches(req[runs[k].by].op)
             /\ runs[k].job = req[runs[k].by].op.job
    BY DEF RunsHold
  <2>2. runs[k].by \in Active' => runs[k].by \in Active
    BY <2>1, FatesAreNoRequests
  <2> QED
    BY <2>1, <2>2 DEF Continues
<1> QED
  BY <1>1 DEF RunsHold

LEMMA TableIsSeq ==
    ASSUME NEW n \in Nat, NEW f, f = [k \in 1..n |-> f[k]]
    PROVE  \E S : f \in Seq(S)
<1> DEFINE S == {f[k] : k \in 1..n}
<1>1. f \in [1..n -> S]
  OBVIOUS
<1>2. f \in Seq(S)
  <2> HIDE DEF S
  <2> QED
    BY <1>1, SeqDef
<1> QED
  BY <1>2

LEMMA RunsAreSeq ==
    ASSUME RunsHold
    PROVE  Len(runs) \in Nat /\ DOMAIN runs = 1..Len(runs) /\ runs = [k \in 1..Len(runs) |-> runs[k]]
<1>1. PICK S : runs \in Seq(S)
  BY DEF RunsHold
<1>2. Len(runs) \in Nat /\ runs \in [1..Len(runs) -> S]
  BY <1>1, LenProperties
<1> QED
  BY <1>2

LEMMA RunsEnd ==
    ASSUME RunsHold, NEW r \in Active, NEW fate \in {"committed", "aborted"}, End(r, fate),
           DOMAIN req = Requests, Of(rows, "job") \subseteq Of(rows', "job"),
           fate = "committed" /\ Launches(req[r].op) => req[r].op.job \in Of(rows', "job")
    PROVE  RunsHold'
<1>0. /\ req'[r] = Idle /\ \A s \in Requests \ {r} : req'[s] = req[s]
  BY DEF End, Active
<1>1. Active' = Active \ {r}
  BY <1>0 DEF Active
<1>2. runs' = [k \in DOMAIN runs |->
                  IF runs[k].by = r THEN [runs[k] EXCEPT !.by = fate] ELSE runs[k]]
  BY DEF End
<1>3. \E S : runs' \in Seq(S)
  <2>1. runs' = [k \in 1..Len(runs) |-> runs'[k]] /\ Len(runs) \in Nat
    BY <1>2, RunsAreSeq
  <2>2. PICK f : f = runs'
    OBVIOUS
  <2> QED
    BY <2>1, <2>2, TableIsSeq
<1>4. ASSUME NEW k \in DOMAIN runs'
      PROVE  /\ DOMAIN runs'[k] = {"job", "state", "by"}
             /\ runs'[k].state \in {"queued", "failed", "built", "nothing"}
             /\ runs'[k].by \in Active' \cup {"committed", "aborted"}
             /\ runs'[k].by = "committed" => runs'[k].job \in Of(rows', "job")
             /\ runs'[k].by \in Active' =>
                  /\ req'[runs'[k].by].step = "ready" /\ Launches(req'[runs'[k].by].op)
                  /\ runs'[k].job = req'[runs'[k].by].op.job
  <2>1. /\ k \in DOMAIN runs
        /\ DOMAIN runs[k] = {"job", "state", "by"}
        /\ runs[k].state \in {"queued", "failed", "built", "nothing"}
        /\ runs[k].by \in Active \cup {"committed", "aborted"}
        /\ runs[k].by = "committed" => runs[k].job \in Of(rows, "job")
        /\ runs[k].by \in Active =>
             /\ req[runs[k].by].step = "ready" /\ Launches(req[runs[k].by].op)
             /\ runs[k].job = req[runs[k].by].op.job
    BY <1>2, <1>4 DEF RunsHold
  <2>2. CASE runs[k].by = r
    <3>1. runs'[k] = [runs[k] EXCEPT !.by = fate]
      BY <1>2, <2>1, <2>2
    <3>2. DOMAIN runs'[k] = {"job", "state", "by"} /\ runs'[k].by = fate
          /\ runs'[k].state = runs[k].state /\ runs'[k].job = runs[k].job
      BY <2>1, <3>1
    <3>3. fate \notin Active'
      BY <1>1, FatesAreNoRequests DEF Active
    <3> QED
      BY <2>1, <2>2, <3>2, <3>3
  <2>3. CASE runs[k].by # r
    <3>1. runs'[k] = runs[k]
      BY <1>2, <2>1, <2>3
    <3>2. runs[k].by \in Active => runs[k].by \in Requests \ {r}
      BY <2>3 DEF Active
    <3> QED
      BY <1>0, <1>1, <2>1, <2>3, <3>1, <3>2
  <2> QED
    BY <2>2, <2>3
<1> QED
  BY <1>3, <1>4 DEF RunsHold

\* A request that runs alone goes on with what it was asked.
LEMMA LoneGoes ==
    ASSUME LoneHolds, UNCHANGED rows,
           \A s \in Active' : req'[s].lone =>
              /\ s \in Active /\ req[s].lone /\ req'[s].op = req[s].op /\ req'[s].writes = req[s].writes
              /\ req'[s].step = "listed" => req'[s].models = Leaves(req[s])
              /\ req'[s].step = "ready" /\ GeneratesCode(req[s].op) =>
                   IF req[s].op.table = "dbt" THEN dbtFiles' \in DbtFiles(Leaves(req[s]))
                   ELSE cubeFile' = CubeFile(Leaves(req[s]))
    PROVE  LoneHolds'
<1> SUFFICES ASSUME NEW s \in Active', req'[s].lone
             PROVE  /\ Asked(req[s].op, req[s].writes)'
                    /\ req'[s].step = "listed" => req'[s].models = Leaves(req[s])'
                    /\ req'[s].step = "ready" /\ GeneratesCode(req'[s].op) =>
                         IF req'[s].op.table = "dbt" THEN dbtFiles' \in DbtFiles(Leaves(req[s])')
                         ELSE cubeFile' = CubeFile(Leaves(req[s])')
  BY DEF LoneHolds
<1>1. s \in Active /\ req[s].lone /\ req'[s].op = req[s].op /\ req'[s].writes = req[s].writes
  OBVIOUS
<1>2. Asked(req[s].op, req[s].writes)
  BY <1>1 DEF LoneHolds
<1>3. PICK op, w : op = req[s].op /\ w = req[s].writes
  OBVIOUS
<1>4. Asked(op, w)'
  <2>1. Asked(op, w)
    BY <1>2, <1>3
  <2> QED
    BY <2>1 DEF Asked
<1>5. Leaves(req[s])' = Leaves(req[s])
  BY <1>1 DEF Leaves
<1> QED
  BY <1>1, <1>3, <1>4, <1>5

LEMMA ActiveIs ==
    ASSUME WorkspaceInv, NEW r \in Requests, req[r] # Idle
    PROVE  /\ r \in Active /\ IsRequest(req[r])
           /\ DOMAIN req = Requests
           /\ DOMAIN req[r] = {"step", "op", "writes", "claims", "lone", "models"}
BY DEF Active, WorkspaceInv, RequestsHold, IsRequest

\* Where only one request is active, another cannot run alone.
LEMMA LoneIsAlone ==
    ASSUME WorkspaceInv, NEW s \in Active, NEW r \in Active, req[s].lone
    PROVE  r = s
BY DEF WorkspaceInv, PairsHold

LEMMA EndHolds ==
    ASSUME WorkspaceInv, NEW r \in Requests, req[r] # Idle, End(r, "aborted"),
           UNCHANGED <<work, rows, nextId, raced>>
    PROVE  WorkspaceInv'
<1>1. r \in Active /\ DOMAIN req = Requests
  BY ActiveIs
<1>2. req' = [req EXCEPT ![r] = Idle]
  BY DEF End
<1>3. TablesHold' /\ RequestsHold' /\ PairsHold'
  BY <1>1, <1>2, StepHolds DEF Goes
<1>4. RunsHold'
  BY <1>1, RunsEnd DEF WorkspaceInv
<1>5. LoneHolds'
  <2>1. ASSUME NEW s \in Active' PROVE ~req'[s].lone
    <3>1. s \in Active /\ s # r /\ req'[s] = req[s]
      BY <1>1, <1>2 DEF Active
    <3> QED
      BY <1>1, <3>1, LoneIsAlone
  <2> QED
    BY <2>1 DEF LoneHolds
<1> QED
  BY <1>3, <1>4, <1>5 DEF WorkspaceInv

\* A request that goes on leaves the runs to the others.
LEMMA RunsStay ==
    ASSUME WorkspaceInv, NEW r \in Active, NEW q, q # Idle, Goes(r, q), req[r].step # "ready",
           req' = [req EXCEPT ![r] = q], UNCHANGED <<rows, runs>>
    PROVE  RunsHold'
<1>1. DOMAIN req = Requests /\ r \in Requests
  BY ActiveIs DEF Active
<1>2. \A s \in Active : Continues(s) /\ (req[s].step = "ready" => req'[s].step = "ready")
  <2>1. ASSUME NEW s \in Active, s # r PROVE Continues(s) /\ req'[s].step = req[s].step
    BY <1>1, <2>1 DEF Active, Continues
  <2>2. Continues(r)
    BY <1>1 DEF Active, Continues, Goes
  <2> QED
    BY <2>1, <2>2
<1>3. Active' \subseteq Requests
  BY DEF Active
<1> QED
  BY <1>2, <1>3, RunsContinue DEF WorkspaceInv

\* A request that goes on, and keeps what is true of it if it runs alone.
LEMMA GoesOn ==
    ASSUME WorkspaceInv, NEW r \in Requests, req[r] # Idle, NEW q, q # Idle, Goes(r, q),
           UNCHANGED <<work, rows, nextId, raced>>, req' = [req EXCEPT ![r] = q],
           RunsHold',
           q.lone =>
              /\ q.step = "listed" => q.models = Leaves(req[r])
              /\ q.step = "ready" /\ GeneratesCode(req[r].op) =>
                   IF req[r].op.table = "dbt" THEN dbtFiles' \in DbtFiles(Leaves(req[r]))
                   ELSE cubeFile' = CubeFile(Leaves(req[r]))
    PROVE  WorkspaceInv'
<1>1. r \in Active /\ DOMAIN req = Requests
  BY ActiveIs
<1>2. TablesHold' /\ RequestsHold' /\ PairsHold'
  BY <1>1, StepHolds
<1>3. LoneHolds'
  <2>1. ASSUME NEW s \in Active', req'[s].lone PROVE s = r
    <3>1. CASE s # r
      <4>1. s \in Active /\ req'[s] = req[s]
        BY <1>1, <3>1 DEF Active
      <4> QED
        BY <1>1, <2>1, <4>1, LoneIsAlone
    <3> QED
      BY <3>1
  <2>2. /\ req'[r] = q /\ q.op = req[r].op /\ q.writes = req[r].writes /\ q.lone = req[r].lone
    BY <1>1 DEF Goes
  <2>3. \A s \in Active' : req'[s].lone =>
              /\ s \in Active /\ req[s].lone /\ req'[s].op = req[s].op /\ req'[s].writes = req[s].writes
              /\ req'[s].step = "listed" => req'[s].models = Leaves(req[s])
              /\ req'[s].step = "ready" /\ GeneratesCode(req[s].op) =>
                   IF req[s].op.table = "dbt" THEN dbtFiles' \in DbtFiles(Leaves(req[s]))
                   ELSE cubeFile' = CubeFile(Leaves(req[s]))
    BY <1>1, <2>1, <2>2
  <2> QED
    BY <2>3, LoneGoes DEF WorkspaceInv
<1> QED
  BY <1>2, <1>3 DEF WorkspaceInv

LEMMA FlushHolds ==
    ASSUME WorkspaceInv, NEW r \in Requests, Flush(r)
    PROVE  WorkspaceInv'
<1> DEFINE step == IF GeneratesCode(req[r].op) \/ Launches(req[r].op) THEN "flushed" ELSE "ready"
           q == [req[r] EXCEPT !.step = step]
<1>1. req[r] # Idle
  BY DEF Flush, Idle
<1>2. DOMAIN req = Requests /\ DOMAIN req[r] = {"step", "op", "writes", "claims", "lone", "models"}
  BY <1>1, ActiveIs
<1>3. /\ step \in {"flushed", "ready"} /\ (step = "ready" => ~GeneratesCode(req[r].op))
  OBVIOUS
<1>4. req' = [req EXCEPT ![r] = q]
  BY <1>2 DEF Flush, To
<1> HIDE DEF step
<1>5. q.step = step /\ DOMAIN q = DOMAIN req[r] /\ q.op = req[r].op /\ q.writes = req[r].writes
      /\ q.claims = req[r].claims /\ q.lone = req[r].lone
  BY <1>2
<1> HIDE DEF q
<1>6. Goes(r, q)
  BY <1>3, <1>5 DEF Goes, Flush, Flushed
<1>7. q # Idle
  BY <1>2, <1>5, ActiveHasColumns
<1>8. RunsHold'
  BY <1>1, <1>4, <1>6, <1>7, RunsStay, ActiveIs DEF Flush
<1> QED
  BY <1>1, <1>3, <1>4, <1>5, <1>6, <1>7, <1>8, GoesOn DEF Flush

LEMMA ListModelsHolds ==
    ASSUME WorkspaceInv, NEW r \in Requests, ListModels(r)
    PROVE  WorkspaceInv'
<1> DEFINE listed == Leaves(req[r])
           q == [req[r] EXCEPT !.step = "listed", !.models = listed]
<1>1. req[r] # Idle
  BY DEF ListModels, Idle
<1>2. DOMAIN req = Requests /\ DOMAIN req[r] = {"step", "op", "writes", "claims", "lone", "models"}
  BY <1>1, ActiveIs
<1>3. req' = [req EXCEPT ![r] = q]
  BY <1>2 DEF ListModels, Leaves
<1> HIDE DEF listed
<1>4. q.step = "listed" /\ q.models = listed /\ DOMAIN q = DOMAIN req[r] /\ q.op = req[r].op
      /\ q.writes = req[r].writes /\ q.claims = req[r].claims /\ q.lone = req[r].lone
  BY <1>2
<1> HIDE DEF q
<1>5. Goes(r, q)
  BY <1>4 DEF Goes, ListModels
<1>6. q # Idle
  BY <1>2, <1>4, ActiveHasColumns
<1>7. RunsHold'
  BY <1>1, <1>3, <1>5, <1>6, RunsStay, ActiveIs DEF ListModels
<1> QED
  BY <1>1, <1>3, <1>4, <1>5, <1>6, <1>7, GoesOn DEF ListModels, listed

LEMMA WriteFilesHolds ==
    ASSUME WorkspaceInv, NEW r \in Requests, WriteFiles(r)
    PROVE  WorkspaceInv'
<1> DEFINE q == [req[r] EXCEPT !.step = "ready", !.models = {}]
<1>1. req[r] # Idle
  BY DEF WriteFiles, Idle
<1>2. DOMAIN req = Requests /\ DOMAIN req[r] = {"step", "op", "writes", "claims", "lone", "models"}
      /\ r \in Active
  BY <1>1, ActiveIs
<1>3. req' = [req EXCEPT ![r] = q]
  BY <1>2 DEF WriteFiles
<1>4. q.step = "ready" /\ DOMAIN q = DOMAIN req[r] /\ q.op = req[r].op
      /\ q.writes = req[r].writes /\ q.claims = req[r].claims /\ q.lone = req[r].lone
  BY <1>2
<1> HIDE DEF q
<1>5. Goes(r, q)
  BY <1>4 DEF Goes, WriteFiles
<1>6. q # Idle
  BY <1>2, <1>4, ActiveHasColumns
<1>7. RunsHold'
  BY <1>1, <1>3, <1>5, <1>6, RunsStay, ActiveIs DEF WriteFiles
<1>8. q.lone =>
         IF req[r].op.table = "dbt" THEN dbtFiles' \in DbtFiles(Leaves(req[r]))
         ELSE cubeFile' = CubeFile(Leaves(req[r]))
  <2>1. req[r].lone => req[r].models = Leaves(req[r])
    BY <1>2 DEF WorkspaceInv, LoneHolds, WriteFiles
  <2> QED
    BY <1>4, <2>1 DEF WriteFiles
<1> QED
  BY <1>1, <1>3, <1>4, <1>5, <1>6, <1>7, <1>8, GoesOn DEF WriteFiles

LEMMA LaunchHolds ==
    ASSUME WorkspaceInv, NEW r \in Requests, Launch(r)
    PROVE  WorkspaceInv'
<1>1. req[r] # Idle
  BY DEF Launch, Idle
<1>2. /\ DOMAIN req = Requests /\ DOMAIN req[r] = {"step", "op", "writes", "claims", "lone", "models"}
      /\ r \in Active
  BY <1>1, ActiveIs
<1>3. PICK answer \in Execute :
          /\ runs' = IF answer = "failed" THEN runs
                     ELSE Append(runs, [job |-> req[r].op.job, state |-> "queued",
                                        by |-> IF answer = "taken" THEN "aborted" ELSE r])
          /\ req' = [req EXCEPT ![r] = IF answer = "answered" THEN [@ EXCEPT !.step = "ready"]
                                       ELSE Idle]
  BY DEF Launch
<1> DEFINE q == IF answer = "answered" THEN [req[r] EXCEPT !.step = "ready"] ELSE Idle
<1>4. req' = [req EXCEPT ![r] = q]
  BY <1>2, <1>3
<1>5. Launches(req[r].op) /\ ~GeneratesCode(req[r].op) /\ UNCHANGED <<work, rows, nextId, raced>>
      /\ req[r].step = "flushed" /\ UNCHANGED <<dbtFiles, cubeFile>>
  BY DEF Launch, Launches, GeneratesCode
<1>6. answer = "answered" =>
         /\ q.step = "ready" /\ DOMAIN q = DOMAIN req[r] /\ q.op = req[r].op
         /\ q.writes = req[r].writes /\ q.claims = req[r].claims /\ q.lone = req[r].lone
  BY <1>2
<1>7. answer # "answered" => q = Idle
  OBVIOUS
<1>8. RunsHold'
  <2>1. /\ \A s \in Requests \ {r} : req'[s] = req[s]
        /\ req'[r] = q
    BY <1>2, <1>4 DEF Active
  <2>2. ASSUME NEW k \in DOMAIN runs
        PROVE  /\ DOMAIN runs[k] = {"job", "state", "by"}
               /\ runs[k].state \in {"queued", "failed", "built", "nothing"}
               /\ runs[k].by \in Active' \cup {"committed", "aborted"}
               /\ runs[k].by = "committed" => runs[k].job \in Of(rows', "job")
               /\ runs[k].by \in Active' =>
                    /\ req'[runs[k].by].step = "ready" /\ Launches(req'[runs[k].by].op)
                    /\ runs[k].job = req'[runs[k].by].op.job
    <3>1. /\ DOMAIN runs[k] = {"job", "state", "by"}
          /\ runs[k].state \in {"queued", "failed", "built", "nothing"}
          /\ runs[k].by \in Active \cup {"committed", "aborted"}
          /\ runs[k].by = "committed" => runs[k].job \in Of(rows, "job")
          /\ runs[k].by \in Active =>
               /\ req[runs[k].by].step = "ready" /\ Launches(req[runs[k].by].op)
               /\ runs[k].job = req[runs[k].by].op.job
      BY DEF WorkspaceInv, RunsHold
    <3>2. runs[k].by # r
      BY <1>2, <1>5, <3>1
    <3>3. rows' = rows
      BY <1>5
    <3>4. runs[k].by \in Requests => req'[runs[k].by] = req[runs[k].by]
      BY <2>1, <3>2
    <3> QED
      BY <3>1, <3>2, <3>3, <3>4, FatesAreNoRequests DEF Active
  <2>3. PICK S : runs \in Seq(S)
    BY DEF WorkspaceInv, RunsHold
  <2>4. CASE runs' = runs
    BY <2>2, <2>3, <2>4 DEF RunsHold
  <2>5. ASSUME NEW by, by = (IF answer = "taken" THEN "aborted" ELSE r),
               runs' = Append(runs, [job |-> req[r].op.job, state |-> "queued", by |-> by]),
               answer # "failed"
        PROVE  RunsHold'
    <3> DEFINE new == [job |-> req[r].op.job, state |-> "queued", by |-> by]
    <3>1. runs \in Seq(S \cup {new})
      BY <2>3, SeqMonotonic
    <3>2. /\ runs' \in Seq(S \cup {new})
          /\ Len(runs') = Len(runs) + 1
          /\ \A k \in 1..Len(runs) : runs'[k] = runs[k]
          /\ runs'[Len(runs) + 1] = new
          /\ Len(runs) \in Nat
      BY <2>5, <3>1, AppendProperties, LenProperties
    <3>3. DOMAIN runs' = 1..(Len(runs) + 1) /\ DOMAIN runs = 1..Len(runs)
      BY <3>1, <3>2, LenProperties
    <3>4. \A k \in DOMAIN runs' : k \in DOMAIN runs \/ k = Len(runs) + 1
      BY <3>2, <3>3
    <3>5. /\ DOMAIN new = {"job", "state", "by"} /\ new.state = "queued" /\ new.by = by
          /\ new.job = req[r].op.job
      OBVIOUS
    <3>6. by # "committed" /\ by \in Active' \cup {"aborted"}
      <4>1. answer = "answered" => r \in Active'
        <5>1. answer = "answered" => q # Idle
          BY <1>2, <1>6, ActiveHasColumns
        <5> QED
          BY <2>1, <5>1 DEF Active
      <4>2. answer \in {"answered", "taken"}
        BY <2>5 DEF Execute
      <4> QED
        BY <2>5, <4>1, <4>2, FatesAreNoRequests DEF Active
    <3>7. by \in Active' => by = r /\ q.step = "ready" /\ q.op = req[r].op
      <4>1. answer \in {"answered", "taken"}
        BY <2>5 DEF Execute
      <4>2. by \in Active' => by # "aborted"
        BY FatesAreNoRequests DEF Active
      <4> HIDE DEF q
      <4> QED
        BY <1>6, <2>5, <4>1, <4>2
    <3>8. ASSUME NEW k \in DOMAIN runs'
          PROVE  /\ DOMAIN runs'[k] = {"job", "state", "by"}
                 /\ runs'[k].state \in {"queued", "failed", "built", "nothing"}
                 /\ runs'[k].by \in Active' \cup {"committed", "aborted"}
                 /\ runs'[k].by = "committed" => runs'[k].job \in Of(rows', "job")
                 /\ runs'[k].by \in Active' =>
                      /\ req'[runs'[k].by].step = "ready" /\ Launches(req'[runs'[k].by].op)
                      /\ runs'[k].job = req'[runs'[k].by].op.job
      <4>1. CASE k \in DOMAIN runs
        BY <2>2, <3>2, <3>3, <4>1
      <4>2. CASE k = Len(runs) + 1
        <5>1. runs'[k] = new
          BY <3>2, <4>2
        <5> HIDE DEF new, q
        <5> QED
          BY <1>5, <2>1, <3>5, <3>6, <3>7, <5>1
      <4> QED
        BY <3>4, <4>1, <4>2
    <3> HIDE DEF new
    <3> QED
      BY <3>2, <3>8 DEF RunsHold
  <2> QED
    BY <1>3, <2>4, <2>5
<1> HIDE DEF q
<1>9. Goes(r, q)
  BY <1>5, <1>6, <1>7 DEF Goes
<1>10. CASE answer = "answered"
  <2>1. q # Idle
    BY <1>2, <1>6, <1>10, ActiveHasColumns
  <2> QED
    BY <1>1, <1>4, <1>5, <1>6, <1>8, <1>9, <1>10, <2>1, GoesOn
<1>11. CASE answer # "answered"
  <2>1. q = Idle
    BY <1>7, <1>11
  <2>2. TablesHold' /\ RequestsHold' /\ PairsHold'
    BY <1>2, <1>4, <1>5, <1>9, StepHolds
  <2>3. LoneHolds'
    <3>1. ASSUME NEW s \in Active' PROVE ~req'[s].lone
      <4>1. s \in Active /\ s # r /\ req'[s] = req[s]
        BY <1>2, <1>4, <2>1 DEF Active
      <4> QED
        BY <1>2, <4>1, LoneIsAlone
    <3> QED
      BY <3>1 DEF LoneHolds
  <2> QED
    BY <1>5, <1>8, <2>2, <2>3 DEF WorkspaceInv
<1> QED
  BY <1>10, <1>11

LEMMA SameRequests ==
    ASSUME WorkspaceInv, UNCHANGED <<work, rows, nextId, req, raced, dbtFiles, cubeFile>>, RunsHold'
    PROVE  WorkspaceInv'
<1> USE DEF WorkspaceInv
<1>1. /\ Active' = Active /\ \A s \in Active : Continues(s)
      /\ \A s \in Active' : Pending(s)' = Pending(s)
  BY DEF Active, Continues, Pending
<1>2. TablesHold'
  BY QuietTables
<1>3. Grows /\ \A s \in Active : Undisturbed(s)
  <2>1. nextId' \in {nextId, nextId + 1} /\ raced \subseteq raced'
    OBVIOUS
  <2> QED
    BY <1>1, <2>1, QuietGrows
<1>4. RequestsHold'
  <2>1. ASSUME NEW s \in Active' PROVE IsRequest(req[s])'
    <3>1. s \in Active /\ IsRequest(req[s])
      BY <1>1 DEF RequestsHold
    <3> QED
      BY <1>1, <1>3, <3>1, RequestStays DEF IsRequest
  <2> QED
    BY <2>1 DEF RequestsHold
<1>5. PairsHold'
  BY <1>1 DEF PairsHold, Flushed
<1>6. LoneHolds'
  <2>1. \A s \in Active' : req'[s].lone =>
              /\ s \in Active /\ req[s].lone /\ req'[s].op = req[s].op /\ req'[s].writes = req[s].writes
              /\ req'[s].step = "listed" => req'[s].models = Leaves(req[s])
              /\ req'[s].step = "ready" /\ GeneratesCode(req[s].op) =>
                   IF req[s].op.table = "dbt" THEN dbtFiles' \in DbtFiles(Leaves(req[s]))
                   ELSE cubeFile' = CubeFile(Leaves(req[s]))
    BY <1>1 DEF LoneHolds
  <2> QED
    BY <2>1, LoneGoes
<1> QED
  BY <1>2, <1>4, <1>5, <1>6

LEMMA RunTransformHolds ==
    ASSUME WorkspaceInv, NEW k \in DOMAIN runs, RunTransform(k)
    PROVE  WorkspaceInv'
<1>1. PICK state \in {"queued", "failed", "built", "nothing"} : runs' = [runs EXCEPT ![k].state = state]
  BY DEF RunTransform
<1>2. UNCHANGED <<work, rows, nextId, req, raced, dbtFiles, cubeFile>>
  BY DEF RunTransform
<1>3. Len(runs) \in Nat /\ DOMAIN runs = 1..Len(runs)
  BY RunsAreSeq DEF WorkspaceInv
<1>4. \E S : runs' \in Seq(S)
  <2>1. PICK f : f = runs'
    OBVIOUS
  <2>2. f = [j \in 1..Len(runs) |-> f[j]]
    BY <1>1, <1>3, <2>1
  <2> QED
    BY <1>3, <2>1, <2>2, TableIsSeq
<1>5. \A j \in DOMAIN runs' :
          /\ j \in DOMAIN runs /\ runs'[j].job = runs[j].job /\ runs'[j].by = runs[j].by
          /\ DOMAIN runs'[j] = {"job", "state", "by"}
          /\ runs'[j].state \in {"queued", "failed", "built", "nothing"}
  BY <1>1 DEF WorkspaceInv, RunsHold
<1>6. Active' = Active
  BY <1>2 DEF Active
<1>7. RunsHold'
  <2>1. \A j \in DOMAIN runs :
          /\ runs[j].by \in Active \cup {"committed", "aborted"}
          /\ runs[j].by = "committed" => runs[j].job \in Of(rows, "job")
          /\ runs[j].by \in Active =>
                /\ req[runs[j].by].step = "ready" /\ Launches(req[runs[j].by].op)
                /\ runs[j].job = req[runs[j].by].op.job
    BY DEF WorkspaceInv, RunsHold
  <2>2. \A j \in DOMAIN runs' :
          /\ runs'[j].by \in Active' \cup {"committed", "aborted"}
          /\ runs'[j].by = "committed" => runs'[j].job \in Of(rows', "job")
          /\ runs'[j].by \in Active' =>
                /\ req'[runs'[j].by].step = "ready" /\ Launches(req'[runs'[j].by].op)
                /\ runs'[j].job = req'[runs'[j].by].op.job
    BY <1>2, <1>5, <1>6, <2>1
  <2> QED
    BY <1>4, <1>5, <2>2 DEF RunsHold
<1> QED
  BY <1>2, <1>7, SameRequests

LEMMA OthersHold ==
    ASSUME WorkspaceInv,
           \/ \E k \in DOMAIN runs : RunTransform(k)
           \/ \E u \in Of(rows, "user") : LogIn(u)
           \/ \E t \in tokens : RefreshToken(t) \/ Expire(t)
           \/ \E s \in {"active", "suspended"} : SetStatus(s)
           \/ UNCHANGED vars
    PROVE  WorkspaceInv'
<1>1. CASE \E k \in DOMAIN runs : RunTransform(k)
  BY <1>1, RunTransformHolds
<1>2. ASSUME UNCHANGED <<work, rows, nextId, dbtFiles, cubeFile, runs, req, raced>>
      PROVE  WorkspaceInv'
  <2>1. RunsHold'
    <3>1. Active' = Active
      BY <1>2 DEF Active
    <3> QED
      BY <1>2, <3>1 DEF WorkspaceInv, RunsHold
  <2> QED
    BY <1>2, <2>1, SameRequests
<1> QED
  BY <1>1, <1>2 DEF LogIn, RefreshToken, Expire, SetStatus, vars

LEMMA StopHolds ==
    ASSUME WorkspaceInv, NEW r \in Requests, Abort(r) \/ WriteFails(r)
    PROVE  WorkspaceInv'
<1>1. req[r] # Idle
  BY DEF Abort, WriteFails, Idle
<1> QED
  BY <1>1, EndHolds DEF Abort, WriteFails

-----------------------------------------------------------------------------
(* The commit.                                                             *)

\* The writes of a request that commits, and the tables after it.
Commits(r) ==
    /\ WorkspaceInv /\ r \in Active /\ req[r].step = "ready"
    /\ rows' = Applied(rows, req[r].writes) /\ req' = [req EXCEPT ![r] = Idle]
    /\ UNCHANGED <<work, nextId, raced>>

LEMMA ClaimIsOfTable ==
    ASSUME NEW row, NEW other, Claim(row) = Claim(other), row.table \in Kinds, other.table \in Kinds
    PROVE  row.table = other.table
BY DEF Claim, Kinds

LEMMA ClaimHasTable ==
    ASSUME NEW row, NEW table \in {"dbt", "cube"}, NEW name,
           Claim(row) = <<table, name>>, row.table \in Kinds
    PROVE  row.table = table /\ row.name = name
BY DEF Claim, Kinds

LEMMA ParentsOfTiles ==
    ASSUME NEW row
    PROVE  /\ row.table # "tile" => Parents(row) = {}
           /\ row.table = "tile" => Parents(row) = {row.board, row.chart} \ {None}
BY DEF Parents

\* Where the rows of the tables after the commit come from.
LEMMA AppliedRows ==
    ASSUME NEW r, Commits(r)
    PROVE  LET w == req[r].writes IN
           /\ \A i \in DOMAIN rows' :
                 \/ i \in DOMAIN rows /\ i \notin DOMAIN w /\ rows'[i] = rows[i]
                 \/ /\ i \in DOMAIN rows /\ i \in DOMAIN w /\ w[i].verb = "update"
                    /\ Change(i, w[i].set, req[r])
                    /\ rows'[i] = Updated(rows[i], w[i].set)
                 \/ /\ i \notin DOMAIN rows /\ i \in DOMAIN w /\ w[i].verb = "insert"
                    /\ NewRow(i, w[i].set, req[r])
                    /\ rows'[i] = w[i].set
           /\ \A i \in DOMAIN rows \ DOMAIN rows' :
                 i \in Sent(w, "delete") \/ i \in Cascaded(rows, Sent(w, "delete"))
           /\ \A i \in Sent(w, "insert") : i \in DOMAIN rows'
           /\ \A i \in DOMAIN rows' : i \notin Cascaded(rows, Sent(w, "delete")) /\ i \notin Sent(w, "delete")
           /\ rows' = [i \in DOMAIN rows' |-> rows'[i]]
<1> DEFINE w == req[r].writes
           gone == Sent(w, "delete")
           left == (DOMAIN rows \cup Sent(w, "insert")) \ (gone \cup Cascaded(rows, gone))
<1>0. rows' = [i \in left |->
                 CASE i \notin DOMAIN w    -> rows[i]
                   [] i \notin DOMAIN rows -> w[i].set
                   [] OTHER                -> Updated(rows[i], w[i].set)]
  BY DEF Commits, Applied
<1>1. \A i \in DOMAIN w :
         /\ w[i].verb \in {"insert", "update", "delete"}
         /\ w[i].verb = "insert" => NewRow(i, w[i].set, req[r])
         /\ w[i].verb = "update" => Change(i, w[i].set, req[r])
  BY DEF Commits, WorkspaceInv, RequestsHold, IsRequest, Writes
<1>2. DOMAIN rows' = left
  BY <1>0
<1>3. \A i \in DOMAIN w : w[i].verb = "insert" => i \notin DOMAIN rows /\ DOMAIN w = {i}
  BY <1>1 DEF NewRow
<1>4. ASSUME NEW i \in DOMAIN rows'
      PROVE  \/ i \in DOMAIN rows /\ i \notin DOMAIN w /\ rows'[i] = rows[i]
             \/ /\ i \in DOMAIN rows /\ i \in DOMAIN w /\ w[i].verb = "update"
                /\ Change(i, w[i].set, req[r])
                /\ rows'[i] = Updated(rows[i], w[i].set)
             \/ /\ i \notin DOMAIN rows /\ i \in DOMAIN w /\ w[i].verb = "insert"
                /\ NewRow(i, w[i].set, req[r])
                /\ rows'[i] = w[i].set
  <2>1. i \in left /\ i \notin gone
    BY <1>2
  <2>2. rows'[i] = CASE i \notin DOMAIN w    -> rows[i]
                     [] i \notin DOMAIN rows -> w[i].set
                     [] OTHER                -> Updated(rows[i], w[i].set)
    BY <1>0, <2>1
  <2>3. CASE i \notin DOMAIN w
    BY <2>1, <2>2, <2>3 DEF Sent
  <2>4. CASE i \in DOMAIN w /\ i \notin DOMAIN rows
    BY <1>1, <2>1, <2>2, <2>4 DEF Sent
  <2>5. CASE i \in DOMAIN w /\ i \in DOMAIN rows
    BY <1>1, <1>3, <2>1, <2>2, <2>5 DEF Sent
  <2> QED
    BY <2>3, <2>4, <2>5
<1>5. ASSUME NEW i \in Sent(w, "insert")
      PROVE  i \in DOMAIN rows'
  <2>1. i \notin DOMAIN rows /\ DOMAIN w = {i} /\ i \notin gone
    BY <1>3 DEF Sent
  <2>2. i \notin Cascaded(rows, gone)
    BY <2>1 DEF Cascaded
  <2> QED
    BY <1>2, <2>1, <2>2
<1> QED
  BY <1>0, <1>2, <1>4, <1>5

\* A row that stays is a row of its table, and a tile stays where it is.
LEMMA RowsStay ==
    ASSUME NEW r, Commits(r), NEW i \in DOMAIN rows', i \in DOMAIN rows
    PROVE  /\ rows'[i].table = rows[i].table
           /\ WholeRow(rows'[i])
           /\ rows[i].table = "tile" =>
                 /\ rows'[i].board = rows[i].board /\ rows'[i].chart = rows[i].chart
           /\ rows[i].table = "user" => rows'[i].email = rows[i].email
           /\ \/ Claim(rows'[i]) = Claim(rows[i])
              \/ rows[i].table \notin Claimed
              \/ /\ DOMAIN req[r].writes = {i}
                 /\ Claim(rows'[i]) \in req[r].claims /\ Unclaimed(i, Claim(rows'[i]))
<1> DEFINE w == req[r].writes
<1>0. WholeRow(rows[i])
  BY DEF Commits, WorkspaceInv, TablesHold
<1>1. CASE rows'[i] = rows[i]
  BY <1>0, <1>1
<1>2. CASE i \in DOMAIN w /\ Change(i, w[i].set, req[r]) /\ rows'[i] = Updated(rows[i], w[i].set)
  <2>1. PICK set : set = w[i].set
    OBVIOUS
  <2>2. PICK table \in Kinds :
          /\ Known(i, table) /\ "table" \notin DOMAIN set
          /\ table = "board" /\ "filters" \in DOMAIN set => WalkEnds(set.filters)
          /\ table = "tile" =>
             /\ {"board", "chart", "kind"} \cap DOMAIN set = {}
             /\ "position" \in DOMAIN set => set.position \in Nat
          /\ table \in {"dbt", "cube"} /\ "name" \in DOMAIN set =>
             /\ DOMAIN w = {i}
             /\ <<table, set.name>> \in req[r].claims /\ Unclaimed(i, <<table, set.name>>)
          /\ table = "job" => "selection" \notin DOMAIN set
          /\ table = "user" => "email" \notin DOMAIN set
    BY <1>2, <2>1 DEF Change
  <2>3. rows[i].table = table
    BY <2>2 DEF Known
  <2>4. PICK row, new : row = rows[i] /\ new = rows'[i]
    OBVIOUS
  <2>5. new = [c \in DOMAIN row \cup DOMAIN set |-> IF c \in DOMAIN set THEN set[c] ELSE row[c]]
    BY <1>2, <2>1, <2>4 DEF Updated
  <2>6. /\ DOMAIN new = DOMAIN row \cup DOMAIN set
        /\ new = [c \in DOMAIN new |-> new[c]]
        /\ \A c \in DOMAIN set : new[c] = set[c]
        /\ \A c \in DOMAIN row \ DOMAIN set : new[c] = row[c]
    BY <2>5
  <2>7. IsRow(row) /\ (row.table = "board" => WalkEnds(row.filters))
    BY <1>0, <2>4 DEF WholeRow
  <2>8. "table" \in DOMAIN row /\ new.table = table /\ row.table = table
    BY <2>2, <2>3, <2>4, <2>6, <2>7 DEF IsRow
  <2>9. table = "tile" => new.board = row.board /\ new.chart = row.chart /\ new.kind = row.kind
                          /\ new.position \in Nat
    BY <2>2, <2>6, <2>7, <2>8 DEF IsRow
  <2>10. table = "board" => WalkEnds(new.filters)
    <3>1. ASSUME table = "board", "filters" \in DOMAIN set PROVE new.filters = set.filters
      BY <2>6, <3>1
    <3>2. ASSUME table = "board", "filters" \notin DOMAIN set PROVE new.filters = row.filters
      BY <2>6, <2>7, <2>8, <3>2 DEF IsRow
    <3> QED
      BY <2>2, <2>7, <2>8, <3>1, <3>2
  <2>11. IsRow(new)
    BY <2>6, <2>7, <2>8, <2>9 DEF IsRow, Kinds
  <2>12. WholeRow(new)
    BY <2>8, <2>10, <2>11 DEF WholeRow
  <2>13. table = "user" => new.email = row.email
    BY <2>2, <2>6, <2>7, <2>8 DEF IsRow
  <2>14. \/ Claim(new) = Claim(row) \/ table \notin Claimed
         \/ /\ DOMAIN w = {i}
            /\ Claim(new) \in req[r].claims /\ Unclaimed(i, Claim(new))
    <3>1. CASE table = "job"
      <4>1. new.selection = row.selection
        BY <2>2, <2>6, <2>7, <2>8, <3>1 DEF IsRow
      <4> QED
        BY <2>8, <3>1, <4>1 DEF Claim
    <3>2. CASE table \in {"dbt", "cube"} /\ "name" \in DOMAIN set
      <4>1. Claim(new) = <<table, set.name>>
        BY <2>6, <2>8, <3>2 DEF Claim
      <4> QED
        BY <2>2, <3>2, <4>1
    <3>3. CASE table \in {"dbt", "cube"} /\ "name" \notin DOMAIN set
      <4>1. new.name = row.name
        BY <2>6, <2>7, <2>8, <3>3 DEF IsRow
      <4> QED
        BY <2>8, <3>3, <4>1 DEF Claim
    <3> QED
      BY <3>1, <3>2, <3>3 DEF Claimed
  <2> QED
    BY <2>3, <2>4, <2>8, <2>9, <2>12, <2>13, <2>14
<1> QED
  BY <1>1, <1>2, AppliedRows

LEMMA RowsCome ==
    ASSUME NEW r, Commits(r), NEW i \in DOMAIN rows', i \notin DOMAIN rows
    PROVE  /\ NewRow(i, rows'[i], req[r])
           /\ i \in Sent(req[r].writes, "insert") /\ rows'[i] = req[r].writes[i].set
           /\ DOMAIN rows' = DOMAIN rows \cup {i}
<1> DEFINE w == req[r].writes
<1>1. /\ i \in DOMAIN w /\ w[i].verb = "insert" /\ NewRow(i, w[i].set, req[r]) /\ rows'[i] = w[i].set
  BY AppliedRows
<1>2. DOMAIN w = {i}
  BY <1>1 DEF NewRow
<1>3. Sent(w, "delete") = {}
  BY <1>1, <1>2 DEF Sent
<1>4. \A j \in DOMAIN rows : j \in DOMAIN rows'
  BY <1>3, AppliedRows DEF Cascaded
<1>5. \A j \in DOMAIN rows' : j \in DOMAIN rows \/ j = i
  BY <1>2, AppliedRows
<1> QED
  BY <1>1, <1>4, <1>5 DEF Sent

\* What is deleted with a row is a tile.
LEMMA RowsGo ==
    ASSUME NEW r, Commits(r), NEW i \in DOMAIN rows \ DOMAIN rows'
    PROVE  \/ i \in Sent(req[r].writes, "delete") /\ rows[i].table # "job" /\ req[r].op.kind \in Deletions
           \/ rows[i].table = "tile" /\ i \in Cascaded(rows, Sent(req[r].writes, "delete"))
<1> DEFINE w == req[r].writes
<1>1. CASE i \in Sent(w, "delete")
  <2>1. Removal(i, req[r])
    BY <1>1 DEF Sent, Commits, WorkspaceInv, RequestsHold, IsRequest, Writes
  <2> QED
    BY <1>1, <2>1 DEF Removal, Known
<1>2. CASE i \in Cascaded(rows, Sent(w, "delete"))
  BY <1>2, ParentsOfTiles DEF Cascaded
<1> QED
  BY <1>1, <1>2, AppliedRows

\* The parents of a tile that is left are left.
LEMMA ParentsAreLeft ==
    ASSUME NEW r, Commits(r), NEW t \in Of(rows', "tile"), NEW p, NEW table \in {"board", "chart"},
           p = IF table = "board" THEN rows'[t].board ELSE rows'[t].chart,
           table = "chart" => p # None
    PROVE  p \in Of(rows', table)
<1> DEFINE w == req[r].writes
<1>0. t \in DOMAIN rows' /\ rows'[t].table = "tile"
  BY DEF Of
<1>1. p \in DOMAIN rows /\ rows[p].table = table /\ p \notin Sent(w, "delete") /\ p # None
  <2>1. CASE t \in DOMAIN rows
    <3>1. rows[t].table = "tile" /\ rows'[t].board = rows[t].board /\ rows'[t].chart = rows[t].chart
      BY <1>0, <2>1, RowsStay
    <3>2. RefersToRows(t, rows)
      BY <2>1, <3>1 DEF Commits, WorkspaceInv, TablesHold, Of
    <3>3. p \in Of(rows, table)
      BY <3>1, <3>2 DEF RefersToRows
    <3>4. DOMAIN rows \subseteq 1..(nextId - 1)
      BY DEF Commits, WorkspaceInv, TablesHold
    <3>5. p \in Nat
      BY <3>3, <3>4 DEF Of
    <3>6. p # None
      BY <3>5, NoneIsNoId
    <3>7. p \in Parents(rows[t])
      BY <3>1, <3>6, ParentsOfTiles
    <3>8. t \notin Cascaded(rows, Sent(w, "delete"))
      BY <1>0, AppliedRows
    <3> QED
      BY <2>1, <3>3, <3>6, <3>7, <3>8 DEF Of, Cascaded
  <2>2. CASE t \notin DOMAIN rows
    <3>1. /\ NewRow(t, rows'[t], req[r]) /\ t \in Sent(w, "insert") /\ rows'[t] = w[t].set
      BY <1>0, <2>2, RowsCome
    <3>2. Known(p, table) /\ DOMAIN w = {t}
      BY <1>0, <3>1 DEF NewRow
    <3>3. p \in Nat
      BY <3>2 DEF Known
    <3>4. p # None
      BY <3>3, NoneIsNoId
    <3>5. Accepted(rows, w)
      BY DEF Commits, WorkspaceInv, PairsHold, Flushed
    <3>6. Parents(w[t].set) \subseteq DOMAIN rows
      BY <3>1, <3>5 DEF Accepted
    <3>7. p \in Parents(w[t].set)
      BY <1>0, <3>1, <3>4, ParentsOfTiles
    <3>8. rows[p].table = table
      BY <3>2, <3>6, <3>7 DEF Known
    <3>9. p \notin Sent(w, "delete")
      BY <3>1, <3>2 DEF Sent
    <3> QED
      BY <3>4, <3>6, <3>7, <3>8, <3>9
  <2> QED
    BY <2>1, <2>2
<1>2. p \in DOMAIN rows'
  BY <1>1, RowsGo
<1>3. rows'[p].table = table
  BY <1>1, <1>2, RowsStay
<1> QED
  BY <1>2, <1>3 DEF Of

LEMMA CommitTables ==
    ASSUME NEW r, Commits(r)
    PROVE  TablesHold'
<1> DEFINE w == req[r].writes
<1>1. rows' = [i \in DOMAIN rows' |-> rows'[i]]
  BY AppliedRows
<1>2. nextId' \in 1..(work'.ids + 1) /\ nextId' = nextId
  BY DEF Commits, WorkspaceInv, TablesHold
<1>3. DOMAIN rows' \subseteq 1..(nextId' - 1)
  <2>1. ASSUME NEW i \in DOMAIN rows' PROVE i \in 1..(nextId - 1)
    <3>1. CASE i \in DOMAIN rows
      BY <3>1 DEF Commits, WorkspaceInv, TablesHold
    <3>2. CASE i \notin DOMAIN rows
      BY <3>2, RowsCome DEF NewRow
    <3> QED
      BY <3>1, <3>2
  <2> QED
    BY <1>2, <2>1
<1>4. ASSUME NEW i \in DOMAIN rows' PROVE WholeRow(rows'[i])
  <2>1. CASE i \in DOMAIN rows
    BY <2>1, RowsStay
  <2>2. CASE i \notin DOMAIN rows
    BY <2>2, RowsCome DEF NewRow
  <2> QED
    BY <2>1, <2>2
<1>5. \A t \in Of(rows', "tile") : RefersToRows(t, rows')
  BY ParentsAreLeft DEF RefersToRows
<1>6. \A i \in DOMAIN rows' : rows'[i].table \in Kinds
  BY <1>4 DEF WholeRow, IsRow, Kinds
<1>7. \A i \in DOMAIN rows : rows[i].table \in Kinds
  BY DEF Commits, WorkspaceInv, TablesHold, WholeRow, IsRow, Kinds
<1>8. ASSUME NEW i \in Of(rows', "user"), NEW j \in Of(rows', "user"), rows'[i].email = rows'[j].email
      PROVE  i = j
  <2>0. i \in DOMAIN rows' /\ j \in DOMAIN rows' /\ rows'[i].table = "user" /\ rows'[j].table = "user"
    BY DEF Of
  <2>1. \A k \in DOMAIN rows' : k \in DOMAIN rows /\ rows'[k].table = "user" =>
            k \in Of(rows, "user") /\ rows'[k].email = rows[k].email
    BY RowsStay DEF Of
  <2>2. CASE i \in DOMAIN rows /\ j \in DOMAIN rows
    <3>1. i \in Of(rows, "user") /\ j \in Of(rows, "user") /\ rows[i].email = rows[j].email
      BY <1>8, <2>0, <2>1, <2>2
    <3> QED
      BY <3>1 DEF Commits, WorkspaceInv, TablesHold
  <2>3. ASSUME NEW k \in DOMAIN rows', NEW n \in DOMAIN rows', k \in DOMAIN rows, n \notin DOMAIN rows,
               rows'[k].table = "user", rows'[n].table = "user", rows'[k].email = rows'[n].email
        PROVE  FALSE
    <3>1. k \in Of(rows, "user") /\ rows'[k].email = rows[k].email
      BY <2>1, <2>3
    <3>2. n \in Sent(w, "insert") /\ rows'[n] = w[n].set
      BY <2>3, RowsCome
    <3>3. rows'[n].email \in Emails(w)
      BY <2>3, <3>2 DEF Emails
    <3>4. Accepted(rows, w)
      BY DEF Commits, WorkspaceInv, PairsHold, Flushed
    <3> QED
      BY <2>3, <3>1, <3>3, <3>4 DEF Accepted, Of
  <2>4. CASE i \notin DOMAIN rows /\ j \notin DOMAIN rows
    <3>1. DOMAIN rows' = DOMAIN rows \cup {i}
      BY <2>0, <2>4, RowsCome
    <3> QED
      BY <2>0, <2>4, <3>1
  <2> QED
    BY <1>8, <2>0, <2>2, <2>3, <2>4
<1>9. ASSUME NEW i \in DOMAIN rows', NEW j \in DOMAIN rows',
             i # j, rows'[i].table \in Claimed, Claim(rows'[i]) = Claim(rows'[j])
      PROVE  Claim(rows'[i]) \in raced'
  <2>0. rows'[j].table \in Claimed /\ raced' = raced
    BY <1>6, <1>9, ClaimIsOfTable DEF Commits
  <2>1. ASSUME NEW k \in DOMAIN rows'
        PROVE  \/ k \in DOMAIN rows /\ rows[k].table = rows'[k].table /\ Claim(rows'[k]) = Claim(rows[k])
               \/ rows'[k].table \notin Claimed
               \/ DOMAIN w = {k} /\ Unclaimed(k, Claim(rows'[k]))
    <3>1. CASE k \in DOMAIN rows
      BY <3>1, RowsStay
    <3>2. CASE k \notin DOMAIN rows
      BY <3>2, RowsCome DEF NewRow
    <3> QED
      BY <3>1, <3>2
  <2>2. ASSUME NEW k \in DOMAIN rows', NEW n \in DOMAIN rows', k # n,
               rows'[n].table \in Claimed, Claim(rows'[k]) = Claim(rows'[n]),
               DOMAIN w = {k}, Unclaimed(k, Claim(rows'[k]))
        PROVE  Claim(rows'[k]) \in raced
    <3>1. n \in DOMAIN rows /\ rows'[n] = rows[n]
      BY <2>2, AppliedRows
    <3> QED
      BY <2>2, <3>1 DEF Unclaimed
  <2>3. CASE /\ i \in DOMAIN rows /\ rows[i].table = rows'[i].table /\ Claim(rows'[i]) = Claim(rows[i])
             /\ j \in DOMAIN rows /\ rows[j].table = rows'[j].table /\ Claim(rows'[j]) = Claim(rows[j])
    BY <1>9, <2>0, <2>3 DEF Commits, WorkspaceInv, TablesHold
  <2> QED
    BY <1>9, <2>0, <2>1, <2>2, <2>3
<1>10. TablesHold'
  <2>1. nextId' \in 1..(work'.ids + 1) /\ DOMAIN rows' \subseteq 1..(nextId' - 1)
    BY <1>2, <1>3
  <2> QED
    BY <1>1, <1>4, <1>5, <1>8, <1>9, <2>1 DEF TablesHold
<1> QED
  BY <1>10

LEMMA CommitGrows ==
    ASSUME NEW r, Commits(r)
    PROVE  /\ Grows
           /\ Active' = Active \ {r} /\ \A s \in Active' : Continues(s) /\ req'[s] = req[s]
           /\ \A s \in Active \ {r} : Undisturbed(s)
<1> DEFINE w == req[r].writes
<1>0. /\ DOMAIN req = Requests /\ r \in Active /\ r \in Requests /\ UNCHANGED <<nextId, raced>>
      /\ nextId \in Nat /\ req' = [req EXCEPT ![r] = Idle]
  BY DEF Commits, WorkspaceInv, RequestsHold, TablesHold, Active
<1>1. Active' = Active \ {r} /\ \A s \in Active' : Continues(s) /\ req'[s] = req[s]
  BY <1>0 DEF Active, Continues
<1>2. \A s \in Active' : Pending(s)' = Pending(s)
  BY <1>1 DEF Pending
<1>3. Settled \subseteq Settled'
  BY <1>0, <1>1, <1>2 DEF Settled
<1>4. ASSUME NEW i \in Settled \cap DOMAIN rows'
      PROVE  /\ i \in DOMAIN rows /\ rows'[i].table = rows[i].table
             /\ rows[i].table = "tile" => rows'[i].board = rows[i].board
  <2>1. i \in DOMAIN rows
    BY <1>0, RowsCome DEF Settled, Pending
  <2> QED
    BY <2>1, RowsStay
<1>5. ASSUME NEW i \in Of(rows, "job") PROVE i \in Of(rows', "job")
  <2>1. i \in DOMAIN rows /\ rows[i].table = "job"
    BY DEF Of
  <2>2. i \in DOMAIN rows'
    BY <2>1, RowsGo
  <2> QED
    BY <2>1, <2>2, RowsStay DEF Of
<1>6. Grows
  BY <1>0, <1>3, <1>4, <1>5 DEF Grows
<1>7. ASSUME NEW s \in Active \ {r} PROVE Undisturbed(s)
  <2>1. Pending(s) \cap DOMAIN rows' = {}
    <3>1. Pending(s) \cap DOMAIN rows = {}
      BY PendingAreNew DEF Commits, WorkspaceInv
    <3>2. Pending(s) \cap Pending(r) = {}
      BY <1>0 DEF Commits, WorkspaceInv, PairsHold
    <3> QED
      BY <3>1, <3>2, RowsCome DEF Pending
  <2>2. ASSUME NEW c \in req[s].claims, NEW i \in 1..(nextId - 1), Unclaimed(i, c), c \notin raced,
               NEW j \in DOMAIN rows' \ {i}, rows'[j].table \in Claimed
        PROVE  Claim(rows'[j]) # c
    <3>1. c \notin req[r].claims
      BY <1>0, <2>2 DEF Commits, WorkspaceInv, PairsHold
    <3>2. CASE j \in DOMAIN rows
      <4>1. rows[j].table = rows'[j].table
        BY <3>2, RowsStay
      <4>2. Claim(rows[j]) # c
        BY <2>2, <3>2, <4>1 DEF Unclaimed
      <4>3. Claim(rows'[j]) = Claim(rows[j]) \/ Claim(rows'[j]) \in req[r].claims
        BY <2>2, <3>2, <4>1, RowsStay
      <4> QED
        BY <3>1, <4>2, <4>3
    <3>3. CASE j \notin DOMAIN rows
      <4>1. Claim(rows'[j]) \in req[r].claims
        BY <2>2, <3>3, RowsCome DEF NewRow
      <4> QED
        BY <3>1, <4>1
    <3> QED
      BY <3>2, <3>3
  <2>3. ASSUME NEW c \in req[s].claims, NEW i \in 1..(nextId - 1), Unclaimed(i, c)
        PROVE  Unclaimed(i, c)'
    BY <1>0, <2>2, <2>3 DEF Unclaimed
  <2> QED
    BY <2>1, <2>3 DEF Undisturbed
<1> QED
  BY <1>1, <1>6, <1>7

\* What is sent stays acceptable, and in nobody's way.
LEMMA CommitPairs ==
    ASSUME NEW r, Commits(r)
    PROVE  PairsHold'
<1> DEFINE w == req[r].writes
<1>0. /\ Active' = Active \ {r} /\ \A s \in Active' : req'[s] = req[s]
      /\ raced' = raced /\ r \in Flushed
  BY CommitGrows DEF Commits, Flushed
<1>1. \A s \in Active' : Pending(s)' = Pending(s) /\ s \in Active /\ s # r
  BY <1>0 DEF Pending
<1>2. \A s, t \in Active' : s # t =>
          /\ Pending(s)' \cap Pending(t)' = {}
          /\ req'[s].claims \cap req'[t].claims \subseteq raced'
          /\ ~req'[s].lone
  BY <1>0, <1>1 DEF Commits, WorkspaceInv, PairsHold
<1>3. \A s \in Flushed' : s \in Flushed /\ s # r /\ req'[s] = req[s]
  BY <1>0, <1>1 DEF Flushed
<1>4. \A s \in Flushed \ {r} : /\ Accepted(rows, req[s].writes) /\ Writes(req[s])
                              /\ ~Waits(rows, w, req[s].writes)
  BY <1>0 DEF Commits, WorkspaceInv, PairsHold, RequestsHold, IsRequest, Flushed
\* A row that a waiting request refers to is not deleted.
<1>5. ASSUME NEW s \in Flushed \ {r}, NEW i \in Sent(req[s].writes, "insert"),
             NEW p \in Parents(req[s].writes[i].set)
      PROVE  p \in DOMAIN rows'
  <2>1. p \in DOMAIN rows
    BY <1>4 DEF Accepted
  <2>2. p \in Referenced(req[s].writes)
    BY DEF Referenced
  <2>3. p \notin Sent(w, "delete")
    BY <1>4, <2>2 DEF Waits
  <2>4. PICK row : row = req[s].writes[i].set
    OBVIOUS
  <2>5. NewRow(i, row, req[s])
    BY <1>4, <2>4 DEF Writes, Sent
  <2>6. row.table = "tile"
    BY <2>4, ParentsOfTiles
  <2>7. Known(p, "board") \/ Known(p, "chart")
    BY <2>4, <2>5, <2>6, ParentsOfTiles DEF NewRow
  <2>8. rows[p].table # "tile"
    BY <2>1, <2>7 DEF Known
  <2> QED
    BY <2>1, <2>3, <2>8, RowsGo
<1>6. ASSUME NEW s \in Flushed \ {r}, NEW i \in Sent(req[s].writes, "update")
      PROVE  i \in DOMAIN rows'
  <2>1. i \in DOMAIN rows
    BY <1>4 DEF Accepted
  <2>2. i \in Locked(rows, req[s].writes)
    BY DEF Locked, Sent
  <2>3. i \notin Locked(rows, w)
    BY <1>4, <2>2 DEF Waits
  <2>4. i \notin Sent(w, "delete") /\ i \notin Cascaded(rows, Sent(w, "delete"))
    BY <2>3 DEF Locked, Sent
  <2> QED
    BY <2>1, <2>4, AppliedRows
<1>7. ASSUME NEW s \in Flushed \ {r}, NEW i \in DOMAIN rows', rows'[i].table = "user"
      PROVE  rows'[i].email \notin Emails(req[s].writes)
  <2>1. CASE i \in DOMAIN rows
    <3>1. rows[i].table = "user" /\ rows'[i].email = rows[i].email
      BY <1>7, <2>1, RowsStay
    <3> QED
      BY <1>4, <2>1, <3>1 DEF Accepted
  <2>2. CASE i \notin DOMAIN rows
    <3>1. rows'[i].email \in Emails(w)
      BY <1>7, <2>2, RowsCome DEF Emails
    <3> QED
      BY <1>4, <3>1 DEF Waits
  <2> QED
    BY <2>1, <2>2
<1>8. \A s \in Flushed' : Accepted(rows', req'[s].writes)
  BY <1>3, <1>5, <1>6, <1>7 DEF Accepted
<1>9. ASSUME NEW s \in Flushed \ {r}
      PROVE  Locked(rows', req[s].writes) \subseteq Locked(rows, req[s].writes)
  <2> DEFINE v == req[s].writes
  <2>1. ASSUME NEW i \in Cascaded(rows', Sent(v, "delete")) PROVE i \in Cascaded(rows, Sent(v, "delete"))
    <3>1. PICK p : i \in DOMAIN rows' /\ p \in Parents(rows'[i]) /\ p \in Sent(v, "delete")
      BY DEF Cascaded
    <3>2. CASE i \in DOMAIN rows
      <4>1. rows'[i].table = "tile"
        BY <3>1, ParentsOfTiles
      <4>2. rows[i].table = "tile" /\ rows'[i].board = rows[i].board /\ rows'[i].chart = rows[i].chart
        BY <3>1, <3>2, <4>1, RowsStay
      <4>3. Parents(rows'[i]) = Parents(rows[i])
        BY <4>1, <4>2, ParentsOfTiles
      <4> QED
        BY <3>1, <3>2, <4>3 DEF Cascaded
    <3>3. CASE i \notin DOMAIN rows
      <4>1. i \in Sent(w, "insert") /\ rows'[i] = w[i].set
        BY <3>1, <3>3, RowsCome
      <4>2. p \in Referenced(w)
        BY <3>1, <4>1 DEF Referenced
      <4> QED
        BY <1>4, <3>1, <4>2 DEF Waits
    <3> QED
      BY <3>2, <3>3
  <2> QED
    BY <2>1 DEF Locked
<1>10. \A s, t \in Flushed' : s # t => ~Waits(rows', req'[s].writes, req'[t].writes)
  <2> SUFFICES ASSUME NEW s \in Flushed', NEW t \in Flushed', s # t
               PROVE  ~Waits(rows', req'[s].writes, req'[t].writes)
    OBVIOUS
  <2>1. s \in Flushed \ {r} /\ t \in Flushed \ {r} /\ req'[s] = req[s] /\ req'[t] = req[t]
    BY <1>3
  <2>2. ~Waits(rows, req[s].writes, req[t].writes)
    BY <2>1 DEF Commits, WorkspaceInv, PairsHold
  <2>3. /\ Locked(rows', req[s].writes) \subseteq Locked(rows, req[s].writes)
        /\ Locked(rows', req[t].writes) \subseteq Locked(rows, req[t].writes)
    BY <1>9, <2>1
  <2> QED
    BY <2>1, <2>2, <2>3 DEF Waits
<1> QED
  BY <1>2, <1>8, <1>10 DEF PairsHold

LEMMA CommitHolds ==
    ASSUME WorkspaceInv, NEW r \in Requests, Commit(r)
    PROVE  WorkspaceInv'
<1>1. req[r] # Idle
  BY DEF Commit, Idle
<1>2. r \in Active /\ IsRequest(req[r]) /\ DOMAIN req = Requests
  BY <1>1, ActiveIs
<1>3. Commits(r)
  BY <1>2 DEF Commits, Commit, End
<1>4. /\ Grows /\ Active' = Active \ {r} /\ \A s \in Active' : Continues(s) /\ req'[s] = req[s]
      /\ \A s \in Active \ {r} : Undisturbed(s)
  BY <1>3, CommitGrows
<1>5. RequestsHold'
  <2>1. ASSUME NEW s \in Active' PROVE IsRequest(req[s])'
    <3>1. s \in Active /\ IsRequest(req[s]) /\ Continues(s) /\ Undisturbed(s) /\ req'[s] = req[s]
      BY <1>4 DEF WorkspaceInv, RequestsHold
    <3> QED
      BY <1>4, <3>1, RequestStays DEF IsRequest
  <2>2. DOMAIN req' = Requests
    BY <1>2, <1>3 DEF Commits
  <2> QED
    BY <2>1, <2>2 DEF RequestsHold
<1>6. RunsHold'
  <2>1. ASSUME Launches(req[r].op) PROVE req[r].op.job \in Of(rows', "job")
    <3>1. HasJob(req[r])
      BY <1>2, <2>1 DEF IsRequest
    <3>2. CASE req[r].op.job \in Of(rows, "job")
      BY <1>4, <3>2 DEF Grows
    <3>3. ASSUME NEW i, i = req[r].op.job, i \in DOMAIN req[r].writes,
                 req[r].writes[i].verb = "insert", req[r].writes[i].set.table = "job"
          PROVE  i \in Of(rows', "job")
      <4>1. i \in DOMAIN rows'
        BY <1>3, <3>3, AppliedRows DEF Sent
      <4>2. NewRow(i, req[r].writes[i].set, req[r])
        BY <1>2, <3>3 DEF IsRequest, Writes
      <4>3. i \notin DOMAIN rows
        BY <4>2 DEF NewRow
      <4>4. rows'[i] = req[r].writes[i].set
        BY <1>3, <4>1, <4>3, RowsCome
      <4> QED
        BY <3>3, <4>1, <4>4 DEF Of
    <3> QED
      BY <3>1, <3>2, <3>3 DEF HasJob
  <2> QED
    BY <1>2, <1>4, <2>1, RunsEnd DEF Commit, WorkspaceInv, Grows
<1>7. LoneHolds'
  <2>1. ASSUME NEW s \in Active' PROVE ~req'[s].lone
    <3>1. s \in Active /\ s # r /\ req'[s] = req[s]
      BY <1>4
    <3> QED
      BY <1>2, <3>1, LoneIsAlone
  <2> QED
    BY <2>1 DEF LoneHolds
<1> QED
  BY <1>3, <1>5, <1>6, <1>7, CommitTables, CommitPairs DEF WorkspaceInv, Commit

-----------------------------------------------------------------------------
(* The start of a request.                                                 *)

LEMMA BeginFacts ==
    ASSUME WorkspaceInv, NEW r \in Requests, NEW op, NEW callers, NEW claims, NEW accepted, NEW writes,
           Begin(r, op, callers, claims, accepted, writes)
    PROVE  /\ DOMAIN req'[r] = {"step", "op", "writes", "claims", "lone", "models"}
           /\ req'[r].step = "loaded" /\ req'[r].op = op /\ req'[r].writes = writes
           /\ req'[r].claims = claims
           /\ req'[r].lone \in BOOLEAN /\ (req'[r].lone => Active = {})
           /\ r \notin Active /\ Active' = Active \cup {r} /\ DOMAIN req' = Requests
           /\ \A s \in Active : Continues(s) /\ req'[s].step = req[s].step /\ req'[s].lone = FALSE
<1> DEFINE begun == [step |-> "loaded", op |-> op, writes |-> writes, claims |-> claims,
                     lone |-> Active = {}, models |-> {}]
<1>0. req' = [s \in Requests |->
                 CASE s = r -> begun
                   [] s \in Active -> [req[s] EXCEPT !.lone = FALSE]
                   [] OTHER -> Idle]
  BY DEF Begin
<1>1. r \notin Active
  BY DEF Begin, Active
<1>2. /\ DOMAIN begun = {"step", "op", "writes", "claims", "lone", "models"}
      /\ begun.step = "loaded" /\ begun.op = op /\ begun.writes = writes /\ begun.claims = claims
      /\ begun.lone = (Active = {})
  OBVIOUS
<1> HIDE DEF begun
<1>3. req'[r] = begun
  BY <1>0, <1>1
<1>4. ASSUME NEW s \in Active
      PROVE  Continues(s) /\ req'[s].step = req[s].step /\ req'[s].lone = FALSE
  <2>1. s \in Requests /\ s # r /\ req'[s] = [req[s] EXCEPT !.lone = FALSE]
    BY <1>0, <1>1 DEF Active
  <2>2. DOMAIN req[s] = {"step", "op", "writes", "claims", "lone", "models"}
    BY DEF WorkspaceInv, RequestsHold, IsRequest
  <2>3. /\ DOMAIN req'[s] = DOMAIN req[s] /\ req'[s].op = req[s].op /\ req'[s].writes = req[s].writes
        /\ req'[s].claims = req[s].claims /\ req'[s].step = req[s].step /\ req'[s].lone = FALSE
    BY <2>1, <2>2
  <2>4. req'[s] # Idle
    BY <2>2, <2>3, ActiveHasColumns
  <2> QED
    BY <2>1, <2>3, <2>4 DEF Continues, Active
<1>5. Active' = Active \cup {r}
  <2>1. req'[r] # Idle
    BY <1>2, <1>3, ActiveHasColumns
  <2>2. \A s \in Requests \ (Active \cup {r}) : req'[s] = Idle
    BY <1>0
  <2>3. Active \subseteq Active'
    BY <1>4 DEF Continues
  <2> QED
    BY <2>1, <2>2, <2>3 DEF Active
<1>6. begun.lone \in BOOLEAN /\ (begun.lone => Active = {})
  BY <1>2
<1>7. DOMAIN req' = Requests
  BY <1>0
<1> QED
  BY <1>1, <1>2, <1>3, <1>4, <1>5, <1>6, <1>7

LEMMA BeginGrows ==
    ASSUME WorkspaceInv, NEW r \in Requests, NEW op, NEW callers, NEW claims, NEW accepted, NEW writes,
           Begin(r, op, callers, claims, accepted, writes), nextId' \in {nextId, nextId + 1},
           Sent(writes, "insert") \cap 1..(nextId - 1) = {}
    PROVE  /\ Grows /\ \A s \in Active : Undisturbed(s)
           /\ \A s \in Active : Pending(s)' = Pending(s)
           /\ Pending(r)' = Sent(writes, "insert")
<1>1. /\ Active' = Active \cup {r} /\ req'[r].writes = writes
      /\ \A s \in Active : Continues(s)
  BY BeginFacts
<1>2. /\ \A s \in Active : Pending(s)' = Pending(s)
      /\ Pending(r)' = Sent(writes, "insert")
  BY <1>1 DEF Pending, Continues
<1>3. raced \subseteq raced' /\ UNCHANGED rows
  BY DEF Begin
<1>4. \A s \in Active' : \/ s \in Active /\ Pending(s)' = Pending(s)
                         \/ Pending(s)' \cap 1..(nextId - 1) = {}
  BY <1>1, <1>2
<1> QED
  BY <1>2, <1>3, <1>4, QuietGrows DEF WorkspaceInv

LEMMA BeginHolds ==
    ASSUME WorkspaceInv, NEW r \in Requests, NEW op, NEW callers, NEW claims, NEW accepted, NEW writes,
           Begin(r, op, callers, claims, accepted, writes),
           nextId' = nextId \/ (nextId' = nextId + 1 /\ nextId <= work.ids),
           Sent(writes, "insert") \cap 1..(nextId - 1) = {},
           IsRequest(req[r])', Asked(op, writes)
    PROVE  WorkspaceInv'
<1>0. UNCHANGED <<work, rows, dbtFiles, cubeFile, runs>> /\ raced \subseteq raced'
      /\ \A c \in claims : (\E s \in Active : c \in req[s].claims) => c \in raced'
  BY DEF Begin
<1>1. /\ req'[r].step = "loaded" /\ req'[r].op = op /\ req'[r].writes = writes /\ req'[r].claims = claims
      /\ req'[r].lone \in BOOLEAN /\ (req'[r].lone => Active = {})
      /\ r \notin Active /\ Active' = Active \cup {r} /\ DOMAIN req' = Requests
      /\ \A s \in Active : Continues(s) /\ req'[s].step = req[s].step /\ req'[s].lone = FALSE
  BY BeginFacts
<1>2. /\ Grows /\ \A s \in Active : Undisturbed(s)
      /\ \A s \in Active : Pending(s)' = Pending(s)
      /\ Pending(r)' = Sent(writes, "insert")
  <2>1. nextId' \in {nextId, nextId + 1}
    OBVIOUS
  <2> QED
    BY <2>1, BeginGrows
<1>3. TablesHold'
  BY <1>0, QuietTables DEF WorkspaceInv
<1>4. RequestsHold'
  <2>1. ASSUME NEW s \in Active PROVE IsRequest(req[s])'
    <3>1. IsRequest(req[s]) /\ Continues(s) /\ req'[s].step = req[s].step /\ req'[s].lone = FALSE
          /\ Undisturbed(s)
      BY <1>1, <1>2 DEF WorkspaceInv, RequestsHold
    <3>2. /\ req'[s].step \in {"loaded", "flushed", "listed", "ready"} /\ req'[s].lone \in BOOLEAN
          /\ req'[s].step = "listed" => GeneratesCode(req'[s].op)
      BY <3>1 DEF IsRequest, Continues
    <3> QED
      BY <1>2, <3>1, <3>2, RequestStays
  <2> QED
    BY <1>1, <2>1 DEF RequestsHold
<1>5. PairsHold'
  <2>1. ASSUME NEW s \in Active
        PROVE  /\ Pending(s)' \cap Pending(r)' = {}
               /\ req'[s].claims \cap req'[r].claims \subseteq raced'
               /\ ~req'[s].lone /\ ~req'[r].lone
    <3>1. Pending(s) \subseteq 1..(nextId - 1)
      BY PendingAreNew DEF WorkspaceInv
    <3>2. Pending(s)' \cap Pending(r)' = {}
      BY <1>2, <3>1
    <3>3. req'[s].claims = req[s].claims
      BY <1>1 DEF Continues
    <3> QED
      BY <1>0, <1>1, <3>2, <3>3
  <2>2. ASSUME NEW s \in Active, NEW t \in Active, s # t
        PROVE  /\ Pending(s)' \cap Pending(t)' = {}
               /\ req'[s].claims \cap req'[t].claims \subseteq raced'
               /\ ~req'[s].lone
    <3>1. Pending(s) \cap Pending(t) = {} /\ req[s].claims \cap req[t].claims \subseteq raced
      BY <2>2 DEF WorkspaceInv, PairsHold
    <3>2. req'[s].claims = req[s].claims /\ req'[t].claims = req[t].claims /\ ~req'[s].lone
      BY <1>1 DEF Continues
    <3> QED
      BY <1>0, <1>2, <3>1, <3>2
  <2>3. ASSUME NEW s \in Active', NEW t \in Active', s # t
        PROVE  /\ Pending(s)' \cap Pending(t)' = {}
               /\ req'[s].claims \cap req'[t].claims \subseteq raced'
               /\ ~req'[s].lone
    <3>1. CASE s \in Active /\ t \in Active
      BY <2>2, <2>3, <3>1
    <3>2. CASE s = r /\ t \in Active
      <4>1. /\ Pending(t)' \cap Pending(r)' = {}
            /\ req'[t].claims \cap req'[r].claims \subseteq raced'
            /\ ~req'[r].lone
        BY <2>1, <3>2
      <4> QED
        BY <3>2, <4>1
    <3>3. CASE t = r /\ s \in Active
      BY <2>1, <3>3
    <3> QED
      BY <1>1, <2>3, <3>1, <3>2, <3>3
  <2>4. \A s \in Flushed' : s \in Flushed /\ req'[s].writes = req[s].writes
    BY <1>1 DEF Flushed, Continues
  <2>5. /\ \A s \in Flushed' : Accepted(rows', req'[s].writes)
        /\ \A s, t \in Flushed' : s # t => ~Waits(rows', req'[s].writes, req'[t].writes)
    BY <1>0, <2>4 DEF WorkspaceInv, PairsHold
  <2> QED
    BY <2>3, <2>5 DEF PairsHold
<1>6. RunsHold'
  <2>1. \A s \in Active : Continues(s) /\ (req[s].step = "ready" => req'[s].step = "ready")
    BY <1>1
  <2>2. Of(rows, "job") \subseteq Of(rows', "job") /\ UNCHANGED runs
    BY <1>0
  <2>3. Active' \subseteq Requests
    BY DEF Active
  <2>4. ASSUME NEW k \in DOMAIN runs PROVE runs[k].by # r
    BY <1>1, FatesAreNoRequests DEF WorkspaceInv, RunsHold
  <2> QED
    BY <1>1, <2>1, <2>2, <2>3, <2>4, RunsContinue DEF WorkspaceInv
<1>7. LoneHolds'
  <2>1. ASSUME NEW s \in Active', req'[s].lone
        PROVE  /\ Asked(req[s].op, req[s].writes)'
               /\ req'[s].step = "loaded"
    <3>1. s = r
      BY <1>1, <2>1
    <3>2. PICK o, v : o = op /\ v = writes
      OBVIOUS
    <3>3. Asked(o, v)'
      <4>1. Asked(o, v)
        BY <3>2
      <4>2. rows' = rows
        BY <1>0
      <4> QED
        BY <4>1, <4>2 DEF Asked
    <3> QED
      BY <1>1, <3>1, <3>2, <3>3
  <2> QED
    BY <2>1 DEF LoneHolds
<1> QED
  BY <1>0, <1>3, <1>4, <1>5, <1>6, <1>7 DEF WorkspaceInv

LEMMA RowsAreKnown ==
    ASSUME WorkspaceInv, Grows, NEW table, NEW i \in Of(rows, table)
    PROVE  Known(i, table)'
<1>1. i \in 1..(nextId - 1) /\ i \in DOMAIN rows /\ rows[i].table = table
  BY DEF Of, WorkspaceInv, TablesHold
<1>2. \A s \in Active : i \notin Pending(s)
  BY <1>1, PendingAreNew DEF WorkspaceInv
<1>3. Known(i, table)
  BY <1>1, <1>2 DEF Known
<1> QED
  BY <1>3, KnownStays

\* What an UPDATE of a row of this table may set.
Sets(table, i, set, op, writes, claims) ==
    /\ "table" \notin DOMAIN set
    /\ table = "board" /\ "filters" \in DOMAIN set => WalkEnds(set.filters)
    /\ table = "tile" =>
         /\ {"board", "chart", "kind"} \cap DOMAIN set = {}
         /\ "position" \in DOMAIN set =>
              /\ set.position \in Nat
              /\ \/ op.kind = "update_tile" /\ op.id = i
                 \/ op.kind = "set_layout" /\ i \in DOMAIN op.layout /\ rows[i].board = op.id
    /\ table \in {"dbt", "cube"} /\ "name" \in DOMAIN set =>
         /\ DOMAIN writes = {i} /\ <<table, set.name>> \in claims
         /\ \A j \in DOMAIN rows \ {i} : rows[j].table \in Claimed => Claim(rows[j]) # <<table, set.name>>
    /\ table = "job" => "selection" \notin DOMAIN set
    /\ table = "user" => "email" \notin DOMAIN set

Alters(i, op, writes, claims) ==
    \E table \in Kinds :
       /\ i \in Of(rows, table)
       /\ \/ writes[i].verb = "delete" /\ op.kind \in Deletions /\ table # "job"
          \/ writes[i].verb = "update" /\ Sets(table, i, writes[i].set, op, writes, claims)

LEMMA BeginOldHolds ==
    ASSUME WorkspaceInv, NEW r \in Requests, NEW op, NEW callers, NEW claims, NEW accepted, NEW writes,
           BeginOld(r, op, callers, claims, accepted, writes),
           GeneratesCode(op) => op.table \in {"dbt", "cube"},
           Launches(op) => op.job \in Of(rows, "job"),
           \A i \in DOMAIN writes : Alters(i, op, writes, claims),
           Asked(op, writes)
    PROVE  WorkspaceInv'
<1>1. Begin(r, op, callers, claims, accepted, writes) /\ nextId' = nextId /\ rows' = rows /\ raced \subseteq raced'
  BY DEF BeginOld, Begin
<1>2. Sent(writes, "insert") = {}
  BY DEF Sent, Alters
<1>3. Grows
  <2>1. nextId' \in {nextId, nextId + 1} /\ Sent(writes, "insert") \cap 1..(nextId - 1) = {}
    BY <1>1, <1>2
  <2> QED
    BY <1>1, <2>1, BeginGrows
<1>4. /\ DOMAIN req'[r] = {"step", "op", "writes", "claims", "lone", "models"}
      /\ req'[r].step = "loaded" /\ req'[r].op = op /\ req'[r].writes = writes
      /\ req'[r].claims = claims /\ req'[r].lone \in BOOLEAN
  BY <1>1, BeginFacts
<1>5. PICK q : q = req'[r]
  OBVIOUS
<1>6. ASSUME NEW i \in DOMAIN writes
      PROVE  \/ writes[i].verb = "update" /\ Change(i, writes[i].set, q)'
             \/ writes[i].verb = "delete" /\ Removal(i, q)'
  <2>1. PICK table \in Kinds :
          /\ i \in Of(rows, table)
          /\ \/ writes[i].verb = "delete" /\ op.kind \in Deletions /\ table # "job"
             \/ writes[i].verb = "update" /\ Sets(table, i, writes[i].set, op, writes, claims)
    BY DEF Alters
  <2>2. Known(i, table)' /\ i \in DOMAIN rows
    BY <1>3, <2>1, RowsAreKnown DEF Of
  <2>3. CASE writes[i].verb = "delete" /\ op.kind \in Deletions /\ table # "job"
    BY <1>4, <1>5, <2>2, <2>3 DEF Removal
  <2>4. CASE writes[i].verb = "update" /\ Sets(table, i, writes[i].set, op, writes, claims)
    <3>1. PICK set : set = writes[i].set
      OBVIOUS
    <3>2. Sets(table, i, set, op, writes, claims)
      BY <2>4, <3>1
    <3>3. table = "tile" /\ "position" \in DOMAIN set => set.position \in Nat /\ Moves(op, i)'
      BY <1>1, <3>2 DEF Sets, Moves, KnownOn
    <3>4. table \in {"dbt", "cube"} /\ "name" \in DOMAIN set =>
            /\ DOMAIN writes = {i} /\ <<table, set.name>> \in claims
            /\ Unclaimed(i, <<table, set.name>>)'
      BY <1>1, <3>2 DEF Sets, Unclaimed
    <3>5. Change(i, set, q)'
      BY <1>4, <1>5, <2>2, <3>2, <3>3, <3>4 DEF Change, Sets
    <3> QED
      BY <2>4, <3>1, <3>5
  <2> QED
    BY <2>1, <2>3, <2>4
<1>7. Writes(q)'
  BY <1>4, <1>5, <1>6 DEF Writes
<1>8. Launches(op) => HasJob(q)'
  BY <1>1, <1>4, <1>5 DEF HasJob
<1>9. IsRequest(q)'
  BY <1>4, <1>5, <1>7, <1>8 DEF IsRequest
<1>10. IsRequest(req[r])'
  BY <1>5, <1>9
<1> QED
  BY <1>1, <1>2, <1>10, BeginHolds

LEMMA BeginNewHolds ==
    ASSUME WorkspaceInv, NEW r \in Requests, NEW op, NEW callers, NEW claims, NEW accepted, NEW row,
           BeginNew(r, op, callers, claims, accepted, Insert(nextId, row)),
           WholeRow(row),
           row.table = "tile" =>
              /\ row.board \in Of(rows, "board")
              /\ row.chart # None => row.chart \in Of(rows, "chart"),
           row.table \in Claimed =>
              /\ Claim(row) \in claims
              /\ \A j \in DOMAIN rows : rows[j].table \in Claimed => Claim(rows[j]) # Claim(row),
           GeneratesCode(op) => op.table \in {"dbt", "cube"},
           Launches(op) => op.job = nextId /\ row.table = "job",
           Asked(op, Insert(nextId, row))
    PROVE  WorkspaceInv'
<1>0. PICK new : new = nextId
  OBVIOUS
<1> DEFINE writes == Insert(new, row)
<1>1. /\ Begin(r, op, callers, claims, accepted, writes) /\ nextId' = new + 1 /\ nextId <= work.ids
      /\ rows' = rows /\ raced \subseteq raced'
  BY <1>0 DEF BeginNew, Begin
<1>2. /\ DOMAIN writes = {new} /\ writes[new].verb = "insert" /\ writes[new].set = row
      /\ Sent(writes, "insert") = {new}
  BY DEF Insert, Sent
<1> HIDE DEF writes
<1>3. new \in Nat \ {0} /\ new \notin DOMAIN rows /\ new \in 1..(nextId' - 1)
  <2>1. work.ids \in Nat /\ new \in 1..(work.ids + 1) /\ DOMAIN rows \subseteq 1..(new - 1)
    BY <1>0, WorkloadsFitTheTables DEF WorkspaceInv, TablesHold
  <2>2. new \in Nat \ {0} /\ new \notin DOMAIN rows
    BY <2>1
  <2> QED
    BY <1>1, <2>2
<1>4. Grows
  <2>1. nextId' \in {nextId, nextId + 1} /\ Sent(writes, "insert") \cap 1..(nextId - 1) = {}
    BY <1>0, <1>1, <1>2, <1>3
  <2> QED
    BY <1>1, <2>1, BeginGrows
<1>5. /\ DOMAIN req'[r] = {"step", "op", "writes", "claims", "lone", "models"}
      /\ req'[r].step = "loaded" /\ req'[r].op = op /\ req'[r].writes = writes
      /\ req'[r].claims = claims /\ req'[r].lone \in BOOLEAN
  BY <1>1, BeginFacts
<1>6. PICK q : q = req'[r]
  OBVIOUS
<1>7. NewRow(new, row, q)'
  <2>1. row.table = "tile" =>
          /\ Known(row.board, "board")'
          /\ row.chart # None => Known(row.chart, "chart")'
    BY <1>4, RowsAreKnown
  <2>2. row.table \in Claimed => Claim(row) \in claims /\ Unclaimed(new, Claim(row))'
    BY <1>1 DEF Unclaimed
  <2> QED
    BY <1>1, <1>2, <1>3, <1>5, <1>6, <2>1, <2>2 DEF NewRow
<1>8. Writes(q)'
  BY <1>2, <1>5, <1>6, <1>7 DEF Writes
<1>9. Launches(op) => HasJob(q)'
  BY <1>0, <1>2, <1>5, <1>6 DEF HasJob
<1>10. IsRequest(q)'
  BY <1>5, <1>6, <1>8, <1>9 DEF IsRequest
<1>11. IsRequest(req[r])'
  BY <1>6, <1>10
<1>12. Asked(op, writes)
  BY <1>0 DEF writes
<1>13. nextId' = nextId \/ (nextId' = nextId + 1 /\ nextId <= work.ids)
  BY <1>0, <1>1
<1>14. Sent(writes, "insert") \cap 1..(nextId - 1) = {}
  BY <1>0, <1>2, <1>3
<1> QED
  BY <1>1, <1>11, <1>12, <1>13, <1>14, BeginHolds

LEMMA AssignIs ==
    ASSUME NEW i, NEW values
    PROVE  \/ DOMAIN Assign(rows, i, values) = {}
           \/ \E set :
                /\ Assign(rows, i, values) = [j \in {i} |-> [verb |-> "update", set |-> set]]
                /\ DOMAIN set \subseteq DOMAIN values
                /\ \A c \in DOMAIN set : set[c] = values[c] /\ rows[i][c] # values[c]
<1> DEFINE changed == {c \in DOMAIN values : rows[i][c] # values[c]}
           sent == [c \in changed |-> values[c]]
<1>1. CASE changed = {}
  BY <1>1 DEF Assign, NoWrites
<1>2. CASE changed # {}
  <2>1. Assign(rows, i, values) = [j \in {i} |-> [verb |-> "update", set |-> sent]]
    BY <1>2 DEF Assign
  <2>2. DOMAIN sent \subseteq DOMAIN values
        /\ \A c \in DOMAIN sent : sent[c] = values[c] /\ rows[i][c] # values[c]
    OBVIOUS
  <2> HIDE DEF sent
  <2> QED
    BY <2>1, <2>2
<1> QED
  BY <1>1, <1>2

\* An assignment alters a row as far as the values it is given do.
LEMMA AssignAlters ==
    ASSUME NEW table \in Kinds, NEW i \in Of(rows, table), NEW values, NEW op, NEW claims,
           \A set : /\ DOMAIN set \subseteq DOMAIN values
                    /\ \A c \in DOMAIN set : set[c] = values[c] /\ rows[i][c] # values[c]
                    => \A writes : DOMAIN writes = {i} => Sets(table, i, set, op, writes, claims)
    PROVE  \A j \in DOMAIN Assign(rows, i, values) : Alters(j, op, Assign(rows, i, values), claims)
<1> DEFINE writes == Assign(rows, i, values)
<1>1. \/ DOMAIN writes = {}
      \/ \E set :
           /\ writes = [j \in {i} |-> [verb |-> "update", set |-> set]]
           /\ DOMAIN set \subseteq DOMAIN values
           /\ \A c \in DOMAIN set : set[c] = values[c] /\ rows[i][c] # values[c]
  BY AssignIs
<1> HIDE DEF writes
<1>2. ASSUME NEW set,
             writes = [j \in {i} |-> [verb |-> "update", set |-> set]],
             DOMAIN set \subseteq DOMAIN values,
             \A c \in DOMAIN set : set[c] = values[c] /\ rows[i][c] # values[c]
      PROVE  \A j \in DOMAIN writes : Alters(j, op, writes, claims)
  <2>1. DOMAIN writes = {i} /\ writes[i].verb = "update" /\ writes[i].set = set
    BY <1>2
  <2>2. Sets(table, i, set, op, writes, claims)
    BY <1>2, <2>1
  <2> QED
    BY <2>1, <2>2 DEF Alters
<1>3. \A j \in DOMAIN writes : Alters(j, op, writes, claims)
  BY <1>1, <1>2
<1> QED
  BY <1>3 DEF writes

LEMMA DeleteAlters ==
    ASSUME NEW S, NEW op, NEW claims, op.kind \in Deletions,
           \A i \in S : \E table \in Kinds \ {"job"} : i \in Of(rows, table)
    PROVE  \A i \in DOMAIN Delete(S) : Alters(i, op, Delete(S), claims)
BY DEF Delete, Alters

LEMMA ChartRequestHolds ==
    ASSUME WorkspaceInv, NEW r \in Requests, ChartRequest(r)
    PROVE  WorkspaceInv'
<1>1. CASE BeginNew(r, [kind |-> "create_chart"], Editors, {}, TRUE, CreateChart(nextId))
  <2> DEFINE row == [table |-> "chart", spec |-> 1]
             op == [kind |-> "create_chart"]
  <2>1. row.table = "chart" /\ WholeRow(row) /\ row.table \notin Claimed
    BY DEF WholeRow, IsRow, Claimed
  <2>2. CreateChart(nextId) = Insert(nextId, row)
    BY DEF CreateChart
  <2>3. ~GeneratesCode(op) /\ ~Launches(op) /\ \A w : Asked(op, w)
    BY DEF GeneratesCode, Launches, Asked
  <2> HIDE DEF row, op
  <2> QED
    BY <1>1, <2>1, <2>2, <2>3, BeginNewHolds DEF op
<1>2. ASSUME NEW c \in Of(rows, "chart"),
             BeginOld(r, [kind |-> "update_chart", id |-> c, spec |-> 2], Editors, {},
                      TRUE, UpdateChart(rows, c, 2))
      PROVE  WorkspaceInv'
  <2> DEFINE op == [kind |-> "update_chart", id |-> c, spec |-> 2]
             values == [spec |-> 2]
  <2>1. ~GeneratesCode(op) /\ ~Launches(op) /\ \A w : Asked(op, w)
    BY DEF GeneratesCode, Launches, Asked
  <2>2. ASSUME NEW set, DOMAIN set \subseteq DOMAIN values, NEW writes
        PROVE  Sets("chart", c, set, op, writes, {})
    BY <2>2 DEF Sets
  <2>3. UpdateChart(rows, c, 2) = Assign(rows, c, values)
    BY DEF UpdateChart
  <2> HIDE DEF op, values
  <2>4. \A j \in DOMAIN Assign(rows, c, values) : Alters(j, op, Assign(rows, c, values), {})
    BY <2>2, AssignAlters DEF Kinds
  <2> QED
    BY <1>2, <2>1, <2>3, <2>4, BeginOldHolds DEF op
<1>3. ASSUME NEW c \in Of(rows, "chart"),
             BeginOld(r, [kind |-> "delete_chart", id |-> c], Editors, {}, TRUE, DeleteChart(c))
      PROVE  WorkspaceInv'
  <2> DEFINE op == [kind |-> "delete_chart", id |-> c]
  <2>1. ~GeneratesCode(op) /\ ~Launches(op) /\ Asked(op, DeleteChart(c)) /\ op.kind \in Deletions
    BY DEF GeneratesCode, Launches, Asked, Deletions
  <2> HIDE DEF op
  <2>2. \A i \in DOMAIN DeleteChart(c) : Alters(i, op, DeleteChart(c), {})
    BY <2>1, DeleteAlters DEF DeleteChart, Kinds
  <2> QED
    BY <1>3, <2>1, <2>2, BeginOldHolds DEF op
<1> QED
  BY <1>1, <1>2, <1>3 DEF ChartRequest

LEMMA RowsAreFinite ==
    ASSUME WorkspaceInv
    PROVE  IsFiniteSet(DOMAIN rows)
<1>1. nextId - 1 \in Int /\ DOMAIN rows \subseteq 1..(nextId - 1)
  <2>1. nextId \in Nat
    BY WorkloadsFitTheTables DEF WorkspaceInv, TablesHold
  <2> QED
    BY <2>1 DEF WorkspaceInv, TablesHold
<1>2. IsFiniteSet(1..(nextId - 1))
  BY <1>1, FS_Interval
<1> QED
  BY <1>1, <1>2, FS_Subset

LEMMA BoardRequestHolds ==
    ASSUME WorkspaceInv, NEW r \in Requests, BoardRequest(r)
    PROVE  WorkspaceInv'
<1>1. CASE BeginNew(r, [kind |-> "create_board"], Editors, {}, TRUE, CreateBoard(nextId))
  <2> DEFINE op == [kind |-> "create_board"]
  <2>1. WalkEnds(NewBoard.filters)
    BY DEF WalkEnds, NewBoard
  <2>2. NewBoard.table = "board" /\ WholeRow(NewBoard) /\ NewBoard.table \notin Claimed
    BY <2>1 DEF WholeRow, IsRow, Claimed, NewBoard
  <2>3. CreateBoard(nextId) = Insert(nextId, NewBoard)
    BY DEF CreateBoard
  <2>4. ~GeneratesCode(op) /\ ~Launches(op) /\ \A w : Asked(op, w)
    BY DEF GeneratesCode, Launches, Asked
  <2> HIDE DEF op
  <2> QED
    BY <1>1, <2>2, <2>3, <2>4, BeginNewHolds DEF op
<1>2. ASSUME NEW b \in Of(rows, "board"), NEW name \in {None, "second"},
             NEW filters \in FilterLists \cup {None},
             BeginOld(r, [kind |-> "update_board", id |-> b, name |-> name, filters |-> filters],
                      Editors, {}, filters # None => FiltersValid(filters),
                      UpdateBoard(rows, b, name, filters))
      PROVE  WorkspaceInv'
  <2> DEFINE op == [kind |-> "update_board", id |-> b, name |-> name, filters |-> filters]
             given == [name |-> name, filters |-> filters]
             values == [c \in {x \in DOMAIN given : given[x] # None} |-> given[c]]
  <2>1. ~GeneratesCode(op) /\ ~Launches(op) /\ \A w : Asked(op, w)
    BY DEF GeneratesCode, Launches, Asked
  <2>2. filters # None => WalkEnds(filters)
    <3>1. filters # None => FiltersValid(filters)
      BY <1>2 DEF BeginOld, Begin
    <3> QED
      BY <3>1, FiltersAreFinite, WalkFindsLoops
  <2>3. /\ DOMAIN values \subseteq {"name", "filters"}
        /\ "filters" \in DOMAIN values => filters # None /\ values["filters"] = filters
    OBVIOUS
  <2>4. UpdateBoard(rows, b, name, filters) = Assign(rows, b, values)
    BY DEF UpdateBoard
  <2> HIDE DEF op, values
  <2>5. ASSUME NEW set, DOMAIN set \subseteq DOMAIN values,
               \A c \in DOMAIN set : set[c] = values[c], NEW writes
        PROVE  Sets("board", b, set, op, writes, {})
    BY <2>2, <2>3, <2>5 DEF Sets
  <2>6. \A j \in DOMAIN Assign(rows, b, values) : Alters(j, op, Assign(rows, b, values), {})
    BY <2>5, AssignAlters DEF Kinds
  <2> QED
    BY <1>2, <2>1, <2>4, <2>6, BeginOldHolds DEF op
<1>3. ASSUME NEW b \in Of(rows, "board"),
             BeginOld(r, [kind |-> "delete_board", id |-> b], Editors, {},
                      TRUE, DeleteBoard(rows, b))
      PROVE  WorkspaceInv'
  <2> DEFINE op == [kind |-> "delete_board", id |-> b]
  <2>1. ~GeneratesCode(op) /\ ~Launches(op) /\ Asked(op, DeleteBoard(rows, b)) /\ op.kind \in Deletions
    BY DEF GeneratesCode, Launches, Asked, Deletions
  <2> HIDE DEF op
  <2>2. \A i \in {b} \cup TilesOf(rows, b) : \E table \in Kinds \ {"job"} : i \in Of(rows, table)
    BY DEF TilesOf, Kinds
  <2>3. \A i \in DOMAIN DeleteBoard(rows, b) : Alters(i, op, DeleteBoard(rows, b), {})
    BY <2>1, <2>2, DeleteAlters DEF DeleteBoard
  <2> QED
    BY <1>3, <2>1, <2>3, BeginOldHolds DEF op
<1>4. ASSUME NEW b \in Of(rows, "board"), NEW c \in Of(rows, "chart") \cup {None},
             BeginNew(r, [kind |-> "add_tile", id |-> b], Editors, {},
                      TRUE, AddTile(rows, nextId, b, c))
      PROVE  WorkspaceInv'
  <2> DEFINE op == [kind |-> "add_tile", id |-> b]
             row == [table |-> "tile", board |-> b, chart |-> c, position |-> NextPosition(rows, b),
                     kind |-> IF c = None THEN "text" ELSE "chart"]
  <2>1. AddTile(rows, nextId, b, c) = Insert(nextId, row)
    BY DEF AddTile
  <2>2. /\ NextPosition(rows, b) \in Nat
        /\ \A i \in TilesOf(rows, b) : rows[i].position < NextPosition(rows, b)
    <3>1. \A i \in TilesOf(rows, b) : rows[i].position \in Nat
      BY DEF TilesOf, Of, WorkspaceInv, TablesHold, WholeRow, IsRow
    <3> QED
      BY <3>1, RowsAreFinite, NextPositionIsBeyond
  <2>3. row.table = "tile" /\ row.board = b /\ row.chart = c /\ row.position = NextPosition(rows, b)
        /\ DOMAIN row = {"table", "board", "chart", "position", "kind"} /\ row.table \notin Claimed
        /\ (row.kind = "chart" => c # None) /\ row = [x \in DOMAIN row |-> row[x]]
    BY DEF Claimed
  <2> HIDE DEF row
  <2>4. WholeRow(row)
    BY <2>2, <2>3 DEF WholeRow, IsRow
  <2>5. ~GeneratesCode(op) /\ ~Launches(op) /\ op.kind = "add_tile" /\ op.id = b
    BY DEF GeneratesCode, Launches
  <2> HIDE DEF op
  <2>6. Asked(op, Insert(nextId, row))
    BY <2>2, <2>3, <2>5 DEF Asked
  <2>7. BeginNew(r, op, Editors, {}, TRUE, Insert(nextId, row))
    BY <1>4, <2>1 DEF op
  <2>8. row.board \in Of(rows, "board") /\ (row.chart # None => row.chart \in Of(rows, "chart"))
    BY <2>3
  <2> QED
    BY <2>3, <2>4, <2>5, <2>6, <2>7, <2>8, BeginNewHolds
<1>5. ASSUME NEW b \in Of(rows, "board"), NEW layout \in Layouts,
             BeginOld(r, [kind |-> "set_layout", id |-> b, layout |-> layout],
                      Editors, {}, TRUE, SetLayout(rows, b, layout))
      PROVE  WorkspaceInv'
  <2> DEFINE op == [kind |-> "set_layout", id |-> b, layout |-> layout]
             writes == SetLayout(rows, b, layout)
  <2>1. ~GeneratesCode(op) /\ ~Launches(op) /\ Asked(op, writes)
        /\ op.kind = "set_layout" /\ op.id = b /\ op.layout = layout
    BY DEF GeneratesCode, Launches, Asked
  <2> HIDE DEF op
  <2>2. ASSUME NEW i \in DOMAIN writes PROVE Alters(i, op, writes, {})
    <3> DEFINE set == [position |-> layout[i]]
    <3>1. /\ i \in TilesOf(rows, b) /\ i \in DOMAIN layout
          /\ writes[i].verb = "update" /\ writes[i].set = set
      BY DEF SetLayout
    <3>2. DOMAIN set = {"position"} /\ set.position = layout[i] /\ layout[i] \in Nat
      BY <3>1, PositionsAreNaturals
    <3> HIDE DEF set, writes
    <3>3. i \in Of(rows, "tile") /\ rows[i].board = b
      BY <3>1 DEF TilesOf
    <3>4. Sets("tile", i, set, op, writes, {})
      BY <2>1, <3>1, <3>2, <3>3 DEF Sets
    <3> QED
      BY <3>1, <3>3, <3>4 DEF Alters, Kinds
  <2> QED
    BY <1>5, <2>1, <2>2, BeginOldHolds DEF op
<1>6. ASSUME NEW i \in Of(rows, "tile"), NEW p \in Positions,
             BeginOld(r, [kind |-> "update_tile", id |-> i, position |-> p],
                      Editors, {}, TRUE, UpdateTile(rows, i, p))
      PROVE  WorkspaceInv'
  <2> DEFINE op == [kind |-> "update_tile", id |-> i, position |-> p]
             values == [position |-> p]
  <2>1. ~GeneratesCode(op) /\ ~Launches(op) /\ Asked(op, UpdateTile(rows, i, p))
        /\ op.kind = "update_tile" /\ op.id = i
    BY DEF GeneratesCode, Launches, Asked
  <2>2. UpdateTile(rows, i, p) = Assign(rows, i, values)
    BY DEF UpdateTile
  <2>3. DOMAIN values = {"position"} /\ values["position"] \in Nat
    BY PositionsAreNaturals
  <2> HIDE DEF op, values
  <2>4. ASSUME NEW set, DOMAIN set \subseteq DOMAIN values,
               \A c \in DOMAIN set : set[c] = values[c], NEW writes
        PROVE  Sets("tile", i, set, op, writes, {})
    BY <2>1, <2>3, <2>4 DEF Sets
  <2>5. \A j \in DOMAIN Assign(rows, i, values) : Alters(j, op, Assign(rows, i, values), {})
    BY <2>4, AssignAlters DEF Kinds
  <2> QED
    BY <1>6, <2>1, <2>2, <2>5, BeginOldHolds DEF op
<1>7. ASSUME NEW i \in Of(rows, "tile"),
             BeginOld(r, [kind |-> "delete_tile", id |-> i], Editors, {}, TRUE, DeleteTile(i))
      PROVE  WorkspaceInv'
  <2> DEFINE op == [kind |-> "delete_tile", id |-> i]
  <2>1. ~GeneratesCode(op) /\ ~Launches(op) /\ Asked(op, DeleteTile(i)) /\ op.kind \in Deletions
    BY DEF GeneratesCode, Launches, Asked, Deletions
  <2> HIDE DEF op
  <2>2. \A j \in DOMAIN DeleteTile(i) : Alters(j, op, DeleteTile(i), {})
    BY <2>1, DeleteAlters DEF DeleteTile, Kinds
  <2> QED
    BY <1>7, <2>1, <2>2, BeginOldHolds DEF op
<1> QED
  BY <1>1, <1>2, <1>3, <1>4, <1>5, <1>6, <1>7 DEF BoardRequest

LEMMA NamesAreClaims ==
    ASSUME WorkspaceInv, NEW table \in {"dbt", "cube"}, NEW name, NameFree(rows, table, name)
    PROVE  \A j \in DOMAIN rows : rows[j].table \in Claimed => Claim(rows[j]) # <<table, name>>
<1>1. \A j \in DOMAIN rows : rows[j].table \in Kinds
  BY DEF WorkspaceInv, TablesHold, WholeRow, IsRow, Kinds
<1>2. ASSUME NEW j \in DOMAIN rows, Claim(rows[j]) = <<table, name>> PROVE FALSE
  <2>1. rows[j].table = table /\ rows[j].name = name
    BY <1>1, <1>2, ClaimHasTable
  <2> QED
    BY <2>1 DEF NameFree, Models
<1> QED
  BY <1>2

LEMMA PatchesHaveNoEmail ==
    ASSUME WorkspaceInv, NEW p \in work.patches
    PROVE  "table" \notin DOMAIN p /\ "email" \notin DOMAIN p
BY WorkloadsFitTheTables DEF WorkspaceInv

LEMMA ModelRequestHolds ==
    ASSUME WorkspaceInv, NEW r \in Requests, NEW table \in {"dbt", "cube"}, ModelRequest(r, table)
    PROVE  WorkspaceInv'
<1>1. ASSUME NEW n \in Names, NEW x \in Texts,
             BeginNew(r, [kind |-> "create_model", table |-> table, name |-> n, text |-> x],
                      Superusers, {<<table, n>>},
                      NameFree(rows, table, n), CreateModel(nextId, table, n, x))
      PROVE  WorkspaceInv'
  <2> DEFINE op == [kind |-> "create_model", table |-> table, name |-> n, text |-> x]
             row == [table |-> table, name |-> n, text |-> x, enabled |-> TRUE]
  <2>1. op.table \in {"dbt", "cube"} /\ ~Launches(op) /\ \A w : Asked(op, w)
    BY DEF Launches, Asked
  <2>2. /\ row.table = table /\ row.name = n /\ row = [c \in DOMAIN row |-> row[c]]
        /\ DOMAIN row = {"table", "name", "text", "enabled"}
    OBVIOUS
  <2> HIDE DEF row, op
  <2>3. WholeRow(row) /\ Claim(row) = <<table, n>> /\ row.table # "tile"
    BY <2>2 DEF WholeRow, IsRow, Claim
  <2>4. NameFree(rows, table, n)
    BY <1>1 DEF BeginNew, Begin
  <2>5. \A j \in DOMAIN rows : rows[j].table \in Claimed => Claim(rows[j]) # Claim(row)
    BY <2>3, <2>4, NamesAreClaims
  <2>6. BeginNew(r, op, Superusers, {<<table, n>>}, NameFree(rows, table, n), Insert(nextId, row))
    BY <1>1 DEF CreateModel, op, row
  <2>7. Claim(row) \in {<<table, n>>}
    BY <2>3
  <2> QED
    BY <2>1, <2>3, <2>5, <2>6, <2>7, BeginNewHolds
<1>2. ASSUME NEW i \in Models(rows, table), NEW patch \in work.patches,
             BeginOld(r, [kind |-> "update_model", table |-> table, id |-> i, patch |-> patch],
                      Superusers,
                      IF "name" \in DOMAIN patch THEN {<<table, patch.name>>} ELSE {},
                      PatchAccepted(rows, i, patch), Assign(rows, i, patch))
      PROVE  WorkspaceInv'
  <2> DEFINE op == [kind |-> "update_model", table |-> table, id |-> i, patch |-> patch]
             claims == IF "name" \in DOMAIN patch THEN {<<table, patch.name>>} ELSE {}
  <2>1. op.table \in {"dbt", "cube"} /\ ~Launches(op) /\ \A w : Asked(op, w)
    BY DEF Launches, Asked
  <2>2. i \in Of(rows, table) /\ table \in Kinds /\ rows[i].table = table
    BY DEF Models, Of, Kinds
  <2>3. "table" \notin DOMAIN patch
    BY PatchesHaveNoEmail
  <2>4. "name" \in DOMAIN patch /\ patch.name # rows[i].name => NameFree(rows, table, patch.name)
    BY <1>2, <2>2 DEF BeginOld, Begin, PatchAccepted
  <2> HIDE DEF op
  <2>5. ASSUME NEW set, DOMAIN set \subseteq DOMAIN patch,
               \A c \in DOMAIN set : set[c] = patch[c] /\ rows[i][c] # patch[c],
               NEW writes, DOMAIN writes = {i}
        PROVE  Sets(table, i, set, op, writes, claims)
    <3>1. ASSUME "name" \in DOMAIN set
          PROVE  /\ <<table, set.name>> \in claims
                 /\ \A j \in DOMAIN rows \ {i} :
                       rows[j].table \in Claimed => Claim(rows[j]) # <<table, set.name>>
      <4>1. set["name"] = patch["name"] /\ rows[i]["name"] # patch["name"] /\ "name" \in DOMAIN patch
        BY <2>5, <3>1
      <4>2. NameFree(rows, table, set.name)
        BY <2>4, <4>1
      <4> QED
        BY <4>1, <4>2, NamesAreClaims
    <3> QED
      BY <2>3, <2>5, <3>1 DEF Sets
  <2> HIDE DEF claims
  <2>6. \A j \in DOMAIN Assign(rows, i, patch) : Alters(j, op, Assign(rows, i, patch), claims)
    BY <2>2, <2>5, AssignAlters
  <2>7. BeginOld(r, op, Superusers, claims, PatchAccepted(rows, i, patch), Assign(rows, i, patch))
    BY <1>2 DEF op, claims
  <2> QED
    BY <2>1, <2>6, <2>7, BeginOldHolds
<1>3. ASSUME NEW i \in Models(rows, table),
             BeginOld(r, [kind |-> "delete_model", table |-> table, id |-> i],
                      Superusers, {}, TRUE, DeleteModel(i))
      PROVE  WorkspaceInv'
  <2> DEFINE op == [kind |-> "delete_model", table |-> table, id |-> i]
  <2>1. op.table \in {"dbt", "cube"} /\ ~Launches(op) /\ op.kind \in Deletions /\ \A w : Asked(op, w)
    BY DEF Launches, Asked, Deletions
  <2> HIDE DEF op
  <2>2. i \in Of(rows, table) /\ table \in Kinds \ {"job"}
    BY DEF Models, Of, Kinds
  <2>3. \A j \in DOMAIN DeleteModel(i) : Alters(j, op, DeleteModel(i), {})
    BY <2>1, <2>2, DeleteAlters DEF DeleteModel
  <2> QED
    BY <1>3, <2>1, <2>3, BeginOldHolds DEF op
<1> QED
  BY <1>1, <1>2, <1>3 DEF ModelRequest

LEMMA RunRequestHolds ==
    ASSUME WorkspaceInv, NEW r \in Requests, RunRequest(r)
    PROVE  WorkspaceInv'
<1>1. PICK m \in Models(rows, "dbt") :
        LET name == rows[m].name
            job  == EnsureJob(rows, nextId, name)
            op   == [kind |-> "run_model", id |-> m, job |-> job.job]
        IN  IF job.job = nextId
            THEN BeginNew(r, op, Superusers, {<<"job", name>>}, Runnable(rows, m), job.writes)
            ELSE BeginOld(r, op, Superusers, {<<"job", name>>}, Runnable(rows, m), job.writes)
  BY DEF RunRequest
<1>2. PICK name : name = rows[m].name
  OBVIOUS
<1> DEFINE job == EnsureJob(rows, nextId, name)
           row == [table |-> "job", selection |-> name]
           op  == [kind |-> "run_model", id |-> m, job |-> job.job]
<1>3. ~GeneratesCode(op) /\ op.job = job.job /\ \A w : Asked(op, w)
  BY DEF GeneratesCode, Asked
<1>4. nextId \notin DOMAIN rows
  <2>1. nextId \in Nat
    BY WorkloadsFitTheTables DEF WorkspaceInv, TablesHold
  <2> QED
    BY <2>1 DEF WorkspaceInv, TablesHold
<1>5. CASE JobsFor(rows, name) = {}
  <2>1. job.job = nextId /\ job.writes = Insert(nextId, row)
    BY <1>5 DEF EnsureJob
  <2>2. /\ row.table = "job" /\ row.selection = name /\ row = [c \in DOMAIN row |-> row[c]]
        /\ DOMAIN row = {"table", "selection"}
    OBVIOUS
  <2> HIDE DEF row, op, job
  <2>3. WholeRow(row) /\ Claim(row) = <<"job", name>>
    BY <2>2 DEF WholeRow, IsRow, Claim
  <2>4. ASSUME NEW j \in DOMAIN rows, Claim(rows[j]) = Claim(row) PROVE FALSE
    <3>1. rows[j].table \in Kinds
      BY DEF WorkspaceInv, TablesHold, WholeRow, IsRow, Kinds
    <3>2. rows[j].table = "job"
      BY <2>2, <2>4, <3>1, ClaimIsOfTable DEF Kinds
    <3>3. rows[j].selection = name
      BY <2>3, <2>4, <3>2 DEF Claim
    <3> QED
      BY <1>5, <3>2, <3>3 DEF JobsFor
  <2>5. BeginNew(r, op, Superusers, {<<"job", name>>}, Runnable(rows, m), Insert(nextId, row))
    BY <1>1, <1>2, <2>1 DEF op, job
  <2>6. Claim(row) \in {<<"job", name>>}
    BY <2>3
  <2> QED
    BY <1>3, <2>1, <2>2, <2>3, <2>4, <2>5, <2>6, BeginNewHolds
<1>6. CASE JobsFor(rows, name) # {}
  <2>1. job.job \in JobsFor(rows, name) /\ job.writes = NoWrites
    BY <1>6 DEF EnsureJob
  <2> HIDE DEF op, job
  <2>2. job.job \in Of(rows, "job") /\ job.job # nextId
    BY <1>4, <2>1 DEF JobsFor, Of
  <2>3. BeginOld(r, op, Superusers, {<<"job", name>>}, Runnable(rows, m), NoWrites)
    BY <1>1, <1>2, <2>1, <2>2 DEF op, job
  <2>4. DOMAIN NoWrites = {}
    BY DEF NoWrites
  <2> QED
    BY <1>3, <2>2, <2>3, <2>4, BeginOldHolds
<1> QED
  BY <1>5, <1>6

LEMMA UserRequestHolds ==
    ASSUME WorkspaceInv, NEW r \in Requests, UserRequest(r)
    PROVE  WorkspaceInv'
<1>1. ASSUME NEW e \in UserEmails, NEW roles \in RoleSets, NEW callers,
             BeginNew(r, [kind |-> "create_user", email |-> e], callers,
                      {<<"user", e>>}, ~EmailTaken(rows, e), CreateUser(nextId, e, roles))
      PROVE  WorkspaceInv'
  <2> DEFINE op == [kind |-> "create_user", email |-> e]
             row == [table |-> "user", email |-> e, roles |-> roles, active |-> TRUE]
  <2>1. ~GeneratesCode(op) /\ ~Launches(op) /\ \A w : Asked(op, w)
    BY DEF GeneratesCode, Launches, Asked
  <2>2. /\ row.table = "user" /\ row = [c \in DOMAIN row |-> row[c]]
        /\ DOMAIN row = {"table", "email", "roles", "active"}
    OBVIOUS
  <2> HIDE DEF row, op
  <2>3. WholeRow(row) /\ row.table \notin Claimed /\ row.table # "tile"
    BY <2>2 DEF WholeRow, IsRow, Claimed
  <2>4. BeginNew(r, op, callers, {<<"user", e>>}, ~EmailTaken(rows, e), Insert(nextId, row))
    BY <1>1 DEF CreateUser, op, row
  <2> QED
    BY <2>1, <2>3, <2>4, BeginNewHolds
<1>2. ASSUME NEW u \in Of(rows, "user"), NEW patch \in work.patches, NEW callers,
             BeginOld(r, [kind |-> "update_user", id |-> u], callers,
                      {}, TRUE, Assign(rows, u, patch))
      PROVE  WorkspaceInv'
  <2> DEFINE op == [kind |-> "update_user", id |-> u]
  <2>1. ~GeneratesCode(op) /\ ~Launches(op) /\ \A w : Asked(op, w)
    BY DEF GeneratesCode, Launches, Asked
  <2>2. "table" \notin DOMAIN patch /\ "email" \notin DOMAIN patch
    BY PatchesHaveNoEmail
  <2> HIDE DEF op
  <2>3. ASSUME NEW set, DOMAIN set \subseteq DOMAIN patch, NEW writes
        PROVE  Sets("user", u, set, op, writes, {})
    BY <2>2, <2>3 DEF Sets
  <2>4. \A j \in DOMAIN Assign(rows, u, patch) : Alters(j, op, Assign(rows, u, patch), {})
    BY <2>3, AssignAlters DEF Kinds
  <2> QED
    BY <1>2, <2>1, <2>4, BeginOldHolds DEF op
<1>3. ASSUME NEW u \in Of(rows, "user"),
             BeginOld(r, [kind |-> "delete_user", id |-> u], Superusers, {}, TRUE, DeleteUser(u))
      PROVE  WorkspaceInv'
  <2> DEFINE op == [kind |-> "delete_user", id |-> u]
  <2>1. ~GeneratesCode(op) /\ ~Launches(op) /\ op.kind \in Deletions /\ \A w : Asked(op, w)
    BY DEF GeneratesCode, Launches, Asked, Deletions
  <2> HIDE DEF op
  <2>2. \A j \in DOMAIN DeleteUser(u) : Alters(j, op, DeleteUser(u), {})
    BY <2>1, DeleteAlters DEF DeleteUser, Kinds
  <2> QED
    BY <1>3, <2>1, <2>2, BeginOldHolds DEF op
<1> QED
  BY <1>1, <1>2, <1>3 DEF UserRequest

-----------------------------------------------------------------------------
(* The invariant.                                                          *)

LEMMA InitHolds == Init => WorkspaceInv
<1> SUFFICES ASSUME Init PROVE WorkspaceInv
  OBVIOUS
<1>1. PICK w : w = work
  OBVIOUS
<1>2. /\ w \in Workloads /\ rows = w.rows /\ nextId = Cardinality(DOMAIN w.rows) + 1
      /\ runs = <<>> /\ req = [r \in Requests |-> Idle]
  BY <1>1 DEF Init
<1>3. /\ w.ids \in Nat /\ Len(w.rows) \in 0..w.ids
      /\ w.rows = [i \in 1..Len(w.rows) |-> w.rows[i]]
      /\ \A i \in DOMAIN w.rows : IsRow(w.rows[i])
      /\ \A b \in Of(w.rows, "board") : WalkEnds(w.rows[b].filters)
      /\ \A i \in Of(w.rows, "tile") : RefersToRows(i, w.rows)
      /\ \A i, j \in {x \in DOMAIN w.rows : w.rows[x].table \in {"job", "user", "dbt", "cube"}} :
            Claim(w.rows[i]) = Claim(w.rows[j]) => i = j
  BY <1>2, WorkloadsFitTheTables
<1>4. PICK n \in Nat : n = Len(w.rows) /\ DOMAIN w.rows = 1..n /\ n <= w.ids
  BY <1>3
<1>5. nextId = n + 1
  <2>1. Cardinality(1..n) = n
    BY <1>4, FS_Interval
  <2> QED
    BY <1>2, <1>4, <2>1
<1>6. Active = {}
  BY <1>2 DEF Active
<1>7. TablesHold
  <2>1. nextId \in 1..(work.ids + 1) /\ DOMAIN rows \subseteq 1..(nextId - 1)
    BY <1>1, <1>2, <1>3, <1>4, <1>5
  <2>2. rows = [i \in DOMAIN rows |-> rows[i]]
    BY <1>2, <1>3
  <2>3. \A i \in DOMAIN rows : WholeRow(rows[i])
    BY <1>2, <1>3 DEF WholeRow, Of
  <2>4. \A i \in Of(rows, "tile") : RefersToRows(i, rows)
    BY <1>2, <1>3
  <2>5. ASSUME NEW i \in DOMAIN rows, NEW j \in DOMAIN rows, rows[i].table \in Claimed \cup {"user"},
               Claim(rows[i]) = Claim(rows[j])
        PROVE  i = j
    <3>1. rows[i].table \in Kinds /\ rows[j].table \in Kinds
      BY <1>2, <1>3 DEF IsRow, Kinds
    <3>2. rows[j].table = rows[i].table
      BY <2>5, <3>1, ClaimIsOfTable
    <3> QED
      BY <1>2, <1>3, <2>5, <3>2 DEF Claimed
  <2>6. \A i, j \in Of(rows, "user") : rows[i].email = rows[j].email => i = j
    <3>1. \A i \in Of(rows, "user") : i \in DOMAIN rows /\ Claim(rows[i]) = <<"user", rows[i].email>>
                                      /\ rows[i].table = "user"
      BY DEF Of, Claim
    <3> QED
      BY <2>5, <3>1
  <2> QED
    BY <2>1, <2>2, <2>3, <2>4, <2>5, <2>6 DEF TablesHold
<1>8. RequestsHold /\ PairsHold /\ LoneHolds
  BY <1>2, <1>6 DEF RequestsHold, PairsHold, LoneHolds, Flushed
<1>9. RunsHold
  BY <1>2 DEF RunsHold
<1> QED
  BY <1>1, <1>2, <1>7, <1>8, <1>9 DEF WorkspaceInv

LEMMA NextHolds == WorkspaceInv /\ [Next]_vars => WorkspaceInv'
<1> SUFFICES ASSUME WorkspaceInv, [Next]_vars PROVE WorkspaceInv'
  OBVIOUS
<1>1. ASSUME NEW r \in Requests,
             \/ ChartRequest(r) \/ BoardRequest(r)
             \/ DbtRequest(r) \/ SemanticRequest(r) \/ RunRequest(r) \/ UserRequest(r)
      PROVE  WorkspaceInv'
  <2>1. CASE ChartRequest(r) \/ BoardRequest(r)
    BY <2>1, ChartRequestHolds, BoardRequestHolds
  <2>2. CASE DbtRequest(r) \/ SemanticRequest(r)
    BY <2>2, ModelRequestHolds DEF DbtRequest, SemanticRequest
  <2>3. CASE RunRequest(r) \/ UserRequest(r)
    BY <2>3, RunRequestHolds, UserRequestHolds
  <2> QED
    BY <1>1, <2>1, <2>2, <2>3
<1>2. ASSUME NEW r \in Requests,
             \/ Flush(r) \/ ListModels(r) \/ WriteFiles(r) \/ WriteFails(r)
             \/ Launch(r) \/ Abort(r) \/ Commit(r)
      PROVE  WorkspaceInv'
  BY <1>2, FlushHolds, ListModelsHolds, WriteFilesHolds, StopHolds, LaunchHolds, CommitHolds
<1> QED
  BY <1>1, <1>2, OthersHold DEF Next

-----------------------------------------------------------------------------
(* What the invariant implies.                                             *)

LEMMA InvTypes == WorkspaceInv => TypeOK
<1> SUFFICES ASSUME WorkspaceInv PROVE TypeOK
  OBVIOUS
<1>1. DOMAIN rows \subseteq 1..(nextId - 1) /\ nextId \in 1..(work.ids + 1)
  BY DEF WorkspaceInv, TablesHold
<1>2. ASSUME NEW i \in DOMAIN rows
      PROVE  /\ rows[i].table \in {"board", "tile", "chart", "dbt", "cube", "job", "user"}
             /\ Parents(rows[i]) \subseteq Of(rows, "board") \cup Of(rows, "chart")
  <2>1. rows[i].table \in {"board", "tile", "chart", "dbt", "cube", "job", "user"}
    BY DEF WorkspaceInv, TablesHold, WholeRow, IsRow
  <2>2. CASE rows[i].table # "tile"
    BY <2>1, <2>2, ParentsOfTiles
  <2>3. CASE rows[i].table = "tile"
    <3>1. RefersToRows(i, rows)
      BY <2>3 DEF WorkspaceInv, TablesHold, Of
    <3> QED
      BY <2>1, <2>3, <3>1, ParentsOfTiles DEF RefersToRows
  <2> QED
    BY <2>2, <2>3
<1>3. \A r \in Active : req[r].step \in {"loaded", "flushed", "listed", "ready"}
  BY DEF WorkspaceInv, RequestsHold, IsRequest
<1>4. \A k \in DOMAIN runs : /\ runs[k].state \in {"queued", "failed", "built", "nothing"}
                             /\ runs[k].by \in Active \cup {"committed", "aborted"}
  BY DEF WorkspaceInv, RunsHold
<1> QED
  BY <1>1, <1>2, <1>3, <1>4 DEF TypeOK

LEMMA InvBoards == WorkspaceInv => BoardsStayWhole
<1> SUFFICES ASSUME WorkspaceInv, NEW b \in Of(rows, "board")
             PROVE  TileCount(rows, b) = Cardinality(Shown(rows, b)) /\ WalkEnds(rows[b].filters)
  BY DEF BoardsStayWhole
<1>1. ASSUME NEW i \in TilesOf(rows, b), rows[i].kind = "chart"
      PROVE  rows[i].chart \in Of(rows, "chart")
  <2>1. i \in Of(rows, "tile") /\ i \in DOMAIN rows /\ rows[i].table = "tile"
    BY DEF TilesOf, Of
  <2>2. RefersToRows(i, rows) /\ IsRow(rows[i])
    BY <2>1 DEF WorkspaceInv, TablesHold, WholeRow
  <2> QED
    BY <1>1, <2>1, <2>2 DEF RefersToRows, IsRow
<1>2. Shown(rows, b) = TilesOf(rows, b)
  BY <1>1 DEF Shown
<1>3. WalkEnds(rows[b].filters)
  BY DEF WorkspaceInv, TablesHold, WholeRow, Of
<1> QED
  BY <1>2, <1>3 DEF TileCount

LEMMA InvClaims == WorkspaceInv => ClaimsAreKept
<1> SUFFICES ASSUME WorkspaceInv PROVE ClaimsAreKept
  OBVIOUS
<1>1. \A k \in DOMAIN runs : runs[k].by = "committed" => runs[k].job \in Of(rows, "job")
  BY DEF WorkspaceInv, RunsHold
<1>2. ASSUME NEW i \in DOMAIN rows, NEW j \in DOMAIN rows,
             rows[i].table \in {"job", "user", "dbt", "cube"}, i # j, Claim(rows[i]) = Claim(rows[j])
      PROVE  rows[i].table # "user" /\ Claim(rows[i]) \in raced
  <2>1. rows[i].table \in Kinds /\ rows[j].table \in Kinds
    BY DEF WorkspaceInv, TablesHold, WholeRow, IsRow, Kinds
  <2>2. rows[j].table = rows[i].table
    BY <1>2, <2>1, ClaimIsOfTable
  <2>3. CASE rows[i].table = "user"
    <3>1. rows[i].email = rows[j].email
      BY <1>2, <2>2, <2>3 DEF Claim
    <3> QED
      BY <1>2, <2>2, <2>3, <3>1 DEF WorkspaceInv, TablesHold, Of
  <2>4. CASE rows[i].table # "user"
    BY <1>2, <2>4 DEF WorkspaceInv, TablesHold, Claimed
  <2> QED
    BY <2>3, <2>4
<1> QED
  BY <1>1, <1>2 DEF ClaimsAreKept

LEMMA CommitCommits ==
    ASSUME WorkspaceInv, NEW r \in Requests, Commit(r)
    PROVE  Commits(r) /\ IsRequest(req[r])
<1>1. req[r] # Idle
  BY DEF Commit, Idle
<1> QED
  BY <1>1, ActiveIs DEF Commits, Commit, End

LEMMA CommitFrames ==
    ASSUME WorkspaceInv, NEW r \in Requests, Commit(r)
    PROVE  Frame(req[r].op)
<1>1. Commits(r) /\ IsRequest(req[r])
  BY CommitCommits
<1>2. ASSUME req[r].op.kind \notin Deletions PROVE DOMAIN rows \subseteq DOMAIN rows'
  <2>1. Sent(req[r].writes, "delete") = {}
    BY <1>1, <1>2 DEF IsRequest, Writes, Removal, Sent
  <2> QED
    BY <1>1, <2>1, RowsGo DEF Cascaded
<1>3. ASSUME NEW i \in Of(rows, "tile") \cap DOMAIN rows', rows'[i].position # rows[i].position
      PROVE  \/ req[r].op.kind = "update_tile" /\ req[r].op.id = i
             \/ req[r].op.kind = "set_layout" /\ i \in DOMAIN req[r].op.layout
                /\ req[r].op.id = rows[i].board
  <2>1. i \in DOMAIN rows /\ rows[i].table = "tile"
    BY DEF Of
  <2>2. PICK set : /\ Change(i, set, req[r]) /\ rows'[i] = Updated(rows[i], set)
    BY <1>1, <1>3, <2>1, AppliedRows
  <2>3. PICK table \in Kinds : /\ Known(i, table)
                               /\ table = "tile" /\ "position" \in DOMAIN set => Moves(req[r].op, i)
    BY <2>2 DEF Change
  <2>4. table = "tile"
    BY <2>1, <2>3 DEF Known
  <2>5. "position" \in DOMAIN rows[i]
    BY <2>1 DEF WorkspaceInv, TablesHold, WholeRow, IsRow
  <2>6. "position" \in DOMAIN set
    BY <1>3, <2>2, <2>5 DEF Updated
  <2>7. Moves(req[r].op, i)
    BY <2>3, <2>4, <2>6
  <2> QED
    BY <2>1, <2>7 DEF Moves, KnownOn
<1> QED
  BY <1>2, <1>3 DEF Frame, Deletions

\* A tile whose position is set is the tile with that position.
LEMMA MovedTile ==
    ASSUME NEW row, IsRow(row), row.table = "tile", NEW p
    PROVE  Updated(row, [position |-> p]) = [row EXCEPT !.position = p]
<1>1. "position" \in DOMAIN row /\ row = [c \in DOMAIN row |-> row[c]]
  BY DEF IsRow
<1>2. DOMAIN [position |-> p] = {"position"} /\ [position |-> p].position = p
  OBVIOUS
<1> QED
  BY <1>1, <1>2 DEF Updated

LEMMA UnmovedTile ==
    ASSUME NEW row, IsRow(row), row.table = "tile"
    PROVE  [row EXCEPT !.position = row.position] = row
BY DEF IsRow

LEMMA DeletesWhole ==
    ASSUME NEW r, Commits(r), NEW S, req[r].writes = Delete(S), NEW T, T = S \cup Cascaded(rows, S)
    PROVE  rows' = Without(T)
<1>1. Sent(Delete(S), "delete") = S /\ Sent(Delete(S), "insert") = {} /\ DOMAIN Delete(S) = S
  BY DEF Sent, Delete
<1>2. rows' = [i \in DOMAIN rows \ T |->
                 CASE i \notin S           -> rows[i]
                   [] i \notin DOMAIN rows -> Delete(S)[i].set
                   [] OTHER                -> Updated(rows[i], Delete(S)[i].set)]
  <2>1. (DOMAIN rows \cup {}) \ (S \cup Cascaded(rows, S)) = DOMAIN rows \ T
    OBVIOUS
  <2> QED
    BY <1>1, <2>1 DEF Commits, Applied
<1>3. \A i \in DOMAIN rows \ T : i \notin S
  OBVIOUS
<1> QED
  BY <1>2, <1>3 DEF Without

LEMMA ParentsOfRows ==
    ASSUME WorkspaceInv, NEW i \in DOMAIN rows, NEW p \in Parents(rows[i])
    PROVE  /\ i \in Of(rows, "tile")
           /\ \/ p = rows[i].board /\ p \in Of(rows, "board")
              \/ p = rows[i].chart /\ p \in Of(rows, "chart")
<1>1. rows[i].table = "tile" /\ p \in {rows[i].board, rows[i].chart} \ {None}
  BY ParentsOfTiles
<1>2. RefersToRows(i, rows)
  BY <1>1 DEF WorkspaceInv, TablesHold, Of
<1> QED
  BY <1>1, <1>2 DEF RefersToRows, Of

\* What depends on a deleted row, if no other request is active.
LEMMA CascadedRows ==
    ASSUME WorkspaceInv
    PROVE  /\ \A t \in Of(rows, "tile") : Cascaded(rows, {t}) = {}
           /\ \A c \in Of(rows, "chart") : Cascaded(rows, {c}) = {i \in Of(rows, "tile") : rows[i].chart = c}
           /\ \A b \in Of(rows, "board") : Cascaded(rows, {b} \cup TilesOf(rows, b)) = TilesOf(rows, b)
<1>1. \A p \in DOMAIN rows : p # None
  BY NoneIsNoId DEF WorkspaceInv, TablesHold
<1>2. ASSUME NEW t \in Of(rows, "tile") PROVE Cascaded(rows, {t}) = {}
  BY ParentsOfRows DEF Cascaded, Of
<1>3. ASSUME NEW c \in Of(rows, "chart")
      PROVE  Cascaded(rows, {c}) = {i \in Of(rows, "tile") : rows[i].chart = c}
  <2>1. ASSUME NEW i \in Cascaded(rows, {c}) PROVE i \in Of(rows, "tile") /\ rows[i].chart = c
    BY ParentsOfRows DEF Cascaded, Of
  <2>2. ASSUME NEW i \in Of(rows, "tile"), rows[i].chart = c PROVE i \in Cascaded(rows, {c})
    BY <1>1, <2>2, ParentsOfTiles DEF Cascaded, Of
  <2> QED
    BY <2>1, <2>2
<1>4. ASSUME NEW b \in Of(rows, "board")
      PROVE  Cascaded(rows, {b} \cup TilesOf(rows, b)) = TilesOf(rows, b)
  <2>1. ASSUME NEW i \in Cascaded(rows, {b} \cup TilesOf(rows, b)) PROVE i \in TilesOf(rows, b)
    <3>1. PICK p \in Parents(rows[i]) : i \in DOMAIN rows /\ p \in {b} \cup TilesOf(rows, b)
      BY DEF Cascaded
    <3>2. /\ i \in Of(rows, "tile")
          /\ \/ p = rows[i].board /\ p \in Of(rows, "board")
             \/ p = rows[i].chart /\ p \in Of(rows, "chart")
      BY <3>1, ParentsOfRows
    <3> QED
      BY <3>1, <3>2 DEF TilesOf, Of
  <2>2. ASSUME NEW i \in TilesOf(rows, b) PROVE i \in Cascaded(rows, {b} \cup TilesOf(rows, b))
    BY <1>1, <2>2, ParentsOfTiles DEF Cascaded, TilesOf, Of
  <2> QED
    BY <2>1, <2>2
<1> QED
  BY <1>2, <1>3, <1>4

LEMMA AddsLast ==
    ASSUME NEW r, Commits(r), NEW i, NEW row, req[r].writes = Insert(i, row), NEW b,
           \A t \in TilesOf(rows, b) : rows[t].position < row.position
    PROVE  \E new \in DOMAIN rows' :
              /\ rows = [j \in DOMAIN rows' \ {new} |-> rows'[j]]
              /\ \A t \in TilesOf(rows, b) : rows[t].position < rows'[new].position
<1> DEFINE w == req[r].writes
<1>1. /\ DOMAIN w = {i} /\ w[i].verb = "insert" /\ w[i].set = row /\ i \in Sent(w, "insert")
  BY DEF Insert, Sent
<1>2. i \notin DOMAIN rows
  BY <1>1 DEF Commits, WorkspaceInv, RequestsHold, IsRequest, Writes, NewRow
<1>3. i \in DOMAIN rows'
  BY <1>1, AppliedRows
<1>4. DOMAIN rows' = DOMAIN rows \cup {i} /\ rows'[i] = row
  BY <1>1, <1>2, <1>3, RowsCome
<1>5. \A j \in DOMAIN rows : rows'[j] = rows[j]
  BY <1>1, <1>2, <1>4, AppliedRows
<1>6. rows = [j \in DOMAIN rows |-> rows[j]]
  BY DEF Commits, WorkspaceInv, TablesHold
<1>7. rows = [j \in DOMAIN rows' \ {i} |-> rows'[j]]
  BY <1>2, <1>4, <1>5, <1>6
<1> QED
  BY <1>3, <1>4, <1>7

\* Positions are all that some tiles change: w writes those of at that are new.
SetsPositions(R, w, S, at) ==
    /\ DOMAIN w = {i \in S : R[i].position # at[i]}
    /\ \A i \in DOMAIN w : w[i].verb = "update" /\ w[i].set = [position |-> at[i]]

MovedRows(S, at) ==
    [i \in DOMAIN rows |-> IF i \in S THEN [rows[i] EXCEPT !.position = at[i]] ELSE rows[i]]

LEMMA MovesTiles ==
    ASSUME NEW r, Commits(r), NEW S \in SUBSET Of(rows, "tile"), NEW at,
           SetsPositions(rows, req[r].writes, S, at)
    PROVE  rows' = MovedRows(S, at)
<1> DEFINE w == req[r].writes
<1>1. /\ DOMAIN w = {i \in S : rows[i].position # at[i]}
      /\ \A i \in DOMAIN w : w[i].verb = "update" /\ w[i].set = [position |-> at[i]]
  BY DEF SetsPositions
<1>2. Sent(w, "delete") = {} /\ Sent(w, "insert") = {}
  BY <1>1 DEF Sent
<1>3. rows' = [i \in DOMAIN rows |-> IF i \notin DOMAIN w THEN rows[i] ELSE Updated(rows[i], w[i].set)]
  <2>1. rows' = Applied(rows, w)
    BY DEF Commits
  <2> HIDE DEF w
  <2>2. Cascaded(rows, {}) = {}
    BY DEF Cascaded
  <2>3. (DOMAIN rows \cup {}) \ ({} \cup {}) = DOMAIN rows
    OBVIOUS
  <2> QED
    BY <1>2, <2>1, <2>2, <2>3 DEF Applied
<1> HIDE DEF w
<1>4. ASSUME NEW i \in DOMAIN rows, i \in S
      PROVE  rows'[i] = [rows[i] EXCEPT !.position = at[i]]
  <2>1. IsRow(rows[i]) /\ rows[i].table = "tile"
    BY <1>4 DEF Of, Commits, WorkspaceInv, TablesHold, WholeRow
  <2>2. CASE rows[i].position = at[i]
    <3>1. i \notin DOMAIN w
      BY <1>1, <2>2
    <3>2. rows'[i] = rows[i]
      BY <1>3, <1>4, <3>1
    <3> QED
      BY <2>1, <2>2, <3>2, UnmovedTile
  <2>3. CASE rows[i].position # at[i]
    <3>1. i \in DOMAIN w /\ w[i].set = [position |-> at[i]]
      BY <1>1, <1>4, <2>3
    <3>2. rows'[i] = Updated(rows[i], w[i].set)
      BY <1>3, <1>4, <3>1
    <3>3. rows'[i] = Updated(rows[i], [position |-> at[i]])
      BY <3>1, <3>2
    <3> QED
      BY <2>1, <3>3, MovedTile
  <2> QED
    BY <2>2, <2>3
<1>5. \A i \in DOMAIN rows \ S : rows'[i] = rows[i]
  BY <1>1, <1>3
<1> QED
  BY <1>3, <1>4, <1>5 DEF MovedRows

\* What set_layout and update_tile write.
LEMMA LayoutWrites ==
    ASSUME NEW R, NEW b, NEW at
    PROVE  SetsPositions(R, SetLayout(R, b, at), TilesOf(R, b) \cap DOMAIN at, at)
<1>1. PICK T : T = {i \in TilesOf(R, b) \cap DOMAIN at : R[i].position # at[i]}
  OBVIOUS
<1>2. PICK w : w = SetLayout(R, b, at)
  OBVIOUS
<1>3. w = [i \in T |-> [verb |-> "update", set |-> [position |-> at[i]]]]
  BY <1>1, <1>2 DEF SetLayout
<1>4. DOMAIN w = T
  BY <1>3
<1>5. ASSUME NEW i \in T PROVE w[i].verb = "update" /\ w[i].set = [position |-> at[i]]
  <2>1. PICK p : p = at[i]
    OBVIOUS
  <2>2. PICK set : set = [position |-> p]
    OBVIOUS
  <2>3. w[i] = [verb |-> "update", set |-> set]
    BY <1>3, <2>1, <2>2
  <2> QED
    BY <2>1, <2>2, <2>3
<1> QED
  BY <1>1, <1>2, <1>4, <1>5 DEF SetsPositions

LEMMA TileWrites ==
    ASSUME NEW R, NEW i, NEW p
    PROVE  SetsPositions(R, UpdateTile(R, i, p), {i}, [j \in {i} |-> p])
<1>1. PICK values : values = [position |-> p]
  OBVIOUS
<1>2. PICK w : w = UpdateTile(R, i, p)
  OBVIOUS
<1>3. PICK at : at = [j \in {i} |-> p]
  OBVIOUS
<1>4. w = Assign(R, i, values)
  BY <1>1, <1>2 DEF UpdateTile
<1>5. DOMAIN values = {"position"} /\ values["position"] = p /\ at[i] = p
  BY <1>1, <1>3
<1>6. CASE R[i].position = p
  <2>1. {c \in DOMAIN values : R[i][c] # values[c]} = {}
    BY <1>5, <1>6
  <2>2. w = NoWrites
    BY <1>4, <2>1 DEF Assign
  <2> QED
    BY <1>2, <1>3, <1>5, <1>6, <2>2 DEF NoWrites, SetsPositions
<1>7. CASE R[i].position # p
  <2>1. {c \in DOMAIN values : R[i][c] # values[c]} = {"position"}
    BY <1>5, <1>7
  <2>2. PICK set : set = [c \in {"position"} |-> values[c]]
    OBVIOUS
  <2>3. w = [j \in {i} |-> [verb |-> "update", set |-> set]]
    BY <1>4, <2>1, <2>2 DEF Assign
  <2>4. set = [position |-> p]
    BY <1>5, <2>2
  <2>5. DOMAIN w = {i} /\ w[i].verb = "update" /\ w[i].set = set
    BY <2>3
  <2>6. \A j \in DOMAIN w : j = i
    BY <2>5
  <2>7. DOMAIN w = {j \in {i} : R[j].position # at[j]}
    BY <1>5, <1>7, <2>5
  <2>8. \A j \in DOMAIN w : w[j].verb = "update" /\ w[j].set = [position |-> at[j]]
    BY <1>5, <2>4, <2>5, <2>6
  <2> QED
    BY <1>2, <1>3, <2>7, <2>8 DEF SetsPositions
<1> QED
  BY <1>6, <1>7

LEMMA CommitDoesAsAsked ==
    ASSUME WorkspaceInv, NEW r \in Requests, Commit(r), req[r].lone
    PROVE  LoneEffect(req[r].op)
<1>1. Commits(r)
  BY CommitCommits
<1>2. PICK op : op = req[r].op
  OBVIOUS
<1>3. Asked(op, req[r].writes)
  BY <1>1, <1>2 DEF Commits, WorkspaceInv, LoneHolds
<1>4. CASE op.kind = "add_tile"
  <2>1. PICK i, row : /\ req[r].writes = Insert(i, row)
                      /\ \A t \in TilesOf(rows, op.id) : rows[t].position < row.position
    BY <1>3, <1>4 DEF Asked
  <2>2. PICK b : b = op.id
    OBVIOUS
  <2>3. \A t \in TilesOf(rows, b) : rows[t].position < row.position
    BY <2>1, <2>2
  <2>4. \E new \in DOMAIN rows' :
           /\ rows = [j \in DOMAIN rows' \ {new} |-> rows'[j]]
           /\ \A t \in TilesOf(rows, b) : rows[t].position < rows'[new].position
    BY <1>1, <2>1, <2>3, AddsLast
  <2> QED
    BY <1>2, <1>4, <2>2, <2>4 DEF LoneEffect
<1>5. CASE op.kind = "set_layout"
  <2>1. PICK at : at = op.layout
    OBVIOUS
  <2>2. PICK S : S = TilesOf(rows, op.id) \cap DOMAIN at
    OBVIOUS
  <2>3. req[r].writes = SetLayout(rows, op.id, at)
    BY <1>3, <1>5, <2>1 DEF Asked
  <2>4. SetsPositions(rows, req[r].writes, S, at)
    BY <2>2, <2>3, LayoutWrites
  <2>5. S \in SUBSET Of(rows, "tile")
    BY <2>2 DEF TilesOf
  <2>6. rows' = MovedRows(S, at)
    BY <1>1, <2>4, <2>5, MovesTiles
  <2> QED
    BY <1>2, <1>5, <2>1, <2>2, <2>6 DEF LoneEffect, MovedRows
<1>6. CASE op.kind = "update_tile"
  <2>1. PICK i \in Of(rows, "tile") : i = op.id /\ req[r].writes = UpdateTile(rows, i, op.position)
    BY <1>3, <1>6 DEF Asked
  <2>2. PICK p : p = op.position
    OBVIOUS
  <2>3. PICK at : at = [j \in {i} |-> p]
    OBVIOUS
  <2>4. SetsPositions(rows, req[r].writes, {i}, at)
    <3>1. SetsPositions(rows, UpdateTile(rows, i, p), {i}, [j \in {i} |-> p])
      BY TileWrites
    <3> QED
      BY <2>1, <2>2, <2>3, <3>1
  <2>5. {i} \in SUBSET Of(rows, "tile")
    BY <2>1
  <2>6. rows' = MovedRows({i}, at)
    BY <1>1, <2>4, <2>5, MovesTiles
  <2>7. rows' = [rows EXCEPT ![i].position = p]
    BY <2>3, <2>6 DEF MovedRows, WorkspaceInv, TablesHold
  <2> QED
    BY <1>2, <1>6, <2>1, <2>2, <2>7 DEF LoneEffect
<1>7. CASE op.kind = "delete_tile"
  <2>1. op.id \in Of(rows, "tile") /\ req[r].writes = Delete({op.id})
    BY <1>3, <1>7 DEF Asked, DeleteTile
  <2>2. {op.id} = {op.id} \cup Cascaded(rows, {op.id})
    BY <2>1, CascadedRows
  <2>3. rows' = Without({op.id})
    BY <1>1, <2>1, <2>2, DeletesWhole
  <2> QED
    BY <1>2, <1>7, <2>3 DEF LoneEffect
<1>8. CASE op.kind = "delete_chart"
  <2>1. op.id \in Of(rows, "chart") /\ req[r].writes = Delete({op.id})
    BY <1>3, <1>8 DEF Asked, DeleteChart
  <2>2. Cascaded(rows, {op.id}) = {i \in Of(rows, "tile") : rows[i].chart = op.id}
    BY <2>1, CascadedRows
  <2>3. rows' = Without({op.id} \cup {i \in Of(rows, "tile") : rows[i].chart = op.id})
    BY <1>1, <2>1, <2>2, DeletesWhole
  <2> QED
    BY <1>2, <1>8, <2>3 DEF LoneEffect
<1>9. CASE op.kind = "delete_board"
  <2> DEFINE S == {op.id} \cup TilesOf(rows, op.id)
  <2>1. op.id \in Of(rows, "board") /\ req[r].writes = Delete(S)
    BY <1>3, <1>9 DEF Asked, DeleteBoard
  <2>2. S = S \cup Cascaded(rows, S)
    BY <2>1, CascadedRows
  <2>3. rows' = Without(S)
    <3> HIDE DEF S
    <3> QED
      BY <1>1, <2>1, <2>2, DeletesWhole
  <2> QED
    BY <1>2, <1>9, <2>3 DEF LoneEffect
<1> QED
  BY <1>2, <1>4, <1>5, <1>6, <1>7, <1>8, <1>9 DEF LoneEffect

LEMMA CommitRepairsFiles ==
    ASSUME WorkspaceInv, NEW r \in Requests, Commit(r), req[r].lone, GeneratesCode(req[r].op)
    PROVE  IF req[r].op.table = "dbt" THEN dbtFiles' \in DbtFiles(Wanted(rows', "dbt"))
           ELSE cubeFile' = Wanted(rows', "cube")
<1>1. Commits(r) /\ IsRequest(req[r])
  BY CommitCommits
<1>2. IF req[r].op.table = "dbt" THEN dbtFiles \in DbtFiles(Leaves(req[r]))
      ELSE cubeFile = CubeFile(Leaves(req[r]))
  BY <1>1 DEF Commits, WorkspaceInv, LoneHolds
<1>3. Leaves(req[r]) = Wanted(rows', req[r].op.table)
  BY <1>1 DEF Leaves, Commits
<1>4. req[r].op.table \in {"dbt", "cube"}
  BY <1>1 DEF IsRequest
<1> QED
  BY <1>2, <1>3, <1>4 DEF Commit, CubeFile

-----------------------------------------------------------------------------
(* The theorems.                                                           *)

LEMMA SpecKeepsWorkspaceInv == Spec => []WorkspaceInv
BY InitHolds, NextHolds, PTL DEF Spec

\* Every variable keeps its type, and every row refers to rows that exist,
\* whatever requests run, overlap, fail or are cut off (DashboardService,
\* ChartService, DbtModelService, TransformService, UserService).
THEOREM WorkspaceTypeCorrect == Spec => []TypeOK
BY SpecKeepsWorkspaceInv, InvTypes, PTL

\* The list counts the tiles the page shows, and the walk from a stored filter
\* up its parents ends, for filter lists of any length (DashboardService._to_read,
\* DashboardUpdate).
THEOREM BoardsAreWhole == Spec => []BoardsStayWhole
BY SpecKeepsWorkspaceInv, InvBoards, PTL

\* A committed run finds its job, no two users have one email, and two models
\* of one name or jobs of one selection come only from requests that claimed it
\* at once (TransformService._ensure_transform_job, _require_name_free).
THEOREM ClaimsAreKeptAlways == Spec => []ClaimsAreKept
BY SpecKeepsWorkspaceInv, InvClaims, PTL

\* No commit loses a row or moves a tile it was not asked to, beside any other
\* requests; and one that met no others does to the board just what its body
\* asks for (DashboardService.add_tile, set_layout, delete; ChartService.delete).
THEOREM BoardRequestsAreWhole == Spec => BoardChangesAreWhole
<1>1. WorkspaceInv /\ [Next]_vars =>
        [\A r \in Requests : Commit(r) =>
            Frame(req[r].op) /\ (req[r].lone => LoneEffect(req[r].op))]_vars
  BY CommitFrames, CommitDoesAsAsked
<1> QED
  BY <1>1, SpecKeepsWorkspaceInv, PTL DEF Spec, BoardChangesAreWhole

\* The first model request that runs alone and commits leaves exactly the files
\* of the enabled models, whatever earlier requests left behind
\* (DbtModelService._regenerate, SemanticModelService._regenerate).
THEOREM LoneRequestsRepairFiles == Spec => FilesAreRepaired
<1>1. WorkspaceInv /\ [Next]_vars =>
        [\A r \in Requests : Commit(r) /\ req[r].lone /\ GeneratesCode(req[r].op) =>
            IF req[r].op.table = "dbt" THEN dbtFiles' \in DbtFiles(Wanted(rows', "dbt"))
            ELSE cubeFile' = Wanted(rows', "cube")]_vars
  BY CommitRepairsFiles
<1> QED
  BY <1>1, SpecKeepsWorkspaceInv, PTL DEF Spec, FilesAreRepaired

=============================================================================
