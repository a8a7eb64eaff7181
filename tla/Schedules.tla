------------------------------ MODULE Schedules ------------------------------
(***************************************************************************)
(* One reusable schedule and its attachments to pipelines, under concurrent*)
(* requests: create, PATCH and DELETE of src/backend/app/services/         *)
(* schedules.py, and the DELETE of a pipeline that cascades into the       *)
(* attachments.                                                            *)
(*                                                                         *)
(* A request is one transaction under READ COMMITTED.  The session does    *)
(* not autoflush, so that a PATCH first deletes the attachments, then, in  *)
(* one flush, updates the row and inserts the new attachments.  The UPDATE *)
(* names only the columns that differ from the row as it was loaded, and   *)
(* is not sent at all if none does.  A DELETE statement removes the rows   *)
(* that were committed when it started, even if it then waits for another  *)
(* transaction; rows are told apart by the request that inserted them.     *)
(* What runs a schedule starts, and when, is in PipelineRuns and Cron.     *)
(***************************************************************************)
EXTENDS Naturals, FiniteSets, Sequences, Functions

CONSTANTS
    Pipelines,  \* ids of the tenant's pipelines
    Requests,   \* PATCH and DELETE requests for the schedule
    Crons,      \* cron expressions that validate
    Patches,    \* bodies of PATCH requests
    Unset,      \* a field that a body leaves out
    Creation,   \* the request that created the schedule
    NoOne

Lists == {ids \in UNION {[1..n -> Pipelines] : n \in 1..Cardinality(Pipelines)} :
              IsInjective(ids)}

ASSUME PatchesAreBodies ==
    /\ Patches \subseteq [ids : Lists \cup {<<>>}, cron : Crons \cup {Unset},
                          enabled : BOOLEAN \cup {Unset}]
    /\ [ids |-> <<>>, cron |-> Unset, enabled |-> Unset] \notin Patches
ASSUME PipelinesAreFinite == IsFiniteSet(Pipelines)
ASSUME NamesAreDistinct ==
    /\ Requests \cap Pipelines = {}
    /\ NoOne \notin Requests /\ Creation \notin Requests /\ Creation # NoOne

VARIABLES
    (* committed *)
    stage,     \* "absent", "present" or "deleted"
    row,       \* cron, enabled and target_id
    attached,  \* who inserted the attachment of a pipeline; NoOne if there is none
    life,      \* of a pipeline: "live", "dropping" (uncommitted DELETE) or "gone"
    (* the requests *)
    pc, body,
    loaded,    \* the row as get_for_tenant returned it
    view,      \* attachments a blocked DELETE statement set out to remove
    removed,   \* attachments deleted and not yet committed
    (* history *)
    asked,     \* the list the last committed request attached
    lone,      \* that request ran alone
    rival      \* another request has been at work meanwhile

requests == <<pc, body, loaded, view, removed>>
vars == <<stage, row, attached, life, requests, asked, lone, rival>>

NoRow == [cron |-> NoOne, enabled |-> FALSE, target |-> NoOne]
(* The body of a DELETE, which as a PATCH would change nothing.            *)
Delete == [ids |-> <<>>, cron |-> Unset, enabled |-> Unset]
Attachments == {<<p, attached[p]>> : p \in {q \in Pipelines : attached[q] # NoOne}}
Active == {r \in Requests : pc[r] \notin {"idle", "done"}}
IsDelete(r) == body[r] = Delete
NeedsClear(r) == IsDelete(r) \/ body[r].ids # <<>>
AtUpdate(r) == pc[r] = IF NeedsClear(r) THEN "cleared" ELSE "loaded"
Gone == {p \in Pipelines : life[p] = "gone"}

----
(* Locks                                                                   *)

(* The columns whose assigned value differs from the loaded one.           *)
Changes(r) ==
    {c \in {"cron", "enabled"} : body[r][c] # Unset /\ body[r][c] # loaded[r][c]}
    \cup {c \in {"target"} : body[r].ids # <<>> /\ Head(body[r].ids) # loaded[r].target}

(* Who holds the row of the schedule, by UPDATE or DELETE.                 *)
RowHolders == {r \in Requests : /\ pc[r] \in {"updated", "written"}
                                /\ IsDelete(r) \/ Changes(r) # {}}
(* Whose uncommitted attachments refer to the schedule and to a pipeline.  *)
Inserters == {r \in Requests : pc[r] = "written" /\ body[r].ids # <<>>}
InsertersOf(p) == {r \in Inserters : p \in Range(body[r].ids)}
RemoversOf(S) == {r \in Requests : removed[r] \cap S # {}}
Dropped(S) == {p \in S : life[p] = "dropping"}

(* Whom a request or the DELETE of a pipeline has to wait for.             *)
WaitsFor(x) ==
    IF x \in Pipelines
    THEN IF life[x] = "dropping" THEN RemoversOf({<<x, attached[x]>>}) ELSE InsertersOf(x)
    ELSE CASE pc[x] = "waiting" -> RemoversOf(view[x]) \ {x}
           [] AtUpdate(x) /\ IsDelete(x) ->
                  (RowHolders \cup Inserters \cup RemoversOf(Attachments)) \ {x}
           [] AtUpdate(x) /\ ~IsDelete(x) ->
                  IF Changes(x) = {} THEN {} ELSE RowHolders \ {x}
           [] pc[x] = "updated" ->
                  LET ids == Range(body[x].ids) IN
                  Dropped(ids)
                  \cup UNION {InsertersOf(p) : p \in ids}
                  \cup (RemoversOf({<<p, attached[p]>> : p \in ids}) \ {x})
                  \cup {r \in RowHolders \ {x} : IsDelete(r)}
           [] OTHER -> {}

(* x is on a cycle of waits.                                               *)
Blocks(y, x) ==
    /\ x \in Active \/ (x \in Pipelines /\ life[x] = "dropping")
    /\ y \in WaitsFor(x)

Deadlocked(x) ==
    /\ WaitsFor(x) # {}
    /\ \E cycle \in SUBSET (Requests \cup Pipelines) :
          /\ x \in cycle
          /\ \A y \in cycle : \E z \in cycle : Blocks(z, y)
          /\ \A z \in cycle : \E y \in cycle : Blocks(z, y)

----
(* ScheduleService                                                         *)

Create ==
    /\ stage = "absent"
    /\ \E ids \in Lists, c \in Crons, on \in BOOLEAN :
          /\ \A p \in Range(ids) : life[p] = "live"
          /\ row' = [cron |-> c, enabled |-> on, target |-> Head(ids)]
          /\ attached' = [p \in Pipelines |-> IF p \in Range(ids) THEN Creation ELSE NoOne]
          /\ asked' = ids
    /\ stage' = "present"
    /\ lone' = TRUE
    /\ UNCHANGED <<life, requests, rival>>

(* get_for_tenant and, for a list, _require_targets.  The check is a later *)
(* statement, but pipelines only ever go away: a list that passes it would *)
(* have passed here, and the 404 of one that does not is a Rollback.       *)
Load(r) ==
    /\ pc[r] = "idle" /\ stage = "present"
    /\ \E b \in Patches \cup {Delete} :
          /\ Range(b.ids) \cap Gone = {}
          /\ body' = [body EXCEPT ![r] = b]
    /\ loaded' = [loaded EXCEPT ![r] = row]
    /\ pc' = [pc EXCEPT ![r] = "loaded"]
    /\ rival' = [q \in Requests |-> IF q = r THEN Active # {} ELSE rival[q] \/ q \in Active]
    /\ UNCHANGED <<stage, row, attached, life, view, removed, asked, lone>>

Keeps == UNCHANGED <<stage, row, attached, life, body, loaded, asked, lone, rival>>

(* Mutant: the new list is attached beside the old one.                    *)
ClearNothing(r) ==
    /\ pc[r] = "loaded" /\ NeedsClear(r)
    /\ pc' = [pc EXCEPT ![r] = "cleared"]
    /\ UNCHANGED <<view, removed>> /\ Keeps

(* DELETE FROM schedule_pipelines                                          *)
Clear(r) ==
    /\ pc[r] = "loaded" /\ NeedsClear(r)
    /\ RemoversOf(Attachments) = {}
    /\ removed' = [removed EXCEPT ![r] = Attachments]
    /\ pc' = [pc EXCEPT ![r] = "cleared"]
    /\ UNCHANGED view /\ Keeps

ClearBlocks(r) ==
    /\ pc[r] = "loaded" /\ NeedsClear(r)
    /\ RemoversOf(Attachments) # {}
    /\ view' = [view EXCEPT ![r] = Attachments]
    /\ pc' = [pc EXCEPT ![r] = "waiting"]
    /\ UNCHANGED removed /\ Keeps

(* Mutant: rows another transaction removed meanwhile count as removed.    *)
ClearResumesBlindly(r) ==
    /\ pc[r] = "waiting" /\ WaitsFor(r) = {}
    /\ removed' = [removed EXCEPT ![r] = view[r]]
    /\ pc' = [pc EXCEPT ![r] = "cleared"]
    /\ UNCHANGED view /\ Keeps

ClearResumes(r) ==
    /\ pc[r] = "waiting" /\ WaitsFor(r) = {}
    /\ removed' = [removed EXCEPT ![r] = view[r] \cap Attachments]
    /\ pc' = [pc EXCEPT ![r] = "cleared"]
    /\ UNCHANGED view /\ Keeps

(* UPDATE schedules, or DELETE FROM schedules with its cascade, which also *)
(* takes the attachments that were inserted since.                         *)
Update(r) ==
    /\ AtUpdate(r) /\ WaitsFor(r) = {}
    /\ Changes(r) # {} => stage = "present"
    /\ pc' = [pc EXCEPT ![r] = IF body[r].ids = <<>> THEN "written" ELSE "updated"]
    /\ removed' = [removed EXCEPT ![r] = IF IsDelete(r) THEN Attachments ELSE @]
    /\ UNCHANGED view /\ Keeps

(* INSERT INTO schedule_pipelines: the keys must be free, the schedule and *)
(* the pipelines must exist.                                               *)
CanInsert(r) ==
    /\ stage = "present"
    /\ \A p \in Range(body[r].ids) :
          p \notin Gone /\ (attached[p] = NoOne \/ <<p, attached[p]>> \in removed[r])

Insert(r) ==
    /\ pc[r] = "updated" /\ WaitsFor(r) = {}
    /\ CanInsert(r)
    /\ pc' = [pc EXCEPT ![r] = "written"]
    /\ UNCHANGED <<view, removed>> /\ Keeps

Release(r) ==
    /\ pc' = [pc EXCEPT ![r] = "done"]
    /\ view' = [view EXCEPT ![r] = {}]
    /\ removed' = [removed EXCEPT ![r] = {}]
    /\ body' = [body EXCEPT ![r] = Delete]
    /\ loaded' = [loaded EXCEPT ![r] = NoRow]
    /\ rival' = [rival EXCEPT ![r] = FALSE]
    /\ UNCHANGED life

Aborts(r) == Release(r) /\ UNCHANGED <<stage, row, attached, asked, lone>>

(* Mutant: only a broken constraint is an error.                           *)
FailsOnInsertOnly(r) ==
    /\ pc[r] = "updated" /\ WaitsFor(r) = {} /\ ~CanInsert(r)
    /\ Aborts(r)

(* An UPDATE that finds no row, or a broken constraint, fails the request. *)
Fails(r) ==
    /\ WaitsFor(r) = {}
    /\ \/ pc[r] = "updated" /\ ~CanInsert(r)
       \/ AtUpdate(r) /\ Changes(r) # {} /\ stage # "present"
    /\ Aborts(r)

(* Mutant: every column is written back from the loaded object.            *)
NewRowWhole(r) ==
    [c \in {"cron", "enabled", "target"} |->
        IF c \notin Changes(r) THEN loaded[r][c]
        ELSE IF c = "target" THEN Head(body[r].ids) ELSE body[r][c]]

(* Mutant: the old attachments are deleted after the new ones were added.  *)
NewAttachedClearedLast(r) ==
    [p \in Pipelines |->
        IF NeedsClear(r) THEN NoOne ELSE attached[p]]

(* get_db commits.                                                         *)
NewRow(r) ==
    [c \in {"cron", "enabled", "target"} |->
        IF c \notin Changes(r) THEN row[c]
        ELSE IF c = "target" THEN Head(body[r].ids) ELSE body[r][c]]

NewAttached(r) ==
    [p \in Pipelines |->
        IF p \in Range(body[r].ids) THEN r
        ELSE IF <<p, attached[p]>> \in removed[r] THEN NoOne ELSE attached[p]]

Commit(r) ==
    /\ pc[r] = "written"
    /\ row' = NewRow(r)
    /\ attached' = NewAttached(r)
    /\ stage' = IF IsDelete(r) THEN "deleted" ELSE stage
    /\ IF body[r].ids # <<>> THEN asked' = body[r].ids /\ lone' = ~rival[r]
                             ELSE UNCHANGED <<asked, lone>>
    /\ Release(r)

(* The client goes away, or anything else raises.                          *)
Rollback(r) == r \in Active /\ Aborts(r)

----
(* PipelineService.delete, as far as it reaches into the attachments       *)

DropBegin(p) ==
    /\ life[p] = "live" /\ WaitsFor(p) = {}
    /\ life' = [life EXCEPT ![p] = "dropping"]
    /\ UNCHANGED <<stage, row, attached, requests, asked, lone, rival>>

DropCommits(p) ==
    /\ life[p] = "dropping" /\ WaitsFor(p) = {}
    /\ life' = [life EXCEPT ![p] = "gone"]
    /\ attached' = [attached EXCEPT ![p] = NoOne]
    /\ UNCHANGED <<stage, row, requests, asked, lone, rival>>

DropFails(p) ==
    /\ life[p] = "dropping"
    /\ life' = [life EXCEPT ![p] = "live"]
    /\ UNCHANGED <<stage, row, attached, requests, asked, lone, rival>>

(* The database aborts one transaction of a cycle of waits.                *)
Victim(x) ==
    \/ x \in Requests /\ Deadlocked(x) /\ Rollback(x)
    \/ x \in Pipelines /\ life[x] = "dropping" /\ Deadlocked(x) /\ DropFails(x)

----
Init ==
    /\ stage = "absent"
    /\ row = NoRow
    /\ attached = [p \in Pipelines |-> NoOne]
    /\ life = [p \in Pipelines |-> "live"]
    /\ pc = [r \in Requests |-> "idle"]
    /\ body = [r \in Requests |-> Delete]
    /\ loaded = [r \in Requests |-> NoRow]
    /\ view = [r \in Requests |-> {}]
    /\ removed = [r \in Requests |-> {}]
    /\ asked = <<>> /\ lone = TRUE
    /\ rival = [r \in Requests |-> FALSE]

Proceeds(r) ==
    \/ Clear(r) \/ ClearBlocks(r) \/ ClearResumes(r)
    \/ Update(r) \/ Insert(r) \/ Fails(r) \/ Commit(r)

Next ==
    \/ Create
    \/ \E r \in Requests : Load(r) \/ Proceeds(r) \/ Rollback(r)
    \/ \E p \in Pipelines : DropBegin(p) \/ DropCommits(p) \/ DropFails(p)
    \/ \E x \in Requests \cup Pipelines : Victim(x)

Spec == Init /\ [][Next]_vars

(* A request keeps running its statements, a DELETE that may commit does,  *)
(* and the database notices cycles of waits.  Strong fairness, because who *)
(* waits for a lock is queued for it and gets it when it is released.      *)
FairSpec ==
    /\ Spec
    /\ \A r \in Requests : SF_vars(Proceeds(r))
    /\ \A p \in Pipelines : SF_vars(DropCommits(p))
    /\ \A x \in Requests \cup Pipelines : WF_vars(Victim(x))

----
Bodies == Patches \cup {Delete}
Rows == [cron : Crons \cup {NoOne}, enabled : BOOLEAN, target : Pipelines \cup {NoOne}]
Authors == Requests \cup {Creation}

(* TypeOK: the shape of rows, attachments and requests; what a request     *)
(* removed is an attachment that is still there, since it holds its lock.  *)
TypeOK ==
    /\ stage \in {"absent", "present", "deleted"}
    /\ row \in Rows
    /\ attached \in [Pipelines -> Authors \cup {NoOne}]
    /\ life \in [Pipelines -> {"live", "dropping", "gone"}]
    /\ pc \in [Requests -> {"idle", "loaded", "waiting", "cleared", "updated", "written",
                            "done"}]
    /\ body \in [Requests -> Bodies]
    /\ loaded \in [Requests -> Rows]
    /\ view \in [Requests -> SUBSET (Pipelines \X Authors)]
    /\ removed \in [Requests -> SUBSET Attachments]
    /\ asked \in Lists \cup {<<>>}
    /\ lone \in BOOLEAN /\ rival \in [Requests -> BOOLEAN]

(* LastPatchIsAttached: whatever requests raced, every pipeline named by   *)
(* the last committed create or PATCH is attached, unless it was deleted.  *)
LastPatchIsAttached ==
    stage = "present" => \A p \in Range(asked) \ Gone : attached[p] # NoOne

(* LonePatchReplaces: a request that met no other replaced the attachments *)
(* by exactly its list, and points target_id at the first of it; later     *)
(* requests that leave the list alone, and deleted pipelines, change       *)
(* nothing of that.                                                        *)
LonePatchReplaces ==
    stage = "present" /\ lone =>
        /\ {p \in Pipelines : attached[p] # NoOne} = Range(asked) \ Gone
        /\ row.target = Head(asked)

(* NoLostUpdate: a PATCH that commits changes no column its body does not  *)
(* name, however old the row it loaded (a toggle racing an edit).          *)
NoLostUpdate ==
    [][\A r \in Requests : Commit(r) =>
          /\ \A c \in {"cron", "enabled"} :
                row'[c] # row[c] => row'[c] = body[r][c]
          /\ row'.target # row.target => body[r].ids # <<>>]_vars

(* RequestsEnd: with the waits for rows, attachments and pipelines that    *)
(* requests and a cascade impose on one another, every request ends.       *)
RequestsEnd == \A r \in Requests : r \in Active ~> pc[r] = "done"
==============================================================================
