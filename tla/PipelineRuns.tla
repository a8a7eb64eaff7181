---------------------------- MODULE PipelineRuns ----------------------------
(***************************************************************************)
(* ETL pipelines: the registry rows, the run-now handler, the periodic     *)
(* dispatcher, the at-least-once broker, and the workers that execute a    *)
(* run (extract, load into Iceberg, register, record the outcome).         *)
(*                                                                         *)
(* Two facts of the code decide the granularity.  A request or a job is    *)
(* ONE database transaction (app/core/db.py commits after the handler), so *)
(* what a worker flushes is invisible to the others until it finishes, but *)
(* the row locks of its UPDATEs are held all along.  And the broker and    *)
(* the lake take no part in that transaction: a message sent, or a batch   *)
(* appended, before a rollback stays sent and appended.                    *)
(*                                                                         *)
(* A source row is named by its position in the order of the CDC column:   *)
(* the source holds rows 1..source[p], and a watermark is a row number,    *)
(* with 0 for a cursor that is still NULL.                                 *)
(***************************************************************************)
EXTENDS Naturals, FiniteSets

CONSTANTS
    Pipelines,     \* ids of the pipelines
    Runs,          \* ids of the pipeline runs
    PipelineOf,    \* the pipeline_id column: [Runs -> Pipelines]
    Workers,       \* threads of the ETL worker processes
    Dispositions,  \* write dispositions the tenant chooses from
    MaxRows,       \* bound: rows a source ever holds
    MaxFaults,     \* bound: crashes and spurious redeliveries
    NoRun          \* the job of a worker that has none

ASSUME RunOwnership == PipelineOf \in [Runs -> Pipelines]
ASSUME KnownDispositions ==
    /\ Dispositions \subseteq {"overwrite", "append", "merge", "incremental"}
    /\ Dispositions # {}
ASSUME BoundsAreNaturals == MaxRows \in Nat /\ MaxFaults \in Nat
ASSUME NoRunIsNoRun == NoRun \notin Runs

VARIABLES
    (* table pipelines, committed *)
    stage,       \* "absent", "live" or "deleted"
    enabled,
    disp,        \* config.write_disposition
    cursor,      \* the persisted high-water mark
    deleting,    \* a DELETE holds the row's lock and has not committed
    (* table pipeline_runs *)
    phase,       \* "unused", "open" (inserted, not committed), a committed
                 \* status, or "gone" (rolled back, or deleted by cascade)
    (* the broker's etl queue *)
    queue,       \* runs whose message waits for a worker
    dead,        \* runs whose message was dead-lettered
    (* the dispatcher's transaction *)
    ticking, todo, made,
    (* sources and landing tables *)
    source, created, table,
    (* the workers *)
    pc, job,
    mark, mode,  \* cursor and disposition as the job read them
    top,         \* greatest row of the extracted batch
    fresh,       \* the table metadata the worker loaded is still current
    (* history, and the fault budget *)
    grows,       \* no configuration of the pipeline said "overwrite" so far
    dropped,     \* runs whose message was acknowledged as "not found"
    faults

registry == <<stage, enabled, disp, cursor, deleting, grows>>
broker == <<queue, dead>>
dispatcher == <<ticking, todo, made>>
lake == <<source, created, table>>
reading == <<mark, mode, top>>
workers == <<pc, job, reading, fresh>>
vars == <<registry, phase, broker, dispatcher, lake, workers, dropped, faults>>

Rows == 1..MaxRows
Committed == {"queued", "success", "error"}
Terminal == {"success", "error"}

(* Steps of a job.  From "running" to its end the job holds the lock of    *)
(* its run's row.                                                          *)
Locking == {"running", "extracted", "opened", "creating", "seeding",
            "loaded", "failing"}
Steps == {"idle", "received", "ready", "committed"} \cup Locking

(* The disposition of what has none yet.                                   *)
Placeholder == CHOOSE d \in Dispositions : TRUE

Target(w) == PipelineOf[job[w]]
Holds(w, r) == pc[w] \in Locking /\ job[w] = r
Batch(w) == IF mode[w] = "incremental" THEN (mark[w] + 1)..top[w] ELSE 1..top[w]

TypeOK ==
    /\ stage \in [Pipelines -> {"absent", "live", "deleted"}]
    /\ enabled \in [Pipelines -> BOOLEAN]
    /\ disp \in [Pipelines -> Dispositions]
    /\ cursor \in [Pipelines -> 0..MaxRows]
    /\ deleting \in [Pipelines -> BOOLEAN]
    /\ phase \in [Runs -> {"unused", "open", "gone"} \cup Committed]
    /\ queue \subseteq Runs
    /\ dead \subseteq Runs
    /\ ticking \in BOOLEAN
    /\ todo \subseteq Pipelines
    /\ made \subseteq Runs
    /\ source \in [Pipelines -> 0..MaxRows]
    /\ created \in [Pipelines -> BOOLEAN]
    /\ table \in [Pipelines -> SUBSET Rows]
    /\ pc \in [Workers -> Steps]
    /\ job \in [Workers -> Runs \cup {NoRun}]
    /\ \A w \in Workers : pc[w] # "idle" => job[w] \in Runs
    /\ mark \in [Workers -> 0..MaxRows]
    /\ mode \in [Workers -> Dispositions]
    /\ top \in [Workers -> 0..MaxRows]
    /\ fresh \in [Workers -> BOOLEAN]
    /\ grows \in [Pipelines -> BOOLEAN]
    /\ dropped \subseteq Runs
    /\ faults \in 0..MaxFaults

Init ==
    /\ stage = [p \in Pipelines |-> "absent"]
    /\ enabled = [p \in Pipelines |-> FALSE]
    /\ disp = [p \in Pipelines |-> Placeholder]
    /\ cursor = [p \in Pipelines |-> 0]
    /\ deleting = [p \in Pipelines |-> FALSE]
    /\ phase = [r \in Runs |-> "unused"]
    /\ queue = {}
    /\ dead = {}
    /\ ticking = FALSE
    /\ todo = {}
    /\ made = {}
    /\ source = [p \in Pipelines |-> 0]
    /\ created = [p \in Pipelines |-> FALSE]
    /\ table = [p \in Pipelines |-> {}]
    /\ pc = [w \in Workers |-> "idle"]
    /\ job = [w \in Workers |-> NoRun]
    /\ mark = [w \in Workers |-> 0]
    /\ mode = [w \in Workers |-> Placeholder]
    /\ top = [w \in Workers |-> 0]
    /\ fresh = [w \in Workers |-> FALSE]
    /\ grows = [p \in Pipelines |-> Placeholder # "overwrite"]
    /\ dropped = {}
    /\ faults = 0

-----------------------------------------------------------------------------
(* The pipeline CRUD handlers.                                             *)

Create(p) ==
    /\ stage[p] = "absent"
    /\ stage' = [stage EXCEPT ![p] = "live"]
    /\ \E e \in BOOLEAN, d \in Dispositions :
         /\ enabled' = [enabled EXCEPT ![p] = e]
         /\ disp' = [disp EXCEPT ![p] = d]
         /\ grows' = [grows EXCEPT ![p] = (d # "overwrite")]
    /\ UNCHANGED <<cursor, deleting, phase, broker, dispatcher, lake, workers,
                   dropped, faults>>

(* PATCH writes the columns it was given, and never the cursor.            *)
Update(p) ==
    /\ stage[p] = "live" /\ ~deleting[p]
    /\ \E e \in BOOLEAN, d \in Dispositions :
         /\ enabled' = [enabled EXCEPT ![p] = e]
         /\ disp' = [disp EXCEPT ![p] = d]
         /\ grows' = [grows EXCEPT ![p] = @ /\ d # "overwrite"]
    /\ UNCHANGED <<stage, cursor, deleting, phase, broker, dispatcher, lake,
                   workers, dropped, faults>>

(* The flushed DELETE locks the pipeline's row.  It waits for open inserts *)
(* of runs, whose foreign key check locks the same row.                    *)
DeleteBegin(p) ==
    /\ stage[p] = "live" /\ ~deleting[p]
    /\ \A r \in Runs : PipelineOf[r] = p => phase[r] # "open"
    /\ deleting' = [deleting EXCEPT ![p] = TRUE]
    /\ UNCHANGED <<stage, enabled, disp, cursor, grows, phase, broker,
                   dispatcher, lake, workers, dropped, faults>>

(* The cascade to pipeline_runs waits for the row locks of executing runs. *)
CascadeDelete(p) ==
    /\ deleting[p]
    /\ deleting' = [deleting EXCEPT ![p] = FALSE]
    /\ stage' = [stage EXCEPT ![p] = "deleted"]
    /\ phase' = [r \in Runs |->
                   IF PipelineOf[r] = p /\ phase[r] \in Committed
                     THEN "gone" ELSE phase[r]]
    /\ UNCHANGED <<enabled, disp, cursor, grows, broker, dispatcher, lake,
                   workers, dropped, faults>>

DeleteCommit(p) ==
    /\ \A r \in Runs, w \in Workers : PipelineOf[r] = p => ~Holds(w, r)
    /\ CascadeDelete(p)

DeleteRollback(p) ==
    /\ deleting[p]
    /\ deleting' = [deleting EXCEPT ![p] = FALSE]
    /\ UNCHANGED <<stage, enabled, disp, cursor, grows, phase, broker,
                   dispatcher, lake, workers, dropped, faults>>

-----------------------------------------------------------------------------
(* Creating runs.  Both paths insert the row, flush, and send the message  *)
(* inside the transaction that has still to commit.                        *)

Runnable(p) == stage[p] = "live" /\ enabled[p] /\ ~deleting[p]

InsertAndEnqueue(r) ==
    /\ phase[r] = "unused"
    /\ phase' = [phase EXCEPT ![r] = "open"]
    /\ queue' = queue \cup {r}

RunNow(r) ==
    /\ Runnable(PipelineOf[r])
    /\ InsertAndEnqueue(r)
    /\ UNCHANGED <<registry, dead, dispatcher, lake, workers, dropped, faults>>

RequestCommits(r) ==
    /\ phase[r] = "open" /\ r \notin made
    /\ phase' = [phase EXCEPT ![r] = "queued"]
    /\ UNCHANGED <<registry, broker, dispatcher, lake, workers, dropped,
                   faults>>

RequestRollsBack(r) ==
    /\ phase[r] = "open" /\ r \notin made
    /\ phase' = [phase EXCEPT ![r] = "gone"]
    /\ UNCHANGED <<registry, broker, dispatcher, lake, workers, dropped,
                   faults>>

(* One heartbeat: the schedules due this minute fan out to pipelines.      *)
Heartbeat ==
    /\ ~ticking
    /\ \E due \in (SUBSET Pipelines) \ {{}} : todo' = due
    /\ ticking' = TRUE
    /\ UNCHANGED <<registry, phase, broker, made, lake, workers, dropped,
                   faults>>

(* A run per due schedule and attached pipeline: another schedule may name *)
(* the pipeline as well.                                                   *)
DispatchOne(r) ==
    /\ ticking /\ PipelineOf[r] \in todo
    /\ Runnable(PipelineOf[r])
    /\ InsertAndEnqueue(r)
    /\ made' = made \cup {r}
    /\ todo' \in {todo, todo \ {PipelineOf[r]}}
    /\ UNCHANGED <<registry, dead, ticking, lake, workers, dropped, faults>>

DispatchSkip(p) ==
    /\ ticking /\ p \in todo
    /\ stage[p] # "live" \/ ~enabled[p]
    /\ todo' = todo \ {p}
    /\ UNCHANGED <<registry, phase, broker, ticking, made, lake, workers,
                   dropped, faults>>

(* The heartbeat's transaction ends for all its runs at once.  It may      *)
(* commit with pipelines left only when the bound on run ids is used up.   *)
EndHeartbeat(outcome) ==
    /\ ticking
    /\ phase' = [r \in Runs |-> IF r \in made THEN outcome ELSE phase[r]]
    /\ ticking' = FALSE /\ todo' = {} /\ made' = {}
    /\ UNCHANGED <<registry, broker, lake, workers, dropped, faults>>

DispatchCommits ==
    /\ \A r \in Runs : PipelineOf[r] \in todo => phase[r] # "unused"
    /\ EndHeartbeat("queued")

DispatchRollsBack == EndHeartbeat("gone")

-----------------------------------------------------------------------------
(* The worker.                                                             *)

Become(w, step) == pc' = [pc EXCEPT ![w] = step]

Forget(w) ==
    /\ mark' = [mark EXCEPT ![w] = 0]
    /\ top' = [top EXCEPT ![w] = 0]
    /\ mode' = [mode EXCEPT ![w] = Placeholder]
    /\ fresh' = [fresh EXCEPT ![w] = FALSE]

(* The message is acknowledged, or dead-lettered, and the thread is free.  *)
Release(w) ==
    /\ Become(w, "idle")
    /\ job' = [job EXCEPT ![w] = NoRun]
    /\ Forget(w)

(* An exception escapes the actor: the transaction rolls back and, with    *)
(* max_retries=0, the message goes to the dead-letter queue.               *)
Escape(w) ==
    /\ Release(w)
    /\ dead' = dead \cup {job[w]}
    /\ UNCHANGED <<registry, phase, queue, dispatcher, lake, dropped, faults>>

Receive(w, r) ==
    /\ pc[w] = "idle" /\ r \in queue
    /\ queue' = queue \ {r}
    /\ job' = [job EXCEPT ![w] = r]
    /\ Become(w, "received")
    /\ UNCHANGED <<registry, phase, dead, dispatcher, lake, reading, fresh,
                   dropped, faults>>

(* The run, then its pipeline.  The cursor and the configuration the whole *)
(* job works with are read here, before any lock is taken.                 *)
Read(w) ==
    /\ pc[w] = "received" /\ phase[job[w]] \in Committed
    /\ mark' = [mark EXCEPT ![w] = cursor[Target(w)]]
    /\ mode' = [mode EXCEPT ![w] = disp[Target(w)]]
    /\ Become(w, "ready")
    /\ UNCHANGED <<registry, phase, broker, dispatcher, lake, job, top, fresh,
                   dropped, faults>>

(* "not found - nothing to execute": the message is acknowledged.          *)
ReadNothing(w) ==
    /\ pc[w] = "received" /\ phase[job[w]] \notin Committed
    /\ dropped' = dropped \cup {job[w]}
    /\ Release(w)
    /\ UNCHANGED <<registry, phase, broker, dispatcher, lake, faults>>

(* The pipeline, and its runs with it, went away after the run was read:   *)
(* the UPDATE matches no row and raises.                                   *)
RunVanished(w) ==
    /\ pc[w] = "ready" /\ phase[job[w]] \notin Committed
    /\ Escape(w)

(* Flushing status = "running" takes the row's lock, after any other       *)
(* delivery of the same run has committed or rolled back.                  *)
StartRunning(w) ==
    /\ pc[w] = "ready" /\ phase[job[w]] \in Committed
    /\ Become(w, "running")
    /\ UNCHANGED <<registry, phase, broker, dispatcher, lake, job, reading,
                   fresh, dropped, faults>>

FlushRunning(w) ==
    /\ \A v \in Workers : ~Holds(v, job[w])
    /\ StartRunning(w)

Extract(w) ==
    /\ pc[w] = "running"
    /\ top' = [top EXCEPT ![w] = source[Target(w)]]
    /\ Become(w, "extracted")
    /\ UNCHANGED <<registry, phase, broker, dispatcher, lake, job, mark, mode,
                   fresh, dropped, faults>>

OpenTable(w) ==
    /\ pc[w] = "extracted"
    /\ Become(w, IF created[Target(w)] THEN "opened" ELSE "creating")
    /\ fresh' = [fresh EXCEPT ![w] = created[Target(w)]]
    /\ UNCHANGED <<registry, phase, broker, dispatcher, lake, job, reading,
                   dropped, faults>>

(* create_table raises when another worker created the table meanwhile.    *)
CreateTable(w) ==
    /\ pc[w] = "creating"
    /\ Become(w, IF created[Target(w)] THEN "failing" ELSE "seeding")
    /\ fresh' = [fresh EXCEPT ![w] = ~created[Target(w)]]
    /\ created' = [created EXCEPT ![Target(w)] = TRUE]
    /\ UNCHANGED <<registry, phase, broker, dispatcher, source, table, job,
                   reading, dropped, faults>>

Land(w) ==
    LET p == Target(w) IN
    IF pc[w] = "seeding" \/ mode[w] = "overwrite"
      THEN table' = [table EXCEPT ![p] = Batch(w)]
      ELSE table' = [table EXCEPT ![p] = @ \cup Batch(w)]

(* The catalog accepts a snapshot only on top of the one it was built on:  *)
(* every other writer that had the table open becomes stale.               *)
WriteTable(w) ==
    /\ pc[w] \in {"opened", "seeding"}
    /\ \/ /\ fresh[w]
          /\ Land(w)
          /\ fresh' = [v \in Workers |-> fresh[v] /\ Target(v) # Target(w)]
          /\ Become(w, "loaded")
       \/ /\ ~fresh[w]
          /\ Become(w, "failing")
          /\ UNCHANGED <<table, fresh>>
    /\ UNCHANGED <<registry, phase, broker, dispatcher, source, created, job,
                   reading, dropped, faults>>

(* Any exception of extract, load or register, caught by the executor.     *)
StepFails(w) ==
    /\ pc[w] \in Locking \ {"failing"}
    /\ Become(w, "failing") /\ Forget(w)
    /\ UNCHANGED <<registry, phase, broker, dispatcher, lake, job, dropped,
                   faults>>

(* The loaded table is registered with ClickHouse (idempotent DDL, no state *)
(* of this module) and the outcome committed.  The cursor column is written *)
(* only when its value differs from the one the job read, and then needs    *)
(* the pipeline row's lock.                                                 *)
MovesCursor(w) == top[w] > mark[w]

Record(w, status) ==
    /\ phase' = [phase EXCEPT ![job[w]] = status]
    /\ Become(w, "committed")
    /\ Forget(w)
    /\ UNCHANGED <<stage, enabled, disp, deleting, grows, broker, dispatcher,
                   lake, job, dropped, faults>>

(* Mutant: the mark is the source's at the end of the run.                 *)
FinishSuccessLateMark(w) ==
    /\ pc[w] = "loaded"
    /\ MovesCursor(w) => ~deleting[Target(w)]
    /\ cursor' = [cursor EXCEPT ![Target(w)] = source[Target(w)]]
    /\ Record(w, "success")

FinishSuccess(w) ==
    /\ pc[w] = "loaded"
    /\ MovesCursor(w) => ~deleting[Target(w)]
    /\ cursor' = IF MovesCursor(w)
                   THEN [cursor EXCEPT ![Target(w)] = top[w]] ELSE cursor
    /\ Record(w, "success")

(* Mutants: an outcome outside the lifecycle; an outcome not recorded.     *)
FinishErrorUnknown(w) ==
    pc[w] = "failing" /\ Record(w, "failed") /\ UNCHANGED cursor

FinishErrorUnrecorded(w) ==
    pc[w] = "failing" /\ Record(w, phase[job[w]]) /\ UNCHANGED cursor

FinishError(w) ==
    pc[w] = "failing" /\ Record(w, "error") /\ UNCHANGED cursor

Acknowledge(w) ==
    /\ pc[w] = "committed"
    /\ Release(w)
    /\ UNCHANGED <<registry, phase, broker, dispatcher, lake, dropped, faults>>

(* A job wanting the row of a pipeline whose DELETE waits for the job's    *)
(* run: the database aborts one of the two.                                *)
LockCycle(w) ==
    /\ pc[w] = "loaded" /\ MovesCursor(w) /\ deleting[Target(w)]

JobIsVictim(w) == LockCycle(w) /\ Escape(w)

DeleteIsVictim(w) == LockCycle(w) /\ DeleteRollback(Target(w))

-----------------------------------------------------------------------------
(* Faults and the outside world.                                           *)

(* A worker process dies: its transaction rolls back and its message is    *)
(* delivered again.                                                        *)
Crash(w) ==
    /\ pc[w] # "idle" /\ faults < MaxFaults
    /\ Release(w)
    /\ queue' = queue \cup {job[w]}
    /\ faults' = faults + 1
    /\ UNCHANGED <<registry, phase, dead, dispatcher, lake, dropped>>

(* The broker takes a silent worker for dead and delivers its message to   *)
(* another one, while it is still executing.                               *)
Redeliver(w) ==
    /\ pc[w] # "idle" /\ faults < MaxFaults
    /\ queue' = queue \cup {job[w]}
    /\ faults' = faults + 1
    /\ UNCHANGED <<registry, phase, dead, dispatcher, lake, workers, dropped>>

RowArrives(p) ==
    /\ source[p] < MaxRows
    /\ source' = [source EXCEPT ![p] = @ + 1]
    /\ UNCHANGED <<registry, phase, broker, dispatcher, created, table,
                   workers, dropped, faults>>

-----------------------------------------------------------------------------
Finish(w) == FinishSuccess(w) \/ FinishError(w)

Progress(w) ==
    \/ \E r \in Runs : Receive(w, r)
    \/ Read(w) \/ ReadNothing(w) \/ RunVanished(w) \/ FlushRunning(w)
    \/ Extract(w) \/ OpenTable(w) \/ CreateTable(w) \/ WriteTable(w)
    \/ Acknowledge(w)

Deadlock(w) == JobIsVictim(w) \/ DeleteIsVictim(w)

Next ==
    \/ \E p \in Pipelines :
         \/ Create(p) \/ Update(p) \/ RowArrives(p) \/ DispatchSkip(p)
         \/ DeleteBegin(p) \/ DeleteCommit(p) \/ DeleteRollback(p)
    \/ \E r \in Runs :
         RunNow(r) \/ RequestCommits(r) \/ RequestRollsBack(r) \/ DispatchOne(r)
    \/ Heartbeat \/ DispatchCommits \/ DispatchRollsBack
    \/ \E w \in Workers :
         \/ Progress(w) \/ Finish(w) \/ StepFails(w) \/ Deadlock(w)
         \/ Crash(w) \/ Redeliver(w)

Spec == Init /\ [][Next]_vars

(* Worker threads keep running, transactions end, and the database breaks  *)
(* lock cycles.  Finishing is strongly fair: a job waiting for a row is in *)
(* the database's lock queue and is served before later requests.          *)
Fairness ==
    /\ \A w \in Workers :
         WF_vars(Progress(w)) /\ SF_vars(Finish(w)) /\ WF_vars(Deadlock(w))
    /\ \A r \in Runs : WF_vars(RequestCommits(r) \/ RequestRollsBack(r))
    /\ \A p \in Pipelines : WF_vars(DeleteCommit(p) \/ DispatchSkip(p))
    /\ WF_vars(DispatchCommits) /\ WF_vars(\E r \in Runs : DispatchOne(r))

FairSpec == Spec /\ Fairness

-----------------------------------------------------------------------------
(* No gap below the cursor.  As long as a pipeline was never configured to *)
(* overwrite, every source row up to the committed high-water mark is in   *)
(* its landing table, whatever crashes, redeliveries and concurrent runs   *)
(* happened: the next incremental extract never skips an unloaded row      *)
(* (pipeline_executor.py advances the cursor from the batch it loaded).    *)
CursorCovered ==
    \A p \in Pipelines : grows[p] => 1..cursor[p] \subseteq table[p]

(* Every committed run that is still "queued" is accounted for: its        *)
(* message waits, a worker has it, it was dead-lettered, or a worker took  *)
(* it before the row was committed and dropped it as not found.            *)
QueuedRunAccountedFor ==
    \A r \in Runs : phase[r] = "queued" =>
        \/ r \in queue \cup dead \cup dropped
        \/ \E w \in Workers : job[w] = r /\ pc[w] # "idle"

(* A run a worker has read is settled: it ends "success" or "error", or it *)
(* is deleted, or its message is dead-lettered; never left queued.         *)
ReadRunIsSettled ==
    \A r \in Runs :
        (\E w \in Workers : job[w] = r /\ pc[w] = "ready")
            ~> (phase[r] \in Terminal \cup {"gone"} \/ r \in dead)

(* "run_now records a queued PipelineRun and enqueues the worker actor     *)
(* that executes it" (services/pipelines.py): a queued run leaves that     *)
(* status, or at least its message is dead-lettered for an operator to see.*)
QueuedRunIsExecuted ==
    \A r \in Runs :
        phase[r] = "queued" ~> (phase[r] # "queued" \/ r \in dead)
=============================================================================
