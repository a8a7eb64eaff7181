------------------------ MODULE PipelineRuns_proofs ------------------------
(* What PipelineRuns satisfies for any number of pipelines, runs, workers, *)
(* rows and faults.                                                        *)
EXTENDS PipelineRuns, TLAPS

-----------------------------------------------------------------------------
(* Type correctness.                                                       *)

LEMMA PlaceholderType == Placeholder \in Dispositions
BY KnownDispositions DEF Placeholder

LEMMA TargetType ==
    ASSUME TypeOK, NEW w \in Workers, pc[w] # "idle"
    PROVE  job[w] \in Runs /\ Target(w) \in Pipelines
BY RunOwnership DEF TypeOK, Target

(* The steps of PipelineRuns keep every variable in its type.              *)
THEOREM TypeCorrect == Spec => []TypeOK
<1> USE RunOwnership, BoundsAreNaturals, PlaceholderType
<1>1. Init => TypeOK
  <2> SUFFICES ASSUME Init PROVE TypeOK
    OBVIOUS
  <2>1. grows \in [Pipelines -> BOOLEAN]
    BY Zenon DEF Init
  <2>2. job \in [Workers -> Runs \cup {NoRun}]
    BY DEF Init
  <2>3. /\ stage \in [Pipelines -> {"absent", "live", "deleted"}]
        /\ enabled \in [Pipelines -> BOOLEAN]
        /\ disp \in [Pipelines -> Dispositions]
        /\ cursor \in [Pipelines -> 0..MaxRows]
        /\ deleting \in [Pipelines -> BOOLEAN]
        /\ phase \in [Runs -> {"unused", "open", "gone"} \cup Committed]
    BY DEF Init
  <2>4. /\ queue \subseteq Runs /\ dead \subseteq Runs
        /\ todo \subseteq Pipelines
        /\ made \subseteq Runs /\ dropped \subseteq Runs
        /\ faults \in 0..MaxFaults
    BY DEF Init
  <2>5. /\ source \in [Pipelines -> 0..MaxRows]
        /\ created \in [Pipelines -> BOOLEAN]
        /\ table \in [Pipelines -> SUBSET Rows]
    BY DEF Init
  <2>6. /\ pc \in [Workers -> Steps]
        /\ \A w \in Workers : pc[w] = "idle"
        /\ mark \in [Workers -> 0..MaxRows]
        /\ mode \in [Workers -> Dispositions]
        /\ top \in [Workers -> 0..MaxRows]
        /\ fresh \in [Workers -> BOOLEAN]
    BY DEF Init, Steps
  <2>7. ticking \in BOOLEAN
    BY Zenon DEF Init
  <2> QED
    BY <2>1, <2>2, <2>3, <2>4, <2>5, <2>6, <2>7 DEF TypeOK
<1>2. TypeOK /\ [Next]_vars => TypeOK'
  <2> SUFFICES ASSUME TypeOK, [Next]_vars PROVE TypeOK'
    OBVIOUS
  <2> USE DEF TypeOK, Committed, registry, broker, dispatcher, lake, reading,
              workers, Become, Steps, Locking
  <2>1. ASSUME NEW p \in Pipelines,
               \/ Create(p) \/ Update(p) \/ RowArrives(p) \/ DispatchSkip(p)
               \/ DeleteBegin(p) \/ DeleteCommit(p) \/ DeleteRollback(p)
        PROVE  TypeOK'
    <3>1. CASE Create(p)         BY <3>1 DEF Create
    <3>2. CASE Update(p)         BY <3>2 DEF Update
    <3>3. CASE RowArrives(p)     BY <3>3 DEF RowArrives
    <3>4. CASE DispatchSkip(p)   BY <3>4 DEF DispatchSkip
    <3>5. CASE DeleteBegin(p)    BY <3>5 DEF DeleteBegin
    <3>6. CASE DeleteCommit(p)   BY <3>6 DEF DeleteCommit, CascadeDelete
    <3>7. CASE DeleteRollback(p) BY <3>7 DEF DeleteRollback
    <3> QED BY <2>1, <3>1, <3>2, <3>3, <3>4, <3>5, <3>6, <3>7
  <2>2. ASSUME NEW r \in Runs,
               \/ RunNow(r) \/ RequestCommits(r) \/ RequestRollsBack(r)
               \/ DispatchOne(r)
        PROVE  TypeOK'
    <3>1. CASE RunNow(r)           BY <3>1 DEF RunNow, InsertAndEnqueue
    <3>2. CASE RequestCommits(r)   BY <3>2 DEF RequestCommits
    <3>3. CASE RequestRollsBack(r) BY <3>3 DEF RequestRollsBack
    <3>4. CASE DispatchOne(r)      BY <3>4 DEF DispatchOne, InsertAndEnqueue
    <3> QED BY <2>2, <3>1, <3>2, <3>3, <3>4
  <2>3. CASE Heartbeat         BY <2>3 DEF Heartbeat
  <2>4. CASE DispatchCommits   BY <2>4 DEF DispatchCommits, EndHeartbeat
  <2>5. CASE DispatchRollsBack BY <2>5 DEF DispatchRollsBack, EndHeartbeat
  <2>6. ASSUME NEW w \in Workers,
               \/ Progress(w) \/ Finish(w) \/ StepFails(w) \/ Deadlock(w)
               \/ Crash(w) \/ Redeliver(w)
        PROVE  TypeOK'
    <3> USE DEF Release, Forget
    <3>1. ASSUME NEW r \in Runs, Receive(w, r) PROVE TypeOK'
      BY <3>1 DEF Receive
    <3>2. CASE Read(w)
      BY <3>2, TargetType DEF Read
    <3>3. CASE ReadNothing(w)
      BY <3>3 DEF ReadNothing
    <3>4. CASE RunVanished(w)
      BY <3>4 DEF RunVanished, Escape
    <3>5. CASE FlushRunning(w)
      BY <3>5 DEF FlushRunning, StartRunning
    <3>6. CASE Extract(w)
      BY <3>6, TargetType DEF Extract
    <3>7. CASE OpenTable(w)
      BY <3>7, TargetType DEF OpenTable
    <3>8. CASE CreateTable(w)
      BY <3>8, TargetType DEF CreateTable
    <3>9. CASE WriteTable(w)
      <4>1. Target(w) \in Pipelines
        BY <3>9, TargetType DEF WriteTable
      <4>2. Batch(w) \subseteq Rows
        BY DEF Batch, Rows
      <4>3. CASE fresh[w]
        <5>1. /\ Land(w) /\ Become(w, "loaded")
              /\ fresh' = [v \in Workers |-> fresh[v] /\ Target(v) # Target(w)]
              /\ UNCHANGED <<registry, phase, broker, dispatcher, source,
                             created, job, reading, dropped, faults>>
          BY <3>9, <4>3 DEF WriteTable
        <5>2. fresh' \in [Workers -> BOOLEAN]
          BY <5>1, Zenon
        <5>3. table' \in [Pipelines -> SUBSET Rows]
          BY <4>1, <4>2, <5>1 DEF Land
        <5> HIDE DEF Land
        <5> QED BY <3>9, <5>1, <5>2, <5>3 DEF WriteTable
      <4>4. CASE ~fresh[w]
        BY <3>9, <4>4 DEF WriteTable
      <4> QED BY <4>3, <4>4
    <3>10. CASE Acknowledge(w)
      BY <3>10 DEF Acknowledge
    <3>11. CASE FinishSuccess(w)
      BY <3>11, TargetType DEF FinishSuccess, Record
    <3>12. CASE FinishError(w)
      BY <3>12 DEF FinishError, Record
    <3>13. CASE StepFails(w)
      BY <3>13 DEF StepFails
    <3>14. CASE JobIsVictim(w)
      BY <3>14 DEF JobIsVictim, LockCycle, Escape
    <3>15. CASE DeleteIsVictim(w)
      BY <3>15 DEF DeleteIsVictim, DeleteRollback
    <3>16. CASE Crash(w)
      BY <3>16 DEF Crash
    <3>17. CASE Redeliver(w)
      BY <3>17 DEF Redeliver
    <3> QED
      BY <2>6, <3>1, <3>2, <3>3, <3>4, <3>5, <3>6, <3>7, <3>8, <3>9, <3>10,
         <3>11, <3>12, <3>13, <3>14, <3>15, <3>16, <3>17
      DEF Progress, Finish, Deadlock
  <2>7. CASE UNCHANGED vars
    BY <2>7 DEF vars
  <2> QED
    BY <2>1, <2>2, <2>3, <2>4, <2>5, <2>6, <2>7 DEF Next
<1> QED
  BY <1>1, <1>2, PTL DEF Spec

-----------------------------------------------------------------------------
(* The lifecycle of runs.  The two invariants of the runs need three more  *)
(* facts: the heartbeat's runs are uncommitted until it ends, a worker only *)
(* writes to a run whose row is there, and a job that has committed leaves *)
(* its run settled.                                                        *)

(* Two deliveries of one run never execute side by side: the flush of      *)
(* status = "running" before the first step serialises them.               *)
OneExecutionPerRun ==
    \A v, w \in Workers : v # w /\ pc[v] \in Locking /\ pc[w] \in Locking
        => job[v] # job[w]

LockedRunExists ==
    \A w \in Workers : pc[w] \in Locking => phase[job[w]] \in Committed

MadeRunsAreOpen == \A r \in made : phase[r] = "open"

PendingRunAccountedFor ==
    \A r \in Runs : phase[r] \in {"open", "queued"} =>
        \/ r \in queue \cup dead \cup dropped
        \/ \E w \in Workers : job[w] = r /\ pc[w] # "idle"

CommittedJobIsSettled ==
    \A w \in Workers :
        pc[w] = "committed" => phase[job[w]] \in Terminal \cup {"gone"}

RunInv ==
    /\ MadeRunsAreOpen
    /\ OneExecutionPerRun
    /\ LockedRunExists
    /\ PendingRunAccountedFor
    /\ CommittedJobIsSettled

LEMMA RunInvInit == Init => RunInv
BY DEF Init, RunInv, MadeRunsAreOpen, OneExecutionPerRun, LockedRunExists,
       PendingRunAccountedFor, CommittedJobIsSettled, Locking

LEMMA RunInvStep == TypeOK /\ RunInv /\ [Next]_vars => RunInv'
<1> SUFFICES ASSUME TypeOK, RunInv, [Next]_vars PROVE RunInv'
  OBVIOUS
<1> USE DEF TypeOK, RunInv, MadeRunsAreOpen, OneExecutionPerRun,
            LockedRunExists, PendingRunAccountedFor, CommittedJobIsSettled,
            Committed, Terminal, Steps, Locking, Become,
            registry, broker, dispatcher, lake, reading, workers
<1>1. ASSUME NEW p \in Pipelines,
             \/ Create(p) \/ Update(p) \/ RowArrives(p) \/ DispatchSkip(p)
             \/ DeleteBegin(p) \/ DeleteCommit(p) \/ DeleteRollback(p)
      PROVE  RunInv'
  <2>1. CASE Create(p)         BY <2>1 DEF Create
  <2>2. CASE Update(p)         BY <2>2 DEF Update
  <2>3. CASE RowArrives(p)     BY <2>3 DEF RowArrives
  <2>4. CASE DispatchSkip(p)   BY <2>4 DEF DispatchSkip
  <2>5. CASE DeleteBegin(p)    BY <2>5 DEF DeleteBegin
  <2>6. CASE DeleteCommit(p)   BY <2>6 DEF DeleteCommit, CascadeDelete, Holds
  <2>7. CASE DeleteRollback(p) BY <2>7 DEF DeleteRollback
  <2> QED BY <1>1, <2>1, <2>2, <2>3, <2>4, <2>5, <2>6, <2>7
<1>2. ASSUME NEW r \in Runs,
             \/ RunNow(r) \/ RequestCommits(r) \/ RequestRollsBack(r)
             \/ DispatchOne(r)
      PROVE  RunInv'
  <2>1. CASE RunNow(r)           BY <2>1 DEF RunNow, InsertAndEnqueue
  <2>2. CASE RequestCommits(r)   BY <2>2 DEF RequestCommits
  <2>3. CASE RequestRollsBack(r) BY <2>3 DEF RequestRollsBack
  <2>4. CASE DispatchOne(r)      BY <2>4 DEF DispatchOne, InsertAndEnqueue
  <2> QED BY <1>2, <2>1, <2>2, <2>3, <2>4
<1>3. CASE Heartbeat         BY <1>3 DEF Heartbeat
<1>4. CASE DispatchCommits   BY <1>4 DEF DispatchCommits, EndHeartbeat
<1>5. CASE DispatchRollsBack BY <1>5 DEF DispatchRollsBack, EndHeartbeat
<1>6. ASSUME NEW w \in Workers,
             \/ Progress(w) \/ Finish(w) \/ StepFails(w) \/ Deadlock(w)
             \/ Crash(w) \/ Redeliver(w)
      PROVE  RunInv'
  <2>1. ASSUME NEW r \in Runs, Receive(w, r) PROVE RunInv'
    BY <2>1 DEF Receive
  <2>2. CASE Read(w)           BY <2>2 DEF Read
  <2>3. CASE ReadNothing(w)    BY <2>3 DEF ReadNothing, Release
  <2>4. CASE RunVanished(w)    BY <2>4 DEF RunVanished, Escape, Release
  <2>5. CASE FlushRunning(w)
    BY <2>5 DEF FlushRunning, StartRunning, Holds
  <2>6. CASE Extract(w)        BY <2>6 DEF Extract
  <2>7. CASE OpenTable(w)      BY <2>7 DEF OpenTable
  <2>8. CASE CreateTable(w)    BY <2>8 DEF CreateTable
  <2>9. CASE WriteTable(w)     BY <2>9 DEF WriteTable
  <2>10. CASE Acknowledge(w)   BY <2>10 DEF Acknowledge, Release
  <2>11. CASE FinishSuccess(w) BY <2>11 DEF FinishSuccess, Record
  <2>12. CASE FinishError(w)   BY <2>12 DEF FinishError, Record
  <2>13. CASE StepFails(w)     BY <2>13 DEF StepFails
  <2>14. CASE JobIsVictim(w)
    BY <2>14 DEF JobIsVictim, LockCycle, Escape, Release
  <2>15. CASE DeleteIsVictim(w)
    BY <2>15 DEF DeleteIsVictim, DeleteRollback
  <2>16. CASE Crash(w)         BY <2>16 DEF Crash, Release
  <2>17. CASE Redeliver(w)     BY <2>17 DEF Redeliver
  <2> QED
    BY <1>6, <2>1, <2>2, <2>3, <2>4, <2>5, <2>6, <2>7, <2>8, <2>9, <2>10,
       <2>11, <2>12, <2>13, <2>14, <2>15, <2>16, <2>17
    DEF Progress, Finish, Deadlock
<1>7. CASE UNCHANGED vars
  BY <1>7 DEF vars
<1> QED
  BY <1>1, <1>2, <1>3, <1>4, <1>5, <1>6, <1>7 DEF Next

(* Deliveries of one run never execute side by side, a worker only writes  *)
(* to a run whose row is there, and no committed queued run is forgotten.  *)
THEOREM RunsAreSafe ==
    Spec => [](OneExecutionPerRun /\ LockedRunExists /\ QueuedRunAccountedFor)
<1>1. RunInv => OneExecutionPerRun /\ LockedRunExists /\ QueuedRunAccountedFor
  BY DEF RunInv, PendingRunAccountedFor, QueuedRunAccountedFor
<1> QED
  BY <1>1, TypeCorrect, RunInvInit, RunInvStep, PTL DEF Spec

(* Whatever crashes and rolls back, a committed run that is still queued   *)
(* has its message in the queue, in a worker's hands or with the dead      *)
(* letters, or a worker met it before it was committed.                    *)
THEOREM QueuedRunsAreAccountedFor == Spec => []QueuedRunAccountedFor
BY RunsAreSafe, PTL

-----------------------------------------------------------------------------
(* Nothing happens to a pipeline before it is created.                     *)

Unborn ==
    /\ \A p \in Pipelines : stage[p] = "absent" => cursor[p] = 0
    /\ \A r \in Runs :
         stage[PipelineOf[r]] = "absent" => phase[r] = "unused"
    /\ \A r \in queue : phase[r] # "unused"
    /\ \A w \in Workers : pc[w] # "idle" => phase[job[w]] # "unused"

LEMMA UnbornStep == TypeOK /\ RunInv /\ Unborn /\ [Next]_vars => Unborn'
<1> SUFFICES ASSUME TypeOK, MadeRunsAreOpen, Unborn, [Next]_vars PROVE Unborn'
  BY DEF RunInv
<1> USE RunOwnership
    DEF TypeOK, Unborn, Committed, Steps, Locking, Become,
        registry, broker, dispatcher, lake, reading, workers
<1>1. ASSUME NEW p \in Pipelines,
             \/ Create(p) \/ Update(p) \/ RowArrives(p) \/ DispatchSkip(p)
             \/ DeleteBegin(p) \/ DeleteCommit(p) \/ DeleteRollback(p)
      PROVE  Unborn'
  <2>1. CASE Create(p)         BY <2>1 DEF Create
  <2>2. CASE Update(p)         BY <2>2 DEF Update
  <2>3. CASE RowArrives(p)     BY <2>3 DEF RowArrives
  <2>4. CASE DispatchSkip(p)   BY <2>4 DEF DispatchSkip
  <2>5. CASE DeleteBegin(p)    BY <2>5 DEF DeleteBegin
  <2>6. CASE DeleteCommit(p)   BY <2>6 DEF DeleteCommit, CascadeDelete
  <2>7. CASE DeleteRollback(p) BY <2>7 DEF DeleteRollback
  <2> QED BY <1>1, <2>1, <2>2, <2>3, <2>4, <2>5, <2>6, <2>7
<1>2. ASSUME NEW r \in Runs,
             \/ RunNow(r) \/ RequestCommits(r) \/ RequestRollsBack(r)
             \/ DispatchOne(r)
      PROVE  Unborn'
  <2>1. CASE RunNow(r)
    BY <2>1 DEF RunNow, Runnable, InsertAndEnqueue
  <2>2. CASE RequestCommits(r)   BY <2>2 DEF RequestCommits
  <2>3. CASE RequestRollsBack(r) BY <2>3 DEF RequestRollsBack
  <2>4. CASE DispatchOne(r)
    BY <2>4 DEF DispatchOne, Runnable, InsertAndEnqueue
  <2> QED BY <1>2, <2>1, <2>2, <2>3, <2>4
<1>3. CASE Heartbeat
  BY <1>3 DEF Heartbeat
<1>4. CASE DispatchCommits
  BY <1>4 DEF DispatchCommits, EndHeartbeat, MadeRunsAreOpen
<1>5. CASE DispatchRollsBack
  BY <1>5 DEF DispatchRollsBack, EndHeartbeat, MadeRunsAreOpen
<1>6. ASSUME NEW w \in Workers,
             \/ Progress(w) \/ Finish(w) \/ StepFails(w) \/ Deadlock(w)
             \/ Crash(w) \/ Redeliver(w)
      PROVE  Unborn'
  <2>1. ASSUME NEW r \in Runs, Receive(w, r) PROVE Unborn'
    BY <2>1 DEF Receive
  <2>2. CASE Read(w)           BY <2>2 DEF Read
  <2>3. CASE ReadNothing(w)    BY <2>3 DEF ReadNothing, Release
  <2>4. CASE RunVanished(w)    BY <2>4 DEF RunVanished, Escape, Release
  <2>5. CASE FlushRunning(w)   BY <2>5 DEF FlushRunning, StartRunning
  <2>6. CASE Extract(w)        BY <2>6 DEF Extract
  <2>7. CASE OpenTable(w)      BY <2>7 DEF OpenTable
  <2>8. CASE CreateTable(w)    BY <2>8 DEF CreateTable
  <2>9. CASE WriteTable(w)     BY <2>9 DEF WriteTable
  <2>10. CASE Acknowledge(w)   BY <2>10 DEF Acknowledge, Release
  <2>11. CASE FinishSuccess(w)
    BY <2>11, TargetType DEF FinishSuccess, Record, Target
  <2>12. CASE FinishError(w)   BY <2>12 DEF FinishError, Record
  <2>13. CASE StepFails(w)     BY <2>13 DEF StepFails
  <2>14. CASE JobIsVictim(w)
    BY <2>14 DEF JobIsVictim, LockCycle, Escape, Release
  <2>15. CASE DeleteIsVictim(w)
    BY <2>15 DEF DeleteIsVictim, DeleteRollback
  <2>16. CASE Crash(w)         BY <2>16 DEF Crash, Release
  <2>17. CASE Redeliver(w)     BY <2>17 DEF Redeliver
  <2> QED
    BY <1>6, <2>1, <2>2, <2>3, <2>4, <2>5, <2>6, <2>7, <2>8, <2>9, <2>10,
       <2>11, <2>12, <2>13, <2>14, <2>15, <2>16, <2>17
    DEF Progress, Finish, Deadlock
<1>7. CASE UNCHANGED vars
  BY <1>7 DEF vars
<1> QED
  BY <1>1, <1>2, <1>3, <1>4, <1>5, <1>6, <1>7 DEF Next

-----------------------------------------------------------------------------
(* The cursor.  Of a pipeline that always grew: a job's mark and, once it  *)
(* is loaded, its whole batch are in the table, which the worker that      *)
(* creates the table must find empty and which no later writer may shrink. *)

NeverOverwrites == \A p \in Pipelines : grows[p] => disp[p] # "overwrite"

EmptyUntilCreated == \A p \in Pipelines : ~created[p] => table[p] = {}

WritersHaveTheTable ==
    \A w \in Workers :
        /\ pc[w] \in {"opened", "seeding", "loaded"} => created[Target(w)]
        /\ pc[w] = "seeding" /\ fresh[w] => table[Target(w)] = {}

MarkCovered ==
    \A w \in Workers :
        pc[w] \in {"ready"} \cup (Locking \ {"failing"}) /\ grows[Target(w)]
          => mode[w] # "overwrite" /\ 1..mark[w] \subseteq table[Target(w)]

LoadedCovered ==
    \A w \in Workers :
        pc[w] = "loaded" /\ grows[Target(w)] =>
            1..top[w] \subseteq table[Target(w)]

CursorInv ==
    /\ CursorCovered
    /\ NeverOverwrites
    /\ EmptyUntilCreated
    /\ WritersHaveTheTable
    /\ MarkCovered
    /\ LoadedCovered

LEMMA CursorInvInit == Init => Unborn /\ CursorInv
<1> SUFFICES ASSUME Init PROVE Unborn /\ CursorInv
  OBVIOUS
<1>1. Unborn
  BY RunOwnership DEF Init, Unborn
<1>2. CursorCovered
  BY DEF Init, CursorCovered
<1>3. NeverOverwrites /\ EmptyUntilCreated
  BY DEF Init, NeverOverwrites, EmptyUntilCreated
<1>4. WritersHaveTheTable /\ MarkCovered /\ LoadedCovered
  BY DEF Init, WritersHaveTheTable, MarkCovered, LoadedCovered, Locking
<1> QED
  BY <1>1, <1>2, <1>3, <1>4 DEF CursorInv

(* What CursorInv speaks of.                                               *)
cursorVars == <<cursor, grows, disp, created, table, pc, job, mark, mode, top,
                fresh>>

LEMMA CursorInvFrame == CursorInv /\ UNCHANGED cursorVars => CursorInv'
BY DEF CursorInv, cursorVars, CursorCovered, NeverOverwrites,
       EmptyUntilCreated, WritersHaveTheTable, MarkCovered, LoadedCovered,
       Target, Locking

(* A job that leaves its steps, or fails, has no more obligations.         *)
LEMMA CursorInvLeave ==
    ASSUME TypeOK, CursorInv, NEW w \in Workers,
           UNCHANGED <<grows, disp, created, table>>,
           UNCHANGED cursor \/ CursorCovered',
           NEW step \in {"idle", "committed", "failing"},
           pc' = [pc EXCEPT ![w] = step],
           \A v \in Workers \ {w} :
               /\ job'[v] = job[v] /\ mark'[v] = mark[v]
               /\ mode'[v] = mode[v] /\ top'[v] = top[v]
               /\ fresh'[v] = fresh[v]
    PROVE  CursorInv'
<1>1. CursorCovered' /\ NeverOverwrites' /\ EmptyUntilCreated'
  BY DEF CursorInv, CursorCovered, NeverOverwrites, EmptyUntilCreated
<1>2. \A v \in Workers :
        pc'[v] \in {"ready"} \cup (Locking \ {"failing"}) => v # w
  BY DEF TypeOK, Locking
<1>3. \A v \in Workers : v # w =>
        /\ Target(v)' = Target(v) /\ pc'[v] = pc[v] /\ mark'[v] = mark[v]
        /\ mode'[v] = mode[v] /\ top'[v] = top[v] /\ fresh'[v] = fresh[v]
  BY DEF TypeOK, Target
<1>4. WritersHaveTheTable'
  BY <1>2, <1>3 DEF CursorInv, WritersHaveTheTable, Locking
<1>5. MarkCovered' /\ LoadedCovered'
  BY <1>2, <1>3 DEF CursorInv, MarkCovered, LoadedCovered, Locking
<1> QED
  BY <1>1, <1>4, <1>5 DEF CursorInv

LEMMA CursorInvStep ==
    TypeOK /\ Unborn /\ CursorInv /\ [Next]_vars => CursorInv'
<1> SUFFICES ASSUME TypeOK, Unborn, CursorInv, [Next]_vars PROVE CursorInv'
  OBVIOUS
<1> USE DEF registry, broker, dispatcher, lake, reading, workers
<1>1. ASSUME NEW p \in Pipelines,
             \/ Create(p) \/ Update(p) \/ RowArrives(p) \/ DispatchSkip(p)
             \/ DeleteBegin(p) \/ DeleteCommit(p) \/ DeleteRollback(p)
      PROVE  CursorInv'
  <2>1. CASE Create(p)
    <3>1. \A w \in Workers : pc[w] # "idle" => Target(w) # p
      BY <2>1, TargetType DEF Create, Unborn, Target
    <3>2. cursor[p] = 0
      BY <2>1 DEF Create, Unborn
    <3>3. /\ UNCHANGED <<cursor, created, table, pc, job, mark, mode, top,
                         fresh>>
          /\ \A q \in Pipelines :
               q # p => grows'[q] = grows[q] /\ disp'[q] = disp[q]
          /\ grows'[p] => disp'[p] # "overwrite"
      BY <2>1 DEF Create, TypeOK
    <3>4. \A w \in Workers :
            pc[w] # "idle" => /\ Target(w)' = Target(w)
                              /\ grows'[Target(w)] = grows[Target(w)]
      BY <3>1, <3>3, TargetType DEF Target
    <3>5. CursorCovered' /\ NeverOverwrites' /\ EmptyUntilCreated'
      BY <3>2, <3>3
      DEF CursorInv, CursorCovered, NeverOverwrites, EmptyUntilCreated
    <3>6. WritersHaveTheTable' /\ MarkCovered' /\ LoadedCovered'
      BY <3>3, <3>4
      DEF CursorInv, WritersHaveTheTable, MarkCovered, LoadedCovered, Locking,
          Target
    <3> QED
      BY <3>5, <3>6 DEF CursorInv
  <2>2. CASE Update(p)
    <3>1. /\ UNCHANGED <<cursor, created, table, pc, job, mark, mode, top,
                         fresh>>
          /\ \A q \in Pipelines :
               grows'[q] => grows[q] /\ disp'[q] # "overwrite"
      BY <2>2 DEF Update, TypeOK, CursorInv, NeverOverwrites
    <3>2. \A w \in Workers :
            pc[w] # "idle" => Target(w)' = Target(w) /\ Target(w) \in Pipelines
      BY <3>1, TargetType DEF Target
    <3>3. CursorCovered' /\ NeverOverwrites' /\ EmptyUntilCreated'
      BY <3>1 DEF CursorInv, CursorCovered, NeverOverwrites, EmptyUntilCreated
    <3>4. WritersHaveTheTable' /\ MarkCovered' /\ LoadedCovered'
      BY <3>1, <3>2
      DEF CursorInv, WritersHaveTheTable, MarkCovered, LoadedCovered, Locking,
          Target
    <3> QED
      BY <3>3, <3>4 DEF CursorInv
  <2> USE CursorInvFrame DEF cursorVars
  <2>3. CASE RowArrives(p)     BY <2>3 DEF RowArrives
  <2>4. CASE DispatchSkip(p)   BY <2>4 DEF DispatchSkip
  <2>5. CASE DeleteBegin(p)    BY <2>5 DEF DeleteBegin
  <2>6. CASE DeleteCommit(p)   BY <2>6 DEF DeleteCommit, CascadeDelete
  <2>7. CASE DeleteRollback(p) BY <2>7 DEF DeleteRollback
  <2> QED BY <1>1, <2>1, <2>2, <2>3, <2>4, <2>5, <2>6, <2>7
<1>2. ASSUME NEW r \in Runs,
             \/ RunNow(r) \/ RequestCommits(r) \/ RequestRollsBack(r)
             \/ DispatchOne(r)
      PROVE  CursorInv'
  BY <1>2, CursorInvFrame
  DEF RunNow, RequestCommits, RequestRollsBack, DispatchOne, cursorVars
<1>3. CASE Heartbeat \/ DispatchCommits \/ DispatchRollsBack
  BY <1>3, CursorInvFrame
  DEF Heartbeat, DispatchCommits, DispatchRollsBack, EndHeartbeat, cursorVars
<1>4. ASSUME NEW w \in Workers,
             \/ Progress(w) \/ Finish(w) \/ StepFails(w) \/ Deadlock(w)
             \/ Crash(w) \/ Redeliver(w)
      PROVE  CursorInv'
  <2>1. ASSUME NEW r \in Runs, Receive(w, r) PROVE CursorInv'
    <3>1. /\ UNCHANGED <<cursor, grows, disp, created, table, mark, mode, top,
                         fresh>>
          /\ pc'[w] = "received"
          /\ \A v \in Workers : v # w => pc'[v] = pc[v] /\ job'[v] = job[v]
      BY <2>1 DEF Receive, Become, TypeOK
    <3> QED
      BY <3>1
      DEF CursorInv, CursorCovered, NeverOverwrites, EmptyUntilCreated,
          WritersHaveTheTable, MarkCovered, LoadedCovered, Target, Locking
  <2>2. CASE Read(w)
    <3>1. /\ UNCHANGED <<cursor, grows, disp, created, table, job, top, fresh>>
          /\ pc'[w] = "ready" /\ Target(w) \in Pipelines
          /\ mark'[w] = cursor[Target(w)] /\ mode'[w] = disp[Target(w)]
          /\ \A v \in Workers : v # w =>
               pc'[v] = pc[v] /\ mark'[v] = mark[v] /\ mode'[v] = mode[v]
      BY <2>2, TargetType DEF Read, Become, TypeOK
    <3> QED
      BY <3>1
      DEF CursorInv, CursorCovered, NeverOverwrites, EmptyUntilCreated,
          WritersHaveTheTable, MarkCovered, LoadedCovered, Target, Locking
  <2>3. ASSUME NEW step \in {"running", "extracted"},
               pc[w] \in {"ready", "running"},
               pc' = [pc EXCEPT ![w] = step],
               \A v \in Workers : v # w => top'[v] = top[v],
               UNCHANGED <<cursor, grows, disp, created, table, job, mark,
                           mode, fresh>>
        PROVE  CursorInv'
    <3>1. pc'[w] = step /\ \A v \in Workers : v # w => pc'[v] = pc[v]
      BY <2>3 DEF TypeOK
    <3> QED
      BY <2>3, <3>1
      DEF CursorInv, CursorCovered, NeverOverwrites, EmptyUntilCreated,
          WritersHaveTheTable, MarkCovered, LoadedCovered, Target, Locking
  <2>4. CASE FlushRunning(w)
    BY <2>4, <2>3 DEF FlushRunning, StartRunning, Become
  <2>5. CASE Extract(w)
    <3>1. \A v \in Workers : v # w => top'[v] = top[v]
      BY <2>5 DEF Extract, TypeOK
    <3> QED
      BY <2>5, <2>3, <3>1 DEF Extract, Become
  <2>6. CASE OpenTable(w)
    <3>1. /\ UNCHANGED <<cursor, grows, disp, created, table, job, mark, mode,
                         top>>
          /\ pc[w] = "extracted" /\ pc'[w] \in {"opened", "creating"}
          /\ pc'[w] = "opened" => created[Target(w)]
          /\ \A v \in Workers : v # w => pc'[v] = pc[v] /\ fresh'[v] = fresh[v]
      BY <2>6 DEF OpenTable, Become, TypeOK
    <3> QED
      BY <3>1
      DEF CursorInv, CursorCovered, NeverOverwrites, EmptyUntilCreated,
          WritersHaveTheTable, MarkCovered, LoadedCovered, Target, Locking
  <2>7. CASE CreateTable(w)
    <3>1. /\ UNCHANGED <<cursor, grows, disp, table, job, mark, mode, top>>
          /\ pc[w] = "creating" /\ Target(w) \in Pipelines
          /\ pc'[w] \in {"seeding", "failing"}
          /\ pc'[w] = "seeding" => ~created[Target(w)]
          /\ created'[Target(w)]
          /\ \A p \in Pipelines : created[p] => created'[p]
          /\ \A v \in Workers : v # w => pc'[v] = pc[v] /\ fresh'[v] = fresh[v]
      BY <2>7, TargetType DEF CreateTable, Become, TypeOK
    <3>2. \A v \in Workers : pc[v] # "idle" => Target(v) \in Pipelines
      BY TargetType
    <3>3. CursorCovered' /\ NeverOverwrites' /\ EmptyUntilCreated'
      BY <3>1 DEF CursorInv, CursorCovered, NeverOverwrites, EmptyUntilCreated
    <3>4. WritersHaveTheTable'
      BY <3>1, <3>2
      DEF CursorInv, EmptyUntilCreated, WritersHaveTheTable, Target
    <3>5. MarkCovered' /\ LoadedCovered'
      BY <3>1 DEF CursorInv, MarkCovered, LoadedCovered, Target, Locking
    <3> QED
      BY <3>3, <3>4, <3>5 DEF CursorInv
  <2>8. CASE WriteTable(w)
    <3> DEFINE p == Target(w)
    <3>1. p \in Pipelines
      BY <2>8, TargetType DEF WriteTable
    <3>2. CASE ~fresh[w]
      <4>1. /\ pc' = [pc EXCEPT ![w] = "failing"]
            /\ UNCHANGED <<cursor, grows, disp, created, table, job, mark, mode,
                           top, fresh>>
        BY <2>8, <3>2 DEF WriteTable, Become
      <4> QED
        BY <4>1, CursorInvLeave
    <3>3. CASE fresh[w]
      <4>1. /\ Land(w) /\ pc' = [pc EXCEPT ![w] = "loaded"]
            /\ fresh' = [v \in Workers |-> fresh[v] /\ Target(v) # Target(w)]
            /\ pc[w] \in {"opened", "seeding"}
            /\ UNCHANGED <<cursor, grows, disp, created, job, mark, mode, top>>
        BY <2>8, <3>3 DEF WriteTable, Become
      <4>2. \A v \in Workers : fresh'[v] => fresh[v] /\ Target(v) # Target(w)
        BY <4>1, Zenon
      <4>3. pc'[w] = "loaded" /\ \A v \in Workers : v # w => pc'[v] = pc[v]
        BY <4>1 DEF TypeOK
      <4>4. \A q \in Pipelines : q # p => table'[q] = table[q]
        BY <4>1 DEF Land, TypeOK
      <4>5. grows[p] => /\ table[p] \subseteq table'[p]
                        /\ 1..top[w] \subseteq table'[p]
        <5> SUFFICES ASSUME grows[p]
                     PROVE  /\ table[p] \subseteq table'[p]
                            /\ 1..top[w] \subseteq table'[p]
          OBVIOUS
        <5>1. mode[w] # "overwrite" /\ 1..mark[w] \subseteq table[p]
          BY <4>1 DEF CursorInv, MarkCovered, Locking
        <5>2. mark[w] \in Nat /\ top[w] \in Nat
          BY BoundsAreNaturals DEF TypeOK
        <5>3. CASE pc[w] = "seeding"
          <6>1. table[p] = {} /\ table'[p] = Batch(w)
            BY <3>1, <3>3, <4>1, <5>3
            DEF CursorInv, WritersHaveTheTable, Land, TypeOK
          <6>2. mark[w] = 0
            BY <5>1, <5>2, <6>1
          <6> QED
            BY <5>2, <6>1, <6>2 DEF Batch
        <5>4. CASE pc[w] # "seeding"
          <6>1. table'[p] = table[p] \cup Batch(w)
            BY <3>1, <4>1, <5>1, <5>4 DEF Land, TypeOK
          <6> QED
            BY <5>1, <5>2, <6>1 DEF Batch
        <5> QED
          BY <5>3, <5>4
      <4>6. \A q \in Pipelines : grows[q] => table[q] \subseteq table'[q]
        BY <4>4, <4>5
      <4>7. \A v \in Workers : Target(v)' = Target(v)
        BY <4>1 DEF Target
      <4>8. \A v \in Workers : pc[v] # "idle" => Target(v) \in Pipelines
        BY TargetType
      <4>9. CursorCovered' /\ NeverOverwrites'
        BY <4>1, <4>6 DEF CursorInv, CursorCovered, NeverOverwrites
      <4>10. created[p]
        BY <4>1 DEF CursorInv, WritersHaveTheTable
      <4>11. EmptyUntilCreated'
        BY <4>1, <4>4, <4>10 DEF CursorInv, EmptyUntilCreated
      <4>12. WritersHaveTheTable'
        BY <4>1, <4>2, <4>3, <4>4, <4>7, <4>8, <4>10
        DEF CursorInv, WritersHaveTheTable
      <4>13. MarkCovered' /\ LoadedCovered'
        BY <4>1, <4>3, <4>5, <4>6, <4>7, <4>8
        DEF CursorInv, MarkCovered, LoadedCovered, Locking
      <4> QED
        BY <4>9, <4>11, <4>12, <4>13 DEF CursorInv
    <3> QED
      BY <3>2, <3>3
  <2>9. CASE FinishSuccess(w)
    <3>1. Target(w) \in Pipelines /\ pc[w] = "loaded"
      BY <2>9, TargetType DEF FinishSuccess
    <3>2. /\ UNCHANGED <<grows, disp, created, table, job>>
          /\ cursor' = cursor \/ cursor' = [cursor EXCEPT ![Target(w)] = top[w]]
          /\ pc' = [pc EXCEPT ![w] = "committed"]
          /\ Forget(w)
      BY <2>9 DEF FinishSuccess, Record, Become
    <3>3. CursorCovered'
      BY <3>1, <3>2 DEF CursorInv, CursorCovered, LoadedCovered, TypeOK
    <3>4. \A v \in Workers \ {w} :
            /\ mark'[v] = mark[v] /\ mode'[v] = mode[v]
            /\ top'[v] = top[v] /\ fresh'[v] = fresh[v]
      BY <3>2 DEF Forget, TypeOK
    <3> QED
      BY <3>2, <3>3, <3>4, CursorInvLeave
  <2>10. CASE ReadNothing(w) \/ RunVanished(w) \/ Acknowledge(w)
              \/ FinishError(w) \/ StepFails(w) \/ JobIsVictim(w) \/ Crash(w)
    <3>1. /\ UNCHANGED <<cursor, grows, disp, created, table>>
          /\ \E step \in {"idle", "committed", "failing"} :
               pc' = [pc EXCEPT ![w] = step]
          /\ job' = job \/ job' = [job EXCEPT ![w] = NoRun]
          /\ Forget(w)
      BY <2>10
      DEF ReadNothing, RunVanished, Acknowledge, FinishError, StepFails,
          JobIsVictim, Crash, Release, Escape, Record, Become
    <3>2. \A v \in Workers \ {w} :
            /\ job'[v] = job[v] /\ mark'[v] = mark[v] /\ mode'[v] = mode[v]
            /\ top'[v] = top[v] /\ fresh'[v] = fresh[v]
      BY <3>1 DEF Forget, TypeOK
    <3> QED
      BY <3>1, <3>2, CursorInvLeave
  <2>11. CASE DeleteIsVictim(w) \/ Redeliver(w)
    BY <2>11, CursorInvFrame
    DEF DeleteIsVictim, DeleteRollback, Redeliver, cursorVars
  <2> QED
    BY <1>4, <2>1, <2>2, <2>4, <2>5, <2>6, <2>7, <2>8, <2>9, <2>10, <2>11
    DEF Progress, Finish, Deadlock
<1>5. CASE UNCHANGED vars
  BY <1>5, CursorInvFrame DEF vars, cursorVars
<1> QED
  BY <1>1, <1>2, <1>3, <1>4, <1>5 DEF Next

(* As long as a pipeline was never configured to overwrite, every source   *)
(* row up to its committed high-water mark is in its landing table: the    *)
(* cursor the executor advances never makes an extract skip a row.         *)
THEOREM CursorIsCovered == Spec => []CursorCovered
<1>1. CursorInv => CursorCovered
  BY DEF CursorInv
<1> QED
  BY <1>1, TypeCorrect, RunInvInit, RunInvStep, CursorInvInit, UnbornStep,
     CursorInvStep, PTL DEF Spec
=============================================================================
