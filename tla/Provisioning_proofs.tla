------------------------ MODULE Provisioning_proofs ------------------------
(* What Provisioning satisfies for any number of calls and faults.         *)
EXTENDS Provisioning, TLAPS

LEMMA BothAreHomes == "namespace" \in Homes /\ "database" \in Homes
BY DEF Homes

LEMMA FaultIsCounted == TypeOK /\ Fault => faults' \in 0..MaxFaults
BY MaxFaultsIsNatural DEF TypeOK, Fault

(* The steps of Provisioning keep every variable in its type.              *)
THEOREM TypeCorrect == Spec => []TypeOK
<1> USE BothAreHomes, DistinctNames, FaultIsCounted
<1>1. Init => TypeOK
  <2> SUFFICES ASSUME Init PROVE TypeOK
    OBVIOUS
  <2>1. tables \in BOOLEAN /\ strayed \in BOOLEAN /\ trampled \in BOOLEAN
    BY Zenon DEF Init
  <2>2. row \in Tenants \cup {Nobody}
    BY DEF Init, Tenants
  <2>3. faults \in 0..MaxFaults
    BY MaxFaultsIsNatural DEF Init
  <2> QED
    BY <2>1, <2>2, <2>3 DEF Init, TypeOK
<1>2. TypeOK /\ [Next]_vars => TypeOK'
  <2> SUFFICES ASSUME TypeOK, [Next]_vars PROVE TypeOK'
    OBVIOUS
  <2> USE DEF TypeOK, Tenants, Running, Provisioning, Deprovisioning, Ended,
              Goto, history
  <2>1. ASSUME NEW c \in Calls, Provision(c) PROVE TypeOK'
    <3>1. CASE CheckRegistry(c)     BY <3>1 DEF CheckRegistry
    <3>2. ASSUME NEW h \in Homes, NEW next \in Running, CreateHome(c, h, next)
          PROVE  TypeOK'
      <4>1. made' \in [Calls -> SUBSET Homes]
        <5>1. made' = made \/ made' = [made EXCEPT ![c] = @ \cup {h}]
          BY <3>2 DEF CreateHome
        <5>2. made[c] \cup {h} \in SUBSET Homes
          OBVIOUS
        <5> QED
          BY <5>1, <5>2
      <4>2. home' \in [Homes -> Tenants \cup {Job, Nobody}]
        BY <3>2 DEF CreateHome
      <4>3. pc' \in [Calls -> {"new"} \cup Running \cup Ended]
        BY <3>2 DEF CreateHome
      <4> QED
        BY <3>2, <4>1, <4>2, <4>3 DEF CreateHome
    <3>3. CASE LookUpDatabase(c)    BY <3>3 DEF LookUpDatabase
    <3>4. CASE CreateNamespace(c) \/ CreateDatabase(c)
      BY <3>2, <3>4 DEF CreateNamespace, CreateDatabase
    <3>5. CASE Register(c)          BY <3>5 DEF Register
    <3>6. CASE ProvisionFails(c)    BY <3>6 DEF ProvisionFails
    <3>7. CASE CreateReplyLost(c)
      <4>1. home' \in [Homes -> Tenants \cup {Job, Nobody}]
        BY <3>7 DEF CreateReplyLost
      <4>2. /\ pc' = [pc EXCEPT ![c] = "undo"]
            /\ UNCHANGED <<row, tables, made, target, jobs, strayed, history>>
            /\ faults' \in 0..MaxFaults
        BY <3>7 DEF CreateReplyLost
      <4> QED
        BY <4>1, <4>2
    <3>8. CASE Compensate(c) \/ CompensationFails(c)
      <4>1. PICK h \in Homes :
              /\ home' = home \/ home' = [home EXCEPT ![h] = Nobody]
              /\ made' = [made EXCEPT ![c] = @ \ {h}]
              /\ UNCHANGED <<row, tables, pc, target, jobs, strayed, history>>
        BY <3>8 DEF Compensate, CompensationFails, Undo
      <4>2. faults' \in 0..MaxFaults
        <5>1. CASE Compensate(c)
          BY <5>1 DEF Compensate
        <5>2. CASE CompensationFails(c)
          BY <5>2 DEF CompensationFails
        <5> QED
          BY <3>8, <5>1, <5>2
      <4>3. made' \in [Calls -> SUBSET Homes]
        BY <4>1
      <4> QED
        BY <4>1, <4>2, <4>3
    <3>9. CASE Undone(c)            BY <3>9 DEF Undone
    <3> QED
      BY <2>1, <3>1, <3>2, <3>3, <3>4, <3>5, <3>6, <3>7, <3>8, <3>9
      DEF Provision
  <2>2. ASSUME NEW c \in Calls, Deprovision(c) PROVE TypeOK'
    <3>1. CASE ReadTenant(c)       BY <3>1 DEF ReadTenant
    <3>2. CASE PurgeTables(c)      BY <3>2 DEF PurgeTables
    <3>3. CASE DropNamespace(c) \/ DropDatabase(c)
      <4>1. PICK h \in Homes, next \in Running : DropHome(c, h, next)
        BY <3>3 DEF DropNamespace, DropDatabase
      <4>2. trampled' \in BOOLEAN
        BY <4>1, Zenon DEF DropHome
      <4> QED
        BY <4>1, <4>2 DEF DropHome
    <3>4. CASE DeleteRow(c)        BY <3>4 DEF DeleteRow
    <3>5. CASE DeprovisionFails(c) BY <3>5 DEF DeprovisionFails
    <3> QED
      BY <2>2, <3>1, <3>2, <3>3, <3>4, <3>5 DEF Deprovision
  <2>3. ASSUME NEW c \in Calls, Crash(c) PROVE TypeOK'
    <3>1. made' \in [Calls -> SUBSET Homes]
      BY <2>3 DEF Crash
    <3> QED
      BY <2>3, <3>1 DEF Crash
  <2>4. CASE JobResolves
    BY <2>4 DEF JobResolves
  <2>5. ASSUME NEW t \in Tenants,
               JobEnsuresNamespace(t) \/ JobWritesTable(t) \/ JobEnds(t)
        PROVE  TypeOK'
    <3>1. CASE JobEnsuresNamespace(t)
      <4>1. strayed' \in BOOLEAN
        BY <3>1, Zenon DEF JobEnsuresNamespace, TornDown
      <4> QED
        BY <3>1, <4>1 DEF JobEnsuresNamespace
    <3>2. CASE JobWritesTable(t)
      <4>1. strayed' \in BOOLEAN
        BY <3>2, Zenon DEF JobWritesTable, TornDown
      <4> QED
        BY <3>2, <4>1 DEF JobWritesTable
    <3>3. CASE JobEnds(t)
      BY <3>3 DEF JobEnds
    <3> QED
      BY <2>5, <3>1, <3>2, <3>3
  <2>6. CASE UNCHANGED vars
    BY <2>6 DEF vars
  <2> QED
    BY <2>1, <2>2, <2>3, <2>4, <2>5, <2>6 DEF Next
<1> QED
  BY <1>1, <1>2, PTL DEF Spec

-----------------------------------------------------------------------------
(* What a step may do to each part of the state: to the row, to what the   *)
(* deprovisions have read, to a home and to the step a call is at.         *)

Drops(c, h) == \/ DropNamespace(c) /\ h = "namespace"
               \/ DropDatabase(c) /\ h = "database"

LEMMA RowMoves ==
    ASSUME TypeOK, [Next]_vars
    PROVE  \/ row' = row
           \/ \E c \in Calls : Register(c) /\ row = Nobody
           \/ \E c \in Calls : DeleteRow(c) /\ row = target[c]
BY DEF Next, Provision, CheckRegistry, CreateNamespace, CreateHome,
       LookUpDatabase, CreateDatabase, Register, ProvisionFails,
       CreateReplyLost, Compensate, CompensationFails, Undo, Undone,
       Deprovision, ReadTenant, PurgeTables, DropNamespace, DropDatabase,
       DropHome, DeleteRow, DeprovisionFails, Crash, JobResolves,
       JobEnsuresNamespace, JobWritesTable, JobEnds, vars

LEMMA TargetMoves ==
    ASSUME TypeOK, [Next]_vars
    PROVE  \/ target' = target
           \/ \E c \in Calls : ReadTenant(c)
BY DEF Next, Provision, CheckRegistry, CreateNamespace, CreateHome,
       LookUpDatabase, CreateDatabase, Register, ProvisionFails,
       CreateReplyLost, Compensate, CompensationFails, Undo, Undone,
       Deprovision, PurgeTables, DropNamespace, DropDatabase,
       DropHome, DeleteRow, DeprovisionFails, Crash, JobResolves,
       JobEnsuresNamespace, JobWritesTable, JobEnds, vars

(* A teardown once told of is told of for good, and so are tramplings,     *)
(* strays and faults.                                                      *)
LEMMA HistoryGrows ==
    ASSUME TypeOK, [Next]_vars
    PROVE  /\ beside \subseteq beside'
           /\ trampled => trampled'
           /\ strayed => strayed'
<1>1. beside \subseteq beside'
  BY DEF Next, Provision, CheckRegistry, CreateNamespace, CreateHome,
         LookUpDatabase, CreateDatabase, Register, ProvisionFails,
         CreateReplyLost, Compensate, CompensationFails, Undo, Undone,
         Deprovision, ReadTenant, PurgeTables, DropNamespace, DropDatabase,
         DropHome, DeleteRow, DeprovisionFails, Crash, JobResolves,
         JobEnsuresNamespace, JobWritesTable, JobEnds, vars, history
<1>2. trampled => trampled'
  BY DEF Next, Provision, CheckRegistry, CreateNamespace, CreateHome,
         LookUpDatabase, CreateDatabase, Register, ProvisionFails,
         CreateReplyLost, Compensate, CompensationFails, Undo, Undone,
         Deprovision, ReadTenant, PurgeTables, DropNamespace, DropDatabase,
         DropHome, DeleteRow, DeprovisionFails, Crash, JobResolves,
         JobEnsuresNamespace, JobWritesTable, JobEnds, vars, history
<1>3. strayed => strayed'
  BY DEF Next, Provision, CheckRegistry, CreateNamespace, CreateHome,
         LookUpDatabase, CreateDatabase, Register, ProvisionFails,
         CreateReplyLost, Compensate, CompensationFails, Undo, Undone,
         Deprovision, ReadTenant, PurgeTables, DropNamespace, DropDatabase,
         DropHome, DeleteRow, DeprovisionFails, Crash, JobResolves,
         JobEnsuresNamespace, JobWritesTable, JobEnds, vars, history
<1> QED
  BY <1>1, <1>2, <1>3

(* A call that has ended stays where it is, and none is new again.         *)
LEMMA StepMoves ==
    ASSUME TypeOK, [Next]_vars, NEW d \in Calls
    PROVE  /\ pc[d] \in Ended => pc'[d] = pc[d]
           /\ pc'[d] = "new" => pc[d] = "new"
<1>1. \/ pc' = pc
      \/ \E c \in Calls : /\ pc[c] \in {"new"} \cup Running
                          /\ \E s \in Running \cup Ended : Goto(c, s)
  BY DEF Next, Provision, CheckRegistry, CreateNamespace, CreateHome,
         LookUpDatabase, CreateDatabase, Register, ProvisionFails,
         CreateReplyLost, Compensate, CompensationFails, Undo, Undone,
         Deprovision, ReadTenant, PurgeTables, DropNamespace, DropDatabase,
         DropHome, DeleteRow, DeprovisionFails, Crash, JobResolves,
         JobEnsuresNamespace, JobWritesTable, JobEnds, vars,
         Running, Provisioning, Deprovisioning, Ended
<1> QED
  BY <1>1
  DEF TypeOK, Goto, Ended, Running, Provisioning, Deprovisioning

(* A home that is there changes only as a call undoes or a teardown drops  *)
(* it, and one that is not there becomes a job's or a provision call's.    *)
LEMMA HomeMoves ==
    ASSUME TypeOK, [Next]_vars, NEW h \in Homes, home'[h] # home[h]
    PROVE  \/ /\ home[h] = Nobody
              /\ home'[h] = Job \/ \E c \in Calls : home'[h] = c /\ pc[c] \in Provisioning
           \/ \E c \in Calls : /\ pc[c] = "undo" /\ h \in made[c]
                               /\ home'[h] = Nobody /\ h \notin made'[c]
                               /\ UNCHANGED <<row, pc, target, history>>
           \/ \E c \in Calls : Drops(c, h)
<1> USE DEF TypeOK
<1>1. ASSUME NEW c \in Calls, NEW g \in Homes, NEW next \in Running,
             pc[c] \in Provisioning, CreateHome(c, g, next)
      PROVE  /\ home[h] = Nobody
             /\ home'[h] = c
  BY <1>1 DEF CreateHome
<1>2. ASSUME NEW c \in Calls, Provision(c)
      PROVE  \/ /\ home[h] = Nobody
                /\ home'[h] = c /\ pc[c] \in Provisioning
             \/ /\ pc[c] = "undo" /\ h \in made[c]
                /\ home'[h] = Nobody /\ h \notin made'[c]
                /\ UNCHANGED <<row, pc, target, history>>
  <2>1. CASE CreateNamespace(c) \/ CreateDatabase(c)
    BY <1>1, <2>1, BothAreHomes
    DEF CreateNamespace, CreateDatabase, Running, Provisioning
  <2>2. CASE Compensate(c) \/ CompensationFails(c)
    BY <2>2 DEF Compensate, CompensationFails, Undo
  <2>3. CASE CreateReplyLost(c)
    BY <2>3 DEF CreateReplyLost, Provisioning
  <2> QED
    BY <1>2, <2>1, <2>2, <2>3
    DEF Provision, CheckRegistry, LookUpDatabase, Register, ProvisionFails,
        Undone
<1>3. ASSUME NEW c \in Calls, Deprovision(c) PROVE Drops(c, h)
  <2>1. CASE DropNamespace(c) \/ DropDatabase(c)
    BY <2>1 DEF DropNamespace, DropDatabase, DropHome, Drops
  <2> QED
    BY <1>3, <2>1
    DEF Deprovision, ReadTenant, PurgeTables, DeleteRow, DeprovisionFails
<1>4. ASSUME NEW t \in Tenants,
             JobEnsuresNamespace(t) \/ JobWritesTable(t) \/ JobEnds(t)
      PROVE  home[h] = Nobody /\ home'[h] = Job
  BY <1>4 DEF JobEnsuresNamespace, JobWritesTable, JobEnds
<1> QED
  BY <1>2, <1>3, <1>4 DEF Next, Crash, JobResolves, vars

(* A drop leaves the rest of the state, and what it drops under another    *)
(* tenant is on record.                                                    *)
LEMMA DropMoves ==
    ASSUME TypeOK, NEW c \in Calls, NEW h \in Homes, Drops(c, h)
    PROVE  /\ pc[c] \in Deprovisioning
           /\ pc'[c] = IF h = "namespace" THEN "drop database" ELSE "delete"
           /\ \A d \in Calls : d # c => pc'[d] = pc[d]
           /\ home' = [home EXCEPT ![h] = Nobody]
           /\ trampled' = (trampled \/ (InUse(h) /\ home[h] # target[c]))
           /\ UNCHANGED <<row, tables, made, target, jobs, strayed, beside, faults>>
BY DEF Drops, DropNamespace, DropDatabase, DropHome, Goto, TypeOK,
       Deprovisioning, Homes
-----------------------------------------------------------------------------
(* The saga.  A tenant, and whatever a deprovision has read, is a call     *)
(* that has returned (or the founder); until a teardown tramples, a call   *)
(* at work owns all that it has to undo, and has the homes its step needs. *)

NewHasNoTarget == \A d \in Calls : pc[d] = "new" => target[d] = Nobody

TeardownHasTenant ==
    \A d \in Calls : pc[d] \in Deprovisioning => target[d] # Nobody

RegisteredAreDone ==
    \A d \in Calls :
      row = d \/ (\E c \in Calls : target[c] = d) => pc[d] = "done"

OwnsItsHomes(d) ==
    /\ \A h \in made[d] : /\ pc[d] \in Provisioning
                          /\ ~trampled => home[h] = d
    /\ pc[d] \in {"look up database", "create database"} =>
         "namespace" \in made[d]
    /\ pc[d] = "register" => \A h \in Homes : h \in made[d]

WorkersOwnTheirHomes == \A d \in Calls : OwnsItsHomes(d)

SagaInv ==
    /\ NewHasNoTarget
    /\ TeardownHasTenant
    /\ RegisteredAreDone
    /\ WorkersOwnTheirHomes
    /\ TenantIsWhole

LEMMA SagaInvInit == Init => SagaInv
BY DistinctNames
   DEF Init, SagaInv, TenantIsWhole, WorkersOwnTheirHomes, OwnsItsHomes,
       NewHasNoTarget, TeardownHasTenant, RegisteredAreDone, Provisioning,
       Deprovisioning, Homes

(* A call at work is neither the tenant nor one that was torn down.        *)
LEMMA WorkersAreNoTenants ==
    ASSUME SagaInv, NEW d \in Calls, pc[d] # "done"
    PROVE  row # d /\ \A c \in Calls : target[c] # d
BY DEF SagaInv, RegisteredAreDone

LEMMA TargetsStayTenants ==
    TypeOK /\ SagaInv /\ [Next]_vars
      => NewHasNoTarget' /\ TeardownHasTenant' /\ RegisteredAreDone'
<1> SUFFICES ASSUME TypeOK, SagaInv, [Next]_vars
             PROVE  NewHasNoTarget' /\ TeardownHasTenant' /\ RegisteredAreDone'
  OBVIOUS
<1> USE DEF NewHasNoTarget, TeardownHasTenant, RegisteredAreDone
<1>0. NewHasNoTarget /\ TeardownHasTenant /\ RegisteredAreDone
  BY DEF SagaInv
<1>1. ASSUME NEW d \in Calls
      PROVE  /\ pc[d] \in Ended => pc'[d] = pc[d]
             /\ pc'[d] = "new" => pc[d] = "new"
  BY StepMoves
<1>2. NewHasNoTarget'
  <2>1. CASE target' = target
    BY <1>0, <1>1, <2>1
  <2>2. ASSUME NEW c \in Calls, ReadTenant(c)
        PROVE  \A d \in Calls : pc'[d] = "new" => target'[d] = Nobody
    BY <1>0, <1>1, <2>2 DEF ReadTenant, Goto, TypeOK
  <2> QED
    BY <2>1, <2>2, TargetMoves
<1>3. TeardownHasTenant'
  <2> SUFFICES ASSUME NEW d \in Calls, pc'[d] \in Deprovisioning
               PROVE  target'[d] # Nobody
    OBVIOUS
  <2>1. CASE ReadTenant(d)
    BY <2>1 DEF ReadTenant, Goto, TypeOK, Deprovisioning
  <2>2. CASE pc[d] \in Deprovisioning
    <3>1. target'[d] = target[d] \/ ReadTenant(d)
      BY TargetMoves DEF ReadTenant, TypeOK
    <3> QED
      BY <1>0, <2>1, <2>2, <3>1
  <2>3. ASSUME NEW c \in Calls, Provision(c) \/ Crash(c)
        PROVE  pc'[d] = pc[d] \/ pc'[d] \notin Deprovisioning
    BY <2>3
    DEF TypeOK, Goto, Provision, CheckRegistry, CreateNamespace, CreateHome,
        LookUpDatabase, CreateDatabase, Register, ProvisionFails,
        CreateReplyLost, Compensate, CompensationFails, Undo, Undone, Crash,
        Deprovisioning
  <2>4. ASSUME NEW c \in Calls, Deprovision(c), ~ReadTenant(c)
        PROVE  pc[c] \in Deprovisioning /\ (c # d => pc'[d] = pc[d])
    BY <2>4
    DEF TypeOK, Goto, Deprovision, PurgeTables, DropNamespace, DropDatabase,
        DropHome, DeleteRow, DeprovisionFails, Deprovisioning
  <2>5. ASSUME NEW c \in Calls, ReadTenant(c), c # d
        PROVE  pc'[d] = pc[d]
    BY <2>5 DEF TypeOK, Goto, ReadTenant
  <2>6. pc[d] \in Deprovisioning \/ ReadTenant(d)
    BY <2>3, <2>4, <2>5
    DEF Next, JobResolves, JobEnsuresNamespace, JobWritesTable, JobEnds, vars
  <2> QED
    BY <2>1, <2>2, <2>6
<1>4. RegisteredAreDone'
  <2> SUFFICES ASSUME NEW d \in Calls,
                      row' = d \/ \E c \in Calls : target'[c] = d
               PROVE  pc'[d] = "done"
    OBVIOUS
  <2>1. pc[d] = "done" => pc'[d] = "done"
    BY <1>1 DEF Ended
  <2>2. row' = d => row = d \/ pc'[d] = "done"
    BY RowMoves, DistinctNames DEF Register, DeleteRow, Goto, TypeOK
  <2>3. ASSUME NEW c \in Calls, target'[c] = d
        PROVE  target[c] = d \/ row = d
    BY <2>3, TargetMoves DEF ReadTenant, TypeOK
  <2> QED
    BY <1>0, <2>1, <2>2, <2>3
<1> QED
  BY <1>2, <1>3, <1>4

(* What a call has on its stack it still owns as long as no teardown       *)
(* tramples: only the call itself drops it.                                *)
LEMMA StacksAreUntouched ==
    ASSUME TypeOK, SagaInv, [Next]_vars, ~trampled', NEW d \in Calls,
           NEW h \in made[d], h \in made'[d]
    PROVE  home'[h] = d
<1>1. ~trampled /\ h \in Homes
  BY HistoryGrows DEF TypeOK
<1>2. OwnsItsHomes(d)
  BY DEF SagaInv, WorkersOwnTheirHomes
<1>3. home[h] = d /\ pc[d] \in Provisioning
  BY <1>1, <1>2 DEF OwnsItsHomes
<1>4. pc[d] # "done" /\ d # Nobody
  BY <1>3, DistinctNames DEF Provisioning
<1>5. ASSUME NEW c \in Calls, Drops(c, h) PROVE FALSE
  <2>1. target[c] # d
    BY <1>4, WorkersAreNoTenants
  <2>2. InUse(h)
    BY <1>3 DEF InUse
  <2> QED
    BY <1>1, <1>3, <1>5, <2>1, <2>2, DropMoves
<1>6. ASSUME NEW c \in Calls, pc[c] = "undo", h \in made[c], h \notin made'[c]
      PROVE  FALSE
  <2>1. home[h] = c
    BY <1>1, <1>6 DEF SagaInv, WorkersOwnTheirHomes, OwnsItsHomes
  <2> QED
    BY <1>3, <1>6, <2>1
<1> QED
  BY <1>1, <1>3, <1>4, <1>5, <1>6, HomeMoves

(* The stack of a call, and the step it is at, move together.              *)
LEMMA StacksFitSteps ==
    ASSUME TypeOK, SagaInv, [Next]_vars, NEW d \in Calls
    PROVE  /\ \A h \in made'[d] : pc'[d] \in Provisioning
           /\ pc'[d] \in {"look up database", "create database"} =>
                "namespace" \in made'[d]
           /\ pc'[d] = "register" => \A h \in Homes : h \in made'[d]
<1>0. OwnsItsHomes(d)
  BY DEF SagaInv, WorkersOwnTheirHomes
<1> USE BothAreHomes DEF TypeOK, Goto
<1>1. CASE pc'[d] = pc[d] /\ made'[d] = made[d]
  BY <1>0, <1>1 DEF OwnsItsHomes
<1>2. CASE CreateNamespace(d) \/ CreateDatabase(d)
  <2>1. PICK h \in Homes, next \in {"look up database", "register"} :
          /\ CreateHome(d, h, next)
          /\ \/ h = "namespace" /\ next = "look up database"
             \/ h = "database" /\ next = "register" /\ pc[d] = "create database"
    BY <1>2 DEF CreateNamespace, CreateDatabase
  <2>2. CASE home[h] # Nobody
    BY <1>0, <2>1, <2>2 DEF CreateHome, OwnsItsHomes, Provisioning
  <2>3. CASE home[h] = Nobody
    <3>1. made'[d] = made[d] \cup {h} /\ pc'[d] = next
      BY <2>1, <2>3 DEF CreateHome
    <3> QED
      BY <1>0, <2>1, <3>1 DEF OwnsItsHomes, Provisioning, Homes
  <2> QED
    BY <2>2, <2>3
<1>3. CASE \/ CheckRegistry(d) \/ LookUpDatabase(d) \/ Register(d)
           \/ ProvisionFails(d) \/ CreateReplyLost(d) \/ Compensate(d)
           \/ CompensationFails(d) \/ Undone(d)
  BY <1>0, <1>3
  DEF OwnsItsHomes, CheckRegistry, LookUpDatabase, Register, ProvisionFails,
      CreateReplyLost, Compensate, CompensationFails, Undo, Undone, Provisioning
<1>4. CASE Deprovision(d) \/ Crash(d)
  <2>1. made'[d] = {}
    BY <1>0, <1>4
    DEF OwnsItsHomes, Deprovision, ReadTenant, PurgeTables, DropNamespace,
        DropDatabase, DropHome, DeleteRow, DeprovisionFails, Crash,
        Provisioning, Deprovisioning
  <2>2. pc'[d] \notin Provisioning
    BY <1>4
    DEF Deprovision, ReadTenant, PurgeTables, DropNamespace,
        DropDatabase, DropHome, DeleteRow, DeprovisionFails, Crash,
        Provisioning, Deprovisioning
  <2> QED
    BY <2>1, <2>2 DEF Provisioning
<1>5. ASSUME NEW c \in Calls, c # d, Provision(c) \/ Deprovision(c) \/ Crash(c)
      PROVE  pc'[d] = pc[d] /\ made'[d] = made[d]
  BY <1>5
  DEF Provision, CheckRegistry, CreateNamespace, CreateHome, LookUpDatabase,
      CreateDatabase, Register, ProvisionFails, CreateReplyLost, Compensate,
      CompensationFails, Undo, Undone, Deprovision, ReadTenant, PurgeTables,
      DropNamespace, DropDatabase, DropHome, DeleteRow, DeprovisionFails, Crash
<1>6. CASE pc' = pc /\ made' = made
  BY <1>1, <1>6
<1> QED
  BY <1>1, <1>2, <1>3, <1>4, <1>5, <1>6
  DEF Next, Provision, JobResolves, JobEnsuresNamespace, JobWritesTable,
      JobEnds, vars

LEMMA WorkersStayOwners ==
    TypeOK /\ SagaInv /\ [Next]_vars => WorkersOwnTheirHomes'
<1> SUFFICES ASSUME TypeOK, SagaInv, [Next]_vars, NEW d \in Calls,
                    ~trampled', NEW h \in made'[d]
             PROVE  home'[h] = d
  BY StacksFitSteps DEF WorkersOwnTheirHomes, OwnsItsHomes
<1>1. CASE h \in made[d]
  BY <1>1, StacksAreUntouched
<1>2. CASE h \notin made[d]
  <2>1. ASSUME NEW c \in Calls, Provision(c)
        PROVE  \/ made'[d] \subseteq made[d]
               \/ c = d /\ (CreateNamespace(d) \/ CreateDatabase(d))
    BY <2>1
    DEF TypeOK, Provision, CheckRegistry, CreateNamespace, CreateHome,
        LookUpDatabase, CreateDatabase, Register, ProvisionFails,
        CreateReplyLost, Compensate, CompensationFails, Undo, Undone
  <2>2. ASSUME NEW c \in Calls, Deprovision(c) \/ Crash(c)
        PROVE  made'[d] \subseteq made[d]
    BY <2>2
    DEF TypeOK, Deprovision, ReadTenant, PurgeTables, DropNamespace,
        DropDatabase, DropHome, DeleteRow, DeprovisionFails, Crash
  <2>3. CreateNamespace(d) \/ CreateDatabase(d)
    BY <1>2, <2>1, <2>2
    DEF Next, JobResolves, JobEnsuresNamespace, JobWritesTable, JobEnds, vars
  <2>4. PICK g \in Homes, next \in {"look up database", "register"} :
          CreateHome(d, g, next)
    BY <2>3, BothAreHomes DEF CreateNamespace, CreateDatabase
  <2>5. made'[d] = made[d] \cup {g} /\ home' = [home EXCEPT ![g] = d]
    BY <1>2, <2>4 DEF CreateHome, TypeOK
  <2> QED
    BY <1>2, <2>5 DEF TypeOK
<1> QED
  BY <1>1, <1>2

LEMMA TenantStaysWhole ==
    TypeOK /\ SagaInv /\ [Next]_vars => TenantIsWhole'
<1> SUFFICES ASSUME TypeOK, SagaInv, [Next]_vars, ~trampled', row' # Nobody,
                    \A c \in Calls : target'[c] # row',
                    NEW h \in Homes
             PROVE  home'[h] = row'
  BY DEF TenantIsWhole
<1>0. ~trampled
  BY HistoryGrows
<1>1. ASSUME NEW c \in Calls, Register(c), row = Nobody
      PROVE  home'[h] = row'
  <2>1. pc[c] = "register" /\ row' = c /\ home' = home
    BY <1>1 DEF Register
  <2>2. OwnsItsHomes(c)
    BY DEF SagaInv, WorkersOwnTheirHomes
  <2> QED
    BY <1>0, <2>1, <2>2 DEF OwnsItsHomes
<1>2. CASE row' = row
  <2>1. row # Nobody /\ \A c \in Calls : target[c] # row
    <3>1. CASE target' = target
      BY <1>2, <3>1
    <3>2. ASSUME NEW c \in Calls, ReadTenant(c) PROVE FALSE
      BY <1>2, <3>2 DEF ReadTenant, TypeOK
    <3> QED
      BY <1>2, <3>1, <3>2, TargetMoves
  <2>2. home[h] = row
    BY <1>0, <2>1 DEF SagaInv, TenantIsWhole
  <2>3. ASSUME NEW c \in Calls, Drops(c, h) PROVE FALSE
    <3>1. InUse(h) /\ home[h] # target[c]
      BY <2>1, <2>2 DEF InUse
    <3> QED
      BY <2>3, <3>1, DropMoves
  <2>4. ASSUME NEW c \in Calls, pc[c] = "undo", h \in made[c] PROVE FALSE
    <3>1. home[h] = c
      BY <1>0, <2>4 DEF SagaInv, WorkersOwnTheirHomes, OwnsItsHomes
    <3> QED
      BY <2>2, <2>4, <3>1, WorkersAreNoTenants
  <2> QED
    BY <1>2, <2>1, <2>2, <2>3, <2>4, HomeMoves
<1>3. ASSUME NEW c \in Calls, DeleteRow(c), row = target[c] PROVE FALSE
  BY <1>3 DEF DeleteRow
<1> QED
  BY <1>1, <1>2, <1>3, RowMoves

LEMMA SagaStep == TypeOK /\ SagaInv /\ [Next]_vars => SagaInv'
BY TargetsStayTenants, WorkersStayOwners, TenantStaysWhole DEF SagaInv

LEMMA SagaIsKept == Spec => [](TypeOK /\ SagaInv)
BY TypeCorrect, SagaInvInit, SagaStep, PTL DEF Spec

(* A registered tenant owns both its homes until its own teardown begins,  *)
(* whatever number of calls fail, crash or race with it, and as long as    *)
(* no teardown has dropped what another tenant used: what that takes is    *)
(* the theorem TramplingNeedsTwo.                                          *)
THEOREM WholeTenants == Spec => []TenantIsWhole
BY SagaIsKept, PTL DEF SagaInv

(* Until then a compensation never drops a home that another call made     *)
(* under the same name.                                                    *)
THEOREM UndoIsLocal == Spec => UndoesOnlyItsOwn
<1> DEFINE Local == \A c \in Calls : \A h \in made[c] \ made'[c] :
                       ~trampled /\ pc'[c] = "undo" /\ home'[h] # home[h]
                         => home[h] = c
<1>1. SagaInv => [Local]_vars
  BY DEF SagaInv, WorkersOwnTheirHomes, OwnsItsHomes
<1> QED
  BY <1>1, SagaIsKept, PTL DEF UndoesOnlyItsOwn
-----------------------------------------------------------------------------
(* What trampling takes.  A tenant's only teardown finds the tenant as it  *)
(* was registered, and so drops what is its own.  A second one that began  *)
(* while the slug was quiet finds the tenant registered and nobody else at *)
(* work, and nobody starts beside it.                                      *)

Sole(d) == \A c \in Calls : target[c] = target[d] => c = d

FirstTeardown(d) ==
    pc[d] \in Deprovisioning /\ Sole(d) /\ ~trampled =>
      /\ row = target[d]
      /\ pc[d] \in {"purge tables", "drop namespace"} =>
           home["namespace"] = row
      /\ pc[d] # "delete" => home["database"] = row

LaterTeardown(d) ==
    pc[d] \in Deprovisioning /\ ~Sole(d) /\ ~TornDownTwice =>
      /\ row = target[d]
      /\ \A c \in Calls : pc[c] \in Running => c = d

TrampleInv ==
    /\ TramplingTakesTwo
    /\ \A d \in Calls : FirstTeardown(d) /\ LaterTeardown(d)

LEMMA TrampleInvInit == Init => TrampleInv
BY DEF Init, TrampleInv, TramplingTakesTwo, FirstTeardown, LaterTeardown,
       Deprovisioning

(* A teardown at work has the target it began with, and was at work        *)
(* before, unless this step is the one that began it.                      *)
LEMMA TeardownGoesOn ==
    ASSUME TypeOK, [Next]_vars, NEW d \in Calls, pc'[d] \in Deprovisioning,
           ~ReadTenant(d)
    PROVE  pc[d] \in Deprovisioning /\ target'[d] = target[d]
<1>1. ASSUME NEW c \in Calls, Provision(c) \/ Crash(c)
      PROVE  pc'[d] = pc[d] \/ pc'[d] \notin Deprovisioning
  BY <1>1
  DEF TypeOK, Goto, Provision, CheckRegistry, CreateNamespace, CreateHome,
      LookUpDatabase, CreateDatabase, Register, ProvisionFails,
      CreateReplyLost, Compensate, CompensationFails, Undo, Undone, Crash,
      Deprovisioning
<1>2. ASSUME NEW c \in Calls, Deprovision(c), ~ReadTenant(c)
      PROVE  pc[c] \in Deprovisioning /\ (c # d => pc'[d] = pc[d])
  BY <1>2
  DEF TypeOK, Goto, Deprovision, PurgeTables, DropNamespace, DropDatabase,
      DropHome, DeleteRow, DeprovisionFails, Deprovisioning
<1>3. ASSUME NEW c \in Calls, ReadTenant(c), c # d
      PROVE  pc'[d] = pc[d] /\ target'[d] = target[d]
  BY <1>3 DEF TypeOK, Goto, ReadTenant
<1>4. pc[d] \in Deprovisioning
  BY <1>1, <1>2, <1>3
  DEF Next, JobResolves, JobEnsuresNamespace, JobWritesTable, JobEnds, vars
<1> QED
  BY <1>3, <1>4, TargetMoves

(* Nothing gives a target back, so two teardowns of a tenant stay two.     *)
LEMMA TeardownsAreRemembered ==
    ASSUME TypeOK, SagaInv, [Next]_vars
    PROVE  /\ \A c \in Calls : target[c] # Nobody => target'[c] = target[c]
           /\ TornDownTwice => TornDownTwice'
<1>1. ASSUME NEW c \in Calls, target[c] # Nobody PROVE target'[c] = target[c]
  <2>1. ~ReadTenant(c)
    BY <1>1 DEF ReadTenant, SagaInv, NewHasNoTarget
  <2> QED
    BY <2>1, TargetMoves DEF ReadTenant, TypeOK
<1>2. ASSUME TornDownTwice PROVE TornDownTwice'
  <2>1. PICK c \in Calls, d \in Calls :
          /\ c # d /\ d \in beside
          /\ target[c] = target[d] /\ target[d] # Nobody
    BY <1>2 DEF TornDownTwice
  <2>2. target'[c] = target[c] /\ target'[d] = target[d]
    BY <1>1, <2>1
  <2> QED
    BY <2>1, <2>2, HistoryGrows DEF TornDownTwice
<1> QED
  BY <1>1, <1>2

LEMMA FirstTeardownGoesOn ==
    ASSUME TypeOK, SagaInv, TrampleInv, [Next]_vars, NEW d \in Calls
    PROVE  FirstTeardown(d)'
<1> SUFFICES ASSUME pc'[d] \in Deprovisioning, ~trampled',
                    \A c \in Calls : target'[c] = target'[d] => c = d
             PROVE  /\ row' = target'[d]
                    /\ pc'[d] \in {"purge tables", "drop namespace"} =>
                         home'["namespace"] = row'
                    /\ pc'[d] # "delete" => home'["database"] = row'
  BY DEF FirstTeardown, Sole
<1>0. ~trampled
  BY HistoryGrows
<1> USE BothAreHomes
<1>1. CASE ReadTenant(d)
  <2>1. /\ row' = row /\ home' = home /\ target'[d] = row /\ row # Nobody
        /\ pc[d] = "new"
    BY <1>1 DEF ReadTenant, TypeOK, Goto, Deprovisioning
  <2>2. ASSUME NEW c \in Calls PROVE target[c] # row
    <3>1. CASE c = d
      BY <2>1, <3>1 DEF SagaInv, NewHasNoTarget
    <3>2. CASE c # d
      BY <1>1, <2>1, <3>2 DEF ReadTenant, TypeOK
    <3> QED
      BY <3>1, <3>2
  <2>3. \A h \in Homes : home[h] = row
    BY <1>0, <2>1, <2>2 DEF SagaInv, TenantIsWhole
  <2> QED
    BY <2>1, <2>3
<1>2. CASE ~ReadTenant(d)
  <2>1. pc[d] \in Deprovisioning /\ target'[d] = target[d]
    BY <1>2, TeardownGoesOn
  <2>2. target[d] # Nobody
    BY <2>1 DEF SagaInv, TeardownHasTenant
  <2>3. ASSUME NEW c \in Calls, target[c] = target[d] PROVE c = d
    BY <2>1, <2>2, <2>3, TeardownsAreRemembered
  <2>4. /\ row = target[d]
        /\ pc[d] \in {"purge tables", "drop namespace"} =>
             home["namespace"] = row
        /\ pc[d] # "delete" => home["database"] = row
    BY <1>0, <2>1, <2>3 DEF TrampleInv, FirstTeardown, Sole
  <2>5. row' = row
    <3>1. ASSUME NEW c \in Calls, DeleteRow(c), row = target[c] PROVE FALSE
      BY <2>3, <2>4, <3>1 DEF DeleteRow, TypeOK, Goto, Deprovisioning
    <3> QED
      BY <2>2, <2>4, <3>1, RowMoves
  <2>6. ASSUME NEW h \in Homes, home[h] = row,
               \A c \in Calls : ~(Drops(c, h) /\ c = d)
        PROVE  home'[h] = row
    <3>1. ASSUME NEW c \in Calls, Drops(c, h) PROVE FALSE
      <4>1. target[c] # target[d]
        BY <2>3, <2>6, <3>1
      <4>2. InUse(h)
        BY <2>2, <2>4, <2>6 DEF InUse
      <4> QED
        BY <2>4, <2>6, <3>1, <4>1, <4>2, DropMoves
    <3>2. ASSUME NEW c \in Calls, pc[c] = "undo", h \in made[c] PROVE FALSE
      <4>1. home[h] = c
        BY <1>0, <3>2 DEF SagaInv, WorkersOwnTheirHomes, OwnsItsHomes
      <4> QED
        BY <2>6, <3>2, <4>1, WorkersAreNoTenants
    <3> QED
      BY <2>2, <2>4, <2>6, <3>1, <3>2, HomeMoves
  <2>7. CASE \E h \in Homes : Drops(d, h)
    <3>1. CASE DropNamespace(d)
      <4>1. pc[d] = "drop namespace" /\ pc'[d] = "drop database"
        BY <3>1 DEF DropNamespace, DropHome, Goto, TypeOK
      <4>2. home'["database"] = home["database"]
        BY <3>1 DEF DropNamespace, DropHome, TypeOK, Homes
      <4> QED
        BY <2>1, <2>4, <2>5, <4>1, <4>2
    <3>2. CASE DropDatabase(d)
      <4>1. pc'[d] = "delete"
        BY <3>2 DEF DropDatabase, DropHome, Goto, TypeOK
      <4> QED
        BY <2>1, <2>4, <2>5, <4>1
    <3> QED
      BY <2>7, <3>1, <3>2 DEF Drops
  <2>8. CASE \A h \in Homes : ~Drops(d, h)
    <3>1. /\ pc'[d] \in {"purge tables", "drop namespace"} =>
               pc[d] \in {"purge tables", "drop namespace"}
          /\ pc[d] = "delete" => pc'[d] = "delete"
      <4>1. ASSUME NEW c \in Calls, c # d, Next,
                   Provision(c) \/ Deprovision(c) \/ Crash(c)
            PROVE  pc'[d] = pc[d]
        BY <4>1
        DEF TypeOK, Goto, Provision, CheckRegistry, CreateNamespace,
            CreateHome, LookUpDatabase, CreateDatabase, Register,
            ProvisionFails, CreateReplyLost, Compensate, CompensationFails,
            Undo, Undone, Deprovision, ReadTenant, PurgeTables,
            DropNamespace, DropDatabase, DropHome, DeleteRow,
            DeprovisionFails, Crash
      <4>2. CASE Provision(d) \/ Crash(d)
        BY <2>1, <4>2
        DEF TypeOK, Goto, Provision, CheckRegistry, CreateNamespace,
            CreateHome, LookUpDatabase, CreateDatabase, Register,
            ProvisionFails, CreateReplyLost, Compensate, CompensationFails,
            Undo, Undone, Crash, Deprovisioning
      <4>3. CASE Deprovision(d)
        BY <1>2, <2>1, <2>8, <4>3
        DEF TypeOK, Goto, Deprovision, PurgeTables, DropNamespace,
            DropDatabase, DropHome, DeleteRow, DeprovisionFails, Drops,
            Deprovisioning
      <4> QED
        BY <4>1, <4>2, <4>3
        DEF Next, JobResolves, JobEnsuresNamespace, JobWritesTable, JobEnds,
            vars
    <3> QED
      BY <2>1, <2>4, <2>5, <2>6, <2>8, <3>1
  <2> QED
    BY <2>7, <2>8
<1> QED
  BY <1>1, <1>2

LEMMA LaterTeardownGoesOn ==
    ASSUME TypeOK, SagaInv, TrampleInv, [Next]_vars, NEW d \in Calls
    PROVE  LaterTeardown(d)'
<1> SUFFICES ASSUME pc'[d] \in Deprovisioning, ~TornDownTwice',
                    NEW e \in Calls, e # d, target'[e] = target'[d]
             PROVE  /\ row' = target'[d]
                    /\ \A c \in Calls : pc'[c] \in Running => c = d
  BY DEF LaterTeardown, Sole
<1>0. ~TornDownTwice
  BY TeardownsAreRemembered
<1>1. target'[d] # Nobody
  BY TargetsStayTenants DEF TeardownHasTenant
<1>2. d \notin beside' /\ e \notin beside'
  BY <1>1 DEF TornDownTwice
<1>3. CASE ReadTenant(d)
  <2>1. Quiet
    BY <1>2, <1>3 DEF ReadTenant
  <2> QED
    BY <1>3, <2>1 DEF ReadTenant, TypeOK, Goto, Quiet
<1>4. CASE ~ReadTenant(d)
  <2>1. pc[d] \in Deprovisioning /\ target'[d] = target[d]
    BY <1>4, TeardownGoesOn
  <2>2. ~ReadTenant(e)
    BY <1>2, <2>1 DEF ReadTenant, Quiet, Running
  <2>3. target'[e] = target[e]
    BY <2>2, TargetMoves DEF ReadTenant, TypeOK
  <2>4. row = target[d] /\ \A c \in Calls : pc[c] \in Running => c = d
    BY <1>0, <2>1, <2>3 DEF TrampleInv, LaterTeardown, Sole
  <2>5. ASSUME NEW c \in Calls, ReadTenant(c) PROVE FALSE
    <3>1. c # d /\ c \in beside' /\ target'[c] = target'[d]
      BY <1>4, <2>1, <2>4, <2>5 DEF ReadTenant, Quiet, Running, TypeOK
    <3> QED
      BY <1>1, <3>1 DEF TornDownTwice
  <2>6. ASSUME NEW c \in Calls, CheckRegistry(c), pc'[c] \in Running
        PROVE  FALSE
    BY <1>1, <2>1, <2>4, <2>6
    DEF CheckRegistry, TypeOK, Goto, Running, Provisioning, Deprovisioning
  <2>7. ASSUME NEW c \in Calls, pc'[c] \in Running PROVE c = d
    <3>1. pc[c] \in Running \/ CheckRegistry(c) \/ ReadTenant(c)
      <4>1. ASSUME NEW b \in Calls, Provision(b) \/ Deprovision(b) \/ Crash(b),
                   ~CheckRegistry(b), ~ReadTenant(b)
            PROVE  pc[b] \in Running /\ (b # c => pc'[c] = pc[c])
        BY <4>1
        DEF TypeOK, Goto, Provision, CreateNamespace,
            CreateHome, LookUpDatabase, CreateDatabase, Register,
            ProvisionFails, CreateReplyLost, Compensate, CompensationFails,
            Undo, Undone, Deprovision, PurgeTables,
            DropNamespace, DropDatabase, DropHome, DeleteRow,
            DeprovisionFails, Crash, Running, Provisioning, Deprovisioning
      <4>2. ASSUME NEW b \in Calls, CheckRegistry(b) \/ ReadTenant(b), b # c
            PROVE  pc'[c] = pc[c]
        BY <4>2 DEF TypeOK, Goto, CheckRegistry, ReadTenant
      <4> QED
        BY <2>7, <4>1, <4>2
        DEF Next, JobResolves, JobEnsuresNamespace, JobWritesTable, JobEnds,
            vars
    <3> QED
      BY <2>4, <2>5, <2>6, <2>7, <3>1
  <2>8. row' = row
    <3>1. ASSUME NEW c \in Calls, DeleteRow(c), row = target[c] PROVE FALSE
      <4>1. c = d
        BY <2>4, <3>1 DEF DeleteRow, Running, Deprovisioning
      <4> QED
        BY <3>1, <4>1 DEF DeleteRow, TypeOK, Goto, Deprovisioning
    <3> QED
      BY <1>1, <2>1, <2>4, <3>1, RowMoves
  <2> QED
    BY <2>1, <2>4, <2>7, <2>8
<1> QED
  BY <1>3, <1>4

LEMMA TramplingOnRecord ==
    ASSUME TypeOK, SagaInv, TrampleInv, [Next]_vars
    PROVE  TramplingTakesTwo'
<1> SUFFICES ASSUME trampled', ~TornDownTwice PROVE FALSE
  BY TeardownsAreRemembered DEF TramplingTakesTwo
<1>1. ~trampled
  BY DEF TrampleInv, TramplingTakesTwo
<1>2. PICK c \in Calls, h \in Homes : Drops(c, h)
  BY <1>1, BothAreHomes
  DEF Next, Provision, CheckRegistry, CreateNamespace, CreateHome,
      LookUpDatabase, CreateDatabase, Register, ProvisionFails,
      CreateReplyLost, Compensate, CompensationFails, Undo, Undone,
      Deprovision, ReadTenant, PurgeTables, DropNamespace, DropDatabase,
      DeleteRow, DeprovisionFails, Crash, JobResolves,
      JobEnsuresNamespace, JobWritesTable, JobEnds, vars, history, Drops
<1>3. pc[c] \in Deprovisioning /\ InUse(h) /\ home[h] # target[c]
  BY <1>1, <1>2, DropMoves
<1>4. FirstTeardown(c) /\ LaterTeardown(c)
  BY DEF TrampleInv
<1>5. CASE Sole(c)
  BY <1>1, <1>2, <1>3, <1>4, <1>5
  DEF FirstTeardown, Drops, DropNamespace, DropDatabase
<1>6. CASE ~Sole(c)
  <2>1. row = target[c] /\ \A p \in Calls : pc[p] \in Running => p = c
    BY <1>3, <1>4, <1>6 DEF LaterTeardown
  <2>2. PICK p \in Calls : h \in made[p]
    BY <1>3, <2>1 DEF InUse
  <2>3. pc[p] \in Provisioning
    BY <2>2 DEF SagaInv, WorkersOwnTheirHomes, OwnsItsHomes
  <2> QED
    BY <1>3, <2>1, <2>3 DEF Running, Provisioning, Deprovisioning
<1> QED
  BY <1>5, <1>6

(* No teardown ever drops a home that another tenant uses, or that a       *)
(* provision call still has to undo, unless it is a second teardown of one *)
(* tenant begun while some call for the slug was at work: for any number   *)
(* of calls and faults, in any order, with any jobs beside them.           *)
THEOREM TramplingNeedsTwo == Spec => []TramplingTakesTwo
<1>1. TypeOK /\ SagaInv /\ TrampleInv /\ [Next]_vars => TrampleInv'
  BY TramplingOnRecord, FirstTeardownGoesOn, LaterTeardownGoesOn
  DEF TrampleInv
<1>2. TrampleInv => TramplingTakesTwo
  BY DEF TrampleInv
<1> QED
  BY <1>1, <1>2, TrampleInvInit, SagaIsKept, PTL DEF Spec
-----------------------------------------------------------------------------
(* What is left behind.  A home is the registered tenant's or on some      *)
(* call's stack, and the stack works: there are no tables in a namespace   *)
(* that a call may have to drop, and a teardown deletes the row last.      *)

NoTablesWithoutNamespace == home["namespace"] = Nobody => ~tables

NothingLandsUnderWay == \A c \in Calls : "namespace" \in made[c] => ~tables

RowGoesLast ==
    \A d \in Calls :
      /\ pc[d] \in {"drop database", "delete"} => home["namespace"] # target[d]
      /\ pc[d] = "delete" => home["database"] # target[d]

HomesAreOnStacks ==
    \A h \in Homes :
      home[h] \in {Nobody, row} \/ \E c \in Calls : h \in made[c]

CleanInv ==
    /\ NoTablesWithoutNamespace
    /\ RowGoesLast
    /\ ~strayed /\ ~trampled => NothingLandsUnderWay
    /\ ~strayed /\ ~trampled /\ faults = 0 => HomesAreOnStacks

LEMMA CleanInvInit == Init => CleanInv
BY DistinctNames
   DEF Init, CleanInv, NoTablesWithoutNamespace, NothingLandsUnderWay,
       RowGoesLast, HomesAreOnStacks, Homes

LEMMA FaultsAreRemembered ==
    ASSUME TypeOK
    PROVE  Fault => faults' # 0
BY MaxFaultsIsNatural DEF TypeOK, Fault

(* While a call has the namespace on its stack, a job that writes has      *)
(* outlived its tenant.                                                    *)
LEMMA WriterHasStrayed ==
    ASSUME TypeOK, SagaInv, ~trampled, NEW t \in Tenants, NEW c \in Calls,
           t \in jobs, "namespace" \in made[c]
    PROVE  TornDown(t)
<1>1. home["namespace"] = c /\ pc[c] \in Provisioning
  BY DEF SagaInv, WorkersOwnTheirHomes, OwnsItsHomes
<1>2. row # c
  BY <1>1, WorkersAreNoTenants DEF Provisioning
<1>3. t # Nobody
  BY DistinctNames DEF Tenants
<1>4. CASE row = t /\ \A d \in Calls : target[d] # t
  BY <1>1, <1>2, <1>3, <1>4, BothAreHomes DEF SagaInv, TenantIsWhole
<1> QED
  BY <1>4 DEF TornDown

LEMMA NamespaceHoldsTables ==
    TypeOK /\ CleanInv /\ [Next]_vars => NoTablesWithoutNamespace'
<1> SUFFICES ASSUME TypeOK, NoTablesWithoutNamespace, [Next]_vars
             PROVE  NoTablesWithoutNamespace'
  BY DEF CleanInv
<1> USE BothAreHomes DEF NoTablesWithoutNamespace, TypeOK
<1>1. ASSUME NEW c \in Calls, Provision(c) PROVE NoTablesWithoutNamespace'
  <2>1. tables' = tables
    BY <1>1
    DEF Provision, CheckRegistry, CreateNamespace, CreateHome, LookUpDatabase,
        CreateDatabase, Register, ProvisionFails, CreateReplyLost, Compensate,
        CompensationFails, Undo, Undone
  <2>2. CASE Compensate(c)
    BY <2>1, <2>2 DEF Compensate, Undo
  <2>3. CASE home'["namespace"] = home["namespace"] \/ home["namespace"] = Nobody
    BY <2>1, <2>3
  <2> QED
    BY <1>1, <2>2, <2>3
    DEF Provision, CheckRegistry, CreateNamespace, CreateHome, LookUpDatabase,
        CreateDatabase, Register, ProvisionFails, CreateReplyLost,
        CompensationFails, Undo, Undone
<1>2. ASSUME NEW c \in Calls, Deprovision(c) PROVE NoTablesWithoutNamespace'
  BY <1>2
  DEF Deprovision, ReadTenant, PurgeTables, DropNamespace, DropDatabase,
      DropHome, DeleteRow, DeprovisionFails
<1>3. ASSUME NEW t \in Tenants,
             JobEnsuresNamespace(t) \/ JobWritesTable(t) \/ JobEnds(t)
      PROVE  NoTablesWithoutNamespace'
  BY <1>3 DEF JobEnsuresNamespace, JobWritesTable, JobEnds
<1>4. CASE home' = home /\ tables' = tables
  BY <1>4
<1> QED
  BY <1>1, <1>2, <1>3, <1>4 DEF Next, Crash, JobResolves, vars

LEMMA StacksStayDroppable ==
    TypeOK /\ SagaInv /\ CleanInv /\ [Next]_vars /\ ~strayed' /\ ~trampled'
      => NothingLandsUnderWay'
<1> SUFFICES ASSUME TypeOK, SagaInv, CleanInv, [Next]_vars, ~strayed',
                    ~trampled', NEW d \in Calls, "namespace" \in made'[d]
             PROVE  ~tables'
  BY DEF NothingLandsUnderWay
<1> USE BothAreHomes
<1>1. ~strayed /\ ~trampled
  BY HistoryGrows
<1>2. "namespace" \in made[d] => ~tables
  BY <1>1 DEF CleanInv, NothingLandsUnderWay
<1>3. ASSUME NEW c \in Calls, Provision(c) PROVE ~tables'
  <2>1. tables' = tables
    BY <1>3
    DEF Provision, CheckRegistry, CreateNamespace, CreateHome, LookUpDatabase,
        CreateDatabase, Register, ProvisionFails, CreateReplyLost, Compensate,
        CompensationFails, Undo, Undone
  <2>2. CASE CreateNamespace(c) /\ home["namespace"] = Nobody
    BY <2>1, <2>2 DEF CleanInv, NoTablesWithoutNamespace
  <2>3. CASE made'[d] \subseteq made[d] \cup {"database"}
    BY <1>2, <2>1, <2>3
  <2>4. \/ made' = made \/ made' = [made EXCEPT ![c] = @ \cup {"database"}]
        \/ made' = [made EXCEPT ![c] = {}]
        \/ \E h \in Homes : made' = [made EXCEPT ![c] = @ \ {h}]
        \/ CreateNamespace(c) /\ home["namespace"] = Nobody
    BY <1>3
    DEF Provision, CheckRegistry, CreateNamespace, CreateHome, LookUpDatabase,
        CreateDatabase, Register, ProvisionFails, CreateReplyLost, Compensate,
        CompensationFails, Undo, Undone
  <2> QED
    BY <2>2, <2>3, <2>4 DEF TypeOK
<1>4. ASSUME NEW c \in Calls, Deprovision(c) \/ Crash(c) PROVE ~tables'
  <2>1. tables' = tables \/ tables' = FALSE
    BY <1>4
    DEF Deprovision, ReadTenant, PurgeTables, DropNamespace, DropDatabase,
        DropHome, DeleteRow, DeprovisionFails, Crash
  <2>2. made'[d] \subseteq made[d]
    BY <1>4
    DEF TypeOK, Deprovision, ReadTenant, PurgeTables, DropNamespace,
        DropDatabase, DropHome, DeleteRow, DeprovisionFails, Crash
  <2> QED
    BY <1>2, <2>1, <2>2
<1>5. ASSUME NEW t \in Tenants, JobWritesTable(t) PROVE ~tables'
  <2>1. t \in jobs /\ made' = made /\ ~TornDown(t)
    BY <1>5 DEF JobWritesTable
  <2> QED
    BY <1>1, <2>1, WriterHasStrayed
<1>6. CASE tables' = tables /\ made' = made
  BY <1>2, <1>6
<1> QED
  BY <1>3, <1>4, <1>5, <1>6
  DEF Next, JobResolves, JobEnsuresNamespace, JobEnds, vars

(* What a teardown has dropped comes back as another call's, or a job's.   *)
LEMMA TeardownInOrder ==
    TypeOK /\ SagaInv /\ CleanInv /\ [Next]_vars => RowGoesLast'
<1> SUFFICES ASSUME TypeOK, SagaInv, CleanInv, [Next]_vars, NEW d \in Calls,
                    pc'[d] \in {"drop database", "delete"}
             PROVE  /\ home'["namespace"] # target'[d]
                    /\ pc'[d] = "delete" => home'["database"] # target'[d]
  BY DEF RowGoesLast
<1> USE BothAreHomes
<1>1. ~ReadTenant(d)
  BY DEF ReadTenant, Goto, TypeOK
<1>2. pc[d] \in Deprovisioning /\ target'[d] = target[d]
  BY <1>1, TeardownGoesOn DEF Deprovisioning
<1>3. target[d] # Nobody
  BY <1>2 DEF SagaInv, TeardownHasTenant
<1>4. target[d] # Job
  BY DistinctNames DEF TypeOK, Tenants
<1>5. ASSUME NEW h \in Homes, home[h] # target[d]
      PROVE  home'[h] # target[d]
  <2>1. ASSUME NEW c \in Calls, pc[c] \in Provisioning PROVE target[d] # c
    BY <2>1, WorkersAreNoTenants DEF Provisioning
  <2>2. ASSUME NEW c \in Calls, Drops(c, h) PROVE home'[h] = Nobody
    BY <2>2, DropMoves DEF TypeOK
  <2> QED
    BY <1>3, <1>4, <1>5, <2>1, <2>2, HomeMoves
<1>6. ASSUME NEW h \in Homes, Drops(d, h) PROVE home'[h] # target[d]
  BY <1>3, <1>6, DropMoves DEF TypeOK
<1>7. /\ pc[d] \in {"drop database", "delete"} => home["namespace"] # target[d]
      /\ pc[d] = "delete" => home["database"] # target[d]
  BY DEF CleanInv, RowGoesLast
<1>8. \/ pc'[d] = pc[d]
      \/ Drops(d, "namespace") /\ pc'[d] = "drop database"
      \/ Drops(d, "database") /\ pc[d] = "drop database"
  <2>1. ASSUME NEW c \in Calls, c # d, Next,
               Provision(c) \/ Deprovision(c) \/ Crash(c)
        PROVE  pc'[d] = pc[d]
    BY <2>1
    DEF TypeOK, Goto, Provision, CheckRegistry, CreateNamespace,
        CreateHome, LookUpDatabase, CreateDatabase, Register,
        ProvisionFails, CreateReplyLost, Compensate, CompensationFails,
        Undo, Undone, Deprovision, ReadTenant, PurgeTables,
        DropNamespace, DropDatabase, DropHome, DeleteRow,
        DeprovisionFails, Crash
  <2>2. CASE Provision(d) \/ Crash(d)
    BY <1>2, <2>2
    DEF TypeOK, Goto, Provision, CheckRegistry, CreateNamespace,
        CreateHome, LookUpDatabase, CreateDatabase, Register,
        ProvisionFails, CreateReplyLost, Compensate, CompensationFails,
        Undo, Undone, Crash, Deprovisioning
  <2>3. CASE Deprovision(d)
    BY <1>1, <2>3
    DEF TypeOK, Goto, Deprovision, PurgeTables, DropNamespace,
        DropDatabase, DropHome, DeleteRow, DeprovisionFails, Drops
  <2> QED
    BY <2>1, <2>2, <2>3
    DEF Next, JobResolves, JobEnsuresNamespace, JobWritesTable, JobEnds, vars
<1> QED
  BY <1>2, <1>5, <1>6, <1>7, <1>8

(* A home stays on the stack it is on, or is dropped from it.              *)
LEMMA StacksKeepHomes ==
    TypeOK /\ SagaInv /\ CleanInv /\ [Next]_vars /\ ~strayed' /\ ~trampled'
      /\ faults' = 0 => HomesAreOnStacks'
<1> SUFFICES ASSUME TypeOK, SagaInv, CleanInv, [Next]_vars, ~strayed',
                    ~trampled', faults' = 0, NEW h \in Homes,
                    home'[h] # Nobody, home'[h] # row'
             PROVE  \E d \in Calls : h \in made'[d]
  BY DEF HomesAreOnStacks
<1> USE BothAreHomes, DistinctNames DEF Goto
<1>1. ~strayed /\ ~trampled
  BY HistoryGrows
<1>2. ~Fault
  BY FaultsAreRemembered
<1>3. faults = 0
  BY <1>2
  DEF Next, Provision, CheckRegistry, CreateNamespace, CreateHome,
      LookUpDatabase, CreateDatabase, Register, ProvisionFails,
      CreateReplyLost, Compensate, CompensationFails, Undo, Undone,
      Deprovision, ReadTenant, PurgeTables, DropNamespace, DropDatabase,
      DropHome, DeleteRow, DeprovisionFails, Crash, JobResolves,
      JobEnsuresNamespace, JobWritesTable, JobEnds, vars
<1>4. home[h] \in {Nobody, row} \/ \E d \in Calls : h \in made[d]
  BY <1>1, <1>3 DEF CleanInv, HomesAreOnStacks
<1>5. CASE /\ row' = row /\ home'[h] = home[h]
           /\ \A d \in Calls : made[d] \cap {h} \subseteq made'[d]
  BY <1>4, <1>5
<1>6. ASSUME NEW c \in Calls, Provision(c)
      PROVE  \E d \in Calls : h \in made'[d]
  <2>1. CASE CreateNamespace(c) \/ CreateDatabase(c)
    <3>1. PICK g \in Homes, next \in {"look up database", "register"} :
            CreateHome(c, g, next)
      BY <2>1 DEF CreateNamespace, CreateDatabase
    <3>2. CASE home[g] = Nobody
      <4>1. /\ home' = [home EXCEPT ![g] = c]
            /\ made' = [made EXCEPT ![c] = @ \cup {g}]
            /\ row' = row
        BY <3>1, <3>2 DEF CreateHome
      <4>2. \A d \in Calls : made[d] \subseteq made'[d]
        BY <4>1 DEF TypeOK
      <4>3. CASE h = g
        BY <4>1, <4>3 DEF TypeOK
      <4>4. CASE h # g
        BY <1>5, <4>1, <4>2, <4>4 DEF TypeOK
      <4> QED
        BY <4>3, <4>4
    <3>3. CASE home[g] # Nobody
      BY <1>5, <3>1, <3>3 DEF CreateHome
    <3> QED
      BY <3>2, <3>3
  <2>2. CASE Compensate(c)
    <3>1. PICK g \in Homes : Undo(c, g, g = "namespace" => ~tables)
      BY <2>2 DEF Compensate
    <3>2. g = "namespace" => ~tables
      BY <1>1, <3>1 DEF Undo, CleanInv, NothingLandsUnderWay
    <3>3. /\ home' = [home EXCEPT ![g] = Nobody]
          /\ made' = [made EXCEPT ![c] = @ \ {g}]
          /\ row' = row
      BY <3>1, <3>2 DEF Undo
    <3>4. h # g
      BY <3>3 DEF TypeOK
    <3>5. home'[h] = home[h] /\ \A d \in Calls : made[d] \cap {h} \subseteq made'[d]
      BY <3>3, <3>4 DEF TypeOK
    <3> QED
      BY <1>5, <3>3, <3>5
  <2>3. CASE Register(c) /\ row = Nobody
    <3>1. pc[c] = "register" /\ home' = home /\ row' = c
      BY <2>3 DEF Register
    <3>2. home[h] = c
      BY <1>1, <3>1 DEF SagaInv, WorkersOwnTheirHomes, OwnsItsHomes
    <3> QED
      BY <3>1, <3>2
  <2>4. CASE Register(c) /\ row # Nobody
    BY <1>5, <2>4 DEF Register
  <2>5. CASE CheckRegistry(c) \/ LookUpDatabase(c) \/ ProvisionFails(c) \/ Undone(c)
    BY <1>5, <2>5
    DEF CheckRegistry, LookUpDatabase, ProvisionFails, Undone
  <2> QED
    BY <1>2, <1>6, <2>1, <2>2, <2>3, <2>4, <2>5
    DEF Provision, CreateReplyLost, CompensationFails
<1>7. ASSUME NEW c \in Calls, Deprovision(c)
      PROVE  \E d \in Calls : h \in made'[d]
  <2>1. made' = made
    BY <1>7
    DEF Deprovision, ReadTenant, PurgeTables, DropNamespace, DropDatabase,
        DropHome, DeleteRow, DeprovisionFails
  <2>2. CASE DeleteRow(c) /\ row = target[c]
    <3>1. pc[c] = "delete" /\ home' = home
      BY <2>2 DEF DeleteRow
    <3>2. home[h] # row
      BY <2>2, <3>1 DEF CleanInv, RowGoesLast, Homes
    <3> QED
      BY <1>4, <2>1, <3>1, <3>2
  <2>3. CASE row' = row /\ home'[h] = home[h]
    BY <1>5, <2>1, <2>3
  <2>4. CASE DropNamespace(c) \/ DropDatabase(c)
    <3>1. row' = row
      BY <2>4 DEF DropNamespace, DropDatabase, DropHome
    <3>2. home'[h] = home[h]
      BY <2>4 DEF DropNamespace, DropDatabase, DropHome, TypeOK
    <3> QED
      BY <2>3, <3>1, <3>2
  <2> QED
    BY <1>7, <2>2, <2>3, <2>4
    DEF Deprovision, ReadTenant, PurgeTables, DeleteRow, DeprovisionFails
<1>8. ASSUME NEW t \in Tenants, JobEnsuresNamespace(t)
      PROVE  FALSE
  <2>1. /\ home["namespace"] = Nobody /\ row = t
        /\ \A c \in Calls : target[c] # row
    BY <1>8 DEF JobEnsuresNamespace, TornDown
  <2>2. t # Nobody
    BY DEF Tenants
  <2> QED
    BY <1>1, <2>1, <2>2 DEF SagaInv, TenantIsWhole, Tenants
<1>9. CASE row' = row /\ home' = home /\ made' = made
  BY <1>5, <1>9
<1> QED
  BY <1>2, <1>6, <1>7, <1>8, <1>9
  DEF Next, Crash, JobResolves, JobWritesTable, JobEnds, vars

(* A slug without a tenant, on which no call is at work, has neither       *)
(* namespace nor database, if nothing crashed, no reply and no             *)
(* compensation was lost, no job outlived its tenant and no teardown       *)
(* trampled: whatever number of calls failed, raced or overlapped.         *)
THEOREM NothingIsLeftBehind == Spec => []FreeSlugIsClean
<1>1. TypeOK /\ SagaInv /\ CleanInv /\ [Next]_vars => CleanInv'
  BY NamespaceHoldsTables, StacksStayDroppable, TeardownInOrder, StacksKeepHomes
  DEF CleanInv
<1>2. SagaInv /\ CleanInv => FreeSlugIsClean
  <2> SUFFICES ASSUME SagaInv, CleanInv, Quiet, row = Nobody, faults = 0,
                      ~strayed, ~trampled, NEW h \in Homes, home[h] # Nobody
               PROVE  FALSE
    BY DEF FreeSlugIsClean
  <2>1. PICK c \in Calls : h \in made[c]
    BY DEF CleanInv, HomesAreOnStacks
  <2>2. pc[c] \in Provisioning
    BY <2>1 DEF SagaInv, WorkersOwnTheirHomes, OwnsItsHomes
  <2> QED
    BY <2>2 DEF Quiet, Running
<1> QED
  BY <1>1, <1>2, CleanInvInit, TypeCorrect, SagaIsKept, PTL DEF Spec
=============================================================================
