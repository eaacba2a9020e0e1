----------------------- MODULE ClusterLifecycleProofs -----------------------
(***************************************************************************)
(* What holds of ClusterLifecycle for every set of machines and jobs: its  *)
(* types, what guards transitional statuses and the first control node,    *)
(* and what deletion guarantees: rows that are gone stay gone, a cluster   *)
(* delete that succeeds has removed the machines it listed, no server is   *)
(* lost silently, and the first control node goes last unless a row is     *)
(* inserted behind the check.                                              *)
(***************************************************************************)
EXTENDS ClusterLifecycle, FiniteSetTheorems, TLAPS

\* Every variable keeps its type: each status is one the code writes, each
\* stage one its tasks have.
THEOREM TypeCorrect == Spec => []TypeOK
<1>1. Init => TypeOK
  BY LifecycleAssumption DEF Init, TypeOK, ClusterStatus, MachineStatus, RequestKinds, Stages, ClusterStages, Running, Final, Over, PrepStates, TermStates, Pending
<1>2. TypeOK /\ [Next]_vars => TypeOK'
  <2> SUFFICES ASSUME TypeOK, [Next]_vars
               PROVE  TypeOK'
    OBVIOUS
  <2>1. ASSUME NEW j \in Jobs, Request(j)
        PROVE  TypeOK'
    <3>1. ASSUME NEW S \in SUBSET Machines, CreateCluster(j, S) PROVE TypeOK'
      BY <3>1 DEF CreateCluster, Accept, Goto, clusterVars, machineVars,
        jobVars, termVars, TypeOK, ClusterStatus, Stages, ClusterStages,
        Running, Final, Over, RequestKinds
    <3>2. ASSUME NEW S \in SUBSET Machines, PerformAddMachines(j, S) PROVE TypeOK'
      BY <3>2 DEF PerformAddMachines, Accept, Goto, clusterVars,
        machineVars, jobVars, termVars, TypeOK, Stages, ClusterStages,
        Running, Final, Over, RequestKinds
    <3>3. ASSUME NEW m \in Machines, PostMachine(j, m) PROVE TypeOK'
      BY <3>3 DEF PostMachine, Accept, Goto, clusterVars, machineVars,
        jobVars, termVars, TypeOK, MachineStatus, Stages, ClusterStages,
        Running, Final, Over, RequestKinds, PrepStates
    <3>4. ASSUME NEW S \in SUBSET Machines, PerformDeleteMachines(j, S) PROVE TypeOK'
      BY <3>4 DEF PerformDeleteMachines, Accept, Goto, SetMachineStatus,
        CacheKubeconfig, Endpoint, clusterVars, machineVars, jobVars,
        termVars, TypeOK, MachineStatus, Stages, ClusterStages, Running,
        Final, Over, RequestKinds
    <3>5. ASSUME NEW m \in Machines, DeleteMachine(j, m) PROVE TypeOK'
      BY <3>5 DEF DeleteMachine, Accept, Goto, SetMachineStatus,
        clusterVars, machineVars, jobVars, termVars, TypeOK, MachineStatus,
        Stages, ClusterStages, Running, Final, Over, RequestKinds
    <3>6. CASE DeleteCluster(j)
      BY <3>6 DEF DeleteCluster, Accept, Goto, clusterVars, machineVars,
        jobVars, termVars, TypeOK, ClusterStatus, Stages, ClusterStages,
        Running, Final, Over, RequestKinds
    <3>7. CASE PerformSyncstatus(j)
      BY <3>7 DEF PerformSyncstatus, Accept, Goto, clusterVars,
        machineVars, jobVars, termVars, TypeOK, Stages, ClusterStages,
        Running, Final, Over, RequestKinds
    <3> QED
      BY <2>1, <3>1, <3>2, <3>3, <3>4, <3>5, <3>6, <3>7 DEF Request
  <2>2. ASSUME NEW j \in Jobs, TaskStep(j)
        PROVE  TypeOK'
    <3>1. CASE StageOfDeletedRow(j)
      BY <3>1 DEF StageOfDeletedRow, Goto, clusterVars, machineVars,
        jobVars, termVars, TypeOK, Stages, ClusterStages, Running, Final, Over
    <3>2. CASE CreateOnInit(j)
      BY <3>2 DEF CreateOnInit, Stage, Goto, SetStatus, clusterVars,
        machineVars, jobVars, termVars, TypeOK, ClusterStatus, Stages,
        ClusterStages, Running, Final, Over
    <3>3. CASE CreateMachinesOnInit(j)
      <4>1. status' \in ClusterStatus \cup {"absent", "gone"}
        BY <3>3 DEF CreateMachinesOnInit, TypeOK, SetStatus,
          ClusterStatus, CreateMachinesError
      <4>2. pc' \in [Jobs -> Stages]
        BY <3>3 DEF CreateMachinesOnInit, TypeOK, Goto, Stages,
          ClusterStages, Running, Final, Over, CreateMachinesError
      <4>3. todo' \in [Jobs -> SUBSET Machines]
        BY <3>3 DEF CreateMachinesOnInit, TypeOK
      <4> QED
        BY <3>3, <4>1, <4>2, <4>3 DEF CreateMachinesOnInit, TypeOK,
          clusterVars, machineVars, jobVars, termVars
    <3>4. ASSUME NEW m \in Machines, InsertMachine(j, m) PROVE TypeOK'
      BY <3>4 DEF InsertMachine, Goto, clusterVars, machineVars, jobVars,
        termVars, TypeOK, MachineStatus, Stages, ClusterStages, Running,
        Final, Over
    <3>5. CASE InsertFail(j)
      BY <3>5 DEF InsertFail, Goto, SetStatus, CreateMachinesError,
        clusterVars, machineVars, jobVars, termVars, TypeOK, ClusterStatus,
        Stages, ClusterStages, Running, Final, Over
    <3>6. CASE DeployFirst(j)
      <4>1. CASE ms[j] \cap first = {}
        BY <3>6, <4>1 DEF DeployFirst, Goto, StartMachineCreateTask,
          SetMachineStatus, clusterVars, machineVars, jobVars, termVars,
          TypeOK, MachineStatus, Stages, ClusterStages, Running, Final, Over,
          PrepStates
      <4>2. CASE ~(ms[j] \cap first = {})
        <5>1. PICK m \in ms[j] \cap first : StartMachineCreateTask(m)
          BY <3>6, <4>2 DEF DeployFirst
        <5>2. mstat' \in [Machines -> MachineStatus \cup {"none", "gone"}]
          BY <5>1 DEF StartMachineCreateTask, SetMachineStatus, MachineStatus, TypeOK
        <5>3. prep' \in [Machines -> PrepStates]
          BY <5>1 DEF StartMachineCreateTask, PrepStates, TypeOK
        <5>4. pc' \in [Jobs -> Stages] /\ todo' \in [Jobs -> SUBSET Machines]
          BY <3>6, <4>2 DEF DeployFirst, Goto, TypeOK, Stages, ClusterStages,
            Running, Final, Over
        <5> QED
          BY <3>6, <5>2, <5>3, <5>4 DEF DeployFirst, TypeOK, clusterVars, termVars
      <4> QED
        BY <4>1, <4>2
    <3>7. CASE WaitMachineRunning(j)
      BY <3>7 DEF WaitMachineRunning, Goto, clusterVars, machineVars,
        jobVars, termVars, TypeOK, Stages, ClusterStages, Running, Final, Over
    <3>8. ASSUME NEW m \in Machines, DeployRest(j, m) PROVE TypeOK'
      BY <3>8 DEF DeployRest, StartMachineCreateTask, SetMachineStatus,
        clusterVars, machineVars, jobVars, termVars, TypeOK, MachineStatus,
        PrepStates
    <3>9. CASE Deployed(j)
      BY <3>9 DEF Deployed, Goto, clusterVars, machineVars, jobVars,
        termVars, TypeOK, Stages, ClusterStages, Running, Final, Over
    <3>10. CASE OnMachinesCreatedFailed(j)
      BY <3>10 DEF OnMachinesCreatedFailed, Stage, Goto, SetStatus,
        CreateMachinesError, clusterVars, machineVars, jobVars, termVars,
        TypeOK, ClusterStatus, Stages, ClusterStages, Running, Final, Over
    <3>11. CASE CreateSetFailed(j)
      BY <3>11 DEF CreateSetFailed, Stage, Goto, SetStatus, clusterVars,
        machineVars, jobVars, termVars, TypeOK, ClusterStatus, Stages,
        ClusterStages, Running, Final, Over
    <3>12. CASE ApplyAddons(j)
      <4>1. kube' \in Machines \cup {NoMachine}
        BY <3>12 DEF ApplyAddons, CacheKubeconfig, Endpoint, TypeOK
      <4>2. \E p \in {"ssInit", "createFailed"} : Goto(j, p)
        BY <3>12 DEF ApplyAddons
      <4>3. pc' \in [Jobs -> Stages]
        BY <4>2 DEF Goto, TypeOK, Stages, ClusterStages
      <4> QED
        BY <3>12, <4>1, <4>3 DEF ApplyAddons, TypeOK, machineVars, termVars
    <3>13. CASE ClusterSync(j)
      <4>1. /\ UNCHANGED <<status, kube, machineVars, kind, ms, todo, seen, termVars, probe>>
            /\ client' \in {"present", "absent"}
        BY <3>13 DEF ClusterSync, SyncOnInit, SyncAddClient, SyncCallSyncTask,
          clusterVars, TypeOK
      <4>2. \E p \in {"syncAdd", "syncing", "ok", "createFailed", "blocked"} : Goto(j, p)
        BY <3>13 DEF ClusterSync, SyncOnInit, SyncAddClient, SyncCallSyncTask
      <4>3. pc' \in [Jobs -> Stages]
        BY <4>2 DEF Goto, TypeOK, Stages, ClusterStages, Running, Final, Over
      <4> QED
        BY <4>1, <4>3 DEF TypeOK, machineVars, termVars
    <3>14. CASE SyncstatusOnInit(j)
      <4>1. status' \in ClusterStatus \cup {"absent", "gone"}
        BY <3>14 DEF SyncstatusOnInit, TypeOK, SetStatus, ClusterStatus
      <4>2. pc' \in [Jobs -> Stages]
        BY <3>14 DEF SyncstatusOnInit, TypeOK, Goto, Stages,
          ClusterStages, Running, Final, Over, AfterSyncstatus
      <4>3. seen' \in [Jobs -> ClusterStatus \cup {"none", "absent", "gone"}]
        BY <3>14 DEF SyncstatusOnInit, TypeOK
      <4> QED
        BY <3>14, <4>1, <4>2, <4>3 DEF SyncstatusOnInit, TypeOK,
          clusterVars, machineVars, jobVars, termVars
    <3>15. CASE SyncstatusRun(j)
      <4>1. status' \in ClusterStatus \cup {"absent", "gone"}
        BY <3>15 DEF SyncstatusRun, SetStatus, TypeOK, ClusterStatus
      <4>2. kube' \in Machines \cup {NoMachine}
        BY <3>15 DEF SyncstatusRun, CacheKubeconfig, Endpoint, TypeOK
      <4>3. pc' \in [Jobs -> Stages]
        <5>1. \E p \in {"sync", "delFinish", "ok", "ssFailed"} : Goto(j, p)
          BY <3>15 DEF SyncstatusRun, AfterSyncstatus
        <5> QED
          BY <5>1 DEF Goto, TypeOK, Stages, ClusterStages, Running, Final, Over
      <4>4. seen' \in [Jobs -> ClusterStatus \cup {"none", "absent", "gone"}]
        BY <3>15 DEF SyncstatusRun, TypeOK
      <4> QED
        BY <3>15, <4>1, <4>2, <4>3, <4>4 DEF SyncstatusRun, TypeOK,
          machineVars, termVars
    <3>16. CASE SyncstatusSetFailed(j)
      BY <3>16 DEF SyncstatusSetFailed, Stage, Goto, SetStatus,
        clusterVars, machineVars, jobVars, termVars, TypeOK, ClusterStatus,
        Stages, ClusterStages, Running, Final, Over
    <3>17. CASE DeleteOnInit(j)
      <4>1. status' \in ClusterStatus \cup {"absent", "gone"}
        BY <3>17 DEF DeleteOnInit, TypeOK, SetStatus, ClusterStatus,
          RealDeleteCluster
      <4>2. mstat' \in [Machines -> MachineStatus \cup {"none", "gone"}]
        BY <3>17 DEF DeleteOnInit, TypeOK, SetMachineStatus, MachineStatus
      <4>3. pc' \in [Jobs -> Stages]
        BY <3>17 DEF DeleteOnInit, TypeOK, Goto, Stages, ClusterStages,
          Running, Final, Over, RealDeleteCluster
      <4>4. ms' \in [Jobs -> SUBSET Machines]
        BY <3>17 DEF DeleteOnInit, TypeOK, Rows
      <4> QED
        BY <3>17, <4>1, <4>2, <4>3, <4>4 DEF DeleteOnInit, TypeOK,
          clusterVars, machineVars, jobVars, termVars
    <3>18. CASE OnMachinesDeleted(j)
      BY <3>18 DEF OnMachinesDeleted, Stage, Goto, SetStatus,
        RealDeleteCluster, clusterVars, machineVars, jobVars, termVars,
        TypeOK, ClusterStatus, Stages, ClusterStages, Running, Final, Over
    <3>19. CASE DeleteSetFailed(j)
      BY <3>19 DEF DeleteSetFailed, Stage, Goto, SetStatus, clusterVars,
        machineVars, jobVars, termVars, TypeOK, ClusterStatus, Stages,
        ClusterStages, Running, Final, Over
    <3>20. CASE DeleteMachinesOnInit(j)
      <4>1. status' \in ClusterStatus \cup {"absent", "gone"}
        BY <3>20 DEF DeleteMachinesOnInit, DeleteMachinesError, SetStatus,
          TypeOK, ClusterStatus
      <4>2. pc' \in [Jobs -> Stages]
        BY <3>20 DEF DeleteMachinesOnInit, DeleteMachinesError, Goto, TypeOK,
          Stages, ClusterStages, Running, Final, Over
      <4> QED
        BY <3>20, <4>1, <4>2 DEF DeleteMachinesOnInit, TypeOK, machineVars,
          termVars
    <3>21. CASE OnDeleteMachinesFailed(j)
      BY <3>21 DEF OnDeleteMachinesFailed, Stage, Goto, SetStatus,
        DeleteMachinesError, clusterVars, machineVars, jobVars, termVars,
        TypeOK, ClusterStatus, Stages, ClusterStages, Running, Final, Over
    <3>22. CASE OnDeleteMachines(j)
      BY <3>22 DEF OnDeleteMachines, Stage, Goto, clusterVars,
        machineVars, jobVars, termVars, TypeOK, Stages, ClusterStages,
        Running, Final, Over
    <3>23. CASE BatchLoad(j)
      <4>1. pc' \in [Jobs -> Stages]
        <5>1. \E p \in {"spawn", "dmFailed"} : Goto(j, p)
          BY <3>23 DEF BatchLoad
        <5> QED
          BY <5>1 DEF Goto, TypeOK, Stages, ClusterStages, Running
      <4>2. todo' \in [Jobs -> SUBSET Machines]
        BY <3>23 DEF BatchLoad, TypeOK
      <4> QED
        BY <3>23, <4>1, <4>2 DEF BatchLoad, TypeOK, clusterVars,
          machineVars, jobVars, termVars
    <3>24. ASSUME NEW m \in Machines, MarkTerminating(j, m) PROVE TypeOK'
      BY <3>24 DEF MarkTerminating, SetMachineStatus, clusterVars,
        machineVars, jobVars, termVars, TypeOK, MachineStatus, TermStates,
        Pending
    <3>25. ASSUME NEW m \in Machines, StartTerminateTask(j, m) PROVE TypeOK'
      BY <3>25 DEF StartTerminateTask, Goto, clusterVars, machineVars,
        jobVars, termVars, TypeOK, Stages, ClusterStages, Running, Final, Over,
        TermStates, Pending
    <3>26. CASE BatchOnDeleteMachines(j)
      <4>1. mstat' \in [Machines -> MachineStatus \cup {"none", "gone"}]
        BY <3>26 DEF BatchOnDeleteMachines, SetMachineStatus, TypeOK
      <4>2. \E p \in {"dmOk", "dmFailed"} : Goto(j, p)
        BY <3>26 DEF BatchOnDeleteMachines
      <4>3. pc' \in [Jobs -> Stages]
        BY <4>2 DEF Goto, TypeOK, Stages, ClusterStages
      <4> QED
        BY <3>26, <4>1, <4>3 DEF BatchOnDeleteMachines, TypeOK, clusterVars, termVars
    <3>27. CASE BatchOnDeleteMachinesFailed(j)
      BY <3>27 DEF BatchOnDeleteMachinesFailed, Goto, clusterVars,
        machineVars, jobVars, termVars, TypeOK, Stages, ClusterStages,
        Running, Final, Over
    <3> QED
      BY <2>2, <3>1, <3>2, <3>3, <3>4, <3>5, <3>6, <3>7, <3>8, <3>9,
        <3>10, <3>11, <3>12, <3>13, <3>14, <3>15, <3>16, <3>17, <3>18,
        <3>19, <3>20, <3>21, <3>22, <3>23, <3>24, <3>25, <3>26, <3>27 DEF
        TaskStep
  <2>3. ASSUME NEW j \in Jobs, NEW m \in Machines, TerminateStep(j, m)
        PROVE  TypeOK'
    <3>1. CASE TerminateLoad(j, m)
      <4>1. \E t \in TermStates : term' = [term EXCEPT ![j][m] = t]
        BY <3>1 DEF TerminateLoad, TerminateEnds, TermStates, Pending
      <4>2. term' \in [Jobs -> [Machines -> TermStates]]
        BY <4>1 DEF TypeOK
      <4>3. sched' \in [Jobs -> SUBSET Final]
        BY <3>1 DEF TerminateLoad, TypeOK, TerminateEnds, Final, Over
      <4> QED
        BY <3>1, <4>2, <4>3 DEF TerminateLoad, TypeOK, clusterVars,
          machineVars, jobVars
    <3>2. CASE TerminateSkip(j, m)
      BY <3>2 DEF TerminateSkip, TerminateEnds, clusterVars, machineVars,
        jobVars, termVars, TypeOK, TermStates, Pending, Final, Over
    <3>3. CASE TerminateServer(j, m)
      BY <3>3 DEF TerminateServer, TerminateEnds, clusterVars,
        machineVars, jobVars, termVars, TypeOK, TermStates, Pending, Final, Over
    <3>4. CASE TerminateFail(j, m)
      BY <3>4 DEF TerminateFail, TerminateEnds, SetMachineStatus,
        clusterVars, machineVars, jobVars, termVars, TypeOK, MachineStatus,
        TermStates, Pending, Final, Over
    <3> QED
      BY <2>3, <3>1, <3>2, <3>3, <3>4 DEF TerminateStep
  <2>4. ASSUME NEW m \in Machines, MachineStep(m)
        PROVE  TypeOK'
    <3>1. CASE MachineCreateOnInit(m)
      <4>1. mstat' \in [Machines -> MachineStatus \cup {"none", "gone"}]
        BY <3>1 DEF MachineCreateOnInit, SetMachineStatus, MachineStatus, TypeOK
      <4>2. prep' \in [Machines -> PrepStates]
        BY <3>1 DEF MachineCreateOnInit, PrepStates, TypeOK
      <4> QED
        BY <3>1, <4>1, <4>2 DEF MachineCreateOnInit, TypeOK, clusterVars,
          jobVars, termVars
    <3>2. CASE PrepareLoad(m)
      BY <3>2 DEF PrepareLoad, clusterVars, machineVars, jobVars,
        termVars, TypeOK, PrepStates
    <3>3. CASE PrepareCreateServer(m)
      BY <3>3 DEF PrepareCreateServer, CacheKubeconfig, Endpoint,
        clusterVars, machineVars, jobVars, termVars, TypeOK, PrepStates
    <3>4. CASE PrepareOk(m)
      BY <3>4 DEF PrepareOk, SetMachineStatus, clusterVars, machineVars,
        jobVars, termVars, TypeOK, MachineStatus, PrepStates
    <3>5. CASE PrepareOnError(m)
      BY <3>5 DEF PrepareOnError, SetMachineStatus, CacheKubeconfig,
        Endpoint, clusterVars, machineVars, jobVars, termVars, TypeOK,
        MachineStatus, PrepStates
    <3>6. CASE OnMachinePreparedFailed(m)
      BY <3>6 DEF OnMachinePreparedFailed, SetMachineStatus, clusterVars,
        machineVars, jobVars, termVars, TypeOK, MachineStatus, PrepStates
    <3> QED
      BY <2>4, <3>1, <3>2, <3>3, <3>4, <3>5, <3>6 DEF MachineStep
  <2>5. ASSUME HealthCheck
        PROVE  TypeOK'
    <3>1. CASE HealthLoad
      BY <3>1 DEF HealthLoad, clusterVars, machineVars, jobVars, termVars,
        TypeOK
    <3>2. CASE Healthy
      BY <3>2 DEF Healthy, SetStatus, CacheKubeconfig, Endpoint,
        clusterVars, machineVars, jobVars, termVars, TypeOK, ClusterStatus
    <3>3. CASE Unhealthy
      BY <3>3 DEF Unhealthy, SetStatus, CacheKubeconfig, Endpoint,
        clusterVars, machineVars, jobVars, termVars, TypeOK, ClusterStatus
    <3>4. CASE HealthUpdateClient
      BY <3>4 DEF HealthUpdateClient, SetStatus, clusterVars, machineVars,
        jobVars, termVars, TypeOK, ClusterStatus
    <3> QED
      BY <2>5, <3>1, <3>2, <3>3, <3>4 DEF HealthCheck
  <2>6. CASE UNCHANGED vars
      BY <2>6 DEF vars, TypeOK
  <2> QED
    BY <2>1, <2>2, <2>3, <2>4, <2>5, <2>6 DEF Next
<1> QED
  BY <1>1, <1>2, PTL DEF Spec

-----------------------------------------------------------------------------
(* No row is stranded in a transitional status *)

\* The stages of the create tasks belong to create and add requests, and the
\* cluster a create request synchronises is past its creation.
CreatePath ==
    \A j \in Jobs :
        /\ pc[j] \in {"createInit", "cmInit", "insert", "deploy", "waitFirst",
                      "rest", "deployFailed", "addons", "sync", "syncAdd", "syncing"}
           => kind[j] \in {"create", "add"}
        /\ pc[j] \in {"syncAdd", "syncing"} => status \notin {"absent", "creating"}

\* Every step keeps create stages to create jobs.
LEMMA CreatePathStep == TypeOK /\ TypeOK' /\ CreatePath /\ [Next]_vars => CreatePath'
<1> SUFFICES ASSUME TypeOK, TypeOK', CreatePath, [Next]_vars
             PROVE  CreatePath'
  OBVIOUS
<1>1. ASSUME NEW j \in Jobs, Request(j)
      PROVE  CreatePath'
  <2>1. ASSUME NEW S \in SUBSET Machines, CreateCluster(j, S) PROVE CreatePath'
    BY <2>1 DEF CreateCluster, Accept, Goto, clusterVars, machineVars,
      jobVars, termVars, TypeOK, CreatePath
  <2>2. ASSUME NEW S \in SUBSET Machines, PerformAddMachines(j, S) PROVE CreatePath'
    BY <2>2 DEF PerformAddMachines, Accept, Goto, clusterVars,
      machineVars, jobVars, termVars, TypeOK, CreatePath
  <2>3. ASSUME NEW m \in Machines, PostMachine(j, m) PROVE CreatePath'
    BY <2>3 DEF PostMachine, Accept, Goto, clusterVars, machineVars,
      jobVars, termVars, TypeOK, CreatePath
  <2>4. ASSUME NEW S \in SUBSET Machines, PerformDeleteMachines(j, S) PROVE CreatePath'
    BY <2>4 DEF PerformDeleteMachines, Accept, Goto, SetMachineStatus,
      CacheKubeconfig, Endpoint, clusterVars, machineVars, jobVars,
      termVars, TypeOK, CreatePath
  <2>5. ASSUME NEW m \in Machines, DeleteMachine(j, m) PROVE CreatePath'
    BY <2>5 DEF DeleteMachine, Accept, Goto, SetMachineStatus,
      clusterVars, machineVars, jobVars, termVars, TypeOK, CreatePath
  <2>6. CASE DeleteCluster(j)
    BY <2>6 DEF DeleteCluster, Accept, Goto, clusterVars, machineVars,
      jobVars, termVars, TypeOK, CreatePath
  <2>7. CASE PerformSyncstatus(j)
    BY <2>7 DEF PerformSyncstatus, Accept, Goto, clusterVars,
      machineVars, jobVars, termVars, TypeOK, CreatePath
  <2> QED
    BY <1>1, <2>1, <2>2, <2>3, <2>4, <2>5, <2>6, <2>7 DEF Request
<1>2. ASSUME NEW j \in Jobs, TaskStep(j)
      PROVE  CreatePath'
  <2>1. CASE StageOfDeletedRow(j)
    BY <2>1 DEF StageOfDeletedRow, Goto, clusterVars, machineVars,
      jobVars, termVars, TypeOK, CreatePath
  <2>2. CASE CreateOnInit(j)
    BY <2>2 DEF CreateOnInit, Stage, Goto, SetStatus, clusterVars,
      machineVars, jobVars, termVars, TypeOK, CreatePath
  <2>3. CASE CreateMachinesOnInit(j)
    BY <2>3 DEF CreateMachinesOnInit, Stage, Goto, SetStatus,
      CreateMachinesError, clusterVars, machineVars, jobVars, termVars,
      TypeOK, CreatePath
  <2>4. ASSUME NEW m \in Machines, InsertMachine(j, m) PROVE CreatePath'
    BY <2>4 DEF InsertMachine, Goto, clusterVars, machineVars, jobVars,
      termVars, TypeOK, CreatePath
  <2>5. CASE InsertFail(j)
    BY <2>5 DEF InsertFail, Goto, SetStatus, CreateMachinesError,
      clusterVars, machineVars, jobVars, termVars, TypeOK, CreatePath
  <2>6. CASE DeployFirst(j)
    BY <2>6 DEF DeployFirst, Goto, StartMachineCreateTask,
      SetMachineStatus, clusterVars, machineVars, jobVars, termVars,
      TypeOK, CreatePath
  <2>7. CASE WaitMachineRunning(j)
    BY <2>7 DEF WaitMachineRunning, Goto, clusterVars, machineVars,
      jobVars, termVars, TypeOK, CreatePath
  <2>8. ASSUME NEW m \in Machines, DeployRest(j, m) PROVE CreatePath'
    BY <2>8 DEF DeployRest, StartMachineCreateTask, SetMachineStatus,
      clusterVars, machineVars, jobVars, termVars, TypeOK, CreatePath
  <2>9. CASE Deployed(j)
    BY <2>9 DEF Deployed, Goto, clusterVars, machineVars, jobVars,
      termVars, TypeOK, CreatePath
  <2>10. CASE OnMachinesCreatedFailed(j)
    BY <2>10 DEF OnMachinesCreatedFailed, Stage, Goto, SetStatus,
      CreateMachinesError, clusterVars, machineVars, jobVars, termVars,
      TypeOK, CreatePath
  <2>11. CASE CreateSetFailed(j)
    BY <2>11 DEF CreateSetFailed, Stage, Goto, SetStatus, clusterVars,
      machineVars, jobVars, termVars, TypeOK, CreatePath
  <2>12. CASE ApplyAddons(j)
    BY <2>12 DEF ApplyAddons, Stage, Goto, CacheKubeconfig, Endpoint,
      clusterVars, machineVars, jobVars, termVars, TypeOK, CreatePath
  <2>13. CASE ClusterSync(j)
    BY <2>13 DEF ClusterSync, SyncOnInit, SyncAddClient, SyncCallSyncTask, Stage, Goto, clusterVars, machineVars,
      jobVars, termVars, TypeOK, CreatePath
  <2>14. CASE SyncstatusOnInit(j)
    BY <2>14 DEF SyncstatusOnInit, Stage, Goto, SetStatus,
      AfterSyncstatus, clusterVars, machineVars, jobVars, termVars,
      TypeOK, CreatePath
  <2>15. CASE SyncstatusRun(j)
    BY <2>15 DEF SyncstatusRun, Goto, SetStatus, AfterSyncstatus,
      CacheKubeconfig, Endpoint, clusterVars, machineVars, jobVars,
      termVars, TypeOK, CreatePath
  <2>16. CASE SyncstatusSetFailed(j)
    BY <2>16 DEF SyncstatusSetFailed, Stage, Goto, SetStatus,
      clusterVars, machineVars, jobVars, termVars, TypeOK, CreatePath
  <2>17. CASE DeleteOnInit(j)
    BY <2>17 DEF DeleteOnInit, Stage, Goto, SetStatus, SetMachineStatus,
      RealDeleteCluster, Rows, clusterVars, machineVars, jobVars,
      termVars, TypeOK, CreatePath
  <2>18. CASE OnMachinesDeleted(j)
    BY <2>18 DEF OnMachinesDeleted, Stage, Goto, SetStatus,
      RealDeleteCluster, clusterVars, machineVars, jobVars, termVars,
      TypeOK, CreatePath
  <2>19. CASE DeleteSetFailed(j)
    BY <2>19 DEF DeleteSetFailed, Stage, Goto, SetStatus, clusterVars,
      machineVars, jobVars, termVars, TypeOK, CreatePath
  <2>20. CASE DeleteMachinesOnInit(j)
    BY <2>20 DEF DeleteMachinesOnInit, Stage, Goto, SetStatus,
      DeleteMachinesError, clusterVars, machineVars, jobVars, termVars,
      TypeOK, CreatePath
  <2>21. CASE OnDeleteMachinesFailed(j)
    BY <2>21 DEF OnDeleteMachinesFailed, Stage, Goto, SetStatus,
      DeleteMachinesError, clusterVars, machineVars, jobVars, termVars,
      TypeOK, CreatePath
  <2>22. CASE OnDeleteMachines(j)
    BY <2>22 DEF OnDeleteMachines, Stage, Goto, clusterVars,
      machineVars, jobVars, termVars, TypeOK, CreatePath
  <2>23. CASE BatchLoad(j)
    BY <2>23 DEF BatchLoad, Goto, clusterVars, machineVars, jobVars,
      termVars, TypeOK, CreatePath
  <2>24. ASSUME NEW m \in Machines, MarkTerminating(j, m) PROVE CreatePath'
    BY <2>24 DEF MarkTerminating, SetMachineStatus, clusterVars,
      machineVars, jobVars, termVars, TypeOK, CreatePath
  <2>25. ASSUME NEW m \in Machines, StartTerminateTask(j, m) PROVE CreatePath'
    BY <2>25 DEF StartTerminateTask, Goto, clusterVars, machineVars,
      jobVars, termVars, TypeOK, CreatePath
  <2>26. CASE BatchOnDeleteMachines(j)
    BY <2>26 DEF BatchOnDeleteMachines, Goto, SetMachineStatus,
      clusterVars, machineVars, jobVars, termVars, TypeOK, CreatePath
  <2>27. CASE BatchOnDeleteMachinesFailed(j)
    BY <2>27 DEF BatchOnDeleteMachinesFailed, Goto, clusterVars,
      machineVars, jobVars, termVars, TypeOK, CreatePath
  <2> QED
    BY <1>2, <2>1, <2>2, <2>3, <2>4, <2>5, <2>6, <2>7, <2>8, <2>9,
      <2>10, <2>11, <2>12, <2>13, <2>14, <2>15, <2>16, <2>17, <2>18,
      <2>19, <2>20, <2>21, <2>22, <2>23, <2>24, <2>25, <2>26, <2>27 DEF
      TaskStep
<1>3. ASSUME NEW j \in Jobs, NEW m \in Machines, TerminateStep(j, m)
      PROVE  CreatePath'
  <2>1. CASE TerminateLoad(j, m)
    BY <2>1 DEF TerminateLoad, TerminateEnds, clusterVars, machineVars,
      jobVars, termVars, TypeOK, CreatePath
  <2>2. CASE TerminateSkip(j, m)
    BY <2>2 DEF TerminateSkip, TerminateEnds, clusterVars, machineVars,
      jobVars, termVars, TypeOK, CreatePath
  <2>3. CASE TerminateServer(j, m)
    BY <2>3 DEF TerminateServer, TerminateEnds, clusterVars,
      machineVars, jobVars, termVars, TypeOK, CreatePath
  <2>4. CASE TerminateFail(j, m)
    BY <2>4 DEF TerminateFail, TerminateEnds, SetMachineStatus,
      clusterVars, machineVars, jobVars, termVars, TypeOK, CreatePath
  <2> QED
    BY <1>3, <2>1, <2>2, <2>3, <2>4 DEF TerminateStep
<1>4. ASSUME NEW m \in Machines, MachineStep(m)
      PROVE  CreatePath'
  <2>1. CASE MachineCreateOnInit(m)
    BY <2>1 DEF MachineCreateOnInit, SetMachineStatus, clusterVars,
      machineVars, jobVars, termVars, TypeOK, CreatePath
  <2>2. CASE PrepareLoad(m)
    BY <2>2 DEF PrepareLoad, clusterVars, machineVars, jobVars,
      termVars, TypeOK, CreatePath
  <2>3. CASE PrepareCreateServer(m)
    BY <2>3 DEF PrepareCreateServer, CacheKubeconfig, Endpoint,
      clusterVars, machineVars, jobVars, termVars, TypeOK, CreatePath
  <2>4. CASE PrepareOk(m)
    BY <2>4 DEF PrepareOk, SetMachineStatus, clusterVars, machineVars,
      jobVars, termVars, TypeOK, CreatePath
  <2>5. CASE PrepareOnError(m)
    BY <2>5 DEF PrepareOnError, SetMachineStatus, CacheKubeconfig,
      Endpoint, clusterVars, machineVars, jobVars, termVars, TypeOK,
      CreatePath
  <2>6. CASE OnMachinePreparedFailed(m)
    BY <2>6 DEF OnMachinePreparedFailed, SetMachineStatus, clusterVars,
      machineVars, jobVars, termVars, TypeOK, CreatePath
  <2> QED
    BY <1>4, <2>1, <2>2, <2>3, <2>4, <2>5, <2>6 DEF MachineStep
<1>5. ASSUME HealthCheck
      PROVE  CreatePath'
  <2>1. CASE HealthLoad
    BY <2>1 DEF HealthLoad, clusterVars, machineVars, jobVars, termVars,
      TypeOK, CreatePath
  <2>2. CASE Healthy
    BY <2>2 DEF Healthy, SetStatus, CacheKubeconfig, Endpoint,
      clusterVars, machineVars, jobVars, termVars, TypeOK, CreatePath
  <2>3. CASE Unhealthy
    BY <2>3 DEF Unhealthy, SetStatus, CacheKubeconfig, Endpoint,
      clusterVars, machineVars, jobVars, termVars, TypeOK, CreatePath
  <2>4. CASE HealthUpdateClient
    BY <2>4 DEF HealthUpdateClient, SetStatus, clusterVars, machineVars,
      jobVars, termVars, TypeOK, CreatePath
  <2> QED
    BY <1>5, <2>1, <2>2, <2>3, <2>4 DEF HealthCheck
<1>6. CASE UNCHANGED vars
    BY <1>6 DEF vars, TypeOK, CreatePath
<1> QED
  BY <1>1, <1>2, <1>3, <1>4, <1>5, <1>6 DEF Next

\* A job other than j keeps its place, so the tasks behind the cluster's status
\* are kept if j is not over or was not one of them.
LEMMA KeepWitness ==
    ASSUME ClusterNotStuck, NEW j \in Jobs, kind' = kind,
           \A k \in Jobs : k # j => pc'[k] = pc[k],
           status' = "creating" => /\ status = "creating"
                                   /\ kind[j] = "create" => pc'[j] \notin Over,
           status' = "deleting" => /\ status = "deleting"
                                   /\ kind[j] = "delete" => pc'[j] \notin Over
    PROVE  ClusterNotStuck'
<1>1. ASSUME status' = "creating"
      PROVE  \E k \in Jobs : kind'[k] = "create" /\ pc'[k] \notin Over
  <2>1. PICK k \in Jobs : kind[k] = "create" /\ pc[k] \notin Over
    BY <1>1 DEF ClusterNotStuck
  <2> QED
    BY <1>1, <2>1
<1>2. ASSUME status' = "deleting"
      PROVE  \E k \in Jobs : kind'[k] = "delete" /\ pc'[k] \notin Over
  <2>1. PICK k \in Jobs : kind[k] = "delete" /\ pc[k] \notin Over
    BY <1>2 DEF ClusterNotStuck
  <2> QED
    BY <1>2, <2>1
<1> QED
  BY <1>1, <1>2 DEF ClusterNotStuck

\* Every step keeps a task behind a creating or deleting cluster.
LEMMA ClusterNotStuckStep == TypeOK /\ TypeOK' /\ CreatePath /\ ClusterNotStuck /\ [Next]_vars => ClusterNotStuck'
<1> SUFFICES ASSUME TypeOK, TypeOK', CreatePath, ClusterNotStuck, [Next]_vars
             PROVE  ClusterNotStuck'
  OBVIOUS
<1>1. ASSUME NEW j \in Jobs, Request(j)
      PROVE  ClusterNotStuck'
  <2>1. ASSUME NEW S \in SUBSET Machines, CreateCluster(j, S) PROVE ClusterNotStuck'
    BY <2>1 DEF CreateCluster, Accept, Goto, clusterVars, machineVars,
      jobVars, termVars, TypeOK, ClusterNotStuck, CreatePath, Final, Over
  <2>2. ASSUME NEW S \in SUBSET Machines, PerformAddMachines(j, S) PROVE ClusterNotStuck'
    BY <2>2 DEF PerformAddMachines, Accept, Goto, clusterVars,
      machineVars, jobVars, termVars, TypeOK, ClusterNotStuck, CreatePath,
      Final, Over
  <2>3. ASSUME NEW m \in Machines, PostMachine(j, m) PROVE ClusterNotStuck'
    BY <2>3 DEF PostMachine, Accept, Goto, clusterVars, machineVars,
      jobVars, termVars, TypeOK, ClusterNotStuck, CreatePath, Final, Over
  <2>4. ASSUME NEW S \in SUBSET Machines, PerformDeleteMachines(j, S) PROVE ClusterNotStuck'
    BY <2>4 DEF PerformDeleteMachines, Accept, Goto, SetMachineStatus,
      CacheKubeconfig, Endpoint, clusterVars, machineVars, jobVars,
      termVars, TypeOK, ClusterNotStuck, CreatePath, Final, Over
  <2>5. ASSUME NEW m \in Machines, DeleteMachine(j, m) PROVE ClusterNotStuck'
    BY <2>5 DEF DeleteMachine, Accept, Goto, SetMachineStatus,
      clusterVars, machineVars, jobVars, termVars, TypeOK,
      ClusterNotStuck, CreatePath, Final, Over
  <2>6. CASE DeleteCluster(j)
    BY <2>6 DEF DeleteCluster, Accept, Goto, clusterVars, machineVars,
      jobVars, termVars, TypeOK, ClusterNotStuck, CreatePath, Final, Over
  <2>7. CASE PerformSyncstatus(j)
    BY <2>7 DEF PerformSyncstatus, Accept, Goto, clusterVars,
      machineVars, jobVars, termVars, TypeOK, ClusterNotStuck, CreatePath,
      Final, Over
  <2> QED
    BY <1>1, <2>1, <2>2, <2>3, <2>4, <2>5, <2>6, <2>7 DEF Request
<1>2. ASSUME NEW j \in Jobs, TaskStep(j)
      PROVE  ClusterNotStuck'
  <2>1. CASE StageOfDeletedRow(j)
    BY <2>1 DEF StageOfDeletedRow, Goto, clusterVars, machineVars,
      jobVars, termVars, TypeOK, ClusterNotStuck, CreatePath, Final, Over
  <2>2. CASE CreateOnInit(j)
    <3>1. kind' = kind /\ \A k \in Jobs : k # j => pc'[k] = pc[k]
      BY <2>2 DEF CreateOnInit, Stage, Goto, SetStatus, TypeOK
    <3>2. /\ status' = "creating" =>
                /\ status = "creating"
                /\ kind[j] = "create" => pc'[j] \notin Over
          /\ status' = "deleting" =>
                /\ status = "deleting"
                /\ kind[j] = "delete" => pc'[j] \notin Over
      BY <2>2 DEF CreateOnInit, Stage, Goto, SetStatus, Final, Over, clusterVars, CreatePath, TypeOK
    <3> QED
      BY <3>1, <3>2, KeepWitness
  <2>3. CASE CreateMachinesOnInit(j)
    <3>1. kind' = kind /\ \A k \in Jobs : k # j => pc'[k] = pc[k]
      BY <2>3 DEF CreateMachinesOnInit, Stage, Goto, SetStatus, CreateMachinesError, TypeOK
    <3>2. /\ status' = "creating" =>
                /\ status = "creating"
                /\ kind[j] = "create" => pc'[j] \notin Over
          /\ status' = "deleting" =>
                /\ status = "deleting"
                /\ kind[j] = "delete" => pc'[j] \notin Over
      BY <2>3 DEF CreateMachinesOnInit, Stage, Goto, SetStatus, CreateMachinesError, Final, Over, clusterVars, CreatePath, TypeOK
    <3> QED
      BY <3>1, <3>2, KeepWitness
  <2>4. ASSUME NEW m \in Machines, InsertMachine(j, m) PROVE ClusterNotStuck'
    BY <2>4 DEF InsertMachine, Goto, clusterVars, machineVars, jobVars,
      termVars, TypeOK, ClusterNotStuck, CreatePath, Final, Over
  <2>5. CASE InsertFail(j)
    BY <2>5 DEF InsertFail, Goto, SetStatus, CreateMachinesError,
      clusterVars, machineVars, jobVars, termVars, TypeOK,
      ClusterNotStuck, CreatePath, Final, Over
  <2>6. CASE DeployFirst(j)
    <3>1. kind' = kind /\ status' = status /\ \A k \in Jobs : k # j => pc'[k] = pc[k]
      BY <2>6 DEF DeployFirst, Goto, clusterVars, TypeOK
    <3>2. pc'[j] \notin Over
      BY <2>6 DEF DeployFirst, Goto, Final, Over, TypeOK
    <3> QED
      BY <3>1, <3>2, KeepWitness
  <2>7. CASE WaitMachineRunning(j)
    <3>1. kind' = kind /\ \A k \in Jobs : k # j => pc'[k] = pc[k]
      BY <2>7 DEF WaitMachineRunning, Goto, TypeOK
    <3>2. /\ status' = "creating" =>
                /\ status = "creating"
                /\ kind[j] = "create" => pc'[j] \notin Over
          /\ status' = "deleting" =>
                /\ status = "deleting"
                /\ kind[j] = "delete" => pc'[j] \notin Over
      BY <2>7 DEF WaitMachineRunning, Goto, Final, Over, clusterVars, CreatePath, TypeOK
    <3> QED
      BY <3>1, <3>2, KeepWitness
  <2>8. ASSUME NEW m \in Machines, DeployRest(j, m) PROVE ClusterNotStuck'
    BY <2>8 DEF DeployRest, StartMachineCreateTask, SetMachineStatus,
      clusterVars, machineVars, jobVars, termVars, TypeOK,
      ClusterNotStuck, CreatePath, Final, Over
  <2>9. CASE Deployed(j)
    BY <2>9 DEF Deployed, Goto, clusterVars, machineVars, jobVars,
      termVars, TypeOK, ClusterNotStuck, CreatePath, Final, Over
  <2>10. CASE OnMachinesCreatedFailed(j)
    BY <2>10 DEF OnMachinesCreatedFailed, Stage, Goto, SetStatus,
      CreateMachinesError, clusterVars, machineVars, jobVars, termVars,
      TypeOK, ClusterNotStuck, CreatePath, Final, Over
  <2>11. CASE CreateSetFailed(j)
    BY <2>11 DEF CreateSetFailed, Stage, Goto, SetStatus, clusterVars,
      machineVars, jobVars, termVars, TypeOK, ClusterNotStuck, CreatePath,
      Final, Over
  <2>12. CASE ApplyAddons(j)
    <3>1. kind' = kind /\ \A k \in Jobs : k # j => pc'[k] = pc[k]
      BY <2>12 DEF ApplyAddons, Stage, Goto, TypeOK
    <3>2. /\ status' = "creating" =>
                /\ status = "creating"
                /\ kind[j] = "create" => pc'[j] \notin Over
          /\ status' = "deleting" =>
                /\ status = "deleting"
                /\ kind[j] = "delete" => pc'[j] \notin Over
      BY <2>12 DEF ApplyAddons, Stage, Goto, Final, Over, clusterVars, CreatePath, TypeOK
    <3> QED
      BY <3>1, <3>2, KeepWitness
  <2>13. CASE ClusterSync(j)
    <3>1. kind' = kind /\ \A k \in Jobs : k # j => pc'[k] = pc[k]
      BY <2>13 DEF ClusterSync, SyncOnInit, SyncAddClient, SyncCallSyncTask, Stage, Goto, TypeOK
    <3>2. /\ status' = "creating" =>
                /\ status = "creating"
                /\ kind[j] = "create" => pc'[j] \notin Over
          /\ status' = "deleting" =>
                /\ status = "deleting"
                /\ kind[j] = "delete" => pc'[j] \notin Over
      BY <2>13 DEF ClusterSync, SyncOnInit, SyncAddClient, SyncCallSyncTask, Stage, Goto, Final, Over, clusterVars, CreatePath, TypeOK
    <3> QED
      BY <3>1, <3>2, KeepWitness
  <2>14. CASE SyncstatusOnInit(j)
    <3>1. kind' = kind /\ \A k \in Jobs : k # j => pc'[k] = pc[k]
      BY <2>14 DEF SyncstatusOnInit, Stage, Goto, SetStatus, AfterSyncstatus, TypeOK
    <3>2. /\ status' = "creating" =>
                /\ status = "creating"
                /\ kind[j] = "create" => pc'[j] \notin Over
          /\ status' = "deleting" =>
                /\ status = "deleting"
                /\ kind[j] = "delete" => pc'[j] \notin Over
      BY <2>14 DEF SyncstatusOnInit, Stage, Goto, SetStatus, AfterSyncstatus, Final, Over, clusterVars, CreatePath, TypeOK
    <3> QED
      BY <3>1, <3>2, KeepWitness
  <2>15. CASE SyncstatusRun(j)
    <3>1. kind' = kind /\ \A k \in Jobs : k # j => pc'[k] = pc[k]
      BY <2>15 DEF SyncstatusRun, Goto, SetStatus, AfterSyncstatus, TypeOK
    <3>2. /\ status' = "creating" =>
                /\ status = "creating"
                /\ kind[j] = "create" => pc'[j] \notin Over
          /\ status' = "deleting" =>
                /\ status = "deleting"
                /\ kind[j] = "delete" => pc'[j] \notin Over
      BY <2>15 DEF SyncstatusRun, Goto, SetStatus, AfterSyncstatus, Final, Over, clusterVars, CreatePath, TypeOK
    <3> QED
      BY <3>1, <3>2, KeepWitness
  <2>16. CASE SyncstatusSetFailed(j)
    BY <2>16 DEF SyncstatusSetFailed, Stage, Goto, SetStatus,
      clusterVars, machineVars, jobVars, termVars, TypeOK,
      ClusterNotStuck, CreatePath, Final, Over
  <2>17. CASE DeleteOnInit(j)
    <3>1. kind' = kind /\ \A k \in Jobs : k # j => pc'[k] = pc[k]
      BY <2>17 DEF DeleteOnInit, Stage, Goto, SetStatus, RealDeleteCluster, TypeOK
    <3>2. /\ status' = "creating" =>
                /\ status = "creating"
                /\ kind[j] = "create" => pc'[j] \notin Over
          /\ status' = "deleting" =>
                /\ status = "deleting"
                /\ kind[j] = "delete" => pc'[j] \notin Over
      BY <2>17 DEF DeleteOnInit, Stage, Goto, SetStatus, RealDeleteCluster, Final, Over, clusterVars, CreatePath, TypeOK
    <3> QED
      BY <3>1, <3>2, KeepWitness
  <2>18. CASE OnMachinesDeleted(j)
    BY <2>18 DEF OnMachinesDeleted, Stage, Goto, SetStatus,
      RealDeleteCluster, clusterVars, machineVars, jobVars, termVars,
      TypeOK, ClusterNotStuck, CreatePath, Final, Over
  <2>19. CASE DeleteSetFailed(j)
    BY <2>19 DEF DeleteSetFailed, Stage, Goto, SetStatus, clusterVars,
      machineVars, jobVars, termVars, TypeOK, ClusterNotStuck, CreatePath,
      Final, Over
  <2>20. CASE DeleteMachinesOnInit(j)
    <3>1. kind' = kind /\ \A k \in Jobs : k # j => pc'[k] = pc[k]
      BY <2>20 DEF DeleteMachinesOnInit, Stage, Goto, SetStatus, DeleteMachinesError, TypeOK
    <3>2. /\ status' = "creating" =>
                /\ status = "creating"
                /\ kind[j] = "create" => pc'[j] \notin Over
          /\ status' = "deleting" =>
                /\ status = "deleting"
                /\ kind[j] = "delete" => pc'[j] \notin Over
      BY <2>20 DEF DeleteMachinesOnInit, Stage, Goto, SetStatus, DeleteMachinesError, Final, Over, clusterVars, CreatePath, TypeOK
    <3> QED
      BY <3>1, <3>2, KeepWitness
  <2>21. CASE OnDeleteMachinesFailed(j)
    BY <2>21 DEF OnDeleteMachinesFailed, Stage, Goto, SetStatus,
      DeleteMachinesError, clusterVars, machineVars, jobVars, termVars,
      TypeOK, ClusterNotStuck, CreatePath, Final, Over
  <2>22. CASE OnDeleteMachines(j)
    BY <2>22 DEF OnDeleteMachines, Stage, Goto, clusterVars,
      machineVars, jobVars, termVars, TypeOK, ClusterNotStuck, CreatePath,
      Final, Over
  <2>23. CASE BatchLoad(j)
    <3>1. kind' = kind /\ \A k \in Jobs : k # j => pc'[k] = pc[k]
      BY <2>23 DEF BatchLoad, Goto, TypeOK
    <3>2. /\ status' = "creating" =>
                /\ status = "creating"
                /\ kind[j] = "create" => pc'[j] \notin Over
          /\ status' = "deleting" =>
                /\ status = "deleting"
                /\ kind[j] = "delete" => pc'[j] \notin Over
      BY <2>23 DEF BatchLoad, Goto, Final, Over, clusterVars, CreatePath, TypeOK
    <3> QED
      BY <3>1, <3>2, KeepWitness
  <2>24. ASSUME NEW m \in Machines, MarkTerminating(j, m) PROVE ClusterNotStuck'
    BY <2>24 DEF MarkTerminating, SetMachineStatus, clusterVars,
      machineVars, jobVars, termVars, TypeOK, ClusterNotStuck, CreatePath,
      Final, Over
  <2>25. ASSUME NEW m \in Machines, StartTerminateTask(j, m) PROVE ClusterNotStuck'
    BY <2>25 DEF StartTerminateTask, Goto, clusterVars, machineVars,
      jobVars, termVars, TypeOK, ClusterNotStuck, CreatePath, Final, Over
  <2>26. CASE BatchOnDeleteMachines(j)
    <3>1. kind' = kind /\ \A k \in Jobs : k # j => pc'[k] = pc[k]
      BY <2>26 DEF BatchOnDeleteMachines, Goto, TypeOK
    <3>2. /\ status' = "creating" =>
                /\ status = "creating"
                /\ kind[j] = "create" => pc'[j] \notin Over
          /\ status' = "deleting" =>
                /\ status = "deleting"
                /\ kind[j] = "delete" => pc'[j] \notin Over
      BY <2>26 DEF BatchOnDeleteMachines, Goto, Final, Over, clusterVars, CreatePath, TypeOK
    <3> QED
      BY <3>1, <3>2, KeepWitness
  <2>27. CASE BatchOnDeleteMachinesFailed(j)
    BY <2>27 DEF BatchOnDeleteMachinesFailed, Goto, clusterVars,
      machineVars, jobVars, termVars, TypeOK, ClusterNotStuck, CreatePath,
      Final, Over
  <2> QED
    BY <1>2, <2>1, <2>2, <2>3, <2>4, <2>5, <2>6, <2>7, <2>8, <2>9,
      <2>10, <2>11, <2>12, <2>13, <2>14, <2>15, <2>16, <2>17, <2>18,
      <2>19, <2>20, <2>21, <2>22, <2>23, <2>24, <2>25, <2>26, <2>27 DEF
      TaskStep
<1>3. ASSUME NEW j \in Jobs, NEW m \in Machines, TerminateStep(j, m)
      PROVE  ClusterNotStuck'
  <2>1. CASE TerminateLoad(j, m)
    BY <2>1 DEF TerminateLoad, TerminateEnds, clusterVars, machineVars,
      jobVars, termVars, TypeOK, ClusterNotStuck, CreatePath, Final, Over
  <2>2. CASE TerminateSkip(j, m)
    BY <2>2 DEF TerminateSkip, TerminateEnds, clusterVars, machineVars,
      jobVars, termVars, TypeOK, ClusterNotStuck, CreatePath, Final, Over
  <2>3. CASE TerminateServer(j, m)
    BY <2>3 DEF TerminateServer, TerminateEnds, clusterVars,
      machineVars, jobVars, termVars, TypeOK, ClusterNotStuck, CreatePath,
      Final, Over
  <2>4. CASE TerminateFail(j, m)
    BY <2>4 DEF TerminateFail, TerminateEnds, SetMachineStatus,
      clusterVars, machineVars, jobVars, termVars, TypeOK,
      ClusterNotStuck, CreatePath, Final, Over
  <2> QED
    BY <1>3, <2>1, <2>2, <2>3, <2>4 DEF TerminateStep
<1>4. ASSUME NEW m \in Machines, MachineStep(m)
      PROVE  ClusterNotStuck'
  <2>1. CASE MachineCreateOnInit(m)
    BY <2>1 DEF MachineCreateOnInit, SetMachineStatus, clusterVars,
      machineVars, jobVars, termVars, TypeOK, ClusterNotStuck, CreatePath,
      Final, Over
  <2>2. CASE PrepareLoad(m)
    BY <2>2 DEF PrepareLoad, clusterVars, machineVars, jobVars,
      termVars, TypeOK, ClusterNotStuck, CreatePath, Final, Over
  <2>3. CASE PrepareCreateServer(m)
    BY <2>3 DEF PrepareCreateServer, CacheKubeconfig, Endpoint,
      clusterVars, machineVars, jobVars, termVars, TypeOK,
      ClusterNotStuck, CreatePath, Final, Over
  <2>4. CASE PrepareOk(m)
    BY <2>4 DEF PrepareOk, SetMachineStatus, clusterVars, machineVars,
      jobVars, termVars, TypeOK, ClusterNotStuck, CreatePath, Final, Over
  <2>5. CASE PrepareOnError(m)
    BY <2>5 DEF PrepareOnError, SetMachineStatus, CacheKubeconfig,
      Endpoint, clusterVars, machineVars, jobVars, termVars, TypeOK,
      ClusterNotStuck, CreatePath, Final, Over
  <2>6. CASE OnMachinePreparedFailed(m)
    BY <2>6 DEF OnMachinePreparedFailed, SetMachineStatus, clusterVars,
      machineVars, jobVars, termVars, TypeOK, ClusterNotStuck, CreatePath,
      Final, Over
  <2> QED
    BY <1>4, <2>1, <2>2, <2>3, <2>4, <2>5, <2>6 DEF MachineStep
<1>5. ASSUME HealthCheck
      PROVE  ClusterNotStuck'
  <2>1. CASE HealthLoad
    BY <2>1 DEF HealthLoad, clusterVars, machineVars, jobVars, termVars,
      TypeOK, ClusterNotStuck, CreatePath, Final, Over
  <2>2. CASE Healthy
    BY <2>2 DEF Healthy, SetStatus, CacheKubeconfig, Endpoint,
      clusterVars, machineVars, jobVars, termVars, TypeOK,
      ClusterNotStuck, CreatePath, Final, Over
  <2>3. CASE Unhealthy
    BY <2>3 DEF Unhealthy, SetStatus, CacheKubeconfig, Endpoint,
      clusterVars, machineVars, jobVars, termVars, TypeOK,
      ClusterNotStuck, CreatePath, Final, Over
  <2>4. CASE HealthUpdateClient
    BY <2>4 DEF HealthUpdateClient, SetStatus, clusterVars, machineVars,
      jobVars, termVars, TypeOK, ClusterNotStuck, CreatePath, Final, Over
  <2> QED
    BY <1>5, <2>1, <2>2, <2>3, <2>4 DEF HealthCheck
<1>6. CASE UNCHANGED vars
    BY <1>6 DEF vars, TypeOK, ClusterNotStuck, CreatePath, Final, Over
<1> QED
  BY <1>1, <1>2, <1>3, <1>4, <1>5, <1>6 DEF Next

\* Every step keeps a task behind a creating or preparing machine.
LEMMA MachineNotStuckStep == TypeOK /\ TypeOK' /\ MachineNotStuck /\ [Next]_vars => MachineNotStuck'
<1> SUFFICES ASSUME TypeOK, TypeOK', MachineNotStuck, [Next]_vars
             PROVE  MachineNotStuck'
  OBVIOUS
<1>1. ASSUME NEW j \in Jobs, Request(j)
      PROVE  MachineNotStuck'
  <2>1. ASSUME NEW S \in SUBSET Machines, CreateCluster(j, S) PROVE MachineNotStuck'
    BY <2>1 DEF CreateCluster, Accept, Goto, clusterVars, machineVars,
      jobVars, termVars, TypeOK, MachineNotStuck, Rows
  <2>2. ASSUME NEW S \in SUBSET Machines, PerformAddMachines(j, S) PROVE MachineNotStuck'
    BY <2>2 DEF PerformAddMachines, Accept, Goto, clusterVars,
      machineVars, jobVars, termVars, TypeOK, MachineNotStuck, Rows
  <2>3. ASSUME NEW m \in Machines, PostMachine(j, m) PROVE MachineNotStuck'
    BY <2>3 DEF PostMachine, Accept, Goto, clusterVars, machineVars,
      jobVars, termVars, TypeOK, MachineNotStuck, Rows
  <2>4. ASSUME NEW S \in SUBSET Machines, PerformDeleteMachines(j, S) PROVE MachineNotStuck'
    BY <2>4 DEF PerformDeleteMachines, Accept, Goto, SetMachineStatus,
      CacheKubeconfig, Endpoint, clusterVars, machineVars, jobVars,
      termVars, TypeOK, MachineNotStuck, Rows
  <2>5. ASSUME NEW m \in Machines, DeleteMachine(j, m) PROVE MachineNotStuck'
    BY <2>5 DEF DeleteMachine, Accept, Goto, SetMachineStatus,
      clusterVars, machineVars, jobVars, termVars, TypeOK,
      MachineNotStuck, Rows
  <2>6. CASE DeleteCluster(j)
    BY <2>6 DEF DeleteCluster, Accept, Goto, clusterVars, machineVars,
      jobVars, termVars, TypeOK, MachineNotStuck, Rows
  <2>7. CASE PerformSyncstatus(j)
    BY <2>7 DEF PerformSyncstatus, Accept, Goto, clusterVars,
      machineVars, jobVars, termVars, TypeOK, MachineNotStuck, Rows
  <2> QED
    BY <1>1, <2>1, <2>2, <2>3, <2>4, <2>5, <2>6, <2>7 DEF Request
<1>2. ASSUME NEW j \in Jobs, TaskStep(j)
      PROVE  MachineNotStuck'
  <2>1. CASE StageOfDeletedRow(j)
    BY <2>1 DEF StageOfDeletedRow, Goto, clusterVars, machineVars,
      jobVars, termVars, TypeOK, MachineNotStuck, Rows
  <2>2. CASE CreateOnInit(j)
    BY <2>2 DEF CreateOnInit, Stage, Goto, SetStatus, clusterVars,
      machineVars, jobVars, termVars, TypeOK, MachineNotStuck, Rows
  <2>3. CASE CreateMachinesOnInit(j)
    BY <2>3 DEF CreateMachinesOnInit, Stage, Goto, SetStatus,
      CreateMachinesError, clusterVars, machineVars, jobVars, termVars,
      TypeOK, MachineNotStuck, Rows
  <2>4. ASSUME NEW m \in Machines, InsertMachine(j, m) PROVE MachineNotStuck'
    BY <2>4 DEF InsertMachine, Goto, clusterVars, machineVars, jobVars,
      termVars, TypeOK, MachineNotStuck, Rows
  <2>5. CASE InsertFail(j)
    BY <2>5 DEF InsertFail, Goto, SetStatus, CreateMachinesError,
      clusterVars, machineVars, jobVars, termVars, TypeOK,
      MachineNotStuck, Rows
  <2>6. CASE DeployFirst(j)
    BY <2>6 DEF DeployFirst, Goto, StartMachineCreateTask,
      SetMachineStatus, clusterVars, machineVars, jobVars, termVars,
      TypeOK, MachineNotStuck, Rows
  <2>7. CASE WaitMachineRunning(j)
    BY <2>7 DEF WaitMachineRunning, Goto, clusterVars, machineVars,
      jobVars, termVars, TypeOK, MachineNotStuck, Rows
  <2>8. ASSUME NEW m \in Machines, DeployRest(j, m) PROVE MachineNotStuck'
    BY <2>8 DEF DeployRest, StartMachineCreateTask, SetMachineStatus,
      clusterVars, machineVars, jobVars, termVars, TypeOK,
      MachineNotStuck, Rows
  <2>9. CASE Deployed(j)
    BY <2>9 DEF Deployed, Goto, clusterVars, machineVars, jobVars,
      termVars, TypeOK, MachineNotStuck, Rows
  <2>10. CASE OnMachinesCreatedFailed(j)
    BY <2>10 DEF OnMachinesCreatedFailed, Stage, Goto, SetStatus,
      CreateMachinesError, clusterVars, machineVars, jobVars, termVars,
      TypeOK, MachineNotStuck, Rows
  <2>11. CASE CreateSetFailed(j)
    BY <2>11 DEF CreateSetFailed, Stage, Goto, SetStatus, clusterVars,
      machineVars, jobVars, termVars, TypeOK, MachineNotStuck, Rows
  <2>12. CASE ApplyAddons(j)
    BY <2>12 DEF ApplyAddons, Stage, Goto, CacheKubeconfig, Endpoint,
      clusterVars, machineVars, jobVars, termVars, TypeOK,
      MachineNotStuck, Rows
  <2>13. CASE ClusterSync(j)
    BY <2>13 DEF ClusterSync, SyncOnInit, SyncAddClient, SyncCallSyncTask, Stage, Goto, clusterVars, machineVars,
      jobVars, termVars, TypeOK, MachineNotStuck, Rows
  <2>14. CASE SyncstatusOnInit(j)
    BY <2>14 DEF SyncstatusOnInit, Stage, Goto, SetStatus,
      AfterSyncstatus, clusterVars, machineVars, jobVars, termVars,
      TypeOK, MachineNotStuck, Rows
  <2>15. CASE SyncstatusRun(j)
    BY <2>15 DEF SyncstatusRun, Goto, SetStatus, AfterSyncstatus,
      CacheKubeconfig, Endpoint, clusterVars, machineVars, jobVars,
      termVars, TypeOK, MachineNotStuck, Rows
  <2>16. CASE SyncstatusSetFailed(j)
    BY <2>16 DEF SyncstatusSetFailed, Stage, Goto, SetStatus,
      clusterVars, machineVars, jobVars, termVars, TypeOK,
      MachineNotStuck, Rows
  <2>17. CASE DeleteOnInit(j)
    BY <2>17 DEF DeleteOnInit, Stage, Goto, SetStatus, SetMachineStatus,
      RealDeleteCluster, Rows, clusterVars, machineVars, jobVars,
      termVars, TypeOK, MachineNotStuck, Rows
  <2>18. CASE OnMachinesDeleted(j)
    BY <2>18 DEF OnMachinesDeleted, Stage, Goto, SetStatus,
      RealDeleteCluster, clusterVars, machineVars, jobVars, termVars,
      TypeOK, MachineNotStuck, Rows
  <2>19. CASE DeleteSetFailed(j)
    BY <2>19 DEF DeleteSetFailed, Stage, Goto, SetStatus, clusterVars,
      machineVars, jobVars, termVars, TypeOK, MachineNotStuck, Rows
  <2>20. CASE DeleteMachinesOnInit(j)
    BY <2>20 DEF DeleteMachinesOnInit, Stage, Goto, SetStatus,
      DeleteMachinesError, clusterVars, machineVars, jobVars, termVars,
      TypeOK, MachineNotStuck, Rows
  <2>21. CASE OnDeleteMachinesFailed(j)
    BY <2>21 DEF OnDeleteMachinesFailed, Stage, Goto, SetStatus,
      DeleteMachinesError, clusterVars, machineVars, jobVars, termVars,
      TypeOK, MachineNotStuck, Rows
  <2>22. CASE OnDeleteMachines(j)
    BY <2>22 DEF OnDeleteMachines, Stage, Goto, clusterVars,
      machineVars, jobVars, termVars, TypeOK, MachineNotStuck, Rows
  <2>23. CASE BatchLoad(j)
    BY <2>23 DEF BatchLoad, Goto, clusterVars, machineVars, jobVars,
      termVars, TypeOK, MachineNotStuck, Rows
  <2>24. ASSUME NEW m \in Machines, MarkTerminating(j, m) PROVE MachineNotStuck'
    BY <2>24 DEF MarkTerminating, SetMachineStatus, clusterVars,
      machineVars, jobVars, termVars, TypeOK, MachineNotStuck, Rows
  <2>25. ASSUME NEW m \in Machines, StartTerminateTask(j, m) PROVE MachineNotStuck'
    BY <2>25 DEF StartTerminateTask, Goto, clusterVars, machineVars,
      jobVars, termVars, TypeOK, MachineNotStuck, Rows
  <2>26. CASE BatchOnDeleteMachines(j)
    BY <2>26 DEF BatchOnDeleteMachines, Goto, SetMachineStatus,
      clusterVars, machineVars, jobVars, termVars, TypeOK,
      MachineNotStuck, Rows
  <2>27. CASE BatchOnDeleteMachinesFailed(j)
    BY <2>27 DEF BatchOnDeleteMachinesFailed, Goto, clusterVars,
      machineVars, jobVars, termVars, TypeOK, MachineNotStuck, Rows
  <2> QED
    BY <1>2, <2>1, <2>2, <2>3, <2>4, <2>5, <2>6, <2>7, <2>8, <2>9,
      <2>10, <2>11, <2>12, <2>13, <2>14, <2>15, <2>16, <2>17, <2>18,
      <2>19, <2>20, <2>21, <2>22, <2>23, <2>24, <2>25, <2>26, <2>27 DEF
      TaskStep
<1>3. ASSUME NEW j \in Jobs, NEW m \in Machines, TerminateStep(j, m)
      PROVE  MachineNotStuck'
  <2>1. CASE TerminateLoad(j, m)
    BY <2>1 DEF TerminateLoad, TerminateEnds, clusterVars, machineVars,
      jobVars, termVars, TypeOK, MachineNotStuck, Rows
  <2>2. CASE TerminateSkip(j, m)
    BY <2>2 DEF TerminateSkip, TerminateEnds, clusterVars, machineVars,
      jobVars, termVars, TypeOK, MachineNotStuck, Rows
  <2>3. CASE TerminateServer(j, m)
    BY <2>3 DEF TerminateServer, TerminateEnds, clusterVars,
      machineVars, jobVars, termVars, TypeOK, MachineNotStuck, Rows
  <2>4. CASE TerminateFail(j, m)
    BY <2>4 DEF TerminateFail, TerminateEnds, SetMachineStatus,
      clusterVars, machineVars, jobVars, termVars, TypeOK,
      MachineNotStuck, Rows
  <2> QED
    BY <1>3, <2>1, <2>2, <2>3, <2>4 DEF TerminateStep
<1>4. ASSUME NEW m \in Machines, MachineStep(m)
      PROVE  MachineNotStuck'
  <2>1. CASE MachineCreateOnInit(m)
    BY <2>1 DEF MachineCreateOnInit, SetMachineStatus, clusterVars,
      machineVars, jobVars, termVars, TypeOK, MachineNotStuck, Rows
  <2>2. CASE PrepareLoad(m)
    BY <2>2 DEF PrepareLoad, clusterVars, machineVars, jobVars,
      termVars, TypeOK, MachineNotStuck, Rows
  <2>3. CASE PrepareCreateServer(m)
    BY <2>3 DEF PrepareCreateServer, CacheKubeconfig, Endpoint,
      clusterVars, machineVars, jobVars, termVars, TypeOK,
      MachineNotStuck, Rows
  <2>4. CASE PrepareOk(m)
    BY <2>4 DEF PrepareOk, SetMachineStatus, clusterVars, machineVars,
      jobVars, termVars, TypeOK, MachineNotStuck, Rows
  <2>5. CASE PrepareOnError(m)
    BY <2>5 DEF PrepareOnError, SetMachineStatus, CacheKubeconfig,
      Endpoint, clusterVars, machineVars, jobVars, termVars, TypeOK,
      MachineNotStuck, Rows
  <2>6. CASE OnMachinePreparedFailed(m)
    BY <2>6 DEF OnMachinePreparedFailed, SetMachineStatus, clusterVars,
      machineVars, jobVars, termVars, TypeOK, MachineNotStuck, Rows
  <2> QED
    BY <1>4, <2>1, <2>2, <2>3, <2>4, <2>5, <2>6 DEF MachineStep
<1>5. ASSUME HealthCheck
      PROVE  MachineNotStuck'
  <2>1. CASE HealthLoad
    BY <2>1 DEF HealthLoad, clusterVars, machineVars, jobVars, termVars,
      TypeOK, MachineNotStuck, Rows
  <2>2. CASE Healthy
    BY <2>2 DEF Healthy, SetStatus, CacheKubeconfig, Endpoint,
      clusterVars, machineVars, jobVars, termVars, TypeOK,
      MachineNotStuck, Rows
  <2>3. CASE Unhealthy
    BY <2>3 DEF Unhealthy, SetStatus, CacheKubeconfig, Endpoint,
      clusterVars, machineVars, jobVars, termVars, TypeOK,
      MachineNotStuck, Rows
  <2>4. CASE HealthUpdateClient
    BY <2>4 DEF HealthUpdateClient, SetStatus, clusterVars, machineVars,
      jobVars, termVars, TypeOK, MachineNotStuck, Rows
  <2> QED
    BY <1>5, <2>1, <2>2, <2>3, <2>4 DEF HealthCheck
<1>6. CASE UNCHANGED vars
    BY <1>6 DEF vars, TypeOK, MachineNotStuck, Rows
<1> QED
  BY <1>1, <1>2, <1>3, <1>4, <1>5, <1>6 DEF Next

\* No cluster is left creating or deleting, and no machine creating or
\* preparing, without an unfinished task that will change the status.
THEOREM NoStuck == Spec => []NoStuckTransition
<1>1. Init => CreatePath /\ ClusterNotStuck /\ MachineNotStuck
  BY DEF Init, CreatePath, ClusterNotStuck, MachineNotStuck
<1> QED
  BY <1>1, TypeCorrect, CreatePathStep, ClusterNotStuckStep,
     MachineNotStuckStep, PTL DEF Spec, NoStuckTransition

-----------------------------------------------------------------------------
(* Which steps touch machine rows and their servers *)

MachineChange ==
    \/ \E j \in Jobs, m \in Machines :
          \/ PostMachine(j, m) \/ DeleteMachine(j, m) \/ InsertMachine(j, m)
          \/ DeployRest(j, m) \/ MarkTerminating(j, m)
          \/ TerminateServer(j, m) \/ TerminateFail(j, m)
    \/ \E j \in Jobs, S \in SUBSET Machines : PerformDeleteMachines(j, S)
    \/ \E j \in Jobs : DeployFirst(j) \/ DeleteOnInit(j) \/ BatchOnDeleteMachines(j)
    \/ \E m \in Machines : MachineStep(m)

\* Every other step leaves the machines alone.
LEMMA MachineFrame == [Next]_vars => MachineChange \/ UNCHANGED machineVars
<1> SUFFICES ASSUME [Next]_vars, ~MachineChange
             PROVE  UNCHANGED machineVars
  OBVIOUS
<1>1. ASSUME NEW j \in Jobs, Request(j) PROVE UNCHANGED machineVars
  BY <1>1 DEF Request, MachineChange, CreateCluster, PerformAddMachines,
    DeleteCluster, PerformSyncstatus
<1>2. ASSUME NEW j \in Jobs, TaskStep(j) PROVE UNCHANGED machineVars
  BY <1>2 DEF TaskStep, MachineChange, StageOfDeletedRow, CreateOnInit,
    CreateMachinesOnInit, InsertFail, WaitMachineRunning, Deployed,
    OnMachinesCreatedFailed, CreateSetFailed, ApplyAddons, ClusterSync, SyncOnInit, SyncAddClient, SyncCallSyncTask,
    SyncstatusOnInit, SyncstatusRun, SyncstatusSetFailed, OnMachinesDeleted,
    DeleteSetFailed, DeleteMachinesOnInit, OnDeleteMachinesFailed,
    OnDeleteMachines, BatchLoad, StartTerminateTask,
    BatchOnDeleteMachinesFailed
<1>3. ASSUME NEW j \in Jobs, NEW m \in Machines, TerminateStep(j, m)
      PROVE  UNCHANGED machineVars
  BY <1>3 DEF TerminateStep, MachineChange, TerminateLoad, TerminateSkip
<1>4. ASSUME NEW m \in Machines, MachineStep(m) PROVE UNCHANGED machineVars
  BY <1>4 DEF MachineChange
<1>5. CASE HealthCheck
  BY <1>5 DEF HealthCheck, HealthLoad, Healthy, Unhealthy, HealthUpdateClient
<1>6. CASE UNCHANGED vars
  BY <1>6 DEF vars, machineVars
<1> QED
  BY <1>1, <1>2, <1>3, <1>4, <1>5, <1>6 DEF Next

-----------------------------------------------------------------------------
(* Jobs leave each other's tasks alone *)

\* A step of job j changes no bookkeeping of another job.
LEMMA OtherJobs ==
    ASSUME TypeOK, NEW j \in Jobs, Request(j) \/ TaskStep(j)
    PROVE  \A k \in Jobs \ {j} :
               /\ kind'[k] = kind[k] /\ pc'[k] = pc[k] /\ ms'[k] = ms[k]
               /\ todo'[k] = todo[k] /\ term'[k] = term[k]
<1>1. CASE Request(j)
  <2> DEFINE Same == \A k \in Jobs \ {j} :
               /\ kind'[k] = kind[k] /\ pc'[k] = pc[k] /\ ms'[k] = ms[k]
               /\ todo'[k] = todo[k] /\ term'[k] = term[k]
  <2>1. ASSUME NEW S \in SUBSET Machines, CreateCluster(j, S) PROVE Same
    BY <2>1 DEF CreateCluster, Accept, Goto, termVars, TypeOK
  <2>2. ASSUME NEW S \in SUBSET Machines, PerformAddMachines(j, S) PROVE Same
    BY <2>2 DEF PerformAddMachines, Accept, Goto, termVars, TypeOK
  <2>3. ASSUME NEW m \in Machines, PostMachine(j, m) PROVE Same
    BY <2>3 DEF PostMachine, Accept, Goto, termVars, TypeOK
  <2>4. ASSUME NEW S \in SUBSET Machines, PerformDeleteMachines(j, S) PROVE Same
    BY <2>4 DEF PerformDeleteMachines, Accept, Goto, termVars, TypeOK
  <2>5. ASSUME NEW m \in Machines, DeleteMachine(j, m) PROVE Same
    BY <2>5 DEF DeleteMachine, Accept, Goto, termVars, TypeOK
  <2>6. ASSUME DeleteCluster(j) PROVE Same
    BY <2>6 DEF DeleteCluster, Accept, Goto, termVars, TypeOK
  <2>7. ASSUME PerformSyncstatus(j) PROVE Same
    BY <2>7 DEF PerformSyncstatus, Accept, Goto, termVars, TypeOK
  <2> QED
    BY <1>1, <2>1, <2>2, <2>3, <2>4, <2>5, <2>6, <2>7 DEF Request
<1>2. CASE TaskStep(j)
  <2> DEFINE Same == \A k \in Jobs \ {j} :
               /\ kind'[k] = kind[k] /\ pc'[k] = pc[k] /\ ms'[k] = ms[k]
               /\ todo'[k] = todo[k] /\ term'[k] = term[k]
  <2>1. ASSUME StageOfDeletedRow(j) PROVE Same
    BY <2>1 DEF StageOfDeletedRow, Goto, termVars, TypeOK
  <2>2. ASSUME CreateOnInit(j) PROVE Same
    BY <2>2 DEF CreateOnInit, Goto, termVars, TypeOK
  <2>3. ASSUME CreateMachinesOnInit(j) PROVE Same
    BY <2>3 DEF CreateMachinesOnInit, Goto, CreateMachinesError, termVars,
      TypeOK
  <2>4. ASSUME NEW m \in Machines, InsertMachine(j, m) PROVE Same
    BY <2>4 DEF InsertMachine, Goto, termVars, TypeOK
  <2>5. ASSUME InsertFail(j) PROVE Same
    BY <2>5 DEF InsertFail, Goto, CreateMachinesError, termVars, TypeOK
  <2>6. ASSUME DeployFirst(j) PROVE Same
    BY <2>6 DEF DeployFirst, Goto, termVars, TypeOK
  <2>7. ASSUME WaitMachineRunning(j) PROVE Same
    BY <2>7 DEF WaitMachineRunning, Goto, termVars, TypeOK
  <2>8. ASSUME NEW m \in Machines, DeployRest(j, m) PROVE Same
    BY <2>8 DEF DeployRest, termVars, TypeOK
  <2>9. ASSUME Deployed(j) PROVE Same
    BY <2>9 DEF Deployed, Goto, termVars, TypeOK
  <2>10. ASSUME OnMachinesCreatedFailed(j) PROVE Same
    BY <2>10 DEF OnMachinesCreatedFailed, Goto, CreateMachinesError,
      termVars, TypeOK
  <2>11. ASSUME CreateSetFailed(j) PROVE Same
    BY <2>11 DEF CreateSetFailed, Goto, termVars, TypeOK
  <2>12. ASSUME ApplyAddons(j) PROVE Same
    BY <2>12 DEF ApplyAddons, Goto, termVars, TypeOK
  <2>13. ASSUME ClusterSync(j) PROVE Same
    BY <2>13 DEF ClusterSync, SyncOnInit, SyncAddClient, SyncCallSyncTask, Goto, termVars, TypeOK
  <2>14. ASSUME SyncstatusOnInit(j) PROVE Same
    BY <2>14 DEF SyncstatusOnInit, Goto, AfterSyncstatus, termVars, TypeOK
  <2>15. ASSUME SyncstatusRun(j) PROVE Same
    BY <2>15 DEF SyncstatusRun, Goto, AfterSyncstatus, termVars, TypeOK
  <2>16. ASSUME SyncstatusSetFailed(j) PROVE Same
    BY <2>16 DEF SyncstatusSetFailed, Goto, termVars, TypeOK
  <2>17. ASSUME DeleteOnInit(j) PROVE Same
    BY <2>17 DEF DeleteOnInit, Goto, RealDeleteCluster, termVars, TypeOK
  <2>18. ASSUME OnMachinesDeleted(j) PROVE Same
    BY <2>18 DEF OnMachinesDeleted, Goto, RealDeleteCluster, termVars,
      TypeOK
  <2>19. ASSUME DeleteSetFailed(j) PROVE Same
    BY <2>19 DEF DeleteSetFailed, Goto, termVars, TypeOK
  <2>20. ASSUME DeleteMachinesOnInit(j) PROVE Same
    BY <2>20 DEF DeleteMachinesOnInit, Goto, DeleteMachinesError,
      termVars, TypeOK
  <2>21. ASSUME OnDeleteMachinesFailed(j) PROVE Same
    BY <2>21 DEF OnDeleteMachinesFailed, Goto, DeleteMachinesError,
      termVars, TypeOK
  <2>22. ASSUME OnDeleteMachines(j) PROVE Same
    BY <2>22 DEF OnDeleteMachines, Goto, termVars, TypeOK
  <2>23. ASSUME BatchLoad(j) PROVE Same
    BY <2>23 DEF BatchLoad, Goto, termVars, TypeOK
  <2>24. ASSUME NEW m \in Machines, MarkTerminating(j, m) PROVE Same
    BY <2>24 DEF MarkTerminating, termVars, TypeOK
  <2>25. ASSUME NEW m \in Machines, StartTerminateTask(j, m) PROVE Same
    BY <2>25 DEF StartTerminateTask, Goto, termVars, TypeOK
  <2>26. ASSUME BatchOnDeleteMachines(j) PROVE Same
    BY <2>26 DEF BatchOnDeleteMachines, Goto, termVars, TypeOK
  <2>27. ASSUME BatchOnDeleteMachinesFailed(j) PROVE Same
    BY <2>27 DEF BatchOnDeleteMachinesFailed, Goto, termVars, TypeOK
  <2> QED
    BY <1>2, <2>1, <2>2, <2>3, <2>4, <2>5, <2>6, <2>7, <2>8, <2>9, <2>10,
      <2>11, <2>12, <2>13, <2>14, <2>15, <2>16, <2>17, <2>18, <2>19, <2>20,
      <2>21, <2>22, <2>23, <2>24, <2>25, <2>26, <2>27 DEF TaskStep
<1> QED
  BY <1>1, <1>2

-----------------------------------------------------------------------------
(* Creation: requests own their machines, and start them in order *)

Creating(j) == kind[j] \in {"create", "add"}

\* Two requests never create the same machine, and only a cluster delete
\* chooses its machines late.
OwnMachines ==
    /\ \A j, k \in Jobs : j # k /\ Creating(j) /\ Creating(k) => ms[j] \cap ms[k] = {}
    /\ \A j \in Jobs : pc[j] = "delInit" => kind[j] = "delete"

\* Nothing has been done for a machine without a row.
Unborn == \A m \in Machines : mstat[m] = "none" => prep[m] = "idle" /\ m \notin first

\* What a create task has done for its machines at each of its stages.
DeployAt(j) ==
    /\ pc[j] \in {"insert", "waitFirst", "rest"} => todo[j] \subseteq ms[j]
    /\ \A m \in ms[j] :
          /\ pc[j] \in {"createInit", "cmInit"} => mstat[m] = "none"
          /\ pc[j] = "insert" => (m \in todo[j] <=> mstat[m] = "none")
          /\ pc[j] \in {"createInit", "cmInit", "insert", "deploy"} => prep[m] = "idle"
          /\ pc[j] \in {"deploy", "waitFirst", "rest"} => mstat[m] # "none"
          /\ pc[j] \in {"waitFirst", "rest"} /\ m \in todo[j] =>
                m \notin first /\ prep[m] = "idle"
          /\ pc[j] = "waitFirst" => m \in todo[j] \/ m \in first

DeployOrder == \A j \in Jobs : DeployAt(j)

\* A job that stays where it is, and whose machines are not touched, keeps its
\* place in the order.
LEMMA DeployKept ==
    ASSUME NEW k \in Jobs, DeployAt(k), CreatePath, TypeOK,
           pc'[k] = pc[k], ms'[k] = ms[k], todo'[k] = todo[k],
           Creating(k) => \A m \in ms[k] :
               /\ mstat'[m] = "none" <=> mstat[m] = "none"
               /\ prep'[m] = "idle" <=> prep[m] = "idle"
               /\ m \in first' <=> m \in first
    PROVE  DeployAt(k)'
  BY DEF DeployAt, CreatePath, Creating

\* A step of one job that creates no row and starts no machine leaves the
\* other jobs where they are in the order.
LEMMA OthersDeploy ==
    ASSUME TypeOK, CreatePath, DeployOrder, NEW j \in Jobs,
           Request(j) \/ TaskStep(j), first' = first,
           \A m \in Machines : /\ mstat'[m] = "none" <=> mstat[m] = "none"
                               /\ prep'[m] = prep[m]
    PROVE  \A k \in Jobs \ {j} : DeployAt(k)'
<1> SUFFICES ASSUME NEW k \in Jobs \ {j}
             PROVE  DeployAt(k)'
  OBVIOUS
<1>1. ms[k] \subseteq Machines /\ k # j
  BY DEF TypeOK
<1>2. pc'[k] = pc[k] /\ ms'[k] = ms[k] /\ todo'[k] = todo[k]
  BY OtherJobs
<1> QED
  BY <1>1, <1>2, DeployKept DEF DeployOrder

\* Outside the create stages nothing is claimed.
LEMMA DeployLeft ==
    ASSUME NEW k \in Jobs,
           pc'[k] \notin {"createInit", "cmInit", "insert", "deploy",
                          "waitFirst", "rest"}
    PROVE  DeployAt(k)'
  BY DEF DeployAt

\* Every step keeps the machines of create requests apart.
LEMMA OwnMachinesStep ==
    TypeOK /\ TypeOK' /\ OwnMachines /\ [Next]_vars
    => OwnMachines'
<1> SUFFICES ASSUME TypeOK, TypeOK', OwnMachines, [Next]_vars
             PROVE  OwnMachines'
  OBVIOUS
<1>1. ASSUME NEW j \in Jobs, Request(j) PROVE OwnMachines'
  <2>1. ASSUME NEW S \in SUBSET Machines, CreateCluster(j, S) PROVE OwnMachines'
    BY <2>1 DEF CreateCluster, Accept, Goto, Fresh, OwnMachines, Creating,
      TypeOK
  <2>2. ASSUME NEW S \in SUBSET Machines, PerformAddMachines(j, S) PROVE OwnMachines'
    BY <2>2 DEF PerformAddMachines, Accept, Goto, Fresh, OwnMachines,
      Creating, TypeOK
  <2>3. ASSUME NEW m \in Machines, PostMachine(j, m) PROVE OwnMachines'
    BY <2>3 DEF PostMachine, Accept, Goto, jobVars, OwnMachines, Creating,
      TypeOK
  <2>4. ASSUME NEW S \in SUBSET Machines, PerformDeleteMachines(j, S) PROVE OwnMachines'
    BY <2>4 DEF PerformDeleteMachines, Accept, Goto, jobVars, OwnMachines,
      Creating, TypeOK
  <2>5. ASSUME NEW m \in Machines, DeleteMachine(j, m) PROVE OwnMachines'
    BY <2>5 DEF DeleteMachine, Accept, Goto, jobVars, OwnMachines,
      Creating, TypeOK
  <2>6. CASE DeleteCluster(j)
    BY <2>6 DEF DeleteCluster, Accept, Goto, jobVars, OwnMachines,
      Creating, TypeOK
  <2>7. CASE PerformSyncstatus(j)
    BY <2>7 DEF PerformSyncstatus, Accept, Goto, jobVars, OwnMachines,
      Creating, TypeOK
  <2> QED
    BY <1>1, <2>1, <2>2, <2>3, <2>4, <2>5, <2>6, <2>7 DEF Request
<1>2. ASSUME NEW j \in Jobs, TaskStep(j) PROVE OwnMachines'
  <2>1. CASE StageOfDeletedRow(j)
    BY <2>1 DEF StageOfDeletedRow, Goto, jobVars, OwnMachines, Creating,
      TypeOK
  <2>2. CASE CreateOnInit(j)
    BY <2>2 DEF CreateOnInit, Stage, Goto, jobVars, OwnMachines, Creating,
      TypeOK
  <2>3. CASE CreateMachinesOnInit(j)
    BY <2>3 DEF CreateMachinesOnInit, Stage, Goto, CreateMachinesError,
      jobVars, OwnMachines, Creating, TypeOK
  <2>4. ASSUME NEW m \in Machines, InsertMachine(j, m) PROVE OwnMachines'
    BY <2>4 DEF InsertMachine, Goto, jobVars, OwnMachines, Creating,
      TypeOK
  <2>5. CASE InsertFail(j)
    BY <2>5 DEF InsertFail, Goto, CreateMachinesError, jobVars,
      OwnMachines, Creating, TypeOK
  <2>6. CASE DeployFirst(j)
    BY <2>6 DEF DeployFirst, Goto, jobVars, OwnMachines, Creating, TypeOK
  <2>7. CASE WaitMachineRunning(j)
    BY <2>7 DEF WaitMachineRunning, Goto, jobVars, OwnMachines, Creating,
      TypeOK
  <2>8. ASSUME NEW m \in Machines, DeployRest(j, m) PROVE OwnMachines'
    BY <2>8 DEF DeployRest, jobVars, OwnMachines, Creating, TypeOK
  <2>9. CASE Deployed(j)
    BY <2>9 DEF Deployed, Goto, jobVars, OwnMachines, Creating, TypeOK
  <2>10. CASE OnMachinesCreatedFailed(j)
    BY <2>10 DEF OnMachinesCreatedFailed, Stage, Goto,
      CreateMachinesError, jobVars, OwnMachines, Creating, TypeOK
  <2>11. CASE CreateSetFailed(j)
    BY <2>11 DEF CreateSetFailed, Stage, Goto, jobVars, OwnMachines,
      Creating, TypeOK
  <2>12. CASE ApplyAddons(j)
    BY <2>12 DEF ApplyAddons, Stage, Goto, jobVars, OwnMachines, Creating,
      TypeOK
  <2>13. CASE ClusterSync(j)
    BY <2>13 DEF ClusterSync, SyncOnInit, SyncAddClient, SyncCallSyncTask, Stage, Goto, jobVars, OwnMachines, Creating,
      TypeOK
  <2>14. CASE SyncstatusOnInit(j)
    BY <2>14 DEF SyncstatusOnInit, Stage, Goto, AfterSyncstatus, jobVars,
      OwnMachines, Creating, TypeOK
  <2>15. CASE SyncstatusRun(j)
    BY <2>15 DEF SyncstatusRun, Goto, AfterSyncstatus, jobVars,
      OwnMachines, Creating, TypeOK
  <2>16. CASE SyncstatusSetFailed(j)
    BY <2>16 DEF SyncstatusSetFailed, Stage, Goto, jobVars, OwnMachines,
      Creating, TypeOK
  <2>17. CASE DeleteOnInit(j)
    <3>1. CASE Rows = {}
      BY <2>17, <3>1 DEF DeleteOnInit, Stage, Goto, RealDeleteCluster, OwnMachines,
        Creating, TypeOK
    <3>2. CASE Rows # {}
      <4>1. /\ kind' = kind /\ kind[j] = "delete"
            /\ \A k \in Jobs : k # j => ms'[k] = ms[k] /\ pc'[k] = pc[k]
            /\ pc'[j] = "dmInit"
        BY <2>17, <3>2 DEF DeleteOnInit, Stage, Goto, OwnMachines, TypeOK
      <4> QED
        BY <4>1 DEF OwnMachines, Creating
    <3> QED
      BY <3>1, <3>2
  <2>18. CASE OnMachinesDeleted(j)
    BY <2>18 DEF OnMachinesDeleted, Stage, Goto, RealDeleteCluster,
      jobVars, OwnMachines, Creating, TypeOK
  <2>19. CASE DeleteSetFailed(j)
    BY <2>19 DEF DeleteSetFailed, Stage, Goto, jobVars, OwnMachines,
      Creating, TypeOK
  <2>20. CASE DeleteMachinesOnInit(j)
    BY <2>20 DEF DeleteMachinesOnInit, Stage, Goto, DeleteMachinesError,
      jobVars, OwnMachines, Creating, TypeOK
  <2>21. CASE OnDeleteMachinesFailed(j)
    BY <2>21 DEF OnDeleteMachinesFailed, Stage, Goto, DeleteMachinesError,
      jobVars, OwnMachines, Creating, TypeOK
  <2>22. CASE OnDeleteMachines(j)
    BY <2>22 DEF OnDeleteMachines, Stage, Goto, jobVars, OwnMachines,
      Creating, TypeOK
  <2>23. CASE BatchLoad(j)
    BY <2>23 DEF BatchLoad, Goto, jobVars, OwnMachines, Creating, TypeOK
  <2>24. ASSUME NEW m \in Machines, MarkTerminating(j, m) PROVE OwnMachines'
    BY <2>24 DEF MarkTerminating, jobVars, OwnMachines, Creating, TypeOK
  <2>25. ASSUME NEW m \in Machines, StartTerminateTask(j, m) PROVE OwnMachines'
    BY <2>25 DEF StartTerminateTask, Goto, jobVars, OwnMachines, Creating,
      TypeOK
  <2>26. CASE BatchOnDeleteMachines(j)
    BY <2>26 DEF BatchOnDeleteMachines, Goto, jobVars, OwnMachines,
      Creating, TypeOK
  <2>27. CASE BatchOnDeleteMachinesFailed(j)
    BY <2>27 DEF BatchOnDeleteMachinesFailed, Goto, jobVars, OwnMachines,
      Creating, TypeOK
  <2> QED
    BY <1>2, <2>1, <2>2, <2>3, <2>4, <2>5, <2>6, <2>7, <2>8, <2>9, <2>10,
      <2>11, <2>12, <2>13, <2>14, <2>15, <2>16, <2>17, <2>18, <2>19, <2>20,
      <2>21, <2>22, <2>23, <2>24, <2>25, <2>26, <2>27 DEF TaskStep
<1>3. ASSUME NEW j \in Jobs, NEW m \in Machines, TerminateStep(j, m) PROVE OwnMachines'
  <2>1. CASE TerminateLoad(j, m)
    BY <2>1 DEF TerminateLoad, jobVars, OwnMachines, Creating, TypeOK
  <2>2. CASE TerminateSkip(j, m)
    BY <2>2 DEF TerminateSkip, jobVars, OwnMachines, Creating, TypeOK
  <2>3. CASE TerminateServer(j, m)
    BY <2>3 DEF TerminateServer, jobVars, OwnMachines, Creating, TypeOK
  <2>4. CASE TerminateFail(j, m)
    BY <2>4 DEF TerminateFail, jobVars, OwnMachines, Creating, TypeOK
  <2> QED
    BY <1>3, <2>1, <2>2, <2>3, <2>4 DEF TerminateStep
<1>4. ASSUME NEW m \in Machines, MachineStep(m) PROVE OwnMachines'
  <2>1. CASE MachineCreateOnInit(m)
    BY <2>1 DEF MachineCreateOnInit, jobVars, OwnMachines, Creating,
      TypeOK
  <2>2. CASE PrepareLoad(m)
    BY <2>2 DEF PrepareLoad, jobVars, OwnMachines, Creating, TypeOK
  <2>3. CASE PrepareCreateServer(m)
    BY <2>3 DEF PrepareCreateServer, jobVars, OwnMachines, Creating,
      TypeOK
  <2>4. CASE PrepareOk(m)
    BY <2>4 DEF PrepareOk, jobVars, OwnMachines, Creating, TypeOK
  <2>5. CASE PrepareOnError(m)
    BY <2>5 DEF PrepareOnError, jobVars, OwnMachines, Creating, TypeOK
  <2>6. CASE OnMachinePreparedFailed(m)
    BY <2>6 DEF OnMachinePreparedFailed, jobVars, OwnMachines, Creating,
      TypeOK
  <2> QED
    BY <1>4, <2>1, <2>2, <2>3, <2>4, <2>5, <2>6 DEF MachineStep
<1>5. ASSUME HealthCheck PROVE OwnMachines'
  <2>1. CASE HealthLoad
    BY <2>1 DEF HealthLoad, jobVars, OwnMachines, Creating, TypeOK
  <2>2. CASE Healthy
    BY <2>2 DEF Healthy, jobVars, OwnMachines, Creating, TypeOK
  <2>3. CASE Unhealthy
    BY <2>3 DEF Unhealthy, jobVars, OwnMachines, Creating, TypeOK
  <2>4. CASE HealthUpdateClient
    BY <2>4 DEF HealthUpdateClient, jobVars, OwnMachines, Creating, TypeOK
  <2> QED
    BY <1>5, <2>1, <2>2, <2>3, <2>4 DEF HealthCheck
<1>6. CASE UNCHANGED vars
  BY <1>6 DEF vars, OwnMachines, Creating, TypeOK
<1> QED
  BY <1>1, <1>2, <1>3, <1>4, <1>5, <1>6 DEF Next

\* Every step leaves machines without a row untouched.
LEMMA UnbornStep ==
    TypeOK /\ TypeOK' /\ DeployOrder /\ Unborn /\ [Next]_vars
    => Unborn'
<1> SUFFICES ASSUME TypeOK, TypeOK', DeployOrder, Unborn, [Next]_vars
             PROVE  Unborn'
  OBVIOUS
<1>1. ASSUME NEW j \in Jobs, NEW m \in Machines, PostMachine(j, m) PROVE Unborn'
  BY <1>1 DEF PostMachine, machineVars, Unborn, TypeOK
<1>2. ASSUME NEW j \in Jobs, NEW S \in SUBSET Machines, PerformDeleteMachines(j, S) PROVE Unborn'
  BY <1>2 DEF PerformDeleteMachines, SetMachineStatus, machineVars,
    Unborn, TypeOK
<1>3. ASSUME NEW j \in Jobs, NEW m \in Machines, DeleteMachine(j, m) PROVE Unborn'
  BY <1>3 DEF DeleteMachine, SetMachineStatus, machineVars, Unborn, TypeOK
<1>4. ASSUME NEW j \in Jobs, NEW m \in Machines, InsertMachine(j, m) PROVE Unborn'
  BY <1>4 DEF InsertMachine, machineVars, Unborn, TypeOK
<1>5. ASSUME NEW j \in Jobs, DeployFirst(j) PROVE Unborn'
  BY <1>5 DEF DeployFirst, StartMachineCreateTask, SetMachineStatus,
    Unborn, DeployOrder, DeployAt, TypeOK
<1>6. ASSUME NEW j \in Jobs, NEW m \in Machines, DeployRest(j, m) PROVE Unborn'
  BY <1>6 DEF DeployRest, StartMachineCreateTask, SetMachineStatus,
    Unborn, DeployOrder, DeployAt, TypeOK
<1>7. ASSUME NEW j \in Jobs, DeleteOnInit(j) PROVE Unborn'
  BY <1>7 DEF DeleteOnInit, SetMachineStatus, Rows, machineVars, Unborn,
    TypeOK
<1>8. ASSUME NEW j \in Jobs, NEW m \in Machines, MarkTerminating(j, m) PROVE Unborn'
  BY <1>8 DEF MarkTerminating, SetMachineStatus, machineVars, Unborn,
    TypeOK
<1>9. ASSUME NEW j \in Jobs, BatchOnDeleteMachines(j) PROVE Unborn'
  BY <1>9 DEF BatchOnDeleteMachines, SetMachineStatus, machineVars,
    Unborn, TypeOK
<1>10. ASSUME NEW j \in Jobs, NEW m \in Machines, TerminateServer(j, m) PROVE Unborn'
  BY <1>10 DEF TerminateServer, machineVars, Unborn, TypeOK
<1>11. ASSUME NEW j \in Jobs, NEW m \in Machines, TerminateFail(j, m) PROVE Unborn'
  BY <1>11 DEF TerminateFail, SetMachineStatus, machineVars, Unborn,
    TypeOK
<1>12. ASSUME NEW m \in Machines, MachineCreateOnInit(m) PROVE Unborn'
  <2>1. first' = first
    BY <1>12 DEF MachineCreateOnInit
  <2>2. \A n \in Machines \ {m} : mstat'[n] = mstat[n] /\ prep'[n] = prep[n]
    BY <1>12 DEF MachineCreateOnInit, SetMachineStatus, TypeOK
  <2>3. mstat[m] # "none"
    BY <1>12 DEF MachineCreateOnInit, Unborn
  <2>4. mstat'[m] # "none"
    BY <1>12, <2>3 DEF MachineCreateOnInit, SetMachineStatus
  <2> QED
    BY <2>1, <2>2, <2>4 DEF Unborn
<1>13. ASSUME NEW m \in Machines, PrepareLoad(m) PROVE Unborn'
  BY <1>13 DEF PrepareLoad, machineVars, Unborn, TypeOK
<1>14. ASSUME NEW m \in Machines, PrepareCreateServer(m) PROVE Unborn'
  BY <1>14 DEF PrepareCreateServer, machineVars, Unborn, TypeOK
<1>15. ASSUME NEW m \in Machines, PrepareOk(m) PROVE Unborn'
  BY <1>15 DEF PrepareOk, SetMachineStatus, machineVars, Unborn, TypeOK
<1>16. ASSUME NEW m \in Machines, PrepareOnError(m) PROVE Unborn'
  BY <1>16 DEF PrepareOnError, SetMachineStatus, MachineLocked, Unborn,
    TypeOK
<1>17. ASSUME NEW m \in Machines, OnMachinePreparedFailed(m) PROVE Unborn'
  BY <1>17 DEF OnMachinePreparedFailed, SetMachineStatus, machineVars,
    Unborn, TypeOK
<1>18. CASE UNCHANGED machineVars
  BY <1>18 DEF machineVars, Unborn, TypeOK
<1> QED
  BY MachineFrame, <1>1, <1>2, <1>3, <1>4, <1>5, <1>6, <1>7, <1>8, <1>9,
    <1>10, <1>11, <1>12, <1>13, <1>14, <1>15, <1>16, <1>17, <1>18 DEF
    MachineChange, MachineStep

\* Every step of a create task, and no step of another, advances its
\* machines.
LEMMA DeployOrderStep ==
    TypeOK /\ TypeOK' /\ CreatePath /\ OwnMachines /\ Unborn /\ DeployOrder /\ [Next]_vars
    => DeployOrder'
<1> SUFFICES ASSUME TypeOK, TypeOK', CreatePath, OwnMachines, Unborn, DeployOrder, [Next]_vars
             PROVE  DeployOrder'
  OBVIOUS
<1>1. ASSUME NEW j \in Jobs, Request(j) PROVE DeployOrder'
  <2>1. ASSUME NEW S \in SUBSET Machines, CreateCluster(j, S) PROVE DeployOrder'
    BY <2>1 DEF CreateCluster, Accept, Goto, Fresh, machineVars,
      DeployOrder, DeployAt, Unborn, TypeOK
  <2>2. ASSUME NEW S \in SUBSET Machines, PerformAddMachines(j, S) PROVE DeployOrder'
    BY <2>2 DEF PerformAddMachines, Accept, Goto, Fresh, machineVars,
      DeployOrder, DeployAt, Unborn, TypeOK
  <2>3. ASSUME NEW m \in Machines, PostMachine(j, m) PROVE DeployOrder'
    BY <2>3 DEF PostMachine, Accept, Goto, Fresh, DeployOrder, DeployAt,
      CreatePath, TypeOK
  <2>4. ASSUME NEW S \in SUBSET Machines, PerformDeleteMachines(j, S) PROVE DeployOrder'
    BY <2>4 DEF PerformDeleteMachines, Accept, Goto, SetMachineStatus,
      machineVars, jobVars, DeployOrder, DeployAt, CreatePath, TypeOK
  <2>5. ASSUME NEW m \in Machines, DeleteMachine(j, m) PROVE DeployOrder'
    BY <2>5 DEF DeleteMachine, Accept, Goto, SetMachineStatus,
      machineVars, jobVars, DeployOrder, DeployAt, CreatePath, TypeOK
  <2>6. CASE DeleteCluster(j)
    BY <2>6 DEF DeleteCluster, Accept, Goto, machineVars, jobVars,
      DeployOrder, DeployAt, CreatePath, TypeOK
  <2>7. CASE PerformSyncstatus(j)
    BY <2>7 DEF PerformSyncstatus, Accept, Goto, machineVars, jobVars,
      DeployOrder, DeployAt, CreatePath, TypeOK
  <2> QED
    BY <1>1, <2>1, <2>2, <2>3, <2>4, <2>5, <2>6, <2>7 DEF Request
<1>2. ASSUME NEW j \in Jobs, TaskStep(j) PROVE DeployOrder'
  <2>1. CASE StageOfDeletedRow(j)
    <3>1. \A k \in Jobs \ {j} : DeployAt(k)'
      BY <1>2, <2>1, OthersDeploy DEF StageOfDeletedRow, machineVars
    <3>2. pc'[j] = "failed"
      BY <2>1 DEF StageOfDeletedRow, Goto, TypeOK
    <3> QED
      BY <3>1, <3>2, DeployLeft DEF DeployOrder
  <2>2. CASE CreateOnInit(j)
    <3>1. \A k \in Jobs \ {j} : DeployAt(k)'
      BY <1>2, <2>2, OthersDeploy DEF CreateOnInit, machineVars
    <3>2. /\ pc[j] = "createInit" /\ UNCHANGED <<mstat, prep, first, ms, todo>>
          /\ pc'[j] \in {"ssInit", "cmInit", "failed"}
      BY <2>2 DEF CreateOnInit, Stage, Goto, machineVars, TypeOK
    <3>3. DeployAt(j)'
      BY <3>2 DEF DeployOrder, DeployAt
    <3> QED
      BY <3>1, <3>3 DEF DeployOrder
  <2>3. CASE CreateMachinesOnInit(j)
    <3>1. \A k \in Jobs \ {j} : DeployAt(k)'
      BY <1>2, <2>3, OthersDeploy DEF CreateMachinesOnInit, machineVars
    <3>2. /\ pc[j] = "cmInit" /\ UNCHANGED <<mstat, prep, first, ms>>
          /\ \/ pc'[j] = "insert" /\ todo'[j] = ms[j]
             \/ pc'[j] \in {"createFailed", "failed"}
      BY <2>3 DEF CreateMachinesOnInit, Stage, Goto, CreateMachinesError,
        machineVars, TypeOK
    <3>3. DeployAt(j)'
      BY <3>2 DEF DeployOrder, DeployAt
    <3> QED
      BY <3>1, <3>3 DEF DeployOrder
  <2>4. ASSUME NEW m \in Machines, InsertMachine(j, m) PROVE DeployOrder'
    <3>1. m \in ms[j] /\ Creating(j)
      BY <2>4 DEF InsertMachine, DeployOrder, DeployAt, CreatePath, Creating
    <3>2. ASSUME NEW k \in Jobs, k # j PROVE DeployAt(k)'
      <4>1. Creating(k) => m \notin ms[k]
        BY <3>1, <3>2 DEF OwnMachines
      <4>2. \A n \in Machines \ {m} :
               /\ mstat'[n] = mstat[n] /\ prep'[n] = prep[n]
               /\ n \in first' <=> n \in first
        BY <2>4 DEF InsertMachine, TypeOK
      <4>3. pc'[k] = pc[k] /\ ms'[k] = ms[k] /\ todo'[k] = todo[k]
        BY <2>4, <3>2 DEF InsertMachine, Goto, TypeOK
      <4>4. ms[k] \subseteq Machines
        BY DEF TypeOK
      <4> QED
        BY <4>1, <4>2, <4>3, <4>4, DeployKept DEF DeployOrder
    <3>3. DeployAt(j)'
      BY <2>4, <3>1 DEF InsertMachine, Goto, DeployOrder, DeployAt, TypeOK
    <3> QED
      BY <3>2, <3>3 DEF DeployOrder
  <2>5. CASE InsertFail(j)
    BY <2>5 DEF InsertFail, Goto, CreateMachinesError, machineVars,
      jobVars, DeployOrder, DeployAt, TypeOK
  <2>6. CASE DeployFirst(j)
    <3>1. Creating(j)
      BY <2>6 DEF DeployFirst, CreatePath, Creating
    <3>2. \A n \in Machines \ ms[j] : mstat'[n] = mstat[n] /\ prep'[n] = prep[n]
      BY <2>6 DEF DeployFirst, StartMachineCreateTask, SetMachineStatus, TypeOK
    <3>3. ASSUME NEW k \in Jobs, k # j PROVE DeployAt(k)'
      <4>1. Creating(k) => ms[k] \cap ms[j] = {}
        BY <3>1, <3>3 DEF OwnMachines
      <4>2. first' = first /\ ms[k] \subseteq Machines
        BY <2>6 DEF DeployFirst, TypeOK
      <4>3. pc'[k] = pc[k] /\ ms'[k] = ms[k] /\ todo'[k] = todo[k]
        BY <1>2, <3>3, OtherJobs
      <4> QED
        BY <3>2, <4>1, <4>2, <4>3, DeployKept DEF DeployOrder
    <3>4. DeployAt(j)'
      <4>1. \A n \in ms[j] : mstat'[n] # "none" /\ (n \notin first => prep'[n] = "idle")
        BY <2>6 DEF DeployFirst, StartMachineCreateTask, SetMachineStatus,
          DeployOrder, DeployAt, TypeOK
      <4> QED
        BY <2>6, <4>1 DEF DeployFirst, Goto, DeployAt, TypeOK
    <3> QED
      BY <3>3, <3>4 DEF DeployOrder
  <2>7. CASE WaitMachineRunning(j)
    <3>1. ASSUME NEW k \in Jobs, k # j PROVE DeployAt(k)'
      BY <1>2, <2>7, <3>1, OthersDeploy DEF WaitMachineRunning, machineVars
    <3>2. ASSUME pc'[j] = "rest" PROVE DeployAt(j)'
      BY <2>7, <3>2 DEF WaitMachineRunning, DeployOrder, DeployAt, TypeOK, machineVars
    <3>3. ASSUME pc'[j] = "deployFailed" PROVE DeployAt(j)'
      BY <3>3, DeployLeft
    <3>4. pc'[j] \in {"rest", "deployFailed"}
      BY <2>7 DEF WaitMachineRunning, Goto, TypeOK
    <3> QED
      BY <3>1, <3>2, <3>3, <3>4 DEF DeployOrder
  <2>8. ASSUME NEW m \in Machines, DeployRest(j, m) PROVE DeployOrder'
    <3>1. m \in ms[j] /\ Creating(j)
      BY <2>8 DEF DeployRest, DeployOrder, DeployAt, CreatePath, Creating
    <3>2. \A n \in Machines \ {m} : mstat'[n] = mstat[n] /\ prep'[n] = prep[n]
      BY <2>8 DEF DeployRest, StartMachineCreateTask, SetMachineStatus, TypeOK
    <3>3. ASSUME NEW k \in Jobs, k # j PROVE DeployAt(k)'
      <4>1. Creating(k) => m \notin ms[k]
        BY <3>1, <3>3 DEF OwnMachines
      <4> QED
        BY <2>8, <3>2, <3>3, <4>1, DeployKept DEF DeployRest, DeployOrder, TypeOK
    <3>4. DeployAt(j)'
      <4>1. mstat[m] # "none" => mstat'[m] # "none"
        BY <2>8 DEF DeployRest, StartMachineCreateTask, SetMachineStatus, TypeOK
      <4> QED
        BY <2>8, <3>1, <3>2, <4>1 DEF DeployRest, DeployOrder, DeployAt, TypeOK
    <3> QED
      BY <3>3, <3>4 DEF DeployOrder
  <2>9. CASE Deployed(j)
    BY <2>9 DEF Deployed, Goto, machineVars, jobVars, DeployOrder,
      DeployAt, TypeOK
  <2>10. CASE OnMachinesCreatedFailed(j)
    BY <2>10 DEF OnMachinesCreatedFailed, Stage, Goto,
      CreateMachinesError, machineVars, jobVars, DeployOrder, DeployAt,
      CreatePath, TypeOK
  <2>11. CASE CreateSetFailed(j)
    BY <2>11 DEF CreateSetFailed, Stage, Goto, machineVars, jobVars,
      DeployOrder, DeployAt, TypeOK
  <2>12. CASE ApplyAddons(j)
    <3>1. \A m \in Machines :
             /\ mstat'[m] = "none" <=> mstat[m] = "none"
             /\ prep'[m] = prep[m]
      BY <2>12 DEF ApplyAddons, machineVars, TypeOK
    <3>2. ASSUME NEW k \in Jobs, k # j PROVE DeployAt(k)'
      BY <1>2, <2>12, <3>1, <3>2, OthersDeploy DEF ApplyAddons, machineVars
    <3>3. pc'[j] \in {"ssInit", "createFailed"}
      BY <2>12 DEF ApplyAddons, Stage, Goto, TypeOK
    <3>4. DeployAt(j)'
      BY <3>3, DeployLeft
    <3> QED
      BY <3>2, <3>4 DEF DeployOrder
  <2>13. CASE ClusterSync(j)
    <3>1. \A m \in Machines :
             /\ mstat'[m] = "none" <=> mstat[m] = "none"
             /\ prep'[m] = prep[m]
      BY <2>13 DEF ClusterSync, SyncOnInit, SyncAddClient, SyncCallSyncTask, machineVars, TypeOK
    <3>2. ASSUME NEW k \in Jobs, k # j PROVE DeployAt(k)'
      BY <1>2, <2>13, <3>1, <3>2, OthersDeploy DEF ClusterSync, SyncOnInit, SyncAddClient, SyncCallSyncTask, machineVars
    <3>3. pc'[j] \in {"syncAdd", "syncing", "ok", "createFailed", "blocked"}
      BY <2>13 DEF ClusterSync, SyncOnInit, SyncAddClient, SyncCallSyncTask, Stage, Goto, TypeOK
    <3>4. DeployAt(j)'
      BY <3>3, DeployLeft
    <3> QED
      BY <3>2, <3>4 DEF DeployOrder
  <2>14. CASE SyncstatusOnInit(j)
    <3>1. \A k \in Jobs \ {j} : DeployAt(k)'
      BY <1>2, <2>14, OthersDeploy DEF SyncstatusOnInit, machineVars
    <3>2. pc'[j] \in {"ssRun", "sync", "delFinish", "ok"}
      BY <2>14 DEF SyncstatusOnInit, Goto, AfterSyncstatus, TypeOK
    <3>3. DeployAt(j)'
      BY <3>2, DeployLeft
    <3> QED
      BY <3>1, <3>3 DEF DeployOrder
  <2>15. CASE SyncstatusRun(j)
    <3>1. \A k \in Jobs \ {j} : DeployAt(k)'
      BY <1>2, <2>15, OthersDeploy DEF SyncstatusRun, machineVars
    <3>2. pc'[j] \in {"ssFailed", "sync", "delFinish", "ok"}
      BY <2>15 DEF SyncstatusRun, Goto, AfterSyncstatus, TypeOK
    <3>3. DeployAt(j)'
      BY <3>2, DeployLeft
    <3> QED
      BY <3>1, <3>3 DEF DeployOrder
  <2>16. CASE SyncstatusSetFailed(j)
    BY <2>16 DEF SyncstatusSetFailed, Stage, Goto, machineVars, jobVars,
      DeployOrder, DeployAt, TypeOK
  <2>17. CASE DeleteOnInit(j)
    <3>1. \A m \in Machines :
             /\ mstat'[m] = "none" <=> mstat[m] = "none"
             /\ prep'[m] = prep[m]
      BY <2>17 DEF DeleteOnInit, SetMachineStatus, Rows, machineVars, TypeOK
    <3>2. ASSUME NEW k \in Jobs, k # j PROVE DeployAt(k)'
      BY <1>2, <2>17, <3>1, <3>2, OthersDeploy DEF DeleteOnInit
    <3>3. pc'[j] \in {"ok", "failed", "dmInit"}
      BY <2>17 DEF DeleteOnInit, Stage, Goto, RealDeleteCluster, TypeOK
    <3>4. DeployAt(j)'
      BY <3>3, DeployLeft
    <3> QED
      BY <3>2, <3>4 DEF DeployOrder
  <2>18. CASE OnMachinesDeleted(j)
    <3>1. \A m \in Machines :
             /\ mstat'[m] = "none" <=> mstat[m] = "none"
             /\ prep'[m] = prep[m]
      BY <2>18 DEF OnMachinesDeleted, machineVars, TypeOK
    <3>2. ASSUME NEW k \in Jobs, k # j PROVE DeployAt(k)'
      BY <1>2, <2>18, <3>1, <3>2, OthersDeploy DEF OnMachinesDeleted, machineVars
    <3>3. pc'[j] \in {"ok", "failed"}
      BY <2>18 DEF OnMachinesDeleted, Stage, Goto, RealDeleteCluster, TypeOK
    <3>4. DeployAt(j)'
      BY <3>3, DeployLeft
    <3> QED
      BY <3>2, <3>4 DEF DeployOrder
  <2>19. CASE DeleteSetFailed(j)
    BY <2>19 DEF DeleteSetFailed, Stage, Goto, machineVars, jobVars,
      DeployOrder, DeployAt, TypeOK
  <2>20. CASE DeleteMachinesOnInit(j)
    <3>1. \A m \in Machines :
             /\ mstat'[m] = "none" <=> mstat[m] = "none"
             /\ prep'[m] = prep[m]
      BY <2>20 DEF DeleteMachinesOnInit, machineVars, TypeOK
    <3>2. ASSUME NEW k \in Jobs, k # j PROVE DeployAt(k)'
      BY <1>2, <2>20, <3>1, <3>2, OthersDeploy DEF DeleteMachinesOnInit, machineVars
    <3>3. pc'[j] \in {"batchInit", "delFailed", "failed"}
      BY <2>20 DEF DeleteMachinesOnInit, Stage, Goto, DeleteMachinesError, TypeOK
    <3>4. DeployAt(j)'
      BY <3>3, DeployLeft
    <3> QED
      BY <3>2, <3>4 DEF DeployOrder
  <2>21. CASE OnDeleteMachinesFailed(j)
    BY <2>21 DEF OnDeleteMachinesFailed, Stage, Goto, DeleteMachinesError,
      machineVars, jobVars, DeployOrder, DeployAt, TypeOK
  <2>22. CASE OnDeleteMachines(j)
    BY <2>22 DEF OnDeleteMachines, Stage, Goto, machineVars, jobVars,
      DeployOrder, DeployAt, TypeOK
  <2>23. CASE BatchLoad(j)
    <3>1. \A m \in Machines :
             /\ mstat'[m] = "none" <=> mstat[m] = "none"
             /\ prep'[m] = prep[m]
      BY <2>23 DEF BatchLoad, machineVars, TypeOK
    <3>2. ASSUME NEW k \in Jobs, k # j PROVE DeployAt(k)'
      BY <1>2, <2>23, <3>1, <3>2, OthersDeploy DEF BatchLoad, machineVars
    <3>3. pc'[j] \in {"spawn", "dmFailed"}
      BY <2>23 DEF BatchLoad, Goto, TypeOK
    <3>4. DeployAt(j)'
      BY <3>3, DeployLeft
    <3> QED
      BY <3>2, <3>4 DEF DeployOrder
  <2>24. ASSUME NEW m \in Machines, MarkTerminating(j, m) PROVE DeployOrder'
    BY <2>24 DEF MarkTerminating, SetMachineStatus, machineVars, jobVars,
      DeployOrder, DeployAt, TypeOK
  <2>25. ASSUME NEW m \in Machines, StartTerminateTask(j, m) PROVE DeployOrder'
    <3>1. \A k \in Jobs \ {j} : DeployAt(k)'
      BY <1>2, <2>25, OthersDeploy DEF StartTerminateTask, TaskStep, machineVars
    <3>2. pc'[j] \in {"batch", "spawn"}
      BY <2>25 DEF StartTerminateTask, Goto, TypeOK
    <3> QED
      BY <3>1, <3>2, DeployLeft DEF DeployOrder
  <2>26. CASE BatchOnDeleteMachines(j)
    BY <2>26 DEF BatchOnDeleteMachines, Goto, SetMachineStatus,
      machineVars, jobVars, DeployOrder, DeployAt, TypeOK
  <2>27. CASE BatchOnDeleteMachinesFailed(j)
    BY <2>27 DEF BatchOnDeleteMachinesFailed, Goto, machineVars, jobVars,
      DeployOrder, DeployAt, TypeOK
  <2> QED
    BY <1>2, <2>1, <2>2, <2>3, <2>4, <2>5, <2>6, <2>7, <2>8, <2>9, <2>10,
      <2>11, <2>12, <2>13, <2>14, <2>15, <2>16, <2>17, <2>18, <2>19, <2>20,
      <2>21, <2>22, <2>23, <2>24, <2>25, <2>26, <2>27 DEF TaskStep
<1>3. ASSUME NEW j \in Jobs, NEW m \in Machines, TerminateStep(j, m) PROVE DeployOrder'
  <2>1. CASE TerminateLoad(j, m)
    BY <2>1 DEF TerminateLoad, machineVars, jobVars, DeployOrder,
      DeployAt, TypeOK
  <2>2. CASE TerminateSkip(j, m)
    BY <2>2 DEF TerminateSkip, machineVars, jobVars, DeployOrder,
      DeployAt, TypeOK
  <2>3. CASE TerminateServer(j, m)
    BY <2>3 DEF TerminateServer, machineVars, jobVars, DeployOrder,
      DeployAt, TypeOK
  <2>4. CASE TerminateFail(j, m)
    BY <2>4 DEF TerminateFail, SetMachineStatus, machineVars, jobVars,
      DeployOrder, DeployAt, TypeOK
  <2> QED
    BY <1>3, <2>1, <2>2, <2>3, <2>4 DEF TerminateStep
<1>4. ASSUME NEW m \in Machines, MachineStep(m) PROVE DeployOrder'
  <2>1. CASE MachineCreateOnInit(m)
    BY <2>1 DEF MachineCreateOnInit, SetMachineStatus, machineVars,
      jobVars, DeployOrder, DeployAt, TypeOK
  <2>2. CASE PrepareLoad(m)
    BY <2>2 DEF PrepareLoad, machineVars, jobVars, DeployOrder, DeployAt,
      CreatePath, TypeOK
  <2>3. CASE PrepareCreateServer(m)
    BY <2>3 DEF PrepareCreateServer, machineVars, jobVars, DeployOrder,
      DeployAt, TypeOK
  <2>4. CASE PrepareOk(m)
    BY <2>4 DEF PrepareOk, SetMachineStatus, machineVars, jobVars,
      DeployOrder, DeployAt, TypeOK
  <2>5. CASE PrepareOnError(m)
    <3>1. \A n \in Machines :
             /\ mstat'[n] = "none" <=> mstat[n] = "none"
             /\ prep'[n] = "idle" <=> prep[n] = "idle"
      BY <2>5 DEF PrepareOnError, SetMachineStatus, MachineLocked, machineVars, TypeOK
    <3> QED
      BY <2>5, <3>1, DeployKept DEF PrepareOnError, DeployOrder, TypeOK, jobVars, machineVars
  <2>6. CASE OnMachinePreparedFailed(m)
    BY <2>6 DEF OnMachinePreparedFailed, SetMachineStatus, machineVars,
      jobVars, DeployOrder, DeployAt, TypeOK
  <2> QED
    BY <1>4, <2>1, <2>2, <2>3, <2>4, <2>5, <2>6 DEF MachineStep
<1>5. ASSUME HealthCheck PROVE DeployOrder'
  <2>1. CASE HealthLoad
    BY <2>1 DEF HealthLoad, machineVars, jobVars, DeployOrder, DeployAt,
      CreatePath, TypeOK
  <2>2. CASE Healthy
    BY <2>2 DEF Healthy, machineVars, jobVars, DeployOrder, DeployAt,
      CreatePath, TypeOK
  <2>3. CASE Unhealthy
    BY <2>3 DEF Unhealthy, machineVars, jobVars, DeployOrder, DeployAt,
      CreatePath, TypeOK
  <2>4. CASE HealthUpdateClient
    BY <2>4 DEF HealthUpdateClient, machineVars, jobVars, DeployOrder,
      DeployAt, TypeOK
  <2> QED
    BY <1>5, <2>1, <2>2, <2>3, <2>4 DEF HealthCheck
<1>6. CASE UNCHANGED vars
  BY <1>6 DEF vars, DeployOrder, DeployAt, TypeOK
<1> QED
  BY <1>1, <1>2, <1>3, <1>4, <1>5, <1>6 DEF Next

-----------------------------------------------------------------------------
(* The first control node *)

\* Only a machine that was prepared is shown as running.
RunningIsDone == \A m \in Machines : mstat[m] = "running" => prep[m] = "done"

\* Once a request may start its joining machines, its first one is prepared.
FirstReady ==
    \A j \in Jobs :
        /\ Creating(j) /\ ms[j] \cap first # {}
        /\ pc[j] = "rest" \/ \E m \in ms[j] \ first : prep[m] # "idle"
        => \E f \in ms[j] \cap first : prep[f] = "done"

\* Every step that shows a machine as running has prepared it.
LEMMA RunningIsDoneStep ==
    TypeOK /\ TypeOK' /\ RunningIsDone /\ [Next]_vars
    => RunningIsDone'
<1> SUFFICES ASSUME TypeOK, TypeOK', RunningIsDone, [Next]_vars
             PROVE  RunningIsDone'
  OBVIOUS
<1>1. ASSUME NEW j \in Jobs, NEW m \in Machines, PostMachine(j, m) PROVE RunningIsDone'
  BY <1>1 DEF PostMachine, machineVars, RunningIsDone, TypeOK
<1>2. ASSUME NEW j \in Jobs, NEW S \in SUBSET Machines, PerformDeleteMachines(j, S) PROVE RunningIsDone'
  BY <1>2 DEF PerformDeleteMachines, SetMachineStatus, machineVars,
    RunningIsDone, TypeOK
<1>3. ASSUME NEW j \in Jobs, NEW m \in Machines, DeleteMachine(j, m) PROVE RunningIsDone'
  BY <1>3 DEF DeleteMachine, SetMachineStatus, machineVars, RunningIsDone,
    TypeOK
<1>4. ASSUME NEW j \in Jobs, NEW m \in Machines, InsertMachine(j, m) PROVE RunningIsDone'
  BY <1>4 DEF InsertMachine, machineVars, RunningIsDone, TypeOK
<1>5. ASSUME NEW j \in Jobs, DeployFirst(j) PROVE RunningIsDone'
  BY <1>5 DEF DeployFirst, StartMachineCreateTask, SetMachineStatus,
    machineVars, RunningIsDone, TypeOK
<1>6. ASSUME NEW j \in Jobs, NEW m \in Machines, DeployRest(j, m) PROVE RunningIsDone'
  BY <1>6 DEF DeployRest, StartMachineCreateTask, SetMachineStatus,
    machineVars, RunningIsDone, TypeOK
<1>7. ASSUME NEW j \in Jobs, DeleteOnInit(j) PROVE RunningIsDone'
  BY <1>7 DEF DeleteOnInit, SetMachineStatus, Rows, machineVars,
    RunningIsDone, TypeOK
<1>8. ASSUME NEW j \in Jobs, NEW m \in Machines, MarkTerminating(j, m) PROVE RunningIsDone'
  BY <1>8 DEF MarkTerminating, SetMachineStatus, machineVars,
    RunningIsDone, TypeOK
<1>9. ASSUME NEW j \in Jobs, BatchOnDeleteMachines(j) PROVE RunningIsDone'
  BY <1>9 DEF BatchOnDeleteMachines, SetMachineStatus, machineVars,
    RunningIsDone, TypeOK
<1>10. ASSUME NEW j \in Jobs, NEW m \in Machines, TerminateServer(j, m) PROVE RunningIsDone'
  BY <1>10 DEF TerminateServer, machineVars, RunningIsDone, TypeOK
<1>11. ASSUME NEW j \in Jobs, NEW m \in Machines, TerminateFail(j, m) PROVE RunningIsDone'
  BY <1>11 DEF TerminateFail, SetMachineStatus, machineVars,
    RunningIsDone, TypeOK
<1>12. ASSUME NEW m \in Machines, MachineCreateOnInit(m) PROVE RunningIsDone'
  <2>1. \A n \in Machines \ {m} : mstat'[n] = mstat[n] /\ prep'[n] = prep[n]
    BY <1>12 DEF MachineCreateOnInit, SetMachineStatus, TypeOK
  <2>2. mstat'[m] # "running"
    <3>1. prep[m] = "create"
      BY <1>12 DEF MachineCreateOnInit
    <3>2. mstat'[m] = mstat[m] \/ mstat'[m] \in {"create_fail", "prepare"}
      BY <1>12 DEF MachineCreateOnInit, SetMachineStatus, TypeOK
    <3> QED
      BY <3>1, <3>2 DEF RunningIsDone
  <2> QED
    BY <2>1, <2>2 DEF RunningIsDone
<1>13. ASSUME NEW m \in Machines, PrepareLoad(m) PROVE RunningIsDone'
  BY <1>13 DEF PrepareLoad, RunningIsDone, TypeOK
<1>14. ASSUME NEW m \in Machines, PrepareCreateServer(m) PROVE RunningIsDone'
  BY <1>14 DEF PrepareCreateServer, machineVars, RunningIsDone, TypeOK
<1>15. ASSUME NEW m \in Machines, PrepareOk(m) PROVE RunningIsDone'
  BY <1>15 DEF PrepareOk, SetMachineStatus, machineVars, RunningIsDone,
    TypeOK
<1>16. ASSUME NEW m \in Machines, PrepareOnError(m) PROVE RunningIsDone'
  BY <1>16 DEF PrepareOnError, MachineLocked, SetMachineStatus,
    RunningIsDone, TypeOK
<1>17. ASSUME NEW m \in Machines, OnMachinePreparedFailed(m) PROVE RunningIsDone'
  BY <1>17 DEF OnMachinePreparedFailed, SetMachineStatus, machineVars,
    RunningIsDone, TypeOK
<1>18. CASE UNCHANGED machineVars
  BY <1>18 DEF machineVars, RunningIsDone, TypeOK
<1> QED
  BY MachineFrame, <1>1, <1>2, <1>3, <1>4, <1>5, <1>6, <1>7, <1>8, <1>9,
    <1>10, <1>11, <1>12, <1>13, <1>14, <1>15, <1>16, <1>17, <1>18 DEF
    MachineChange, MachineStep

\* A step that starts no machine and moves no job to the joining machines.
LEMMA FirstReadyKept ==
    ASSUME FirstReady, TypeOK, kind' = kind, ms' = ms, first' = first,
           \A k \in Jobs : pc'[k] = "rest" => pc[k] = "rest",
           \A m \in Machines : /\ prep'[m] # "idle" => prep[m] # "idle"
                               /\ prep[m] = "done" => prep'[m] = "done"
    PROVE  FirstReady'
<1> SUFFICES ASSUME NEW j \in Jobs, Creating(j), ms[j] \cap first # {},
                    \/ pc'[j] = "rest"
                    \/ \E m \in ms[j] \ first : prep'[m] # "idle"
             PROVE  \E f \in ms[j] \cap first : prep'[f] = "done"
  BY DEF FirstReady, Creating
<1>1. ms[j] \subseteq Machines
  BY DEF TypeOK
<1>2. PICK f \in ms[j] \cap first : prep[f] = "done"
  BY <1>1 DEF FirstReady
<1> QED
  BY <1>1, <1>2

\* The same for one job, whatever the others do.
FirstReadyAt(j) ==
    /\ Creating(j) /\ ms[j] \cap first # {}
    /\ pc[j] = "rest" \/ \E m \in ms[j] \ first : prep[m] # "idle"
    => \E f \in ms[j] \cap first : prep[f] = "done"

\* A job keeps its prepared first machine if its machines are left alone.
LEMMA FirstReadyAtKept ==
    ASSUME FirstReady, NEW k \in Jobs, kind'[k] = kind[k], ms'[k] = ms[k],
           pc'[k] = pc[k],
           Creating(k) => \A m \in ms[k] : prep'[m] = prep[m] /\ (m \in first' <=> m \in first)
    PROVE  FirstReadyAt(k)'
<1> SUFFICES ASSUME Creating(k), ms[k] \cap first # {},
                    pc[k] = "rest" \/ \E m \in ms[k] \ first : prep[m] # "idle"
             PROVE  \E f \in ms[k] \cap first' : prep'[f] = "done"
  BY DEF FirstReadyAt, Creating
<1>1. PICK f \in ms[k] \cap first : prep[f] = "done"
  BY DEF FirstReady
<1> QED
  BY <1>1

\* A step of one job that starts no machine leaves the other jobs' first
\* machines as they were.
LEMMA OthersFirstReady ==
    ASSUME TypeOK, FirstReady, NEW j \in Jobs, Request(j) \/ TaskStep(j),
           first' = first, prep' = prep
    PROVE  \A k \in Jobs \ {j} : FirstReadyAt(k)'
<1> SUFFICES ASSUME NEW k \in Jobs \ {j}
             PROVE  FirstReadyAt(k)'
  OBVIOUS
<1>1. kind'[k] = kind[k] /\ pc'[k] = pc[k] /\ ms'[k] = ms[k]
  BY OtherJobs
<1> QED
  BY <1>1, FirstReadyAtKept

\* Every step starts a joining machine only behind a prepared first one.
LEMMA FirstReadyStep ==
    TypeOK /\ TypeOK' /\ CreatePath /\ OwnMachines /\ Unborn /\ DeployOrder /\ RunningIsDone /\ FirstReady /\ [Next]_vars
    => FirstReady'
<1> SUFFICES ASSUME TypeOK, TypeOK', CreatePath, OwnMachines, Unborn, DeployOrder, RunningIsDone, FirstReady, [Next]_vars
             PROVE  FirstReady'
  OBVIOUS
<1>1. ASSUME NEW j \in Jobs, Request(j) PROVE FirstReady'
  <2>1. ASSUME NEW S \in SUBSET Machines, CreateCluster(j, S) PROVE FirstReady'
    <3>1. ASSUME NEW k \in Jobs, k # j PROVE FirstReadyAt(k)'
      BY <1>1, <2>1, <3>1, OthersFirstReady DEF CreateCluster, machineVars
    <3>2. FirstReadyAt(j)'
      BY <2>1 DEF CreateCluster, Accept, Goto, Fresh, machineVars, TypeOK,
        FirstReadyAt, Unborn
    <3> QED
      BY <3>1, <3>2 DEF FirstReady, FirstReadyAt
  <2>2. ASSUME NEW S \in SUBSET Machines, PerformAddMachines(j, S) PROVE FirstReady'
    <3>1. ASSUME NEW k \in Jobs, k # j PROVE FirstReadyAt(k)'
      BY <1>1, <2>2, <3>1, OthersFirstReady DEF PerformAddMachines, machineVars
    <3>2. FirstReadyAt(j)'
      BY <2>2 DEF PerformAddMachines, Accept, Goto, Fresh, machineVars, TypeOK,
        FirstReadyAt, Unborn
    <3> QED
      BY <3>1, <3>2 DEF FirstReady, FirstReadyAt
  <2>3. ASSUME NEW m \in Machines, PostMachine(j, m) PROVE FirstReady'
    <3>1. ASSUME NEW k \in Jobs, k # j PROVE FirstReadyAt(k)'
      <4>1. Creating(k) => m \notin ms[k]
        BY <2>3 DEF PostMachine, Fresh, Creating
      <4>2. kind'[k] = kind[k] /\ ms'[k] = ms[k] /\ pc'[k] = pc[k]
        BY <2>3, <3>1 DEF PostMachine, Accept, Goto, TypeOK
      <4>3. \A n \in Machines \ {m} : prep'[n] = prep[n] /\ (n \in first' <=> n \in first)
        BY <2>3 DEF PostMachine, TypeOK
      <4> QED
        BY <4>1, <4>2, <4>3, FirstReadyAtKept DEF TypeOK
    <3>2. FirstReadyAt(j)'
      BY <2>3 DEF PostMachine, Accept, FirstReadyAt, Creating, TypeOK
    <3> QED
      BY <3>1, <3>2 DEF FirstReady, FirstReadyAt
  <2>4. ASSUME NEW S \in SUBSET Machines, PerformDeleteMachines(j, S) PROVE FirstReady'
    <3>1. ASSUME NEW k \in Jobs, k # j PROVE FirstReadyAt(k)'
      BY <1>1, <2>4, <3>1, OthersFirstReady DEF PerformDeleteMachines, machineVars
    <3>2. FirstReadyAt(j)'
      BY <2>4 DEF PerformDeleteMachines, Accept, FirstReadyAt, Creating, TypeOK
    <3> QED
      BY <3>1, <3>2 DEF FirstReady, FirstReadyAt
  <2>5. ASSUME NEW m \in Machines, DeleteMachine(j, m) PROVE FirstReady'
    <3>1. ASSUME NEW k \in Jobs, k # j PROVE FirstReadyAt(k)'
      BY <1>1, <2>5, <3>1, OthersFirstReady DEF DeleteMachine, machineVars
    <3>2. FirstReadyAt(j)'
      BY <2>5 DEF DeleteMachine, Accept, FirstReadyAt, Creating, TypeOK
    <3> QED
      BY <3>1, <3>2 DEF FirstReady, FirstReadyAt
  <2>6. CASE DeleteCluster(j)
    <3>1. ASSUME NEW k \in Jobs, k # j PROVE FirstReadyAt(k)'
      BY <1>1, <2>6, <3>1, OthersFirstReady DEF DeleteCluster, machineVars
    <3>2. FirstReadyAt(j)'
      BY <2>6 DEF DeleteCluster, Accept, FirstReadyAt, Creating, TypeOK
    <3> QED
      BY <3>1, <3>2 DEF FirstReady, FirstReadyAt
  <2>7. CASE PerformSyncstatus(j)
    <3>1. ASSUME NEW k \in Jobs, k # j PROVE FirstReadyAt(k)'
      BY <1>1, <2>7, <3>1, OthersFirstReady DEF PerformSyncstatus, machineVars
    <3>2. FirstReadyAt(j)'
      BY <2>7 DEF PerformSyncstatus, Accept, FirstReadyAt, Creating, TypeOK
    <3> QED
      BY <3>1, <3>2 DEF FirstReady, FirstReadyAt
  <2> QED
    BY <1>1, <2>1, <2>2, <2>3, <2>4, <2>5, <2>6, <2>7 DEF Request
<1>2. ASSUME NEW j \in Jobs, TaskStep(j) PROVE FirstReady'
  <2>1. CASE StageOfDeletedRow(j)
    BY <2>1, FirstReadyKept DEF StageOfDeletedRow, Goto, machineVars,
      TypeOK
  <2>2. CASE CreateOnInit(j)
    BY <2>2, FirstReadyKept DEF CreateOnInit, Goto, machineVars, TypeOK
  <2>3. CASE CreateMachinesOnInit(j)
    BY <2>3, FirstReadyKept DEF CreateMachinesOnInit, Goto,
      CreateMachinesError, machineVars, TypeOK
  <2>4. ASSUME NEW m \in Machines, InsertMachine(j, m) PROVE FirstReady'
    <3>1. m \in ms[j] /\ Creating(j)
      BY <2>4 DEF InsertMachine, DeployOrder, DeployAt, CreatePath, Creating
    <3>2. ASSUME NEW k \in Jobs, k # j PROVE FirstReadyAt(k)'
      <4>1. Creating(k) => m \notin ms[k]
        BY <3>1, <3>2 DEF OwnMachines
      <4>2. prep' = prep /\ \A n \in Machines \ {m} : n \in first' <=> n \in first
        BY <2>4 DEF InsertMachine
      <4>3. kind'[k] = kind[k] /\ ms'[k] = ms[k] /\ pc'[k] = pc[k]
        BY <2>4, <3>2 DEF InsertMachine, Goto, TypeOK
      <4>4. ms[k] \subseteq Machines
        BY DEF TypeOK
      <4>5. Creating(k) => \A n \in ms[k] : prep'[n] = prep[n] /\ (n \in first' <=> n \in first)
        BY <4>1, <4>2, <4>4
      <4> QED
        BY <4>3, <4>5, FirstReadyAtKept
    <3>3. FirstReadyAt(j)'
      BY <2>4 DEF InsertMachine, Goto, FirstReadyAt, DeployOrder, DeployAt, TypeOK
    <3> QED
      BY <3>2, <3>3 DEF FirstReady, FirstReadyAt
  <2>5. CASE InsertFail(j)
    BY <2>5, FirstReadyKept DEF InsertFail, Goto, CreateMachinesError,
      machineVars, TypeOK
  <2>6. CASE DeployFirst(j)
    <3>1. Creating(j)
      BY <2>6 DEF DeployFirst, CreatePath, Creating
    <3>2. \A n \in Machines \ ms[j] : prep'[n] = prep[n]
      BY <2>6 DEF DeployFirst, StartMachineCreateTask, TypeOK
    <3>3. ASSUME NEW k \in Jobs, k # j PROVE FirstReadyAt(k)'
      <4>1. Creating(k) => ms[k] \cap ms[j] = {}
        BY <3>1, <3>3 DEF OwnMachines
      <4> QED
        BY <2>6, <3>2, <3>3, <4>1, FirstReadyAtKept DEF DeployFirst, Goto, TypeOK
    <3>4. FirstReadyAt(j)'
      <4>1. \A n \in ms[j] \ first : prep'[n] = "idle"
        <5>1. ms[j] \subseteq Machines /\ \A n \in ms[j] : prep[n] = "idle"
          BY <2>6 DEF DeployFirst, DeployOrder, DeployAt, TypeOK
        <5>2. \A n \in Machines \ first : prep'[n] = prep[n]
          BY <2>6 DEF DeployFirst, StartMachineCreateTask, TypeOK
        <5> QED
          BY <5>1, <5>2
      <4> QED
        BY <2>6, <4>1 DEF DeployFirst, Goto, FirstReadyAt, TypeOK
    <3> QED
      BY <3>3, <3>4 DEF FirstReady, FirstReadyAt
  <2>7. CASE WaitMachineRunning(j)
    <3>1. ASSUME NEW k \in Jobs, k # j PROVE FirstReadyAt(k)'
      BY <1>2, <2>7, <3>1, OthersFirstReady DEF WaitMachineRunning, machineVars
    <3>2. FirstReadyAt(j)'
      <4>1. UNCHANGED <<kind, ms, first, prep>>
        BY <2>7 DEF WaitMachineRunning, machineVars
      <4>2. CASE pc'[j] = "deployFailed"
        BY <4>1, <4>2 DEF FirstReadyAt, FirstReady, Creating
      <4>3. CASE pc'[j] = "rest"
        <5>1. PICK m \in ms[j] \cap first : mstat[m] = "running"
          BY <2>7, <4>3 DEF WaitMachineRunning, Goto, TypeOK
        <5>2. prep[m] = "done"
          BY <5>1 DEF RunningIsDone, TypeOK
        <5> QED
          BY <4>1, <5>1, <5>2 DEF FirstReadyAt
      <4>4. pc'[j] \in {"rest", "deployFailed"}
        BY <2>7 DEF WaitMachineRunning, Goto, TypeOK
      <4> QED
        BY <4>2, <4>3, <4>4
    <3> QED
      BY <3>1, <3>2 DEF FirstReady, FirstReadyAt
  <2>8. ASSUME NEW m \in Machines, DeployRest(j, m) PROVE FirstReady'
    <3>1. m \in ms[j] \ first /\ Creating(j)
      BY <2>8 DEF DeployRest, DeployOrder, DeployAt, CreatePath, Creating
    <3>2. \A n \in Machines \ {m} : prep'[n] = prep[n]
      BY <2>8 DEF DeployRest, StartMachineCreateTask, TypeOK
    <3>3. ASSUME NEW k \in Jobs, k # j PROVE FirstReadyAt(k)'
      <4>1. Creating(k) => m \notin ms[k]
        BY <3>1, <3>3 DEF OwnMachines
      <4> QED
        BY <2>8, <3>2, <3>3, <4>1, FirstReadyAtKept DEF DeployRest, TypeOK
    <3>4. FirstReadyAt(j)'
      BY <2>8, <3>1, <3>2 DEF DeployRest, FirstReadyAt, FirstReady, Creating, TypeOK
    <3> QED
      BY <3>3, <3>4 DEF FirstReady, FirstReadyAt
  <2>9. CASE Deployed(j)
    BY <2>9, FirstReadyKept DEF Deployed, Goto, machineVars, TypeOK
  <2>10. CASE OnMachinesCreatedFailed(j)
    BY <2>10, FirstReadyKept DEF OnMachinesCreatedFailed, Goto,
      CreateMachinesError, machineVars, TypeOK
  <2>11. CASE CreateSetFailed(j)
    BY <2>11, FirstReadyKept DEF CreateSetFailed, Goto, machineVars,
      TypeOK
  <2>12. CASE ApplyAddons(j)
    BY <2>12, FirstReadyKept DEF ApplyAddons, Goto, machineVars, TypeOK
  <2>13. CASE ClusterSync(j)
    BY <2>13, FirstReadyKept DEF ClusterSync, SyncOnInit, SyncAddClient, SyncCallSyncTask, Goto, machineVars, TypeOK
  <2>14. CASE SyncstatusOnInit(j)
    BY <2>14, FirstReadyKept DEF SyncstatusOnInit, Goto, AfterSyncstatus,
      machineVars, TypeOK
  <2>15. CASE SyncstatusRun(j)
    BY <2>15, FirstReadyKept DEF SyncstatusRun, Goto, AfterSyncstatus,
      machineVars, TypeOK
  <2>16. CASE SyncstatusSetFailed(j)
    BY <2>16, FirstReadyKept DEF SyncstatusSetFailed, Goto, machineVars,
      TypeOK
  <2>17. CASE DeleteOnInit(j)
    <3>1. ASSUME NEW k \in Jobs, k # j PROVE FirstReadyAt(k)'
      BY <1>2, <2>17, <3>1, OthersFirstReady DEF DeleteOnInit, machineVars
    <3>2. kind'[j] = "delete"
      BY <2>17 DEF DeleteOnInit, Stage, OwnMachines
    <3> QED
      BY <3>1, <3>2 DEF FirstReady, FirstReadyAt, Creating
  <2>18. CASE OnMachinesDeleted(j)
    BY <2>18, FirstReadyKept DEF OnMachinesDeleted, Goto,
      RealDeleteCluster, machineVars, TypeOK
  <2>19. CASE DeleteSetFailed(j)
    BY <2>19, FirstReadyKept DEF DeleteSetFailed, Goto, machineVars,
      TypeOK
  <2>20. CASE DeleteMachinesOnInit(j)
    BY <2>20, FirstReadyKept DEF DeleteMachinesOnInit, Goto,
      DeleteMachinesError, machineVars, TypeOK
  <2>21. CASE OnDeleteMachinesFailed(j)
    BY <2>21, FirstReadyKept DEF OnDeleteMachinesFailed, Goto,
      DeleteMachinesError, machineVars, TypeOK
  <2>22. CASE OnDeleteMachines(j)
    BY <2>22, FirstReadyKept DEF OnDeleteMachines, Goto, machineVars,
      TypeOK
  <2>23. CASE BatchLoad(j)
    BY <2>23, FirstReadyKept DEF BatchLoad, Goto, machineVars, TypeOK
  <2>24. ASSUME NEW m \in Machines, MarkTerminating(j, m) PROVE FirstReady'
    BY <2>24, FirstReadyKept DEF MarkTerminating, machineVars, TypeOK
  <2>25. ASSUME NEW m \in Machines, StartTerminateTask(j, m) PROVE FirstReady'
    BY <2>25, FirstReadyKept DEF StartTerminateTask, Goto, machineVars,
      TypeOK
  <2>26. CASE BatchOnDeleteMachines(j)
    BY <2>26, FirstReadyKept DEF BatchOnDeleteMachines, Goto, machineVars,
      TypeOK
  <2>27. CASE BatchOnDeleteMachinesFailed(j)
    BY <2>27, FirstReadyKept DEF BatchOnDeleteMachinesFailed, Goto,
      machineVars, TypeOK
  <2> QED
    BY <1>2, <2>1, <2>2, <2>3, <2>4, <2>5, <2>6, <2>7, <2>8, <2>9, <2>10,
      <2>11, <2>12, <2>13, <2>14, <2>15, <2>16, <2>17, <2>18, <2>19, <2>20,
      <2>21, <2>22, <2>23, <2>24, <2>25, <2>26, <2>27 DEF TaskStep
<1>3. ASSUME NEW j \in Jobs, NEW m \in Machines, TerminateStep(j, m) PROVE FirstReady'
  <2>1. CASE TerminateLoad(j, m)
    BY <2>1, FirstReadyKept DEF TerminateLoad, machineVars, jobVars
  <2>2. CASE TerminateSkip(j, m)
    BY <2>2, FirstReadyKept DEF TerminateSkip, machineVars, jobVars
  <2>3. CASE TerminateServer(j, m)
    BY <2>3, FirstReadyKept DEF TerminateServer, machineVars, jobVars
  <2>4. CASE TerminateFail(j, m)
    BY <2>4, FirstReadyKept DEF TerminateFail, machineVars, jobVars
  <2> QED
    BY <1>3, <2>1, <2>2, <2>3, <2>4 DEF TerminateStep
<1>4. ASSUME NEW m \in Machines, MachineStep(m) PROVE FirstReady'
  <2>1. CASE MachineCreateOnInit(m)
    BY <2>1, FirstReadyKept DEF MachineCreateOnInit, jobVars, TypeOK
  <2>2. CASE PrepareLoad(m)
    BY <2>2, FirstReadyKept DEF PrepareLoad, jobVars, TypeOK
  <2>3. CASE PrepareCreateServer(m)
    BY <2>3, FirstReadyKept DEF PrepareCreateServer, jobVars, TypeOK
  <2>4. CASE PrepareOk(m)
    BY <2>4, FirstReadyKept DEF PrepareOk, jobVars, TypeOK
  <2>5. CASE PrepareOnError(m)
    BY <2>5, FirstReadyKept DEF PrepareOnError, jobVars, TypeOK,
      MachineLocked
  <2>6. CASE OnMachinePreparedFailed(m)
    BY <2>6, FirstReadyKept DEF OnMachinePreparedFailed, jobVars, TypeOK
  <2> QED
    BY <1>4, <2>1, <2>2, <2>3, <2>4, <2>5, <2>6 DEF MachineStep
<1>5. ASSUME HealthCheck PROVE FirstReady'
  <2>1. CASE HealthLoad
    BY <2>1, FirstReadyKept DEF HealthLoad, machineVars, jobVars
  <2>2. CASE Healthy
    BY <2>2, FirstReadyKept DEF Healthy, machineVars, jobVars
  <2>3. CASE Unhealthy
    BY <2>3, FirstReadyKept DEF Unhealthy, machineVars, jobVars
  <2>4. CASE HealthUpdateClient
    BY <2>4, FirstReadyKept DEF HealthUpdateClient, machineVars, jobVars
  <2> QED
    BY <1>5, <2>1, <2>2, <2>3, <2>4 DEF HealthCheck
<1>6. CASE UNCHANGED vars
  BY <1>6 DEF vars, FirstReady, Creating
<1> QED
  BY <1>1, <1>2, <1>3, <1>4, <1>5, <1>6 DEF Next

\* Every step leaves at most one first node among the rows.
LEMMA OneFirstStep ==
    TypeOK /\ TypeOK' /\ Unborn /\ DeployOrder /\ OneFirst /\ [Next]_vars
    => OneFirst'
<1> SUFFICES ASSUME TypeOK, TypeOK', Unborn, DeployOrder, OneFirst, [Next]_vars
             PROVE  OneFirst'
  OBVIOUS
<1>1. ASSUME NEW j \in Jobs, NEW m \in Machines, PostMachine(j, m) PROVE OneFirst'
  BY <1>1 DEF PostMachine, OneFirst, Rows, Fresh, Unborn, TypeOK
<1>2. ASSUME NEW j \in Jobs, NEW S \in SUBSET Machines, PerformDeleteMachines(j, S) PROVE OneFirst'
  BY <1>2 DEF PerformDeleteMachines, SetMachineStatus, machineVars,
    OneFirst, Rows, TypeOK
<1>3. ASSUME NEW j \in Jobs, NEW m \in Machines, DeleteMachine(j, m) PROVE OneFirst'
  BY <1>3 DEF DeleteMachine, SetMachineStatus, machineVars, OneFirst,
    Rows, TypeOK
<1>4. ASSUME NEW j \in Jobs, NEW m \in Machines, InsertMachine(j, m) PROVE OneFirst'
  BY <1>4 DEF InsertMachine, OneFirst, Rows, Unborn, DeployOrder,
    DeployAt, TypeOK
<1>5. ASSUME NEW j \in Jobs, DeployFirst(j) PROVE OneFirst'
  BY <1>5 DEF DeployFirst, StartMachineCreateTask, SetMachineStatus,
    machineVars, OneFirst, Rows, TypeOK
<1>6. ASSUME NEW j \in Jobs, NEW m \in Machines, DeployRest(j, m) PROVE OneFirst'
  BY <1>6 DEF DeployRest, StartMachineCreateTask, SetMachineStatus,
    machineVars, OneFirst, Rows, TypeOK
<1>7. ASSUME NEW j \in Jobs, DeleteOnInit(j) PROVE OneFirst'
  BY <1>7 DEF DeleteOnInit, SetMachineStatus, Rows, machineVars, OneFirst,
    Rows, TypeOK
<1>8. ASSUME NEW j \in Jobs, NEW m \in Machines, MarkTerminating(j, m) PROVE OneFirst'
  BY <1>8 DEF MarkTerminating, SetMachineStatus, machineVars, OneFirst,
    Rows, TypeOK
<1>9. ASSUME NEW j \in Jobs, BatchOnDeleteMachines(j) PROVE OneFirst'
  BY <1>9 DEF BatchOnDeleteMachines, SetMachineStatus, machineVars,
    OneFirst, Rows, TypeOK
<1>10. ASSUME NEW j \in Jobs, NEW m \in Machines, TerminateServer(j, m) PROVE OneFirst'
  BY <1>10 DEF TerminateServer, machineVars, OneFirst, Rows, TypeOK
<1>11. ASSUME NEW j \in Jobs, NEW m \in Machines, TerminateFail(j, m) PROVE OneFirst'
  BY <1>11 DEF TerminateFail, SetMachineStatus, machineVars, OneFirst,
    Rows, TypeOK
<1>12. ASSUME NEW m \in Machines, MachineCreateOnInit(m) PROVE OneFirst'
    <3>1. first' = first
      BY <1>12 DEF MachineCreateOnInit
    <3>2. Rows' \subseteq Rows
      <4>1. CASE mstat' = mstat
        BY <4>1 DEF Rows
      <4>2. CASE m \in Rows
        BY <1>12, <4>2 DEF MachineCreateOnInit, SetMachineStatus, Rows
      <4> QED
        BY <1>12, <4>1, <4>2 DEF MachineCreateOnInit
    <3> QED
      BY <3>1, <3>2 DEF OneFirst
<1>13. ASSUME NEW m \in Machines, PrepareLoad(m) PROVE OneFirst'
  BY <1>13 DEF PrepareLoad, machineVars, OneFirst, Rows, TypeOK
<1>14. ASSUME NEW m \in Machines, PrepareCreateServer(m) PROVE OneFirst'
  BY <1>14 DEF PrepareCreateServer, machineVars, OneFirst, Rows, TypeOK
<1>15. ASSUME NEW m \in Machines, PrepareOk(m) PROVE OneFirst'
  BY <1>15 DEF PrepareOk, SetMachineStatus, machineVars, OneFirst, Rows,
    TypeOK
<1>16. ASSUME NEW m \in Machines, PrepareOnError(m) PROVE OneFirst'
  BY <1>16 DEF PrepareOnError, SetMachineStatus, machineVars, OneFirst,
    Rows, TypeOK
<1>17. ASSUME NEW m \in Machines, OnMachinePreparedFailed(m) PROVE OneFirst'
  BY <1>17 DEF OnMachinePreparedFailed, SetMachineStatus, machineVars,
    OneFirst, Rows, TypeOK
<1>18. CASE UNCHANGED machineVars
  BY <1>18 DEF machineVars, OneFirst, Rows, TypeOK
<1> QED
  BY MachineFrame, <1>1, <1>2, <1>3, <1>4, <1>5, <1>6, <1>7, <1>8, <1>9,
    <1>10, <1>11, <1>12, <1>13, <1>14, <1>15, <1>16, <1>17, <1>18 DEF
    MachineChange, MachineStep

\* The joining machines of a request start only after its first control plane is
\* prepared, and no interleaving of insertions makes two rows the first node.
THEOREM FirstNode == Spec => []FirstNodeLeads
<1>1. Init => /\ CreatePath /\ OwnMachines /\ Unborn /\ DeployOrder
              /\ RunningIsDone /\ FirstReady /\ OneFirst
  BY DEF Init, CreatePath, OwnMachines, Creating, Unborn, DeployOrder, DeployAt,
    RunningIsDone, FirstReady, OneFirst, Rows
<1>2. FirstReady /\ OneFirst => FirstNodeLeads
  BY DEF FirstReady, FirstNodeLeads, NodesAfterFirst, Creating
<1> QED
  BY <1>1, <1>2, TypeCorrect, CreatePathStep, OwnMachinesStep, UnbornStep,
     DeployOrderStep, RunningIsDoneStep, FirstReadyStep, OneFirstStep, PTL
     DEF Spec

-----------------------------------------------------------------------------
(* Deleted machine rows never come back *)

GoneStays == \A m \in Machines : mstat[m] = "gone" => mstat'[m] = "gone"

\* No step gives a deleted row a status again.
LEMMA GoneStaysStep ==
    TypeOK /\ TypeOK' /\ DeployOrder /\ [Next]_vars => GoneStays
<1> SUFFICES ASSUME TypeOK, TypeOK', DeployOrder, [Next]_vars
             PROVE  GoneStays
  OBVIOUS
<1>1. ASSUME NEW j \in Jobs, NEW m \in Machines, PostMachine(j, m) PROVE GoneStays
  BY <1>1 DEF PostMachine, Fresh, GoneStays, TypeOK
<1>2. ASSUME NEW j \in Jobs, NEW S \in SUBSET Machines, PerformDeleteMachines(j, S) PROVE GoneStays
  BY <1>2 DEF PerformDeleteMachines, SetMachineStatus, machineVars,
    GoneStays, TypeOK
<1>3. ASSUME NEW j \in Jobs, NEW m \in Machines, DeleteMachine(j, m) PROVE GoneStays
  BY <1>3 DEF DeleteMachine, SetMachineStatus, machineVars, GoneStays,
    TypeOK
<1>4. ASSUME NEW j \in Jobs, NEW m \in Machines, InsertMachine(j, m) PROVE GoneStays
  BY <1>4 DEF InsertMachine, DeployOrder, DeployAt, GoneStays, TypeOK
<1>5. ASSUME NEW j \in Jobs, DeployFirst(j) PROVE GoneStays
  BY <1>5 DEF DeployFirst, StartMachineCreateTask, SetMachineStatus,
    machineVars, GoneStays, TypeOK
<1>6. ASSUME NEW j \in Jobs, NEW m \in Machines, DeployRest(j, m) PROVE GoneStays
  BY <1>6 DEF DeployRest, StartMachineCreateTask, SetMachineStatus,
    machineVars, GoneStays, TypeOK
<1>7. ASSUME NEW j \in Jobs, DeleteOnInit(j) PROVE GoneStays
  BY <1>7 DEF DeleteOnInit, SetMachineStatus, Rows, machineVars,
    GoneStays, TypeOK
<1>8. ASSUME NEW j \in Jobs, NEW m \in Machines, MarkTerminating(j, m) PROVE GoneStays
  BY <1>8 DEF MarkTerminating, SetMachineStatus, machineVars, GoneStays,
    TypeOK
<1>9. ASSUME NEW j \in Jobs, BatchOnDeleteMachines(j) PROVE GoneStays
  BY <1>9 DEF BatchOnDeleteMachines, SetMachineStatus, machineVars,
    GoneStays, TypeOK
<1>10. ASSUME NEW j \in Jobs, NEW m \in Machines, TerminateServer(j, m) PROVE GoneStays
  BY <1>10 DEF TerminateServer, machineVars, GoneStays, TypeOK
<1>11. ASSUME NEW j \in Jobs, NEW m \in Machines, TerminateFail(j, m) PROVE GoneStays
  BY <1>11 DEF TerminateFail, SetMachineStatus, machineVars, GoneStays,
    TypeOK
<1>12. ASSUME NEW m \in Machines, MachineCreateOnInit(m) PROVE GoneStays
  BY <1>12 DEF MachineCreateOnInit, SetMachineStatus, machineVars,
    GoneStays, TypeOK
<1>13. ASSUME NEW m \in Machines, PrepareLoad(m) PROVE GoneStays
  BY <1>13 DEF PrepareLoad, machineVars, GoneStays, TypeOK
<1>14. ASSUME NEW m \in Machines, PrepareCreateServer(m) PROVE GoneStays
  BY <1>14 DEF PrepareCreateServer, machineVars, GoneStays, TypeOK
<1>15. ASSUME NEW m \in Machines, PrepareOk(m) PROVE GoneStays
  BY <1>15 DEF PrepareOk, SetMachineStatus, machineVars, GoneStays, TypeOK
<1>16. ASSUME NEW m \in Machines, PrepareOnError(m) PROVE GoneStays
  BY <1>16 DEF PrepareOnError, SetMachineStatus, machineVars, GoneStays,
    TypeOK
<1>17. ASSUME NEW m \in Machines, OnMachinePreparedFailed(m) PROVE GoneStays
  BY <1>17 DEF OnMachinePreparedFailed, SetMachineStatus, machineVars,
    GoneStays, TypeOK
<1>18. CASE UNCHANGED machineVars
  BY <1>18 DEF machineVars, GoneStays, TypeOK
<1> QED
  BY MachineFrame, <1>1, <1>2, <1>3, <1>4, <1>5, <1>6, <1>7, <1>8, <1>9,
    <1>10, <1>11, <1>12, <1>13, <1>14, <1>15, <1>16, <1>17, <1>18 DEF
    MachineChange, MachineStep

-----------------------------------------------------------------------------
(* A cluster delete drains its machines *)

\* The stages of a cluster delete after its batch task succeeded.
Drained == {"dmOk", "ssInit", "ssRun", "delFinish", "ok"}

DrainAt(j) ==
    /\ kind[j] = "delete" /\ pc[j] \in Drained => \A m \in ms[j] : mstat[m] = "gone"
    /\ pc[j] = "delInit" => ms[j] = {}
    /\ pc[j] \in {"sync", "syncAdd", "syncing"} => kind[j] = "create"

DeleteOrder == \A j \in Jobs : DrainAt(j)

\* A job that stays where it is keeps what it has drained.
LEMMA DrainKept ==
    ASSUME NEW k \in Jobs, DrainAt(k), GoneStays, TypeOK,
           kind'[k] = kind[k], ms'[k] = ms[k], pc'[k] = pc[k]
    PROVE  DrainAt(k)'
  BY DEF DrainAt, GoneStays, TypeOK

\* A job that moves on keeps it too, if it was drained before.
LEMMA DrainMoves ==
    ASSUME NEW k \in Jobs, DrainAt(k), GoneStays, TypeOK,
           kind'[k] = kind[k], ms'[k] = ms[k],
           kind[k] = "delete" /\ pc'[k] \in Drained => pc[k] \in Drained,
           pc'[k] # "delInit",
           pc'[k] \in {"sync", "syncAdd", "syncing"} => kind[k] = "create"
    PROVE  DrainAt(k)'
  BY DEF DrainAt, GoneStays, TypeOK

\* Every step keeps a delete that has passed its batch task drained.
LEMMA DeleteOrderStep ==
    TypeOK /\ TypeOK' /\ CreatePath /\ DeleteOrder /\ GoneStays /\ [Next]_vars
    => DeleteOrder'
<1> SUFFICES ASSUME TypeOK, TypeOK', CreatePath, DeleteOrder, GoneStays, [Next]_vars
             PROVE  DeleteOrder'
  OBVIOUS
<1>1. ASSUME NEW j \in Jobs, Request(j) PROVE DeleteOrder'
  <2>0. \A k \in Jobs \ {j} : DrainAt(k)'
    BY <1>1, OtherJobs, DrainKept DEF DeleteOrder
  <2>1. ASSUME NEW S \in SUBSET Machines, CreateCluster(j, S) PROVE DeleteOrder'
    <3>1. DrainAt(j)'
      BY <2>1 DEF CreateCluster, Accept, Goto, DrainAt, Drained, TypeOK
    <3> QED
      BY <2>0, <3>1 DEF DeleteOrder
  <2>2. ASSUME NEW S \in SUBSET Machines, PerformAddMachines(j, S) PROVE DeleteOrder'
    <3>1. DrainAt(j)'
      BY <2>2 DEF PerformAddMachines, Accept, Goto, DrainAt, Drained, TypeOK
    <3> QED
      BY <2>0, <3>1 DEF DeleteOrder
  <2>3. ASSUME NEW m \in Machines, PostMachine(j, m) PROVE DeleteOrder'
    <3>1. DrainAt(j)'
      BY <2>3 DEF PostMachine, Accept, Goto, DrainAt, Drained, TypeOK
    <3> QED
      BY <2>0, <3>1 DEF DeleteOrder
  <2>4. ASSUME NEW S \in SUBSET Machines, PerformDeleteMachines(j, S) PROVE DeleteOrder'
    <3>1. DrainAt(j)'
      BY <2>4 DEF PerformDeleteMachines, Accept, Goto, DrainAt, Drained, TypeOK
    <3> QED
      BY <2>0, <3>1 DEF DeleteOrder
  <2>5. ASSUME NEW m \in Machines, DeleteMachine(j, m) PROVE DeleteOrder'
    <3>1. DrainAt(j)'
      BY <2>5 DEF DeleteMachine, Accept, Goto, DrainAt, Drained, TypeOK
    <3> QED
      BY <2>0, <3>1 DEF DeleteOrder
  <2>6. CASE DeleteCluster(j)
    <3>1. DrainAt(j)'
      BY <2>6 DEF DeleteCluster, Accept, Goto, DrainAt, Drained, TypeOK
    <3> QED
      BY <2>0, <3>1 DEF DeleteOrder
  <2>7. CASE PerformSyncstatus(j)
    <3>1. DrainAt(j)'
      BY <2>7 DEF PerformSyncstatus, Accept, Goto, DrainAt, Drained, TypeOK
    <3> QED
      BY <2>0, <3>1 DEF DeleteOrder
  <2> QED
    BY <1>1, <2>1, <2>2, <2>3, <2>4, <2>5, <2>6, <2>7 DEF Request
<1>2. ASSUME NEW j \in Jobs, TaskStep(j) PROVE DeleteOrder'
  <2>0. \A k \in Jobs \ {j} : DrainAt(k)'
    BY <1>2, OtherJobs, DrainKept DEF DeleteOrder
  <2>1. CASE StageOfDeletedRow(j)
    <3>1. DrainAt(j)'
      BY <2>1, DrainMoves DEF StageOfDeletedRow, Goto, DeleteOrder, CreatePath,
        Drained, TypeOK
    <3> QED
      BY <2>0, <3>1 DEF DeleteOrder
  <2>2. CASE CreateOnInit(j)
    <3>1. kind'[j] # "delete"
      BY <2>2 DEF CreateOnInit, Stage, CreatePath
    <3>2. pc'[j] \in {"ssInit", "cmInit", "failed"}
      BY <2>2 DEF CreateOnInit, Goto, TypeOK
    <3> QED
      BY <2>0, <3>1, <3>2 DEF DeleteOrder, DrainAt
  <2>3. CASE CreateMachinesOnInit(j)
    <3>1. pc'[j] \in {"insert", "createFailed", "failed"}
      BY <2>3 DEF CreateMachinesOnInit, Goto, CreateMachinesError, TypeOK
    <3> QED
      BY <2>0, <3>1 DEF DeleteOrder, DrainAt, Drained
  <2>4. ASSUME NEW m \in Machines, InsertMachine(j, m) PROVE DeleteOrder'
    <3>1. pc'[j] \in {"deploy", "insert"}
      BY <2>4 DEF InsertMachine, Goto, TypeOK
    <3> QED
      BY <2>0, <3>1 DEF DeleteOrder, DrainAt, Drained
  <2>5. CASE InsertFail(j)
    <3>1. DrainAt(j)'
      BY <2>5, DrainMoves DEF InsertFail, Goto, CreateMachinesError, DeleteOrder, CreatePath,
        Drained, TypeOK
    <3> QED
      BY <2>0, <3>1 DEF DeleteOrder
  <2>6. CASE DeployFirst(j)
    <3>1. pc'[j] \in {"rest", "waitFirst"}
      BY <2>6 DEF DeployFirst, Goto, TypeOK
    <3> QED
      BY <2>0, <3>1 DEF DeleteOrder, DrainAt, Drained
  <2>7. CASE WaitMachineRunning(j)
    <3>1. pc'[j] \in {"rest", "deployFailed"}
      BY <2>7 DEF WaitMachineRunning, Goto, TypeOK
    <3> QED
      BY <2>0, <3>1 DEF DeleteOrder, DrainAt, Drained
  <2>8. ASSUME NEW m \in Machines, DeployRest(j, m) PROVE DeleteOrder'
    BY <2>8, DrainKept DEF DeployRest, DeleteOrder, jobVars
  <2>9. CASE Deployed(j)
    <3>1. DrainAt(j)'
      BY <2>9, DrainMoves DEF Deployed, Goto, DeleteOrder, CreatePath,
        Drained, TypeOK
    <3> QED
      BY <2>0, <3>1 DEF DeleteOrder
  <2>10. CASE OnMachinesCreatedFailed(j)
    <3>1. DrainAt(j)'
      BY <2>10, DrainMoves DEF OnMachinesCreatedFailed, Stage, Goto, CreateMachinesError, DeleteOrder, CreatePath,
        Drained, TypeOK
    <3> QED
      BY <2>0, <3>1 DEF DeleteOrder
  <2>11. CASE CreateSetFailed(j)
    <3>1. DrainAt(j)'
      BY <2>11, DrainMoves DEF CreateSetFailed, Stage, Goto, DeleteOrder, CreatePath,
        Drained, TypeOK
    <3> QED
      BY <2>0, <3>1 DEF DeleteOrder
  <2>12. CASE ApplyAddons(j)
    <3>1. DrainAt(j)'
      <4>1. /\ kind'[j] = kind[j] /\ ms'[j] = ms[j] /\ kind[j] # "delete"
            /\ pc'[j] \in {"ssInit", "createFailed"}
        BY <2>12 DEF ApplyAddons, Stage, Goto, CreatePath, TypeOK
      <4> QED
        BY <4>1, DrainMoves DEF DeleteOrder
    <3> QED
      BY <2>0, <3>1 DEF DeleteOrder
  <2>13. CASE ClusterSync(j)
    <3>1. kind'[j] = "create" /\ pc'[j] # "delInit"
      BY <2>13 DEF ClusterSync, SyncOnInit, SyncAddClient, SyncCallSyncTask, Stage, Goto, DeleteOrder, DrainAt, TypeOK
    <3> QED
      BY <2>0, <3>1 DEF DeleteOrder, DrainAt
  <2>14. CASE SyncstatusOnInit(j)
    <3>1. kind'[j] = kind[j] /\ ms'[j] = ms[j] /\ pc[j] \in Drained
      BY <2>14 DEF SyncstatusOnInit, Stage, Drained
    <3>2. pc'[j] \in {AfterSyncstatus(j), "ssRun"}
      BY <2>14 DEF SyncstatusOnInit, Goto, TypeOK
    <3>3. /\ pc'[j] # "delInit"
          /\ pc'[j] \in {"sync", "syncAdd", "syncing"} => kind[j] = "create"
      BY <3>2 DEF AfterSyncstatus
    <3> QED
      BY <2>0, <3>1, <3>3, DrainMoves DEF DeleteOrder
  <2>15. CASE SyncstatusRun(j)
    <3>1. kind'[j] = kind[j] /\ ms'[j] = ms[j] /\ pc[j] \in Drained
      BY <2>15 DEF SyncstatusRun, Drained
    <3>2. pc'[j] \in {AfterSyncstatus(j), "ssFailed"}
      BY <2>15 DEF SyncstatusRun, Goto, TypeOK
    <3>3. /\ pc'[j] # "delInit"
          /\ pc'[j] \in {"sync", "syncAdd", "syncing"} => kind[j] = "create"
      BY <3>2 DEF AfterSyncstatus
    <3> QED
      BY <2>0, <3>1, <3>3, DrainMoves DEF DeleteOrder
  <2>16. CASE SyncstatusSetFailed(j)
    <3>1. DrainAt(j)'
      BY <2>16, DrainMoves DEF SyncstatusSetFailed, Stage, Goto, DeleteOrder, CreatePath,
        Drained, TypeOK
    <3> QED
      BY <2>0, <3>1 DEF DeleteOrder
  <2>17. CASE DeleteOnInit(j)
    <3>1. CASE Rows = {}
      <4>1. ms'[j] = {}
        BY <2>17, <3>1 DEF DeleteOnInit, Stage, DeleteOrder, DrainAt
      <4>2. pc'[j] \in {"ok", "failed"}
        BY <2>17, <3>1 DEF DeleteOnInit, RealDeleteCluster, Goto, TypeOK
      <4> QED
        BY <2>0, <4>1, <4>2 DEF DeleteOrder, DrainAt
    <3>2. CASE Rows # {}
      <4>1. pc'[j] = "dmInit"
        BY <2>17, <3>2 DEF DeleteOnInit, Goto, TypeOK
      <4> QED
        BY <2>0, <4>1 DEF DeleteOrder, DrainAt, Drained
    <3> QED
      BY <3>1, <3>2
  <2>18. CASE OnMachinesDeleted(j)
    <3>1. DrainAt(j)'
      <4>1. /\ kind'[j] = kind[j] /\ ms'[j] = ms[j] /\ pc[j] \in Drained
            /\ pc'[j] \in {"ok", "failed"}
        BY <2>18 DEF OnMachinesDeleted, Stage, Goto, RealDeleteCluster, Drained, TypeOK
      <4> QED
        BY <4>1, DrainMoves DEF DeleteOrder
    <3> QED
      BY <2>0, <3>1 DEF DeleteOrder
  <2>19. CASE DeleteSetFailed(j)
    <3>1. DrainAt(j)'
      BY <2>19, DrainMoves DEF DeleteSetFailed, Stage, Goto, DeleteOrder, CreatePath,
        Drained, TypeOK
    <3> QED
      BY <2>0, <3>1 DEF DeleteOrder
  <2>20. CASE DeleteMachinesOnInit(j)
    <3>1. pc'[j] \in {"batchInit", "delFailed", "failed"}
      BY <2>20 DEF DeleteMachinesOnInit, Goto, DeleteMachinesError, TypeOK
    <3> QED
      BY <2>0, <3>1 DEF DeleteOrder, DrainAt, Drained
  <2>21. CASE OnDeleteMachinesFailed(j)
    <3>1. DrainAt(j)'
      BY <2>21, DrainMoves DEF OnDeleteMachinesFailed, Stage, Goto, DeleteMachinesError, DeleteOrder, CreatePath,
        Drained, TypeOK
    <3> QED
      BY <2>0, <3>1 DEF DeleteOrder
  <2>22. CASE OnDeleteMachines(j)
    <3>1. DrainAt(j)'
      BY <2>22, DrainMoves DEF OnDeleteMachines, Stage, Goto, DeleteOrder, CreatePath,
        Drained, TypeOK
    <3> QED
      BY <2>0, <3>1 DEF DeleteOrder
  <2>23. CASE BatchLoad(j)
    <3>1. pc'[j] \in {"spawn", "dmFailed"}
      BY <2>23 DEF BatchLoad, Goto, TypeOK
    <3> QED
      BY <2>0, <3>1 DEF DeleteOrder, DrainAt, Drained
  <2>24. ASSUME NEW m \in Machines, MarkTerminating(j, m) PROVE DeleteOrder'
    BY <2>24, DrainKept DEF MarkTerminating, DeleteOrder, jobVars
  <2>25. ASSUME NEW m \in Machines, StartTerminateTask(j, m) PROVE DeleteOrder'
    <3>1. DrainAt(j)'
      BY <2>25, DrainMoves DEF StartTerminateTask, Goto, DeleteOrder, CreatePath,
        Drained, TypeOK
    <3> QED
      BY <2>0, <3>1 DEF DeleteOrder
  <2>26. CASE BatchOnDeleteMachines(j)
    <3>1. CASE ms[j] \subseteq Rows
      <4>1. \A m \in ms'[j] : mstat'[m] = "gone"
        BY <2>26, <3>1 DEF BatchOnDeleteMachines, SetMachineStatus, Rows
      <4>2. pc'[j] = "dmOk"
        BY <2>26, <3>1 DEF BatchOnDeleteMachines, Goto, TypeOK
      <4> QED
        BY <2>0, <4>1, <4>2 DEF DeleteOrder, DrainAt
    <3>2. CASE ~(ms[j] \subseteq Rows)
      <4>1. pc'[j] = "dmFailed"
        BY <2>26, <3>2 DEF BatchOnDeleteMachines, Goto, TypeOK
      <4> QED
        BY <2>0, <4>1 DEF DeleteOrder, DrainAt, Drained
    <3> QED
      BY <3>1, <3>2
  <2>27. CASE BatchOnDeleteMachinesFailed(j)
    <3>1. DrainAt(j)'
      BY <2>27, DrainMoves DEF BatchOnDeleteMachinesFailed, Goto, DeleteOrder, CreatePath,
        Drained, TypeOK
    <3> QED
      BY <2>0, <3>1 DEF DeleteOrder
  <2> QED
    BY <1>2, <2>1, <2>2, <2>3, <2>4, <2>5, <2>6, <2>7, <2>8, <2>9, <2>10,
      <2>11, <2>12, <2>13, <2>14, <2>15, <2>16, <2>17, <2>18, <2>19, <2>20,
      <2>21, <2>22, <2>23, <2>24, <2>25, <2>26, <2>27 DEF TaskStep
<1>3. ASSUME NEW j \in Jobs, NEW m \in Machines, TerminateStep(j, m) PROVE DeleteOrder'
  <2>1. CASE TerminateLoad(j, m)
    BY <2>1, DrainKept DEF TerminateLoad, DeleteOrder, jobVars
  <2>2. CASE TerminateSkip(j, m)
    BY <2>2, DrainKept DEF TerminateSkip, DeleteOrder, jobVars
  <2>3. CASE TerminateServer(j, m)
    BY <2>3, DrainKept DEF TerminateServer, DeleteOrder, jobVars
  <2>4. CASE TerminateFail(j, m)
    BY <2>4, DrainKept DEF TerminateFail, DeleteOrder, jobVars
  <2> QED
    BY <1>3, <2>1, <2>2, <2>3, <2>4 DEF TerminateStep
<1>4. ASSUME NEW m \in Machines, MachineStep(m) PROVE DeleteOrder'
  <2>1. CASE MachineCreateOnInit(m)
    BY <2>1, DrainKept DEF MachineCreateOnInit, DeleteOrder, jobVars
  <2>2. CASE PrepareLoad(m)
    BY <2>2, DrainKept DEF PrepareLoad, DeleteOrder, jobVars
  <2>3. CASE PrepareCreateServer(m)
    BY <2>3, DrainKept DEF PrepareCreateServer, DeleteOrder, jobVars
  <2>4. CASE PrepareOk(m)
    BY <2>4, DrainKept DEF PrepareOk, DeleteOrder, jobVars
  <2>5. CASE PrepareOnError(m)
    BY <2>5, DrainKept DEF PrepareOnError, DeleteOrder, jobVars
  <2>6. CASE OnMachinePreparedFailed(m)
    BY <2>6, DrainKept DEF OnMachinePreparedFailed, DeleteOrder, jobVars
  <2> QED
    BY <1>4, <2>1, <2>2, <2>3, <2>4, <2>5, <2>6 DEF MachineStep
<1>5. ASSUME HealthCheck PROVE DeleteOrder'
  <2>1. CASE HealthLoad
    BY <2>1, DrainKept DEF HealthLoad, DeleteOrder, jobVars
  <2>2. CASE Healthy
    BY <2>2, DrainKept DEF Healthy, DeleteOrder, jobVars
  <2>3. CASE Unhealthy
    BY <2>3, DrainKept DEF Unhealthy, DeleteOrder, jobVars
  <2>4. CASE HealthUpdateClient
    BY <2>4, DrainKept DEF HealthUpdateClient, DeleteOrder, jobVars
  <2> QED
    BY <1>5, <2>1, <2>2, <2>3, <2>4 DEF HealthCheck
<1>6. CASE UNCHANGED vars
  BY <1>6 DEF vars, DeleteOrder, DrainAt
<1> QED
  BY <1>1, <1>2, <1>3, <1>4, <1>5, <1>6 DEF Next

\* A cluster delete that succeeds removed every machine row it listed, for any
\* number of machines and of concurrent requests.
THEOREM DeleteSucceedsDrained == Spec => []DeleteDrains
<1>1. Init => /\ CreatePath /\ OwnMachines /\ Unborn /\ DeployOrder
              /\ DeleteOrder
  BY DEF Init, CreatePath, OwnMachines, Creating, Unborn, DeployOrder, DeployAt,
    DeleteOrder, DrainAt, Drained
<1>2. DeleteOrder => DeleteDrains
  BY DEF DeleteOrder, DrainAt, Drained, DeleteDrains
<1> QED
  BY <1>1, <1>2, TypeCorrect, CreatePathStep, OwnMachinesStep, UnbornStep,
     DeployOrderStep, GoneStaysStep, DeleteOrderStep, PTL DEF Spec

-----------------------------------------------------------------------------
(* No server is lost silently *)

\* Where the terminate tasks of a job are, at each of its stages: none before
\* the batch task, at most one being started, and all started after its loop.
TermAt(j) ==
    /\ kind[j] = "none" => pc[j] = "idle"
    /\ pc[j] \in {"idle", "delInit", "dmInit", "batchInit"} =>
          \A m \in Machines : term[j][m] = "none"
    /\ pc[j] = "spawn" =>
          /\ \A m \in todo[j] : term[j][m] = "none"
          /\ \A m \in ms[j] \ todo[j] : term[j][m] # "none"
          /\ \A m, n \in Machines : term[j][m] = "marked" /\ term[j][n] = "marked" => m = n
    /\ pc[j] = "batch" => \A m \in ms[j] : term[j][m] \notin {"none", "marked"}

TermOrder == \A j \in Jobs : TermAt(j)

\* A row is deleted only after a terminate task of its machine was started.
GoneStarted ==
    \A m \in Machines : mstat[m] = "gone" =>
        \E j \in Jobs : term[j][m] \notin {"none", "marked"}

\* A server is created once per machine, so what a terminate task deleted
\* stays deleted.
ServerOrder ==
    /\ \A m \in rid : prep[m] \in {"server", "prepareFailed", "failed", "done"}
    /\ \A j \in Jobs, m \in Machines :
          /\ term[j][m] \in {"hasId", "ok"} => m \in rid
          /\ term[j][m] = "ok" => m \notin vm

\* A job that stays where it is keeps its terminate tasks in order.
LEMMA TermKept ==
    ASSUME NEW k \in Jobs, TermAt(k), kind'[k] = kind[k], pc'[k] = pc[k],
           ms'[k] = ms[k], todo'[k] = todo[k], term'[k] = term[k]
    PROVE  TermAt(k)'
  BY DEF TermAt

\* So does a job that moves on outside the batch task.
LEMMA TermMoves ==
    ASSUME NEW k \in Jobs, TermAt(k), kind'[k] = kind[k], kind[k] # "none",
           pc'[k] \notin {"idle", "delInit", "dmInit", "spawn", "batch"},
           pc'[k] = "batchInit" => pc[k] = "dmInit",
           term'[k] = term[k]
    PROVE  TermAt(k)'
  BY DEF TermAt

\* Every step keeps the terminate tasks of every job in order.
LEMMA TermOrderStep ==
    TypeOK /\ TypeOK' /\ TermOrder /\ [Next]_vars
    => TermOrder'
<1> SUFFICES ASSUME TypeOK, TypeOK', TermOrder, [Next]_vars
             PROVE  TermOrder'
  OBVIOUS
<1>1. ASSUME NEW j \in Jobs, Request(j) PROVE TermOrder'
  <2>0. \A k \in Jobs \ {j} : TermAt(k)'
    BY <1>1, OtherJobs, TermKept DEF TermOrder
  <2>1. ASSUME NEW S \in SUBSET Machines, CreateCluster(j, S) PROVE TermOrder'
    <3>1. TermAt(j)'
      BY <2>1 DEF CreateCluster, Accept, Goto, TermOrder, TermAt, termVars, TypeOK
    <3> QED
      BY <2>0, <3>1 DEF TermOrder
  <2>2. ASSUME NEW S \in SUBSET Machines, PerformAddMachines(j, S) PROVE TermOrder'
    <3>1. TermAt(j)'
      BY <2>2 DEF PerformAddMachines, Accept, Goto, TermOrder, TermAt, termVars, TypeOK
    <3> QED
      BY <2>0, <3>1 DEF TermOrder
  <2>3. ASSUME NEW m \in Machines, PostMachine(j, m) PROVE TermOrder'
    <3>1. TermAt(j)'
      BY <2>3 DEF PostMachine, Accept, Goto, TermOrder, TermAt, termVars, TypeOK
    <3> QED
      BY <2>0, <3>1 DEF TermOrder
  <2>4. ASSUME NEW S \in SUBSET Machines, PerformDeleteMachines(j, S) PROVE TermOrder'
    <3>1. TermAt(j)'
      BY <2>4 DEF PerformDeleteMachines, Accept, Goto, TermOrder, TermAt, termVars, TypeOK
    <3> QED
      BY <2>0, <3>1 DEF TermOrder
  <2>5. ASSUME NEW m \in Machines, DeleteMachine(j, m) PROVE TermOrder'
    <3>1. TermAt(j)'
      BY <2>5 DEF DeleteMachine, Accept, Goto, TermOrder, TermAt, termVars, TypeOK
    <3> QED
      BY <2>0, <3>1 DEF TermOrder
  <2>6. CASE DeleteCluster(j)
    <3>1. TermAt(j)'
      BY <2>6 DEF DeleteCluster, Accept, Goto, TermOrder, TermAt, termVars, TypeOK
    <3> QED
      BY <2>0, <3>1 DEF TermOrder
  <2>7. CASE PerformSyncstatus(j)
    <3>1. TermAt(j)'
      BY <2>7 DEF PerformSyncstatus, Accept, Goto, TermOrder, TermAt, termVars, TypeOK
    <3> QED
      BY <2>0, <3>1 DEF TermOrder
  <2> QED
    BY <1>1, <2>1, <2>2, <2>3, <2>4, <2>5, <2>6, <2>7 DEF Request
<1>2. ASSUME NEW j \in Jobs, TaskStep(j) PROVE TermOrder'
  <2>0. \A k \in Jobs \ {j} : TermAt(k)'
    BY <1>2, OtherJobs, TermKept DEF TermOrder
  <2>1. CASE StageOfDeletedRow(j)
    <3>1. kind'[j] # "none"
      BY <2>1 DEF StageOfDeletedRow, ClusterStages, TermOrder, TermAt
    <3>2. pc'[j] = "failed"
      BY <2>1 DEF StageOfDeletedRow, Goto, TypeOK
    <3> QED
      BY <2>0, <3>1, <3>2 DEF TermOrder, TermAt
  <2>2. CASE CreateOnInit(j)
    <3>1. TermAt(j)'
      BY <2>2, TermMoves DEF CreateOnInit, Stage, Goto, TermOrder, TermAt, termVars, TypeOK
    <3> QED
      BY <2>0, <3>1 DEF TermOrder
  <2>3. CASE CreateMachinesOnInit(j)
    <3>1. kind'[j] = kind[j] /\ term'[j] = term[j] /\ kind[j] # "none"
      BY <2>3 DEF CreateMachinesOnInit, Stage, TermOrder, TermAt, termVars
    <3>2. pc'[j] \in {"insert", "createFailed", "failed"}
      BY <2>3 DEF CreateMachinesOnInit, Stage, Goto, CreateMachinesError, TypeOK
    <3> QED
      BY <2>0, <3>1, <3>2, TermMoves DEF TermOrder
  <2>4. ASSUME NEW m \in Machines, InsertMachine(j, m) PROVE TermOrder'
    <3>1. kind'[j] = kind[j] /\ term'[j] = term[j] /\ kind[j] # "none"
      BY <2>4 DEF InsertMachine, TermOrder, TermAt, termVars
    <3>2. pc'[j] \in {"deploy", "insert"}
      BY <2>4 DEF InsertMachine, Goto, TypeOK
    <3> QED
      BY <2>0, <3>1, <3>2, TermMoves DEF TermOrder
  <2>5. CASE InsertFail(j)
    <3>1. TermAt(j)'
      BY <2>5, TermMoves DEF InsertFail, Goto, CreateMachinesError, TermOrder, TermAt, termVars, TypeOK
    <3> QED
      BY <2>0, <3>1 DEF TermOrder
  <2>6. CASE DeployFirst(j)
    <3>1. kind'[j] = kind[j] /\ term'[j] = term[j] /\ kind[j] # "none"
      BY <2>6 DEF DeployFirst, TermOrder, TermAt, termVars
    <3>2. pc'[j] \in {"rest", "waitFirst"}
      BY <2>6 DEF DeployFirst, Goto, TypeOK
    <3> QED
      BY <2>0, <3>1, <3>2, TermMoves DEF TermOrder
  <2>7. CASE WaitMachineRunning(j)
    <3>1. TermAt(j)'
      BY <2>7, TermMoves DEF WaitMachineRunning, Goto, TermOrder, TermAt, termVars, TypeOK
    <3> QED
      BY <2>0, <3>1 DEF TermOrder
  <2>8. ASSUME NEW m \in Machines, DeployRest(j, m) PROVE TermOrder'
    <3>1. TermAt(j)'
      BY <2>8 DEF DeployRest, TermOrder, TermAt, termVars
    <3> QED
      BY <2>0, <3>1 DEF TermOrder
  <2>9. CASE Deployed(j)
    <3>1. TermAt(j)'
      BY <2>9, TermMoves DEF Deployed, Goto, TermOrder, TermAt, termVars, TypeOK
    <3> QED
      BY <2>0, <3>1 DEF TermOrder
  <2>10. CASE OnMachinesCreatedFailed(j)
    <3>1. TermAt(j)'
      BY <2>10, TermMoves DEF OnMachinesCreatedFailed, Stage, Goto, CreateMachinesError, TermOrder, TermAt, termVars, TypeOK
    <3> QED
      BY <2>0, <3>1 DEF TermOrder
  <2>11. CASE CreateSetFailed(j)
    <3>1. TermAt(j)'
      BY <2>11, TermMoves DEF CreateSetFailed, Stage, Goto, TermOrder, TermAt, termVars, TypeOK
    <3> QED
      BY <2>0, <3>1 DEF TermOrder
  <2>12. CASE ApplyAddons(j)
    <3>1. kind'[j] = kind[j] /\ term'[j] = term[j] /\ kind[j] # "none"
      BY <2>12 DEF ApplyAddons, Stage, TermOrder, TermAt, termVars
    <3>2. pc'[j] \in {"ssInit", "createFailed"}
      BY <2>12 DEF ApplyAddons, Stage, Goto, TypeOK
    <3> QED
      BY <2>0, <3>1, <3>2, TermMoves DEF TermOrder
  <2>13. CASE ClusterSync(j)
    <3>1. TermAt(j)'
      BY <2>13, TermMoves DEF ClusterSync, SyncOnInit, SyncAddClient, SyncCallSyncTask, Stage, Goto, TermOrder, TermAt, termVars, TypeOK
    <3> QED
      BY <2>0, <3>1 DEF TermOrder
  <2>14. CASE SyncstatusOnInit(j)
    <3>1. TermAt(j)'
      BY <2>14, TermMoves DEF SyncstatusOnInit, Stage, Goto, AfterSyncstatus, TermOrder, TermAt, termVars, TypeOK
    <3> QED
      BY <2>0, <3>1 DEF TermOrder
  <2>15. CASE SyncstatusRun(j)
    <3>1. TermAt(j)'
      BY <2>15, TermMoves DEF SyncstatusRun, Goto, AfterSyncstatus, TermOrder, TermAt, termVars, TypeOK
    <3> QED
      BY <2>0, <3>1 DEF TermOrder
  <2>16. CASE SyncstatusSetFailed(j)
    <3>1. TermAt(j)'
      BY <2>16, TermMoves DEF SyncstatusSetFailed, Stage, Goto, TermOrder, TermAt, termVars, TypeOK
    <3> QED
      BY <2>0, <3>1 DEF TermOrder
  <2>17. CASE DeleteOnInit(j)
    <3>1. /\ kind'[j] # "none"
          /\ \A m \in Machines : term'[j][m] = "none"
      BY <2>17 DEF DeleteOnInit, Stage, TermOrder, TermAt, termVars
    <3>2. pc'[j] \in {"ok", "failed", "dmInit"}
      BY <2>17 DEF DeleteOnInit, Goto, RealDeleteCluster, TypeOK
    <3> QED
      BY <2>0, <3>1, <3>2 DEF TermOrder, TermAt
  <2>18. CASE OnMachinesDeleted(j)
    <3>1. TermAt(j)'
      BY <2>18, TermMoves DEF OnMachinesDeleted, Stage, Goto, RealDeleteCluster, TermOrder, TermAt, termVars, TypeOK
    <3> QED
      BY <2>0, <3>1 DEF TermOrder
  <2>19. CASE DeleteSetFailed(j)
    <3>1. TermAt(j)'
      BY <2>19, TermMoves DEF DeleteSetFailed, Stage, Goto, TermOrder, TermAt, termVars, TypeOK
    <3> QED
      BY <2>0, <3>1 DEF TermOrder
  <2>20. CASE DeleteMachinesOnInit(j)
    <3>1. TermAt(j)'
      BY <2>20, TermMoves DEF DeleteMachinesOnInit, Stage, Goto, DeleteMachinesError, TermOrder, TermAt, termVars, TypeOK
    <3> QED
      BY <2>0, <3>1 DEF TermOrder
  <2>21. CASE OnDeleteMachinesFailed(j)
    <3>1. TermAt(j)'
      BY <2>21, TermMoves DEF OnDeleteMachinesFailed, Stage, Goto, DeleteMachinesError, TermOrder, TermAt, termVars, TypeOK
    <3> QED
      BY <2>0, <3>1 DEF TermOrder
  <2>22. CASE OnDeleteMachines(j)
    <3>1. TermAt(j)'
      BY <2>22, TermMoves DEF OnDeleteMachines, Stage, Goto, TermOrder, TermAt, termVars, TypeOK
    <3> QED
      BY <2>0, <3>1 DEF TermOrder
  <2>23. CASE BatchLoad(j)
    <3>1. /\ kind'[j] # "none" /\ ms[j] \subseteq Machines /\ ms'[j] = ms[j]
          /\ \A m \in Machines : term'[j][m] = "none"
      BY <2>23 DEF BatchLoad, TermOrder, TermAt, termVars, TypeOK
    <3>2. pc'[j] = "dmFailed" \/ (pc'[j] = "spawn" /\ todo'[j] = ms[j])
      BY <2>23 DEF BatchLoad, Goto, TypeOK
    <3> QED
      BY <2>0, <3>1, <3>2 DEF TermOrder, TermAt
  <2>24. ASSUME NEW m \in Machines, MarkTerminating(j, m) PROVE TermOrder'
    <3>1. TermAt(j) /\ pc[j] = "spawn" /\ ms[j] \subseteq Machines /\ todo[j] \subseteq Machines
      BY <2>24 DEF MarkTerminating, TermOrder, TypeOK
    <3>2. /\ kind'[j] = kind[j] /\ pc'[j] = pc[j] /\ ms'[j] = ms[j]
          /\ todo'[j] = todo[j] \ {m} /\ term'[j][m] = "marked"
          /\ \A n \in Machines \ {m} : term'[j][n] = term[j][n] /\ term[j][n] # "marked"
      BY <2>24 DEF MarkTerminating, TypeOK
    <3> QED
      BY <2>0, <3>1, <3>2 DEF TermOrder, TermAt
  <2>25. ASSUME NEW m \in Machines, StartTerminateTask(j, m) PROVE TermOrder'
    <3>1. TermAt(j) /\ pc[j] = "spawn" /\ ms[j] \subseteq Machines /\ todo[j] \subseteq Machines
      BY <2>25 DEF StartTerminateTask, TermOrder, TypeOK
    <3>2. /\ kind'[j] = kind[j] /\ ms'[j] = ms[j] /\ todo'[j] = todo[j]
          /\ term[j][m] = "marked" /\ term'[j][m] = "queued"
          /\ \A n \in Machines \ {m} : term'[j][n] = term[j][n]
      BY <2>25 DEF StartTerminateTask, TypeOK
    <3>3. \/ pc'[j] = "spawn"
          \/ pc'[j] = "batch" /\ todo[j] = {}
      BY <2>25 DEF StartTerminateTask, Goto, TypeOK
    <3> QED
      BY <2>0, <3>1, <3>2, <3>3 DEF TermOrder, TermAt
  <2>26. CASE BatchOnDeleteMachines(j)
    <3>1. kind'[j] = kind[j] /\ term'[j] = term[j] /\ kind[j] # "none"
      BY <2>26 DEF BatchOnDeleteMachines, TermOrder, TermAt, termVars
    <3>2. pc'[j] \in {"dmOk", "dmFailed"}
      BY <2>26 DEF BatchOnDeleteMachines, Goto, TypeOK
    <3> QED
      BY <2>0, <3>1, <3>2, TermMoves DEF TermOrder
  <2>27. CASE BatchOnDeleteMachinesFailed(j)
    <3>1. TermAt(j)'
      BY <2>27, TermMoves DEF BatchOnDeleteMachinesFailed, Goto, TermOrder, TermAt, termVars, TypeOK
    <3> QED
      BY <2>0, <3>1 DEF TermOrder
  <2> QED
    BY <1>2, <2>1, <2>2, <2>3, <2>4, <2>5, <2>6, <2>7, <2>8, <2>9, <2>10,
      <2>11, <2>12, <2>13, <2>14, <2>15, <2>16, <2>17, <2>18, <2>19, <2>20,
      <2>21, <2>22, <2>23, <2>24, <2>25, <2>26, <2>27 DEF TaskStep
<1>3. ASSUME NEW j \in Jobs, NEW m \in Machines, TerminateStep(j, m) PROVE TermOrder'
  <2>1. CASE TerminateLoad(j, m)
    <3>1. term[j][m] \in {"queued", "hasId", "noId"}
      BY <2>1 DEF TerminateLoad
    <3>2. /\ term'[j][m] \notin {"none", "marked"}
          /\ \A n \in Machines \ {m} : term'[j][n] = term[j][n]
      BY <2>1 DEF TerminateLoad, TerminateEnds, TypeOK
    <3>3. ASSUME NEW k \in Jobs, k # j PROVE TermAt(k)'
      BY <2>1, <3>3, TermKept DEF TerminateLoad, TerminateEnds, TermOrder, jobVars, TypeOK
    <3>4. TermAt(j)'
      <4>1. UNCHANGED jobVars /\ TermAt(j) /\ ms[j] \subseteq Machines /\ todo[j] \subseteq Machines
        BY <2>1 DEF TerminateLoad, TermOrder, TypeOK
      <4> QED
        BY <3>1, <3>2, <4>1 DEF TermAt, jobVars
    <3> QED
      BY <3>3, <3>4 DEF TermOrder
  <2>2. CASE TerminateSkip(j, m)
    <3>1. term[j][m] \in {"queued", "hasId", "noId"}
      BY <2>2 DEF TerminateSkip
    <3>2. /\ term'[j][m] \notin {"none", "marked"}
          /\ \A n \in Machines \ {m} : term'[j][n] = term[j][n]
      BY <2>2 DEF TerminateSkip, TerminateEnds, TypeOK
    <3>3. ASSUME NEW k \in Jobs, k # j PROVE TermAt(k)'
      BY <2>2, <3>3, TermKept DEF TerminateSkip, TerminateEnds, TermOrder, jobVars, TypeOK
    <3>4. TermAt(j)'
      <4>1. UNCHANGED jobVars /\ TermAt(j) /\ ms[j] \subseteq Machines /\ todo[j] \subseteq Machines
        BY <2>2 DEF TerminateSkip, TermOrder, TypeOK
      <4> QED
        BY <3>1, <3>2, <4>1 DEF TermAt, jobVars
    <3> QED
      BY <3>3, <3>4 DEF TermOrder
  <2>3. CASE TerminateServer(j, m)
    <3>1. term[j][m] \in {"queued", "hasId", "noId"}
      BY <2>3 DEF TerminateServer
    <3>2. /\ term'[j][m] \notin {"none", "marked"}
          /\ \A n \in Machines \ {m} : term'[j][n] = term[j][n]
      BY <2>3 DEF TerminateServer, TerminateEnds, TypeOK
    <3>3. ASSUME NEW k \in Jobs, k # j PROVE TermAt(k)'
      BY <2>3, <3>3, TermKept DEF TerminateServer, TerminateEnds, TermOrder, jobVars, TypeOK
    <3>4. TermAt(j)'
      <4>1. UNCHANGED jobVars /\ TermAt(j) /\ ms[j] \subseteq Machines /\ todo[j] \subseteq Machines
        BY <2>3 DEF TerminateServer, TermOrder, TypeOK
      <4> QED
        BY <3>1, <3>2, <4>1 DEF TermAt, jobVars
    <3> QED
      BY <3>3, <3>4 DEF TermOrder
  <2>4. CASE TerminateFail(j, m)
    <3>1. term[j][m] \in {"queued", "hasId", "noId"}
      BY <2>4 DEF TerminateFail
    <3>2. /\ term'[j][m] \notin {"none", "marked"}
          /\ \A n \in Machines \ {m} : term'[j][n] = term[j][n]
      BY <2>4 DEF TerminateFail, TerminateEnds, TypeOK
    <3>3. ASSUME NEW k \in Jobs, k # j PROVE TermAt(k)'
      BY <2>4, <3>3, TermKept DEF TerminateFail, TerminateEnds, TermOrder, jobVars, TypeOK
    <3>4. TermAt(j)'
      <4>1. UNCHANGED jobVars /\ TermAt(j) /\ ms[j] \subseteq Machines /\ todo[j] \subseteq Machines
        BY <2>4 DEF TerminateFail, TermOrder, TypeOK
      <4> QED
        BY <3>1, <3>2, <4>1 DEF TermAt, jobVars
    <3> QED
      BY <3>3, <3>4 DEF TermOrder
  <2> QED
    BY <1>3, <2>1, <2>2, <2>3, <2>4 DEF TerminateStep
<1>4. ASSUME NEW m \in Machines, MachineStep(m) PROVE TermOrder'
  <2>1. CASE MachineCreateOnInit(m)
    BY <2>1, TermKept DEF MachineCreateOnInit, TermOrder, jobVars,
      termVars
  <2>2. CASE PrepareLoad(m)
    BY <2>2, TermKept DEF PrepareLoad, TermOrder, jobVars, termVars
  <2>3. CASE PrepareCreateServer(m)
    BY <2>3, TermKept DEF PrepareCreateServer, TermOrder, jobVars,
      termVars
  <2>4. CASE PrepareOk(m)
    BY <2>4, TermKept DEF PrepareOk, TermOrder, jobVars, termVars
  <2>5. CASE PrepareOnError(m)
    BY <2>5, TermKept DEF PrepareOnError, TermOrder, jobVars, termVars
  <2>6. CASE OnMachinePreparedFailed(m)
    BY <2>6, TermKept DEF OnMachinePreparedFailed, TermOrder, jobVars,
      termVars
  <2> QED
    BY <1>4, <2>1, <2>2, <2>3, <2>4, <2>5, <2>6 DEF MachineStep
<1>5. ASSUME HealthCheck PROVE TermOrder'
  <2>1. CASE HealthLoad
    BY <2>1, TermKept DEF HealthLoad, TermOrder, jobVars, termVars
  <2>2. CASE Healthy
    BY <2>2, TermKept DEF Healthy, TermOrder, jobVars, termVars
  <2>3. CASE Unhealthy
    BY <2>3, TermKept DEF Unhealthy, TermOrder, jobVars, termVars
  <2>4. CASE HealthUpdateClient
    BY <2>4, TermKept DEF HealthUpdateClient, TermOrder, jobVars, termVars
  <2> QED
    BY <1>5, <2>1, <2>2, <2>3, <2>4 DEF HealthCheck
<1>6. CASE UNCHANGED vars
  BY <1>6 DEF vars, TermOrder, TermAt
<1> QED
  BY <1>1, <1>2, <1>3, <1>4, <1>5, <1>6 DEF Next

\* A terminate task, once started, stays started.
StartedStays ==
    \A j \in Jobs, m \in Machines :
        term[j][m] \notin {"none", "marked"} => term'[j][m] \notin {"none", "marked"}

\* Every step keeps started terminate tasks started.
LEMMA StartedStaysStep ==
    TypeOK /\ TypeOK' /\ TermOrder /\ [Next]_vars => StartedStays
<1> SUFFICES ASSUME TypeOK, TypeOK', TermOrder, [Next]_vars
             PROVE  StartedStays
  OBVIOUS
<1>1. ASSUME term' = term PROVE StartedStays
  BY <1>1 DEF StartedStays
<1>2. ASSUME NEW j \in Jobs, Request(j) PROVE StartedStays
  BY <1>1, <1>2 DEF Request, CreateCluster, PerformAddMachines,
    PostMachine, PerformDeleteMachines, DeleteMachine, DeleteCluster,
    PerformSyncstatus, termVars
<1>3. ASSUME NEW j \in Jobs, NEW m \in Machines, MarkTerminating(j, m)
      PROVE  StartedStays
  BY <1>3 DEF MarkTerminating, TermOrder, TermAt, StartedStays, TypeOK
<1>4. ASSUME NEW j \in Jobs, NEW m \in Machines, StartTerminateTask(j, m)
      PROVE  StartedStays
  BY <1>4 DEF StartTerminateTask, StartedStays, TypeOK
<1>5. ASSUME NEW j \in Jobs, TaskStep(j) PROVE StartedStays
  BY <1>1, <1>3, <1>4, <1>5 DEF TaskStep, StageOfDeletedRow, CreateOnInit,
    CreateMachinesOnInit, InsertMachine, InsertFail, DeployFirst,
    WaitMachineRunning, DeployRest, Deployed, OnMachinesCreatedFailed,
    CreateSetFailed, ApplyAddons, ClusterSync, SyncOnInit, SyncAddClient, SyncCallSyncTask, SyncstatusOnInit,
    SyncstatusRun, SyncstatusSetFailed, DeleteOnInit, OnMachinesDeleted,
    DeleteSetFailed, DeleteMachinesOnInit, OnDeleteMachinesFailed,
    OnDeleteMachines, BatchLoad, BatchOnDeleteMachines,
    BatchOnDeleteMachinesFailed, termVars
<1>6. ASSUME NEW j \in Jobs, NEW m \in Machines, TerminateStep(j, m)
      PROVE  StartedStays
  <2>1. \E t \in TermStates \ {"none", "marked"} : term' = [term EXCEPT ![j][m] = t]
    BY <1>6 DEF TerminateStep, TerminateLoad, TerminateSkip, TerminateServer,
      TerminateFail, TerminateEnds, TermStates, Pending
  <2> QED
    BY <2>1 DEF StartedStays, TypeOK
<1>7. ASSUME NEW m \in Machines, MachineStep(m) PROVE StartedStays
  BY <1>1, <1>7 DEF MachineStep, MachineCreateOnInit, PrepareLoad,
    PrepareCreateServer, PrepareOk, PrepareOnError, OnMachinePreparedFailed,
    termVars
<1>8. CASE HealthCheck
  BY <1>1, <1>8 DEF HealthCheck, HealthLoad, Healthy, Unhealthy,
    HealthUpdateClient, termVars
<1>9. CASE UNCHANGED vars
  BY <1>1, <1>9 DEF vars
<1> QED
  BY <1>2, <1>5, <1>6, <1>7, <1>8, <1>9 DEF Next

\* Every step that deletes a row has started its terminate task.
LEMMA GoneStartedStep ==
    TypeOK /\ TypeOK' /\ TermOrder /\ StartedStays /\ GoneStarted /\ [Next]_vars
    => GoneStarted'
<1> SUFFICES ASSUME TypeOK, TypeOK', TermOrder, StartedStays, GoneStarted, [Next]_vars
             PROVE  GoneStarted'
  OBVIOUS
<1>0. ASSUME \A m \in Machines : mstat'[m] = "gone" => mstat[m] = "gone"
      PROVE  GoneStarted'
  BY <1>0 DEF GoneStarted, StartedStays
<1>1. ASSUME NEW j \in Jobs, NEW m \in Machines, PostMachine(j, m) PROVE GoneStarted'
  BY <1>1, <1>0 DEF PostMachine, machineVars, TypeOK
<1>2. ASSUME NEW j \in Jobs, NEW S \in SUBSET Machines, PerformDeleteMachines(j, S) PROVE GoneStarted'
  BY <1>2, <1>0 DEF PerformDeleteMachines, SetMachineStatus, machineVars,
    TypeOK
<1>3. ASSUME NEW j \in Jobs, NEW m \in Machines, DeleteMachine(j, m) PROVE GoneStarted'
  BY <1>3, <1>0 DEF DeleteMachine, SetMachineStatus, machineVars, TypeOK
<1>4. ASSUME NEW j \in Jobs, NEW m \in Machines, InsertMachine(j, m) PROVE GoneStarted'
  BY <1>4, <1>0 DEF InsertMachine, machineVars, TypeOK
<1>5. ASSUME NEW j \in Jobs, DeployFirst(j) PROVE GoneStarted'
  BY <1>5, <1>0 DEF DeployFirst, StartMachineCreateTask, SetMachineStatus,
    machineVars, TypeOK
<1>6. ASSUME NEW j \in Jobs, NEW m \in Machines, DeployRest(j, m) PROVE GoneStarted'
  BY <1>6, <1>0 DEF DeployRest, StartMachineCreateTask, SetMachineStatus,
    machineVars, TypeOK
<1>7. ASSUME NEW j \in Jobs, DeleteOnInit(j) PROVE GoneStarted'
  BY <1>7, <1>0 DEF DeleteOnInit, SetMachineStatus, Rows, machineVars,
    TypeOK
<1>8. ASSUME NEW j \in Jobs, NEW m \in Machines, MarkTerminating(j, m) PROVE GoneStarted'
  BY <1>8, <1>0 DEF MarkTerminating, SetMachineStatus, machineVars, TypeOK
<1>9. ASSUME NEW j \in Jobs, BatchOnDeleteMachines(j) PROVE GoneStarted'
  <2>1. ASSUME NEW m \in Machines, mstat'[m] = "gone", mstat[m] # "gone"
        PROVE  m \in ms[j]
    BY <1>9, <2>1 DEF BatchOnDeleteMachines, SetMachineStatus
  <2>2. \A m \in ms[j] : term[j][m] \notin {"none", "marked"}
    BY <1>9 DEF BatchOnDeleteMachines, TermOrder, TermAt
  <2> QED
    BY <2>1, <2>2 DEF GoneStarted, StartedStays
<1>10. ASSUME NEW j \in Jobs, NEW m \in Machines, TerminateServer(j, m) PROVE GoneStarted'
  BY <1>10, <1>0 DEF TerminateServer, machineVars, TypeOK
<1>11. ASSUME NEW j \in Jobs, NEW m \in Machines, TerminateFail(j, m) PROVE GoneStarted'
  BY <1>11, <1>0 DEF TerminateFail, SetMachineStatus, machineVars, TypeOK
<1>12. ASSUME NEW m \in Machines, MachineCreateOnInit(m) PROVE GoneStarted'
  BY <1>12, <1>0 DEF MachineCreateOnInit, SetMachineStatus, machineVars,
    TypeOK
<1>13. ASSUME NEW m \in Machines, PrepareLoad(m) PROVE GoneStarted'
  BY <1>13, <1>0 DEF PrepareLoad, machineVars, TypeOK
<1>14. ASSUME NEW m \in Machines, PrepareCreateServer(m) PROVE GoneStarted'
  BY <1>14, <1>0 DEF PrepareCreateServer, machineVars, TypeOK
<1>15. ASSUME NEW m \in Machines, PrepareOk(m) PROVE GoneStarted'
  BY <1>15, <1>0 DEF PrepareOk, SetMachineStatus, machineVars, TypeOK
<1>16. ASSUME NEW m \in Machines, PrepareOnError(m) PROVE GoneStarted'
  BY <1>16, <1>0 DEF PrepareOnError, SetMachineStatus, machineVars, TypeOK
<1>17. ASSUME NEW m \in Machines, OnMachinePreparedFailed(m) PROVE GoneStarted'
  BY <1>17, <1>0 DEF OnMachinePreparedFailed, SetMachineStatus,
    machineVars,   TypeOK
<1>18. CASE UNCHANGED machineVars
  BY <1>0, <1>18 DEF machineVars
<1> QED
  BY MachineFrame, <1>1, <1>2, <1>3, <1>4, <1>5, <1>6, <1>7, <1>8, <1>9,
    <1>10, <1>11, <1>12, <1>13, <1>14, <1>15, <1>16, <1>17, <1>18 DEF
    MachineChange, MachineStep

\* The parts of the state that ServerOrder is about.
ServerFrame == prep' = prep /\ rid' = rid /\ vm' = vm /\ term' = term

\* A step that leaves servers and terminate tasks alone keeps their order.
LEMMA ServerKept == ServerOrder /\ ServerFrame => ServerOrder'
  BY DEF ServerOrder, ServerFrame

\* Every step creates a server at most once and deletes it for good.
LEMMA ServerOrderStep ==
    TypeOK /\ TypeOK' /\ Unborn /\ DeployOrder /\ ServerOrder /\ [Next]_vars
    => ServerOrder'
<1> SUFFICES ASSUME TypeOK, TypeOK', Unborn, DeployOrder, ServerOrder, [Next]_vars
             PROVE  ServerOrder'
  OBVIOUS
<1>1. ASSUME NEW j \in Jobs, Request(j) PROVE ServerOrder'
  <2>1. ASSUME NEW S \in SUBSET Machines, CreateCluster(j, S) PROVE ServerOrder'
    BY <2>1, ServerKept DEF CreateCluster, ServerFrame, machineVars,
      termVars
  <2>2. ASSUME NEW S \in SUBSET Machines, PerformAddMachines(j, S) PROVE ServerOrder'
    BY <2>2, ServerKept DEF PerformAddMachines, ServerFrame, machineVars,
      termVars
  <2>3. ASSUME NEW m \in Machines, PostMachine(j, m) PROVE ServerOrder'
    BY <2>3 DEF PostMachine, Fresh, Unborn, ServerOrder, termVars, TypeOK
  <2>4. ASSUME NEW S \in SUBSET Machines, PerformDeleteMachines(j, S) PROVE ServerOrder'
    BY <2>4, ServerKept DEF PerformDeleteMachines, ServerFrame,
      machineVars, termVars
  <2>5. ASSUME NEW m \in Machines, DeleteMachine(j, m) PROVE ServerOrder'
    BY <2>5, ServerKept DEF DeleteMachine, ServerFrame, machineVars,
      termVars
  <2>6. CASE DeleteCluster(j)
    BY <2>6, ServerKept DEF DeleteCluster, ServerFrame, machineVars,
      termVars
  <2>7. CASE PerformSyncstatus(j)
    BY <2>7, ServerKept DEF PerformSyncstatus, ServerFrame, machineVars,
      termVars
  <2> QED
    BY <1>1, <2>1, <2>2, <2>3, <2>4, <2>5, <2>6, <2>7 DEF Request
<1>2. ASSUME NEW j \in Jobs, TaskStep(j) PROVE ServerOrder'
  <2>1. CASE StageOfDeletedRow(j)
    BY <2>1, ServerKept DEF StageOfDeletedRow, ServerFrame, machineVars,
      termVars
  <2>2. CASE CreateOnInit(j)
    BY <2>2, ServerKept DEF CreateOnInit, ServerFrame, machineVars,
      termVars
  <2>3. CASE CreateMachinesOnInit(j)
    BY <2>3, ServerKept DEF CreateMachinesOnInit, ServerFrame,
      machineVars, termVars
  <2>4. ASSUME NEW m \in Machines, InsertMachine(j, m) PROVE ServerOrder'
    BY <2>4, ServerKept DEF InsertMachine, ServerFrame, machineVars,
      termVars
  <2>5. CASE InsertFail(j)
    BY <2>5, ServerKept DEF InsertFail, ServerFrame, machineVars, termVars
  <2>6. CASE DeployFirst(j)
    <3>1. CASE ms[j] \cap first = {}
      BY <2>6, <3>1, ServerKept DEF DeployFirst, ServerFrame, termVars
    <3>2. CASE ms[j] \cap first # {}
      <4>1. PICK m \in ms[j] \cap first : prep' = [prep EXCEPT ![m] = "create"]
        BY <2>6, <3>2 DEF DeployFirst, StartMachineCreateTask
      <4>2. prep[m] = "idle"
        BY <2>6 DEF DeployFirst, DeployOrder, DeployAt
      <4>3. m \notin rid /\ rid' = rid /\ vm' = vm /\ term' = term
        BY <2>6, <4>2 DEF DeployFirst, ServerOrder, termVars
      <4> QED
        BY <4>1, <4>3 DEF ServerOrder, TypeOK
    <3> QED
      BY <3>1, <3>2
  <2>7. CASE WaitMachineRunning(j)
    BY <2>7, ServerKept DEF WaitMachineRunning, ServerFrame, machineVars,
      termVars
  <2>8. ASSUME NEW m \in Machines, DeployRest(j, m) PROVE ServerOrder'
    <3>1. prep[m] = "idle" /\ prep' = [prep EXCEPT ![m] = "create"]
      BY <2>8 DEF DeployRest, StartMachineCreateTask, DeployOrder, DeployAt
    <3>2. m \notin rid /\ rid' = rid /\ vm' = vm /\ term' = term
      BY <2>8, <3>1 DEF DeployRest, ServerOrder, termVars
    <3> QED
      BY <3>1, <3>2 DEF ServerOrder, TypeOK
  <2>9. CASE Deployed(j)
    BY <2>9, ServerKept DEF Deployed, ServerFrame, machineVars, termVars
  <2>10. CASE OnMachinesCreatedFailed(j)
    BY <2>10, ServerKept DEF OnMachinesCreatedFailed, ServerFrame,
      machineVars, termVars
  <2>11. CASE CreateSetFailed(j)
    BY <2>11, ServerKept DEF CreateSetFailed, ServerFrame, machineVars,
      termVars
  <2>12. CASE ApplyAddons(j)
    BY <2>12, ServerKept DEF ApplyAddons, ServerFrame, machineVars,
      termVars
  <2>13. CASE ClusterSync(j)
    BY <2>13, ServerKept DEF ClusterSync, SyncOnInit, SyncAddClient, SyncCallSyncTask, ServerFrame, machineVars,
      termVars
  <2>14. CASE SyncstatusOnInit(j)
    BY <2>14, ServerKept DEF SyncstatusOnInit, ServerFrame, machineVars,
      termVars
  <2>15. CASE SyncstatusRun(j)
    BY <2>15, ServerKept DEF SyncstatusRun, ServerFrame, machineVars,
      termVars
  <2>16. CASE SyncstatusSetFailed(j)
    BY <2>16, ServerKept DEF SyncstatusSetFailed, ServerFrame,
      machineVars, termVars
  <2>17. CASE DeleteOnInit(j)
    BY <2>17, ServerKept DEF DeleteOnInit, ServerFrame, machineVars,
      termVars
  <2>18. CASE OnMachinesDeleted(j)
    BY <2>18, ServerKept DEF OnMachinesDeleted, ServerFrame, machineVars,
      termVars
  <2>19. CASE DeleteSetFailed(j)
    BY <2>19, ServerKept DEF DeleteSetFailed, ServerFrame, machineVars,
      termVars
  <2>20. CASE DeleteMachinesOnInit(j)
    BY <2>20, ServerKept DEF DeleteMachinesOnInit, ServerFrame,
      machineVars, termVars
  <2>21. CASE OnDeleteMachinesFailed(j)
    BY <2>21, ServerKept DEF OnDeleteMachinesFailed, ServerFrame,
      machineVars, termVars
  <2>22. CASE OnDeleteMachines(j)
    BY <2>22, ServerKept DEF OnDeleteMachines, ServerFrame, machineVars,
      termVars
  <2>23. CASE BatchLoad(j)
    BY <2>23, ServerKept DEF BatchLoad, ServerFrame, machineVars, termVars
  <2>24. ASSUME NEW m \in Machines, MarkTerminating(j, m) PROVE ServerOrder'
    BY <2>24 DEF MarkTerminating, ServerOrder, TypeOK
  <2>25. ASSUME NEW m \in Machines, StartTerminateTask(j, m) PROVE ServerOrder'
    BY <2>25 DEF StartTerminateTask, machineVars, ServerOrder, TypeOK
  <2>26. CASE BatchOnDeleteMachines(j)
    BY <2>26, ServerKept DEF BatchOnDeleteMachines, ServerFrame,
      machineVars, termVars
  <2>27. CASE BatchOnDeleteMachinesFailed(j)
    BY <2>27, ServerKept DEF BatchOnDeleteMachinesFailed, ServerFrame,
      machineVars, termVars
  <2> QED
    BY <1>2, <2>1, <2>2, <2>3, <2>4, <2>5, <2>6, <2>7, <2>8, <2>9, <2>10,
      <2>11, <2>12, <2>13, <2>14, <2>15, <2>16, <2>17, <2>18, <2>19, <2>20,
      <2>21, <2>22, <2>23, <2>24, <2>25, <2>26, <2>27 DEF TaskStep
<1>3. ASSUME NEW j \in Jobs, NEW m \in Machines, TerminateStep(j, m) PROVE ServerOrder'
  <2>1. CASE TerminateLoad(j, m)
    <3>1. CASE m \notin Rows
      <4>1. term' = [term EXCEPT ![j][m] = "fail"]
        BY <2>1, <3>1 DEF TerminateLoad, TerminateEnds
      <4>2. UNCHANGED machineVars
        BY <2>1 DEF TerminateLoad
      <4> QED
        BY <4>1, <4>2 DEF machineVars, ServerOrder, TypeOK
    <3>2. CASE m \in Rows
      <4>1. term' = [term EXCEPT ![j][m] = IF m \in rid THEN "hasId" ELSE "noId"]
        BY <2>1, <3>2 DEF TerminateLoad
      <4>2. UNCHANGED machineVars
        BY <2>1 DEF TerminateLoad
      <4> QED
        BY <4>1, <4>2 DEF machineVars, ServerOrder, TypeOK
    <3> QED
      BY <3>1, <3>2
  <2>2. CASE TerminateSkip(j, m)
    BY <2>2 DEF TerminateSkip, TerminateEnds, machineVars, ServerOrder,
      TypeOK
  <2>3. CASE TerminateServer(j, m)
    BY <2>3 DEF TerminateServer, TerminateEnds, machineVars, ServerOrder,
      TypeOK
  <2>4. CASE TerminateFail(j, m)
    BY <2>4 DEF TerminateFail, TerminateEnds, machineVars, ServerOrder,
      TypeOK
  <2> QED
    BY <1>3, <2>1, <2>2, <2>3, <2>4 DEF TerminateStep
<1>4. ASSUME NEW m \in Machines, MachineStep(m) PROVE ServerOrder'
  <2>1. CASE MachineCreateOnInit(m)
    <3>1. m \notin rid /\ rid' = rid /\ vm' = vm /\ term' = term
      BY <2>1 DEF MachineCreateOnInit, termVars, ServerOrder
    <3>2. \A n \in Machines \ {m} : prep'[n] = prep[n]
      BY <2>1 DEF MachineCreateOnInit, TypeOK
    <3>3. rid \subseteq Machines
      BY DEF TypeOK
    <3> QED
      BY <3>1, <3>2, <3>3 DEF ServerOrder
  <2>2. CASE PrepareLoad(m)
    BY <2>2 DEF PrepareLoad, termVars, ServerOrder, TypeOK
  <2>3. CASE PrepareCreateServer(m)
    BY <2>3 DEF PrepareCreateServer, termVars, ServerOrder, TypeOK
  <2>4. CASE PrepareOk(m)
    BY <2>4 DEF PrepareOk, termVars, ServerOrder, TypeOK
  <2>5. CASE PrepareOnError(m)
    BY <2>5 DEF PrepareOnError, MachineLocked, termVars, ServerOrder,
      TypeOK
  <2>6. CASE OnMachinePreparedFailed(m)
    BY <2>6 DEF OnMachinePreparedFailed, termVars, ServerOrder, TypeOK
  <2> QED
    BY <1>4, <2>1, <2>2, <2>3, <2>4, <2>5, <2>6 DEF MachineStep
<1>5. ASSUME HealthCheck PROVE ServerOrder'
  <2>1. CASE HealthLoad
    BY <2>1, ServerKept DEF HealthLoad, ServerFrame, machineVars, termVars
  <2>2. CASE Healthy
    BY <2>2, ServerKept DEF Healthy, ServerFrame, machineVars, termVars
  <2>3. CASE Unhealthy
    BY <2>3, ServerKept DEF Unhealthy, ServerFrame, machineVars, termVars
  <2>4. CASE HealthUpdateClient
    BY <2>4, ServerKept DEF HealthUpdateClient, ServerFrame, machineVars,
      termVars
  <2> QED
    BY <1>5, <2>1, <2>2, <2>3, <2>4 DEF HealthCheck
<1>6. CASE UNCHANGED vars
  BY <1>6, ServerKept DEF vars, ServerFrame
<1> QED
  BY <1>1, <1>2, <1>3, <1>4, <1>5, <1>6 DEF Next

\* A server outlives its machine row only if its terminate task failed, found no
\* resource id, or is still running, however many deletions overlap.
THEOREM NoSilentLeak == Spec => []LeakExplained
<1>1. Init => /\ CreatePath /\ OwnMachines /\ Unborn /\ DeployOrder
              /\ TermOrder /\ GoneStarted /\ ServerOrder
  BY DEF Init, CreatePath, OwnMachines, Creating, Unborn, DeployOrder, DeployAt,
    TermOrder, TermAt, GoneStarted, ServerOrder
<1>2. TypeOK /\ GoneStarted /\ ServerOrder => LeakExplained
  <2> SUFFICES ASSUME TypeOK, GoneStarted, ServerOrder, NEW m \in vm, mstat[m] = "gone"
               PROVE  \E j \in Jobs : term[j][m] \in {"fail", "skip"} \cup Pending
    BY DEF LeakExplained
  <2>1. m \in Machines
    BY DEF TypeOK
  <2>2. PICK j \in Jobs : term[j][m] \notin {"none", "marked"}
    BY <2>1 DEF GoneStarted
  <2>3. term[j][m] # "ok"
    BY <2>1 DEF ServerOrder
  <2>4. term[j][m] \in TermStates
    BY <2>1 DEF TypeOK
  <2> QED
    BY <2>2, <2>3, <2>4 DEF TermStates, Pending
<1> QED
  BY <1>1, <1>2, TypeCorrect, CreatePathStep, OwnMachinesStep, UnbornStep,
     DeployOrderStep, TermOrderStep, StartedStaysStep, GoneStartedStep,
     ServerOrderStep, PTL DEF Spec

-----------------------------------------------------------------------------
(* The first control node is deleted last *)

\* A status that is no end of a row leaves the rows there are.
LEMMA SetKeepsRows ==
    ASSUME TypeOK, NEW S, NEW s \in MachineStatus, SetMachineStatus(S, s)
    PROVE  Rows' = Rows
  BY DEF SetMachineStatus, Rows, MachineStatus, TypeOK

\* Rows and first control nodes change when a row is inserted or posted, and
\* when a batch of them is deleted.
RowsStill == Rows' = Rows /\ first' = first

RowChange ==
    \/ \E j \in Jobs, m \in Machines : InsertMachine(j, m) \/ PostMachine(j, m)
    \/ \E j \in Jobs : BatchOnDeleteMachines(j)

\* No other step does.
LEMMA RowsFrame ==
    ASSUME TypeOK, [Next]_vars, ~RowChange
    PROVE  RowsStill
<1> USE DEF RowsStill, MachineStatus
<1>1. ASSUME NEW j \in Jobs, NEW S \in SUBSET Machines, PerformDeleteMachines(j, S)
      PROVE  RowsStill
  BY <1>1, SetKeepsRows DEF PerformDeleteMachines
<1>2. ASSUME NEW j \in Jobs, NEW m \in Machines, DeleteMachine(j, m) PROVE RowsStill
  BY <1>2, SetKeepsRows DEF DeleteMachine
<1>3. ASSUME NEW m \in Machines, StartMachineCreateTask(m) PROVE Rows' = Rows
  BY <1>3, SetKeepsRows DEF StartMachineCreateTask
<1>4. ASSUME NEW j \in Jobs, DeployFirst(j) PROVE RowsStill
  <2>1. CASE mstat' = mstat
    BY <1>4, <2>1 DEF DeployFirst, Rows
  <2>2. CASE \E m \in ms[j] \cap first : StartMachineCreateTask(m)
    <3>1. \A m \in ms[j] \cap first : m \in Machines
      BY DEF TypeOK
    <3> QED
      BY <1>3, <1>4, <2>2, <3>1 DEF DeployFirst
  <2> QED
    BY <1>4, <2>1, <2>2 DEF DeployFirst
<1>5. ASSUME NEW j \in Jobs, NEW m \in Machines, DeployRest(j, m) PROVE RowsStill
  BY <1>3, <1>5 DEF DeployRest
<1>6. ASSUME NEW j \in Jobs, DeleteOnInit(j) PROVE RowsStill
  <2>1. mstat' = mstat \/ SetMachineStatus(Rows, "deleting")
    BY <1>6 DEF DeleteOnInit
  <2>2. Rows' = Rows
    BY <2>1, SetKeepsRows DEF Rows
  <2> QED
    BY <1>6, <2>2 DEF DeleteOnInit
<1>7. ASSUME NEW j \in Jobs, NEW m \in Machines, MarkTerminating(j, m) PROVE RowsStill
  BY <1>7, SetKeepsRows DEF MarkTerminating
<1>8. ASSUME NEW j \in Jobs, NEW m \in Machines, TerminateServer(j, m) PROVE RowsStill
  BY <1>8 DEF TerminateServer, Rows
<1>9. ASSUME NEW j \in Jobs, NEW m \in Machines, TerminateFail(j, m) PROVE RowsStill
  BY <1>9, SetKeepsRows DEF TerminateFail
<1>10. ASSUME NEW m \in Machines, MachineStep(m) PROVE RowsStill
  <2>1. \/ mstat' = mstat
        \/ \E s \in MachineStatus : SetMachineStatus({m}, s)
    BY <1>10 DEF MachineStep, MachineCreateOnInit, PrepareLoad, PrepareCreateServer,
      PrepareOk, PrepareOnError, OnMachinePreparedFailed
  <2>2. Rows' = Rows
    BY <2>1, SetKeepsRows DEF Rows
  <2>3. first' = first
    BY <1>10 DEF MachineStep, MachineCreateOnInit, PrepareLoad, PrepareCreateServer,
      PrepareOk, PrepareOnError, OnMachinePreparedFailed
  <2> QED
    BY <2>2, <2>3
<1>11. CASE UNCHANGED machineVars
  BY <1>11 DEF machineVars, Rows
<1> QED
  BY MachineFrame, <1>1, <1>2, <1>4, <1>5, <1>6, <1>7, <1>8, <1>9, <1>10, <1>11
    DEF MachineChange, RowChange

\* The step of a task: it comes into a stage of a deletion only from another one,
\* and lists machines only to delete every row there is.
TaskPath(j) ==
    /\ \/ ms' = ms
       \/ Stage(j, "delInit") /\ ms' = [ms EXCEPT ![j] = Rows]
    /\ \E p \in Stages :
        /\ pc' = [pc EXCEPT ![j] = p]
        /\ p \in DeleteStages => pc[j] \in DeleteStages

\* The stages of other tasks, and the ends.
Onward == Stages \ DeleteStages

\* Every step of a task keeps to that path.
LEMMA TaskPathStep ==
    ASSUME TypeOK, NEW j \in Jobs, TaskStep(j)
    PROVE  TaskPath(j)
<1>a. ASSUME NEW p \in Onward, Goto(j, p), ms' = ms PROVE TaskPath(j)
  BY <1>a DEF Onward, Goto, TaskPath
<1>b. ASSUME NEW p \in DeleteStages, Goto(j, p), ms' = ms, pc[j] \in DeleteStages
      PROVE  TaskPath(j)
  <2>1. p \in Stages
    BY DEF DeleteStages, Stages, ClusterStages, Running
  <2> QED
    BY <1>b, <2>1 DEF Goto, TaskPath
<1>c. /\ {"ok", "failed", "blocked", "deploy", "waitFirst", "rest", "deployFailed",
          "createFailed", "addons", "ssInit", "ssRun", "ssFailed", "sync", "syncAdd",
          "syncing", "dmOk", "dmFailed", "delFinish", "delFailed", "cmInit",
          "insert"} \subseteq Onward
      /\ {"dmInit", "batchInit", "spawn", "batch"} \subseteq DeleteStages
      /\ "delInit" \in DeleteStages /\ "dmInit" \in Stages
  BY DEF Onward, Stages, ClusterStages, Running, Over, Final, DeleteStages
<1>d. ASSUME UNCHANGED <<pc, ms>> PROVE TaskPath(j)
  <2>1. pc = [pc EXCEPT ![j] = pc[j]] /\ pc[j] \in Stages
    BY DEF TypeOK
  <2> QED
    BY <1>d, <2>1 DEF TaskPath
<1>1. CASE StageOfDeletedRow(j)
  BY <1>1, <1>a, <1>c DEF StageOfDeletedRow
<1>2. CASE CreateOnInit(j)
  BY <1>2, <1>a, <1>b, <1>c DEF CreateOnInit, Stage
<1>3. CASE CreateMachinesOnInit(j)
  BY <1>3, <1>a, <1>b, <1>c DEF CreateMachinesOnInit, CreateMachinesError, Stage
<1>4. ASSUME NEW m \in Machines, InsertMachine(j, m) PROVE TaskPath(j)
  BY <1>4, <1>a, <1>b, <1>c DEF InsertMachine
<1>5. CASE InsertFail(j)
  BY <1>5, <1>a, <1>c DEF InsertFail, CreateMachinesError
<1>6. CASE DeployFirst(j)
  BY <1>6, <1>a, <1>c DEF DeployFirst
<1>7. CASE WaitMachineRunning(j)
  BY <1>7, <1>a, <1>c DEF WaitMachineRunning
<1>8. ASSUME NEW m \in Machines, DeployRest(j, m) PROVE TaskPath(j)
  BY <1>8, <1>c, <1>d DEF DeployRest
<1>9. CASE Deployed(j)
  BY <1>9, <1>a, <1>c DEF Deployed
<1>10. CASE OnMachinesCreatedFailed(j)
  BY <1>10, <1>a, <1>c DEF OnMachinesCreatedFailed, CreateMachinesError
<1>11. CASE CreateSetFailed(j)
  BY <1>11, <1>a, <1>c DEF CreateSetFailed
<1>12. CASE ApplyAddons(j)
  BY <1>12, <1>a, <1>c DEF ApplyAddons
<1>13. CASE ClusterSync(j)
  BY <1>13, <1>a, <1>c DEF ClusterSync, SyncOnInit, SyncAddClient, SyncCallSyncTask
<1>14. CASE SyncstatusOnInit(j)
  BY <1>14, <1>a, <1>c DEF SyncstatusOnInit, AfterSyncstatus
<1>15. CASE SyncstatusRun(j)
  BY <1>15, <1>a, <1>c DEF SyncstatusRun, AfterSyncstatus
<1>16. CASE SyncstatusSetFailed(j)
  BY <1>16, <1>a, <1>c DEF SyncstatusSetFailed
<1>17. CASE DeleteOnInit(j)
  <2>1. CASE Rows = {}
    BY <1>17, <2>1, <1>a, <1>c DEF DeleteOnInit, RealDeleteCluster
  <2>2. CASE Rows # {}
    BY <1>17, <2>2, <1>c DEF DeleteOnInit, Stage, Goto, TaskPath
  <2> QED
    BY <2>1, <2>2
<1>18. CASE OnMachinesDeleted(j)
  BY <1>18, <1>a, <1>c DEF OnMachinesDeleted, RealDeleteCluster
<1>19. CASE DeleteSetFailed(j)
  BY <1>19, <1>a, <1>c DEF DeleteSetFailed
<1>20. CASE DeleteMachinesOnInit(j)
  BY <1>20, <1>a, <1>b, <1>c DEF DeleteMachinesOnInit, DeleteMachinesError, Stage
<1>21. CASE OnDeleteMachinesFailed(j)
  BY <1>21, <1>a, <1>c DEF OnDeleteMachinesFailed, DeleteMachinesError
<1>22. CASE OnDeleteMachines(j)
  BY <1>22, <1>a, <1>c DEF OnDeleteMachines
<1>23. CASE BatchLoad(j)
  BY <1>23, <1>a, <1>b, <1>c DEF BatchLoad
<1>24. ASSUME NEW m \in Machines, MarkTerminating(j, m) PROVE TaskPath(j)
  BY <1>24, <1>d DEF MarkTerminating
<1>25. ASSUME NEW m \in Machines, StartTerminateTask(j, m) PROVE TaskPath(j)
  BY <1>25, <1>b, <1>c DEF StartTerminateTask
<1>26. CASE BatchOnDeleteMachines(j)
  BY <1>26, <1>a, <1>c DEF BatchOnDeleteMachines
<1>27. CASE BatchOnDeleteMachinesFailed(j)
  BY <1>27, <1>a, <1>c DEF BatchOnDeleteMachinesFailed
<1> QED
  BY <1>1, <1>2, <1>3, <1>4, <1>5, <1>6, <1>7, <1>8, <1>9, <1>10, <1>11, <1>12, <1>13,
    <1>14, <1>15, <1>16, <1>17, <1>18, <1>19, <1>20, <1>21, <1>22, <1>23, <1>24, <1>25,
    <1>26, <1>27 DEF TaskStep

\* A deletion under way has the first control node only together with all rows.
FirstSafe == FirstDeletedLast /\ FirstSpared

\* The request of a job leaves the rows alone or posts one.
LEMMA RequestLast ==
    ASSUME TypeOK, IsFiniteSet(Rows), FirstSafe, NEW j \in Jobs, Request(j), RowsStill
    PROVE  FirstSafe'
<1>1. /\ pc \in [Jobs -> Stages] /\ ms \in [Jobs -> SUBSET Machines]
      /\ Rows' = Rows /\ first' = first
  BY DEF TypeOK, RowsStill
<1>2. FirstDeletedLast'
  BY <1>1 DEF FirstSafe, FirstDeletedLast
<1>3. ASSUME NEW S \in SUBSET Machines, NEW p, pc' = [pc EXCEPT ![j] = p],
             ms' = [ms EXCEPT ![j] = S],
             p \in DeleteStages => S \cap first \cap Rows = {} \/ Rows \subseteq S
      PROVE  FirstSpared'
  BY <1>1, <1>3 DEF FirstSafe, FirstSpared
<1>4. ASSUME NEW S \in SUBSET Machines, S \subseteq Rows, ValidateDeleteMachines(S)
      PROVE  S \cap first \cap Rows = {} \/ Rows \subseteq S
  <2>1. Cardinality(S) = Cardinality(Rows) => S = Rows
    BY <1>4, FS_Subset
  <2> QED
    BY <1>4, <2>1 DEF ValidateDeleteMachines
<1>5. ASSUME NEW S \in SUBSET Machines, CreateCluster(j, S) PROVE FirstSpared'
  BY <1>3, <1>5 DEF CreateCluster, Accept, Goto, DeleteStages
<1>6. ASSUME NEW S \in SUBSET Machines, PerformAddMachines(j, S) PROVE FirstSpared'
  BY <1>3, <1>6 DEF PerformAddMachines, Accept, Goto, DeleteStages
<1>7. ASSUME NEW m \in Machines, PostMachine(j, m) PROVE FirstSpared'
  BY <1>3, <1>7 DEF PostMachine, Accept, Goto, DeleteStages
<1>8. ASSUME NEW S \in SUBSET Machines, PerformDeleteMachines(j, S) PROVE FirstSpared'
  BY <1>3, <1>4, <1>8 DEF PerformDeleteMachines, Accept, Goto
<1>9. ASSUME NEW m \in Machines, DeleteMachine(j, m) PROVE FirstSpared'
  <2>1. {m} \in SUBSET Machines /\ {m} \subseteq Rows /\ ValidateDeleteMachines({m})
    BY <1>9 DEF DeleteMachine
  <2>2. {m} \cap first \cap Rows = {} \/ Rows \subseteq {m}
    BY <1>4, <2>1
  <2> QED
    BY <1>3, <1>9, <2>1, <2>2 DEF DeleteMachine, Accept, Goto
<1>10. ASSUME \A k \in Jobs : ms'[k] = {} \/ (ms'[k] = ms[k] /\ pc'[k] = pc[k])
      PROVE  FirstSpared'
  BY <1>1, <1>10 DEF FirstSafe, FirstSpared
<1>11. CASE DeleteCluster(j)
  <2>1. \A k \in Jobs : ms'[k] = {} \/ (ms'[k] = ms[k] /\ pc'[k] = pc[k])
    BY <1>1, <1>11 DEF DeleteCluster, Accept, Goto
  <2> QED
    BY <1>2, <1>10, <2>1 DEF FirstSafe
<1>12. CASE PerformSyncstatus(j)
  <2>1. \A k \in Jobs : ms'[k] = {} \/ (ms'[k] = ms[k] /\ pc'[k] = pc[k])
    BY <1>1, <1>12 DEF PerformSyncstatus, Accept, Goto
  <2> QED
    BY <1>2, <1>10, <2>1 DEF FirstSafe
<1> QED
  BY <1>2, <1>5, <1>6, <1>7, <1>8, <1>9, <1>11, <1>12 DEF Request, FirstSafe

\* A new row is first, or the first is there; no deletion has the first in hand.
LEMMA InsertLast ==
    ASSUME TypeOK, Unborn, DeployOrder, FirstSafe, NEW j \in Jobs, NEW m \in Machines,
           InsertMachine(j, m) \/ PostMachine(j, m), ~(Inserts /\ FirstGoing)
    PROVE  FirstSafe'
<1>1. mstat[m] = "none" /\ m \notin first /\ m \notin Rows
  <2>1. mstat[m] = "none"
    <3>1. CASE InsertMachine(j, m)
      BY <3>1 DEF InsertMachine, DeployOrder, DeployAt, TypeOK
    <3>2. CASE PostMachine(j, m)
      BY <3>2 DEF PostMachine, Fresh
    <3> QED
      BY <3>1, <3>2
  <2> QED
    BY <2>1 DEF Unborn, Rows
<1>2. /\ Rows' = Rows \cup {m}
      /\ first' = IF Rows = {} THEN first \cup {m} ELSE first
  BY DEF InsertMachine, PostMachine, Rows, TypeOK
<1>3. ~FirstGoing
  BY <1>1, <1>2 DEF Inserts
<1>4. \A k \in Jobs : pc'[k] \in DeleteStages =>
        pc[k] \in DeleteStages /\ ms'[k] = ms[k]
  BY DEF InsertMachine, PostMachine, Accept, Goto, DeleteStages, TypeOK
<1>5. FirstDeletedLast'
  BY <1>2 DEF FirstSafe, FirstDeletedLast
<1>6. FirstSpared'
  <2> SUFFICES ASSUME NEW k \in Jobs, pc'[k] \in DeleteStages
               PROVE  ms'[k] \cap first' \cap Rows' = {} \/ Rows' \subseteq ms'[k]
    BY DEF FirstSpared
  <2>1. ms'[k] = ms[k] /\ ms[k] \cap first \cap Rows = {}
    BY <1>3, <1>4 DEF FirstGoing
  <2>2. CASE Rows = {}
    BY <1>2, <2>1, <2>2
  <2>3. CASE Rows # {}
    BY <1>1, <1>2, <2>1, <2>3
  <2> QED
    BY <2>2, <2>3
<1> QED
  BY <1>5, <1>6 DEF FirstSafe

\* A batch that deletes its rows leaves the first one or nothing.
LEMMA BatchLast ==
    ASSUME TypeOK, FirstSafe, NEW j \in Jobs, BatchOnDeleteMachines(j)
    PROVE  FirstSafe'
<1>1. /\ pc[j] = "batch" /\ ms' = ms /\ first' = first
      /\ \A k \in Jobs : pc'[k] \in DeleteStages => pc[k] \in DeleteStages
      /\ pc[j] \in DeleteStages
  BY DEF BatchOnDeleteMachines, Goto, DeleteStages, TypeOK
<1>2. Rows' = Rows \/ Rows' = Rows \ ms[j]
  BY DEF BatchOnDeleteMachines, SetMachineStatus, Rows, TypeOK
<1>3. FirstDeletedLast'
  BY <1>1, <1>2 DEF FirstSafe, FirstDeletedLast, FirstSpared
<1>4. FirstSpared'
  BY <1>1, <1>2 DEF FirstSafe, FirstSpared
<1> QED
  BY <1>3, <1>4 DEF FirstSafe

\* A task that leaves the rows alone may only list them, to delete them all.
LEMMA TaskLast ==
    ASSUME TypeOK, FirstSafe, NEW j \in Jobs, TaskStep(j), RowsStill
    PROVE  FirstSafe'
<1>1. TaskPath(j) /\ Rows' = Rows /\ first' = first
  BY TaskPathStep DEF RowsStill
<1>2. \A k \in Jobs : pc'[k] \in DeleteStages => pc[k] \in DeleteStages
  BY <1>1 DEF TaskPath, TypeOK
<1>3. \A k \in Jobs : ms'[k] = ms[k] \/ ms'[k] = Rows
  BY <1>1 DEF TaskPath, TypeOK
<1>4. FirstSpared'
  BY <1>1, <1>2, <1>3 DEF FirstSafe, FirstSpared
<1> QED
  BY <1>1, <1>4 DEF FirstSafe, FirstDeletedLast

\* Every step but an insertion in the window keeps the first control node for the
\* last deletion.
LEMMA LastStep ==
    ASSUME TypeOK, IsFiniteSet(Rows), Unborn, DeployOrder, [Next]_vars,
           FirstSafe, ~(Inserts /\ FirstGoing)
    PROVE  FirstSafe'
<1>1. CASE RowChange
  BY <1>1, InsertLast, BatchLast DEF RowChange
<1>2. ASSUME NEW j \in Jobs, Request(j), ~RowChange PROVE FirstSafe'
  BY <1>2, RowsFrame, RequestLast
<1>3. ASSUME ~RowChange, UNCHANGED <<pc, ms>> PROVE FirstSafe'
  BY <1>3, RowsFrame DEF RowsStill, FirstSafe, FirstDeletedLast, FirstSpared
<1>4. ASSUME NEW j \in Jobs, TaskStep(j), ~RowChange PROVE FirstSafe'
  BY <1>4, RowsFrame, TaskLast
<1>5. ASSUME NEW j \in Jobs, NEW m \in Machines, TerminateStep(j, m), ~RowChange
      PROVE  FirstSafe'
  BY <1>3, <1>5 DEF TerminateStep, TerminateLoad, TerminateSkip, TerminateServer,
    TerminateFail, jobVars
<1>6. ASSUME NEW m \in Machines, MachineStep(m), ~RowChange PROVE FirstSafe'
  BY <1>3, <1>6 DEF MachineStep, MachineCreateOnInit, PrepareLoad, PrepareCreateServer,
    PrepareOk, PrepareOnError, OnMachinePreparedFailed, jobVars
<1>7. CASE HealthCheck /\ ~RowChange
  BY <1>3, <1>7 DEF HealthCheck, HealthLoad, Healthy, Unhealthy, HealthUpdateClient, jobVars
<1>8. CASE UNCHANGED vars /\ ~RowChange
  BY <1>3, <1>8 DEF vars
<1> QED
  BY <1>1, <1>2, <1>4, <1>5, <1>6, <1>7, <1>8 DEF Next

\* There are finitely many rows: they come one by one.
LEMMA RowsFinite ==
    ASSUME TypeOK, IsFiniteSet(Rows), [Next]_vars
    PROVE  IsFiniteSet(Rows')
<1>1. CASE ~RowChange
  BY <1>1, RowsFrame DEF RowsStill
<1>2. ASSUME NEW j \in Jobs, NEW m \in Machines, InsertMachine(j, m) \/ PostMachine(j, m)
      PROVE  IsFiniteSet(Rows')
  <2>1. Rows' = Rows \cup {m}
    BY <1>2 DEF InsertMachine, PostMachine, Rows, TypeOK
  <2> QED
    BY <2>1, FS_AddElement
<1>3. ASSUME NEW j \in Jobs, BatchOnDeleteMachines(j) PROVE IsFiniteSet(Rows')
  <2>1. Rows' \subseteq Rows
    BY <1>3 DEF BatchOnDeleteMachines, SetMachineStatus, Rows, TypeOK
  <2> QED
    BY <2>1, FS_Subset
<1> QED
  BY <1>1, <1>2, <1>3 DEF RowChange

\* "First control node must deleted at last": whatever requests, tasks, failures and
\* the cron job overlap, the one step that breaks what ValidateDeleteMachines and
\* ClusterDeleteTask checked is the insertion of a row while a deletion that has the
\* first control node among its machines is under way (clusterapi_base.go:209).
THEOREM FirstIsLast == Spec => FirstLeavesLast
<1>1. Init => /\ CreatePath /\ OwnMachines /\ Unborn /\ DeployOrder /\ IsFiniteSet(Rows)
  <2>1. Init => Rows = {}
    BY DEF Init, Rows
  <2> QED
    BY <2>1, FS_EmptySet DEF Init, CreatePath, OwnMachines, Creating, Unborn, DeployOrder, DeployAt
<1>2. TypeOK /\ IsFiniteSet(Rows) /\ Unborn /\ DeployOrder /\ [Next]_vars =>
        [FirstDeletedLast /\ FirstSpared =>
           (FirstDeletedLast' /\ FirstSpared') \/ (Inserts /\ FirstGoing)]_vars
  BY LastStep DEF FirstSafe
<1>3. TypeOK /\ IsFiniteSet(Rows) /\ [Next]_vars => IsFiniteSet(Rows)'
  BY RowsFinite
<1> QED
  BY <1>1, <1>2, <1>3, TypeCorrect, CreatePathStep, OwnMachinesStep, UnbornStep,
    DeployOrderStep, PTL DEF Spec, FirstLeavesLast

=============================================================================
