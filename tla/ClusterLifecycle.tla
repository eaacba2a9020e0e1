-------------------------- MODULE ClusterLifecycle --------------------------
(***************************************************************************)
(* The life of one cluster and of its machines: the API requests that      *)
(* create, grow, shrink, probe and delete a self-built (cluster-api, VM)   *)
(* cluster, the task stages those requests start, the machine create,      *)
(* prepare and terminate tasks, and the health-check cron job.             *)
(*                                                                         *)
(* A request starts a job.  A job stands for the root task and the chain   *)
(* of sub-tasks below it on the same cluster, of which at most one has a   *)
(* stage to run at any time: pc[j] names that stage.  Terminate tasks run  *)
(* in parallel under a batch task and have states of their own in term[j]. *)
(*                                                                         *)
(* The task engine, the lock manager and the database are vendored         *)
(* (external): a stage loads its object and then runs with the object's    *)
(* lock held; a stage whose row has been deleted only fails the task; a    *)
(* status write is dropped when the loaded object already has that status  *)
(* and is invisible on a deleted row; LocalTaskRun closures hold no lock.  *)
(* Database calls on rows that exist do not fail; inserting a row may (its *)
(* validation can refuse it), and so may every call to the cloud or to the *)
(* cluster's API server.                                                   *)
(***************************************************************************)
EXTENDS Naturals, FiniteSets

CONSTANTS
    Machines,            \* machine rows that may ever be inserted
    Controls,            \* those of them with role controlplane
    Jobs,                \* accepted requests (bounds the number of them)
    Requests,            \* the kinds of request users issue, and "health" if
                         \* the health-check cron job is on
    NeedCreateMachines,  \* driver property: FALSE for an imported cluster
    NoMachine            \* "no kubeconfig cached"

RequestKinds == {"create", "add", "post", "delMachines", "delMachine",
                 "delete", "syncstatus"}

ASSUME LifecycleAssumption ==
    /\ Controls \subseteq Machines
    /\ Requests \subseteq RequestKinds \cup {"health"}
    /\ NeedCreateMachines \in BOOLEAN
    /\ NoMachine \notin Machines

VARIABLES
    status,   \* clusters.status; "absent" before the row exists, "gone" after
    kube,     \* clusters.kubeconfig: the machine whose address it holds
    client,   \* whether the client registry has an entry for the cluster
    mstat,    \* machines.status; "none" before the row exists, "gone" after
    first,    \* machines.first_node
    rid,      \* machines with a resource_id stored
    vm,       \* machines whose cloud server exists
    up,       \* first machines whose server runs an initialised control plane
    prep,     \* progress of the create/prepare tasks of a machine
    kind, pc, \* the request a job serves and the stage it is at
    ms,       \* the machines a job creates or deletes
    todo,     \* those of them the running loop has not reached
    seen,     \* cluster status as loaded by the pending LocalTaskRun closure
    term,     \* state of the terminate task of each machine, per job
    sched,    \* outcomes the batch task has been scheduled with, per job
    probe     \* the health-check job: the status it loaded, or "idle"

clusterVars == <<status, kube, client>>
machineVars == <<mstat, first, rid, vm, up, prep>>
jobVars     == <<kind, pc, ms, todo, seen>>
termVars    == <<term, sched>>
vars == <<status, kube, client, mstat, first, rid, vm, up, prep,
          kind, pc, ms, todo, seen, term, sched, probe>>

ClusterStatus == {"init", "creating", "create_fail", "create_machine_fail",
                  "running", "lost", "unknown", "error", "deleting",
                  "delete_fail"}
MachineStatus == {"init", "creating", "create_fail", "prepare", "prepare_fail",
                  "running", "deleting", "terminating", "terminate_fail"}

\* Stages that run with the cluster row loaded and its lock held.
ClusterStages == {"createInit", "cmInit", "deployFailed", "addons", "ssInit",
                  "ssFailed", "createFailed", "sync", "dmInit", "dmOk",
                  "dmFailed", "delInit", "delFinish", "delFailed"}
\* Loops and closures in the middle of a task.
Running == {"insert", "deploy", "waitFirst", "rest", "syncAdd", "syncing",
            "ssRun", "batchInit", "spawn", "batch"}
Final  == {"ok", "failed"}
\* No step leaves these: "blocked" is a goroutine nobody will wake.
Over   == Final \cup {"blocked"}
Stages == {"idle"} \cup ClusterStages \cup Running \cup Over

PrepStates == {"idle", "create", "prepare", "running", "server",
               "prepareFailed", "failed", "done"}
Pending    == {"queued", "hasId", "noId"}
TermStates == {"none", "marked", "ok", "skip", "fail"} \cup Pending

TypeOK ==
    /\ status \in ClusterStatus \cup {"absent", "gone"}
    /\ kube \in Machines \cup {NoMachine}
    /\ client \in {"present", "absent"}
    /\ mstat \in [Machines -> MachineStatus \cup {"none", "gone"}]
    /\ first \subseteq Machines /\ rid \subseteq Machines
    /\ vm \subseteq Machines /\ up \subseteq Machines
    /\ prep \in [Machines -> PrepStates]
    /\ kind \in [Jobs -> RequestKinds \cup {"none"}]
    /\ pc \in [Jobs -> Stages]
    /\ ms \in [Jobs -> SUBSET Machines]
    /\ todo \in [Jobs -> SUBSET Machines]
    /\ seen \in [Jobs -> ClusterStatus \cup {"none", "absent", "gone"}]
    /\ term \in [Jobs -> [Machines -> TermStates]]
    /\ sched \in [Jobs -> SUBSET Final]
    /\ probe \in {"idle", "running", "lost", "updating"}

Init ==
    /\ status = "absent" /\ kube = NoMachine /\ client = "absent"
    /\ mstat = [m \in Machines |-> "none"]
    /\ first = {} /\ rid = {} /\ vm = {} /\ up = {}
    /\ prep = [m \in Machines |-> "idle"]
    /\ kind = [j \in Jobs |-> "none"]
    /\ pc = [j \in Jobs |-> "idle"]
    /\ ms = [j \in Jobs |-> {}]
    /\ todo = [j \in Jobs |-> {}]
    /\ seen = [j \in Jobs |-> "none"]
    /\ term = [j \in Jobs |-> [m \in Machines |-> "none"]]
    /\ sched = [j \in Jobs |-> {}]
    /\ probe = "idle"

-----------------------------------------------------------------------------
(* Rows, locks and status writes *)

\* GetMachines: the machine rows of the cluster.
Rows == {m \in Machines : mstat[m] \notin {"none", "gone"}}

RowExists == status \notin {"absent", "gone"}

\* The cluster lock spans several steps only while a task inserts rows.
ClusterLocked == \E j \in Jobs : pc[j] = "insert"

\* The class lock of the machine batch task, held while it starts children.
BatchLocked == \E j \in Jobs : pc[j] = "spawn"

\* A prepare task keeps its machine locked until it ends.
MachineLocked(m) == prep[m] \in {"running", "server"}

\* SetStatus(s) on a cluster object that was loaded with status loaded.
SetStatus(loaded, s) ==
    status' = IF status = "gone" \/ loaded = s THEN status ELSE s

\* SetStatus(s) on the machine objects S, loaded in this step.
SetMachineStatus(S, s) ==
    mstat' = [m \in Machines |->
                 IF m \in S /\ mstat[m] \notin {"none", "gone"}
                 THEN s ELSE mstat[m]]

Goto(j, p) == pc' = [pc EXCEPT ![j] = p]

\* The control plane address: of the kubeconfig once it is cached, else of
\* the first machine as soon as it has a server.
Endpoint ==
    IF kube # NoMachine THEN kube
    ELSE IF Rows \cap first \cap rid = {} THEN NoMachine
    ELSE CHOOSE m \in Rows \cap first \cap rid : TRUE

\* GetK8sClient and a call: possible only if that address answers.
CanReach == ~NeedCreateMachines \/ Endpoint \in up

CacheKubeconfig == kube' = IF NeedCreateMachines THEN Endpoint ELSE kube

-----------------------------------------------------------------------------
(* Requests *)

Accept(j, k, S, p) ==
    /\ kind[j] = "none" /\ k \in Requests
    /\ kind' = [kind EXCEPT ![j] = k]
    /\ ms' = [ms EXCEPT ![j] = S]
    /\ Goto(j, p)
    /\ UNCHANGED <<todo, seen>>

\* A request names machines that no earlier request names.
Fresh(S) == /\ \A m \in S : mstat[m] = "none"
            /\ \A k \in Jobs : kind[k] \in {"create", "add"} => S \cap ms[k] = {}

\* POST clusters: PostCreate and StartClusterCreateTask.
CreateCluster(j, S) ==
    /\ status = "absent"
    /\ (S # {}) = NeedCreateMachines
    /\ Fresh(S)
    /\ Accept(j, "create", S, "createInit")
    /\ status' = "creating"
    /\ UNCHANGED <<kube, client, machineVars, termVars, probe>>

\* PerformAddMachines
PerformAddMachines(j, S) ==
    /\ NeedCreateMachines /\ ~ClusterLocked
    /\ status \in {"running", "init"}
    /\ S # {} /\ Fresh(S)
    /\ Rows = {} => S \cap Controls # {}
    /\ Accept(j, "add", S, "cmInit")
    /\ UNCHANGED <<clusterVars, machineVars, termVars, probe>>

\* POST machines: the row is inserted and its create task started at once.
PostMachine(j, m) ==
    /\ NeedCreateMachines /\ RowExists
    /\ Fresh({m})
    /\ Rows = {} => m \in Controls
    /\ Accept(j, "post", {m}, "ok")
    /\ mstat' = [mstat EXCEPT ![m] = "creating"]
    /\ first' = IF Rows = {} THEN first \cup {m} ELSE first
    /\ prep' = [prep EXCEPT ![m] = "create"]
    /\ UNCHANGED <<clusterVars, rid, vm, up, termVars, probe>>

\* Mutant: any machine may go, at any time.
ValidateNothing(S) == TRUE

\* ValidateDeleteMachines
ValidateDeleteMachines(S) ==
    Cardinality(Rows) # Cardinality(S) => S \cap first = {}

\* PerformDeleteMachines; asking for every machine looks for PVCs first.
PerformDeleteMachines(j, S) ==
    /\ RowExists /\ ~ClusterLocked
    /\ S # {} /\ S \subseteq Rows
    /\ ValidateDeleteMachines(S)
    /\ IF Cardinality(S) = Cardinality(Rows)
       THEN CacheKubeconfig ELSE UNCHANGED kube
    /\ Accept(j, "delMachines", S, "dmInit")
    /\ SetMachineStatus(S, "deleting")
    /\ UNCHANGED <<status, client, first, rid, vm, up, prep, termVars, probe>>

\* DELETE machines/<id>: holds the lock of the machine, not of the cluster.
DeleteMachine(j, m) ==
    /\ RowExists /\ m \in Rows /\ ~MachineLocked(m)
    /\ ValidateDeleteMachines({m})
    /\ Accept(j, "delMachine", {m}, "dmInit")
    /\ SetMachineStatus({m}, "deleting")
    /\ UNCHANGED <<clusterVars, first, rid, vm, up, prep, termVars, probe>>

\* DELETE clusters/<id> and PerformPurge: StartClusterDeleteTask sets the
\* status and removes the client.
DeleteCluster(j) ==
    /\ RowExists /\ ~ClusterLocked
    /\ Accept(j, "delete", {}, "delInit")
    /\ status' = "deleting" /\ client' = "absent"
    /\ UNCHANGED <<kube, machineVars, termVars, probe>>

\* PerformSyncstatus
PerformSyncstatus(j) ==
    /\ RowExists /\ ~ClusterLocked
    /\ Accept(j, "syncstatus", {}, "ssInit")
    /\ UNCHANGED <<clusterVars, machineVars, termVars, probe>>

Request(j) ==
    \/ \E S \in SUBSET Machines : CreateCluster(j, S)
    \/ \E S \in SUBSET Machines : PerformAddMachines(j, S)
    \/ \E m \in Machines : PostMachine(j, m)
    \/ \E S \in SUBSET Machines : PerformDeleteMachines(j, S)
    \/ \E m \in Machines : DeleteMachine(j, m)
    \/ DeleteCluster(j)
    \/ PerformSyncstatus(j)

-----------------------------------------------------------------------------
(* ClusterCreateTask, ClusterCreateMachinesTask and the deploy closure *)

\* execITask: load the cluster row, take its lock, run the stage.
Stage(j, p) == pc[j] = p /\ status # "gone" /\ ~ClusterLocked

\* execITask: the row is gone, so the task and the parents waiting for it fail
\* without touching any status.
StageOfDeletedRow(j) ==
    /\ pc[j] \in ClusterStages /\ status = "gone"
    /\ Goto(j, "failed")
    /\ UNCHANGED <<clusterVars, machineVars, kind, ms, todo, seen, termVars, probe>>

\* ClusterCreateTask.OnInit; certificates may fail to be generated.
CreateOnInit(j) ==
    /\ Stage(j, "createInit")
    /\ \/ /\ ms[j] = {}
          /\ Goto(j, "ssInit") /\ UNCHANGED status
       \/ /\ ms[j] # {}
          /\ Goto(j, "cmInit") /\ UNCHANGED status
       \/ /\ ms[j] # {}
          /\ Goto(j, "failed") /\ SetStatus(status, "create_fail")
    /\ UNCHANGED <<kube, client, machineVars, kind, ms, todo, seen, termVars, probe>>

\* ClusterCreateMachinesTask.onError, then the parent's failure stage if any.
CreateMachinesError(j) ==
    /\ SetStatus(status, "create_machine_fail")
    /\ Goto(j, IF kind[j] = "create" THEN "createFailed" ELSE "failed")

\* ClusterCreateMachinesTask.OnInit up to the insertion loop.
CreateMachinesOnInit(j) ==
    /\ Stage(j, "cmInit")
    /\ IF Rows = {} /\ ms[j] \cap Controls = {}
       THEN CreateMachinesError(j) /\ UNCHANGED todo
       ELSE /\ Goto(j, "insert") /\ todo' = [todo EXCEPT ![j] = ms[j]]
            /\ UNCHANGED status
    /\ UNCHANGED <<kube, client, machineVars, kind, ms, seen, termVars, probe>>

\* createMachines: one row, control planes before nodes; the row that finds
\* no other becomes the first node.
InsertMachine(j, m) ==
    /\ pc[j] = "insert" /\ m \in todo[j]
    /\ m \in Controls \/ todo[j] \cap Controls = {}
    /\ Rows = {} => m \in Controls
    /\ mstat' = [mstat EXCEPT ![m] = "init"]
    /\ first' = IF Rows = {} THEN first \cup {m} ELSE first
    /\ todo' = [todo EXCEPT ![j] = @ \ {m}]
    /\ Goto(j, IF todo[j] = {m} THEN "deploy" ELSE "insert")
    /\ UNCHANGED <<clusterVars, rid, vm, up, prep, kind, ms, seen, termVars, probe>>

\* createMachines: an insertion fails and the rows before it stay.
InsertFail(j) ==
    /\ pc[j] = "insert"
    /\ CreateMachinesError(j)
    /\ UNCHANGED <<kube, client, machineVars, kind, ms, todo, seen, termVars, probe>>

\* PostCreate and StartMachineCreateTask, under the lock of the machine.
StartMachineCreateTask(m) ==
    /\ ~MachineLocked(m)
    /\ SetMachineStatus({m}, "creating")
    /\ prep' = [prep EXCEPT ![m] = "create"]

\* Mutant: the joining machines do not wait for the first one.
DeployWithoutWait(j) ==
    /\ pc[j] = "deploy"
    /\ IF ms[j] \cap first = {}
       THEN UNCHANGED <<mstat, prep>>
       ELSE \E m \in ms[j] \cap first : StartMachineCreateTask(m)
    /\ Goto(j, "rest")
    /\ todo' = [todo EXCEPT ![j] = ms[j] \ first]
    /\ UNCHANGED <<clusterVars, first, rid, vm, up, kind, ms, seen, termVars, probe>>

\* RequestDeployMachines: the first control plane, if it is among the machines.
DeployFirst(j) ==
    /\ pc[j] = "deploy"
    /\ IF ms[j] \cap first = {}
       THEN Goto(j, "rest") /\ UNCHANGED <<mstat, prep>>
       ELSE /\ \E m \in ms[j] \cap first : StartMachineCreateTask(m)
            /\ Goto(j, "waitFirst")
    /\ todo' = [todo EXCEPT ![j] = ms[j] \ first]
    /\ UNCHANGED <<clusterVars, first, rid, vm, up, kind, ms, seen, termVars, probe>>

\* Mutant: no timeout and no failure status ends the poll.
WaitForever(j) ==
    /\ pc[j] = "waitFirst"
    /\ \E m \in {f \in ms[j] \cap first : prep[f] # "idle"} :
          mstat[m] = "running" /\ Goto(j, "rest")
    /\ UNCHANGED <<clusterVars, machineVars, kind, ms, todo, seen, termVars, probe>>

\* WaitMachineRunning: poll until running, or fail on any other status but the
\* two of a machine being created, or when the time is up.
WaitMachineRunning(j) ==
    /\ pc[j] = "waitFirst"
    /\ \E m \in {f \in ms[j] \cap first : prep[f] # "idle"} :
          \/ mstat[m] = "running" /\ Goto(j, "rest")
          \/ mstat[m] # "running" /\ Goto(j, "deployFailed")
    /\ UNCHANGED <<clusterVars, machineVars, kind, ms, todo, seen, termVars, probe>>

\* RequestDeployMachines: one of the machines that join.
DeployRest(j, m) ==
    /\ pc[j] = "rest" /\ m \in todo[j]
    /\ StartMachineCreateTask(m)
    /\ todo' = [todo EXCEPT ![j] = @ \ {m}]
    /\ UNCHANGED <<clusterVars, first, rid, vm, up, kind, pc, ms, seen, termVars, probe>>

\* The closure ends; OnMachinesCreated completes the task.
Deployed(j) ==
    /\ pc[j] = "rest" /\ todo[j] = {}
    /\ Goto(j, IF kind[j] = "create" THEN "addons" ELSE "ok")
    /\ UNCHANGED <<clusterVars, machineVars, kind, ms, todo, seen, termVars, probe>>

\* ClusterCreateMachinesTask.OnMachinesCreatedFailed
OnMachinesCreatedFailed(j) ==
    /\ Stage(j, "deployFailed")
    /\ CreateMachinesError(j)
    /\ UNCHANGED <<kube, client, machineVars, kind, ms, todo, seen, termVars, probe>>

\* Mutant: the task fails and the cluster keeps its status.
CreateFailsSilently(j) ==
    /\ Stage(j, "createFailed")
    /\ Goto(j, "failed") /\ UNCHANGED status
    /\ UNCHANGED <<kube, client, machineVars, kind, ms, todo, seen, termVars, probe>>

\* ClusterCreateTask.SetFailed, from the failure stage of any sub-task.
CreateSetFailed(j) ==
    /\ Stage(j, "createFailed")
    /\ SetStatus(status, "create_fail")
    /\ Goto(j, "failed")
    /\ UNCHANGED <<kube, client, machineVars, kind, ms, todo, seen, termVars, probe>>

\* ClusterApplyAddonsTask
ApplyAddons(j) ==
    /\ Stage(j, "addons")
    /\ CacheKubeconfig
    /\ \/ CanReach /\ Goto(j, "ssInit")
       \/ Goto(j, "createFailed")
    /\ UNCHANGED <<status, client, machineVars, kind, ms, todo, seen, termVars, probe>>

\* ClusterSyncTask.OnInit; AddClient will refuse the cluster it loaded unless
\* that was running.
SyncOnInit(j) ==
    /\ Stage(j, "sync")
    /\ Goto(j, IF status = "running" THEN "syncAdd" ELSE "createFailed")
    /\ UNCHANGED <<clusterVars, machineVars, kind, ms, todo, seen, termVars, probe>>

\* AddClient: keep the client there is, or build one from a live API server.
SyncAddClient(j) ==
    /\ pc[j] = "syncAdd"
    /\ \/ client = "present" /\ Goto(j, "syncing") /\ UNCHANGED client
       \/ client = "absent" /\ CanReach /\ Goto(j, "syncing") /\ client' = "present"
       \/ client = "absent" /\ Goto(j, "createFailed") /\ UNCHANGED client
    /\ UNCHANGED <<status, kube, machineVars, kind, ms, todo, seen, termVars, probe>>

\* SyncCallSyncTask: with a client the full synchronisation runs and succeeds
\* or fails.  Without one SubmitSyncTask sends its error on an unbuffered
\* channel that only its own caller would read.
SyncCallSyncTask(j) ==
    /\ pc[j] = "syncing"
    /\ \/ client = "present" /\ status # "gone" /\ Goto(j, "ok")
       \/ client = "present" /\ Goto(j, "createFailed")
       \/ client = "absent" /\ Goto(j, "blocked")
    /\ UNCHANGED <<clusterVars, machineVars, kind, ms, todo, seen, termVars, probe>>

\* ClusterSyncTask, the last sub-task of a create request.
ClusterSync(j) == SyncOnInit(j) \/ SyncAddClient(j) \/ SyncCallSyncTask(j)

-----------------------------------------------------------------------------
(* ClusterSyncstatusTask *)

\* Where the job goes on after the sub-task: the parent's next stage.
AfterSyncstatus(j) ==
    IF kind[j] = "create" THEN "sync"
    ELSE IF kind[j] = "delete" THEN "delFinish" ELSE "ok"

\* ClusterSyncstatusTask.OnInit
SyncstatusOnInit(j) ==
    /\ Stage(j, "ssInit")
    /\ IF Rows = {} /\ NeedCreateMachines
       THEN /\ SetStatus(status, "init")
            /\ Goto(j, AfterSyncstatus(j)) /\ UNCHANGED seen
       ELSE /\ seen' = [seen EXCEPT ![j] = status]
            /\ Goto(j, "ssRun") /\ UNCHANGED status
    /\ UNCHANGED <<kube, client, machineVars, kind, ms, todo, termVars, probe>>

\* The closure: ask the API server for its version, then write the status on
\* the cluster object as it was loaded by OnInit.
SyncstatusRun(j) ==
    /\ pc[j] = "ssRun"
    /\ CacheKubeconfig
    /\ \/ CanReach /\ SetStatus(seen[j], "running") /\ Goto(j, AfterSyncstatus(j))
       \/ Goto(j, "ssFailed") /\ UNCHANGED status
    /\ seen' = [seen EXCEPT ![j] = "none"]
    /\ UNCHANGED <<client, machineVars, kind, ms, todo, termVars, probe>>

\* ClusterSyncstatusTask.SetFailed
SyncstatusSetFailed(j) ==
    /\ Stage(j, "ssFailed")
    /\ SetStatus(status, "unknown")
    /\ Goto(j, IF kind[j] = "create" THEN "createFailed"
               ELSE IF kind[j] = "syncstatus" THEN "failed" ELSE "dmFailed")
    /\ UNCHANGED <<kube, client, machineVars, kind, ms, todo, seen, termVars, probe>>

-----------------------------------------------------------------------------
(* ClusterDeleteTask, ClusterDeleteMachinesTask, MachineBatchDeleteTask *)

\* RealDelete of the cluster, or SetFailed when part of it fails.
RealDeleteCluster(j) ==
    \/ status' = "gone" /\ Goto(j, "ok")
    \/ SetStatus(status, "delete_fail") /\ Goto(j, "failed")

\* ClusterDeleteTask.OnInit: list the machines and hand them on.
DeleteOnInit(j) ==
    /\ Stage(j, "delInit")
    /\ IF Rows = {}
       THEN RealDeleteCluster(j) /\ UNCHANGED <<mstat, ms>>
       ELSE /\ SetMachineStatus(Rows, "deleting")
            /\ ms' = [ms EXCEPT ![j] = Rows]
            /\ Goto(j, "dmInit") /\ UNCHANGED status
    /\ UNCHANGED <<kube, client, first, rid, vm, up, prep, kind, todo, seen, termVars, probe>>

\* ClusterDeleteTask.OnMachinesDeleted
OnMachinesDeleted(j) ==
    /\ Stage(j, "delFinish")
    /\ RealDeleteCluster(j)
    /\ UNCHANGED <<kube, client, machineVars, kind, ms, todo, seen, termVars, probe>>

\* ClusterDeleteTask.OnMachinesDeletedFailed
DeleteSetFailed(j) ==
    /\ Stage(j, "delFailed")
    /\ SetStatus(status, "delete_fail") /\ Goto(j, "failed")
    /\ UNCHANGED <<kube, client, machineVars, kind, ms, todo, seen, termVars, probe>>

\* ClusterDeleteMachinesTask.OnError
DeleteMachinesError(j) ==
    /\ SetStatus(status, "error")
    /\ Goto(j, IF kind[j] = "delete" THEN "delFailed" ELSE "failed")

\* ClusterDeleteMachinesTask.OnInit: every machine must still have its row.
DeleteMachinesOnInit(j) ==
    /\ Stage(j, "dmInit")
    /\ IF ms[j] \subseteq Rows
       THEN Goto(j, "batchInit") /\ UNCHANGED status
       ELSE DeleteMachinesError(j)
    /\ UNCHANGED <<kube, client, machineVars, kind, ms, todo, seen, termVars, probe>>

\* ClusterDeleteMachinesTask.OnDeleteMachinesFailed, OnSyncStatusFailed
OnDeleteMachinesFailed(j) ==
    /\ Stage(j, "dmFailed")
    /\ DeleteMachinesError(j)
    /\ UNCHANGED <<kube, client, machineVars, kind, ms, todo, seen, termVars, probe>>

\* ClusterDeleteMachinesTask.OnDeleteMachines
OnDeleteMachines(j) ==
    /\ Stage(j, "dmOk")
    /\ Goto(j, IF status # "deleting" THEN "ssInit"
               ELSE IF kind[j] = "delete" THEN "delFinish" ELSE "ok")
    /\ UNCHANGED <<clusterVars, machineVars, kind, ms, todo, seen, termVars, probe>>

\* MachineBatchDeleteTask before OnInit: the engine loads every row.
BatchLoad(j) ==
    /\ pc[j] = "batchInit" /\ ~BatchLocked
    /\ IF ms[j] \subseteq Rows
       THEN Goto(j, "spawn") /\ todo' = [todo EXCEPT ![j] = ms[j]]
       ELSE Goto(j, "dmFailed") /\ UNCHANGED todo
    /\ UNCHANGED <<clusterVars, machineVars, kind, ms, seen, termVars, probe>>

\* MachineBatchDeleteTask.OnInit, StartTerminateTask: the status of one machine.
MarkTerminating(j, m) ==
    /\ pc[j] = "spawn" /\ m \in todo[j]
    /\ \A n \in Machines : term[j][n] # "marked"
    /\ SetMachineStatus({m}, "terminating")
    /\ term' = [term EXCEPT ![j][m] = "marked"]
    /\ todo' = [todo EXCEPT ![j] = @ \ {m}]
    /\ UNCHANGED <<clusterVars, first, rid, vm, up, prep, kind, pc, ms, seen, sched, probe>>

\* StartTerminateTask: NewTask waits for the lock of the machine.
StartTerminateTask(j, m) ==
    /\ pc[j] = "spawn" /\ term[j][m] = "marked" /\ ~MachineLocked(m)
    /\ term' = [term EXCEPT ![j][m] = "queued"]
    /\ Goto(j, IF todo[j] = {} THEN "batch" ELSE "spawn")
    /\ UNCHANGED <<clusterVars, machineVars, kind, ms, todo, seen, sched, probe>>

\* NotifyParentTaskComplete: a child that leaves no started sibling unfinished
\* schedules the parent's stage with its own outcome.
TerminateEnds(j, m, t, outcome) ==
    /\ term' = [term EXCEPT ![j][m] = t]
    /\ sched' = IF \E n \in Machines \ {m} : term[j][n] \in Pending
                THEN sched ELSE [sched EXCEPT ![j] = @ \cup {outcome}]

\* The engine loads the machine row before it waits for the machine's lock.
TerminateLoad(j, m) ==
    /\ term[j][m] = "queued"
    /\ IF m \notin Rows
       THEN TerminateEnds(j, m, "fail", "failed")
       ELSE /\ term' = [term EXCEPT ![j][m] = IF m \in rid THEN "hasId" ELSE "noId"]
            /\ UNCHANGED sched
    /\ UNCHANGED <<clusterVars, machineVars, jobVars, probe>>

\* MachineTerminateTask.OnInit, TerminateResource: no resource id, nothing to do.
TerminateSkip(j, m) ==
    /\ term[j][m] = "noId" /\ ~MachineLocked(m)
    /\ TerminateEnds(j, m, "skip", "ok")
    /\ UNCHANGED <<clusterVars, machineVars, jobVars, probe>>

\* Mutant: the server is not deleted.
TerminateNothing(j, m) ==
    /\ term[j][m] = "hasId" /\ ~MachineLocked(m)
    /\ TerminateEnds(j, m, "ok", "ok")
    /\ UNCHANGED <<clusterVars, machineVars, jobVars, probe>>

\* TerminateResource: the server is deleted, or was not found.
TerminateServer(j, m) ==
    /\ term[j][m] = "hasId" /\ ~MachineLocked(m)
    /\ vm' = vm \ {m} /\ up' = up \ {m}
    /\ TerminateEnds(j, m, "ok", "ok")
    /\ UNCHANGED <<clusterVars, mstat, first, rid, prep, jobVars, probe>>

\* TerminateResource fails; the deletion may have begun (WaitDelete).
TerminateFail(j, m) ==
    /\ term[j][m] = "hasId" /\ ~MachineLocked(m)
    /\ \/ vm' = vm \ {m} /\ up' = up \ {m}
       \/ UNCHANGED <<vm, up>>
    /\ SetMachineStatus({m}, "terminate_fail")
    /\ TerminateEnds(j, m, "fail", "failed")
    /\ UNCHANGED <<clusterVars, first, rid, prep, jobVars, probe>>

\* MachineBatchDeleteTask.OnDeleteMachines: RealDelete of every machine.
BatchOnDeleteMachines(j) ==
    /\ pc[j] = "batch" /\ "ok" \in sched[j] /\ ~BatchLocked
    /\ IF ms[j] \subseteq Rows
       THEN /\ SetMachineStatus(ms[j], "gone")
            /\ Goto(j, "dmOk")
       ELSE Goto(j, "dmFailed") /\ UNCHANGED mstat
    /\ UNCHANGED <<clusterVars, first, rid, vm, up, prep, kind, ms, todo, seen, termVars, probe>>

\* Mutant: a failed batch is reported as complete.
BatchFailureIgnored(j) ==
    /\ pc[j] = "batch" /\ "failed" \in sched[j] /\ ~BatchLocked
    /\ Goto(j, "dmOk")
    /\ UNCHANGED <<clusterVars, machineVars, kind, ms, todo, seen, termVars, probe>>

\* MachineBatchDeleteTask.OnDeleteMachinesFailed
BatchOnDeleteMachinesFailed(j) ==
    /\ pc[j] = "batch" /\ "failed" \in sched[j] /\ ~BatchLocked
    /\ Goto(j, "dmFailed")
    /\ UNCHANGED <<clusterVars, machineVars, kind, ms, todo, seen, termVars, probe>>

-----------------------------------------------------------------------------
(* MachineCreateTask and MachinePrepareTask *)

\* MachineCreateTask.OnInit: look up the cluster, then StartPrepareTask.
MachineCreateOnInit(m) ==
    /\ prep[m] = "create" /\ ~MachineLocked(m)
    /\ IF m \notin Rows
       THEN prep' = [prep EXCEPT ![m] = "failed"] /\ UNCHANGED mstat
       ELSE IF status = "gone"
       THEN /\ SetMachineStatus({m}, "create_fail")
            /\ prep' = [prep EXCEPT ![m] = "failed"]
       ELSE /\ SetMachineStatus({m}, "prepare")
            /\ prep' = [prep EXCEPT ![m] = "prepare"]
    /\ UNCHANGED <<clusterVars, first, rid, vm, up, jobVars, termVars, probe>>

\* MachinePrepareTask: the row is loaded and the machine locked.
PrepareLoad(m) ==
    /\ prep[m] = "prepare"
    /\ prep' = [prep EXCEPT ![m] = IF m \in Rows THEN "running" ELSE "prepareFailed"]
    /\ UNCHANGED <<clusterVars, mstat, first, rid, vm, up, jobVars, termVars, probe>>

\* FillMachinePrepareInput: a machine that is not first needs a join token
\* from the API server of the first one.
CanPrepare(m) ==
    /\ status # "gone"
    /\ m \notin first => Rows \cap first \cap up # {}

\* PrepareResource creates the server and records its id.
PrepareCreateServer(m) ==
    /\ prep[m] = "running" /\ CanPrepare(m)
    /\ vm' = vm \cup {m} /\ rid' = rid \cup {m}
    /\ prep' = [prep EXCEPT ![m] = "server"]
    /\ IF m \in first THEN UNCHANGED kube ELSE CacheKubeconfig
    /\ UNCHANGED <<status, client, mstat, first, up, jobVars, termVars, probe>>

\* The init script ran; MachinePrepareTask and MachineCreateTask complete.
PrepareOk(m) ==
    /\ prep[m] = "server"
    /\ up' = IF m \in first THEN up \cup {m} ELSE up
    /\ SetMachineStatus({m}, "running")
    /\ prep' = [prep EXCEPT ![m] = "done"]
    /\ UNCHANGED <<clusterVars, first, rid, vm, jobVars, termVars, probe>>

\* MachinePrepareTask.OnError at any point; the init script may have run.
PrepareOnError(m) ==
    /\ MachineLocked(m)
    /\ \/ UNCHANGED up
       \/ prep[m] = "server" /\ m \in first /\ up' = up \cup {m}
    /\ \/ UNCHANGED kube
       \/ m \notin first /\ CacheKubeconfig
    /\ SetMachineStatus({m}, "prepare_fail")
    /\ prep' = [prep EXCEPT ![m] = "prepareFailed"]
    /\ UNCHANGED <<status, client, first, rid, vm, jobVars, termVars, probe>>

\* MachineCreateTask.OnMachinePreparedFailed
OnMachinePreparedFailed(m) ==
    /\ prep[m] = "prepareFailed"
    /\ SetMachineStatus({m}, "create_fail")
    /\ prep' = [prep EXCEPT ![m] = "failed"]
    /\ UNCHANGED <<clusterVars, first, rid, vm, up, jobVars, termVars, probe>>

-----------------------------------------------------------------------------
(* ClusterHealthCheckTask: a cron job that takes no lock *)

\* getClustersByStatus loads the clusters that are running or lost.
HealthLoad ==
    /\ "health" \in Requests
    /\ probe = "idle" /\ status \in {"running", "lost"}
    /\ probe' = status
    /\ UNCHANGED <<clusterVars, machineVars, jobVars, termVars>>

\* IsHealthy succeeds; a cluster loaded as lost becomes running again, and
\* UpdateClient removes its client.
Healthy ==
    /\ probe \in {"running", "lost"} /\ CanReach
    /\ CacheKubeconfig
    /\ SetStatus(probe, "running")
    /\ IF probe = "lost"
       THEN client' = "absent" /\ probe' = "updating"
       ELSE UNCHANGED client /\ probe' = "idle"
    /\ UNCHANGED <<machineVars, jobVars, termVars>>

\* IsHealthy fails: the status is written and the client removed.
Unhealthy ==
    /\ probe \in {"running", "lost"}
    /\ CacheKubeconfig
    /\ SetStatus(probe, "lost") /\ client' = "absent"
    /\ probe' = "idle"
    /\ UNCHANGED <<machineVars, jobVars, termVars>>

\* UpdateClient goes on with AddClient; when that fails, or finds a client a
\* task has added meanwhile, the previous status is written back.
HealthUpdateClient ==
    /\ probe = "updating" /\ probe' = "idle"
    /\ \/ client = "absent" /\ CanReach /\ client' = "present" /\ UNCHANGED status
       \/ SetStatus("running", "lost") /\ UNCHANGED client
    /\ UNCHANGED <<kube, machineVars, jobVars, termVars>>

HealthCheck == HealthLoad \/ Healthy \/ Unhealthy \/ HealthUpdateClient

-----------------------------------------------------------------------------
(* The whole system *)

TaskStep(j) ==
    \/ StageOfDeletedRow(j)
    \/ CreateOnInit(j) \/ CreateMachinesOnInit(j)
    \/ \E m \in Machines : InsertMachine(j, m)
    \/ InsertFail(j)
    \/ DeployFirst(j) \/ WaitMachineRunning(j)
    \/ \E m \in Machines : DeployRest(j, m)
    \/ Deployed(j) \/ OnMachinesCreatedFailed(j)
    \/ CreateSetFailed(j) \/ ApplyAddons(j) \/ ClusterSync(j)
    \/ SyncstatusOnInit(j) \/ SyncstatusRun(j) \/ SyncstatusSetFailed(j)
    \/ DeleteOnInit(j) \/ OnMachinesDeleted(j) \/ DeleteSetFailed(j)
    \/ DeleteMachinesOnInit(j) \/ OnDeleteMachinesFailed(j)
    \/ OnDeleteMachines(j)
    \/ BatchLoad(j)
    \/ \E m \in Machines : MarkTerminating(j, m)
    \/ \E m \in Machines : StartTerminateTask(j, m)
    \/ BatchOnDeleteMachines(j) \/ BatchOnDeleteMachinesFailed(j)

TerminateStep(j, m) ==
    \/ TerminateLoad(j, m) \/ TerminateSkip(j, m)
    \/ TerminateServer(j, m) \/ TerminateFail(j, m)

MachineStep(m) ==
    \/ MachineCreateOnInit(m) \/ PrepareLoad(m)
    \/ PrepareCreateServer(m) \/ PrepareOk(m) \/ PrepareOnError(m)
    \/ OnMachinePreparedFailed(m)

Next ==
    \/ \E j \in Jobs : Request(j)
    \/ \E j \in Jobs : TaskStep(j)
    \/ \E j \in Jobs, m \in Machines : TerminateStep(j, m)
    \/ \E m \in Machines : MachineStep(m)
    \/ HealthCheck

Spec == Init /\ [][Next]_vars

\* Workers keep running the stages, closures and tasks that are queued.
Fairness ==
    /\ \A j \in Jobs : WF_vars(TaskStep(j))
    /\ \A j \in Jobs, m \in Machines : WF_vars(TerminateStep(j, m))
    /\ \A m \in Machines : WF_vars(MachineStep(m))

FairSpec == Spec /\ Fairness

-----------------------------------------------------------------------------
(* Properties *)

ClusterNotStuck ==
    /\ status = "creating" =>
          \E j \in Jobs : kind[j] = "create" /\ pc[j] \notin Over
    /\ status = "deleting" =>
          \E j \in Jobs : kind[j] = "delete" /\ pc[j] \notin Over

MachineNotStuck ==
    \A m \in Machines :
        /\ mstat[m] = "creating" => prep[m] = "create"
        /\ mstat[m] = "prepare" => prep[m] \in {"prepare", "running", "server"}

\* A cluster shown as creating or deleting has an unfinished task that will
\* leave that status, and so has a machine shown as creating or preparing:
\* no interleaving of requests, task failures and lock-free status writers
\* strands a row in a transitional status that nobody will change.
NoStuckTransition == ClusterNotStuck /\ MachineNotStuck

NodesAfterFirst ==
    \A j \in Jobs : \A m \in ms[j] \ first :
        /\ kind[j] \in {"create", "add"}
        /\ ms[j] \cap first # {}
        /\ prep[m] # "idle"
        => \E f \in ms[j] \cap first : prep[f] = "done"

\* A cloud server outlives its machine row only if the terminate task of that
\* machine failed, found no resource id to delete, or has not finished: batch
\* deletion never drops a row whose server it silently left behind.
LeakExplained ==
    \A m \in vm : mstat[m] = "gone" =>
        \E j \in Jobs : term[j][m] \in {"fail", "skip"} \cup Pending

\* A cluster delete that reports success removed the rows of all the machines
\* it listed, whatever became of the cluster status meanwhile.
DeleteDrains ==
    \A j \in Jobs : kind[j] = "delete" /\ pc[j] \in {"delFinish", "ok"} =>
        \A m \in ms[j] : mstat[m] = "gone"

OneFirst == \A m, n \in Rows \cap first : m = n

\* At most one machine row of the cluster is the first control node, however
\* insertions overlap, and RequestDeployMachines starts the machines that join
\* only after the first control plane of the same request finished preparing
\* successfully.
FirstNodeLeads == NodesAfterFirst /\ OneFirst

\* "First control node must deleted at last": while machine rows are left, the
\* first control node is one of them.
FirstDeletedLast == Rows # {} => Rows \cap first # {}

\* Stages of a deletion from its validation until its rows are gone.
DeleteStages == {"delInit", "dmInit", "batchInit", "spawn", "batch"}

\* Deletions under way spare the first control node, or take every row.
FirstSpared ==
    \A j \in Jobs : pc[j] \in DeleteStages =>
        ms[j] \cap first \cap Rows = {} \/ Rows \subseteq ms[j]

\* The first control node is among the machines of a deletion under way.
FirstGoing == \E j \in Jobs : pc[j] \in DeleteStages /\ ms[j] \cap first \cap Rows # {}

Inserts == ~(Rows' \subseteq Rows)

\* The check that the first control node goes last is made once, when a deletion
\* is accepted, and holds until the rows are gone, whatever overlaps with it;
\* only a row inserted by another request while the first control node is
\* already going makes it stale (clusterapi_base.go:209).
FirstLeavesLast ==
    [][FirstDeletedLast /\ FirstSpared =>
         (FirstDeletedLast' /\ FirstSpared') \/ (Inserts /\ FirstGoing)]_vars

\* Every accepted request ends, whatever fails; only a create request whose
\* client was removed under its synchronisation is left blocked.
EveryJobEnds ==
    \A j \in Jobs : pc[j] # "idle" ~> pc[j] \in Over

\* ClusterSyncTask fails when SyncCallSyncTask returns an error: a request that
\* has reached its synchronisation ends.
SyncCallReturns ==
    \A j \in Jobs : pc[j] = "syncing" ~> pc[j] \in Final

=============================================================================
