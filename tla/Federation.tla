---- MODULE Federation ----
(***************************************************************************)
(* Federated objects (pkg/models/fed_api.go and federated_*.go), the tasks *)
(* that spread them (pkg/tasks/fed_resource_task.go) and the tasks that    *)
(* create, update and delete one resource of a cluster                     *)
(* (pkg/tasks/cluster_resource_task.go).                                   *)
(*                                                                         *)
(* Two federated objects stand for the kinds: "ns", a federated namespace, *)
(* and "role", an object of a namespaced kind that lives in it.  A joint   *)
(* row attaches an object to a cluster and remembers the id of the         *)
(* cluster's row; each cluster has rows of its own and, remotely, the      *)
(* Kubernetes objects.  Requests run under the lock of their federated     *)
(* object; the closures of tasks hold no lock and interleave freely.       *)
(***************************************************************************)
EXTENDS Naturals, SequencesExt

CONSTANTS
  Clusters,
  Jobs,         \* accepted requests on federated objects (bounds their number)
  Requests,     \* the kinds of request users make
  MaxRows,      \* bounds the rows ever inserted
  MaxFaults,    \* bounds failing calls, detaches and what others do to rows and clusters
  MaxSpec       \* bounds the versions of the role's template

RequestKinds == {"attach", "sync", "update", "syncCluster", "detach", "delete",
                 "deleteRow", "purgeCluster"}

ASSUME FederationAssumption ==
  /\ Clusters # {} /\ Requests \subseteq RequestKinds
  /\ MaxRows \in Nat /\ MaxFaults \in Nat
  /\ MaxSpec \in Nat \ {0}

VARIABLES
  fed,       \* status of each federated object
  spec,      \* version of the role's template
  joints,    \* joint rows ever inserted; live until they are deleted
  rows,      \* rows of the clusters ever inserted
  remote,    \* Kubernetes objects: version of the content, 0 when absent
  cluster,   \* cluster rows
  job,       \* what each job does, see JobType
  tasks,     \* row tasks under way
  faults,    \* failures and interventions so far
  excused    \* history: clusters with a reported reason for a stale role

vars == <<fed, spec, joints, rows, remote, cluster, job, tasks, faults, excused>>

Objs == {"ns", "role"}
FedStatus == {"absent", "active", "syncing", "sync_fail", "update_fail", "deleted"}
TaskKinds == {"create", "update", "delete"}
Working == [create |-> "creating", update |-> "updating", delete |-> "deleting"]
Failed == [create |-> "create_fail", update |-> "update_fail", delete |-> "delete_fail"]
Transitional == {"creating", "updating", "deleting", "syncing"}
RowStatus == {"init", "active", "gone", "create_fail", "update_fail", "delete_fail",
              "sync_fail"} \cup Transitional
FailStatus == {"create_fail", "update_fail", "delete_fail", "sync_fail"}
NoCopy == [id |-> 0, res |-> 0]
JobKinds == {"none", "attachNs", "attachRole", "sync", "syncCluster", "delete"}
JobStates == {"idle", "done", "init", "list", "loop", "syncFail", "ensure", "poll", "valid",
              "just", "load", "exist", "make", "bind", "update", "attachFail", "delete"}
TaskStates == {"init", "call", "write", "real", "syncInit", "syncCall", "syncFail",
               "fail"}

\* The object and the cluster a job is at, the joint row it has loaded, the
\* row it has found or inserted and the clusters it has not reached yet.
JobType == [kind : JobKinds, pc : JobStates, obj : Objs, cl : Clusters,
            copy : [id : Nat, res : 0..MaxRows], res : 0..MaxRows, todo : SUBSET Clusters]

Idle(p) == [kind |-> "none", pc |-> p, obj |-> "ns", cl |-> CHOOSE k \in Clusters : TRUE,
            copy |-> NoCopy, res |-> 0, todo |-> {}]

TypeOK ==
  /\ fed \in [Objs -> FedStatus]
  /\ spec \in 1..MaxSpec
  /\ joints \in Seq([obj : Objs, cl : Clusters, res : 0..MaxRows, live : BOOLEAN])
  /\ rows \in Seq([obj : Objs, cl : Clusters, ns : 0..MaxRows, status : RowStatus])
  /\ Len(rows) <= MaxRows
  /\ remote \in [Objs -> [Clusters -> 0..(MaxSpec + 1)]]
  /\ cluster \in [Clusters -> {"up", "purged", "gone"}]
  /\ job \in [Jobs -> JobType]
  /\ tasks \in Seq([type : TaskKinds, row : 1..MaxRows, spec : 1..MaxSpec, pc : TaskStates])
  /\ faults \in 0..MaxFaults
  /\ excused \in SUBSET Clusters

Init ==
  /\ fed = [o \in Objs |-> "absent"] /\ spec = 1
  /\ joints = <<>> /\ rows = <<>>
  /\ remote = [o \in Objs |-> [k \in Clusters |-> 0]]
  /\ cluster = [k \in Clusters |-> "up"]
  /\ job = [j \in Jobs |-> Idle("idle")]
  /\ tasks = <<>>
  /\ faults = 0 /\ excused = {}

rowVars == <<rows, tasks>>

-----------------------------------------------------------------------------
(* Lookups *)

Exists(o) == fed[o] \notin {"absent", "deleted"}

\* GetFederatedJointClusterModel: the joint rows of an object and a cluster.
Attached(o, k) ==
  {i \in DOMAIN joints : joints[i].live /\ joints[i].obj = o /\ joints[i].cl = k}

\* GetAttachedClusters: a join with the cluster table.
GetAttachedClusters(o) == {k \in Clusters : cluster[k] # "gone" /\ Attached(o, k) # {}}

Live(r) == r \in DOMAIN rows /\ rows[r].status # "gone"

\* The rows of the namespace in a cluster.
NsRows(k) == {r \in DOMAIN rows : Live(r) /\ rows[r].obj = "ns" /\ rows[r].cl = k}

\* FetchClusterResourceByName: a namespaced kind is looked up within the row of
\* the cluster's namespace.
ByName(o, k) ==
  {r \in DOMAIN rows : /\ Live(r) /\ rows[r].obj = o /\ rows[r].cl = k
                       /\ o = "role" => rows[r].ns \in NsRows(k)}

\* FetchClusterResourceById.
ById(r, k) == IF Live(r) /\ rows[r].cl = k THEN {r} ELSE {}

\* FetchClusterNamespace: for a namespaced kind the federated namespace and the
\* namespace's row must be there.
HasNamespace(o, k) == o = "role" => Exists("ns") /\ NsRows(k) # {}

SetFedStatus(o, s) == fed' = IF Exists(o) THEN [fed EXCEPT ![o] = s] ELSE fed

\* Requests hold the lock of their federated object until they are answered.
Locked(o) == \E j \in Jobs :
  /\ job[j].kind \in {"attachNs", "syncCluster", "delete"}
  /\ job[j].pc \notin {"idle", "done"} /\ job[j].obj = o

Goto(j, p) == job' = [job EXCEPT ![j].pc = p]

\* The request is answered or the task ends, and forgets what it has loaded.
End(j) == job' = [job EXCEPT ![j] = Idle("done")]

\* A call to the database or to an API server fails.
Fault == faults < MaxFaults /\ faults' = faults + 1

-----------------------------------------------------------------------------
(* Requests *)

Begin(j, what, o, k, p) ==
  /\ job[j].pc = "idle"
  /\ job' = [job EXCEPT ![j] = [Idle(p) EXCEPT !.kind = what, !.obj = o, !.cl = k]]

\* ValidateCreateData and PostCreate; a namespaced object names its namespace.
CreateFed(o) ==
  /\ fed[o] = "absent"
  /\ o = "role" => Exists("ns")
  /\ fed' = [fed EXCEPT ![o] = "active"]
  /\ UNCHANGED <<spec, joints, rowVars, remote, cluster, job, faults, excused>>

\* PostUpdate starts FedResourceUpdateTask, PerformSync FedResourceSyncTask,
\* which the former starts as well.
UpdateFed(j) ==
  /\ "update" \in Requests /\ Exists("role") /\ ~Locked("role") /\ spec < MaxSpec
  /\ spec' = spec + 1
  /\ Begin(j, "sync", "role", job[j].cl, "init")
  /\ UNCHANGED <<fed, joints, rowVars, remote, cluster, faults, excused>>

PerformSync(j, o) ==
  /\ "sync" \in Requests /\ Exists(o) /\ ~Locked(o)
  /\ Begin(j, "sync", o, job[j].cl, "init")
  /\ UNCHANGED <<fed, spec, joints, rowVars, remote, cluster, faults, excused>>

PerformSyncCluster(j, o, k) ==
  /\ "syncCluster" \in Requests /\ Exists(o) /\ ~Locked(o)
  /\ Begin(j, "syncCluster", o, k, "load")
  /\ UNCHANGED <<fed, spec, joints, rowVars, remote, cluster, faults, excused>>

\* PerformAttachCluster of a federated namespace validates and goes on itself ...
AttachNs(j, k) ==
  /\ "attach" \in Requests /\ Exists("ns") /\ ~Locked("ns")
  /\ cluster[k] # "gone" /\ Attached("ns", k) = {}
  /\ Begin(j, "attachNs", "ns", k, "just")
  /\ UNCHANGED <<fed, spec, joints, rowVars, remote, cluster, faults, excused>>

\* ... that of a namespaced object starts FedResourceAttachClusterTask.
AttachRole(j, k) ==
  /\ "attach" \in Requests /\ Exists("role") /\ ~Locked("role")
  /\ Begin(j, "attachRole", "role", k, "ensure")
  /\ UNCHANGED <<fed, spec, joints, rowVars, remote, cluster, faults, excused>>

\* ValidateDetachCluster and detachCluster: only the joint row goes.
DetachCluster(o, k) ==
  /\ "detach" \in Requests /\ Exists(o) /\ ~Locked(o) /\ cluster[k] # "gone" /\ Fault
  /\ \E i \in Attached(o, k) : joints' = [joints EXCEPT ![i].live = FALSE, ![i].res = 0]
  /\ UNCHANGED <<fed, spec, rowVars, remote, cluster, job, excused>>

\* ValidateDeleteCondition; of a namespace also that no joint row of an object
\* of that namespace exists.
ValidateDelete(j, o) ==
  /\ "delete" \in Requests /\ Exists(o) /\ ~Locked(o)
  /\ GetAttachedClusters(o) = {}
  /\ o = "ns" => ~(Exists("role") /\ \E k \in Clusters : Attached("role", k) # {})
  /\ Begin(j, "delete", o, job[j].cl, "delete")
  /\ UNCHANGED <<fed, spec, joints, rowVars, remote, cluster, faults, excused>>

DeleteFed(j) ==
  /\ job[j].pc = "delete"
  /\ fed' = [fed EXCEPT ![job[j].obj] = "deleted"]
  /\ End(j)
  /\ UNCHANGED <<spec, joints, rowVars, remote, cluster, faults, excused>>

-----------------------------------------------------------------------------
(* FedResourceSyncTask *)

SyncOnInit(j) ==
  /\ job[j].pc = "init"
  /\ SetFedStatus(job[j].obj, "syncing")
  /\ IF Exists(job[j].obj) THEN Goto(j, "list") ELSE End(j)
  /\ UNCHANGED <<spec, joints, rowVars, remote, cluster, faults, excused>>

SyncList(j) ==
  /\ job[j].pc = "list"
  /\ \/ /\ job' = [job EXCEPT ![j].todo = GetAttachedClusters(job[j].obj), ![j].pc = "loop"]
        /\ UNCHANGED <<faults, excused>>
     \/ Fault /\ Goto(j, "syncFail") /\ excused' = Clusters
  /\ UNCHANGED <<fed, spec, joints, rowVars, remote, cluster>>

SyncNext(j, k) ==
  /\ job[j].pc = "loop" /\ k \in job[j].todo
  /\ job' = [job EXCEPT ![j].todo = @ \ {k}, ![j].cl = k, ![j].pc = "load"]
  /\ UNCHANGED <<fed, spec, joints, rowVars, remote, cluster, faults, excused>>

\* OnSyncComplete: active whatever the single clusters answered.
OnSyncComplete(j) ==
  /\ job[j].pc = "loop" /\ job[j].todo = {}
  /\ SetFedStatus(job[j].obj, "active") /\ End(j)
  /\ UNCHANGED <<spec, joints, rowVars, remote, cluster, faults, excused>>

OnSyncCompleteFailed(j) ==
  /\ job[j].pc = "syncFail"
  /\ SetFedStatus(job[j].obj, "sync_fail") /\ End(j)
  /\ UNCHANGED <<spec, joints, rowVars, remote, cluster, faults, excused>>

-----------------------------------------------------------------------------
(* FedResourceAttachClusterTask *)

\* ensureFedNamespaceAttached: attach the namespace, synchronise it when its
\* row is missing, or go on.
EnsureFedNamespaceAttached(j) ==
  LET k == job[j].cl IN
  /\ job[j].pc = "ensure"
  /\ IF ~Exists("role") \/ ~Exists("ns") \/ cluster[k] = "gone"
     THEN Goto(j, "attachFail")
     ELSE IF Attached("ns", k) # {} /\ NsRows(k) # {}
     THEN Goto(j, "poll")
     ELSE job' = [job EXCEPT ![j].obj = "ns",
                             ![j].pc = IF Attached("ns", k) # {} THEN "load" ELSE "just"]
  /\ UNCHANGED <<fed, spec, joints, rowVars, remote, cluster, faults, excused>>

\* The loop of OnInit: five looks at the namespace's row, a second apart.
PollNamespace(j) ==
  LET found == NsRows(job[j].cl) IN
  /\ job[j].pc = "poll"
  /\ \/ found = {} /\ Goto(j, "attachFail")
     \/ (\E r \in found : rows[r].status = "active") /\ Goto(j, "valid")
     \/ (\E r \in found : rows[r].status # "active") /\ Goto(j, "attachFail")
  /\ UNCHANGED <<fed, spec, joints, rowVars, remote, cluster, faults, excused>>

\* PerformAttachCluster of the object itself: ValidateAttachCluster.
ValidateAttachCluster(j) ==
  LET k == job[j].cl IN
  /\ job[j].pc = "valid"
  /\ job' = [job EXCEPT ![j].obj = "role",
               ![j].pc = IF cluster[k] # "gone" /\ Attached("role", k) = {} /\ Exists("ns")
                         THEN "just" ELSE "attachFail"]
  /\ UNCHANGED <<fed, spec, joints, rowVars, remote, cluster, faults, excused>>

OnAttachCompleteFailed(j) ==
  /\ job[j].pc = "attachFail"
  /\ SetFedStatus("role", "update_fail") /\ End(j)
  /\ UNCHANGED <<spec, joints, rowVars, remote, cluster, faults, excused>>


-----------------------------------------------------------------------------
(* JustAttachCluster, PerformSyncCluster and ReconcileResource *)

\* What follows when PerformSyncCluster has returned to its caller.
Return(j, ok) ==
  /\ IF job[j].kind \in {"sync", "attachRole"} /\ ~(job[j].kind = "attachRole" /\ ok /\ job[j].obj = "role")
     THEN job' = [job EXCEPT ![j].copy = NoCopy, ![j].res = 0,
                    ![j].pc = IF job[j].kind = "sync" THEN "loop"
                              ELSE IF ok THEN "poll" ELSE "attachFail"]
     ELSE End(j)
  /\ excused' = IF ok THEN excused ELSE excused \cup {job[j].cl}

\* A mutant of JustAttachCluster: only the validation before has looked for a joint row.
JustAttachClusterUnchecked(j) ==
  LET o == job[j].obj IN LET k == job[j].cl IN
  /\ job[j].pc = "just"
  /\ job[j].kind = "attachRole" => ~Locked(o)
  /\ joints' = Append(joints, [obj |-> o, cl |-> k, res |-> 0, live |-> TRUE])
  /\ Goto(j, "load")
  /\ UNCHANGED <<fed, spec, rowVars, remote, cluster, faults, excused>>

\* JustAttachCluster: checked and inserted under the lock of the object, which
\* a request holds already and a task waits for.
JustAttachCluster(j) ==
  LET o == job[j].obj IN LET k == job[j].cl IN
  /\ job[j].pc = "just"
  /\ job[j].kind = "attachRole" => ~Locked(o)
  /\ IF cluster[k] = "gone" \/ Attached(o, k) # {}
     THEN Return(j, FALSE) /\ UNCHANGED joints
     ELSE /\ joints' = Append(joints, [obj |-> o, cl |-> k, res |-> 0, live |-> TRUE])
          /\ Goto(j, "load") /\ UNCHANGED excused
  /\ UNCHANGED <<fed, spec, rowVars, remote, cluster, faults>>

\* ValidateJointCluster loads the joint row.
ValidateJointCluster(j) ==
  LET found == Attached(job[j].obj, job[j].cl) IN
  /\ job[j].pc = "load"
  /\ IF cluster[job[j].cl] = "gone" \/ found = {}
     THEN Return(j, FALSE)
     ELSE /\ \E i \in found :
               job' = [job EXCEPT ![j].copy = [id |-> i, res |-> joints[i].res],
                                  ![j].pc = "exist"]
          /\ UNCHANGED excused
  /\ UNCHANGED <<fed, spec, joints, rowVars, remote, cluster, faults>>

\* IsResourceExist: by the id of the joint row, by name only when it has none.
IsResourceExist(j) ==
  LET o == job[j].obj
      k == job[j].cl
      id == job[j].copy.res
      found == IF id = 0 THEN ByName(o, k) ELSE ById(id, k)
  IN
  /\ job[j].pc = "exist"
  /\ IF id = 0 /\ ~(Exists(o) /\ HasNamespace(o, k))
     THEN Return(j, FALSE)
     ELSE /\ IF found = {} THEN Goto(j, "make")
             ELSE \E r \in found : job' = [job EXCEPT ![j].res = r, ![j].pc = "update"]
          /\ UNCHANGED excused
  /\ UNCHANGED <<fed, spec, joints, rowVars, remote, cluster, faults>>

\* createResource up to db.DoCreate, which checks under the class lock that the
\* remote namespace exists and that the name is free.
CanCreate(o, k) ==
  /\ Exists(o) /\ HasNamespace(o, k) /\ cluster[k] # "gone"
  /\ o = "role" => remote["ns"][k] # 0
  /\ ByName(o, k) = {}

NewRow(o, k, s) ==
  [obj |-> o, cl |-> k, status |-> s,
   ns |-> IF o = "ns" THEN 0 ELSE CHOOSE r \in NsRows(k) : TRUE]

CreateResource(j) ==
  LET o == job[j].obj IN LET k == job[j].cl IN
  /\ job[j].pc = "make"
  /\ \/ /\ CanCreate(o, k) /\ Len(rows) < MaxRows
        /\ rows' = Append(rows, NewRow(o, k, "init"))
        /\ job' = [job EXCEPT ![j].res = Len(rows) + 1, ![j].pc = "bind"]
        /\ UNCHANGED <<faults, excused>>
     \/ ~CanCreate(o, k) /\ Return(j, FALSE) /\ UNCHANGED <<rows, faults>>
     \/ Fault /\ Return(j, FALSE) /\ UNCHANGED rows
  /\ UNCHANGED <<fed, spec, joints, tasks, remote, cluster>>

\* SetResource updates the joint row through the loaded copy, unless it is gone.
SetResource(j) ==
  LET i == job[j].copy.id IN
  joints' = IF joints[i].live THEN [joints EXCEPT ![i].res = job[j].res] ELSE joints

StartTask(what, r) ==
  tasks' = Append(tasks, [type |-> what, row |-> r, spec |-> spec, pc |-> "init"])

\* The end of createResource: PostCreate starts ClusterResourceCreateTask.
BindCreated(j) ==
  /\ job[j].pc = "bind"
  /\ SetResource(j) /\ StartTask("create", job[j].res) /\ Return(j, TRUE)
  /\ UNCHANGED <<fed, spec, rows, remote, cluster, faults>>

\* A mutant of UpdateResource: the row is bound but no update task started.
UpdateResourceNoTask(j) ==
  /\ job[j].pc = "update"
  /\ SetResource(j)
  /\ Return(j, Exists(job[j].obj))
  /\ UNCHANGED <<fed, spec, rowVars, remote, cluster, faults>>

\* updateResource: PostUpdate starts ClusterResourceUpdateTask with the template
\* as it is now.
UpdateResource(j) ==
  /\ job[j].pc = "update"
  /\ SetResource(j)
  /\ IF Exists(job[j].obj)
     THEN StartTask("update", job[j].res) /\ Return(j, TRUE)
     ELSE Return(j, FALSE) /\ UNCHANGED tasks
  /\ UNCHANGED <<fed, spec, rows, remote, cluster, faults>>


-----------------------------------------------------------------------------
(* Tasks of one row *)

Step(t, p) ==
  tasks' = IF p = "done" THEN RemoveAt(tasks, t) ELSE [tasks EXCEPT ![t].pc = p]

SetRowStatus(r, s) == rows' = IF Live(r) THEN [rows EXCEPT ![r].status = s] ELSE rows

\* OnInit; a task whose row has gone ends as failed.
TaskOnInit(t) ==
  LET r == tasks[t].row IN
  /\ tasks[t].pc = "init"
  /\ SetRowStatus(r, Working[tasks[t].type])
  /\ Step(t, IF Live(r) THEN "call" ELSE "done")
  /\ excused' = IF Live(r) THEN excused ELSE excused \cup {rows[r].cl}
  /\ UNCHANGED <<fed, spec, joints, remote, cluster, job, faults>>

\* The namespace's row a namespaced row points at.
NamespaceOf(r) == rows[r].obj = "role" => Live(rows[r].ns)

TaskCallFails(t) ==
  /\ Fault /\ tasks[t].pc \in {"call", "write"}
  /\ Step(t, "fail") /\ excused' = excused \cup {rows[tasks[t].row].cl}
  /\ UNCHANGED <<fed, spec, joints, rows, remote, cluster, job>>

\* CreateRemoteObject up to the API call.
CreateRemoteObject(t) ==
  LET r == tasks[t].row IN LET o == rows[r].obj IN LET k == rows[r].cl IN
  /\ tasks[t].type = "create" /\ tasks[t].pc = "call"
  /\ IF remote[o][k] = 0 /\ (o = "role" => remote["ns"][k] # 0)
     THEN /\ remote' = [remote EXCEPT ![o][k] = tasks[t].spec]
          /\ Step(t, "write") /\ UNCHANGED excused
     ELSE Step(t, "fail") /\ excused' = excused \cup {k} /\ UNCHANGED remote
  /\ UNCHANGED <<fed, spec, joints, rows, cluster, job, faults>>

\* UpdateRemoteObject up to the API call: a task may overtake a newer one.
UpdateRemoteObject(t) ==
  LET r == tasks[t].row IN LET o == rows[r].obj IN LET k == rows[r].cl IN
  /\ tasks[t].type = "update" /\ tasks[t].pc = "call"
  /\ IF remote[o][k] # 0 /\ NamespaceOf(r)
     THEN /\ remote' = IF o = "role" THEN [remote EXCEPT ![o][k] = tasks[t].spec] ELSE remote
          /\ excused' = IF o = "role" /\ tasks[t].spec < remote[o][k]
                        THEN excused \cup {k} ELSE excused
          /\ Step(t, "write")
     ELSE Step(t, "fail") /\ excused' = excused \cup {k} /\ UNCHANGED remote
  /\ UNCHANGED <<fed, spec, joints, rows, cluster, job, faults>>

\* UpdateFromRemoteObject writes the answer into the row; a namespaced object
\* must find the row of its namespace.
WriteBack(t) ==
  LET r == tasks[t].row IN
  /\ tasks[t].pc = "write"
  /\ IF rows[r].obj = "role" /\ NsRows(rows[r].cl) = {}
     THEN /\ Step(t, "fail") /\ excused' = excused \cup {rows[r].cl} /\ UNCHANGED rows
     ELSE /\ SetRowStatus(r, "active")
          /\ Step(t, IF tasks[t].type = "create" THEN "syncInit" ELSE "done")
          /\ UNCHANGED excused
  /\ UNCHANGED <<fed, spec, joints, remote, cluster, job, faults>>

\* DeleteRemoteObject: an object that is not found counts as deleted.
DeleteRemoteObject(t) ==
  LET r == tasks[t].row IN LET o == rows[r].obj IN LET k == rows[r].cl IN
  /\ tasks[t].type = "delete" /\ tasks[t].pc = "call"
  /\ IF NamespaceOf(r)
     THEN /\ remote' = [p \in Objs |-> IF p = o \/ o = "ns" THEN [remote[p] EXCEPT ![k] = 0]
                                       ELSE remote[p]]
          /\ Step(t, "real")
     ELSE Step(t, "fail") /\ UNCHANGED remote
  /\ UNCHANGED <<fed, spec, joints, rows, cluster, job, faults, excused>>

OnDeleteComplete(t) ==
  /\ tasks[t].pc = "real"
  /\ SetRowStatus(tasks[t].row, "gone") /\ Step(t, "done")
  /\ UNCHANGED <<fed, spec, joints, remote, cluster, job, faults, excused>>

\* A mutant of OnTaskFailed: the task ends and leaves the status.
OnTaskFailedKeepsStatus(t) ==
  /\ tasks[t].pc = "fail"
  /\ Step(t, "done")
  /\ UNCHANGED <<fed, spec, joints, rows, remote, cluster, job, faults, excused>>

\* SetObjectTaskFailed of the three tasks.
OnTaskFailed(t) ==
  /\ tasks[t].pc = "fail"
  /\ SetRowStatus(tasks[t].row, Failed[tasks[t].type]) /\ Step(t, "done")
  /\ UNCHANGED <<fed, spec, joints, remote, cluster, job, faults, excused>>

\* OnCreateComplete starts ClusterResourceSyncTask.
RowSyncOnInit(t) ==
  LET r == tasks[t].row IN
  /\ tasks[t].pc = "syncInit"
  /\ SetRowStatus(r, "syncing") /\ Step(t, IF Live(r) THEN "syncCall" ELSE "done")
  /\ UNCHANGED <<fed, spec, joints, remote, cluster, job, faults, excused>>

PerformSyncResource(t) ==
  LET r == tasks[t].row IN LET o == rows[r].obj IN LET k == rows[r].cl IN
  /\ tasks[t].pc = "syncCall"
  /\ \/ /\ remote[o][k] # 0 /\ NamespaceOf(r)
        /\ SetRowStatus(r, "active") /\ Step(t, "done") /\ UNCHANGED faults
     \/ /\ ~(remote[o][k] # 0 /\ NamespaceOf(r))
        /\ Step(t, "syncFail") /\ UNCHANGED <<rows, faults>>
     \/ Fault /\ Step(t, "syncFail") /\ UNCHANGED rows
  /\ UNCHANGED <<fed, spec, joints, remote, cluster, job, excused>>

OnRowSyncFailed(t) ==
  /\ tasks[t].pc = "syncFail"
  /\ SetRowStatus(tasks[t].row, "sync_fail") /\ Step(t, "done")
  /\ UNCHANGED <<fed, spec, joints, remote, cluster, job, faults, excused>>

-----------------------------------------------------------------------------
(* Rows follow the cluster (ResourceSync), users and clusters come and go *)

\* onRemoteObjectCreate, or a synchronisation: a remote object without a row.
InsertRow(o, k) ==
  /\ remote[o][k] # 0 /\ cluster[k] = "up" /\ Len(rows) < MaxRows
  /\ ByName(o, k) = {} /\ (o = "role" => NsRows(k) # {})
  /\ rows' = Append(rows, NewRow(o, k, "active"))
  /\ UNCHANGED <<fed, spec, joints, remote, cluster, job, tasks, faults, excused>>

\* SyncRemovedClusterResource: a row without remote object, unless it failed.
RemoveRow(r) ==
  /\ Live(r) /\ remote[rows[r].obj][rows[r].cl] = 0
  /\ rows[r].status \notin FailStatus
  /\ Fault
  /\ rows' = [rows EXCEPT ![r].status = "gone"]
  /\ UNCHANGED <<fed, spec, joints, remote, cluster, job, tasks, excused>>

\* PostDelete of a row.
DeleteRow(r) ==
  /\ "deleteRow" \in Requests /\ Live(r) /\ Fault
  /\ StartTask("delete", r)
  /\ excused' = excused \cup {rows[r].cl}
  /\ UNCHANGED <<fed, spec, joints, rows, remote, cluster, job>>

\* A task is under way that will create the role in a cluster.
Creating(k) == \E t \in DOMAIN tasks :
  /\ tasks[t].type = "create" /\ tasks[t].pc \in {"init", "call"}
  /\ rows[tasks[t].row].obj = "role" /\ rows[tasks[t].row].cl = k

\* Others change the cluster; a deleted namespace takes its objects along.  An
\* object deleted under a task that creates it comes back as that task knows it.
OthersDelete(o, k) ==
  /\ Fault /\ remote[o][k] # 0
  /\ remote' = [p \in Objs |-> IF p = o \/ o = "ns" THEN [remote[p] EXCEPT ![k] = 0]
                               ELSE remote[p]]
  /\ excused' = IF Creating(k) THEN excused \cup {k} ELSE excused
  /\ UNCHANGED <<fed, spec, joints, rows, cluster, job, tasks>>

OthersCreate(o, k) ==
  /\ Fault /\ remote[o][k] = 0 /\ (o = "role" => remote["ns"][k] # 0)
  /\ remote' = [remote EXCEPT ![o][k] = MaxSpec + 1]
  /\ excused' = excused \cup {k}
  /\ UNCHANGED <<fed, spec, joints, rows, cluster, job, tasks>>

\* PurgeAllByCluster of the rows' managers and of the federated managers.
PurgeRows(k) ==
  rows' = [r \in DOMAIN rows |->
             IF rows[r].cl = k THEN [rows[r] EXCEPT !.status = "gone"] ELSE rows[r]]

PurgeJoints(k) ==
  joints' = [i \in DOMAIN joints |->
               IF joints[i].cl = k THEN [joints[i] EXCEPT !.live = FALSE, !.res = 0]
                                   ELSE joints[i]]

\* SCluster.RealDelete: both, then the cluster's row.
PurgeCluster(k) ==
  /\ "purgeCluster" \in Requests /\ cluster[k] = "up" /\ Fault
  /\ cluster' = [cluster EXCEPT ![k] = "purged"]
  /\ PurgeRows(k) /\ PurgeJoints(k)
  /\ UNCHANGED <<fed, spec, remote, job, tasks, excused>>

RemoveCluster(k) ==
  /\ cluster[k] = "purged"
  /\ cluster' = [cluster EXCEPT ![k] = "gone"]
  /\ UNCHANGED <<fed, spec, joints, rowVars, remote, job, faults, excused>>

\* PerformGC: rows of clusters and of namespaces that have gone.
PerformGC(r) ==
  /\ Live(r)
  /\ \/ cluster[rows[r].cl] = "gone"
     \/ rows[r].obj = "role" /\ ~Live(rows[r].ns)
  /\ rows' = [rows EXCEPT ![r].status = "gone"]
  /\ UNCHANGED <<fed, spec, joints, remote, cluster, job, tasks, faults, excused>>

-----------------------------------------------------------------------------

Request(j) ==
  \/ UpdateFed(j)
  \/ \E o \in Objs : PerformSync(j, o) \/ ValidateDelete(j, o)
  \/ \E o \in Objs, k \in Clusters : PerformSyncCluster(j, o, k)
  \/ \E k \in Clusters : AttachNs(j, k) \/ AttachRole(j, k)

JobStep(j) ==
  \/ DeleteFed(j)
  \/ SyncOnInit(j) \/ SyncList(j) \/ OnSyncComplete(j) \/ OnSyncCompleteFailed(j)
  \/ \E k \in Clusters : SyncNext(j, k)
  \/ EnsureFedNamespaceAttached(j) \/ PollNamespace(j) \/ ValidateAttachCluster(j)
  \/ OnAttachCompleteFailed(j)
  \/ JustAttachCluster(j) \/ ValidateJointCluster(j) \/ IsResourceExist(j)
  \/ CreateResource(j) \/ BindCreated(j) \/ UpdateResource(j)

TaskStep(t) ==
  \/ TaskOnInit(t) \/ TaskCallFails(t)
  \/ CreateRemoteObject(t) \/ UpdateRemoteObject(t) \/ DeleteRemoteObject(t)
  \/ WriteBack(t) \/ OnDeleteComplete(t) \/ OnTaskFailed(t)
  \/ RowSyncOnInit(t) \/ PerformSyncResource(t) \/ OnRowSyncFailed(t)

Environment ==
  \/ \E o \in Objs : CreateFed(o)
  \/ \E o \in Objs, k \in Clusters :
       DetachCluster(o, k) \/ InsertRow(o, k) \/ OthersDelete(o, k) \/ OthersCreate(o, k)
  \/ \E r \in DOMAIN rows : RemoveRow(r) \/ DeleteRow(r) \/ PerformGC(r)
  \/ \E k \in Clusters : PurgeCluster(k) \/ RemoveCluster(k)

Next ==
  \/ \E j \in Jobs : Request(j) \/ JobStep(j)
  \/ \E t \in DOMAIN tasks : TaskStep(t)
  \/ Environment

Spec == Init /\ [][Next]_vars

-----------------------------------------------------------------------------
(* Properties *)

\* An object is attached to a cluster once, whichever requests and attach tasks
\* overlap (JustAttachCluster): GetFederatedJointClusterModel takes any joint
\* row, so a second one would survive a detach.
AttachedOnce ==
  \A a, b \in DOMAIN joints :
    (joints[a].live /\ joints[b].live /\ joints[a].obj = joints[b].obj
       /\ joints[a].cl = joints[b].cl) => a = b

\* A cluster never has two rows of one name, although reconciling looks the
\* row up long before it inserts one and the synchronisation inserts rows too.
OneRowPerName ==
  \A a, b \in DOMAIN rows :
    (Live(a) /\ Live(b) /\ rows[a].obj = rows[b].obj /\ rows[a].cl = rows[b].cl
       /\ rows[a].ns = rows[b].ns) => a = b

\* An object is attached to a cluster once and has one row there: the existence
\* checks of fed_api.go hold against requests and tasks that overlap.
AttachedUniquely == AttachedOnce /\ OneRowPerName

\* The tasks that will still write the status of a row.
Pending(r) == {t \in DOMAIN tasks : tasks[t].row = r}

\* A transitional status has a task that will leave it, whichever tasks of the
\* row overlap and fail, and a row that was just inserted gets its create task.
TransitionHasTask ==
  /\ \A r \in DOMAIN rows :
       /\ rows[r].status \in Transitional => \E t \in Pending(r) : tasks[t].pc # "init"
       /\ rows[r].status = "init" =>
            Pending(r) # {} \/ \E j \in Jobs : job[j].pc = "bind" /\ job[j].res = r
  /\ \A o \in Objs : fed[o] = "syncing" =>
       \E j \in Jobs : job[j].kind = "sync" /\ job[j].obj = o /\ job[j].pc \notin {"idle", "init", "done"}

Quiet == (\A j \in Jobs : job[j].pc \in {"idle", "done"}) /\ tasks = <<>>

\* When everything has ended, an attached cluster has the current template of
\* the role, unless some step reported an error, the row or object was changed
\* by others, or an update overtook a newer one.
DriftExplained ==
  \A k \in Clusters :
    (Quiet /\ Exists("role") /\ Attached("role", k) # {} /\ k \notin excused
       /\ cluster[k] = "up" /\ remote["role"][k] # 0) => remote["role"][k] = spec
====
