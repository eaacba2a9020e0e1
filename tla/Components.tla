---- MODULE Components ----
(***************************************************************************)
(* Components of a cluster (pkg/models/components.go, component_base.go,   *)
(* components_*.go, clusters.go and pkg/tasks/component_*_task.go): one    *)
(* type of component of one cluster, what of it is deployed in the cluster *)
(* and the tasks that deploy, update, undeploy and delete it.              *)
(*                                                                         *)
(* A component is reached through its cluster, under the cluster's lock,   *)
(* or by its own id, under its own lock; either way a request works on a   *)
(* copy that was loaded before.  A stage of a task holds the component's   *)
(* lock; the closures that deploy and update hold none.                    *)
(***************************************************************************)
EXTENDS Naturals, SequencesExt

CONSTANTS
  Drivers,          \* how the type is deployed: "helm" (monitor, fluentbit), "kubectl" (ceph csi)
  MaxComponents,    \* bounds the component rows ever inserted
  MaxSettings,      \* bounds the versions of the settings
  MaxCalls,         \* bounds the requests
  MaxBreaks         \* bounds failing calls and deletions of a row by its id

ASSUME ComponentsAssumption ==
  /\ Drivers \subseteq {"helm", "kubectl"} /\ Drivers # {}
  /\ MaxComponents \in Nat /\ MaxCalls \in Nat /\ MaxBreaks \in Nat
  /\ MaxSettings \in Nat \ {0}

VARIABLES
  driver,    \* the driver of the type
  comps,     \* component rows ever inserted
  dep,       \* what is deployed: version of the settings (0: nothing), complete or not
  req,       \* the request that holds, or is about to take, each kind of lock
  tasks,     \* tasks under way
  calls, breaks,
  overlap,   \* history: a request was accepted while a task of the row was under way
  dropped    \* history: a row was deleted without undeploying

vars == <<driver, comps, dep, req, tasks, calls, breaks, overlap, dropped>>

Status == {"init", "deploying", "deployed", "deploy_fail", "updating", "update_fail",
           "undeploying", "undeploy_fail", "deleting", "delete_fail"}
Changing == {"deploying", "updating", "undeploying", "deleting"}
Locks == {"cluster", "component"}
Kinds == {"enable", "disable", "delete", "update", "insert", "none"}
TaskTypes == {"deploy", "update", "undeploy", "delete"}
TaskStages == {"init", "undeploy", "call", "apply", "complete", "failed"}

Copy == [status : Status, enabled : BOOLEAN, setting : 1..MaxSettings]
NoCopy == [status |-> "init", enabled |-> FALSE, setting |-> 1]
Nothing == [ver |-> 0, ok |-> FALSE]
NoRequest == [kind |-> "none", row |-> 0, copy |-> NoCopy]

TypeOK ==
  /\ driver \in Drivers
  /\ comps \in Seq([joint : BOOLEAN, live : BOOLEAN, copy : Copy])
  /\ Len(comps) <= MaxComponents
  /\ dep \in [ver : 0..MaxSettings, ok : BOOLEAN]
  /\ req \in [Locks -> [kind : Kinds, row : 0..MaxComponents, copy : Copy]]
  /\ tasks \in Seq([type : TaskTypes, row : 1..MaxComponents, stage : TaskStages, copy : Copy])
  /\ calls \in 0..MaxCalls /\ breaks \in 0..MaxBreaks
  /\ overlap \in BOOLEAN /\ dropped \in BOOLEAN

Init ==
  /\ driver \in Drivers
  /\ comps = <<>> /\ dep = Nothing
  /\ req = [l \in Locks |-> NoRequest]
  /\ tasks = <<>>
  /\ calls = 0 /\ breaks = 0
  /\ overlap = FALSE /\ dropped = FALSE

history == <<overlap, dropped>>

-----------------------------------------------------------------------------
(* Rows *)

\* GetComponents: joint rows whose component is still there.
OfCluster == {c \in DOMAIN comps : comps[c].live /\ comps[c].joint}

\* Columns of a row that is still there.
SetColumns(c, new) == comps' = IF comps[c].live THEN [comps EXCEPT ![c].copy = new] ELSE comps

Busy(c) == \E t \in DOMAIN tasks : tasks[t].row = c

\* The stage of an undeploy task calls the cluster while it holds the lock.
ComponentLocked(c) ==
  \E t \in DOMAIN tasks : tasks[t].row = c /\ tasks[t].type \in {"undeploy", "delete"}
                                           /\ tasks[t].stage = "call"

NewTask(type, c) ==
  tasks' = Append(tasks, [type |-> type, row |-> c, stage |-> "init", copy |-> NoCopy])

Break == breaks < MaxBreaks /\ breaks' = breaks + 1

-----------------------------------------------------------------------------
(* Requests *)

Load(l, kind, c) ==
  /\ req[l].kind = "none" /\ calls < MaxCalls
  /\ calls' = calls + 1
  /\ req' = [req EXCEPT ![l] = [kind |-> kind, row |-> c, copy |-> comps[c].copy]]
  /\ UNCHANGED <<driver, comps, dep, tasks, breaks, history>>

\* EnableComponent, PerformDisableComponent, PerformDeleteComponent and
\* PerformUpdateComponent look the component up by its type.
GetComponentByType(kind) == \E c \in OfCluster : Load("cluster", kind, c)

\* PerformEnable and PerformDisable of the component's own resource.
FetchById(kind) ==
  /\ kind \in {"enable", "disable"}
  /\ \E c \in DOMAIN comps : comps[c].live /\ Load("component", kind, c)

\* EnableComponent of a type the cluster does not have: CreateByCluster inserts
\* the row ...
CreateByCluster ==
  /\ req["cluster"].kind = "none" /\ calls < MaxCalls
  /\ OfCluster = {} /\ Len(comps) < MaxComponents
  /\ calls' = calls + 1
  /\ comps' = Append(comps, [joint |-> FALSE, live |-> TRUE, copy |-> NoCopy])
  /\ req' = [req EXCEPT !["cluster"] =
               [kind |-> "insert", row |-> Len(comps) + 1, copy |-> NoCopy]]
  /\ UNCHANGED <<driver, dep, tasks, breaks, history>>

\* ... then the joint row, which may fail, and deploys.
SaveJoint ==
  LET c == req["cluster"].row IN
  /\ req["cluster"].kind = "insert"
  /\ req' = [req EXCEPT !["cluster"] = NoRequest]
  /\ \/ /\ comps' = [comps EXCEPT ![c].joint = TRUE,
                       ![c].copy = IF comps[c].live
                                   THEN [@ EXCEPT !.enabled = TRUE, !.status = "deploying"]
                                   ELSE @]
        /\ NewTask("deploy", c) /\ overlap' = (overlap \/ Busy(c))
        /\ UNCHANGED breaks
     \/ Break /\ UNCHANGED <<comps, tasks, overlap>>
  /\ UNCHANGED <<driver, dep, calls, dropped>>

\* A request acts on its copy; a status the copy has already is not written.
Accept(l, type, new) ==
  LET r == req[l] IN
  /\ SetColumns(r.row,
       [status |-> IF new.status = r.copy.status THEN comps[r.row].copy.status ELSE new.status,
        enabled |-> IF new.enabled = r.copy.enabled THEN comps[r.row].copy.enabled ELSE new.enabled,
        setting |-> IF new.setting = r.copy.setting THEN comps[r.row].copy.setting ELSE new.setting])
  /\ NewTask(type, r.row)
  /\ overlap' = (overlap \/ Busy(r.row))
  /\ req' = [req EXCEPT ![l] = NoRequest]
  /\ UNCHANGED <<driver, dep, calls, breaks, dropped>>

Ready(l, kind) == req[l].kind = kind /\ (l = "component" => ~ComponentLocked(req[l].row))

DoEnable(l) ==
  /\ Ready(l, "enable")
  /\ ~req[l].copy.enabled /\ req[l].copy.status # "deleting"
  /\ Accept(l, "deploy", [req[l].copy EXCEPT !.enabled = TRUE, !.status = "deploying"])

DoDisable(l) ==
  /\ Ready(l, "disable")
  /\ Accept(l, "undeploy", [req[l].copy EXCEPT !.status = "undeploying"])

DoDelete(l) ==
  /\ Ready(l, "delete")
  /\ Accept(l, "delete", [req[l].copy EXCEPT !.enabled = FALSE, !.status = "deleting"])

\* ValidateUpdateData has passed; the settings are new ones.
DoUpdate(l) ==
  /\ Ready(l, "update")
  /\ req[l].copy.enabled /\ req[l].copy.status \in {"deployed", "update_fail"}
  /\ req[l].copy.setting < MaxSettings
  /\ Accept(l, "update", [req[l].copy EXCEPT !.setting = @ + 1, !.status = "updating"])

Refuse(l) ==
  LET copy == req[l].copy IN
  /\ \/ Ready(l, "enable") /\ (copy.enabled \/ copy.status = "deleting")
     \/ Ready(l, "update") /\ ~(copy.enabled /\ copy.status \in {"deployed", "update_fail"})
     \/ Ready(l, "update") /\ copy.setting = MaxSettings
  /\ req' = [req EXCEPT ![l] = NoRequest]
  /\ UNCHANGED <<driver, comps, dep, tasks, calls, breaks, history>>

\* DELETE of the component's own resource: the row goes, the joint row stays.
DeleteById(c) ==
  /\ comps[c].live /\ ~ComponentLocked(c) /\ Break
  /\ comps' = [comps EXCEPT ![c].live = FALSE]
  /\ dropped' = TRUE
  /\ UNCHANGED <<driver, dep, req, tasks, calls, overlap>>

\* DeleteAllComponents of a cluster that is being deleted: it stops at a joint
\* row whose component has gone.
DeleteAllComponents ==
  /\ req["cluster"].kind = "none" /\ calls < MaxCalls
  /\ \E c \in DOMAIN comps : comps[c].joint
  /\ \A c \in DOMAIN comps : comps[c].joint => comps[c].live
  /\ calls' = calls + 1
  /\ comps' = [c \in DOMAIN comps |-> IF comps[c].joint
                 THEN [comps[c] EXCEPT !.joint = FALSE, !.live = FALSE] ELSE comps[c]]
  /\ dropped' = TRUE
  /\ UNCHANGED <<driver, dep, req, tasks, breaks, overlap>>

-----------------------------------------------------------------------------
(* What the drivers do to the cluster.  Each gives the possible results of *)
(* a call as pairs of what is deployed then and whether the call succeeds. *)

Result(d, ok) == [dep |-> d, ok |-> ok]

\* HelmInstall, atomic and replacing: a release in use keeps its name.
HelmInstall(s) ==
  IF dep.ok THEN {Result(dep, FALSE)} ELSE {Result([ver |-> s, ok |-> TRUE], TRUE)}

HelmInstallBroken == IF dep.ok THEN {Result(dep, FALSE)}
                     ELSE {Result(dep, FALSE), Result(Nothing, FALSE)}

\* HelmUpdate: an upgrade needs a release and leaves a failed revision.
HelmUpdate(s) ==
  IF dep.ver = 0 THEN {Result(dep, FALSE)} ELSE {Result([ver |-> s, ok |-> TRUE], TRUE)}

HelmUpdateBroken(s) ==
  IF dep.ver = 0 THEN {Result(dep, FALSE)}
  ELSE {Result(dep, FALSE), Result([ver |-> s, ok |-> FALSE], FALSE)}

\* DeleteHelmResource: "release: not found" is no error.
HelmUninstall == {Result(Nothing, TRUE)}

\* KubectlApply, and one that stops half-way.
KubectlApply(s) == {Result([ver |-> s, ok |-> TRUE], TRUE)}

KubectlApplyBroken(s) == {Result(dep, FALSE), Result([ver |-> s, ok |-> FALSE], FALSE)}

\* KubectlDelete: kubectlManifestCmd drops --ignore-not-found, so that deleting
\* fails unless every object is there; what is there goes.
KubectlDelete == {Result(Nothing, dep.ok)}

KubectlDeleteBroken == {Result(dep, FALSE)} \cup
  (IF dep.ver = 0 THEN {} ELSE {Result([dep EXCEPT !.ok = FALSE], FALSE)})

\* The call of a task of that type; DoUpdate of the kubectl driver deletes first.
Call(type, s) ==
  CASE driver = "helm" /\ type = "deploy" -> HelmInstall(s)
    [] driver = "helm" /\ type = "update" -> HelmUpdate(s)
    [] driver = "helm" /\ type \in {"undeploy", "delete"} -> HelmUninstall
    [] driver = "kubectl" /\ type = "deploy" -> KubectlApply(s)
    [] OTHER -> KubectlDelete

CallBroken(type, s) ==
  CASE driver = "helm" /\ type = "deploy" -> HelmInstallBroken
    [] driver = "helm" /\ type = "update" -> HelmUpdateBroken(s)
    [] driver = "helm" /\ type \in {"undeploy", "delete"} -> {Result(dep, FALSE)}
    [] driver = "kubectl" /\ type = "deploy" -> KubectlApplyBroken(s)
    [] OTHER -> KubectlDeleteBroken

-----------------------------------------------------------------------------
(* Tasks *)

Stage(t, s) == tasks' = [tasks EXCEPT ![t].stage = s]
EndTask(t) == tasks' = RemoveAt(tasks, t)

\* ComponentDeleteTask.OnInit starts the undeploy task, which overwrites deleting.
DeleteOnInit(t) ==
  LET c == tasks[t].row IN
  /\ tasks[t].type = "delete" /\ tasks[t].stage = "init" /\ ~ComponentLocked(c)
  /\ SetColumns(c, [comps[c].copy EXCEPT !.status = "undeploying"])
  /\ IF comps[c].live THEN Stage(t, "undeploy") ELSE EndTask(t)
  /\ UNCHANGED <<driver, dep, req, calls, breaks, history>>

\* OnInit of the others: the component is loaded, its cluster looked up.
OnInit(t) ==
  LET c == tasks[t].row IN
  /\ ~ComponentLocked(c)
  /\ tasks[t].stage = IF tasks[t].type = "delete" THEN "undeploy" ELSE "init"
  /\ IF ~comps[c].live THEN EndTask(t)
     ELSE IF ~comps[c].joint THEN Stage(t, "failed")
     ELSE tasks' = [tasks EXCEPT ![t].stage = "call", ![t].copy = comps[c].copy]
  /\ UNCHANGED <<driver, comps, dep, req, calls, breaks, history>>

\* DoEnable, DoUpdate and DoDisable of the driver, with the settings loaded.
CallDriver(t) ==
  LET k == tasks[t] IN
  /\ k.stage = "call"
  /\ \E r \in Call(k.type, k.copy.setting) :
       /\ dep' = r.dep
       /\ Stage(t, IF ~r.ok THEN "failed"
                   ELSE IF k.type = "update" /\ driver = "kubectl" THEN "apply" ELSE "complete")
  /\ UNCHANGED <<driver, comps, req, calls, breaks, history>>

CallFails(t) ==
  /\ tasks[t].stage = "call" /\ Break
  /\ \E r \in CallBroken(tasks[t].type, tasks[t].copy.setting) : dep' = r.dep
  /\ Stage(t, "failed")
  /\ UNCHANGED <<driver, comps, req, calls, history>>

\* The second half of the kubectl driver's DoUpdate.
ApplyAgain(t) ==
  /\ tasks[t].stage = "apply"
  /\ \/ /\ \E r \in KubectlApply(tasks[t].copy.setting) : dep' = r.dep
        /\ Stage(t, "complete") /\ UNCHANGED breaks
     \/ /\ Break /\ \E r \in KubectlApplyBroken(tasks[t].copy.setting) : dep' = r.dep
        /\ Stage(t, "failed")
  /\ UNCHANGED <<driver, comps, req, calls, history>>

\* OnDeployComplete and OnUpdateComplete.
OnComplete(t) ==
  LET c == tasks[t].row IN
  /\ tasks[t].type \in {"deploy", "update"} /\ tasks[t].stage = "complete"
  /\ ~ComponentLocked(c)
  /\ SetColumns(c, [comps[c].copy EXCEPT !.status = "deployed"])
  /\ EndTask(t)
  /\ UNCHANGED <<driver, dep, req, calls, breaks, history>>

\* The end of ComponentUndeployTask.OnInit: enabled is written if the copy had it.
UndeployComplete(t) ==
  LET c == tasks[t].row IN
  /\ tasks[t].type = "undeploy" /\ tasks[t].stage = "complete"
  /\ SetColumns(c, [comps[c].copy EXCEPT !.status = "init",
                      !.enabled = IF tasks[t].copy.enabled THEN FALSE ELSE @])
  /\ EndTask(t)
  /\ UNCHANGED <<driver, dep, req, calls, breaks, history>>

\* ComponentDeleteTask.OnUndeployComplete: DeleteWithJoint.
OnUndeployComplete(t) ==
  /\ tasks[t].type = "delete" /\ tasks[t].stage = "complete"
  /\ ~ComponentLocked(tasks[t].row)
  /\ comps' = [comps EXCEPT ![tasks[t].row] = [@ EXCEPT !.joint = FALSE, !.live = FALSE]]
  /\ EndTask(t)
  /\ UNCHANGED <<driver, dep, req, calls, breaks, history>>

FailStatus == [deploy |-> "deploy_fail", update |-> "update_fail",
               undeploy |-> "undeploy_fail", delete |-> "delete_fail"]

\* Mutant: the status is left as it is.
OnErrorKeepsStatus(t) ==
  /\ tasks[t].stage = "failed" /\ ~ComponentLocked(tasks[t].row)
  /\ EndTask(t)
  /\ UNCHANGED <<driver, comps, dep, req, calls, breaks, history>>

\* onError of the four tasks.
OnError(t) ==
  LET c == tasks[t].row IN
  /\ tasks[t].stage = "failed" /\ ~ComponentLocked(c)
  /\ SetColumns(c, [comps[c].copy EXCEPT !.status = FailStatus[tasks[t].type]])
  /\ EndTask(t)
  /\ UNCHANGED <<driver, dep, req, calls, breaks, history>>

-----------------------------------------------------------------------------

Next ==
  \/ \E kind \in Kinds \ {"insert", "none"} : GetComponentByType(kind) \/ FetchById(kind)
  \/ CreateByCluster \/ SaveJoint \/ DeleteAllComponents
  \/ \E l \in Locks : DoEnable(l) \/ DoDisable(l) \/ DoDelete(l) \/ DoUpdate(l) \/ Refuse(l)
  \/ \E c \in DOMAIN comps : DeleteById(c)
  \/ \E t \in DOMAIN tasks :
       \/ DeleteOnInit(t) \/ OnInit(t) \/ CallDriver(t) \/ CallFails(t) \/ ApplyAgain(t)
       \/ OnComplete(t) \/ UndeployComplete(t) \/ OnUndeployComplete(t) \/ OnError(t)

Spec == Init /\ [][Next]_vars

-----------------------------------------------------------------------------
(* Properties *)

\* A row that says deploying, updating, undeploying or deleting has a task that
\* will say otherwise, whichever requests and tasks overlap and fail.
ChangingHasTask ==
  \A c \in DOMAIN comps :
    (comps[c].live /\ comps[c].copy.status \in Changing) => Busy(c)

Idle == tasks = <<>> /\ \A l \in Locks : req[l].kind = "none"

\* When requests waited for one another, a component that says deployed has
\* its settings deployed, one that says init has nothing left in the cluster,
\* and without a component nothing is deployed, after any failures and retries.
StatusIsTrue ==
  (Idle /\ ~overlap /\ ~dropped) =>
    /\ \A c \in OfCluster :
         /\ comps[c].copy.status = "deployed" =>
              comps[c].copy.enabled /\ dep = [ver |-> comps[c].copy.setting, ok |-> TRUE]
         /\ comps[c].copy.status = "init" => ~comps[c].copy.enabled /\ dep = Nothing
    /\ OfCluster = {} => dep = Nothing
====
