---------------------------- MODULE WorkloadViews ----------------------------
(***************************************************************************)
(* What the service computes from workloads (deployments, stateful sets,   *)
(* daemon sets, jobs) and services, and what it writes when one is created *)
(* or updated: pure functions translated from pkg/models/helper.go,        *)
(* deployment.go, statefulsets.go, daemonsets.go, jobs.go, cronjobs.go,    *)
(* services.go and pkg/k8s/common/getters/getters.go.                      *)
(*                                                                         *)
(* Nil is an absent optional number.  A workload w has w.uid, w.desired    *)
(* (spec.replicas), w.generation and the numbers of its status; a pod or a *)
(* replica set x has x.uid, x.controller (the uid of its controller) and   *)
(* x.labels.                                                               *)
(***************************************************************************)
EXTENDS Integers, Sequences, FiniteSets, FiniteSetsExt, SequencesExt

CONSTANT Nil

-----------------------------------------------------------------------------
(* The pods of a workload and their summary. *)

FilterPodsByControllerRef(uid, pods) == {p \in pods : p.controller = uid}

Matches(selector, labels) ==
  \A k \in DOMAIN selector : k \in DOMAIN labels /\ labels[k] = selector[k]

\* Replica sets are listed by the deployment's selector, then kept when the
\* deployment controls them; their pods need no label.
DeploymentPods(d, rss, pods) ==
  UNION {FilterPodsByControllerRef(rs.uid, pods) :
           rs \in {x \in rss : Matches(d.selector, x.labels) /\ x.controller = d.uid}}

\* Jobs take the pods their selector matches, whoever controls them.
JobPods(j, pods) == {p \in pods : Matches(j.selector, p.labels)}

InPhase(pods, phase) == Cardinality({p \in pods : p.phase = phase})

GetPodInfo(current, desired, pods) ==
  [current |-> current, desired |-> desired,
   running |-> InPhase(pods, "Running"), pending |-> InPhase(pods, "Pending"),
   failed |-> InPhase(pods, "Failed"), succeeded |-> InPhase(pods, "Succeeded")]

\* A job's numbers are those of its status, not of its pods.
JobPodInfo(j, pods) ==
  [GetPodInfo(j.active, j.completions, JobPods(j, pods)) EXCEPT
     !.running = j.active, !.succeeded = j.succeeded, !.failed = j.failed]

\* Dereferencing an absent desired number of pods is a panic.
PodInfoStatus(info) ==
  CASE info.current = 0 -> "Pending"
    [] info.current # 0 /\ info.failed > 0 -> "Failed"
    [] info.current # 0 /\ info.failed = 0 /\ info.pending > 0 -> "Pending"
    [] OTHER -> IF info.desired = Nil THEN "panic"
                ELSE IF info.succeeded = info.desired THEN "Succeeded"
                ELSE IF info.running = info.desired THEN "Running" ELSE "Unknown"

-----------------------------------------------------------------------------
(* Status of each kind. *)

Observed(w) == w.generation <= w.observed

\* The checks after the controller has seen the last change, in order.
Rollout(info, d) ==
  CASE d.timedOut -> "ProgressDeadlineExceeded"
    [] ~d.timedOut /\ d.updated < d.desired -> "NewReplicaUpdating"
    [] ~d.timedOut /\ d.updated >= d.desired /\ d.replicas > d.updated ->
         "OldReplicaTerminating"
    [] ~d.timedOut /\ d.updated >= d.desired /\ d.replicas <= d.updated
         /\ d.available < d.updated -> "AvailableWaiting"
    [] OTHER -> PodInfoStatus(info)

\* Mutant: the observed generation is not looked at.
GetDeploymentStatusUnobserved(info, d) ==
  IF d.desired = Nil THEN PodInfoStatus(info) ELSE Rollout(info, d)

GetDeploymentStatus(info, d) ==
  IF d.desired = Nil THEN PodInfoStatus(info)
  ELSE IF Observed(d) THEN Rollout(info, d) ELSE "ObservedWaiting"

\* Later checks overwrite earlier ones, so the last one that applies wins.
GetStatefulSetStatus(info, s) ==
  CASE ~s.rolling -> PodInfoStatus(info)
    [] s.rolling /\ s.updateRevision # s.currentRevision -> "UpdateWaiting"
    [] s.rolling /\ s.updateRevision = s.currentRevision
         /\ s.desired # Nil /\ s.partition # Nil
         /\ s.updated < s.desired - s.partition -> "NewReplicaUpdating"
    [] OTHER -> IF s.desired # Nil /\ s.ready < s.desired THEN "PodReadyWaiting"
                ELSE IF s.observed = 0 \/ ~Observed(s) THEN "ObservedWaiting"
                ELSE PodInfoStatus(info)

GetDaemonsetStatus(info, d) ==
  CASE ~d.rolling -> PodInfoStatus(info)
    [] d.rolling /\ ~Observed(d) -> "ObservedWaiting"
    [] d.rolling /\ Observed(d) /\ d.updated < d.desired -> "UpdateWaiting"
    [] d.rolling /\ Observed(d) /\ d.updated >= d.desired /\ d.available < d.desired ->
         "PodReadyWaiting"
    [] OTHER -> PodInfoStatus(info)

\* The answer takes a copy of the status before the conditions are read.
JobStatus(j) == "Running"

-----------------------------------------------------------------------------
(* Replica sets of a deployment. *)

\* Two templates agree when they differ in the template hash label at most.
EqualIgnoreHash(t1, t2) ==
  LET few  == IF Cardinality(DOMAIN t1.labels) > Cardinality(DOMAIN t2.labels)
                THEN t2.labels ELSE t1.labels
      many == IF Cardinality(DOMAIN t1.labels) > Cardinality(DOMAIN t2.labels)
                THEN t1.labels ELSE t2.labels
      Label(l, k) == IF k \in DOMAIN l THEN l[k] ELSE ""
  IN  /\ \A k \in DOMAIN many : Label(few, k) = many[k] \/ k = "pod-template-hash"
      /\ t1.spec = t2.spec

\* Index of the first replica set with the deployment's template, or 0.
FindNewReplicaSet(d, rss) ==
  LET hits == {k \in DOMAIN rss : EqualIgnoreHash(rss[k].template, d.template)}
  IN  IF hits = {} THEN 0 ELSE Min(hits)

FindOldReplicaSets(d, rss) ==
  LET others == {k \in DOMAIN rss : rss[k].uid #
                   (IF FindNewReplicaSet(d, rss) = 0 THEN Nil
                    ELSE rss[FindNewReplicaSet(d, rss)].uid)}
  IN  [all |-> others, required |-> {k \in others : rss[k].desired # 0}]

-----------------------------------------------------------------------------
(* Writing a pod template. *)

\* An input that names some images must name every container.
Images(containers, input) ==
  [k \in DOMAIN containers |->
     LET hits == {i \in DOMAIN input : input[i].name = containers[k].name}
     IN  IF hits = {} THEN containers[k]
         ELSE [containers[k] EXCEPT !.image = input[Min(hits)].image]]

Unknown(containers, input) ==
  input # <<>> /\ \E k \in DOMAIN containers :
    \A i \in DOMAIN input : input[i].name # containers[k].name

\* The loop over init containers changes copies; the images of the
\* containers before the first unknown one are already written back when the
\* error is returned.
UpdatePodTemplate(t, input) ==
  LET policy == [t EXCEPT !.restartPolicy = IF input.restartPolicy = "" THEN @
                                            ELSE input.restartPolicy]
      bad == {k \in DOMAIN t.containers :
                \A i \in DOMAIN input.containers :
                  input.containers[i].name # t.containers[k].name}
      stop == IF input.containers = <<>> \/ bad = {} THEN Len(t.containers) + 1
              ELSE Min(bad)
  IN  IF Unknown(t.inits, input.inits) THEN [template |-> policy, err |-> TRUE]
      ELSE [template |-> [policy EXCEPT !.containers =
              [k \in DOMAIN t.containers |->
                 IF k < stop THEN Images(t.containers, input.containers)[k]
                 ELSE t.containers[k]]],
            err |-> stop <= Len(t.containers)]

-----------------------------------------------------------------------------
(* Services of a workload. *)

\* A workload without labels is given one; an absent label map is assigned
\* to, which panics.
AddObjectMetaDefaultLabel(meta) ==
  IF meta.labels = Nil \/ DOMAIN meta.labels # {} THEN meta
  ELSE [meta EXCEPT !.labels = [k \in {"run"} |-> meta.name]]

GetServiceFromOption(meta, opt) ==
  [name |-> meta.name, namespace |-> meta.namespace,
   type |-> IF opt.external THEN "LoadBalancer"
            ELSE IF opt.type = "" THEN "ClusterIP" ELSE opt.type,
   selector |-> IF DOMAIN opt.selector = {} THEN meta.labels ELSE opt.selector]

\* Validation looks for a row of the name, creation for a cached object: with
\* neither, the service is created before the workload.
ValidateAppCreateService(meta, opt, rows) ==
  opt = Nil \/ [name |-> meta.name, namespace |-> meta.namespace] \notin rows

CreateServiceIfNotExist(meta, opt, cached) ==
  IF \/ opt = Nil
     \/ \E s \in cached : s.name = meta.name /\ s.namespace = meta.namespace
    THEN {} ELSE {GetServiceFromOption(meta, opt)}

\* Claims are named by id or name and are written down by name.
ValidatePodTemplate(volumes, pvcs) ==
  LET Hits(v) == {c \in pvcs : v.claim \in {c.id, c.name}}
  IN  [err |-> \E k \in DOMAIN volumes : volumes[k].claim # Nil /\ Hits(volumes[k]) = {},
       volumes |-> [k \in DOMAIN volumes |->
          IF volumes[k].claim = Nil \/ Hits(volumes[k]) = {} THEN volumes[k]
          ELSE [volumes[k] EXCEPT !.claim = (CHOOSE c \in Hits(volumes[k]) : TRUE).name]]]

\* Creating a deployment, stateful set or daemon set: the labels are the
\* selector and the labels of the template.
CreateWorkload(meta, volumes, opt, pvcs, serviceRows, cachedServices) ==
  LET m == AddObjectMetaDefaultLabel(meta)
      t == ValidatePodTemplate(volumes, pvcs)
  IN  CASE m.labels = Nil -> [result |-> "panic", workload |-> Nil, services |-> {}]
        [] m.labels # Nil /\ (t.err \/ ~ValidateAppCreateService(m, opt, serviceRows)) ->
             [result |-> "refused", workload |-> Nil, services |-> {}]
        [] OTHER -> [result |-> "created",
                     workload |-> [name |-> m.name, namespace |-> m.namespace,
                                   selector |-> m.labels, labels |-> m.labels,
                                   volumes |-> t.volumes],
                     services |-> CreateServiceIfNotExist(m, opt, cachedServices)]

\* The services of a workload have exactly its selector.
GetRawServices(w, services) ==
  {s \in services : s.namespace = w.namespace /\ s.selector = w.selector}

GetInternalEndpoint(s) ==
  IF s.namespace \notin {"default", ""} /\ s.name # "" THEN <<s.name, s.namespace>>
  ELSE <<s.name>>

\* Ingress addresses count for load balancers only; a host name comes before
\* an address.
GetExternalEndpoints(s) ==
  (IF s.type = "LoadBalancer"
     THEN {IF i.hostname # "" THEN i.hostname ELSE i.ip : i \in s.ingress} ELSE {})
    \cup s.externalIPs

\* Config maps and secrets are those the pod mounts, each once.
MountedBy(pod, kind, objs) ==
  {o \in objs : \E v \in pod.volumes : v.kind = kind /\ v.name = o.name}

\* A listed pod or service belongs to an owner when the owner lists its uid.
IsObjectContains(obj, objs) == \E o \in objs : o.uid = obj.uid
=============================================================================
