-------------------------------- MODULE Views --------------------------------
(***************************************************************************)
(* Requests that are answered from a cluster's cache.  Every behaviour is  *)
(* one request: the objects it meets are chosen among the constants, the   *)
(* answer is computed by PodViews, WorkloadViews and ListQuery and kept in *)
(* `view` next to what it was computed from.  A list is read page by page  *)
(* while other requests change the objects.                                *)
(***************************************************************************)
EXTENDS PodViews, ListQuery

CONSTANTS Nil, Requests, Pods, Specs, ConfigMaps, Secrets, Nodes, EventLists,
          Deployments, StatefulSets, DaemonSets, PodSets, ReplicaSets,
          Metas, Options, Volumes, Claims,
          Jobs, Templates, RevisionLists, TemplateInputs, Services, Mounters,
          Objects, Queries, Filters, Texts, DefaultLimit

W == INSTANCE WorkloadViews

VARIABLE view

Init == \E r \in Requests : view = [kind |-> "none", ask |-> r]

Asked(r) == view = [kind |-> "none", ask |-> r]

-----------------------------------------------------------------------------

\* SPod.GetDetails: status, warnings and, for every container, its variables.
ShowPod ==
  /\ Asked("pod")
  /\ \E p \in Pods, es \in EventLists :
       view' = [kind |-> "pod", pod |-> p, status |-> GetPodStatus(p),
                gates |-> ReadinessGates(p), restarts |-> RestartCount(p),
                warnings |-> GetRawWarningEventsByPods(es, {p})]

ShowContainers ==
  /\ Asked("env")
  /\ \E p \in Specs :
       view' = [kind |-> "env", pod |-> p,
                env |-> UNION {ExtractContainerInfo(c, p, ConfigMaps, Secrets) :
                                 c \in Range(p.containers) \cup Range(p.inits)}]

\* SNode.GetDetails of every node, beside the usage computed from the rows.
\* A pod's row has the node the pod was on when the row was made.
ShowNodes ==
  /\ Asked("nodes")
  /\ \E ps \in {{p, q} : p, q \in Specs} :
     \E seen \in [ps -> BOOLEAN] :
       view' = [kind |-> "nodes", pods |-> ps, seen |-> seen,
                details |-> [n \in Nodes |-> GetNodeAllocatedResources(n, GetRawPods(n, ps))],
                usage |-> Usage(Nodes, [p \in ps |-> PodRow(p,
                  IF seen[p] /\ \E n \in Nodes : n.name = p.node
                    THEN (CHOOSE n \in Nodes : n.name = p.node).id ELSE Nil)])]

\* PerformCordon, PerformUncordon.
Cordon ==
  /\ Asked("cordon")
  /\ \E n \in Nodes, on \in BOOLEAN :
       view' = [kind |-> "node", node |-> SetNodeScheduleToggle(n, on)]

\* GetDetails and SetStatusByRemoteObject of each kind of workload.
ShowDeployment ==
  /\ Asked("deployment")
  /\ \E d \in Deployments, ps \in PodSets :
       LET info == W!GetPodInfo(d.replicas, d.desired, W!DeploymentPods(d, ReplicaSets, ps))
       IN  view' = [kind |-> "deployment", obj |-> d, pods |-> ps,
                    status |-> W!GetDeploymentStatus(info, d)]

ShowStatefulSet ==
  /\ Asked("statefulset")
  /\ \E s \in StatefulSets, ps \in PodSets :
       LET info == W!GetPodInfo(s.replicas, s.desired,
                                W!FilterPodsByControllerRef(s.uid, ps))
       IN  view' = [kind |-> "statefulset", obj |-> s, pods |-> ps,
                    status |-> W!GetStatefulSetStatus(info, s)]

ShowDaemonSet ==
  /\ Asked("daemonset")
  /\ \E d \in DaemonSets, ps \in PodSets :
       LET info == W!GetPodInfo(d.replicas, d.desired,
                                W!FilterPodsByControllerRef(d.uid, ps))
       IN  view' = [kind |-> "daemonset", obj |-> d, pods |-> ps,
                    status |-> W!GetDaemonsetStatus(info, d)]

\* ValidateCreateData and NewRemoteObjectForCreate of a workload.
CreateWorkload ==
  /\ Asked("create")
  /\ \E m \in Metas, o \in Options, v \in Volumes, rows \in BOOLEAN :
       view' = [kind |-> "create", option |-> o,
                out |-> W!CreateWorkload(m, v, o, Claims,
                          IF rows THEN {[name |-> m.name, namespace |-> m.namespace]}
                                  ELSE {}, {})]

\* SDeployment.GetDetails: the replica sets that are not the template's.
ShowRevisions ==
  /\ Asked("revisions")
  /\ \E t \in Templates, rss \in RevisionLists :
       view' = [kind |-> "revisions", template |-> t, sets |-> rss,
                old |-> W!FindOldReplicaSets([template |-> t], rss)]

\* SJob.GetDetails.
ShowJob ==
  /\ Asked("job")
  /\ \E j \in Jobs, ps \in PodSets :
       view' = [kind |-> "job", job |-> j, status |-> W!JobStatus(j),
                info |-> W!JobPodInfo(j, ps)]

\* The template of a workload is updated.
UpdateTemplate ==
  /\ Asked("template")
  /\ \E t \in Templates, i \in TemplateInputs :
       view' = [kind |-> "template", input |-> i, was |-> t,
                out |-> W!UpdatePodTemplate(t, i)]

\* SService.GetDetails; which of the objects the request's owner lists.
ShowService ==
  /\ Asked("service")
  /\ \E s \in Services, ps \in PodSets :
       view' = [kind |-> "service", service |-> s,
                internal |-> W!GetInternalEndpoint(s),
                external |-> W!GetExternalEndpoints(s),
                pods |-> {p \in UNION PodSets :
                            W!IsObjectContains(p, {q \in ps : W!Matches(s.selector, q.labels)})}]

ShowMounts ==
  /\ Asked("mounts")
  /\ \E p \in Mounters :
       view' = [kind |-> "mounts",
                configMaps |-> W!MountedBy(p, "configMap", Range(ConfigMaps)),
                secrets |-> W!MountedBy(p, "secret", Range(Secrets))]

-----------------------------------------------------------------------------

\* A client lists page by page: it asks again, at the offset of what it has,
\* until it has as many objects as the first answer counted.
ListFirst ==
  /\ Asked("list")
  /\ \E objs \in SUBSET Objects, q \in Queries, fs \in Filters :
     \E r \in ListK8SModels(objs, [q EXCEPT !.offset = 0], fs, Texts, DefaultLimit) :
       view' = [kind |-> "list", server |-> objs, cache |-> objs, start |-> objs,
                query |-> q, filters |-> fs, err |-> r.err, total |-> r.total,
                got |-> r.data, changed |-> FALSE, past |-> Nil]

Listing == view.kind = "list" /\ ~view.err /\ Len(view.got) < view.total

ListNext ==
  /\ Listing
  /\ \E r \in ListK8SModels(view.cache, [view.query EXCEPT !.offset = Len(view.got)],
                            view.filters, Texts, DefaultLimit) :
       view' = [view EXCEPT !.err = r.err, !.got = @ \o r.data]

\* A client that does not count asks for one page more, at or past the end.
ListPastEnd ==
  /\ view.kind = "list" /\ ~view.err /\ view.past = Nil /\ Len(view.got) >= view.total
  /\ \E skip \in {0, 1} :
     \E r \in ListK8SModels(view.cache, [view.query EXCEPT !.offset = Len(view.got) + skip],
                            view.filters, Texts, DefaultLimit) :
       view' = [view EXCEPT !.err = r.err, !.past = r.data]

\* The requests that none of these kinds carries out.
AnswerOther ==
  /\ Asked("other")
  /\ \E objs \in SUBSET Objects, o \in Objects, c \in {0, 1}, d \in {0, 1} :
       view' = [kind |-> "other",
                answers |-> IF GetCluster([cluster |-> c], [cluster |-> d]) = 0 THEN {"refused"}
                  ELSE {PerformAction(objs, o.namespace, o.name),
                        DoCreate([cluster |-> d]),
                        DoUpdate(objs, o.namespace, o.name)}]

\* Other requests meanwhile; the cache follows the cluster.
DeleteMeanwhile ==
  /\ Listing /\ view.server = view.start
  /\ \E o \in view.server :
       view' = [view EXCEPT !.server = DoDelete(view.cache, @, o.namespace, o.name).server]

RawUpdateMeanwhile ==
  /\ Listing /\ view.server = view.start
  /\ \E o \in view.server, p \in Objects :
       view' = [view EXCEPT !.server =
                  UpdateRawData(view.cache, @, o.namespace, o.name, p.fields).server]

Deliver ==
  /\ Listing /\ view.cache # view.server
  /\ view' = [view EXCEPT !.cache = view.server, !.changed = TRUE]

Next ==
  \/ ShowPod \/ ShowContainers \/ ShowNodes \/ Cordon
  \/ ShowDeployment \/ ShowStatefulSet \/ ShowDaemonSet \/ CreateWorkload
  \/ ShowRevisions \/ ShowJob \/ UpdateTemplate \/ ShowService \/ ShowMounts
  \/ AnswerOther \/ ListFirst \/ ListNext \/ ListPastEnd \/ DeleteMeanwhile \/ RawUpdateMeanwhile \/ Deliver

Spec == Init /\ [][Next]_view

-----------------------------------------------------------------------------
(* Properties. *)

Sum(seq, F(_)) == MapThenSumSet(LAMBDA k: F(seq[k]), DOMAIN seq)

\* GetPodStatus: a pod that goes away or still initialises never shows its
\* containers' state nor ready containers.  Otherwise "Running" and
\* "Completed" tell the truth about the containers: nothing is "Completed"
\* while one is running and ready, and the first container in trouble is
\* what is shown, unless it has completed beside a running one.
PodStatusHonest ==
  view.kind = "pod" =>
    LET p == view.pod
        s == view.status
        initialising == \E k \in DOMAIN p.initStatuses :
                          ~(p.initStatuses[k].state = "terminated" /\ p.initStatuses[k].code = 0)
        up == {k \in DOMAIN p.statuses : p.statuses[k].state = "running" /\ p.statuses[k].ready}
        trouble == {k \in DOMAIN p.statuses :
                      \/ p.statuses[k].state = "terminated"
                      \/ p.statuses[k].state = "waiting" /\ p.statuses[k].reason # ""}
    IN  /\ p.deleting <=> (s.shown.part = "pod" /\ s.shown.why \in {"Terminating", "Unknown"})
        /\ initialising => s.ready = 0 /\ (s.shown.part = "init" \/ p.deleting)
        /\ ~initialising => s.ready = Cardinality(up)
        /\ (~initialising /\ ~p.deleting) =>
             /\ s.shown.why = "Completed" => up = {}
             /\ (trouble # {} /\ s.shown.part = "pod") =>
                  p.statuses[Min(trouble)].reason = "Completed" /\ up # {}
             /\ s.shown.part = "container" =>
                  trouble # {} /\ p.statuses[Min(trouble)].reason \in {"", s.shown.why}
        /\ Cardinality(Range(view.warnings)) = Len(view.warnings)

\* evalEnvFrom and evalValueFrom: whatever way a container takes a variable
\* from a secret, its value is shown encoded (or empty), and values from
\* elsewhere are shown as they are.
SecretsStayEncoded ==
  view.kind = "env" =>
    \A v \in view.env :
      /\ v.from = "secret" => v.value.kind = "base64" \/ v.value.text = ""
      /\ v.from # "secret" => v.value.kind # "base64"

\* A pod needs at least what its containers need together and what each of
\* its init containers needs alone.
Needs(p, field, r) ==
  Max({Sum(p.containers, LAMBDA c: Of(c[field], r))}
        \cup {Of(p.inits[k][field], r) : k \in DOMAIN p.inits})

\* getNodeAllocatedResources and Usage: a node's details add up the needs of
\* its unfinished pods; the cluster's usage, computed from the rows, differs
\* from them by exactly the finished pods, which it counts, and the pods
\* whose row was made before they had a node, which it misses.
NodeAccounting ==
  view.kind = "nodes" =>
    LET On(p) == \E n \in Nodes : n.name = p.node
        Done(p) == p.phase \in {"Succeeded", "Failed"}
        Total(S, field, r) == MapThenSumSet(LAMBDA p: Needs(p, field, r), S)
        Displayed(F(_)) == MapThenSumSet(LAMBDA n: F(view.details[n]), Nodes)
        missed == {p \in view.pods : On(p) /\ ~Done(p) /\ ~view.seen[p]}
        extra == {p \in view.pods : On(p) /\ Done(p) /\ view.seen[p]}
    IN  /\ \A n \in Nodes : view.details[n].cpu =
             Total({p \in view.pods : p.node = n.name /\ ~Done(p)}, "requests", "cpu")
        /\ view.usage.cpu + Total(missed, "requests", "cpu")
             = Displayed(LAMBDA d: d.cpu) + Total(extra, "requests", "cpu")
        /\ view.usage.cpuLimits + Total(missed, "limits", "cpu")
             = Displayed(LAMBDA d: d.cpuLimits) + Total(extra, "limits", "cpu")
        /\ (missed = {} /\ extra = {} /\ Cardinality(Nodes) = 1) =>
             Value(view.usage.memory) = Displayed(LAMBDA d: d.memory)

\* GetDeploymentStatus, GetStatefulSetStatus, GetDaemonsetStatus: a rolling
\* workload is shown "Running" only when its controller has seen the last
\* change, the change has reached every replica, and as many pods run as are
\* wanted with none of them pending or failed.
RunningMeansRolledOut ==
  (view.kind \in {"deployment", "statefulset", "daemonset"} /\ view.status = "Running") =>
    LET o == view.obj
        mine == IF view.kind = "deployment"
                  THEN {p \in view.pods : \E rs \in ReplicaSets :
                          rs.controller = o.uid /\ p.controller = rs.uid}
                  ELSE {p \in view.pods : p.controller = o.uid}
    IN  /\ \A p \in mine : p.phase \in {"Running", "Succeeded", "Unknown"}
        /\ Cardinality({p \in mine : p.phase = "Running"}) = o.desired
        /\ (view.kind = "deployment" \/ o.rolling) => o.generation <= o.observed
        /\ view.kind = "deployment" =>
             o.updated >= o.desired /\ o.replicas <= o.updated /\ o.available >= o.updated
        /\ (view.kind = "statefulset" /\ o.rolling) =>
             o.updateRevision = o.currentRevision /\ o.ready >= o.desired
        /\ (view.kind = "daemonset" /\ o.rolling) =>
             o.updated >= o.desired /\ o.available >= o.desired

\* CreateServiceIfNotExist and GetRawServices: the service created with a
\* workload, unless the request gives it another selector, selects the
\* workload's pods and is listed among the workload's services.
CreatedServiceSelects ==
  (view.kind = "create" /\ view.out.result = "created") =>
    \A s \in view.out.services :
      DOMAIN view.option.selector = {} =>
        /\ s \in W!GetRawServices(view.out.workload, {s})
        /\ W!Matches(s.selector, view.out.workload.labels)
        /\ DOMAIN s.selector # {}

\* FetchObjects: as long as the cache does not change, reading page by page
\* returns every object that matches exactly once, in order, provided that
\* the last field of the order tells the objects apart.  Only the total tells
\* the client where to stop: a page asked for at or past the end is not empty
\* but the first page again.
PagesPartition ==
  (view.kind = "list" /\ ~view.err /\ ~view.changed /\ Len(view.got) >= view.total) =>
    LET f == Last(OrderBy(view.query))
        Key(o) == IF f.field = "creationTimestamp" THEN o.stamp ELSE o[f.field]
        all == ApplyFilters(ListItemFilter(view.start, view.query, Texts),
                            view.filters, Texts).objs
    IN  (\A o, p \in all : Key(o) = Key(p) => o = p) =>
          /\ Range(view.got) = all /\ Len(view.got) = Cardinality(all)
          /\ \A i \in 1..(Len(view.got) - 1) : Less(f, view.got[i], view.got[i+1])
          /\ view.past # Nil => /\ IsPrefix(view.past, view.got)
                                /\ all # {} => view.past # <<>>

\* Pods and nodes: the three properties about them above.
PodsSound == PodStatusHonest /\ SecretsStayEncoded /\ NodeAccounting

\* Workloads and services: the two properties about them above.
WorkloadsSound == RunningMeansRolledOut /\ CreatedServiceSelects
=============================================================================
