------------------------------ MODULE PodViews ------------------------------
(***************************************************************************)
(* What the service shows of pods and nodes: pure functions of the objects *)
(* held in a cluster's caches (pkg/models/pods.go, nodes.go, events.go and *)
(* pkg/k8s/common/getters/getters.go).                                     *)
(*                                                                         *)
(* A displayed status is a record [part, why, n] instead of a formatted    *)
(* string: part says whose state is displayed (the pod's, an init          *)
(* container's or a container's).  A quantity is an integer number of      *)
(* thousandths of its unit, a list of quantities a function whose domain   *)
(* is the set of resources it mentions.  The order in which Go ranges over *)
(* a map is not fixed, so what is collected from a map is a set.           *)
(***************************************************************************)
EXTENDS Integers, Sequences, FiniteSets, FiniteSetsExt, SequencesExt

Shown(part, why, n) == [part |-> part, why |-> why, n |-> n]

-----------------------------------------------------------------------------
(* The status column of a pod. *)

\* A terminated container without a reason is shown by its signal or its code.
Terminated(part, c) ==
  CASE c.reason # "" -> Shown(part, c.reason, 0)
    [] c.reason = "" /\ c.signal # 0 -> Shown(part, "Signal", c.signal)
    [] OTHER -> Shown(part, "ExitCode", c.code)

InitDone(c) == c.state = "terminated" /\ c.code = 0

\* What the first unfinished init container, the i-th, makes of the status.
InitReason(pod, i) ==
  LET c == pod.initStatuses[i]
  IN  CASE c.state = "terminated" -> Terminated("init", c)
        [] c.state = "waiting" /\ c.reason \notin {"", "PodInitializing"} ->
             Shown("init", c.reason, 0)
        [] OTHER -> Shown("init", "Progress", i - 1)

\* One turn of the loop over the container statuses, which runs from the
\* last one to the first.
ContainerTurn(c, acc) ==
  [shown |-> CASE c.state = "waiting" /\ c.reason # "" ->
                    Shown("container", c.reason, 0)
               [] c.state = "terminated" -> Terminated("container", c)
               [] OTHER -> acc.shown,
   ready |-> acc.ready + (IF c.state = "running" /\ c.ready THEN 1 ELSE 0),
   restarts |-> acc.restarts + c.restarts]

\* Mutant: the containers are taken from the first to the last.
ContainersTurnUpwards(pod, acc) ==
  FoldLeft(LAMBDA a, c: ContainerTurn(c, a), acc, pod.statuses)

ContainersTurn(pod, acc) == FoldRight(ContainerTurn, pod.statuses, acc)

\* Unfinished init containers hide the containers; a "Completed" container
\* does not hide one that is still running and ready.
GetPodStatus(pod) ==
  LET base == Shown("pod", IF pod.reason = "" THEN pod.phase ELSE pod.reason, 0)
      open == {i \in DOMAIN pod.initStatuses : ~InitDone(pod.initStatuses[i])}
      main == ContainersTurn(pod, [shown |-> base, ready |-> 0, restarts |-> 0])
      row  == IF open # {}
                THEN [shown |-> InitReason(pod, Min(open)), ready |-> 0,
                      restarts |-> MapThenSumSet(
                         LAMBDA i: pod.initStatuses[i].restarts, 1..Min(open))]
                ELSE IF main.shown.why = "Completed" /\ main.ready > 0
                       THEN [main EXCEPT !.shown = Shown("pod", "Running", 0)]
                       ELSE main
  IN  IF pod.deleting
        THEN [row EXCEPT !.shown = Shown("pod",
                IF pod.reason = "NodeLost" THEN "Unknown" ELSE "Terminating", 0)]
        ELSE row

\* How many readiness gates are met: the first condition of a type counts.
ReadinessGates(pod) ==
  Cardinality({g \in DOMAIN pod.gates :
    LET same == {k \in DOMAIN pod.conds : pod.conds[k].type = pod.gates[g]}
    IN  same # {} /\ pod.conds[Min(same)].status = "True"})

RestartCount(pod) == FoldLeft(LAMBDA n, c: n + c.restarts, 0, pod.statuses)

-----------------------------------------------------------------------------
(* Requests and limits. *)

NoQuantities == [r \in {} |-> 0]

AddQuantities(a, b) ==
  [r \in DOMAIN a \cup DOMAIN b |->
     CASE r \notin DOMAIN a -> b[r]
       [] r \notin DOMAIN b -> a[r]
       [] OTHER -> a[r] + b[r]]

RaiseQuantities(a, b) ==
  [r \in DOMAIN a \cup DOMAIN b |->
     CASE r \notin DOMAIN a -> b[r]
       [] r \notin DOMAIN b -> a[r]
       [] OTHER -> IF b[r] > a[r] THEN b[r] ELSE a[r]]

\* The containers add up, every init container sets a minimum; field is
\* "requests" or "limits" of the containers' resources.
PodRequestsAndLimits(pod, field) ==
  FoldLeft(LAMBDA a, c: RaiseQuantities(a, c[field]),
           FoldLeft(LAMBDA a, c: AddQuantities(a, c[field]), NoQuantities,
                    pod.containers),
           pod.inits)

\* A resource that is not mentioned counts as zero.
Of(q, r) == IF r \in DOMAIN q THEN q[r] ELSE 0

MilliValue(q) == q
Value(q) == (q + 999) \div 1000

\* The row of a pod keeps the thousandths of both resources.
PodRow(pod, nodeId) ==
  [node |-> nodeId,
   cpu |-> MilliValue(Of(PodRequestsAndLimits(pod, "requests"), "cpu")),
   cpuLimits |-> MilliValue(Of(PodRequestsAndLimits(pod, "limits"), "cpu")),
   memory |-> MilliValue(Of(PodRequestsAndLimits(pod, "requests"), "memory")),
   memoryLimits |-> MilliValue(Of(PodRequestsAndLimits(pod, "limits"), "memory"))]

-----------------------------------------------------------------------------
(* Environment variables of a container. *)

Plain(v)   == [kind |-> "plain", text |-> v, n |-> 0]
Number(n)  == [kind |-> "number", text |-> "", n |-> n]
Encoded(v) == IF v = "" THEN Plain(v) ELSE [kind |-> "base64", text |-> v, n |-> 0]

\* The first object of the list with the name, as a set of at most one.
Named(name, objs) ==
  LET hits == {k \in DOMAIN objs : objs[k].name = name}
  IN  IF hits = {} THEN {} ELSE {objs[Min(hits)]}

DataOf(o, key) == IF key \in DOMAIN o.data THEN o.data[key] ELSE ""

\* A divisor of zero means one; the quotient is rounded up.
ExtractContainerResourceValue(src, c) ==
  LET d == IF src.divisor = 0 THEN 1000 ELSE src.divisor
      q == Of(c[src.field], src.resource)
      Ceil(a, b) == (a + b - 1) \div b
  IN  IF src.resource = "cpu" THEN Ceil(MilliValue(q), MilliValue(d))
                              ELSE Ceil(Value(q), Value(d))

EvalValueFrom(src, c, pod, configMaps, secrets) ==
  CASE src.kind = "configMap" ->
         IF Named(src.name, configMaps) = {} THEN Plain("")
         ELSE Plain(DataOf(CHOOSE o \in Named(src.name, configMaps) : TRUE, src.key))
    [] src.kind = "secret" ->
         IF Named(src.name, secrets) = {} THEN Plain("")
         ELSE Encoded(DataOf(CHOOSE o \in Named(src.name, secrets) : TRUE, src.key))
    [] src.kind = "resource" ->
         LET v == ExtractContainerResourceValue(src, c)
         IN  IF v = 0 /\ src.field = "limits" THEN Plain("node allocatable")
             ELSE Number(v)
    [] src.kind = "field" ->
         \* a scheme without conversions knows the name and the namespace only
         CASE src.path = "metadata.name" -> Plain(pod.name)
           [] src.path = "metadata.namespace" -> Plain(pod.namespace)
           [] OTHER -> Plain("")

Show(secret, v) == IF secret THEN Encoded(v) ELSE Plain(v)

\* All the keys of each config map and secret named by envFrom.
EvalEnvFrom(c, configMaps, secrets) ==
  UNION {LET f == c.envFrom[k]
         IN  {[name |-> <<f.prefix, key>>, from |-> f.kind,
               value |-> Show(f.kind = "secret", o.data[key])] :
                 <<o, key>> \in UNION {{o} \X DOMAIN o.data :
                    o \in Named(f.name, IF f.kind = "secret" THEN secrets
                                                             ELSE configMaps)}}
         : k \in DOMAIN c.envFrom}

ExtractContainerInfo(c, pod, configMaps, secrets) ==
  {[name |-> <<"", v.name>>, from |-> v.from.kind,
    value |-> IF v.from.kind = "none" THEN Plain(v.value)
              ELSE EvalValueFrom(v.from, c, pod, configMaps, secrets)] :
      v \in Range(c.env)}
    \cup EvalEnvFrom(c, configMaps, secrets)

-----------------------------------------------------------------------------
(* Events. *)

IsReadyOrSucceededPod(pod) ==
  \/ pod.phase = "Succeeded"
  \/ /\ pod.phase = "Running"
     /\ \A k \in DOMAIN pod.conds :
          pod.conds[k].type = "Ready" => pod.conds[k].status # "False"

RemoveDuplicates(events) ==
  LET First(k) == \A j \in 1..(k-1) : events[j].reason # events[k].reason
      kept == {k \in DOMAIN events : First(k)}
  IN  [j \in 1..Cardinality(kept) |-> events[SetToSortSeq(kept, <)[j]]]

GetRawEventsByPods(events, pods) == SelectSeq(events, LAMBDA e: e.uid \in {p.uid : p \in pods})

FilterEventsByType(events, type) == SelectSeq(events, LAMBDA e: e.type = type)

\* The warnings of pods that are neither ready nor done, one per reason.  An event without
\* a type is none, whatever its reason.
GetRawWarningEventsByPods(events, pods) ==
  RemoveDuplicates(GetRawEventsByPods(
    FilterEventsByType(GetRawEventsByPods(events, pods), "Warning"),
    {p \in pods : ~IsReadyOrSucceededPod(p)}))

-----------------------------------------------------------------------------
(* Nodes. *)

GetRawPods(node, pods) ==
  {p \in pods : p.node = node.name /\ p.phase \notin {"Succeeded", "Failed"}}

SumQuantities(pods, field) ==
  FoldSet(LAMBDA p, a: AddQuantities(a, PodRequestsAndLimits(p, field)),
          NoQuantities, pods)

\* Memory is shown in whole units; the pods of the node are counted.
GetNodeAllocatedResources(node, pods) ==
  LET reqs == SumQuantities(pods, "requests")
      lims == SumQuantities(pods, "limits")
  IN  [cpu |-> MilliValue(Of(reqs, "cpu")), cpuLimits |-> MilliValue(Of(lims, "cpu")),
       memory |-> Value(Of(reqs, "memory")), memoryLimits |-> Value(Of(lims, "memory")),
       pods |-> Cardinality(pods),
       \* a node without capacity shows the fraction zero
       full |-> node.capacity > 0 /\ MilliValue(Of(reqs, "cpu")) >= node.capacity]

\* The first condition of the type decides; without one it is unknown.
GetNodeConditionStatus(node, type) ==
  LET same == {k \in DOMAIN node.conds : node.conds[k].type = type}
  IN  IF same = {} THEN "Unknown" ELSE node.conds[Min(same)].status

GetStatusFromRemote(node) ==
  IF GetNodeConditionStatus(node, "Ready") = "True" THEN "Ready" ELSE "NotReady"

\* Cluster usage, from the rows: every pod row of the node counts.
Usage(nodes, rows) ==
  LET Rows(n) == {r \in DOMAIN rows : rows[r].node = n.id}
      Total(F(_)) == MapThenSumSet(
                       LAMBDA n: MapThenSumSet(LAMBDA r: F(rows[r]), Rows(n)), nodes)
  IN  [cpu |-> Total(LAMBDA r: r.cpu), cpuLimits |-> Total(LAMBDA r: r.cpuLimits),
       memory |-> Total(LAMBDA r: r.memory),
       memoryLimits |-> Total(LAMBDA r: r.memoryLimits),
       pods |-> Total(LAMBDA r: 1),
       count |-> Cardinality(nodes),
       ready |-> Cardinality({n \in nodes : GetStatusFromRemote(n) = "Ready"})]

\* (Un)cordoning also rewrites the effect of every master taint.
SetNodeScheduleToggle(node, unschedule) ==
  [node EXCEPT !.unschedulable = unschedule,
               !.taints = [k \in DOMAIN node.taints |->
                 IF node.taints[k].key = "master"
                   THEN [node.taints[k] EXCEPT !.effect =
                           IF unschedule THEN "NoSchedule" ELSE "PreferNoSchedule"]
                   ELSE node.taints[k]]]
=============================================================================
