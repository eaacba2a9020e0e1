------------------------------- MODULE MCViews -------------------------------
(* Bounded objects for Views.                                              *)
EXTENDS Views

SeqsOf(S, lo, hi) == UNION {[1..n -> S] : n \in lo..hi}

Cs(state, reason, code, signal, ready) ==
  [state |-> state, reason |-> reason, code |-> code, signal |-> signal,
   ready |-> ready, restarts |-> 1]

MCStatuses ==
  {Cs("waiting", "", 0, 0, FALSE), Cs("waiting", "CrashLoopBackOff", 0, 0, FALSE),
   Cs("running", "", 0, 0, TRUE), Cs("running", "", 0, 0, FALSE),
   Cs("terminated", "Completed", 0, 0, FALSE), Cs("terminated", "Error", 1, 0, FALSE),
   Cs("terminated", "", 137, 9, FALSE), Cs("terminated", "", 2, 0, FALSE)}

MCDone == Cs("terminated", "Completed", 0, 0, FALSE)

MCInits ==
  {<<>>, <<MCDone>>, <<MCDone, Cs("waiting", "ImagePullBackOff", 0, 0, FALSE)>>,
   <<Cs("waiting", "PodInitializing", 0, 0, FALSE), MCDone>>,
   <<Cs("terminated", "Error", 1, 0, FALSE)>>, <<Cs("terminated", "", 137, 9, FALSE)>>}

MCConds == {<<>>, <<[type |-> "Ready", status |-> "False"], [type |-> "Gate", status |-> "True"]>>}

MCPods ==
  {[uid |-> "p", phase |-> "Running", reason |-> r, deleting |-> d, initStatuses |-> i,
    statuses |-> s, gates |-> <<"Gate">>, conds |-> c] :
     r \in {"", "NodeLost"}, d \in BOOLEAN, i \in MCInits,
     s \in SeqsOf(MCStatuses, 0, 3), c \in MCConds}

Ev(type, reason, failed, uid) ==
  [type |-> type, reason |-> reason, failed |-> failed, uid |-> uid]

MCEventLists ==
  {<<Ev("Warning", "BackOff", TRUE, "p"), Ev("", "FailedMount", TRUE, "p"),
     Ev("Warning", "BackOff", TRUE, "p"), Ev("Normal", "Pulled", FALSE, "p"),
     Ev("Warning", "BackOff", TRUE, "q")>>}

Q(cpu, mem) == [r \in {"cpu"} \cup (IF mem > 0 THEN {"memory"} ELSE {}) |->
                  IF r = "cpu" THEN cpu ELSE mem]
NoEnv == [kind |-> "none"]

MCContainers ==
  {[requests |-> Q(200, 1500), limits |-> Q(500, 0),
    env |-> <<[name |-> "A", value |-> "a", from |-> NoEnv],
              [name |-> "B", value |-> "", from |->
                 [kind |-> "secret", name |-> "s", key |-> "password"]],
              [name |-> "C", value |-> "", from |->
                 [kind |-> "resource", field |-> "limits", resource |-> "memory",
                  divisor |-> 0]]>>,
    envFrom |-> <<[kind |-> "secret", name |-> "s", prefix |-> "S"]>>],
   [requests |-> Q(700, 0), limits |-> NoQuantities,
    env |-> <<[name |-> "D", value |-> "", from |->
                 [kind |-> "configMap", name |-> "c", key |-> "missing"]],
              [name |-> "E", value |-> "", from |->
                 [kind |-> "field", path |-> "metadata.labels"]]>>,
    envFrom |-> <<[kind |-> "configMap", name |-> "c", prefix |-> ""],
                  [kind |-> "secret", name |-> "none", prefix |-> ""]>>]}

MCSpecs ==
  {[name |-> "pod", namespace |-> "ns", containers |-> c, inits |-> i, node |-> n,
    phase |-> ph] :
     c \in SeqsOf(MCContainers, 1, 2), i \in SeqsOf(MCContainers, 0, 1),
     n \in {"", "n1", "n2"}, ph \in {"Running", "Succeeded"}}

MCConfigMaps == <<[name |-> "c", data |-> [k \in {"key"} |-> "v"]]>>
MCSecrets == <<[name |-> "s", data |-> [k \in {"password", "empty"} |->
                                          IF k = "password" THEN "x" ELSE ""]]>>

MCNodes ==
  {[id |-> i, name |-> i, capacity |-> 1000, unschedulable |-> FALSE,
    conds |-> <<[type |-> "Ready", status |-> "True"]>>,
    taints |-> <<[key |-> "master", effect |-> "NoSchedule"]>>] : i \in {"n1", "n2"}}

NoLabels == [k \in {} |-> ""]
L(v) == [k \in {"run"} |-> v]

OnePod(u) == {{}} \cup {{[uid |-> u, controller |-> c, labels |-> L("w"), phase |-> ph]} :
                         c \in {"rs", "w"}, ph \in {"Running", "Pending"}}
MCPodSets == {p \cup q : p \in OnePod("p1"), q \in OnePod("p2")}
MCReplicaSets == {[uid |-> "rs", controller |-> "w", labels |-> L("w")],
                  [uid |-> "other", controller |-> "x", labels |-> L("w")]}

MCDeployments ==
  {[uid |-> "w", selector |-> L("w"), desired |-> d, generation |-> 2, observed |-> o,
    timedOut |-> t, replicas |-> r, updated |-> u, available |-> a] :
     d \in {1, 2}, o \in 1..2, t \in BOOLEAN, r \in 0..2, u \in 0..2, a \in 0..2}

MCStatefulSets ==
  {[uid |-> "w", desired |-> d, generation |-> 2, observed |-> o, replicas |-> r,
    updated |-> u, ready |-> y, rolling |-> g, partition |-> p,
    updateRevision |-> v, currentRevision |-> 1] :
     d \in {1, 2}, o \in 0..2, r \in 1..2, u \in 0..2, y \in 0..2, g \in BOOLEAN,
     p \in {Nil, 0, 1}, v \in 1..2}

MCDaemonSets ==
  {[uid |-> "w", desired |-> d, generation |-> 2, observed |-> o, replicas |-> r,
    updated |-> u, available |-> a, rolling |-> g] :
     d \in 1..2, o \in 1..2, r \in 0..2, u \in 0..2, a \in 0..2, g \in BOOLEAN}

MCMetas == {[name |-> "w", namespace |-> "ns", labels |-> l] :
              l \in {Nil, NoLabels, [k \in {"app"} |-> "x"]}}
MCOptions == {[external |-> e, type |-> t, selector |-> s] :
                e \in BOOLEAN, t \in {"", "NodePort"}, s \in {NoLabels, L("z")}}
               \cup {Nil}
MCVolumes == {<<>>, <<[claim |-> Nil], [claim |-> "id1"]>>, <<[claim |-> "gone"]>>}
MCClaims == {[id |-> "id1", name |-> "c1"]}

MCJobs == {[selector |-> L("w"), active |-> a, completions |-> 2, succeeded |-> s,
            failed |-> f] : a \in 0..2, s \in 0..1, f \in 0..1}

Hash(h) == [k \in {"run", "pod-template-hash"} |-> IF k = "run" THEN "w" ELSE h]
Cont(n, i) == [name |-> n, image |-> i]
MCTemplates ==
  {[labels |-> L("w"), spec |-> s, restartPolicy |-> "Always",
    inits |-> <<Cont("i", "v1")>>, containers |-> <<Cont("a", "v1"), Cont("b", "v1")>>] :
      s \in {"s1", "s2"}}
MCRevisionLists ==
  SeqsOf({[uid |-> u, desired |-> n, template |-> [labels |-> Hash(u), spec |-> s]] :
            u \in {"rs", "rs2"}, n \in 0..1, s \in {"s1", "s2"}}, 0, 2)
MCTemplateInputs ==
  {[restartPolicy |-> r, inits |-> i, containers |-> c] :
     r \in {"", "Never"}, i \in {<<>>, <<Cont("i", "v2")>>, <<Cont("x", "v2")>>},
     c \in SeqsOf({Cont("a", "v2"), Cont("b", "v2"), Cont("c", "v3")}, 0, 2)}
MCServices ==
  {[name |-> "w", namespace |-> n, type |-> t, selector |-> s,
    ingress |-> {[hostname |-> h, ip |-> "1"]}, externalIPs |-> {"2"}] :
     n \in {"", "default", "ns"}, t \in {"ClusterIP", "LoadBalancer"},
     s \in {L("w"), L("z")}, h \in {"", "h"}}
MCMounters == {[volumes |-> v] : v \in SUBSET {[kind |-> k, name |-> n] :
                 k \in {"configMap", "secret"}, n \in {"c", "s"}}}

Obj(n, ns, t, v) ==
  [name |-> n, namespace |-> ns, stamp |-> t, fields |-> [k \in {"type"} |-> v]]
MCObjects == {Obj(12, 1, 1, 7), Obj(2, 1, 3, 8), Obj(22, 2, 2, 7), Obj(3, 1, 2, 9)}
MCQueries ==
  {[namespace |-> ns, name |-> n, limit |-> l, offset |-> 0, order |-> o, orderBy |-> b] :
     ns \in {0, 1}, n \in {0, 2}, l \in {-1, 0, 1, 2}, o \in {"", "asc"},
     b \in {<<>>, <<"namespace", "name">>, <<"status", "name">>, <<"size">>}}
Fc(f, func, ps) == [field |-> f, func |-> func, params |-> ps]
MCFilters == {<<>>, <<Fc("type", "in", <<7, 8>>)>>, <<Fc("size", "equals", <<7>>)>>,
              <<Fc("type", "notequals", <<9>>)>>, <<Fc("type", "between", <<7, 8>>)>>}
MCTexts == [contains |-> {<<12, 2>>, <<2, 2>>, <<22, 2>>, <<22, 22>>},
            prefix |-> {<<2, 2>>, <<22, 2>>}, suffix |-> {<<12, 2>>, <<2, 2>>, <<22, 2>>}]
-----------------------------------------------------------------------------
(* Objects for ObjectRequests. *)

Row(id, n, c, ns) == [id |-> id, name |-> n, cluster |-> c, namespace |-> ns]
MCRows1 == {Row("r1", "w", "c1", "id-ns1"), Row("r2", "w", "c2", "id-ns2"),
            Row("r3", "v", "c1", "id-ns1"), Row("r4", "w", "sys", "id-ns3")}
MCNamespaces == {[id |-> "id-ns1", name |-> "ns1", cluster |-> "c1", namespace |-> Nil],
                 [id |-> "id-ns2", name |-> "ns1", cluster |-> "c2", namespace |-> Nil]}
MCSecretInputs ==
  {[name |-> "s", namespace |-> "ns1", type |-> t, conf |-> c] :
     t \in {"", "cephCSI", "dockerConfigJson"},
     c \in {Nil} \cup {[user |-> u, key |-> k, passphrase |-> p] :
                          u \in {"", "u"}, k \in {"", "k"}, p \in {"", "p"}}}
KV(s) == [k \in s |-> "new"]
MCMapInputs == {[name |-> "c", namespace |-> "ns1", data |-> KV(s)] : s \in SUBSET {"a", "b"}}
MCMaps == {[name |-> "c", data |-> d] : d \in {Nil, [k \in {"a", "z"} |-> "old"]}}
MCClaimInputs == {[name |-> "c", namespace |-> "ns1", size |-> z, class |-> "sc"] : z \in {Nil, 5}}
MCPods1 == {[name |-> "p", namespace |-> "ns1", volumes |-> v] :
              v \in SeqsOf({[kind |-> "claim", name |-> "c"], [kind |-> "secret", name |-> "s"]}, 0, 2)}
MCVolumes1 == {[claim |-> Nil], [claim |-> [namespace |-> "ns1", name |-> "c"]]}
MCBindingInputs == {[subjects |-> s, role |-> [kind |-> k, name |-> n]] :
                      s \in {{"u"}, {"invalid"}}, k \in {"Role", "ClusterRole", "Group"}, n \in {"r1", "r2"}}
MCClassInputs ==
  {[name |-> "sc", provisioner |-> v, cluster |-> "c1", secretName |-> s, secretNamespace |-> n,
    clusterId |-> c, pool |-> p, fsType |-> "ext4", features |-> "layering"] :
     v \in {"ceph", "nfs"}, s \in {"", "s", "id-s", "t"}, n \in {"", "ns1", "id-ns1"},
     c \in {"k1", "k2"}, p \in {"", "p1", "p2"}}
MCSettings == {Nil, [k \in {"k1"} |-> "m1"], [k \in {"k1", "k2"} |-> "m2"]}
MCPools == [m \in {"m1", "m2"} |-> IF m = "m1" THEN {"p1"} ELSE {"p1", "p2"}]
MCLimitLists ==
  SeqsOf({[type |-> t, min |-> [r \in s |-> 1], max |-> [r \in {"cpu"} |-> 2],
           default |-> [r \in {} |-> 0]] : t \in {"Pod", "Container"}, s \in SUBSET {"cpu", "memory"}}, 0, 2)
MCQuotas == {[hard |-> [r \in h |-> 4], used |-> [r \in u |-> 1]] :
               h \in SUBSET {"cpu", "pods"}, u \in SUBSET {"cpu", "pods"}}

-----------------------------------------------------------------------------
(* Components that do not share state, each explored by itself. *)

VARIABLE answer

OR == INSTANCE ObjectRequests WITH Rows1 <- MCRows1, Namespaces <- MCNamespaces,
        Systems <- "sys", SecretInputs <- MCSecretInputs, MapInputs <- MCMapInputs,
        Maps <- MCMaps, ClaimInputs <- MCClaimInputs, Pods1 <- MCPods1,
        Volumes1 <- MCVolumes1, BindingInputs <- MCBindingInputs,
        RoleInputs <- {[rules |-> r] : r \in {{"get"}, {"get", "list"}, {"get", "invalid"}}},
        ClassInputs <- MCClassInputs, ComponentSettings <- MCSettings,
        CephPools <- MCPools, LimitLists <- MCLimitLists, Quotas <- MCQuotas

VARIABLES store, memory, cached, request, faults, foreign, overlapped, chosen

SC == INSTANCE StorageClasses WITH Classes <- {"a", "b"}, Requesters <- {1, 2},
        MaxFaults <- 1, MaxForeign <- 1, MaxVersion <- 5

scAll == <<store, memory, cached, request, faults, foreign, overlapped, chosen>>
scNone == /\ store = Nil /\ memory = Nil /\ cached = Nil /\ request = Nil /\ faults = Nil
          /\ foreign = Nil /\ overlapped = Nil /\ chosen = Nil
None == [kind |-> "nothing"]

VARIABLES published, index, archive, rel, changes, fresh

MCManifests == {<<[id |-> 1, known |-> k, there |-> t, shows |-> s], [id |-> 2, known |-> l, there |-> u, shows |-> v]>> :
                  k, t, s, l, u, v \in BOOLEAN}
MCValues == {[p \in S |-> 1] : S \in SUBSET {<<"x", "k">>, <<"x", "m">>, <<"y", "k">>}}
            \cup {[p \in {<<"x", "k">>} |-> 2]}
CH == INSTANCE Charts WITH Repos <- {"a", "b"}, Charts <- {1, 2}, Released <- {1, 2},
        Prereleases <- {3}, MaxChanges <- 2, Manifests <- MCManifests, Values <- MCValues

chAll == <<published, index, archive, rel, changes, fresh>>
chNone == /\ published = Nil /\ index = Nil /\ archive = Nil /\ rel = Nil
          /\ changes = Nil /\ fresh = Nil

MCInit ==
  \/ Init /\ answer = None /\ scNone /\ chNone
  \/ OR!OrInit /\ view = None /\ scNone /\ chNone
  \/ SC!ScInit /\ view = None /\ answer = None /\ chNone
  \/ CH!ChInit /\ view = None /\ answer = None /\ scNone

MCNext ==
  \/ view # None /\ Next /\ UNCHANGED <<answer, scAll, chAll>>
  \/ answer # None /\ OR!OrNext /\ UNCHANGED <<view, scAll, chAll>>
  \/ store # Nil /\ SC!ScNext /\ UNCHANGED <<view, answer, chAll>>
  \/ published # Nil /\ CH!ChNext /\ UNCHANGED <<view, answer, scAll>>

MCSpec == MCInit /\ [][MCNext]_<<view, answer, scAll, chAll>>

\* A storage class, a binding or a role that a request makes or changes is what the
\* request asked for, or the cause is named (ObjectRequests); and two default storage
\* classes, or none, have a named cause (StorageClasses).
ObjectsSound ==
  /\ answer # None => OR!ObjectsSound
  /\ store # Nil => SC!DefaultExplained

\* What is listed, shown and installed of a chart is what its repository has (Charts).
ChartsSound == published # Nil => CH!ChartsSound
=============================================================================
