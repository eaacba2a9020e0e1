-------------------------- MODULE ComponentSettings --------------------------
(***************************************************************************)
(* The settings of the cluster components monitor, fluent-bit and ceph-csi *)
(* from the request that gives them to the chart values or manifest their  *)
(* deploy task works with: pkg/models/components_monitor.go,               *)
(* components_fluent_bit.go and components_cephcsi.go, the records of      *)
(* pkg/api/component.go and the storage of                                 *)
(* pkg/templates/components/monitor_promtheus.go.  When the tasks run, and *)
(* with which copy of the row, is in Components.                           *)
(***************************************************************************)
EXTENDS Naturals, Sequences, FiniteSets, SequencesExt

CONSTANTS Nil,
          Classes,        \* storage classes: [id, name]
          ClassRefs,      \* what requests call them
          Sizes,          \* sizes asked for, in MB
          MaxCerts

VARIABLES comp,     \* the component: Nil or [type, setting, namespace, checked]
          values,   \* what the task for these settings generated, once it ran
          answer,   \* the answer of the last request
          certs     \* certificates generated so far

(* What requests may hold; a part that is left out is Nil. *)

Storages == {Nil, [enabled |-> FALSE, size |-> 0, class |-> ""]}
              \cup [enabled : {TRUE}, size : Sizes, class : {""} \cup ClassRefs]
TLSKeyPairs == {Nil} \cup [cert : {0, 9}, key : {"key"}, name : {""}]
Grafanas == {Nil} \cup [host : {"", "host"}, public : {"", "addr"}, storage : Storages, tls : TLSKeyPairs,
                        password : {"", "pw"}]
Others == {Nil} \cup [storage : {Nil} \cup [enabled : {TRUE}, size : Sizes, class : {""}]]
MonitorInputs == {Nil} \cup [grafana : Grafanas, loki : Others, prometheus : Others]
ES == {Nil} \cup [enabled : BOOLEAN, host : {"", "es"}, port : {0, 9200}, index : {"", "i"},
                type : {"", "_doc"}]
Kafka == {Nil} \cup [enabled : BOOLEAN, brokers : {{}, {"b"}}, topics : {{}, {"t"}}]
FluentBitInputs == {Nil} \cup [backend : {Nil} \cup [es : ES, kafka : Kafka]]
CephCSIClusters == [cluster : {"", "c"}, monitors : {<<>>, <<<<1, 2>>>>, <<<<1>>>>}]
CephCSIInputs == {Nil} \cup [config : {<<>>} \cup {<<c>> : c \in CephCSIClusters} \cup (CephCSIClusters \X CephCSIClusters)]

\* A check answers ok, refused or panic; the first that is not ok counts.
FirstOf(checks) ==
  LET bad == {i \in 1..Len(checks) : checks[i] # "ok"}
  IN IF bad = {} THEN "ok" ELSE checks[CHOOSE i \in bad : \A j \in bad : i <= j]
Check(b) == IF b THEN "ok" ELSE "refused"
-----------------------------------------------------------------------------
(* Monitor. *)

ClassOf(ref) == {c \in Classes : ref \in {c.id, c.name}}

validateStorage(s) == FirstOf(<<Check(s.size >= 1024), Check(s.class = "" \/ ClassOf(s.class) # {})>>)

\* A storage that was left out is a nil pointer.
StorageOf(s) == IF s = Nil THEN "panic" ELSE IF s.enabled THEN validateStorage(s) ELSE "ok"
Normal(s) == IF s # Nil /\ s.enabled /\ s.class # "" THEN [s EXCEPT !.class = (CHOOSE c \in ClassOf(@) : TRUE).name] ELSE s

validateGrafanaTLSKeyPair(p) == FirstOf(<<Check(p.cert # 0), Check(p.key # "")>>)

\* Without a key pair one is generated, at every request.
WithTLS(g) == IF g.tls = Nil THEN [cert |-> certs + 1, key |-> "key", name |-> "grafana-ingress-tls"]
              ELSE [g.tls EXCEPT !.name = IF @ = "" THEN "grafana-ingress-tls" ELSE @]

validateGrafana(g) ==
  IF g = Nil THEN "panic"
  ELSE FirstOf(<<StorageOf(g.storage), Check(g.host # "" \/ g.public # ""),
                 IF g.tls = Nil THEN "ok" ELSE validateGrafanaTLSKeyPair(g.tls)>>)
validateLoki(l) == IF l = Nil THEN "panic" ELSE StorageOf(l.storage)
validatePrometheus(p) == IF p = Nil THEN "refused" ELSE StorageOf(p.storage)

validateMonitor(in) ==
  IF in = Nil THEN "refused"
  ELSE FirstOf(<<validateGrafana(in.grafana), validateLoki(in.loki), validatePrometheus(in.prometheus)>>)

MonitorSetting(in) ==
  [in EXCEPT !.grafana = [@ EXCEPT !.tls = WithTLS(in.grafana), !.storage = Normal(@)],
             !.loki.storage = Normal(@), !.prometheus.storage = Normal(@)]

\* The size is cut to whole gigabytes.
NewPVCStorage(s) ==
  IF s = Nil \/ ~s.enabled THEN {} ELSE {[class |-> s.class, gb |-> s.size \div 1024]}

MonitorValues(in) ==
  IF in.grafana.tls = Nil THEN Nil
  ELSE [password |-> IF in.grafana.password = "" THEN "prom-operator" ELSE in.grafana.password,
        ingress |-> in.grafana.host,
        root |-> IF in.grafana.host = "" THEN in.grafana.public ELSE in.grafana.host,
        secret |-> in.grafana.tls,
        volumes |-> NewPVCStorage(in.grafana.storage) \cup NewPVCStorage(in.loki.storage)
                      \cup NewPVCStorage(in.prometheus.storage)]
-----------------------------------------------------------------------------
(* Fluent-bit: only updates are checked. *)

validateBackendES(es) == FirstOf(<<Check(es.host # ""), Check(es.port # 0), Check(es.index # ""),
                                   Check(es.type # "")>>)
validateBackendKafka(k) == FirstOf(<<Check(k.brokers # {}), Check(k.topics # {})>>)

validateBackend(b) ==
  IF b.es = Nil THEN "panic"
  ELSE FirstOf(<<IF b.es.enabled THEN validateBackendES(b.es) ELSE "ok",
                 IF b.kafka = Nil THEN "panic" ELSE IF b.kafka.enabled THEN validateBackendKafka(b.kafka) ELSE "ok",
                 Check(b.es.enabled \/ (b.kafka # Nil /\ b.kafka.enabled))>>)
validateFluentBit(in) == IF in = Nil \/ in.backend = Nil THEN "panic" ELSE validateBackend(in.backend)

FluentBitValues(in) ==
  IF in = Nil \/ in.backend = Nil THEN Nil
  ELSE [backends |-> {b \in {in.backend.es, in.backend.kafka} : b # Nil /\ b.enabled}]
-----------------------------------------------------------------------------
(* Ceph CSI.  A monitor is its parts around the colon, the port a number. *)

validateMon(mon) == Len(mon) = 2
validateCreateConfig(c) == c.cluster # "" /\ c.monitors # <<>> /\ \A i \in 1..Len(c.monitors) : validateMon(c.monitors[i])
validateCephCSI(in) == Check(in # Nil /\ in.config # <<>> /\ \A i \in 1..Len(in.config) : validateCreateConfig(in.config[i]))

getK8sResourceManifest(in, ns) == IF in = Nil THEN Nil ELSE [namespace |-> ns, config |-> in.config]
-----------------------------------------------------------------------------
Types == {"monitor", "fluentbit", "cephcsi"}
Inputs(type) == CASE type = "monitor" -> MonitorInputs [] type = "fluentbit" -> FluentBitInputs
                  [] type = "cephcsi" -> CephCSIInputs
Validate(type, in) == CASE type = "monitor" -> validateMonitor(in) [] type = "fluentbit" -> validateFluentBit(in)
                        [] type = "cephcsi" -> validateCephCSI(in)
Setting(type, in) == IF type = "monitor" THEN MonitorSetting(in) ELSE in
DefaultNamespace(type) == IF type = "cephcsi" THEN "ceph-csi" ELSE "onecloud-monitoring"
Generates(type, in) == type = "monitor" /\ in.grafana.tls = Nil

CsInit == comp = Nil /\ values = Nil /\ answer = "none" /\ certs = 0

ValidateCreateData(type, in, ns) ==
  /\ comp = Nil
  /\ LET r == IF type = "fluentbit" THEN "ok" ELSE Validate(type, in)
     IN /\ answer' = r
        /\ IF r # "ok" THEN UNCHANGED <<comp, certs>>
           ELSE /\ certs' = IF Generates(type, in) THEN certs + 1 ELSE certs
                /\ comp' = [type |-> type, setting |-> Setting(type, in), checked |-> type # "fluentbit",
                            namespace |-> IF ns = "" THEN DefaultNamespace(type) ELSE ns]
  /\ UNCHANGED values

\* The new settings replace the old ones; what the request leaves out is
\* not kept.
ValidateUpdateData(in) ==
  /\ comp # Nil /\ certs < MaxCerts
  /\ LET r == Validate(comp.type, in)
     IN /\ answer' = r
        /\ IF r # "ok" THEN UNCHANGED <<comp, values, certs>>
           ELSE /\ certs' = IF Generates(comp.type, in) THEN certs + 1 ELSE certs
                /\ comp' = [comp EXCEPT !.setting = Setting(comp.type, in), !.checked = TRUE]
                /\ values' = Nil

\* The deploy or update task.  "panic": it ends on a nil pointer.
Generate ==
  /\ comp # Nil /\ values = Nil
  /\ LET v == CASE comp.type = "monitor" -> MonitorValues(comp.setting)
                [] comp.type = "fluentbit" -> FluentBitValues(comp.setting)
                [] comp.type = "cephcsi" -> getK8sResourceManifest(comp.setting, comp.namespace)
     IN values' = [out |-> v]
  /\ UNCHANGED <<comp, answer, certs>>

CsNext ==
  \/ \E type \in Types, ns \in {"", "ns"} : \E in \in Inputs(type) : ValidateCreateData(type, in, ns)
  \/ comp # Nil /\ \E in \in Inputs(comp.type) : ValidateUpdateData(in)
  \/ Generate
-----------------------------------------------------------------------------
\* Settings that passed a check can be deployed: their task generates values,
\* every volume in them has a size and a class the cluster has, and every
\* backend what it needs to be reached.  Only a fluent-bit component created
\* and never updated was not checked.
CheckedDeploys ==
  values # Nil /\ comp.checked =>
    /\ values.out # Nil
    /\ comp.type = "monitor" =>
         /\ values.out.root # "" /\ values.out.secret.name # ""
         /\ \A v \in values.out.volumes : v.gb >= 1 /\ (v.class = "" \/ \E c \in Classes : c.name = v.class)
    /\ comp.type = "fluentbit" =>
         /\ values.out.backends # {}
         /\ \A b \in values.out.backends :
              IF "host" \in DOMAIN b THEN b.host # "" /\ b.port # 0 /\ b.index # "" /\ b.type # ""
              ELSE b.brokers # {} /\ b.topics # {}
=============================================================================
