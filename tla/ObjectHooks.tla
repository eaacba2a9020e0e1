----------------------------- MODULE ObjectHooks -----------------------------
(***************************************************************************)
(* What the kinds that only keep data (secrets, config maps, claims,       *)
(* storage classes, roles, bindings, limits) make of a request: the hooks  *)
(* ValidateCreateData, NewRemoteObjectForCreate, NewRemoteObjectForUpdate, *)
(* the list filters and GetDetails of pkg/models and pkg/models/drivers.   *)
(*                                                                         *)
(* A hook yields [result, obj]: "ok" with the object that is sent to the   *)
(* cluster, "refused", or "panic".  Nil is a field left out of a request.  *)
(***************************************************************************)
EXTENDS Integers, Sequences, FiniteSets, FiniteSetsExt, SequencesExt

CONSTANT Nil

Ok(obj) == [result |-> "ok", obj |-> obj]
Refused == [result |-> "refused", obj |-> Nil]
Panic == [result |-> "panic", obj |-> Nil]

-----------------------------------------------------------------------------
(* Rows named in requests. *)

\* The rows in which field, the name or the id, is res; a namespace of Nil is not compared.
Rows(rows, cluster, ns, field, res) ==
  {r \in rows : r.cluster = cluster /\ ns \in {Nil, r.namespace} /\ r[field] = res}

\* An id comes first.  More than one row, or none, is an error: Nil.
FetchClusterResourceByIdOrName(rows, cluster, ns, res) ==
  LET byId == Rows(rows, cluster, ns, "id", res)
      byName == Rows(rows, cluster, ns, "name", res)
      hits == IF byId # {} THEN byId ELSE byName
  IN  IF cluster # Nil /\ Cardinality(hits) = 1 THEN CHOOSE r \in hits : TRUE ELSE Nil

\* Rows of the system cluster are listed on demand, to those allowed to.
FilterBySystemAttributes(rows, query, allowed, systemCluster) ==
  {r \in rows : (query.system /\ allowed) \/ r.cluster # systemCluster}

\* A namespace can be named only together with its cluster.
ListItemFilter(rows, query, namespaces) ==
  LET ns == FetchClusterResourceByIdOrName(namespaces, query.cluster, Nil, query.namespace)
  IN  IF query.namespace # Nil /\ ns = Nil THEN Refused
      ELSE Ok({r \in rows : /\ query.cluster \in {Nil, r.cluster}
                            /\ query.namespace = Nil \/ r.namespace = ns.id})

\* Listing by owner: the owner is looked up again in the cluster and the
\* namespace of every row, and one row without such an owner is an error.
\* owned holds the ids of each object and its owner.
CustomizeFilterList(rows, owners, name, owned) ==
  LET Owner(r) == FetchClusterResourceByIdOrName(owners, r.cluster, r.namespace, name)
  IN  IF \E r \in rows : Owner(r) = Nil THEN Refused
      ELSE Ok({r \in rows : <<r.id, Owner(r).id>> \in owned})

-----------------------------------------------------------------------------
(* Secrets and config maps. *)

SecretDrivers == {"cephCSI", "dockerConfigJson"}

\* ValidateCreateData of the drivers: the docker one reads the absent part.
ValidateSecret(in) ==
  CASE in.conf = Nil -> IF in.type = "cephCSI" THEN "refused" ELSE "panic"
    [] OTHER -> IF in.conf.user = "" \/ in.conf.key = "" THEN "refused" ELSE "ok"

\* ToData: the keys that pods and provisioners read.
ToData(in) ==
  IF in.type = "cephCSI"
    THEN [k \in {"userID", "userKey"}
                  \cup (IF in.conf.passphrase = "" THEN {} ELSE {"encryptionPassphrase"}) |->
            CASE k = "userID" -> in.conf.user
              [] k = "userKey" -> in.conf.key
              [] OTHER -> in.conf.passphrase]
    ELSE [k \in {".dockerconfigjson"} |-> <<in.conf.user, in.conf.key>>]

CreateSecret(in) ==
  IF in.type \notin SecretDrivers THEN Refused
  ELSE CASE ValidateSecret(in) = "ok" ->
              Ok([name |-> in.name, namespace |-> in.namespace, type |-> in.type,
                  data |-> ToData(in)])
         [] ValidateSecret(in) = "refused" -> Refused
         [] OTHER -> Panic

CreateConfigMap(in) ==
  IF DOMAIN in.data = {} THEN Refused
  ELSE Ok([name |-> in.name, namespace |-> in.namespace, data |-> in.data])

\* New keys are added, no key is removed; the cached object is changed.
UpdateConfigMap(obj, in) ==
  IF obj.data = Nil THEN (IF DOMAIN in.data = {} THEN Ok(obj) ELSE Panic)
  ELSE Ok([obj EXCEPT !.data =
             [k \in DOMAIN obj.data \cup DOMAIN in.data |->
                IF k \in DOMAIN in.data THEN in.data[k] ELSE obj.data[k]]])

\* The pods that mount it, each once.
GetRawPods(obj, kind, pods) ==
  {p \in pods : p.namespace = obj.namespace
                /\ \E k \in DOMAIN p.volumes : p.volumes[k] = [kind |-> kind, name |-> obj.name]}

-----------------------------------------------------------------------------
(* Claims and volumes. *)

\* Size is the parsed quantity, Nil when it cannot be parsed.
CreateClaim(in) ==
  IF in.size = Nil THEN Refused
  ELSE Ok([name |-> in.name, namespace |-> in.namespace, size |-> in.size,
           modes |-> {"ReadWriteOnce"}, class |-> in.class])

\* A pod is named once for every volume of the claim that it has.
GetMountPodNames(claim, pods) ==
  LET Times(p) == Cardinality({k \in DOMAIN p.volumes :
                     p.volumes[k] = [kind |-> "claim", name |-> claim.name]})
  IN  [p \in {q \in pods : q.namespace = claim.namespace /\ Times(q) > 0} |-> Times(p)]

\* "Unused" means not bound to a volume, whether or not a pod mounts it.
ListClaims(rows, unused) ==
  {r \in rows : unused = Nil \/ (unused <=> r.status # "Bound")}

\* The claim of a volume is shown by its namespace, twice.
GetPVCShortDesc(pv) == IF pv.claim = Nil THEN <<>> ELSE <<pv.claim.namespace, pv.claim.namespace>>

-----------------------------------------------------------------------------
(* Storage classes on ceph. *)

\* env has the rows (namespaces, secrets), the secrets in the cluster, the
\* settings of the ceph component (Nil without it) and the pools of each
\* ceph cluster.
GetCephConfig(in, env) ==
  LET ns == FetchClusterResourceByIdOrName(env.namespaces, in.cluster, Nil, in.secretNamespace)
      sec == FetchClusterResourceByIdOrName(env.secretRows, in.cluster, ns.id, in.secretName)
      live == {s \in env.secrets : s.name = sec.name /\ s.namespace = ns.name}
  IN  IF \/ in.secretName = "" \/ in.secretNamespace = ""
         \/ ns = Nil \/ sec = Nil \/ live = {}
         \/ \E s \in live : s.type # "cephCSI"
         \/ env.component = Nil \/ in.clusterId \notin DOMAIN env.component
        THEN Nil
      ELSE [monitors |-> env.component[in.clusterId],
            data |-> (CHOOSE s \in live : TRUE).data]

ListPools(conf, env) ==
  IF conf.monitors \in DOMAIN env.pools THEN env.pools[conf.monitors] ELSE {}

\* The parameters name the secret as the request did.
ToStorageClassParams(in) ==
  [clusterId |-> in.clusterId, pool |-> in.pool, secretName |-> in.secretName,
   secretNamespace |-> in.secretNamespace, fsType |-> in.fsType]

CreateStorageClass(in, env) ==
  LET conf == GetCephConfig(in, env)
  IN  IF \/ in.provisioner # "ceph" \/ conf = Nil
         \/ in.pool = "" \/ in.pool \notin ListPools(conf, env)
         \/ in.fsType \notin {"ext4", "xfs"} \/ in.features # "layering"
        THEN Refused
      ELSE Ok([name |-> in.name, params |-> ToStorageClassParams(in)])

-----------------------------------------------------------------------------
(* Roles and bindings. *)

\* The checks of the API machinery, on an object and on its replacement.
Valid(b) == b.subjects # {"invalid"} /\ b.role.kind \in {"Role", "ClusterRole"}
ValidUpdate(new, old) == Valid(new) /\ new.role = old.role

CreateBinding(in) ==
  IF in.role.kind \notin {"Role", "ClusterRole"} \/ ~Valid(in) THEN Refused ELSE Ok(in)

ValidRole(r) == "invalid" \notin r.rules
CreateRole(in) == IF ValidRole(in) THEN Ok(in) ELSE Refused
CreateClusterRole(in) == IF ValidRole(in) THEN Ok(in) ELSE Refused

\* These updates too are checked with the old and the new object exchanged: what is
\* looked at is the role that is in the cluster already.
UpdateRole(obj, in) ==
  LET new == [obj EXCEPT !.rules = in.rules]
  IN  IF ValidRole(obj) THEN Ok(new) ELSE Refused

UpdateClusterRole(obj, in) ==
  LET new == [obj EXCEPT !.rules = in.rules]
  IN  IF ValidRole(obj) THEN Ok(new) ELSE Refused

\* Mutant: the role reference may change.
UpdateBindingUnchecked(obj, in) ==
  IF Valid([obj EXCEPT !.subjects = in.subjects]) \/ Valid(obj)
    THEN Ok([obj EXCEPT !.subjects = in.subjects, !.role = in.role]) ELSE Refused

\* The update is checked with the old and the new object exchanged.
UpdateBinding(obj, in) ==
  LET new == [obj EXCEPT !.subjects = in.subjects, !.role = in.role]
  IN  IF ValidUpdate(obj, new) THEN Ok(new) ELSE Refused

-----------------------------------------------------------------------------
(* Limits and quotas. *)

\* One range per type of limit: a later entry of a type replaces the others.
ToLimitRangesMap(limits) ==
  [t \in {limits[k].type : k \in DOMAIN limits} |->
     LET k == Max({j \in DOMAIN limits : limits[j].type = t})
         fields == {"min", "max", "default"}
         Named(r) == {f \in fields : r \in DOMAIN limits[k][f]}
     IN  [r \in UNION {DOMAIN limits[k][f] : f \in fields} |->
            [f \in Named(r) |-> limits[k][f][r]]]]

ToRangeItem(limits) ==
  UNION {{<<t, r, ToLimitRangesMap(limits)[t][r]>> : r \in DOMAIN ToLimitRangesMap(limits)[t]} :
           t \in DOMAIN ToLimitRangesMap(limits)}

\* The status of a quota has the resources that are limited.
QuotaStatus(q) ==
  [r \in DOMAIN q.hard |-> [hard |-> q.hard[r],
                            used |-> IF r \in DOMAIN q.used THEN q.used[r] ELSE 0]]
=============================================================================
