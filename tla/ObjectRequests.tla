--------------------------- MODULE ObjectRequests ---------------------------
(***************************************************************************)
(* Requests about the kinds that only keep data.  Each behaviour answers   *)
(* one request, except that a binding is created and then updated twice,   *)
(* and that a ceph storage class is created over a secret this service     *)
(* has created.                                                            *)
(***************************************************************************)
EXTENDS ObjectHooks

CONSTANTS Rows1, Namespaces, Systems, SecretInputs, MapInputs, Maps, ClaimInputs,
          Pods1, Volumes1, BindingInputs, RoleInputs, ClassInputs, ComponentSettings, CephPools,
          LimitLists, Quotas

VARIABLE answer

Kinds == {"list", "owner", "secret", "configMap", "claim", "binding", "role", "limits"}

OrInit == \E k \in Kinds : answer = [kind |-> "none", ask |-> k]

Asked(k) == answer = [kind |-> "none", ask |-> k]

ListRows ==
  /\ Asked("list")
  /\ \E sys, allowed \in BOOLEAN, c \in {Nil, "c1"}, n \in {Nil, "ns1", "id-ns1", "x"} :
       answer' = [kind |-> "list",
         out |-> ListItemFilter(
                   FilterBySystemAttributes(Rows1, [system |-> sys], allowed, Systems),
                   [cluster |-> c, namespace |-> n], Namespaces)]

\* Pods and services listed by their owner, all of them or those of a cluster.
ListByOwner ==
  /\ Asked("owner")
  /\ \E S \in SUBSET Rows1, T \in SUBSET Rows1, o \in {r.name : r \in Rows1} :
       answer' = [kind |-> "owner",
                  out |-> CustomizeFilterList(S, T, o, {<<r.id, r.id>> : r \in Rows1})]

\* A secret is created; later its details and a claim on it are asked for.
AskSecret ==
  /\ Asked("secret")
  /\ \E in \in SecretInputs :
       answer' = [kind |-> "secret", in |-> in, out |-> CreateSecret(in),
                  pods |-> GetRawPods(in, "secret", Pods1)]

\* The storage class names the secret, and its namespace, by id or by name;
\* meanwhile the secret's row may be the only thing left of it.
AskStorageClass ==
  /\ answer.kind = "secret" /\ answer.out.result = "ok"
  /\ \E in \in ClassInputs, conf \in ComponentSettings, gone \in BOOLEAN :
       LET sec == answer.out.obj
           env == [namespaces |-> Namespaces, component |-> conf, pools |-> CephPools,
                   secretRows |-> {[id |-> "id-s", name |-> sec.name, cluster |-> "c1",
                                    namespace |-> "id-ns1"]},
                   secrets |-> IF gone THEN {} ELSE {sec}]
       IN  answer' = [kind |-> "class", in |-> in, env |-> env,
                      out |-> CreateStorageClass(in, env)]

AskConfigMap ==
  /\ Asked("configMap")
  /\ \E in \in MapInputs, obj \in Maps :
       answer' = [kind |-> "configMap", obj |-> obj, in |-> in,
                  created |-> CreateConfigMap(in), updated |-> UpdateConfigMap(obj, in),
                  pods |-> GetRawPods(in, "configMap", Pods1)]

AskClaim ==
  /\ Asked("claim")
  /\ \E in \in ClaimInputs, unused \in {Nil, TRUE, FALSE}, v \in Volumes1 :
       answer' = [kind |-> "claim", in |-> in, out |-> CreateClaim(in),
                  mounts |-> GetMountPodNames(in, Pods1), volume |-> GetPVCShortDesc(v),
                  rows |-> ListClaims({[status |-> "Bound"], [status |-> "Pending"]}, unused)]

AskBinding ==
  /\ Asked("binding")
  /\ \E in \in BindingInputs :
       answer' = [kind |-> "binding", was |-> in, out |-> CreateBinding(in), steps |-> 0]

ChangeBinding ==
  /\ answer.kind = "binding" /\ answer.out.result = "ok" /\ answer.steps < 2
  /\ \E in \in BindingInputs :
       answer' = [answer EXCEPT !.out = UpdateBinding(answer.out.obj, in), !.steps = @ + 1]

AskRole ==
  /\ Asked("role")
  /\ \E in \in RoleInputs, wide \in BOOLEAN :
       LET out == IF wide THEN CreateClusterRole(in) ELSE CreateRole(in)
       IN  answer' = [kind |-> "role", wide |-> wide, out |-> out, sent |-> in,
                      stored |-> IF out.result = "ok" THEN in ELSE [rules |-> {}], steps |-> 0]

\* The update task sends what the hook made, and the API server checks it.
ChangeRole ==
  /\ answer.kind = "role" /\ answer.steps < 2
  /\ answer.steps = 0 => answer.out.result = "ok"
  /\ \E in \in RoleInputs :
       LET out == IF answer.wide THEN UpdateClusterRole(answer.stored, in)
                  ELSE UpdateRole(answer.stored, in)
       IN  answer' = [answer EXCEPT !.out = out, !.sent = in, !.steps = @ + 1,
                                    !.stored = IF out.result = "ok" /\ ValidRole(out.obj)
                                                 THEN out.obj ELSE @]

AskLimits ==
  /\ Asked("limits")
  /\ \E l \in LimitLists, q \in Quotas :
       answer' = [kind |-> "limits", limits |-> l, items |-> ToRangeItem(l),
                  quota |-> QuotaStatus(q)]

OrNext ==
  \/ ListRows \/ ListByOwner \/ AskSecret \/ AskStorageClass \/ AskConfigMap
  \/ AskClaim \/ AskBinding \/ ChangeBinding \/ AskRole \/ ChangeRole \/ AskLimits

-----------------------------------------------------------------------------

\* CreateStorageClass, CreateSecret: a storage class that is accepted can be
\* served, because the secret in the cluster has the keys the provisioner
\* reads and the pool is one of the ceph cluster's - but the provisioner
\* finds the secret only when the request named it, and its namespace, by
\* name and not by id.
ClassUsable ==
  (answer.kind = "class" /\ answer.out.result = "ok") =>
    LET p == answer.out.obj.params
        found == {s \in answer.env.secrets :
                    s.name = p.secretName /\ s.namespace = p.secretNamespace}
    IN  /\ \A s \in answer.env.secrets :
             {"userID", "userKey"} \subseteq DOMAIN s.data
             /\ s.data["userID"] # "" /\ s.data["userKey"] # ""
        /\ p.pool \in answer.env.pools[answer.env.component[p.clusterId]]
        /\ found # {} \/ p.secretName = "id-s" \/ p.secretNamespace = "id-ns1"

\* UpdateBinding: however often a binding is updated, it never gets another
\* role, and what is wrong with its new subjects is left to the cluster.
RoleKept ==
  (answer.kind = "binding" /\ answer.out.result = "ok") =>
    answer.out.obj.role = answer.was.role

\* UpdateRole, UpdateClusterRole: a request to create a role is refused when its rules are
\* invalid; a request to change one never is, so that an invalid change fails in its task
\* and the cluster keeps the rules it had.
RulesChecked ==
  answer.kind = "role" =>
    /\ ValidRole(answer.stored)
    /\ answer.out.result = "ok" <=> (answer.steps = 0 => ValidRole(answer.sent))
    /\ ValidRole(answer.sent) => answer.stored.rules = answer.sent.rules

\* Requests about data are sound: the three properties above.
ObjectsSound == ClassUsable /\ RoleKept /\ RulesChecked
=============================================================================
