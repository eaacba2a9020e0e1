---- MODULE FederatedRoles ----
(***************************************************************************)
(* Federated roles and bindings (pkg/models/federated_*role*.go): the      *)
(* checks a request passes, the content each kind gives to its object of a *)
(* cluster, what a list of joint rows shows, and the fan-out that asks     *)
(* every running cluster which resources, users and groups it has          *)
(* (pkg/models/federated_utils.go).                                        *)
(*                                                                         *)
(* There is one federated object of each kind, and a second cluster role   *)
(* that exists in name only, for a binding to be pointed at.  A task       *)
(* of the federation (module Federation) is one step here, SyncCreates or  *)
(* SyncUpdates: what matters is which content the checks let through, not  *)
(* how the tasks interleave.                                               *)
(***************************************************************************)
EXTENDS Naturals, SequencesExt

CONSTANTS
  MaxVersion,    \* bounds the versions of rules and subjects
  MaxOthers,     \* bounds what others do in the cluster
  FrClusters     \* clusters the fan-out may ask, a set of records

ASSUME FederatedRolesAssumption ==
  MaxVersion \in Nat \ {0} /\ MaxOthers \in Nat /\ IsFiniteSet(FrClusters)

VARIABLES
  kinds,     \* the kinds users work with; empty when they only ask clusters
  fr,        \* federated objects; version 0 when absent
  jt,        \* joint row of each object: none, joint (not bound yet) or bound
  rm,        \* objects in the cluster, by kind and namespace
  clu,       \* the cluster: up, purged (joint rows removed) or gone
  own,       \* history: places filled by the federated object that exists now
  dropped,   \* history: kinds of role deleted since the binding was created
  others,    \* interventions so far
  shown,     \* details of the joint row listed last, or the refusal
  ask        \* the fan-out

ClusterRoles == {"clusterrole", "clusterrole2"}
Roles == ClusterRoles \cup {"role"}
Bindings == {"clusterrolebinding", "rolebinding"}
FrObjs == Roles \cup Bindings
Namespaced == {"role", "rolebinding"}
Ns == {"a", "b"}
Places == {p \in FrObjs \X (Ns \cup {"none"}) : p[1] \in Namespaced <=> p[2] # "none"}

frVars == <<kinds, fr, jt, rm, clu, own, dropped, others, shown, ask>>

\* Rules or subjects are a version; ref is the role a binding names.
Absent == [v |-> 0, ref |-> "none", ns |-> "none"]
Content == [v : 0..MaxVersion, ref : Roles \cup {"none"}, ns : Ns \cup {"none"}]
NotShown == [obj |-> "none", resource |-> FALSE, status |-> "none"]
NoAsk == [st |-> "idle", list |-> <<>>, i |-> 0, going |-> {}, results |-> <<>>, err |-> FALSE,
          ans |-> {}]

Created(o) == fr[o].v > 0
Place(o) == <<o, fr[o].ns>>

\* A sort of binding and a sort of role it may name.
FrInit ==
  /\ kinds \in {{"clusterrole", "clusterrolebinding"}, {"clusterrole", "rolebinding"},
                Namespaced, {}}
  /\ fr = [o \in FrObjs |-> Absent] /\ jt = [o \in FrObjs |-> "none"]
  /\ rm = [p \in Places |-> Absent]
  /\ clu = "up" /\ own = {} /\ dropped = {} /\ others \in 0..MaxOthers
  /\ shown = NotShown /\ ask = NoAsk

-----------------------------------------------------------------------------
(* What the validations let through. *)

\* ValidateFederatedRoleRef finds the role by name, in whatever namespace.
ValidateFederatedRoleRef(ref) == ref \in Roles /\ Created(ref)

\* The validations of Kubernetes: a cluster role binding names a cluster role, a role
\* binding names either.
ValidateClusterRoleBinding(b) == b.v > 0 /\ b.ref \in ClusterRoles
ValidateRoleBinding(b) == b.v > 0 /\ b.ref \in Roles

\* GetK8sObjectMeta gives a name and a namespace; there is no resource version.
HasResourceVersion(meta) == "version" \in meta
FedObjectMeta(o) == {"name"} \cup IF o \in Namespaced THEN {"namespace"} ELSE {}

\* Mutant: the role references are not compared.
ValidateUpdateFedClusterRoleBindingAnyRef(old, new) == ValidateClusterRoleBinding(new)

\* ValidateUpdateFedClusterRoleBindingObject compares the role references.
ValidateUpdateFedClusterRoleBinding(old, new) ==
  ValidateClusterRoleBinding(new) /\ new.ref = old.ref

\* A federated role binding goes through the check of a cluster's role binding
\* (ValidateUpdateRoleBindingObject), which demands a resource version: there is none,
\* and every update is refused.
ValidateUpdateFedRoleBinding(old, new) ==
  /\ ValidateRoleBinding(old) /\ HasResourceVersion(FedObjectMeta("rolebinding"))
  /\ new.ref = old.ref

\* The cluster's own check of an update: its objects do have a resource version.
ValidateUpdateClusterRoleBindingObject(old, new) ==
  ValidateClusterRoleBinding(old) /\ old.ref = new.ref

ValidateUpdateRoleBindingObject(old, new) == ValidateRoleBinding(old) /\ old.ref = new.ref

-----------------------------------------------------------------------------
(* Requests. *)

Silent == shown' = NotShown /\ UNCHANGED ask

\* A federated object is inserted; what an earlier one of the name left in the cluster is
\* not its own.
Insert(o, new) ==
  /\ ~Created(o) /\ fr' = [fr EXCEPT ![o] = new]
  /\ own' = {p \in own : p[1] # o}
  /\ dropped' = {d \in dropped : d[1] # o}
  /\ UNCHANGED <<jt, rm, clu, others>> /\ Silent

Update(o, new) ==
  /\ Created(o) /\ fr[o].v < MaxVersion
  /\ fr' = [fr EXCEPT ![o] = new]
  /\ UNCHANGED <<jt, rm, clu, own, dropped, others>> /\ Silent

\* The user is told that the request is not valid.
Refuse(o) ==
  /\ Created(o) /\ shown' = [NotShown EXCEPT !.obj = o, !.status = "refused"]
  /\ UNCHANGED <<fr, jt, rm, clu, own, dropped, others, ask>>

CreateFedClusterRole == Insert("clusterrole", [v |-> 1, ref |-> "none", ns |-> "none"])

\* The federated namespace must exist.
CreateFedRole(ns) == ns \in Ns /\ Insert("role", [v |-> 1, ref |-> "none", ns |-> ns])

CreateFedClusterRoleBinding(ref) ==
  LET new == [v |-> 1, ref |-> ref, ns |-> "none"]
  IN /\ ValidateFederatedRoleRef(ref) /\ ValidateClusterRoleBinding(new)
     /\ Insert("clusterrolebinding", new)

CreateFedRoleBinding(ref, ns) ==
  LET new == [v |-> 1, ref |-> ref, ns |-> ns]
  IN /\ ns \in Ns /\ ValidateFederatedRoleRef(ref) /\ ValidateRoleBinding(new)
     /\ Insert("rolebinding", new)

\* The rules of a request are valid, or the request is refused.
UpdateFedClusterRole == Update("clusterrole", [fr["clusterrole"] EXCEPT !.v = @ + 1])

UpdateFedRole == Update("role", [fr["role"] EXCEPT !.v = @ + 1])

UpdateFedClusterRoleBinding(ref) ==
  LET old == fr["clusterrolebinding"]
      new == [old EXCEPT !.v = @ + 1, !.ref = ref]
  IN IF ValidateUpdateFedClusterRoleBinding(old, new) THEN Update("clusterrolebinding", new)
     ELSE Refuse("clusterrolebinding")

UpdateFedRoleBinding(ref) ==
  LET old == fr["rolebinding"]
      new == [old EXCEPT !.v = @ + 1, !.ref = ref]
  IN IF ValidateUpdateFedRoleBinding(old, new) THEN Update("rolebinding", new)
     ELSE Refuse("rolebinding")

\* ValidateDeleteCondition asks for attached clusters only: a binding may still
\* name the role.
DeleteFedRole(o) ==
  /\ Created(o) /\ (jt[o] = "none" \/ clu = "gone")
  /\ fr' = [fr EXCEPT ![o] = Absent]
  /\ own' = {p \in own : p[1] # o}
  /\ dropped' = dropped \cup ({<<b, o>> : b \in Bindings} \cap (Bindings \X Roles))
  /\ UNCHANGED <<jt, rm, clu, others>> /\ Silent

Attach(o) ==
  /\ Created(o) /\ jt[o] = "none" /\ clu # "gone"
  /\ jt' = [jt EXCEPT ![o] = "joint"]
  /\ UNCHANGED <<fr, rm, clu, own, dropped, others>> /\ Silent

\* The joint row goes, the object of the cluster stays.
Detach(o) ==
  /\ Created(o) /\ jt[o] # "none" /\ clu # "gone"
  /\ jt' = [jt EXCEPT ![o] = "none"]
  /\ UNCHANGED <<fr, rm, clu, own, dropped, others>> /\ Silent

\* GetResourceCreateData and GetResourceUpdateData of each kind: rules, or subjects and
\* the role reference.
ClusterRoleData(old) == [old EXCEPT !.v = fr["clusterrole"].v]
RoleData(old) == [old EXCEPT !.v = fr["role"].v, !.ns = fr["role"].ns]
ClusterRoleBindingData(old) ==
  [old EXCEPT !.v = fr["clusterrolebinding"].v, !.ref = fr["clusterrolebinding"].ref]
RoleBindingData(old) == fr["rolebinding"]

GetResourceData(o, old) ==
  CASE o = "clusterrole" -> ClusterRoleData(old)
    [] o = "role" -> RoleData(old)
    [] o = "clusterrolebinding" -> ClusterRoleBindingData(old)
    [] o = "rolebinding" -> RoleBindingData(old)

UpdateAccepted(o, old, new) ==
  /\ o = "clusterrolebinding" => ValidateUpdateClusterRoleBindingObject(old, new)
  /\ o = "rolebinding" => ValidateUpdateRoleBindingObject(old, new)

SyncCreates(o) ==
  /\ Created(o) /\ jt[o] # "none" /\ clu = "up" /\ rm[Place(o)] = Absent
  /\ rm' = [rm EXCEPT ![Place(o)] = GetResourceData(o, Absent)]
  /\ jt' = [jt EXCEPT ![o] = "bound"]
  /\ own' = own \cup {Place(o)}
  /\ UNCHANGED <<fr, clu, dropped, others>> /\ Silent

\* The object found by name is bound whether or not the update is let through.
SyncUpdates(o) ==
  /\ Created(o) /\ jt[o] # "none" /\ clu = "up" /\ rm[Place(o)] # Absent
  /\ jt' = [jt EXCEPT ![o] = "bound"]
  /\ LET old == rm[Place(o)]
         new == GetResourceData(o, old)
     IN rm' = IF UpdateAccepted(o, old, new) THEN [rm EXCEPT ![Place(o)] = new] ELSE rm
  /\ UNCHANGED <<fr, clu, own, dropped, others>> /\ Silent

OthersDeleteObject(p) ==
  /\ others < MaxOthers /\ others' = others + 1
  /\ rm[p] # Absent /\ rm' = [rm EXCEPT ![p] = Absent]
  /\ own' = own \ {p}
  /\ UNCHANGED <<fr, jt, clu, dropped>> /\ Silent

OthersCreateBinding(p, ref) ==
  /\ others < MaxOthers /\ others' = others + 1
  /\ p[1] \in Bindings /\ rm[p] = Absent
  /\ ref \in IF p[1] = "rolebinding" THEN Roles ELSE ClusterRoles
  /\ rm' = [rm EXCEPT ![p] = [v |-> 1, ref |-> ref, ns |-> p[2]]]
  /\ UNCHANGED <<fr, jt, clu, own, dropped>> /\ Silent

\* PurgeAllByCluster, then the cluster's row: an attach may come between.
PurgeAllByCluster ==
  /\ clu = "up" /\ clu' = "purged"
  /\ jt' = [o \in FrObjs |-> "none"]
  /\ UNCHANGED <<fr, rm, own, dropped, others>> /\ Silent

RemoveClusterRow ==
  /\ clu = "purged" /\ clu' = "gone"
  /\ UNCHANGED <<fr, jt, rm, own, dropped, others>> /\ Silent

-----------------------------------------------------------------------------
(* Lists of joint rows. *)

\* ListItemFilter looks a filter's cluster up first: a list by a cluster that is gone
\* is refused.
ListItemFilter(o, byCluster) == jt[o] # "none" /\ (byCluster => clu # "gone")

\* GetDetails.  FetchClusterNamespace dereferences the cluster, nil when it is gone.
GetDetails(o) ==
  [obj |-> o,
   resource |-> jt[o] = "bound" /\ rm[Place(o)] # Absent,
   status |-> IF o \in Namespaced /\ Created(o) /\ clu = "gone" THEN "panic"
              ELSE IF jt[o] = "joint" THEN "not_bind"
              ELSE IF rm[Place(o)] # Absent THEN "active" ELSE ""]

ShowJoint(o, byCluster) ==
  /\ Created(o) /\ ListItemFilter(o, byCluster)
  /\ shown' = GetDetails(o)
  /\ UNCHANGED <<fr, jt, rm, clu, own, dropped, others, ask>>

-----------------------------------------------------------------------------
(* The fan-out. *)

\* GetFedRunningCluster: running clusters, of the user's domain unless the scope is
\* the system, in any order: the query names none.
GetFedRunningCluster(system) ==
  SetToSeqs({c \in FrClusters : c.running /\ (system \/ c.domain = "mine")})

\* Verbless resources and unreadable groups are left out, and an error of the discovery
\* is only logged: what could be listed is the answer.
GetDetailsApiResources(c) == [nil |-> FALSE, set |-> c.has]

\* GetDetailsClusterUsers, GetDetailsClusterUserGroups: users and groups exist on
\* OpenShift only, elsewhere the answer is nil.
GetDetailsClusterUsers(c) ==
  IF c.openshift THEN [nil |-> FALSE, set |-> c.has] ELSE [nil |-> TRUE, set |-> {}]

RemoteResources(c, what) ==
  IF what = "api" THEN GetDetailsApiResources(c) ELSE GetDetailsClusterUsers(c)

NilResult == [nil |-> TRUE, set |-> {}]

AskClusters(what, system) ==
  /\ ask.st \in {"idle", "answered"}
  /\ \E list \in GetFedRunningCluster(system) :
       ask' = [NoAsk EXCEPT !.st = IF list = <<>> THEN "answered" ELSE what, !.list = list,
                            !.results = [k \in DOMAIN list |-> NilResult]]
  /\ UNCHANGED <<fr, jt, rm, clu, own, dropped, others, shown>>

Asking == ask.st \in {"api", "users", "groups"}

\* The loop starts one goroutine per cluster; they share the loop variable i.
Launch ==
  /\ Asking /\ ask.i < Len(ask.list)
  /\ ask' = [ask EXCEPT !.i = @ + 1, !.going = @ \cup {ask.i + 1}]
  /\ UNCHANGED <<fr, jt, rm, clu, own, dropped, others, shown>>

\* A goroutine stores its result where i points by then.
Store(k) ==
  /\ Asking /\ k \in ask.going
  /\ ask' = [ask EXCEPT !.going = @ \ {k},
                        !.results = [@ EXCEPT ![ask.i] = RemoteResources(ask.list[k], ask.st)]]
  /\ UNCHANGED <<fr, jt, rm, clu, own, dropped, others, shown>>

AskFails(k) ==
  /\ Asking /\ k \in ask.going
  /\ ask' = [ask EXCEPT !.going = @ \ {k}, !.err = TRUE]
  /\ UNCHANGED <<fr, jt, rm, clu, own, dropped, others, shown>>

\* operateSet appends to a copy of the slice header and drops what Append returns:
\* the set it returns is the new, empty one.
operateSet(rs, ors, isUnion) ==
  LET marks == IF isUnion THEN rs \cup ors ELSE rs
      New == {}
      Append1(ret, res) == ret
  IN IF marks = {} THEN New ELSE Append1(New, CHOOSE r \in marks : TRUE)

\* The union of the answers that are not nil takes the first and goes over those between
\* it and the last, which it leaves out.
UnionOf(results) ==
  LET fRess == {k \in DOMAIN results : ~results[k].nil}
      heads == {k \in fRess : \A m \in fRess : k <= m}
      first == UNION {results[k].set : k \in heads}
      between == {k \in fRess \ heads : \E m \in fRess : k < m}
      rest == UNION {results[k].set : k \in between}
  IN IF between = {} THEN first ELSE operateSet(first, rest, TRUE)

Wait ==
  /\ Asking /\ ask.i = Len(ask.list) /\ ask.going = {}
  /\ ask' = IF ask.err THEN [NoAsk EXCEPT !.err = TRUE]
            ELSE [ask EXCEPT !.st = "answered",
                             !.ans = UnionOf(ask.results)]
  /\ UNCHANGED <<fr, jt, rm, clu, own, dropped, others, shown>>

\* The requests on roles and the fan-out share no state: a behaviour has one or the
\* other.
FrNext ==
  /\ UNCHANGED kinds
  /\ \/ "clusterrole" \in kinds /\ (CreateFedClusterRole \/ UpdateFedClusterRole)
     \/ "role" \in kinds /\ (UpdateFedRole \/ \E ns \in Ns : CreateFedRole(ns))
     \/ /\ "clusterrolebinding" \in kinds
        /\ \E ref \in Roles : CreateFedClusterRoleBinding(ref) \/ UpdateFedClusterRoleBinding(ref)
     \/ /\ "rolebinding" \in kinds
        /\ \E ref \in Roles : \/ \E ns \in Ns : CreateFedRoleBinding(ref, ns)
                               \/ UpdateFedRoleBinding(ref)
     \/ \E o \in kinds : DeleteFedRole(o) \/ Attach(o) \/ Detach(o) \/ SyncCreates(o) \/ SyncUpdates(o)
     \/ \E o \in kinds, b \in BOOLEAN : ShowJoint(o, b)
     \/ \E p \in Places : p[1] \in kinds /\ (OthersDeleteObject(p) \/ \E ref \in Roles : OthersCreateBinding(p, ref))
     \/ kinds # {} /\ (PurgeAllByCluster \/ RemoveClusterRow)
     \/ /\ kinds = {}
        /\ \/ \E what \in {"api", "users", "groups"}, s \in BOOLEAN : AskClusters(what, s)
           \/ Launch \/ Wait \/ \E k \in ask.going : Store(k) \/ AskFails(k)

FrSpec == FrInit /\ [][FrNext]_frVars

-----------------------------------------------------------------------------
(* Properties. *)

\* A binding that a federated binding created in the cluster names the role the
\* federated binding names, as long as that one exists: federated_clusterrolebindings.go
\* and federated_rolebindings.go refuse a change that the cluster would refuse.
BoundRefsAgree ==
  \A o \in Bindings : (Created(o) /\ Place(o) \in own) => rm[Place(o)].ref = fr[o].ref

\* A federated binding names a federated role that existed when it was created; it
\* dangles only when the role was deleted since, which nothing refuses.
DanglingExplained ==
  \A o \in Bindings : Created(o) => Created(fr[o].ref) \/ <<o, fr[o].ref>> \in dropped

\* A list of joint rows fails on a nil cluster only when a joint row outlived its
\* cluster, and a bound row shows an object that is there.
ShownExplained ==
  /\ shown.status = "panic" => clu = "gone" /\ shown.obj \in Namespaced
  /\ shown.status = "active" => rm[Place(shown.obj)] # Absent

\* The fan-out answers with the complete list of one cluster it asked, or with nothing;
\* when it asks one cluster the list is that cluster's.  An error of one cluster never
\* passes for an answer.
FanOutExplained ==
  ask.st = "answered" =>
    /\ ~ask.err
    /\ ask.ans = {} \/ \E k \in DOMAIN ask.list : ask.ans = ask.list[k].has
    /\ Len(ask.list) = 1 => ask.ans \in {{}, ask.list[1].has}

FederatedRolesSound ==
  /\ fr \in [FrObjs -> Content] /\ jt \in [FrObjs -> {"none", "joint", "bound"}]
  /\ BoundRefsAgree /\ DanglingExplained /\ ShownExplained /\ FanOutExplained
====
