------------------------------ MODULE KindTree ------------------------------
(***************************************************************************)
(* The copies of several kinds of objects of one cluster.  The managers of *)
(* the kinds form a tree, nodes above namespaces above the namespaced      *)
(* kinds (pods stand for these): a synchronisation walks it from the root, *)
(* a purge from the leaves.  A row refers to rows of other kinds by id: a  *)
(* pod's to the row of its namespace and of its node.                      *)
(*                                                                         *)
(* ResourceSync models how the rows of one kind are written.  This module  *)
(* is about what depends on more than one kind: references that cannot be  *)
(* resolved, event handlers of different kinds that overtake each other,   *)
(* a failure at one level that ends the whole walk, the deletion of a      *)
(* namespace or of the cluster, and garbage collection.                    *)
(*                                                                         *)
(* Each kind has its own informer, with a store and a handler goroutine:   *)
(* `cached[k]' changes of kind k are in the store, `handled[k]' have been  *)
(* given to the handler.  A version is a change's place in log[k].         *)
(***************************************************************************)
EXTENDS Integers, Sequences, FiniteSets

CONSTANTS
  NodeNames, NsNames, PodNames,
  NoName,       \* no namespace or node
  MaxChanges,   \* bound on changes of the cluster after the initial ones
  MaxRows,      \* bound on row ids in use at a time
  MaxFaults     \* bound on failed lists and deletions together

VARIABLES
  log, cached, handled,
  rows,         \* rows of all kinds
  flag,         \* bidirectional synchronisation is on
  pending,      \* the row each actor is about to insert, or {}
  sync,         \* the synchronisation
  seen,         \* history: changes in each store when the walk listed it
  alone,        \* history: only the walk wrote rows since it began
  inTask,       \* ids of namespace rows with a delete task
  cluster,      \* "live", the level being purged, or "gone"
  passes,       \* history: collections since nothing was under way, up to 2
  changes, faults

remoteVars == <<log, cached>>
boundVars == <<changes, faults>>
treeVars == <<rows, flag, pending, sync, seen, alone, inTask, cluster, passes>>
treeAll == <<log, cached, handled, treeVars, boundVars>>

-----------------------------------------------------------------------------
(* The tree of managers *)

\* SubManagers of the cluster, of the node and of the namespace manager, in
\* the order a synchronisation visits them.
Levels == <<"node", "namespace", "pod">>
Kinds == {Levels[l] : l \in 1..3}
Actors == Kinds \cup {"sync"}
LevelOf(k) == CHOOSE l \in 1..3 : Levels[l] = k

-----------------------------------------------------------------------------
(* The cluster *)

Object(k, v) == [kind |-> k, name |-> log[k][v].name, ns |-> log[k][v].ns,
                 node |-> log[k][v].node, uid |-> log[k][v].uid, ver |-> v]

SameName(a, b) == a.name = b.name /\ a.ns = b.ns

\* The objects there are after n changes.
Listing(k, n) ==
  {Object(k, v) : v \in {w \in 1..n :
      /\ log[k][w].uid # 0
      /\ \A o \in (w + 1)..n : ~SameName(log[k][o], log[k][w])}}

Objects(k) == Listing(k, Len(log[k]))

Change(k, change) ==
  /\ changes < MaxChanges
  /\ changes' = changes + 1
  /\ log' = [log EXCEPT ![k] = Append(@, change)]
  /\ UNCHANGED <<cached, handled, treeVars, faults>>

NameOf(k) == CASE k = "node" -> NodeNames [] k = "namespace" -> NsNames
               [] OTHER -> PodNames

\* A namespaced object needs its namespace; it is scheduled at once or not.
RemoteCreate(k) ==
  \E n \in NameOf(k),
     ns \in IF k = "pod" THEN {o.name : o \in Objects("namespace")} ELSE {NoName},
     node \in IF k = "pod" THEN {NoName} \cup {o.name : o \in Objects("node")}
              ELSE {NoName} :
    /\ ~\E o \in Objects(k) : o.name = n /\ o.ns = ns
    /\ Change(k, [name |-> n, ns |-> ns, node |-> node, uid |-> Len(log[k]) + 1])

RemoteSchedule ==
  \E o \in Objects("pod"), n \in Objects("node") :
    /\ o.node = NoName
    /\ Change("pod", [name |-> o.name, ns |-> o.ns, node |-> n.name, uid |-> o.uid])

\* A namespace goes when it is empty.
RemoteDelete(k) ==
  \E o \in Objects(k) :
    /\ k = "namespace" => ~\E p \in Objects("pod") : p.ns = o.name
    /\ Change(k, [name |-> o.name, ns |-> o.ns, node |-> o.node, uid |-> 0])

InformerApply(k) ==
  /\ cached[k] < Len(log[k])
  /\ cached' = [cached EXCEPT ![k] = @ + 1]
  /\ UNCHANGED <<log, handled, treeVars, boundVars>>

-----------------------------------------------------------------------------
(* Rows *)

RowsOf(k) == {r \in rows : r.kind = k}

Referenced ==
  UNION {{r.id, r.ns, r.node} : r \in rows}
    \cup UNION {{p.ns, p.node} : p \in UNION {pending[a] : a \in Actors}}
    \cup {r.id : r \in sync.toRemove} \cup {p.row.id : p \in sync.toUpdate}
    \cup inTask
FreeIds == (1..MaxRows) \ Referenced

\* FetchClusterResourceByName of a cluster-scoped kind: the row, or none.
ByName(k, name) == {r \in RowsOf(k) : r.name = name}

\* IsRemoteObjectLocalExist of a namespaced kind: no row of the namespace
\* means no row of the object.
NsRows(obj) == {r \in RowsOf("namespace") : r.name = obj.ns}
LocalExist(obj) ==
  IF obj.kind = "pod"
  THEN {r \in RowsOf("pod") : r.name = obj.name /\ \E n \in NsRows(obj) : r.ns = n.id}
  ELSE ByName(obj.kind, obj.name)

\* The lookups of the managers' NewFromRemoteObject succeed.
Resolvable(obj) ==
  obj.kind = "pod" =>
    /\ NsRows(obj) # {}
    /\ obj.node # NoName => ByName("node", obj.node) # {}

IdOf(rs) == IF rs = {} THEN 0 ELSE (CHOOSE r \in rs : TRUE).id

\* The row NewFromRemoteObject builds, before it has an id and a version.
NewFromRemoteObject(obj) ==
  [kind |-> obj.kind, name |-> obj.name, uid |-> obj.uid, obj |-> obj,
   ns |-> IF obj.kind = "pod" THEN IdOf(NsRows(obj)) ELSE 0,
   node |-> IF obj.kind = "pod" /\ obj.node # NoName
            THEN IdOf(ByName("node", obj.node)) ELSE 0]

\* Mutant: an object that did not change is refused too.
RefusedOrEqual(copy, obj) ==
  \/ obj.ver <= copy.ver
  \/ obj.kind = "pod" /\ NsRows(obj) = {}

\* UpdateFromRemoteObject refuses an older object, and a namespaced object
\* whose namespace has no row.
Refused(copy, obj) ==
  \/ obj.ver < copy.ver
  \/ obj.kind = "pod" /\ NsRows(obj) = {}

\* The columns UpdateFromRemoteObject writes; the node's is not among them.
Updated(row, obj) ==
  [row EXCEPT !.ver = obj.ver, !.uid = obj.uid, !.name = obj.name,
              !.ns = IF obj.kind = "pod" THEN IdOf(NsRows(obj)) ELSE 0]

\* The rows after an update of the copy of a row, which may be gone.
UpdateRow(copy, obj) ==
  IF Refused(copy, obj) THEN rows
  ELSE {IF r.id = copy.id THEN Updated(r, obj) ELSE r : r \in rows}

\* The class lock of a kind is held from the lookup to the insertion.
ClassUnlocked(k) ==
  pending[k] = {} /\ \A p \in pending["sync"] : p.kind # k

\* Insertion of a pending row and its first update, which may be refused and
\* leaves the row as it was inserted.
Inserted(p, id) ==
  LET row == [id |-> id, kind |-> p.kind, name |-> p.name, uid |-> p.uid,
              ns |-> p.ns, node |-> p.node, ver |-> 0]
  IN IF Refused(row, p.obj) THEN row ELSE Updated(row, p.obj)
InsertFails(p) == p.kind = "pod" /\ NsRows(p.obj) = {}

-----------------------------------------------------------------------------
(* Event handlers, one goroutine per kind *)

\* processRemoteObjectDelete: without the namespace's row it is an error.
EventDelete(k, change) ==
  LET found == IF k = "pod"
               THEN {r \in RowsOf(k) : r.name = change.name
                       /\ \E n \in NsRows(change) : r.ns = n.id}
               ELSE ByName(k, change.name)
  IN rows' = rows \ found /\ UNCHANGED pending

\* processCreateOrUpdateByRemoteObject
EventCreateOrUpdate(k, obj) ==
  IF LocalExist(obj) # {}
  THEN /\ rows' = UpdateRow(CHOOSE r \in LocalExist(obj) : TRUE, obj)
       /\ UNCHANGED pending
  ELSE /\ ClassUnlocked(k)
       /\ pending' = IF Resolvable(obj)
                     THEN [pending EXCEPT ![k] = {NewFromRemoteObject(obj)}]
                     ELSE pending
       /\ UNCHANGED rows

\* With the flag off the event is dropped.
HandleEvent(k) ==
  /\ cluster = "live" /\ pending[k] = {} /\ handled[k] < cached[k]
  /\ handled' = [handled EXCEPT ![k] = @ + 1]
  /\ LET change == log[k][handled[k] + 1]
     IN IF ~flag THEN UNCHANGED <<rows, pending, alone>>
        ELSE /\ IF change.uid = 0 THEN EventDelete(k, change)
                ELSE EventCreateOrUpdate(k, Object(k, handled[k] + 1))
             /\ alone' = FALSE
  /\ UNCHANGED <<remoteVars, flag, sync, seen, inTask, cluster, passes, boundVars>>

EventInsert(k) ==
  \E p \in pending[k], id \in FreeIds :
    /\ id = CHOOSE f \in FreeIds : TRUE
    /\ rows' = rows \cup {Inserted(p, id)}
    /\ pending' = [pending EXCEPT ![k] = {}]
    /\ alone' = FALSE
    /\ UNCHANGED <<remoteVars, handled, flag, sync, seen, inTask, cluster, passes,
                   boundVars>>

-----------------------------------------------------------------------------
(* Synchronisation *)

Idle == [pc |-> "idle", level |-> 1, list |-> {}, toRemove |-> {},
         toUpdate |-> {}, toAdd |-> {}, err |-> FALSE]

\* SubmitSyncTask
SubmitSync ==
  /\ cluster = "live" /\ sync.pc \in {"idle", "ok", "error"}
  /\ flag' = FALSE
  /\ sync' = [Idle EXCEPT !.pc = "list"]
  /\ seen' = [k \in Kinds |-> 0]
  /\ alone' = (\A k \in Kinds : pending[k] = {})
  /\ UNCHANGED <<remoteVars, handled, rows, pending, inTask, cluster, passes, boundVars>>

SyncKind == Levels[sync.level]
SyncError == sync' = [Idle EXCEPT !.pc = "error"]

\* The client of a cluster that is being deleted is gone.
SyncFail ==
  /\ sync.pc = "list"
  /\ \/ cluster # "live" /\ UNCHANGED faults
     \/ cluster = "live" /\ faults < MaxFaults /\ faults' = faults + 1
  /\ SyncError
  /\ UNCHANGED <<remoteVars, handled, rows, flag, pending, seen, alone, inTask,
                 cluster, passes, changes>>

\* Handler.List reads the informer's store: what the cache has by now.
HandlerList(k) == Listing(k, cached[k])

ListRemoteObjects ==
  /\ sync.pc = "list" /\ cluster = "live"
  /\ sync' = [sync EXCEPT !.pc = "load",
                          !.list = HandlerList(SyncKind)]
  /\ seen' = [seen EXCEPT ![SyncKind] = cached[SyncKind]]
  /\ UNCHANGED <<remoteVars, handled, rows, flag, pending, alone, inTask,
                 cluster, passes, boundVars>>

\* GetClusterModelObjects, the check for tasks and CompareRemoteObjectSets,
\* which pairs one row with an object and removes other rows of its uid (see
\* SetCompare).
LoadAndCompare ==
  /\ sync.pc = "load"
  /\ LET local == RowsOf(SyncKind)
         Listed(r) == {o \in sync.list : o.uid = r.uid}
     IN \/ /\ \E r \in local : r.id \in inTask
           /\ SyncError
        \/ /\ \A r \in local : r.id \notin inTask
           /\ \E kept \in SUBSET local :
                /\ {r.uid : r \in kept} = {r.uid : r \in local} \cap {o.uid : o \in sync.list}
                /\ \A r, q \in kept : r.uid = q.uid => r = q
                /\ sync' = [sync EXCEPT !.pc = "apply", !.list = {},
                     !.toRemove = local \ kept,
                     !.toUpdate = {[row |-> r, obj |-> CHOOSE o \in Listed(r) : TRUE] : r \in kept},
                     !.toAdd = {o \in sync.list : o.uid \notin {r.uid : r \in local}}]
  /\ UNCHANGED <<remoteVars, handled, rows, flag, pending, seen, alone, inTask,
                 cluster, passes, boundVars>>

RemoveOne ==
  /\ sync.pc = "apply"
  /\ \E r \in sync.toRemove :
       /\ rows' = {x \in rows : x.id # r.id}
       /\ sync' = [sync EXCEPT !.toRemove = @ \ {r}]
  /\ UNCHANGED <<remoteVars, handled, flag, pending, seen, alone, inTask, cluster,
                 passes, boundVars>>

UpdateOne ==
  /\ sync.pc = "apply" /\ sync.toRemove = {}
  /\ \E p \in sync.toUpdate :
       /\ rows' = UpdateRow(p.row, p.obj)
       /\ sync' = [sync EXCEPT !.toUpdate = @ \ {p},
                               !.err = @ \/ Refused(p.row, p.obj)]
  /\ UNCHANGED <<remoteVars, handled, flag, pending, seen, alone, inTask, cluster,
                 passes, boundVars>>

\* NewFromRemoteObject under the class lock: a row that exists, or a
\* reference that does not resolve, is an error of the kind.
AddOne ==
  /\ sync.pc = "apply" /\ sync.toRemove = {} /\ sync.toUpdate = {}
  /\ ClassUnlocked(SyncKind)
  /\ \E obj \in sync.toAdd :
       IF LocalExist(obj) # {} \/ ~Resolvable(obj)
       THEN /\ sync' = [sync EXCEPT !.toAdd = @ \ {obj}, !.err = TRUE]
            /\ UNCHANGED pending
       ELSE /\ pending' = [pending EXCEPT !["sync"] = {NewFromRemoteObject(obj)}]
            /\ sync' = [sync EXCEPT !.toAdd = @ \ {obj}]
  /\ UNCHANGED <<remoteVars, handled, rows, flag, seen, alone, inTask, cluster, passes,
                 boundVars>>

InsertOne ==
  \E p \in pending["sync"], id \in FreeIds :
    /\ id = CHOOSE f \in FreeIds : TRUE
    /\ rows' = rows \cup {Inserted(p, id)}
    /\ pending' = [pending EXCEPT !["sync"] = {}]
    /\ sync' = [sync EXCEPT !.err = @ \/ InsertFails(p)]
    /\ UNCHANGED <<remoteVars, handled, flag, seen, alone, inTask, cluster, passes,
                   boundVars>>

\* SyncClusterResources after a kind: its error ends the walk, else its
\* sub-managers follow; the end switches the events on again.
NextKind ==
  IF sync.err THEN SyncError /\ UNCHANGED flag
  ELSE IF sync.level = 3 THEN sync' = [Idle EXCEPT !.pc = "ok"] /\ flag' = TRUE
  ELSE /\ sync' = [Idle EXCEPT !.pc = "list", !.level = sync.level + 1]
       /\ UNCHANGED flag

KindDone ==
  /\ sync.pc = "apply" /\ pending["sync"] = {}
  /\ sync.toRemove = {} /\ sync.toUpdate = {} /\ sync.toAdd = {}
  /\ NextKind
  /\ UNCHANGED <<remoteVars, handled, rows, pending, seen, alone, inTask, cluster,
                 passes, boundVars>>

-----------------------------------------------------------------------------
(* Deletions and garbage collection *)

\* SNamespace.Delete: refused while pods are known in it.
DeleteNamespace ==
  /\ cluster = "live" /\ faults < MaxFaults
  /\ \E r \in RowsOf("namespace") :
       /\ r.id \notin inTask
       /\ \A p \in RowsOf("pod") : p.ns # r.id
       /\ inTask' = inTask \cup {r.id}
  /\ faults' = faults + 1
  /\ UNCHANGED <<remoteVars, handled, rows, flag, pending, sync, seen, alone,
                 cluster, passes, changes>>

Tomb(o) == [name |-> o.name, ns |-> o.ns, node |-> o.node, uid |-> 0]

\* A log followed by the deletions of some objects, the oldest first.
Entombed(s, objs) ==
  s \o [v \in 1..Cardinality(objs) |->
          Tomb(CHOOSE o \in objs : Cardinality({x \in objs : x.uid < o.uid}) = v - 1)]

\* ClusterResourceDeleteTask: what the cluster deletes with the namespace,
\* then RealDelete.
DeleteNamespaceTask ==
  \E id \in inTask :
    LET row == {r \in rows : r.id = id}
        gone == {o \in Objects("pod") : \E r \in row : o.ns = r.name}
        nsGone == {o \in Objects("namespace") : \E r \in row : o.name = r.name}
    IN /\ log' = [log EXCEPT !["pod"] = Entombed(@, gone),
                             !["namespace"] = Entombed(@, nsGone)]
       /\ rows' = rows \ row
       /\ inTask' = inTask \ {id}
       /\ alone' = FALSE
       /\ UNCHANGED <<cached, handled, flag, pending, sync, seen, cluster, passes,
                      boundVars>>

\* StartClusterDeleteTask removes the client; purgeSubClusterResource then
\* deletes the rows of the leaves first.
DeleteCluster ==
  /\ cluster = "live" /\ faults < MaxFaults
  /\ faults' = faults + 1
  /\ cluster' = "pod"
  /\ UNCHANGED <<remoteVars, handled, rows, flag, pending, sync, seen, alone,
                 inTask, passes, changes>>

PurgeAllByCluster ==
  /\ cluster \in Kinds
  /\ rows' = rows \ RowsOf(cluster)
  /\ cluster' = IF cluster = "node" THEN "gone" ELSE Levels[LevelOf(cluster) - 1]
  /\ alone' = FALSE
  /\ UNCHANGED <<remoteVars, handled, flag, pending, sync, seen, inTask, passes, boundVars>>

\* Mutant: a row with any missing reference is an orphan.
GCQueryAny(k, rs) ==
  LET ids(kind) == {r.id : r \in {x \in rs : x.kind = kind}}
  IN {r \in rs : /\ r.kind = k
                 /\ \/ cluster = "gone"
                    \/ k = "pod" /\ (r.ns \notin ids("namespace") \/ r.node \notin ids("node"))}

\* GetGCQuery: the conditions of a kind and those of its base are a
\* conjunction.
GetGCQuery(k, rs) ==
  LET ids(kind) == {r.id : r \in {x \in rs : x.kind = kind}}
  IN {r \in rs : /\ r.kind = k
                 /\ cluster = "gone"
                 /\ k = "pod" => r.ns \notin ids("namespace") /\ r.node \notin ids("node")}

\* Mutant: the sub-managers are not visited.
CollectedTop(rs) == rs \ GetGCQuery("node", rs)

\* PerformGC of the node manager: its sub-managers' rows first.
Collected(rs) ==
  LET noPods == rs \ GetGCQuery("pod", rs)
      noNs == noPods \ GetGCQuery("namespace", noPods)
  IN noNs \ GetGCQuery("node", noNs)

InFlight == sync.pc \in {"list", "load", "apply"} \/ \E a \in Actors : pending[a] # {}

PerformGc ==
  /\ rows' = Collected(rows)
  /\ passes' = IF cluster = "gone" /\ ~InFlight /\ passes < 2 THEN passes + 1 ELSE passes
  /\ UNCHANGED <<remoteVars, handled, flag, pending, sync, seen, alone, inTask,
                 cluster, boundVars>>

-----------------------------------------------------------------------------

\* A cluster with one object of each upper kind, before its first
\* synchronisation.
TreeInit ==
  /\ log = [k \in Kinds |->
              IF k = "pod" THEN <<>>
              ELSE <<[name |-> CHOOSE n \in NameOf(k) : TRUE, ns |-> NoName,
                      node |-> NoName, uid |-> 1]>>]
  /\ cached = [k \in Kinds |-> Len(log[k])] /\ handled = cached
  /\ rows = {} /\ flag = FALSE /\ pending = [a \in Actors |-> {}]
  /\ sync = Idle /\ seen = [k \in Kinds |-> 0] /\ alone = FALSE
  /\ inTask = {} /\ cluster = "live" /\ passes = 0
  /\ changes = 0 /\ faults = 0

Remote == RemoteSchedule \/ \E k \in Kinds : RemoteCreate(k) \/ RemoteDelete(k)

Handler(k) == HandleEvent(k) \/ EventInsert(k)

Walk == \/ ListRemoteObjects \/ LoadAndCompare \/ RemoveOne \/ UpdateOne
        \/ AddOne \/ InsertOne \/ KindDone

TreeNext ==
  \/ Remote
  \/ \E k \in Kinds : InformerApply(k) \/ Handler(k)
  \/ SubmitSync \/ SyncFail \/ Walk
  \/ DeleteNamespace \/ DeleteNamespaceTask
  \/ DeleteCluster \/ PurgeAllByCluster
  \/ PerformGc

\* Informers deliver, handlers and workers run, and the periodic job submits
\* synchronisations for as long as the cluster is there.
TreeFairness ==
  /\ \A k \in Kinds : WF_treeAll(InformerApply(k)) /\ WF_treeAll(Handler(k))
  /\ WF_treeAll(Walk) /\ WF_treeAll(SubmitSync)
  /\ WF_treeAll(DeleteNamespaceTask) /\ WF_treeAll(PurgeAllByCluster)

TreeSpec == TreeInit /\ [][TreeNext]_treeAll /\ TreeFairness

-----------------------------------------------------------------------------
(* Properties *)

\* Rows and objects correspond one to one, by uid, and a pod's row refers to
\* the row of its namespace.
Mirrors(k, objs) ==
  /\ {r.uid : r \in RowsOf(k)} = {o.uid : o \in objs}
  /\ Cardinality(RowsOf(k)) = Cardinality(objs)
  /\ \A r \in RowsOf(k), o \in objs :
       r.uid = o.uid /\ k = "pod" =>
         \E n \in RowsOf("namespace") : n.id = r.ns /\ n.name = o.ns

\* A synchronisation that reports success while nobody else wrote rows has
\* mirrored every level as it was listed, with every pod in its namespace;
\* garbage collection takes none of these rows away.
SuccessMeansTree ==
  sync.pc = "ok" /\ alone /\ cluster = "live" =>
    \A k \in Kinds : Mirrors(k, Listing(k, seen[k]))

\* When nothing of a deleted cluster is under way any more, two collections
\* remove what handlers and the walk inserted behind the purge.  One is not
\* enough: a pod's row is kept while the row of its namespace is there.
TwoCollectionsClean == passes = 2 => rows = {}

\* No pod names a node that is gone.  While one does, NewFromRemoteObject
\* fails on it in every walk, so the condition cannot be dropped.
NodesExist ==
  \A p \in Objects("pod") : p.node \in {NoName} \cup {n.name : n \in Objects("node")}

\* Once the cluster stops changing its rows become and stay its objects at
\* every level, whatever handlers overtook each other or failed before:
\* SyncClusterResources repairs what events of other kinds left behind.
TreeConverges ==
  <>[](cluster = "live" /\ NodesExist =>
         \A k \in Kinds : Mirrors(k, Objects(k)))

=============================================================================
