---------------------------- MODULE ResourceTasks ----------------------------
(***************************************************************************)
(* The API tasks of one cluster resource: a row of the database, the       *)
(* object of the same name in the cluster, and the informer's cache of it. *)
(*                                                                         *)
(* A create, update or delete request starts a task whose closure calls    *)
(* the API server (ClusterResourceCreateTask, ...UpdateTask,               *)
(* ...DeleteTask and the ClusterResourceSyncTask that ends a create);      *)
(* reads go to the informer's cache, which lags behind the server.  The    *)
(* cache hands out pointers to its objects: `heap' holds the objects it    *)
(* was ever given, by the version they arrived with, and a kind that edits *)
(* the object it got (deployment.go, statefulsets.go, daemonsets.go,       *)
(* configmap.go) edits the cache; the role kinds edit a copy.              *)
(*                                                                         *)
(* An object's content is the set of updates it contains.  The API server  *)
(* and client-go's informer are external: PUT with a stale                 *)
(* resourceVersion is a conflict, the watch delivers every version in      *)
(* order.  A row's handling of one event is a single step here; the lookup *)
(* that precedes its lock is a step of its own in ResourceSync.            *)
(***************************************************************************)
EXTENDS Naturals, Sequences, FiniteSets

CONSTANTS Tasks,      \* task slots
          Updates,    \* changes an update request can ask for
          MaxVer,     \* bound on the writes of the API server
          MaxFaults,  \* bound on failed calls
          MaxReqs,    \* bound on create, update and delete requests
          MaxOthers   \* bound on writes of other clients of the cluster

ASSUME TasksAssumption ==
  /\ IsFiniteSet(Tasks)
  /\ MaxVer \in Nat \ {0}
  /\ MaxFaults \in Nat /\ MaxReqs \in Nat /\ MaxOthers \in Nat

VARIABLES
  copies,   \* the kind's NewRemoteObjectForUpdate edits a copy
  srv,      \* the API server's object, or None
  ver,      \* the last resourceVersion given out
  watch,    \* watch events the informer has not seen
  store,    \* the cache: pointer to the object, or 0
  heap,     \* the objects pointers point to
  handlerq, \* notifications the resource's event handler has not run
  row,      \* the row, or None
  task,     \* the tasks under way
  raw,      \* the object a client read for a raw update, or None
  acked,    \* history: updates acknowledged on the present object
  refused,  \* history: updates whose task failed and that were never applied
  alone,    \* history: no two tasks were ever under way at once, and no other
            \* client created the object again while a delete was
  faults, reqs, others

srvVars  == <<srv, ver, watch>>
cacheVars == <<store, heap, handlerq>>
boundVars == <<faults, reqs, others>>
ghosts   == <<acked, refused, alone>>
vars == <<copies, srvVars, cacheVars, row, task, raw, ghosts, boundVars>>

None == [none |-> TRUE]
Versions == 1..MaxVer
Objects == [uid : Versions, ver : Versions, val : SUBSET Updates]
Failures == {"create_fail", "update_fail", "delete_fail", "sync_fail"}
Transitions == {"creating", "updating", "deleting", "syncing"}
Statuses == {"init", "active"} \cup Failures \cup Transitions
Rows == [id : 1..(Cardinality(Tasks) + 1), status : Statuses,
         uid : 0..MaxVer, ver : 0..MaxVer]
Stages == {"init", "call", "read", "reread", "write", "complete", "failed",
           "syncInit", "syncRead", "syncWrite", "syncFailed"}
Idle == [kind |-> "none"]
TaskRecs == [kind : {"create", "update", "delete"}, stage : Stages, row : Nat,
             upd : SUBSET Updates, rowver : 0..MaxVer, ptr : 0..MaxVer,
             obj : Objects \cup {None}, applied : 0..MaxVer]

TypeOK ==
  /\ copies \in BOOLEAN /\ alone \in BOOLEAN
  /\ srv \in Objects \cup {None} /\ ver \in 0..MaxVer
  /\ watch \in Seq([type : {"put", "delete"}, obj : Objects])
  /\ store \in 0..MaxVer /\ heap \in [Versions -> Objects \cup {None}]
  /\ handlerq \in Seq([type : {"put", "delete"}, ptr : Versions])
  /\ row \in Rows \cup {None}
  /\ task \in [Tasks -> TaskRecs \cup {Idle}]
  /\ raw \in Objects \cup {None}
  /\ acked \subseteq Updates /\ refused \subseteq Updates
  /\ faults \in 0..MaxFaults /\ reqs \in 0..MaxReqs /\ others \in 0..MaxOthers

Live(t) == task[t] # Idle
LiveTasks == {t \in Tasks : Live(t)}

\* The objects that the server, the watch, the cache and a client hold.
Published == ({srv, raw} \cup {heap[v] : v \in Versions}
                \cup {watch[i].obj : i \in DOMAIN watch}) \ {None}

PublishedUpdates == UNION {o.val : o \in Published}
AskedUpdates == UNION {task[t].upd : t \in LiveTasks}
CopiedUpdates == UNION {task[t].obj.val : t \in {s \in LiveTasks : task[s].obj # None}}

\* Every request asks for a change of its own: one that no object has.
UsedUpdates == acked \cup refused \cup AskedUpdates \cup PublishedUpdates \cup CopiedUpdates

RowIds == 1..(Cardinality(Tasks) + 1)
FreshId == CHOOSE i \in RowIds :
             /\ row # None => row.id # i
             /\ \A t \in LiveTasks : task[t].row # i

-----------------------------------------------------------------------------
(* The API server *)

Put(uid, val) ==
  /\ ver < MaxVer
  /\ ver' = ver + 1
  /\ srv' = [uid |-> uid, ver |-> ver + 1, val |-> val]
  /\ watch' = Append(watch, [type |-> "put", obj |-> srv'])

Remove ==
  /\ srv' = None
  /\ watch' = Append(watch, [type |-> "delete", obj |-> srv])
  /\ UNCHANGED ver

\* Another client creates the object or changes it.
Others ==
  /\ others < MaxOthers /\ others' = others + 1
  /\ \/ /\ srv = None /\ Put(ver + 1, {}) /\ acked' = {}
        /\ alone' = (alone /\ \A t \in LiveTasks : task[t].kind # "delete")
     \/ srv # None /\ Put(srv.uid, srv.val) /\ UNCHANGED <<acked, alone>>
  /\ UNCHANGED <<copies, cacheVars, row, task, raw, refused, faults, reqs>>

\* resourceHandler.Delete: by name, whichever object has it.
HandlerDelete == srv # None /\ Remove

\* resourceHandler.Get: the pointer in the cache.
HandlerGet == store

-----------------------------------------------------------------------------
(* The informer and the event handler *)

\* The reflector stores the object it decoded and queues the notification.
Deliver ==
  /\ watch # <<>>
  /\ LET e == Head(watch) IN
       /\ heap' = [heap EXCEPT ![e.obj.ver] =
                     IF e.type = "put" THEN e.obj ELSE @]
       /\ store' = IF e.type = "put" THEN e.obj.ver ELSE 0
       /\ handlerq' = Append(handlerq, [type |-> e.type, ptr |-> e.obj.ver])
  /\ watch' = Tail(watch)
  /\ UNCHANGED <<copies, srv, ver, row, task, raw, ghosts, boundVars>>

\* SClusterResourceBase.UpdateFromRemoteObject: the object is older than the
\* copy of the row.
Refuses(rowver, obj) == obj.ver < rowver

\* UpdateFromRemoteObject under the row's lock: version, external id and
\* status `active' of the row, unless it is gone.
Updated(id, obj) ==
  IF row # None /\ row.id = id
  THEN [row EXCEPT !.status = "active", !.uid = obj.uid, !.ver = obj.ver]
  ELSE row

\* processCreateOrUpdateByRemoteObject, onRemoteObjectCreate and
\* onRemoteObjectUpdate.
CreateOrUpdate(obj) ==
  row' = IF row = None
         THEN [id |-> FreshId, status |-> "active", uid |-> obj.uid, ver |-> obj.ver]
         ELSE IF Refuses(row.ver, obj) THEN row ELSE Updated(row.id, obj)

\* processRemoteObjectDelete and SyncRemovedClusterResource: a row whose
\* last task failed is kept.
ObjectDeleted ==
  row' = IF row # None /\ row.status \notin Failures THEN None ELSE row

Handle ==
  /\ handlerq # <<>>
  /\ IF Head(handlerq).type = "put"
     THEN CreateOrUpdate(heap[Head(handlerq).ptr])
     ELSE ObjectDeleted
  /\ handlerq' = Tail(handlerq)
  /\ UNCHANGED <<copies, srvVars, store, heap, task, raw, ghosts, boundVars>>

-----------------------------------------------------------------------------
(* Requests *)

SetStatus(id, status) ==
  row' = IF row # None /\ row.id = id THEN [row EXCEPT !.status = status] ELSE row

NewTask(t, kind, id, upd) ==
  /\ task[t] = Idle
  /\ task' = [task EXCEPT ![t] =
       [kind |-> kind, stage |-> "init", row |-> id, upd |-> upd,
        rowver |-> 0, ptr |-> 0, obj |-> None, applied |-> 0]]
  /\ alone' = (alone /\ LiveTasks = {})
  /\ reqs < MaxReqs /\ reqs' = reqs + 1

\* CustomizeCreate inserts the row, PostCreate starts the task.
PostCreate(t) ==
  /\ row = None
  /\ row' = [id |-> FreshId, status |-> "init", uid |-> 0, ver |-> 0]
  /\ NewTask(t, "create", FreshId, {})
  /\ UNCHANGED <<copies, srvVars, cacheVars, raw, acked, refused, faults, others>>

\* ValidateUpdateData reads the object first for the kinds that edit a copy.
PostUpdate(t, u) ==
  /\ row # None
  /\ copies => HandlerGet # 0
  /\ NewTask(t, "update", row.id, {u})
  /\ u \notin UsedUpdates
  /\ UNCHANGED <<copies, srvVars, cacheVars, row, raw, acked, refused, faults, others>>

\* Delete does nothing; PostDelete starts the task.
PostDelete(t) ==
  /\ row # None
  /\ NewTask(t, "delete", row.id, {})
  /\ UNCHANGED <<copies, srvVars, cacheVars, row, raw, acked, refused, faults, others>>

-----------------------------------------------------------------------------
(* Task stages *)

At(t, kind, stage) == Live(t) /\ task[t].kind = kind /\ task[t].stage = stage
Goto(t, stage) == task' = [task EXCEPT ![t].stage = stage]
End(t) == task' = [task EXCEPT ![t] = Idle]

\* OnInit of the three tasks: the copy of the row the closure keeps is the
\* one loaded now.
OnInit(t) ==
  /\ Live(t) /\ task[t].stage = "init"
  /\ SetStatus(task[t].row, CASE task[t].kind = "create" -> "creating"
                              [] task[t].kind = "update" -> "updating"
                              [] task[t].kind = "delete" -> "deleting")
  /\ task' = [task EXCEPT
       ![t].stage = IF task[t].kind = "update" THEN "read" ELSE "call",
       ![t].rowver = IF row # None /\ row.id = task[t].row THEN row.ver ELSE 0]
  /\ UNCHANGED <<copies, srvVars, cacheVars, raw, ghosts, boundVars>>

\* A call that fails: refused or unreachable.
CallFails(t) ==
  /\ Live(t) /\ task[t].stage = "call"
  /\ faults < MaxFaults /\ faults' = faults + 1
  /\ refused' = refused \cup task[t].upd
  /\ Goto(t, "failed")
  /\ UNCHANGED <<copies, srvVars, cacheVars, row, raw, acked, alone, reqs, others>>

\* resourceHandler.CreateV2: the POST makes a new object, unless there is one.
CreateV2 == srv = None /\ Put(ver + 1, {})

\* The task keeps the object the answer carries; an existing one is an error.
CreateRemoteObject(t) ==
  /\ At(t, "create", "call")
  /\ \/ /\ CreateV2
        /\ task' = [task EXCEPT ![t].stage = "write", ![t].obj = srv']
        /\ acked' = {}
        /\ UNCHANGED faults
     \/ /\ CreateV2 /\ faults < MaxFaults        \* the answer is lost
        /\ Goto(t, "failed")
        /\ acked' = {}
        /\ faults' = faults + 1
     \/ /\ srv # None
        /\ Goto(t, "failed")
        /\ UNCHANGED <<srvVars, acked, faults>>
  /\ UNCHANGED <<copies, cacheVars, row, raw, refused, alone, reqs, others>>

\* Mutant: the edit is made in the cached object whatever the kind.
EditInPlace(t, p) ==
  /\ heap' = [heap EXCEPT ![p].val = @ \cup task[t].upd]
  /\ task' = [task EXCEPT ![t].stage = "call", ![t].ptr = p]

\* GetRemoteObject and NewRemoteObjectForUpdate: the change is made to the
\* cached object itself or to a copy of it.
NewRemoteObjectForUpdate(t, p) ==
  IF copies
  THEN /\ task' = [task EXCEPT ![t].stage = "call",
                     ![t].obj = [heap[p] EXCEPT !.val = @ \cup task[t].upd]]
       /\ UNCHANGED heap
  ELSE /\ heap' = [heap EXCEPT ![p].val = @ \cup task[t].upd]
       /\ task' = [task EXCEPT ![t].stage = "call", ![t].ptr = p]

ReadForUpdate(t) ==
  /\ At(t, "update", "read")
  /\ \/ /\ HandlerGet # 0
        /\ NewRemoteObjectForUpdate(t, HandlerGet)
        /\ UNCHANGED refused
     \/ /\ HandlerGet = 0
        /\ Goto(t, "failed")
        /\ refused' = refused \cup task[t].upd
        /\ UNCHANGED heap
  /\ UNCHANGED <<copies, srvVars, store, handlerq, row, raw, acked, alone, boundVars>>

\* The object the task works on; a shared one is read when it is used.
Object(t) == IF task[t].obj # None THEN task[t].obj ELSE heap[task[t].ptr]

Unversioned(obj) == [obj EXCEPT !.ver = 0]

\* Mutant: the resourceVersion is cleared from the object that is sent.
PutSpecUnversioned(obj) == Unversioned(obj)

\* UpdateV2 marshals the object as it is, with the version it was read at.
PutSpec(obj) == obj

\* The API server accepts a PUT of the version it has, or of none.
Accepted(body) ==
  /\ srv # None
  /\ body.ver # 0 => body.uid = srv.uid /\ body.ver = srv.ver

\* UpdateV2: PUT, and the answer decoded into the object that was sent.
UpdateV2(t) ==
  /\ At(t, "update", "call")
  /\ \/ /\ Accepted(PutSpec(Object(t)))
        /\ Put(srv.uid, Object(t).val)
        /\ task' = [task EXCEPT ![t].stage = "reread", ![t].applied = srv.uid,
                                ![t].obj = None, ![t].ptr = 0]
        /\ heap' = IF task[t].obj = None THEN [heap EXCEPT ![task[t].ptr] = srv']
                   ELSE heap
        /\ UNCHANGED <<refused, faults>>
     \/ /\ Accepted(PutSpec(Object(t))) /\ faults < MaxFaults  \* the answer is lost
        /\ Put(srv.uid, Object(t).val)
        /\ Goto(t, "failed")
        /\ faults' = faults + 1
        /\ UNCHANGED <<heap, refused>>
     \/ /\ ~Accepted(PutSpec(Object(t)))
        /\ Goto(t, "failed")
        /\ refused' = refused \cup task[t].upd
        /\ UNCHANGED <<srvVars, heap, faults>>
  /\ UNCHANGED <<copies, store, handlerq, row, raw, acked, alone, reqs, others>>

\* UpdateRemoteObject reads the cache again after the PUT.
Reread(t) ==
  /\ At(t, "update", "reread")
  /\ task' = [task EXCEPT ![t].stage = IF HandlerGet = 0 THEN "failed" ELSE "write",
                          ![t].ptr = HandlerGet]
  /\ UNCHANGED <<copies, srvVars, cacheVars, row, raw, ghosts, boundVars>>

\* UpdateFromRemoteObject at the end of CreateRemoteObject and of
\* UpdateRemoteObject.
Write(t) ==
  /\ Live(t) /\ task[t].stage = "write"
  /\ LET refuse == Refuses(task[t].rowver, Object(t)) IN
       /\ row' = IF refuse THEN row ELSE Updated(task[t].row, Object(t))
       /\ Goto(t, IF refuse THEN "failed" ELSE "complete")
  /\ UNCHANGED <<copies, srvVars, cacheVars, raw, ghosts, boundVars>>

\* DeleteRemoteObject: an object that is not there counts as deleted.
DeleteRemoteObject(t) ==
  /\ At(t, "delete", "call")
  /\ \/ /\ srv = None
        /\ Goto(t, "complete") /\ UNCHANGED <<srvVars, acked, faults>>
     \/ /\ HandlerDelete
        /\ Goto(t, "complete") /\ acked' = {} /\ UNCHANGED faults
     \/ /\ HandlerDelete /\ faults < MaxFaults  \* the answer is lost
        /\ Goto(t, "failed") /\ acked' = {} /\ faults' = faults + 1
  /\ UNCHANGED <<copies, cacheVars, row, raw, refused, alone, reqs, others>>

\* OnCreateComplete starts the sync task.
OnCreateComplete(t) ==
  /\ At(t, "create", "complete")
  /\ task' = [task EXCEPT ![t].stage = "syncInit", ![t].obj = None, ![t].ptr = 0]
  /\ UNCHANGED <<copies, srvVars, cacheVars, row, raw, ghosts, boundVars>>

OnUpdateComplete(t) ==
  /\ At(t, "update", "complete")
  /\ acked' = IF srv # None /\ srv.uid = task[t].applied
              THEN acked \cup task[t].upd ELSE acked
  /\ End(t)
  /\ UNCHANGED <<copies, srvVars, cacheVars, row, raw, refused, alone, boundVars>>

\* OnDeleteComplete: RealDelete of the row.
OnDeleteComplete(t) ==
  /\ At(t, "delete", "complete")
  /\ row' = IF row # None /\ row.id = task[t].row THEN None ELSE row
  /\ End(t)
  /\ UNCHANGED <<copies, srvVars, cacheVars, raw, ghosts, boundVars>>

\* Mutant: a failed task is ended and the row left as it is.
OnFailedKeepsStatus(t) ==
  /\ Live(t) /\ task[t].stage = "failed"
  /\ End(t)
  /\ UNCHANGED <<copies, srvVars, cacheVars, row, raw, ghosts, boundVars>>

\* OnCreateCompleteFailed, OnUpdateCompleteFailed, OnDeleteCompleteFailed.
OnFailed(t) ==
  /\ Live(t) /\ task[t].stage = "failed"
  /\ SetStatus(task[t].row, CASE task[t].kind = "create" -> "create_fail"
                              [] task[t].kind = "update" -> "update_fail"
                              [] task[t].kind = "delete" -> "delete_fail")
  /\ End(t)
  /\ UNCHANGED <<copies, srvVars, cacheVars, raw, ghosts, boundVars>>

\* ClusterResourceSyncTask, the last part of a create.
SyncOnInit(t) ==
  /\ At(t, "create", "syncInit")
  /\ SetStatus(task[t].row, "syncing")
  /\ task' = [task EXCEPT ![t].stage = "syncRead",
       ![t].rowver = IF row # None /\ row.id = task[t].row THEN row.ver ELSE 0]
  /\ UNCHANGED <<copies, srvVars, cacheVars, raw, ghosts, boundVars>>

\* PerformSyncResource reads the cache, which may not hold the object yet.
SyncRead(t) ==
  /\ At(t, "create", "syncRead")
  /\ task' = [task EXCEPT
       ![t].stage = IF HandlerGet = 0 THEN "syncFailed" ELSE "syncWrite",
       ![t].ptr = HandlerGet]
  /\ UNCHANGED <<copies, srvVars, cacheVars, row, raw, ghosts, boundVars>>

SyncWrite(t) ==
  /\ At(t, "create", "syncWrite")
  /\ LET refuse == Refuses(task[t].rowver, Object(t)) IN
       /\ row' = IF refuse THEN row ELSE Updated(task[t].row, Object(t))
       /\ IF refuse THEN Goto(t, "syncFailed") ELSE End(t)
  /\ UNCHANGED <<copies, srvVars, cacheVars, raw, ghosts, boundVars>>

OnSyncCompleteFailed(t) ==
  /\ At(t, "create", "syncFailed")
  /\ SetStatus(task[t].row, "sync_fail")
  /\ End(t)
  /\ UNCHANGED <<copies, srvVars, cacheVars, raw, ghosts, boundVars>>

-----------------------------------------------------------------------------
(* Raw requests, on the row of an object (GetK8sObject, UpdateK8sObject) or *)
(* on its kind and name (raw_dispatcher.go): a client reads the object and  *)
(* sends an edited one, or deletes it.                                      *)

\* fetchVerberEnv and Get: the object in the cache; the client edits it.
FetchRaw(u) ==
  /\ raw = None /\ HandlerGet # 0
  /\ reqs < MaxReqs /\ reqs' = reqs + 1
  /\ u \notin UsedUpdates
  /\ raw' = [heap[HandlerGet] EXCEPT !.val = @ \cup {u}]
  /\ UNCHANGED <<copies, srvVars, cacheVars, row, task, ghosts, faults, others>>

RawGet(u) == row # None /\ FetchRaw(u)
getResourceHandler(u) == FetchRaw(u)

\* verberEnv.Put: the client's body decides whether a version is sent.
\* Without one it overwrites updates the client has not seen, acknowledged
\* or about to be.
PutRaw ==
  /\ raw # None
  /\ \/ /\ Accepted(raw)
        /\ Put(srv.uid, raw.val)
        /\ UNCHANGED <<acked, task>>
     \/ /\ Accepted(Unversioned(raw))
        /\ Put(srv.uid, raw.val)
        /\ acked' = acked \cap raw.val
        /\ task' = [t \in Tasks |->
             IF Live(t) /\ ~(task[t].upd \subseteq raw.val)
             THEN [task[t] EXCEPT !.applied = 0] ELSE task[t]]
     \/ /\ ~Accepted(raw)
        /\ UNCHANGED <<srvVars, acked, task>>
  /\ raw' = None
  /\ UNCHANGED <<copies, cacheVars, row, refused, alone, boundVars>>

\* UpdateK8sObject fetches the row first; both routes send the same request.
UpdateK8sObject == row # None /\ PutRaw
putResourceHandler == PutRaw

\* The row is not told; the event of the deletion will.
deleteResourceHandler ==
  /\ others < MaxOthers /\ others' = others + 1
  /\ HandlerDelete /\ acked' = {}
  /\ UNCHANGED <<copies, cacheVars, row, task, raw, refused, alone, faults, reqs>>

-----------------------------------------------------------------------------

Init ==
  /\ copies \in BOOLEAN
  /\ \/ /\ srv = None /\ ver = 0 /\ store = 0 /\ row = None
        /\ heap = [v \in Versions |-> None]
     \/ /\ srv = [uid |-> 1, ver |-> 1, val |-> {}] /\ ver = 1 /\ store = 1
        /\ heap = [v \in Versions |-> IF v = 1 THEN srv ELSE None]
        /\ row = [id |-> 1, status |-> "active", uid |-> 1, ver |-> 1]
  /\ watch = <<>> /\ handlerq = <<>>
  /\ task = [t \in Tasks |-> Idle] /\ raw = None
  /\ acked = {} /\ refused = {} /\ alone = TRUE
  /\ faults = 0 /\ reqs = 0 /\ others = 0

Stage(t) ==
  \/ OnInit(t) \/ CallFails(t)
  \/ CreateRemoteObject(t) \/ OnCreateComplete(t)
  \/ ReadForUpdate(t) \/ UpdateV2(t) \/ Reread(t) \/ OnUpdateComplete(t)
  \/ DeleteRemoteObject(t) \/ OnDeleteComplete(t)
  \/ Write(t) \/ OnFailed(t)
  \/ SyncOnInit(t) \/ SyncRead(t) \/ SyncWrite(t) \/ OnSyncCompleteFailed(t)

Next ==
  \/ Others \/ Deliver \/ Handle
  \/ \E u \in Updates : RawGet(u) \/ getResourceHandler(u)
  \/ UpdateK8sObject \/ putResourceHandler \/ deleteResourceHandler
  \/ \E t \in Tasks : PostCreate(t) \/ PostDelete(t) \/ Stage(t)
  \/ \E t \in Tasks, u \in Updates : PostUpdate(t, u)

Spec == Init /\ [][Next]_vars

-----------------------------------------------------------------------------
(* Properties *)

\* An update whose task completed (tasks.ClusterResourceUpdateTask) is part
\* of the object as long as the object lives, although the closures of two
\* updates run without a lock and start from a cache that lags behind the
\* server; only a raw update without resourceVersion may undo it.
AcknowledgedKept == srv # None => acked \subseteq srv.val

\* For the kinds that edit a copy (roles.go, clusterroles.go and the two
\* bindings): an update whose task failed before it was applied never
\* reaches the cluster, whatever later updates start from the same cache.
RefusedStaysOut == copies /\ srv # None => refused \cap srv.val = {}

\* A row in one of the statuses the tasks pass through has a task that will
\* change it again (cluster_resource_task.go).
ChangingHasTask ==
  row # None /\ row.status \in Transitions =>
    \E t \in LiveTasks : task[t].row = row.id

Quiet == watch = <<>> /\ handlerq = <<>> /\ LiveTasks = {}

\* Once events and tasks are done, an object has a row, and an active row
\* names the very object that is there: a late event that inserts the row of
\* a deleted object again, and a call whose answer was lost, are made good
\* by the events that follow (clusterresource.go processCreateOrUpdate...,
\* processRemoteObjectDelete).  Tasks of one row that overlap break it.
QuietRowIsTrue ==
  Quiet /\ alone =>
    /\ srv # None => row # None
    /\ row # None /\ row.status = "active" => srv # None /\ row.uid = srv.uid

\* What a row says is true, or a task or an event that will correct it is on
\* its way (cluster_resource_task.go, clusterresource.go).
RowTellsTruth == ChangingHasTask /\ QuietRowIsTrue
=============================================================================
