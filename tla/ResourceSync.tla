---------------------------- MODULE ResourceSync ----------------------------
(***************************************************************************)
(* The copy of one kind of objects of one cluster in the database.  Two    *)
(* paths write the rows: full synchronisations, run by a pool of workers,  *)
(* and the informer's event handler, which works only while the client's   *)
(* bidirectional flag is set.  A synchronisation clears the flag when it   *)
(* is submitted and sets it when it has succeeded.                         *)
(*                                                                         *)
(* Rows are written by column: an update writes the columns that differ    *)
(* from the copy that was loaded, wherever the row has gone since.  The    *)
(* class lock is held around lookup and insertion only.                    *)
(*                                                                         *)
(* The cluster's history is a log of changes; the resource version of a    *)
(* change is its place in the log and the uid of an object the version it  *)
(* was created with.  The informer's store has applied the first `cached'  *)
(* changes, its handler has been called for the first `handled' ones.      *)
(***************************************************************************)
EXTENDS Integers, Sequences, FiniteSets

CONSTANTS
  Names,           \* names of objects
  Syncs,           \* synchronisations that may be under way at a time
  MaxInt32,        \* largest value strconv.ParseInt(_, 10, 32) returns
  MaxChanges,      \* bound on changes of the cluster
  MaxRows,         \* bound on row ids in use at a time
  MaxFails,        \* bound on synchronisations that fail for outer reasons
  MaxTaskFails,    \* bound on API operations on rows whose tasks fail
  NoRow            \* no row is held

ASSUME VersionsAreNat == MaxInt32 \in Nat /\ MaxChanges \in Nat
ASSUME BoundsAreNat ==
  MaxRows \in Nat /\ MaxFails \in Nat /\ MaxTaskFails \in Nat
\* holders of the class lock, and writers of rows, can be told apart
ASSUME SyncNames ==
  "free" \notin Syncs /\ "handler" \notin Syncs /\ "api" \notin Syncs

VARIABLES
  log,         \* changes of the cluster's objects
  cached,      \* changes in the informer's store
  handled,     \* changes the event handler has returned from
  flag,        \* bidirectionalSync of the client's CacheFactory
  rows,        \* rows of the table
  lock,        \* holder of the class lock
  hpc,         \* stage of the event handler
  hrow,        \* the row it has loaded or inserted
  pc,          \* stage of each synchronisation
  list,        \* what it has listed: the changes in the store at that time
  toRemove, toUpdate, toAdd,  \* what is left of removed, commondb, added
  held,        \* the row it has inserted
  errs,        \* whether its SyncResult has an error
  syncStatus,  \* clusters.sync_status
  copy,        \* sync_status in the SCluster a synchronisation works on
  fails, taskFails,
  undisturbed  \* history: nobody else has written rows since it listed

remoteVars == <<log, cached>>
handlerVars == <<handled, hpc, hrow>>
syncVars == <<pc, list, toRemove, toUpdate, toAdd, held, errs>>
statusVars == <<syncStatus, copy>>
boundVars == <<fails, taskFails>>

vars == <<log, cached, handled, flag, rows, lock, hpc, hrow, pc, list,
          toRemove, toUpdate, toAdd, held, errs, syncStatus, copy,
          fails, taskFails, undisturbed>>

Actors == Syncs \cup {"handler"}

-----------------------------------------------------------------------------
(* The cluster *)

\* Change l as the API server returns it: the object and its version.
Object(l) == [name |-> log[l].name, uid |-> log[l].uid, ver |-> l]

\* The objects there are after k changes: the last change of each name,
\* unless it is a deletion, which has no uid.
Listing(k) ==
  {Object(l) : l \in {m \in 1..k :
                       /\ log[m].uid # 0
                       /\ \A o \in (m + 1)..k : log[o].name # log[m].name}}

Change(n, uid) ==
  /\ Len(log) < MaxChanges
  /\ log' = Append(log, [name |-> n, uid |-> uid])
  /\ UNCHANGED <<cached, handlerVars, flag, rows, lock, syncVars, statusVars,
                 boundVars, undisturbed>>

RemoteCreate(n) ==
  /\ \A obj \in Listing(Len(log)) : obj.name # n
  /\ Change(n, Len(log) + 1)

RemoteUpdate(n) ==
  \E obj \in Listing(Len(log)) : obj.name = n /\ Change(n, obj.uid)

RemoteDelete(n) ==
  \E obj \in Listing(Len(log)) : obj.name = n /\ Change(n, 0)

\* The watch delivers the next change to the informer's store.
InformerApply ==
  /\ cached < Len(log)
  /\ cached' = cached + 1
  /\ UNCHANGED <<log, handlerVars, flag, rows, lock, syncVars, statusVars,
                 boundVars, undisturbed>>

-----------------------------------------------------------------------------
(* The table *)

\* strconv.ParseInt(v, 10, 32) with its error dropped: the largest int32 for
\* a version that does not fit.
ParseVersion(v) == IF v > MaxInt32 THEN MaxInt32 ELSE v

\* Ids of new rows are unlike all that somebody still refers to.
Referenced ==
  {r.id : r \in rows} \cup {h.id : h \in {hrow} \ {NoRow}}
    \cup UNION {{r.id : r \in toRemove[s] \cup toUpdate[s]} : s \in Syncs}
    \cup UNION {{h.id : h \in {held[s]} \ {NoRow}} : s \in Syncs}
FreeIds == (1..MaxRows) \ Referenced
NewId == CHOOSE id \in FreeIds : TRUE

\* FetchClusterResourceByName: the rows with the name.
ByName(n) == {r \in rows : r.name = n}

\* The row of a new object, before its version is known.
RowOf(obj) ==
  [id |-> NewId, name |-> obj.name, uid |-> obj.uid, ver |-> 0,
   status |-> "init"]

\* Mutant: an object of the same version is refused too.
RefusedOrEqual(loaded, obj) == ParseVersion(obj.ver) <= ParseVersion(loaded.ver)

\* UpdateFromRemoteObject refuses an object older than the loaded row.
Refused(loaded, obj) == ParseVersion(obj.ver) < ParseVersion(loaded.ver)

\* Mutant: the version is not stored.
UpdatedKeepingVersion(loaded, obj) ==
  [loaded EXCEPT !.name = obj.name, !.uid = obj.uid, !.status = "active"]

\* The row UpdateFromRemoteObject and SetStatusByRemoteObject make of a
\* loaded one.
Updated(loaded, obj) ==
  [loaded EXCEPT !.name = obj.name, !.uid = obj.uid, !.ver = obj.ver,
                 !.status = "active"]

\* db.Update: the columns in which the new row differs from the loaded one
\* are written, if the row is still there.
Write(loaded, new) ==
  {IF r.id = loaded.id
     THEN [f \in DOMAIN r |-> IF new[f] # loaded[f] THEN new[f] ELSE r[f]]
     ELSE r : r \in rows}

\* The statuses a failed operation leaves: "update_fail" stands for those of an
\* update, a deletion and a synchronisation of the one resource.
Failures == {"create_fail", "update_fail"}

\* SyncRemovedClusterResource: a row whose status tells of a failed operation is
\* kept, and no error is returned.
Without(loaded) ==
  IF loaded.status \in Failures THEN rows
  ELSE {r \in rows : r.id # loaded.id}

\* Rows are written by actor a: the others no longer work undisturbed.
Disturb(a) ==
  undisturbed' =
    IF rows' = rows THEN undisturbed
    ELSE [s \in Syncs |-> undisturbed[s] /\ s = a]

\* A creation through the API whose task has failed before the remote object
\* was made leaves its row, with no external id and no version.
CreateFails(n) ==
  /\ taskFails < MaxTaskFails
  /\ lock = "free"
  /\ ByName(n) = {}
  /\ FreeIds # {}
  /\ taskFails' = taskFails + 1
  /\ rows' = rows \cup {[id |-> NewId, name |-> n, uid |-> 0, ver |-> 0,
                         status |-> "create_fail"]}
  /\ Disturb("api")
  /\ UNCHANGED <<remoteVars, handlerVars, flag, lock, syncVars, statusVars,
                 fails>>

\* An update or a deletion through the API of a row with a remote object fails:
\* the task has written the status, by column.  While it was at work LoadAndCompare
\* would have been LoadFails.
OperationFails ==
  /\ taskFails < MaxTaskFails
  /\ taskFails' = taskFails + 1
  /\ \E r \in rows :
       /\ r.uid # 0
       /\ rows' = Write(r, [r EXCEPT !.status = "update_fail"])
  /\ Disturb("api")
  /\ UNCHANGED <<remoteVars, handlerVars, flag, lock, syncVars, statusVars,
                 fails>>

-----------------------------------------------------------------------------
(* The event handler: eventHandler.run and what it calls *)

\* The event being handled is change handled + 1.
Event == log[handled + 1]
EventObject == Object(handled + 1)

\* run: an event that finds the flag cleared is dropped.
HandlerStart ==
  /\ hpc = "idle"
  /\ handled < cached
  /\ IF flag
       THEN hpc' = "lock" /\ UNCHANGED handled
       ELSE hpc' = "idle" /\ handled' = handled + 1
  /\ UNCHANGED <<remoteVars, flag, rows, lock, hrow, syncVars, statusVars,
                 boundVars, undisturbed>>

\* The handler returns: the event is done, the class lock released.
HandlerReturns ==
  /\ hpc' = "idle"
  /\ hrow' = NoRow
  /\ handled' = handled + 1
  /\ lock' = "free"

\* With the class lock, the row of the name is looked up.  A missing one is
\* built for a live object; more than one, and a deletion that finds none,
\* end the handler.
HandlerLookup ==
  /\ hpc = "lock"
  /\ lock = "free"
  /\ \/ /\ Cardinality(ByName(Event.name)) = 1
        /\ \E r \in ByName(Event.name) : hrow' = r
        /\ lock' = "handler"
        /\ hpc' = "loaded"
        /\ UNCHANGED handled
     \/ /\ ByName(Event.name) = {}
        /\ Event.uid # 0
        /\ FreeIds # {}
        /\ hrow' = RowOf(EventObject)
        /\ lock' = "handler"
        /\ hpc' = "absent"
        /\ UNCHANGED handled
     \/ /\ Cardinality(ByName(Event.name)) # 1
        /\ ByName(Event.name) = {} => Event.uid = 0
        /\ HandlerReturns
  /\ UNCHANGED <<remoteVars, flag, rows, syncVars, statusVars, boundVars,
                 undisturbed>>

\* onRemoteObjectCreate inserts the row.
HandlerInsert ==
  /\ hpc = "absent"
  /\ hpc' = "inserted"
  /\ rows' = rows \cup {hrow}
  /\ Disturb("handler")
  /\ UNCHANGED <<remoteVars, handled, hrow, flag, lock, syncVars, statusVars,
                 boundVars>>

\* onRemoteObjectUpdate, or the end of NewFromRemoteObject: the row is
\* brought to the event's object, unless that is older.
HandlerUpdate ==
  /\ hpc = "inserted" \/ (hpc = "loaded" /\ Event.uid # 0)
  /\ rows' = IF Refused(hrow, EventObject) THEN rows
             ELSE Write(hrow, Updated(hrow, EventObject))
  /\ HandlerReturns
  /\ Disturb("handler")
  /\ UNCHANGED <<remoteVars, flag, syncVars, statusVars, boundVars>>

\* OnRemoteObjectDelete: the row with the name is removed, whatever its uid.
HandlerDelete ==
  /\ hpc = "loaded"
  /\ Event.uid = 0
  /\ rows' = Without(hrow)
  /\ HandlerReturns
  /\ Disturb("handler")
  /\ UNCHANGED <<remoteVars, flag, syncVars, statusVars, boundVars>>

Handler ==
  \/ HandlerStart \/ HandlerLookup \/ HandlerInsert
  \/ HandlerUpdate \/ HandlerDelete

-----------------------------------------------------------------------------
(* Full synchronisation *)

\* db.Update of the cluster's sync_status, by column like every update.
SetSyncStatus(s, status) ==
  syncStatus' = IF copy[s] # status THEN status ELSE syncStatus

\* A synchronisation that is over has no copy of the cluster.
DropCopy(s) == copy' = [copy EXCEPT ![s] = "idle"]

\* SubmitSyncTask, by the periodic job or a sync request: the cluster has
\* been loaded, the flag is cleared and the closure queued.
Submit(s) ==
  /\ pc[s] = "none"
  /\ pc' = [pc EXCEPT ![s] = "queued"]
  /\ flag' = FALSE
  /\ copy' = [copy EXCEPT ![s] = syncStatus]
  /\ UNCHANGED <<remoteVars, handlerVars, rows, lock, list, toRemove,
                 toUpdate, toAdd, held, errs, syncStatus, boundVars,
                 undisturbed>>

\* The closure runs: prepareStartSync and MarkSyncing, then GetManagerByCluster
\* and ListRemoteObjects, which reads the informer's store.
Start(s) ==
  /\ pc[s] = "queued"
  /\ pc' = [pc EXCEPT ![s] = "list"]
  /\ SetSyncStatus(s, "syncing")
  /\ copy' = [copy EXCEPT ![s] = "syncing"]
  /\ UNCHANGED <<remoteVars, handlerVars, flag, rows, lock, list, toRemove,
                 toUpdate, toAdd, held, errs, boundVars, undisturbed>>

\* prepareStartSync fails: the flag stays cleared.
Aborts(s) ==
  /\ pc[s] = "queued"
  /\ fails < MaxFails
  /\ fails' = fails + 1
  /\ pc' = [pc EXCEPT ![s] = "none"]
  /\ DropCopy(s)
  /\ UNCHANGED <<remoteVars, handlerVars, flag, rows, lock, list, toRemove,
                 toUpdate, toAdd, held, errs, syncStatus, taskFails,
                 undisturbed>>

ListRemoteObjects(s) ==
  /\ pc[s] = "list"
  /\ pc' = [pc EXCEPT ![s] = "load"]
  /\ list' = [list EXCEPT ![s] = cached]
  /\ undisturbed' = [undisturbed EXCEPT ![s] = TRUE]
  /\ UNCHANGED <<remoteVars, handlerVars, flag, rows, lock, toRemove,
                 toUpdate, toAdd, held, errs, statusVars, boundVars>>

\* GetClusterModelObjects and CompareRemoteObjectSets (see SetCompare): rows
\* and objects are paired by external id and uid.
LoadAndCompare(s) ==
  LET uids == {obj.uid : obj \in Listing(list[s])}
      known == {r.uid : r \in rows}
  IN  /\ pc[s] = "load"
      /\ pc' = [pc EXCEPT ![s] = "apply"]
      /\ toRemove' = [toRemove EXCEPT ![s] = {r \in rows : r.uid \notin uids}]
      /\ toUpdate' = [toUpdate EXCEPT ![s] = {r \in rows : r.uid \in uids}]
      /\ toAdd' = [toAdd EXCEPT ![s] =
                     {obj \in Listing(list[s]) : obj.uid \notin known}]
      /\ UNCHANGED <<remoteVars, handlerVars, flag, rows, lock, list, held,
                     errs, statusVars, boundVars, undisturbed>>

\* There is no client, the list fails, or a row is in a task.
LoadFails(s) ==
  /\ pc[s] = "load"
  /\ fails < MaxFails
  /\ fails' = fails + 1
  /\ pc' = [pc EXCEPT ![s] = "end"]
  /\ errs' = [errs EXCEPT ![s] = TRUE]
  /\ UNCHANGED <<remoteVars, handlerVars, flag, rows, lock, list, toRemove,
                 toUpdate, toAdd, held, statusVars, taskFails, undisturbed>>

\* SyncRemovedClusterResource for one of the removed rows.
RemoveOne(s) ==
  /\ pc[s] = "apply"
  /\ \E r \in toRemove[s] :
       /\ rows' = Without(r)
       /\ toRemove' = [toRemove EXCEPT ![s] = @ \ {r}]
  /\ Disturb(s)
  /\ UNCHANGED <<remoteVars, handlerVars, flag, lock, pc, list, toUpdate,
                 toAdd, held, errs, statusVars, boundVars>>

\* SyncUpdatedClusterResource for one of the common rows.
UpdateOne(s) ==
  /\ pc[s] = "apply"
  /\ toRemove[s] = {}
  /\ \E r \in toUpdate[s] : \E obj \in Listing(list[s]) :
       /\ obj.uid = r.uid
       /\ toUpdate' = [toUpdate EXCEPT ![s] = @ \ {r}]
       /\ IF Refused(r, obj)
            THEN errs' = [errs EXCEPT ![s] = TRUE] /\ UNCHANGED rows
            ELSE rows' = Write(r, Updated(r, obj)) /\ UNCHANGED errs
  /\ Disturb(s)
  /\ UNCHANGED <<remoteVars, handlerVars, flag, lock, pc, list, toRemove,
                 toAdd, held, statusVars, boundVars>>

\* Mutant: the class lock is not taken.
AddOneUnlocked(s) ==
  /\ pc[s] = "apply"
  /\ toRemove[s] = {} /\ toUpdate[s] = {}
  /\ FreeIds # {}
  /\ \E obj \in toAdd[s] :
       /\ ByName(obj.name) = {}
       /\ held' = [held EXCEPT ![s] = RowOf(obj)]
  /\ pc' = [pc EXCEPT ![s] = "absent"]
  /\ UNCHANGED <<remoteVars, handlerVars, flag, rows, lock, list, toRemove,
                 toUpdate, toAdd, errs, statusVars, boundVars, undisturbed>>

\* Mutant: an object whose name has a row is passed over in silence.
AddOneSilently(s) ==
  /\ pc[s] = "apply"
  /\ toRemove[s] = {} /\ toUpdate[s] = {}
  /\ lock = "free"
  /\ \E obj \in toAdd[s] :
       /\ ByName(obj.name) # {}
       /\ toAdd' = [toAdd EXCEPT ![s] = @ \ {obj}]
  /\ UNCHANGED <<remoteVars, handlerVars, flag, rows, lock, pc, list, held,
                 errs, toRemove, toUpdate, statusVars, boundVars,
                 undisturbed>>

\* NewFromRemoteObject for one of the added objects: with the class lock, a
\* name that has a row is an error, and otherwise the row is built.
AddOne(s) ==
  /\ pc[s] = "apply"
  /\ toRemove[s] = {} /\ toUpdate[s] = {}
  /\ lock = "free"
  /\ \E obj \in toAdd[s] :
       \/ /\ ByName(obj.name) # {}
          /\ errs' = [errs EXCEPT ![s] = TRUE]
          /\ toAdd' = [toAdd EXCEPT ![s] = @ \ {obj}]
          /\ UNCHANGED <<lock, held, pc>>
       \/ /\ ByName(obj.name) = {}
          /\ FreeIds # {}
          /\ held' = [held EXCEPT ![s] = RowOf(obj)]
          /\ lock' = s
          /\ pc' = [pc EXCEPT ![s] = "absent"]
          /\ UNCHANGED <<errs, toAdd>>
  /\ UNCHANGED <<remoteVars, handlerVars, flag, rows, list, toRemove,
                 toUpdate, statusVars, boundVars, undisturbed>>

\* The row is inserted.
AddOneInsert(s) ==
  /\ pc[s] = "absent"
  /\ pc' = [pc EXCEPT ![s] = "inserted"]
  /\ rows' = rows \cup {held[s]}
  /\ Disturb(s)
  /\ UNCHANGED <<remoteVars, handlerVars, flag, lock, list, toRemove,
                 toUpdate, toAdd, held, errs, statusVars, boundVars>>

\* The inserted row gets its version, and the class lock is released.
AddOneUpdate(s) ==
  /\ pc[s] = "inserted"
  /\ \E obj \in toAdd[s] :
       /\ obj.uid = held[s].uid
       /\ rows' = Write(held[s], Updated(held[s], obj))
       /\ toAdd' = [toAdd EXCEPT ![s] = @ \ {obj}]
  /\ held' = [held EXCEPT ![s] = NoRow]
  /\ lock' = "free"
  /\ pc' = [pc EXCEPT ![s] = "apply"]
  /\ Disturb(s)
  /\ UNCHANGED <<remoteVars, handlerVars, flag, list, toRemove, toUpdate,
                 errs, statusVars, boundVars>>

\* Everything is applied: the result decides between MarkErrorSync and
\* MarkEndSync.
Finish(s) ==
  /\ pc[s] = "apply"
  /\ toRemove[s] = {} /\ toUpdate[s] = {} /\ toAdd[s] = {}
  /\ pc' = [pc EXCEPT ![s] = "end"]
  /\ UNCHANGED <<remoteVars, handlerVars, flag, rows, lock, list, toRemove,
                 toUpdate, toAdd, held, errs, statusVars, boundVars,
                 undisturbed>>

\* Mutant: the error is returned without MarkErrorSync.
EndUnmarked(s) ==
  /\ pc[s] = "end"
  /\ errs[s]
  /\ pc' = [pc EXCEPT ![s] = "none"]
  /\ errs' = [errs EXCEPT ![s] = FALSE]
  /\ list' = [list EXCEPT ![s] = 0]
  /\ undisturbed' = [undisturbed EXCEPT ![s] = FALSE]
  /\ UNCHANGED <<remoteVars, handlerVars, flag, rows, lock, toRemove,
                 toUpdate, toAdd, held, statusVars, boundVars>>

\* MarkErrorSync: the flag stays cleared.
EndWithError(s) ==
  /\ pc[s] = "end"
  /\ errs[s]
  /\ SetSyncStatus(s, "error")
  /\ DropCopy(s)
  /\ pc' = [pc EXCEPT ![s] = "none"]
  /\ errs' = [errs EXCEPT ![s] = FALSE]
  /\ list' = [list EXCEPT ![s] = 0]
  /\ undisturbed' = [undisturbed EXCEPT ![s] = FALSE]
  /\ UNCHANGED <<remoteVars, handlerVars, flag, rows, lock, toRemove,
                 toUpdate, toAdd, held, boundVars>>

MarkEndSync(s) ==
  /\ pc[s] = "end"
  /\ ~errs[s]
  /\ SetSyncStatus(s, "idle")
  /\ DropCopy(s)
  /\ pc' = [pc EXCEPT ![s] = "enable"]
  /\ list' = [list EXCEPT ![s] = 0]
  /\ undisturbed' = [undisturbed EXCEPT ![s] = FALSE]
  /\ UNCHANGED <<remoteVars, handlerVars, flag, rows, lock, toRemove,
                 toUpdate, toAdd, held, errs, boundVars>>

EnableBidirectionalSync(s) ==
  /\ pc[s] = "enable"
  /\ flag' = TRUE
  /\ pc' = [pc EXCEPT ![s] = "none"]
  /\ UNCHANGED <<remoteVars, handlerVars, rows, lock, list, toRemove,
                 toUpdate, toAdd, held, errs, statusVars, boundVars,
                 undisturbed>>

\* The steps of a submitted synchronisation that it takes by itself.
SyncStep(s) ==
  \/ Start(s) \/ ListRemoteObjects(s) \/ LoadAndCompare(s)
  \/ RemoveOne(s) \/ UpdateOne(s)
  \/ AddOne(s) \/ AddOneInsert(s) \/ AddOneUpdate(s)
  \/ Finish(s) \/ EndWithError(s) \/ MarkEndSync(s)
  \/ EnableBidirectionalSync(s)

-----------------------------------------------------------------------------
\* The client has just been built: nothing is known of the cluster, no row is
\* there and the flag is cleared.  Objects that are there already are the
\* first changes of the log.
Init ==
  /\ log = <<>>
  /\ cached = 0
  /\ handled = 0
  /\ flag = FALSE
  /\ rows = {}
  /\ lock = "free"
  /\ hpc = "idle"
  /\ hrow = NoRow
  /\ pc = [s \in Syncs |-> "none"]
  /\ list = [s \in Syncs |-> 0]
  /\ toRemove = [s \in Syncs |-> {}]
  /\ toUpdate = [s \in Syncs |-> {}]
  /\ toAdd = [s \in Syncs |-> {}]
  /\ held = [s \in Syncs |-> NoRow]
  /\ errs = [s \in Syncs |-> FALSE]
  /\ syncStatus = "idle"
  /\ copy = [s \in Syncs |-> "idle"]
  /\ fails = 0
  /\ taskFails = 0
  /\ undisturbed = [s \in Syncs |-> FALSE]

Next ==
  \/ \E n \in Names :
       RemoteCreate(n) \/ RemoteUpdate(n) \/ RemoteDelete(n) \/ CreateFails(n)
  \/ OperationFails
  \/ InformerApply
  \/ Handler
  \/ \E s \in Syncs : Submit(s) \/ Aborts(s) \/ LoadFails(s) \/ SyncStep(s)

Spec == Init /\ [][Next]_vars

\* The informer and the handler run in goroutines of their own; the periodic job
\* submits a synchronisation every half hour, and a worker runs its closure to the
\* end.  Who waits for the class lock waits in a queue: the handler
\* and a synchronisation, each with one step to take at any time, are treated with
\* strong fairness for that step's sake.
Fairness ==
  /\ WF_vars(InformerApply)
  /\ SF_vars(Handler)
  /\ \A s \in Syncs : SF_vars(Submit(s) \/ SyncStep(s))

FairSpec == Spec /\ Fairness

-----------------------------------------------------------------------------
(* Properties *)

Row == [id : 1..MaxRows, name : Names, uid : 0..MaxChanges,
        ver : 0..MaxChanges, status : {"init", "active"} \cup Failures]

RemoteObject == [name : Names, uid : 1..MaxChanges, ver : 1..MaxChanges]

TypeOK ==
  /\ log \in Seq([name : Names, uid : 0..MaxChanges])
  /\ Len(log) <= MaxChanges
  /\ cached \in 0..Len(log)
  /\ handled \in 0..cached
  /\ flag \in BOOLEAN
  /\ rows \subseteq Row
  /\ lock \in {"free"} \cup Actors
  /\ hpc \in {"idle", "lock", "loaded", "absent", "inserted"}
  /\ hrow \in Row \cup {NoRow}
  /\ pc \in [Syncs -> {"none", "queued", "list", "load", "apply", "absent",
                       "inserted", "end", "enable"}]
  /\ list \in [Syncs -> 0..MaxChanges]
  /\ toRemove \in [Syncs -> SUBSET Row]
  /\ toUpdate \in [Syncs -> SUBSET Row]
  /\ toAdd \in [Syncs -> SUBSET RemoteObject]
  /\ held \in [Syncs -> Row \cup {NoRow}]
  /\ errs \in [Syncs -> BOOLEAN]
  /\ syncStatus \in {"idle", "syncing", "error"}
  /\ copy \in [Syncs -> {"idle", "syncing", "error"}]
  /\ fails \in 0..MaxFails
  /\ taskFails \in 0..MaxTaskFails
  /\ undisturbed \in [Syncs -> BOOLEAN]

\* No name has two rows, however synchronisations, events and failed
\* creations overlap.  With two, FetchClusterResourceByName returns an error
\* for the name from then on (clusterresource.go:262) and no path repairs it.
OneRowPerName ==
  \A r1, r2 \in rows : r1.name = r2.name => r1 = r2

\* A synchronisation that reports success, and during which nobody else has
\* written rows, has made the table the list it took; rows of failed
\* operations apart, which stay whatever became of their objects.
SuccessMeansMirrored ==
  \A s \in Syncs :
    pc[s] = "end" /\ ~errs[s] /\ undisturbed[s] =>
      {[name |-> r.name, uid |-> r.uid, ver |-> r.ver] :
         r \in {q \in rows : q.status \notin Failures}} = Listing(list[s])

\* While sync_status is "syncing" a synchronisation is at work that will
\* write another: otherwise CanSync refuses requests for half an hour.
SyncingHasWorker ==
  syncStatus = "syncing" =>
    \E s \in Syncs :
      pc[s] \in {"list", "load", "apply", "absent", "inserted", "end"}

\* Rows of failed operations whose objects are gone: no synchronisation and no
\* event of a deletion removes them.
LeftOver ==
  LET live == {obj.uid : obj \in Listing(Len(log))}
  IN  {r \in rows : r.status \in Failures /\ r.uid \notin live}

\* Objects whose name such a row holds.
Blocked == {obj \in Listing(Len(log)) : \E r \in LeftOver : r.name = obj.name}

\* Every row belongs to a live object in its latest version, and every live
\* object has one; rows of failed operations apart.
Mirrored ==
  {[name |-> r.name, uid |-> r.uid, ver |-> r.ver] : r \in rows \ LeftOver}
    = Listing(Len(log)) \ Blocked

\* Once the cluster stops changing, the rows become its objects and stay so,
\* whatever events were dropped and whichever stale write came last.
Converges == <>[]Mirrored

\* Events are never switched off for good, unless the row of a failed operation
\* blocks an object: then every synchronisation ends with an error.
EventsResume == []<>(flag \/ Blocked # {})
=============================================================================
