------------------------- MODULE ResourceSyncProofs -------------------------
(***************************************************************************)
(* What ResourceSync guarantees for every set of names and synchronisations *)
(* and all bounds.                                                         *)
(*                                                                         *)
(* No name has two rows.  The class lock excludes two insertions at a time; *)
(* that the lock-free updates leave names alone rests on uids and names    *)
(* belonging together in rows, copies and lists alike.                     *)
(*                                                                         *)
(* While sync_status is "syncing" a synchronisation is at work.            *)
(*                                                                         *)
(* A synchronisation that reports success has made the table the list it   *)
(* took: at every stage the rows and the objects are divided between what  *)
(* is left to do and what is done.                                         *)
(***************************************************************************)
EXTENDS ResourceSync, TLAPS

\* A uid and a name go together: the change that created the object has the
\* name.  Nothing is said of the missing uid.
Owns(n, uid) == uid # 0 => uid \in 1..Len(log) /\ log[uid].name = n

\* Rows with one id are one row, and so are rows with one name.
Distinct(R) ==
  /\ \A r1, r2 \in R : r1.id = r2.id => r1 = r2
  /\ \A r1, r2 \in R : r1.name = r2.name => r1 = r2

\* The columns an update brings.
Columns == [name : Names, uid : 0..MaxChanges, ver : 0..MaxChanges]

\* UpdateFromRemoteObject makes a row of a row.
LEMMA UpdatedIsRow ==
  ASSUME NEW loaded \in Row, NEW obj \in Columns
  PROVE  /\ Updated(loaded, obj) \in Row
         /\ Updated(loaded, obj).id = loaded.id
         /\ Updated(loaded, obj).name = obj.name
         /\ Updated(loaded, obj).uid = obj.uid
  BY DEF Updated, Row, Columns

\* One row after a column-wise write.
Merged(r, loaded, new) ==
  [f \in DOMAIN r |-> IF new[f] # loaded[f] THEN new[f] ELSE r[f]]

\* A column that the writer left as loaded keeps what the row has.
LEMMA MergedIsRow ==
  ASSUME NEW r \in Row, NEW loaded \in Row, NEW new \in Row
  PROVE  /\ Merged(r, loaded, new) \in Row
         /\ Merged(r, loaded, new).id \in {r.id, new.id}
         /\ new.id = loaded.id => Merged(r, loaded, new).id = r.id
         /\ new.name = loaded.name => Merged(r, loaded, new).name = r.name
         /\ new.uid = loaded.uid => Merged(r, loaded, new).uid = r.uid
         /\ Merged(r, loaded, new).uid \in {r.uid, new.uid}
<1> DEFINE q == Merged(r, loaded, new)
<1>1. DOMAIN r = {"id", "name", "uid", "ver", "status"}
  BY DEF Row
<1>2. q = [f \in {"id", "name", "uid", "ver", "status"} |->
             IF new[f] # loaded[f] THEN new[f] ELSE r[f]]
  BY <1>1 DEF Merged
<1>3. /\ q.id = IF new.id # loaded.id THEN new.id ELSE r.id
      /\ q.name = IF new.name # loaded.name THEN new.name ELSE r.name
      /\ q.uid = IF new.uid # loaded.uid THEN new.uid ELSE r.uid
      /\ q.ver = IF new.ver # loaded.ver THEN new.ver ELSE r.ver
      /\ q.status = IF new.status # loaded.status THEN new.status ELSE r.status
  BY <1>2
<1>4. q = [id |-> q.id, name |-> q.name, uid |-> q.uid, ver |-> q.ver,
           status |-> q.status]
  BY <1>2
<1>5. q \in Row
  BY <1>3, <1>4 DEF Row
<1> QED
  BY <1>3, <1>5

-----------------------------------------------------------------------------
(* The inductive invariant *)

\* What the stages of the handler and of a synchronisation imply: an event is
\* at hand, the row held is one, and the class lock is its holder's.
HandlerHolds ==
  /\ hpc # "idle" => handled < cached
  /\ hpc \in {"loaded", "absent", "inserted"} =>
       hrow \in Row /\ hrow.name = Event.name /\ lock = "handler"

SyncHolds ==
  \A s \in Syncs :
    /\ list[s] <= Len(log)
    /\ pc[s] \in {"absent", "inserted"} => held[s] \in Row /\ lock = s

\* Every uid that is recorded somewhere is one of its name.
LogOwned == \A k \in 1..Len(log) : Owns(log[k].name, log[k].uid)

Owned ==
  /\ \A r \in rows : Owns(r.name, r.uid)
  /\ hpc = "absent" => Owns(hrow.name, hrow.uid)
  /\ \A s \in Syncs :
       /\ \A r \in toUpdate[s] : Owns(r.name, r.uid)
       /\ \A obj \in toAdd[s] : Owns(obj.name, obj.uid)
       /\ pc[s] \in {"absent", "inserted"} => Owns(held[s].name, held[s].uid)

\* Neither the name nor the id of r is in the table.
NotThere(r) == \A q \in rows : q.name # r.name /\ q.id # r.id

\* Between the lookup and the insertion the name stays absent, and the row
\* the handler works on keeps the name it was loaded with.
StillAbsent ==
  /\ hpc = "absent" => NotThere(hrow)
  /\ hpc \in {"loaded", "inserted"} =>
       \A r \in rows : r.id = hrow.id => r.name = hrow.name
  /\ \A s \in Syncs : pc[s] = "absent" => NotThere(held[s])

IInv ==
  /\ TypeOK
  /\ HandlerHolds
  /\ SyncHolds
  /\ LogOwned
  /\ Owned
  /\ StillAbsent
  /\ Distinct(rows)

-----------------------------------------------------------------------------
(* Lemmas on the table and the log *)

\* Every row of R has its id and its name from a row of the table.
FromRows(R) == \A q \in R : \E r \in rows : q.id = r.id /\ q.name = r.name

\* A write through a copy that has the object's name leaves the rows' names
\* alone, and gives a row only a uid of its name.
LEMMA WriteKeeps ==
  ASSUME rows \subseteq Row, Distinct(rows),
         \A r \in rows : Owns(r.name, r.uid),
         NEW loaded \in Row, NEW obj \in Columns,
         obj.name = loaded.name, Owns(obj.name, obj.uid),
         \/ obj.uid = loaded.uid
         \/ \A r \in rows : r.id = loaded.id => r.name = loaded.name
  PROVE  LET R == Write(loaded, Updated(loaded, obj))
         IN  /\ R \subseteq Row
             /\ Distinct(R)
             /\ FromRows(R)
             /\ \A r \in R : Owns(r.name, r.uid)
<1> DEFINE new == Updated(loaded, obj)
           Image(r) == IF r.id = loaded.id THEN Merged(r, loaded, new) ELSE r
           R == {Image(r) : r \in rows}
<1>1. /\ new \in Row
      /\ new.id = loaded.id
      /\ new.name = loaded.name
      /\ new.uid = obj.uid
  BY UpdatedIsRow
<1>2. Write(loaded, Updated(loaded, obj)) = R
  BY DEF Write, Merged
<1>3. ASSUME NEW r \in rows
      PROVE  /\ Image(r) \in Row
             /\ Image(r).id = r.id
             /\ Image(r).name = r.name
             /\ Owns(Image(r).name, Image(r).uid)
  <2> HIDE DEF new
  <2> r \in Row /\ Owns(r.name, r.uid)
    OBVIOUS
  <2>1. CASE r.id # loaded.id
    BY <2>1
  <2>2. CASE r.id = loaded.id
    <3>1. Image(r) = Merged(r, loaded, new)
      BY <2>2
    <3>2. Merged(r, loaded, new) \in Row /\ Merged(r, loaded, new).id = r.id
          /\ Merged(r, loaded, new).name = r.name
      BY <1>1, MergedIsRow
    <3>3. Owns(r.name, Merged(r, loaded, new).uid)
      <4>1. CASE obj.uid = loaded.uid
        <5>1. Merged(r, loaded, new).uid = r.uid
          BY <1>1, <4>1, MergedIsRow
        <5> QED
          BY <5>1
      <4>2. CASE r.name = loaded.name
        <5>1. Merged(r, loaded, new).uid \in {r.uid, obj.uid}
          BY <1>1, MergedIsRow
        <5>2. Owns(r.name, obj.uid)
          BY <4>2
        <5> QED
          BY <5>1, <5>2
      <4> QED
        BY <2>2, <4>1, <4>2
    <3> QED
      BY <3>1, <3>2, <3>3
  <2> QED
    BY <2>1, <2>2
<1> HIDE DEF new, Image
<1>4. R \subseteq Row /\ FromRows(R) /\ \A r \in R : Owns(r.name, r.uid)
  BY <1>3 DEF FromRows
<1>5. Distinct(R)
  BY <1>3 DEF Distinct
<1> QED
  BY <1>2, <1>4, <1>5

\* Removing a row takes nothing but the row.
LEMMA WithoutKeeps ==
  ASSUME rows \subseteq Row, Distinct(rows),
         \A r \in rows : Owns(r.name, r.uid), NEW loaded
  PROVE  LET R == Without(loaded)
         IN  /\ R \subseteq Row
             /\ Distinct(R)
             /\ FromRows(R)
             /\ \A r \in R : Owns(r.name, r.uid)
  BY DEF Without, Distinct, FromRows

\* A row of a new name and id fits into the table.
LEMMA InsertKeeps ==
  ASSUME rows \subseteq Row, Distinct(rows),
         \A r \in rows : Owns(r.name, r.uid),
         NEW new \in Row, NotThere(new), Owns(new.name, new.uid)
  PROVE  LET R == rows \cup {new}
         IN  /\ R \subseteq Row
             /\ Distinct(R)
             /\ \A r \in R : Owns(r.name, r.uid)
  BY DEF Distinct, NotThere

\* Elements of a sequence over a set are in the set.
LEMMA ElementOf ==
  ASSUME NEW S, NEW q \in Seq(S), NEW l \in 1..Len(q) PROVE q[l] \in S
  OBVIOUS

\* A listed object is a change of the log, and owns its uid.
LEMMA ListingOwned ==
  ASSUME TypeOK, LogOwned, NEW k \in 0..Len(log), NEW obj \in Listing(k)
  PROVE  obj \in RemoteObject /\ obj \in Columns /\ Owns(obj.name, obj.uid)
<1>1. PICK l \in 1..k : log[l].uid # 0 /\ obj = Object(l)
  BY DEF Listing
<1>2. l \in 1..Len(log) /\ log[l] \in [name : Names, uid : 0..MaxChanges]
      /\ l \in 1..MaxChanges
  <2>1. log \in Seq([name : Names, uid : 0..MaxChanges])
        /\ Len(log) <= MaxChanges
    BY DEF TypeOK
  <2>2. Len(log) \in Nat /\ k \in 0..Len(log) /\ l \in 1..k
    BY <2>1
  <2>3. l \in 1..Len(log)
    BY <2>2
  <2>4. log[l] \in [name : Names, uid : 0..MaxChanges]
    BY <2>1, <2>3, ElementOf
  <2>5. l \in 1..MaxChanges
    BY <2>1, <2>2, <2>3, VersionsAreNat
  <2> QED
    BY <2>3, <2>4, <2>5
<1> QED
  BY <1>1, <1>2 DEF Object, RemoteObject, Columns, LogOwned

\* A row built for an object is a row, its id in use nowhere.
LEMMA RowOfFresh ==
  ASSUME rows \subseteq Row, FreeIds # {}, NEW obj \in Columns,
         ByName(obj.name) = {}
  PROVE  /\ RowOf(obj) \in Row
         /\ RowOf(obj).name = obj.name
         /\ RowOf(obj).uid = obj.uid
         /\ NotThere(RowOf(obj))
<1>1. NewId \in 1..MaxRows /\ NewId \notin {r.id : r \in rows}
  BY DEF NewId, FreeIds, Referenced
<1>2. RowOf(obj) = [id |-> NewId, name |-> obj.name, uid |-> obj.uid,
                    ver |-> 0, status |-> "init"]
  BY DEF RowOf
<1> HIDE DEF NewId
<1> QED
  BY <1>1, <1>2, VersionsAreNat DEF Row, Columns, NotThere, ByName
-----------------------------------------------------------------------------
(* Every step keeps the invariant *)

\* The history variable stays a set of flags.
LEMMA DisturbType ==
  ASSUME TypeOK, NEW a, Disturb(a)
  PROVE  undisturbed' \in [Syncs -> BOOLEAN]
<1>1. undisturbed \in [Syncs -> BOOLEAN]
  BY DEF TypeOK
<1> QED
  BY <1>1 DEF Disturb

\* The empty table satisfies the invariant.
LEMMA InitIInv == Init => IInv
<1> SUFFICES ASSUME Init PROVE IInv
  OBVIOUS
<1>1. TypeOK
  <2>1. log \in Seq([name : Names, uid : 0..MaxChanges]) /\ Len(log) = 0
    BY DEF Init
  <2>2. 0 \in 0..MaxChanges /\ 0 \in 0..MaxFails /\ 0 \in 0..MaxTaskFails
    BY VersionsAreNat, BoundsAreNat
  <2>3. /\ Len(log) <= MaxChanges
        /\ cached \in 0..Len(log)
        /\ handled \in 0..cached
        /\ fails \in 0..MaxFails
        /\ taskFails \in 0..MaxTaskFails
    BY <2>1, <2>2, VersionsAreNat DEF Init
  <2>4. /\ pc \in [Syncs -> {"none", "queued", "list", "load", "apply",
                             "absent", "inserted", "end", "enable"}]
        /\ list \in [Syncs -> 0..MaxChanges]
        /\ toRemove \in [Syncs -> SUBSET Row]
        /\ toUpdate \in [Syncs -> SUBSET Row]
        /\ toAdd \in [Syncs -> SUBSET RemoteObject]
        /\ held \in [Syncs -> Row \cup {NoRow}]
    BY <2>2 DEF Init
  <2>5. /\ errs \in [Syncs -> BOOLEAN]
        /\ copy \in [Syncs -> {"idle", "syncing", "error"}]
        /\ undisturbed \in [Syncs -> BOOLEAN]
    BY DEF Init
  <2>6. /\ flag \in BOOLEAN
        /\ rows \subseteq Row
        /\ lock \in {"free"} \cup Actors
        /\ hpc \in {"idle", "lock", "loaded", "absent", "inserted"}
        /\ hrow \in Row \cup {NoRow}
        /\ syncStatus \in {"idle", "syncing", "error"}
    BY DEF Init
  <2> QED
    BY <2>1, <2>3, <2>4, <2>5, <2>6 DEF TypeOK
<1>2. Distinct(rows)
  BY DEF Init, Distinct
<1>3. HandlerHolds /\ SyncHolds /\ LogOwned /\ Owned /\ StillAbsent
  BY DEF Init, HandlerHolds, SyncHolds, LogOwned, Owned, StillAbsent
<1> QED
  BY <1>1, <1>2, <1>3 DEF IInv

\* The log grows by one change.
LEMMA ChangeIInv ==
  ASSUME IInv, NEW n \in Names, NEW uid \in 0..MaxChanges,
         Change(n, uid),
         uid # 0 => uid = Len(log) + 1 \/ Owns(n, uid)
  PROVE  IInv'
<1> DEFINE entry == [name |-> n, uid |-> uid]
           Entries == [name : Names, uid : 0..MaxChanges]
<1>1. log \in Seq(Entries) /\ Len(log) < MaxChanges /\ log' = Append(log, entry)
      /\ entry \in Entries
  BY DEF IInv, TypeOK, Change
<1>2. /\ log' \in Seq(Entries)
      /\ Len(log') = Len(log) + 1
      /\ \A k \in 1..Len(log) : log'[k] = log[k]
      /\ log'[Len(log) + 1] = entry
      /\ Len(log) \in Nat
  BY <1>1
<1>3. UNCHANGED <<cached, handled, hpc, hrow, flag, rows, lock, pc, list,
                  toRemove, toUpdate, toAdd, held, errs, syncStatus, copy,
                  fails, taskFails, undisturbed>>
  BY DEF Change, handlerVars, syncVars, statusVars, boundVars
<1>4. TypeOK'
  BY <1>1, <1>2, <1>3, VersionsAreNat DEF IInv, TypeOK, Actors
<1>5. ASSUME NEW m, NEW u, Owns(m, u) PROVE Owns(m, u)'
  BY <1>2, <1>5 DEF Owns
<1>6. HandlerHolds'
  <2>1. cached \in 0..Len(log) /\ handled \in 0..cached /\ HandlerHolds
    BY DEF IInv, TypeOK
  <2>2. hpc # "idle" => handled + 1 \in 1..Len(log)
    BY <2>1, <1>2 DEF HandlerHolds
  <2>3. hpc # "idle" => Event' = Event
    BY <2>2, <1>2, <1>3 DEF Event
  <2> QED
    BY <2>1, <2>3, <1>3 DEF HandlerHolds
<1>7. SyncHolds'
  BY <1>2, <1>3, VersionsAreNat DEF IInv, TypeOK, SyncHolds
<1>8. LogOwned'
  <2> SUFFICES ASSUME NEW k \in 1..Len(log') PROVE Owns(log[k].name, log[k].uid)'
    BY DEF LogOwned
  <2>1. CASE k \in 1..Len(log)
    BY <2>1, <1>2, <1>5 DEF IInv, LogOwned
  <2>2. CASE k = Len(log) + 1
    <3>1. log'[k] = entry
      BY <2>2, <1>2
    <3>2. CASE uid # Len(log) + 1
      BY <3>1, <3>2, <1>5 DEF Owns
    <3>3. CASE uid = Len(log) + 1
      BY <3>1, <3>3, <1>2 DEF Owns
    <3> QED
      BY <3>2, <3>3
  <2> QED
    BY <2>1, <2>2, <1>2
<1>9. Owned'
  BY <1>3, <1>5 DEF IInv, Owned
<1>10. StillAbsent' /\ Distinct(rows)'
  BY <1>3 DEF IInv, StillAbsent, NotThere, Distinct
<1> QED
  BY <1>4, <1>6, <1>7, <1>8, <1>9, <1>10 DEF IInv

\* An object is created with a new uid and keeps it.
LEMMA RemoteIInv ==
  ASSUME IInv, NEW n \in Names,
         RemoteCreate(n) \/ RemoteUpdate(n) \/ RemoteDelete(n)
  PROVE  IInv'
<1>1. Len(log) \in Nat /\ Len(log) <= MaxChanges /\ TypeOK /\ LogOwned
  BY DEF IInv, TypeOK
<1>2. CASE RemoteCreate(n)
  <2>1. Len(log) + 1 \in 0..MaxChanges /\ Change(n, Len(log) + 1)
    BY <1>1, <1>2, VersionsAreNat DEF RemoteCreate, Change
  <2> QED
    BY <2>1, ChangeIInv
<1>3. CASE RemoteUpdate(n)
  <2>1. PICK obj \in Listing(Len(log)) : obj.name = n /\ Change(n, obj.uid)
    BY <1>3 DEF RemoteUpdate
  <2>2. obj \in Columns /\ Owns(n, obj.uid)
    BY <1>1, <2>1, ListingOwned
  <2>3. obj.uid \in 0..MaxChanges
    BY <2>2 DEF Columns
  <2> QED
    BY <2>1, <2>2, <2>3, ChangeIInv
<1>4. CASE RemoteDelete(n)
  <2>1. Change(n, 0)
    BY <1>4 DEF RemoteDelete
  <2> QED
    BY <2>1, ChangeIInv, VersionsAreNat
<1> QED
  BY <1>2, <1>3, <1>4
\* The steps of a synchronisation that leave the table and its own lists.
LEMMA QuietIInv ==
  ASSUME IInv, NEW s \in Syncs,
         \/ Submit(s) \/ Start(s) \/ Aborts(s) \/ LoadFails(s) \/ Finish(s)
         \/ EndWithError(s) \/ MarkEndSync(s) \/ EnableBidirectionalSync(s)
  PROVE  IInv'
<1> DEFINE Out == {"none", "queued", "list", "load", "apply", "end", "enable"}
<1>1. /\ UNCHANGED <<log, cached, handled, hpc, hrow, rows, lock, toRemove,
                     toUpdate, toAdd, held>>
      /\ \E st \in Out : pc' = [pc EXCEPT ![s] = st]
      /\ list' = list \/ list' = [list EXCEPT ![s] = 0]
  BY DEF Submit, Start, Aborts, LoadFails, Finish, EndWithError, MarkEndSync,
    EnableBidirectionalSync, SetSyncStatus, remoteVars, handlerVars
<1>2. TypeOK'
  <2>1. CASE Submit(s)
    BY <2>1, BoundsAreNat, VersionsAreNat DEF IInv, TypeOK, Actors, Submit,
      remoteVars, handlerVars, syncVars, statusVars, boundVars
  <2>2. CASE Start(s)
    BY <2>2, BoundsAreNat, VersionsAreNat DEF IInv, TypeOK, Actors, Start, SetSyncStatus,
      remoteVars, handlerVars, syncVars, statusVars, boundVars
  <2>3. CASE Aborts(s)
    BY <2>3, BoundsAreNat, VersionsAreNat DEF IInv, TypeOK, Actors, Aborts, DropCopy,
      remoteVars, handlerVars, syncVars, statusVars, boundVars
  <2>4. CASE LoadFails(s)
    BY <2>4, BoundsAreNat, VersionsAreNat DEF IInv, TypeOK, Actors, LoadFails,
      remoteVars, handlerVars, syncVars, statusVars, boundVars
  <2>5. CASE Finish(s)
    BY <2>5, BoundsAreNat, VersionsAreNat DEF IInv, TypeOK, Actors, Finish,
      remoteVars, handlerVars, syncVars, statusVars, boundVars
  <2>6. CASE EndWithError(s)
    BY <2>6, BoundsAreNat, VersionsAreNat DEF IInv, TypeOK, Actors, EndWithError, SetSyncStatus, DropCopy,
      remoteVars, handlerVars, syncVars, statusVars, boundVars
  <2>7. CASE MarkEndSync(s)
    BY <2>7, BoundsAreNat, VersionsAreNat DEF IInv, TypeOK, Actors, MarkEndSync, SetSyncStatus, DropCopy,
      remoteVars, handlerVars, syncVars, statusVars, boundVars
  <2>8. CASE EnableBidirectionalSync(s)
    BY <2>8, BoundsAreNat, VersionsAreNat DEF IInv, TypeOK, Actors, EnableBidirectionalSync,
      remoteVars, handlerVars, syncVars, statusVars, boundVars
  <2> QED
    BY <2>1, <2>2, <2>3, <2>4, <2>5, <2>6, <2>7, <2>8
<1>3. pc \in [Syncs -> Out \cup {"absent", "inserted"}]
      /\ list \in [Syncs -> 0..MaxChanges] /\ Len(log) \in Nat
  BY DEF IInv, TypeOK
<1>4. \A t \in Syncs : /\ pc'[t] \in {"absent", "inserted"} => pc'[t] = pc[t]
                       /\ list'[t] \in {list[t], 0}
  BY <1>1, <1>3
<1>5. HandlerHolds' /\ LogOwned' /\ Distinct(rows)'
  BY <1>1 DEF IInv, HandlerHolds, LogOwned, Event, Owns, Distinct
<1>6. SyncHolds'
  BY <1>1, <1>3, <1>4 DEF IInv, SyncHolds
<1>7. Owned' /\ StillAbsent'
  BY <1>1, <1>4 DEF IInv, Owned, StillAbsent, Owns, NotThere
<1> QED
  BY <1>2, <1>5, <1>6, <1>7 DEF IInv

\* The list is a prefix of the log.
LEMMA ListIInv ==
  ASSUME IInv, NEW s \in Syncs, ListRemoteObjects(s)
  PROVE  IInv'
<1>1. /\ UNCHANGED <<log, cached, handled, hpc, hrow, rows, lock, toRemove,
                     toUpdate, toAdd, held>>
      /\ pc' = [pc EXCEPT ![s] = "load"]
      /\ list' = [list EXCEPT ![s] = cached]
  BY DEF ListRemoteObjects, remoteVars, handlerVars
<1>2. Len(log) \in Nat /\ cached \in 0..Len(log) /\ Len(log) <= MaxChanges
  BY DEF IInv, TypeOK
<1>3. TypeOK'
  BY <1>2, VersionsAreNat DEF IInv, TypeOK, Actors, ListRemoteObjects, remoteVars,
    handlerVars, statusVars, boundVars
<1>4. \A t \in Syncs : pc'[t] \in {"absent", "inserted"} => pc'[t] = pc[t]
  BY <1>1 DEF IInv, TypeOK
<1>5. HandlerHolds' /\ LogOwned' /\ Distinct(rows)'
  BY <1>1 DEF IInv, HandlerHolds, LogOwned, Event, Owns, Distinct
<1>6. SyncHolds'
  BY <1>1, <1>2, <1>4 DEF IInv, TypeOK, SyncHolds
<1>7. Owned' /\ StillAbsent'
  BY <1>1, <1>4 DEF IInv, Owned, StillAbsent, Owns, NotThere
<1> QED
  BY <1>3, <1>5, <1>6, <1>7 DEF IInv

\* The three lists are parts of the table and of what was listed.
LEMMA CompareIInv ==
  ASSUME IInv, NEW s \in Syncs, LoadAndCompare(s)
  PROVE  IInv'
<1> DEFINE objs == Listing(list[s])
<1>1. /\ UNCHANGED <<log, cached, handled, hpc, hrow, rows, lock, list, held>>
      /\ pc' = [pc EXCEPT ![s] = "apply"]
      /\ \E R \in SUBSET rows : toRemove' = [toRemove EXCEPT ![s] = R]
      /\ \E R \in SUBSET rows : toUpdate' = [toUpdate EXCEPT ![s] = R]
      /\ \E A \in SUBSET objs : toAdd' = [toAdd EXCEPT ![s] = A]
      /\ UNCHANGED <<flag, errs, syncStatus, copy, fails, taskFails,
                     undisturbed>>
  BY DEF LoadAndCompare, remoteVars, handlerVars, statusVars, boundVars
<1>2. \A obj \in objs : obj \in RemoteObject /\ Owns(obj.name, obj.uid)
  <2>1. list[s] \in 0..Len(log)
    BY DEF IInv, TypeOK, SyncHolds
  <2> QED
    BY <2>1, ListingOwned DEF IInv
<1> HIDE DEF objs
<1>3. TypeOK'
  BY <1>1, <1>2 DEF IInv, TypeOK, Actors
<1>4. \A t \in Syncs :
        /\ pc'[t] \in {"absent", "inserted"} => pc'[t] = pc[t]
        /\ toUpdate'[t] = toUpdate[t] \/ toUpdate'[t] \subseteq rows
        /\ toAdd'[t] = toAdd[t] \/ toAdd'[t] \subseteq objs
  BY <1>1 DEF IInv, TypeOK
<1>5. HandlerHolds' /\ LogOwned' /\ Distinct(rows)'
  BY <1>1 DEF IInv, HandlerHolds, LogOwned, Event, Owns, Distinct
<1>6. SyncHolds' /\ StillAbsent'
  BY <1>1, <1>4 DEF IInv, SyncHolds, StillAbsent, NotThere
<1>7. Owned'
  BY <1>1, <1>2, <1>4 DEF IInv, Owned, Owns
<1> QED
  BY <1>3, <1>5, <1>6, <1>7 DEF IInv

\* The informer's store is read by ListRemoteObjects only.
LEMMA InformerIInv ==
  ASSUME IInv, InformerApply
  PROVE  IInv'
<1>1. cached \in 0..Len(log) /\ handled \in 0..cached /\ Len(log) \in Nat
  BY DEF IInv, TypeOK
<1>2. TypeOK'
  BY <1>1 DEF IInv, TypeOK, Actors, InformerApply, handlerVars, syncVars,
    statusVars, boundVars
<1>3. HandlerHolds'
  BY <1>1 DEF IInv, HandlerHolds, Event, InformerApply, handlerVars
<1>4. SyncHolds' /\ LogOwned' /\ Distinct(rows)'
  BY DEF IInv, SyncHolds, LogOwned, Owns, Distinct, InformerApply, syncVars
<1>5. Owned' /\ StillAbsent'
  BY DEF IInv, Owned, StillAbsent, Owns, NotThere, InformerApply, handlerVars,
    syncVars
<1> QED
  BY <1>2, <1>3, <1>4, <1>5 DEF IInv

\* An event is taken up or dropped.
LEMMA HandlerStartIInv ==
  ASSUME IInv, HandlerStart
  PROVE  IInv'
<1>1. cached \in 0..Len(log) /\ handled \in 0..cached /\ Len(log) \in Nat
  BY DEF IInv, TypeOK
<1>2. TypeOK'
  BY <1>1 DEF IInv, TypeOK, Actors, HandlerStart, remoteVars, syncVars,
    statusVars, boundVars
<1>3. HandlerHolds'
  BY <1>1 DEF IInv, HandlerHolds, HandlerStart, remoteVars
<1>4. SyncHolds' /\ LogOwned' /\ Distinct(rows)'
  BY DEF IInv, SyncHolds, LogOwned, Owns, Distinct, HandlerStart, syncVars,
    remoteVars
<1>5. Owned' /\ StillAbsent'
  BY DEF IInv, Owned, StillAbsent, Owns, NotThere, HandlerStart, remoteVars,
    syncVars
<1> QED
  BY <1>2, <1>3, <1>4, <1>5 DEF IInv

\* The event at hand, once the handler has left "idle".
LEMMA EventTyped ==
  ASSUME IInv, hpc # "idle"
  PROVE  /\ EventObject \in Columns
         /\ EventObject.name = Event.name
         /\ EventObject.uid = Event.uid
         /\ Owns(Event.name, Event.uid)
         /\ handled + 1 \in 0..cached
<1>1. /\ cached \in 0..Len(log) /\ handled \in 0..cached /\ handled < cached
      /\ Len(log) \in Nat /\ Len(log) <= MaxChanges
  BY DEF IInv, TypeOK, HandlerHolds
<1>2. handled + 1 \in 1..Len(log) /\ handled + 1 \in 0..MaxChanges
      /\ handled + 1 \in 0..cached
  BY <1>1, VersionsAreNat
<1>3. log[handled + 1] \in [name : Names, uid : 0..MaxChanges]
  BY <1>2, ElementOf DEF IInv, TypeOK
<1>4. Owns(Event.name, Event.uid)
  BY <1>2 DEF IInv, LogOwned, Event
<1> QED
  BY <1>2, <1>3, <1>4 DEF EventObject, Object, Event, Columns

\* While the handler has the class lock no synchronisation is between its
\* lookup and the end of its insertion, and the other way round.
LEMMA LockExcludes ==
  ASSUME IInv, NEW s \in Syncs, pc[s] \in {"absent", "inserted"}
  PROVE  /\ lock = s
         /\ held[s] \in Row
         /\ hpc \notin {"loaded", "absent", "inserted"}
         /\ \A t \in Syncs : pc[t] \in {"absent", "inserted"} => t = s
  BY SyncNames DEF IInv, SyncHolds, HandlerHolds

\* With the class lock the handler finds its row or builds one.
LEMMA HandlerLookupIInv ==
  ASSUME IInv, HandlerLookup
  PROVE  IInv'
<1>1. /\ hpc = "lock" /\ lock = "free"
      /\ UNCHANGED <<log, cached, flag, rows, pc, list, toRemove, toUpdate,
                     toAdd, held, errs, syncStatus, copy, fails, taskFails,
                     undisturbed>>
  BY DEF HandlerLookup, remoteVars, syncVars, statusVars, boundVars
<1>2. /\ EventObject \in Columns
      /\ EventObject.name = Event.name
      /\ EventObject.uid = Event.uid
      /\ Owns(Event.name, Event.uid)
      /\ handled + 1 \in 0..cached
      /\ handled < cached
  BY <1>1, EventTyped DEF IInv, HandlerHolds
<1>3. rows \subseteq Row
  BY DEF IInv, TypeOK
<1>4. \A s \in Syncs : pc[s] \notin {"absent", "inserted"}
  BY <1>1, SyncNames DEF IInv, SyncHolds
<1>5. \/ /\ hrow' \in rows /\ hrow'.name = Event.name
         /\ lock' = "handler" /\ hpc' = "loaded" /\ handled' = handled
      \/ /\ hrow' \in Row /\ hrow'.name = Event.name /\ hrow'.uid = Event.uid
         /\ NotThere(hrow')
         /\ lock' = "handler" /\ hpc' = "absent" /\ handled' = handled
      \/ /\ hpc' = "idle" /\ hrow' = NoRow /\ lock' = "free"
         /\ handled' = handled + 1
  BY <1>2, <1>3, RowOfFresh DEF HandlerLookup, HandlerReturns, ByName
<1>6. TypeOK'
  BY <1>1, <1>2, <1>3, <1>5 DEF IInv, TypeOK, Actors
<1>7. HandlerHolds'
  BY <1>1, <1>2, <1>3, <1>5 DEF HandlerHolds, Event
<1>8. SyncHolds' /\ LogOwned' /\ Distinct(rows)'
  BY <1>1, <1>4 DEF IInv, SyncHolds, LogOwned, Owns, Distinct
<1>9. Owned'
  BY <1>1, <1>2, <1>5 DEF IInv, Owned, Owns
<1>10. StillAbsent'
  BY <1>1, <1>3, <1>4, <1>5 DEF IInv, StillAbsent, NotThere, Distinct
<1> QED
  BY <1>6, <1>7, <1>8, <1>9, <1>10 DEF IInv

\* The name is still absent when the handler inserts its row.
LEMMA HandlerInsertIInv ==
  ASSUME IInv, HandlerInsert
  PROVE  IInv'
<1>1. /\ hpc = "absent" /\ hpc' = "inserted"
      /\ rows' = rows \cup {hrow}
      /\ UNCHANGED <<log, cached, handled, hrow, flag, lock, pc, list,
                     toRemove, toUpdate, toAdd, held, errs, syncStatus, copy,
                     fails, taskFails>>
  BY DEF HandlerInsert, remoteVars, syncVars, statusVars, boundVars
<1>2. /\ hrow \in Row /\ NotThere(hrow) /\ Owns(hrow.name, hrow.uid)
      /\ rows \subseteq Row /\ Distinct(rows)
      /\ \A r \in rows : Owns(r.name, r.uid)
  BY <1>1 DEF IInv, TypeOK, HandlerHolds, StillAbsent, Owned
<1>3. rows' \subseteq Row /\ Distinct(rows')
      /\ \A r \in rows' : Owns(r.name, r.uid)
  BY <1>1, <1>2, InsertKeeps
<1>4. TypeOK'
  BY <1>1, <1>3, DisturbType DEF IInv, TypeOK, Actors, HandlerInsert
<1>5. \A s \in Syncs : pc[s] \notin {"absent", "inserted"}
  BY <1>1, LockExcludes
<1>6. HandlerHolds' /\ SyncHolds' /\ LogOwned'
  BY <1>1, <1>5 DEF IInv, HandlerHolds, SyncHolds, LogOwned, Event, Owns
<1>7. Owned'
  BY <1>1, <1>3 DEF IInv, Owned, Owns
<1>8. StillAbsent' /\ Distinct(rows)'
  BY <1>1, <1>2, <1>3, <1>5 DEF StillAbsent, NotThere, Distinct
<1> QED
  BY <1>4, <1>6, <1>7, <1>8 DEF IInv

\* HandlerUpdate and HandlerDelete: the table keeps its names, and the
\* handler is done.
LEMMA HandlerEndIInv ==
  ASSUME IInv, HandlerUpdate \/ HandlerDelete
  PROVE  IInv'
<1>1. /\ hpc \in {"loaded", "inserted"}
      /\ hpc' = "idle" /\ hrow' = NoRow /\ handled' = handled + 1
      /\ lock' = "free"
      /\ UNCHANGED <<log, cached, flag, pc, list, toRemove, toUpdate, toAdd,
                     held, errs, syncStatus, copy, fails, taskFails>>
      /\ Disturb("handler")
  BY DEF HandlerUpdate, HandlerDelete, HandlerReturns, remoteVars, syncVars,
    statusVars, boundVars
<1>2. /\ EventObject \in Columns
      /\ EventObject.name = Event.name
      /\ Owns(EventObject.name, EventObject.uid)
      /\ handled + 1 \in 0..cached
      /\ hrow \in Row /\ hrow.name = Event.name
      /\ \A r \in rows : r.id = hrow.id => r.name = hrow.name
  BY <1>1, EventTyped DEF IInv, HandlerHolds, StillAbsent
<1>3. /\ rows \subseteq Row /\ Distinct(rows)
      /\ \A r \in rows : Owns(r.name, r.uid)
  BY DEF IInv, TypeOK, Owned
<1>4. /\ rows' \subseteq Row /\ Distinct(rows') /\ FromRows(rows')
      /\ \A r \in rows' : Owns(r.name, r.uid)
  <2>1. CASE rows' = rows
    BY <2>1, <1>3 DEF FromRows
  <2>2. CASE rows' = Write(hrow, Updated(hrow, EventObject))
    BY <2>2, <1>2, <1>3, WriteKeeps
  <2>3. CASE rows' = Without(hrow)
    BY <2>3, <1>3, WithoutKeeps
  <2> QED
    BY <2>1, <2>2, <2>3 DEF HandlerUpdate, HandlerDelete
<1>5. TypeOK'
  BY <1>1, <1>2, <1>4, DisturbType DEF IInv, TypeOK, Actors
<1>6. \A s \in Syncs : pc[s] \notin {"absent", "inserted"}
  BY <1>1, LockExcludes
<1>7. HandlerHolds' /\ SyncHolds' /\ LogOwned'
  BY <1>1, <1>6 DEF IInv, HandlerHolds, SyncHolds, LogOwned, Owns
<1>8. Owned'
  BY <1>1, <1>4, <1>6 DEF IInv, Owned, Owns
<1>9. StillAbsent' /\ Distinct(rows)'
  BY <1>1, <1>4, <1>6 DEF StillAbsent, Distinct
<1> QED
  BY <1>5, <1>7, <1>8, <1>9 DEF IInv

\* RemoveOne and UpdateOne: the table keeps its names, through copies that
\* may be as old as the synchronisation.
LEMMA ApplyIInv ==
  ASSUME IInv, NEW s \in Syncs, RemoveOne(s) \/ UpdateOne(s)
  PROVE  IInv'
<1>1. /\ UNCHANGED <<log, cached, handled, hpc, hrow, flag, lock, pc, list,
                     toAdd, held, syncStatus, copy, fails, taskFails>>
      /\ \E R \in SUBSET toRemove[s] : toRemove' = [toRemove EXCEPT ![s] = R]
      /\ \E R \in SUBSET toUpdate[s] : toUpdate' = [toUpdate EXCEPT ![s] = R]
      /\ errs' = errs \/ errs' = [errs EXCEPT ![s] = TRUE]
      /\ Disturb(s)
  <2>1. CASE RemoveOne(s)
    <3>1. toUpdate' = [toUpdate EXCEPT ![s] = toUpdate[s]]
      BY <2>1 DEF RemoveOne, IInv, TypeOK
    <3> QED
      BY <2>1, <3>1 DEF RemoveOne, remoteVars, handlerVars, statusVars,
        boundVars
  <2>2. CASE UpdateOne(s)
    <3>1. toRemove' = [toRemove EXCEPT ![s] = toRemove[s]]
      BY <2>2 DEF UpdateOne, IInv, TypeOK
    <3> QED
      BY <2>2, <3>1 DEF UpdateOne, remoteVars, handlerVars, statusVars,
        boundVars
  <2> QED
    BY <2>1, <2>2
<1>2. /\ rows \subseteq Row /\ Distinct(rows)
      /\ \A r \in rows : Owns(r.name, r.uid)
      /\ toUpdate[s] \subseteq Row
      /\ \A r \in toUpdate[s] : Owns(r.name, r.uid)
      /\ list[s] \in 0..Len(log)
  BY DEF IInv, TypeOK, Owned, SyncHolds
<1>3. /\ rows' \subseteq Row /\ Distinct(rows') /\ FromRows(rows')
      /\ \A r \in rows' : Owns(r.name, r.uid)
  <2>1. CASE rows' = rows
    BY <2>1, <1>2 DEF FromRows
  <2>2. CASE RemoveOne(s)
    <3>1. PICK r \in toRemove[s] : rows' = Without(r)
      BY <2>2 DEF RemoveOne
    <3> QED
      BY <3>1, <1>2, WithoutKeeps
  <2>3. CASE UpdateOne(s) /\ rows' # rows
    <3>1. PICK r \in toUpdate[s], obj \in Listing(list[s]) :
            obj.uid = r.uid /\ rows' = Write(r, Updated(r, obj))
      BY <2>3 DEF UpdateOne
    <3>2. obj \in RemoteObject /\ obj \in Columns /\ Owns(obj.name, obj.uid)
      BY <1>2, <3>1, ListingOwned DEF IInv
    <3>3. obj.uid # 0
      BY <3>2 DEF RemoteObject
    <3>4. obj.name = r.name
      BY <1>2, <3>1, <3>2, <3>3 DEF Owns
    <3> QED
      BY <1>2, <3>1, <3>2, <3>4, WriteKeeps
  <2> QED
    BY <2>1, <2>2, <2>3
<1>4. TypeOK'
  <2>1. TypeOK
    BY DEF IInv
  <2>2. toRemove' \in [Syncs -> SUBSET Row] /\ toUpdate' \in [Syncs -> SUBSET Row]
    BY <1>1, <2>1 DEF TypeOK
  <2>3. errs' \in [Syncs -> BOOLEAN]
    BY <1>1, <2>1 DEF TypeOK
  <2>4. undisturbed' \in [Syncs -> BOOLEAN]
    BY <1>1, <2>1, DisturbType
  <2> QED
    BY <1>1, <1>3, <2>1, <2>2, <2>3, <2>4 DEF TypeOK, Actors
<1>5. \A t \in Syncs : toUpdate'[t] \subseteq toUpdate[t]
  BY <1>1 DEF IInv, TypeOK
<1>6. HandlerHolds' /\ SyncHolds' /\ LogOwned'
  BY <1>1 DEF IInv, HandlerHolds, SyncHolds, LogOwned, Event, Owns
<1>7. Owned'
  BY <1>1, <1>3, <1>5 DEF IInv, Owned, Owns
<1>8. StillAbsent'
  <2>1. hpc \in {"loaded", "inserted"} =>
          \A q \in rows' : q.id = hrow.id => q.name = hrow.name
    BY <1>3 DEF IInv, StillAbsent, FromRows
  <2>2. ASSUME hpc = "absent" PROVE NotThere(hrow)'
    BY <1>1, <1>3, <2>2 DEF IInv, StillAbsent, NotThere, FromRows
  <2>3. ASSUME NEW t \in Syncs, pc[t] = "absent" PROVE NotThere(held[t])'
    BY <1>1, <1>3, <2>3 DEF IInv, StillAbsent, NotThere, FromRows
  <2> QED
    BY <1>1, <2>1, <2>2, <2>3 DEF StillAbsent
<1> QED
  BY <1>3, <1>4, <1>6, <1>7, <1>8 DEF IInv

\* With the class lock a synchronisation finds a name absent, or fails.
LEMMA AddOneIInv ==
  ASSUME IInv, NEW s \in Syncs, AddOne(s)
  PROVE  IInv'
<1>1. /\ pc[s] = "apply" /\ lock = "free"
      /\ UNCHANGED <<log, cached, handled, hpc, hrow, flag, rows, list,
                     toRemove, toUpdate, syncStatus, copy, fails, taskFails,
                     undisturbed>>
  BY DEF AddOne, remoteVars, handlerVars, statusVars, boundVars
<1>2. /\ rows \subseteq Row
      /\ \A obj \in toAdd[s] : obj \in Columns /\ Owns(obj.name, obj.uid)
  BY DEF IInv, TypeOK, Owned, RemoteObject, Columns
<1>3. /\ hpc \notin {"loaded", "absent", "inserted"}
      /\ \A t \in Syncs : pc[t] \notin {"absent", "inserted"}
  BY <1>1, SyncNames DEF IInv, HandlerHolds, SyncHolds
<1>4. PICK obj \in toAdd[s] :
        \/ /\ errs' = [errs EXCEPT ![s] = TRUE]
           /\ toAdd' = [toAdd EXCEPT ![s] = @ \ {obj}]
           /\ UNCHANGED <<lock, held, pc>>
        \/ /\ RowOf(obj) \in Row
           /\ RowOf(obj).name = obj.name
           /\ RowOf(obj).uid = obj.uid
           /\ NotThere(RowOf(obj))
           /\ held' = [held EXCEPT ![s] = RowOf(obj)]
           /\ lock' = s
           /\ pc' = [pc EXCEPT ![s] = "absent"]
           /\ UNCHANGED <<errs, toAdd>>
  BY <1>2, RowOfFresh DEF AddOne
<1>5. TypeOK'
  <2>1. TypeOK
    BY DEF IInv
  <2>2. errs' \in [Syncs -> BOOLEAN]
    BY <1>4, <2>1 DEF TypeOK
  <2>3. toAdd' \in [Syncs -> SUBSET RemoteObject]
    <3>1. toAdd \in [Syncs -> SUBSET RemoteObject]
      BY <2>1 DEF TypeOK
    <3>2. toAdd' = toAdd \/ toAdd' = [toAdd EXCEPT ![s] = @ \ {obj}]
      BY ONLY <1>4
    <3> QED
      BY ONLY <3>1, <3>2
  <2>4. held' \in [Syncs -> Row \cup {NoRow}]
    BY <1>4, <2>1 DEF TypeOK
  <2>5. lock' \in {"free"} \cup Actors
        /\ pc' \in [Syncs -> {"none", "queued", "list", "load", "apply",
                              "absent", "inserted", "end", "enable"}]
    BY <1>4, <2>1 DEF TypeOK, Actors
  <2> QED
    BY <1>1, <2>1, <2>2, <2>3, <2>4, <2>5 DEF TypeOK
<1>6. HandlerHolds' /\ LogOwned' /\ Distinct(rows)'
  BY <1>1, <1>3 DEF IInv, HandlerHolds, LogOwned, Event, Owns, Distinct
<1>7. \A t \in Syncs :
        /\ toAdd'[t] \subseteq toAdd[t]
        /\ pc'[t] \in {"absent", "inserted"} =>
             /\ t = s /\ lock' = s /\ held'[t] \in Row
             /\ held'[t].name = obj.name /\ held'[t].uid = obj.uid
             /\ NotThere(held'[t])
  BY <1>3, <1>4 DEF IInv, TypeOK
<1>8. SyncHolds'
  BY <1>1, <1>7 DEF IInv, SyncHolds
<1>9. Owned'
  BY <1>1, <1>2, <1>3, <1>7 DEF IInv, Owned, Owns
<1>10. StillAbsent'
  BY <1>1, <1>3, <1>7 DEF StillAbsent, NotThere
<1> QED
  BY <1>5, <1>6, <1>8, <1>9, <1>10 DEF IInv

\* The name is still absent when a synchronisation inserts its row.
LEMMA AddOneInsertIInv ==
  ASSUME IInv, NEW s \in Syncs, AddOneInsert(s)
  PROVE  IInv'
<1>1. /\ pc[s] = "absent" /\ pc' = [pc EXCEPT ![s] = "inserted"]
      /\ rows' = rows \cup {held[s]}
      /\ UNCHANGED <<log, cached, handled, hpc, hrow, flag, lock, list,
                     toRemove, toUpdate, toAdd, held, errs, syncStatus, copy,
                     fails, taskFails>>
      /\ Disturb(s)
  BY DEF AddOneInsert, remoteVars, handlerVars, statusVars, boundVars
<1>2. /\ held[s] \in Row /\ NotThere(held[s])
      /\ Owns(held[s].name, held[s].uid)
      /\ rows \subseteq Row /\ Distinct(rows)
      /\ \A r \in rows : Owns(r.name, r.uid)
  BY <1>1 DEF IInv, TypeOK, SyncHolds, StillAbsent, Owned
<1>3. rows' \subseteq Row /\ Distinct(rows')
      /\ \A r \in rows' : Owns(r.name, r.uid)
  BY <1>1, <1>2, InsertKeeps
<1>4. /\ hpc \notin {"loaded", "absent", "inserted"}
      /\ \A t \in Syncs : pc[t] \in {"absent", "inserted"} => t = s
  BY <1>1, LockExcludes
<1>5. TypeOK'
  BY <1>1, <1>3, DisturbType DEF IInv, TypeOK, Actors
<1>6. \A t \in Syncs : pc'[t] = IF t = s THEN "inserted" ELSE pc[t]
  BY <1>1 DEF IInv, TypeOK
<1>7. HandlerHolds' /\ SyncHolds' /\ LogOwned'
  BY <1>1, <1>6 DEF IInv, HandlerHolds, SyncHolds, LogOwned, Event, Owns
<1>8. Owned'
  BY <1>1, <1>3, <1>6 DEF IInv, Owned, Owns
<1>9. StillAbsent' /\ Distinct(rows)'
  BY <1>1, <1>3, <1>4, <1>6 DEF StillAbsent, Distinct
<1> QED
  BY <1>5, <1>7, <1>8, <1>9 DEF IInv

\* The object of the inserted row has its name, since it has its uid.
LEMMA AddOneUpdateIInv ==
  ASSUME IInv, NEW s \in Syncs, AddOneUpdate(s)
  PROVE  IInv'
<1>1. PICK obj \in toAdd[s] :
        /\ obj.uid = held[s].uid
        /\ rows' = Write(held[s], Updated(held[s], obj))
        /\ toAdd' = [toAdd EXCEPT ![s] = @ \ {obj}]
  BY DEF AddOneUpdate
<1>2. /\ pc[s] = "inserted" /\ pc' = [pc EXCEPT ![s] = "apply"]
      /\ held' = [held EXCEPT ![s] = NoRow] /\ lock' = "free"
      /\ UNCHANGED <<log, cached, handled, hpc, hrow, flag, list, toRemove,
                     toUpdate, errs, syncStatus, copy, fails, taskFails>>
      /\ Disturb(s)
  BY DEF AddOneUpdate, remoteVars, handlerVars, statusVars, boundVars
<1>3. /\ rows \subseteq Row /\ Distinct(rows)
      /\ \A r \in rows : Owns(r.name, r.uid)
      /\ held[s] \in Row /\ Owns(held[s].name, held[s].uid)
      /\ obj \in RemoteObject /\ obj \in Columns /\ Owns(obj.name, obj.uid)
  BY <1>2 DEF IInv, TypeOK, Owned, SyncHolds, RemoteObject, Columns
<1>4. obj.name = held[s].name
  <2>1. obj.uid # 0
    BY <1>3 DEF RemoteObject
  <2> QED
    BY <1>1, <1>3, <2>1 DEF Owns
<1>5. /\ rows' \subseteq Row /\ Distinct(rows') /\ FromRows(rows')
      /\ \A r \in rows' : Owns(r.name, r.uid)
  BY <1>1, <1>3, <1>4, WriteKeeps
<1>6. /\ hpc \notin {"loaded", "absent", "inserted"}
      /\ \A t \in Syncs : pc[t] \in {"absent", "inserted"} => t = s
  BY <1>2, LockExcludes
<1>7. TypeOK'
  BY <1>1, <1>2, <1>5, DisturbType DEF IInv, TypeOK, Actors
<1>8. \A t \in Syncs : /\ pc'[t] \notin {"absent", "inserted"}
                       /\ toAdd'[t] \subseteq toAdd[t]
  BY <1>1, <1>2, <1>6 DEF IInv, TypeOK
<1>9. HandlerHolds' /\ SyncHolds' /\ LogOwned'
  BY <1>2, <1>6, <1>8 DEF IInv, HandlerHolds, SyncHolds, LogOwned, Event, Owns
<1>10. Owned'
  BY <1>2, <1>5, <1>6, <1>8 DEF IInv, Owned, Owns
<1>11. StillAbsent' /\ Distinct(rows)'
  BY <1>2, <1>5, <1>6, <1>8 DEF StillAbsent, Distinct
<1> QED
  BY <1>7, <1>9, <1>10, <1>11 DEF IInv

\* A failed creation leaves a row of a name that had none.
LEMMA CreateFailsIInv ==
  ASSUME IInv, NEW n \in Names, CreateFails(n)
  PROVE  IInv'
<1> DEFINE new == [id |-> NewId, name |-> n, uid |-> 0, ver |-> 0,
                   status |-> "create_fail"]
<1>1. /\ lock = "free" /\ ByName(n) = {} /\ FreeIds # {}
      /\ taskFails < MaxTaskFails /\ taskFails' = taskFails + 1
      /\ rows' = rows \cup {new}
      /\ UNCHANGED <<log, cached, handled, hpc, hrow, flag, lock, pc, list,
                     toRemove, toUpdate, toAdd, held, errs, syncStatus, copy,
                     fails>>
      /\ Disturb("api")
  BY DEF CreateFails, remoteVars, handlerVars, syncVars, statusVars
<1>2. NewId \in 1..MaxRows /\ NewId \notin {r.id : r \in rows}
  BY <1>1 DEF NewId, FreeIds, Referenced
<1>3. /\ rows \subseteq Row /\ Distinct(rows)
      /\ \A r \in rows : Owns(r.name, r.uid)
  BY DEF IInv, TypeOK, Owned
<1> HIDE DEF NewId
<1>4. new \in Row /\ NotThere(new) /\ Owns(new.name, new.uid)
  BY <1>1, <1>2, VersionsAreNat DEF Row, Failures, NotThere, ByName, Owns
<1> HIDE DEF new
<1>5. rows' \subseteq Row /\ Distinct(rows')
      /\ \A r \in rows' : Owns(r.name, r.uid)
  BY <1>1, <1>3, <1>4, InsertKeeps
<1>6. /\ hpc \notin {"loaded", "absent", "inserted"}
      /\ \A t \in Syncs : pc[t] \notin {"absent", "inserted"}
  BY <1>1, SyncNames DEF IInv, HandlerHolds, SyncHolds
<1>7. TypeOK'
  BY <1>1, <1>5, DisturbType, BoundsAreNat DEF IInv, TypeOK, Actors
<1>8. HandlerHolds' /\ SyncHolds' /\ LogOwned'
  BY <1>1 DEF IInv, HandlerHolds, SyncHolds, LogOwned, Event, Owns
<1>9. Owned'
  BY <1>1, <1>5 DEF IInv, Owned, Owns
<1>10. StillAbsent' /\ Distinct(rows)'
  BY <1>1, <1>5, <1>6 DEF StillAbsent, Distinct
<1> QED
  BY <1>7, <1>8, <1>9, <1>10 DEF IInv

\* An operation that fails changes a status only.
LEMMA OperationIInv ==
  ASSUME IInv, OperationFails
  PROVE  IInv'
<1>1. /\ UNCHANGED <<log, cached, handled, hpc, hrow, flag, lock, pc, list, toRemove,
                     toUpdate, toAdd, held, errs, syncStatus, copy, fails>>
      /\ taskFails < MaxTaskFails /\ taskFails' = taskFails + 1
      /\ Disturb("api")
  BY DEF OperationFails, remoteVars, handlerVars, syncVars, statusVars
<1>2. rows \subseteq Row /\ Distinct(rows) /\ \A r \in rows : Owns(r.name, r.uid)
  BY DEF IInv, TypeOK, Owned
<1>3. PICK r \in rows : rows' = Write(r, [r EXCEPT !.status = "update_fail"])
  BY DEF OperationFails
<1> DEFINE new == [r EXCEPT !.status = "update_fail"]
           Image(q) == IF q.id = r.id THEN Merged(q, r, new) ELSE q
           R == {Image(q) : q \in rows}
<1>4. new \in Row /\ new.id = r.id /\ new.name = r.name /\ new.uid = r.uid
  BY <1>2 DEF Row, Failures
<1>5. rows' = R
  BY <1>3 DEF Write, Merged
<1> HIDE DEF new
<1>6. ASSUME NEW q \in rows
      PROVE  /\ Image(q) \in Row
             /\ Image(q).id = q.id /\ Image(q).name = q.name /\ Image(q).uid = q.uid
  BY <1>2, <1>4, MergedIsRow
<1> HIDE DEF Image
<1>7. rows' \subseteq Row /\ FromRows(rows') /\ \A q \in rows' : Owns(q.name, q.uid)
  BY <1>2, <1>5, <1>6 DEF FromRows
<1>8. Distinct(rows')
  BY <1>2, <1>5, <1>6 DEF Distinct
<1>9. TypeOK'
  BY <1>1, <1>7, DisturbType, BoundsAreNat DEF IInv, TypeOK, Actors
<1>10. HandlerHolds' /\ SyncHolds' /\ LogOwned'
  BY <1>1 DEF IInv, HandlerHolds, SyncHolds, LogOwned, Event, Owns
<1>11. Owned'
  BY <1>1, <1>7 DEF IInv, Owned, Owns
<1>12. StillAbsent'
  BY <1>1, <1>7 DEF IInv, StillAbsent, NotThere, FromRows
<1> QED
  BY <1>8, <1>9, <1>10, <1>11, <1>12 DEF IInv, Distinct

\* Every step keeps the invariant.
LEMMA StepIInv == IInv /\ [Next]_vars => IInv'
<1> SUFFICES ASSUME IInv, [Next]_vars PROVE IInv'
  OBVIOUS
<1>1. ASSUME NEW n \in Names,
             RemoteCreate(n) \/ RemoteUpdate(n) \/ RemoteDelete(n)
      PROVE  IInv'
  BY <1>1, RemoteIInv
<1>2. ASSUME NEW n \in Names, CreateFails(n) PROVE IInv'
  BY <1>2, CreateFailsIInv
<1>7. CASE OperationFails
  BY <1>7, OperationIInv
<1>3. CASE InformerApply
  BY <1>3, InformerIInv
<1>4. CASE Handler
  BY <1>4, HandlerStartIInv, HandlerLookupIInv, HandlerInsertIInv,
    HandlerEndIInv DEF Handler
<1>5. ASSUME NEW s \in Syncs,
             Submit(s) \/ Aborts(s) \/ LoadFails(s) \/ SyncStep(s)
      PROVE  IInv'
  BY <1>5, QuietIInv, ListIInv, CompareIInv, ApplyIInv, AddOneIInv,
    AddOneInsertIInv, AddOneUpdateIInv DEF SyncStep
<1>6. CASE UNCHANGED vars
  <2>1. TypeOK'
    BY <1>6 DEF IInv, TypeOK, vars
  <2>2. (HandlerHolds /\ SyncHolds /\ LogOwned /\ Distinct(rows))'
    BY <1>6 DEF IInv, HandlerHolds, SyncHolds, LogOwned, Distinct, Event, Owns,
      vars
  <2>3. (Owned /\ StillAbsent)'
    BY <1>6 DEF IInv, Owned, StillAbsent, NotThere, Owns, vars
  <2> QED
    BY <2>1, <2>2, <2>3 DEF IInv
<1> QED
  BY <1>1, <1>2, <1>3, <1>4, <1>5, <1>6, <1>7 DEF Next

-----------------------------------------------------------------------------
(* Theorems *)

\* The invariant holds in every reachable state.
THEOREM SyncInvariant == Spec => []IInv
  BY InitIInv, StepIInv, PTL DEF Spec

\* Every reachable state is well typed, whatever the names, synchronisations
\* and bounds.
THEOREM SyncTypeCorrect == Spec => []TypeOK
<1>1. IInv => TypeOK
  BY DEF IInv
<1> QED
  BY SyncInvariant, <1>1, PTL

\* No name ever has two rows: the class lock around lookup and insertion
\* suffices, although removals and updates do not take it and write through
\* copies of any age.
THEOREM NoDuplicateRows == Spec => []OneRowPerName
<1>1. IInv => OneRowPerName
  BY DEF IInv, Distinct, OneRowPerName
<1> QED
  BY SyncInvariant, <1>1, PTL

-----------------------------------------------------------------------------
(* The cluster's sync_status *)

\* The stages between MarkSyncing and the mark that ends a synchronisation.
AtWork == {"list", "load", "apply", "absent", "inserted", "end"}

\* A synchronisation at work has MarkSyncing in its own copy of the row, so
\* the column-wise write at its end cannot be left out as unchanged.
CopyMarked == \A s \in Syncs : pc[s] \in AtWork => copy[s] = "syncing"

\* A step leaves sync_status to its holders unless it starts or ends one.
LEMMA StepMarked ==
  ASSUME TypeOK, CopyMarked, SyncingHasWorker, [Next]_vars
  PROVE  CopyMarked' /\ SyncingHasWorker'
<1> DEFINE Keeps == /\ UNCHANGED <<syncStatus, copy>>
                    /\ \A t \in Syncs : pc'[t] \in AtWork <=> pc[t] \in AtWork
<1>1. ASSUME Keeps PROVE CopyMarked' /\ SyncingHasWorker'
  BY <1>1 DEF CopyMarked, SyncingHasWorker, AtWork
<1>2. /\ pc \in [Syncs -> {"none", "queued", "list", "load", "apply", "absent",
                           "inserted", "end", "enable"}]
      /\ copy \in [Syncs -> {"idle", "syncing", "error"}]
  BY DEF TypeOK
<1>3. ASSUME NEW n \in Names,
             \/ RemoteCreate(n) \/ RemoteUpdate(n) \/ RemoteDelete(n)
             \/ CreateFails(n)
      PROVE  Keeps
  BY <1>3 DEF RemoteCreate, RemoteUpdate, RemoteDelete, Change, CreateFails,
    syncVars, statusVars
<1>10. CASE OperationFails
  BY <1>1, <1>10 DEF OperationFails, syncVars, statusVars
<1>4. CASE InformerApply \/ Handler
  <2>1. Keeps
    BY <1>4 DEF InformerApply, Handler, HandlerStart, HandlerLookup,
      HandlerInsert, HandlerUpdate, HandlerDelete, syncVars, statusVars
  <2> QED
    BY <1>1, <2>1
<1>5. ASSUME NEW s \in Syncs,
             \/ LoadFails(s) \/ ListRemoteObjects(s)
             \/ LoadAndCompare(s) \/ RemoveOne(s) \/ UpdateOne(s) \/ AddOne(s)
             \/ AddOneInsert(s) \/ AddOneUpdate(s) \/ Finish(s)
             \/ EnableBidirectionalSync(s)
      PROVE  Keeps
  <2>1. UNCHANGED <<syncStatus, copy>>
    BY <1>5 DEF Aborts, LoadFails, ListRemoteObjects, LoadAndCompare, RemoveOne,
      UpdateOne, AddOne, AddOneInsert, AddOneUpdate, Finish,
      EnableBidirectionalSync, statusVars
  <2>2. \/ pc' = pc
        \/ /\ pc[s] \in AtWork
           /\ \E st \in AtWork : pc' = [pc EXCEPT ![s] = st]
        \/ /\ pc[s] \notin AtWork
           /\ pc' = [pc EXCEPT ![s] = "none"]
    BY <1>5 DEF Aborts, LoadFails, ListRemoteObjects, LoadAndCompare, RemoveOne,
      UpdateOne, AddOne, AddOneInsert, AddOneUpdate, Finish,
      EnableBidirectionalSync, AtWork
  <2> QED
    BY <2>1, <2>2, <1>2 DEF AtWork
<1>6. ASSUME NEW s \in Syncs, Submit(s) \/ Aborts(s)
      PROVE  CopyMarked' /\ SyncingHasWorker'
  BY <1>6, <1>2 DEF Submit, Aborts, DropCopy, CopyMarked, SyncingHasWorker, AtWork
<1>7. ASSUME NEW s \in Syncs, Start(s)
      PROVE  CopyMarked' /\ SyncingHasWorker'
  BY <1>7, <1>2 DEF Start, SetSyncStatus, CopyMarked, SyncingHasWorker, AtWork
<1>8. ASSUME NEW s \in Syncs, EndWithError(s) \/ MarkEndSync(s)
      PROVE  CopyMarked' /\ SyncingHasWorker'
  <2>1. /\ copy[s] = "syncing"
        /\ \E st \in {"error", "idle"} : SetSyncStatus(s, st)
        /\ copy' = [copy EXCEPT ![s] = "idle"]
        /\ \E st \in {"none", "enable"} : pc' = [pc EXCEPT ![s] = st]
    BY <1>8 DEF EndWithError, MarkEndSync, DropCopy, CopyMarked, AtWork
  <2>2. syncStatus' # "syncing"
    BY <2>1 DEF SetSyncStatus
  <2>3. CopyMarked'
    BY <2>1, <1>2 DEF SetSyncStatus, CopyMarked, AtWork
  <2> QED
    BY <2>2, <2>3 DEF SyncingHasWorker
<1>9. CASE UNCHANGED vars
  BY <1>9 DEF CopyMarked, SyncingHasWorker, vars
<1> QED
  BY <1>1, <1>3, <1>4, <1>5, <1>6, <1>7, <1>8, <1>9, <1>10 DEF Next, SyncStep

\* However many synchronisations overlap, sync_status is "syncing" only while
\* one of them is at work: the first to end writes its own mark although
\* others go on, and no dropped write leaves the status behind.
THEOREM SyncingIsWork == Spec => []SyncingHasWorker
<1>1. Init => CopyMarked /\ SyncingHasWorker
  BY DEF Init, CopyMarked, SyncingHasWorker, AtWork
<1>2. TypeOK /\ CopyMarked /\ SyncingHasWorker /\ [Next]_vars
        => CopyMarked' /\ SyncingHasWorker'
  BY StepMarked
<1> QED
  BY <1>1, <1>2, SyncTypeCorrect, PTL DEF Spec

-----------------------------------------------------------------------------
(* What a synchronisation that reports success has done *)

\* The row shows the object, as UpdateFromRemoteObject leaves it.
Shows(r, obj) ==
  r.name = obj.name /\ r.uid = obj.uid /\ r.ver = obj.ver /\ r.status = "active"

\* While nobody else writes, what is left to do and what has been done divide
\* the rows and the listed objects between them: rows still to be removed or
\* updated, the row just inserted, rows of failed operations, and rows that
\* show their object; objects still to be added, and objects that have a row.
Divided(s) ==
  LET objs == Listing(list[s]) IN
  /\ toRemove[s] \subseteq rows /\ toUpdate[s] \subseteq rows
  /\ toAdd[s] \subseteq objs
  /\ \A r \in toRemove[s], obj \in objs : r.uid # obj.uid
  /\ \A r \in toUpdate[s] : \E obj \in objs : obj.uid = r.uid
  /\ \A r \in rows :
       \/ r \in toRemove[s] \cup toUpdate[s]
       \/ r.status \in Failures
       \/ pc[s] = "inserted" /\ r = held[s]
       \/ \E obj \in objs : Shows(r, obj)
  /\ \A obj \in objs :
       \/ obj \in toAdd[s]
       \/ \E r \in rows : r.uid = obj.uid /\ (r \in toUpdate[s] \/ Shows(r, obj))
  /\ pc[s] # "apply" => toRemove[s] = {} /\ toUpdate[s] = {}
  /\ pc[s] = "inserted" => held[s] \in rows

\* The table is the list it took; rows of failed operations apart.
TableIsList(s) ==
  {[name |-> r.name, uid |-> r.uid, ver |-> r.ver] :
     r \in {q \in rows : q.status \notin Failures}} = Listing(list[s])

\* A synchronisation without an error that nobody has disturbed.
Alone(s) == undisturbed[s] /\ ~errs[s]

Tracked(s) ==
  Alone(s) =>
    /\ pc[s] \in {"apply", "absent", "inserted"} => Divided(s)
    /\ pc[s] = "end" => TableIsList(s)

AllTracked == \A s \in Syncs : Tracked(s)

\* Nothing of what s relies on has changed, or s has been disturbed.
LogKept == Len(log') >= Len(log) /\ \A i \in 1..Len(log) : log'[i] = log[i]

Still(s) ==
  /\ LogKept
  /\ pc'[s] = pc[s] /\ list'[s] = list[s] /\ errs'[s] = errs[s]
  /\ toRemove'[s] = toRemove[s] /\ toUpdate'[s] = toUpdate[s] /\ toAdd'[s] = toAdd[s]
  /\ held'[s] = held[s]
  /\ undisturbed'[s] => undisturbed[s] /\ rows' = rows

\* What was listed is the same however the log grows.
LEMMA ListStays ==
  ASSUME TypeOK, NEW s \in Syncs, list[s] <= Len(log), LogKept, list'[s] = list[s]
  PROVE  Listing(list[s])' = Listing(list[s])
<1>1. list[s] \in Nat /\ Len(log) \in Nat
  BY VersionsAreNat DEF TypeOK
<1>2. \A m \in 1..list[s] : m \in 1..Len(log) /\ log'[m] = log[m]
  BY <1>1 DEF LogKept
<1>3. \A m \in 1..list[s], o \in 1..list[s] :
        o \in (m + 1)..list[s] => log'[o].name = log[o].name
  BY <1>2
<1>4. {m \in 1..list'[s] : /\ log'[m].uid # 0
                           /\ \A o \in (m + 1)..list'[s] : log'[o].name # log'[m].name}
        = {m \in 1..list[s] : /\ log[m].uid # 0
                              /\ \A o \in (m + 1)..list[s] : log[o].name # log[m].name}
  <2>1. \A m \in 1..list[s] : \A o \in (m + 1)..list[s] : o \in 1..list[s]
    BY <1>1
  <2> QED
    BY <1>2, <1>3, <2>1
<1> DEFINE Last == {m \in 1..list[s] :
                    /\ log[m].uid # 0
                    /\ \A o \in (m + 1)..list[s] : log[o].name # log[m].name}
<1>5. Listing(list[s]) = {Object(m) : m \in Last}
  BY DEF Listing
<1>6. Listing(list[s])' = {[name |-> log'[m].name, uid |-> log'[m].uid, ver |-> m] : m \in Last}
  BY <1>4 DEF Listing, Object
<1>7. \A m \in Last :
        Object(m) = [name |-> log'[m].name, uid |-> log'[m].uid, ver |-> m]
  BY <1>2 DEF Object
<1> HIDE DEF Last
<1> QED
  BY <1>5, <1>6, <1>7

\* Listed objects are told apart by their uids.
LEMMA ListingUnique ==
  ASSUME TypeOK, LogOwned, NEW k \in 0..Len(log), NEW o1 \in Listing(k),
         NEW o2 \in Listing(k), o1.uid = o2.uid
  PROVE  o1 = o2
<1>1. /\ o1 \in RemoteObject /\ Owns(o1.name, o1.uid)
      /\ o2 \in RemoteObject /\ Owns(o2.name, o2.uid)
  BY ListingOwned
<1>2. o1.name = o2.name
  BY <1>1 DEF Owns, RemoteObject
<1>3. PICK l1 \in 1..k : /\ o1 = Object(l1)
                         /\ \A o \in (l1 + 1)..k : log[o].name # log[l1].name
  BY DEF Listing
<1>4. PICK l2 \in 1..k : /\ o2 = Object(l2)
                         /\ \A o \in (l2 + 1)..k : log[o].name # log[l2].name
  BY DEF Listing
<1>5. log[l1].name = log[l2].name
  BY <1>2, <1>3, <1>4 DEF Object
<1>6. Len(log) \in Nat
  BY DEF TypeOK
<1>7. ~(l1 < l2) /\ ~(l2 < l1)
  BY <1>3, <1>4, <1>5, <1>6
<1>8. l1 = l2
  BY <1>6, <1>7
<1> QED
  BY <1>3, <1>4, <1>8

\* A write through a copy that is the row itself makes it the new row.
LEMMA WriteOwn ==
  ASSUME rows \subseteq Row, Distinct(rows), NEW r \in rows, NEW obj \in Columns
  PROVE  /\ Write(r, Updated(r, obj)) = (rows \ {r}) \cup {Updated(r, obj)}
         /\ Shows(Updated(r, obj), obj)
<1> DEFINE new == Updated(r, obj)
<1>1. new \in Row /\ r \in Row
  BY UpdatedIsRow
<1>2. Shows(new, obj)
  BY DEF Updated, Shows, Row, Columns
<1> HIDE DEF new
<1>3. [f \in DOMAIN r |-> IF new[f] # r[f] THEN new[f] ELSE r[f]] = new
  <2>1. /\ DOMAIN r = {"id", "name", "uid", "ver", "status"}
        /\ new = [f \in {"id", "name", "uid", "ver", "status"} |-> new[f]]
    BY <1>1 DEF Row
  <2>2. [f \in DOMAIN r |-> IF new[f] # r[f] THEN new[f] ELSE r[f]]
          = [f \in {"id", "name", "uid", "ver", "status"} |-> new[f]]
    BY <2>1
  <2> QED
    BY <2>1, <2>2
<1>4. \A q \in rows : q.id = r.id <=> q = r
  BY DEF Distinct
<1>5. Write(r, new) = {IF q = r THEN new ELSE q : q \in rows}
  BY <1>3, <1>4 DEF Write
<1>6. {IF q = r THEN new ELSE q : q \in rows} = (rows \ {r}) \cup {new}
  OBVIOUS
<1> QED
  BY <1>2, <1>5, <1>6 DEF new

\* A synchronisation that keeps still keeps what is known of it.
LEMMA StillTracked ==
  ASSUME IInv, NEW s \in Syncs, Tracked(s), Still(s)
  PROVE  Tracked(s)'
<1>1. Listing(list[s])' = Listing(list[s])
  BY ListStays DEF IInv, SyncHolds, Still
<1>2. SUFFICES ASSUME Alone(s)' PROVE Tracked(s)'
  BY DEF Tracked
<1>3. Alone(s) /\ rows' = rows
  BY <1>2 DEF Alone, Still
<1>4. Divided(s) => Divided(s)'
  BY <1>1, <1>3 DEF Divided, Still
<1>5. TableIsList(s) => TableIsList(s)'
  BY <1>1, <1>3 DEF TableIsList
<1> QED
  BY <1>3, <1>4, <1>5 DEF Tracked, Still

-----------------------------------------------------------------------------
(* The synchronisation's own steps *)

\* The facts about s that its own steps start from.
LEMMA TrackedFacts ==
  ASSUME IInv, NEW s \in Syncs
  PROVE  /\ rows \subseteq Row /\ Distinct(rows)
         /\ list[s] \in 0..Len(log)
         /\ \A obj \in Listing(list[s]) : obj \in RemoteObject /\ obj \in Columns
         /\ \A o1, o2 \in Listing(list[s]) : o1.uid = o2.uid => o1 = o2
         /\ log' = log /\ list' = list => Listing(list[s])' = Listing(list[s])
<1>1. TypeOK /\ LogOwned /\ rows \subseteq Row /\ Distinct(rows) /\ list[s] <= Len(log)
  BY DEF IInv, TypeOK, SyncHolds
<1>2. list[s] \in 0..Len(log)
  BY <1>1 DEF TypeOK
<1>3. \A obj \in Listing(list[s]) : obj \in RemoteObject /\ obj \in Columns
  BY <1>1, <1>2, ListingOwned
<1>4. \A o1, o2 \in Listing(list[s]) : o1.uid = o2.uid => o1 = o2
  BY <1>1, <1>2, ListingUnique
<1>5. ASSUME log' = log, list' = list PROVE Listing(list[s])' = Listing(list[s])
  <2>1. LogKept
    BY <1>1, <1>5 DEF LogKept, TypeOK
  <2> QED
    BY <1>1, <1>5, <2>1, ListStays
<1> QED
  BY <1>1, <1>2, <1>3, <1>4, <1>5

\* The comparison divides the rows and the objects.
LEMMA CompareTracked ==
  ASSUME IInv, NEW s \in Syncs, LoadAndCompare(s)
  PROVE  Tracked(s)'
<1> DEFINE objs == Listing(list[s])
<1>1. /\ UNCHANGED <<log, rows, list, held>>
      /\ pc'[s] = "apply"
      /\ toRemove'[s] = {r \in rows : r.uid \notin {obj.uid : obj \in objs}}
      /\ toUpdate'[s] = {r \in rows : r.uid \in {obj.uid : obj \in objs}}
      /\ toAdd'[s] = {obj \in objs : obj.uid \notin {r.uid : r \in rows}}
  BY DEF LoadAndCompare, remoteVars, IInv, TypeOK
<1>2. Listing(list[s])' = objs
  BY <1>1, TrackedFacts
<1> HIDE DEF objs
<1>3. Divided(s)'
  BY <1>1, <1>2 DEF Divided
<1> QED
  BY <1>1, <1>3 DEF Tracked

\* A row that is removed, or left as that of a failed operation, shows no object.
LEMMA RemoveTracked ==
  ASSUME IInv, NEW s \in Syncs, Tracked(s), RemoveOne(s)
  PROVE  Tracked(s)'
<1> DEFINE objs == Listing(list[s])
<1>1. PICK r \in toRemove[s] :
        rows' = Without(r) /\ toRemove' = [toRemove EXCEPT ![s] = @ \ {r}]
  BY DEF RemoveOne
<1>2. /\ UNCHANGED <<log, list, pc, toUpdate, toAdd, held, errs>>
      /\ pc[s] = "apply" /\ toRemove'[s] = toRemove[s] \ {r}
      /\ undisturbed'[s] => undisturbed[s]
  BY <1>1 DEF RemoveOne, Disturb, remoteVars, IInv, TypeOK
<1>3. Listing(list[s])' = objs
  BY <1>2, TrackedFacts
<1>4. rows \subseteq Row /\ Distinct(rows)
  BY TrackedFacts
<1> HIDE DEF objs
<1>5. SUFFICES ASSUME Alone(s)' PROVE Divided(s)'
  BY <1>2 DEF Tracked
<1>6. Divided(s)
  BY <1>2, <1>5 DEF Tracked, Alone
<1>7. r \in rows /\ \A obj \in objs : r.uid # obj.uid
  BY <1>6 DEF Divided, objs
<1>8. /\ rows' \subseteq rows /\ rows \ {r} \subseteq rows'
      /\ r \in rows' => r.status \in Failures
  BY <1>1, <1>4, <1>7 DEF Without, Distinct
<1>9. r \notin toUpdate[s]
  BY <1>6, <1>7 DEF Divided, objs
<1>10. /\ toRemove'[s] \subseteq rows' /\ toUpdate'[s] \subseteq rows' /\ toAdd'[s] \subseteq objs
       /\ \A q \in toRemove'[s], obj \in objs : q.uid # obj.uid
       /\ \A q \in toUpdate'[s] : \E obj \in objs : obj.uid = q.uid
  BY <1>2, <1>6, <1>8, <1>9 DEF Divided, objs
<1>11. ASSUME NEW q \in rows'
       PROVE  \/ q \in toRemove'[s] \cup toUpdate'[s]
              \/ q.status \in Failures
              \/ \E obj \in objs : Shows(q, obj)
  BY <1>2, <1>6, <1>8 DEF Divided, objs
<1>12. ASSUME NEW obj \in objs, obj \notin toAdd[s]
       PROVE  \E q \in rows' : q.uid = obj.uid /\ (q \in toUpdate[s] \/ Shows(q, obj))
  BY <1>6, <1>7, <1>8, <1>12 DEF Divided, objs
<1> QED
  BY <1>2, <1>3, <1>10, <1>11, <1>12 DEF Divided

\* An updated row shows its object, and only that one.
LEMMA UpdateTracked ==
  ASSUME IInv, NEW s \in Syncs, Tracked(s), UpdateOne(s)
  PROVE  Tracked(s)'
<1> DEFINE objs == Listing(list[s])
<1>1. PICK r \in toUpdate[s], obj \in objs :
        /\ obj.uid = r.uid
        /\ toUpdate' = [toUpdate EXCEPT ![s] = @ \ {r}]
        /\ \/ errs' = [errs EXCEPT ![s] = TRUE]
           \/ rows' = Write(r, Updated(r, obj)) /\ errs' = errs
  BY DEF UpdateOne
<1>2. /\ UNCHANGED <<log, list, pc, toRemove, toAdd, held>>
      /\ pc[s] = "apply" /\ toRemove[s] = {} /\ toUpdate'[s] = toUpdate[s] \ {r}
      /\ undisturbed'[s] => undisturbed[s]
  BY <1>1 DEF UpdateOne, Disturb, remoteVars, IInv, TypeOK
<1>3. Listing(list[s])' = objs
  BY <1>2, TrackedFacts
<1>4. /\ rows \subseteq Row /\ Distinct(rows) /\ obj \in Columns
      /\ \A o1, o2 \in objs : o1.uid = o2.uid => o1 = o2
  BY TrackedFacts
<1> HIDE DEF objs
<1>5. SUFFICES ASSUME Alone(s)' PROVE Divided(s)'
  BY <1>2 DEF Tracked
<1>6. rows' = Write(r, Updated(r, obj)) /\ errs' = errs
  BY <1>1, <1>5 DEF Alone, IInv, TypeOK
<1>7. Divided(s)
  BY <1>2, <1>5, <1>6 DEF Tracked, Alone
<1> DEFINE new == Updated(r, obj)
<1>8. rows' = (rows \ {r}) \cup {new} /\ Shows(new, obj)
  <2>1. r \in rows
    BY <1>7 DEF Divided
  <2> QED
    BY <1>4, <1>6, <2>1, WriteOwn
<1> HIDE DEF new
<1>9. /\ toUpdate'[s] \subseteq rows' /\ toAdd'[s] \subseteq objs
      /\ \A q \in toUpdate'[s] : \E o \in objs : o.uid = q.uid
  BY <1>2, <1>7, <1>8 DEF Divided, objs
<1>10. ASSUME NEW q \in rows'
       PROVE  \/ q \in toUpdate'[s]
              \/ q.status \in Failures
              \/ \E o \in objs : Shows(q, o)
  BY <1>2, <1>7, <1>8 DEF Divided, objs
<1>11. ASSUME NEW o \in objs, o \notin toAdd[s]
       PROVE  \E q \in rows' : q.uid = o.uid /\ (q \in toUpdate'[s] \/ Shows(q, o))
  <2>1. CASE o = obj
    BY <1>8, <2>1 DEF Shows
  <2>2. CASE o # obj
    <3>1. o.uid # r.uid
      BY <1>1, <1>4, <2>2
    <3>2. PICK q \in rows : q.uid = o.uid /\ (q \in toUpdate[s] \/ Shows(q, o))
      BY <1>7, <1>11 DEF Divided, objs
    <3> QED
      BY <1>2, <1>8, <3>1, <3>2
  <2> QED
    BY <2>1, <2>2
<1> QED
  BY <1>2, <1>3, <1>9, <1>10, <1>11 DEF Divided

\* A name that has a row is an error; otherwise nothing is written yet.
LEMMA AddTracked ==
  ASSUME IInv, NEW s \in Syncs, Tracked(s), AddOne(s)
  PROVE  Tracked(s)'
<1>1. /\ UNCHANGED <<log, list, rows, toRemove, toUpdate, undisturbed>>
      /\ pc[s] = "apply" /\ toRemove[s] = {} /\ toUpdate[s] = {}
      /\ \/ errs'[s] = TRUE
         \/ pc'[s] = "absent" /\ UNCHANGED <<errs, toAdd>>
  BY DEF AddOne, remoteVars, IInv, TypeOK
<1>2. Listing(list[s])' = Listing(list[s])
  BY <1>1, TrackedFacts
<1>3. SUFFICES ASSUME Alone(s)' PROVE Tracked(s)'
  BY DEF Tracked
<1>4. pc'[s] = "absent" /\ UNCHANGED <<errs, toAdd>>
  BY <1>1, <1>3 DEF Alone
<1>5. Divided(s)
  BY <1>1, <1>3, <1>4 DEF Tracked, Alone
<1>6. Divided(s)'
  BY <1>1, <1>2, <1>4, <1>5 DEF Divided
<1> QED
  BY <1>4, <1>6 DEF Tracked

\* The inserted row is the one the synchronisation holds.
LEMMA InsertTracked ==
  ASSUME IInv, NEW s \in Syncs, Tracked(s), AddOneInsert(s)
  PROVE  Tracked(s)'
<1>1. /\ UNCHANGED <<log, list, toRemove, toUpdate, toAdd, held, errs>>
      /\ pc[s] = "absent" /\ pc'[s] = "inserted" /\ rows' = rows \cup {held[s]}
      /\ undisturbed'[s] => undisturbed[s]
  BY DEF AddOneInsert, Disturb, remoteVars, IInv, TypeOK
<1>2. Listing(list[s])' = Listing(list[s])
  BY <1>1, TrackedFacts
<1>3. SUFFICES ASSUME Alone(s)' PROVE Tracked(s)'
  BY DEF Tracked
<1>4. Divided(s)
  BY <1>1, <1>3 DEF Tracked, Alone
<1>5. Divided(s)'
  BY <1>1, <1>2, <1>4 DEF Divided
<1> QED
  BY <1>1, <1>5 DEF Tracked

\* The inserted row comes to show the object it was built for.
LEMMA AddUpdateTracked ==
  ASSUME IInv, NEW s \in Syncs, Tracked(s), AddOneUpdate(s)
  PROVE  Tracked(s)'
<1> DEFINE objs == Listing(list[s])
<1>1. PICK obj \in toAdd[s] :
        /\ obj.uid = held[s].uid
        /\ rows' = Write(held[s], Updated(held[s], obj))
        /\ toAdd' = [toAdd EXCEPT ![s] = @ \ {obj}]
  BY DEF AddOneUpdate
<1>2. /\ UNCHANGED <<log, list, toRemove, toUpdate, errs>>
      /\ pc[s] = "inserted" /\ pc'[s] = "apply" /\ toAdd'[s] = toAdd[s] \ {obj}
      /\ undisturbed'[s] => undisturbed[s]
  BY <1>1 DEF AddOneUpdate, Disturb, remoteVars, IInv, TypeOK
<1>3. Listing(list[s])' = objs
  BY <1>2, TrackedFacts
<1>4. /\ rows \subseteq Row /\ Distinct(rows)
      /\ \A o \in objs : o \in Columns
      /\ \A o1, o2 \in objs : o1.uid = o2.uid => o1 = o2
  BY TrackedFacts
<1> HIDE DEF objs
<1>5. SUFFICES ASSUME Alone(s)' PROVE Divided(s)'
  BY <1>2 DEF Tracked
<1>6. Divided(s)
  BY <1>2, <1>5 DEF Tracked, Alone
<1> DEFINE r == held[s]
           new == Updated(r, obj)
<1>7. /\ r \in rows /\ toAdd[s] \subseteq objs
      /\ toRemove[s] = {} /\ toUpdate[s] = {}
  BY <1>2, <1>6 DEF Divided, objs
<1>8. rows' = (rows \ {r}) \cup {new} /\ Shows(new, obj)
  BY <1>1, <1>4, <1>7, WriteOwn
<1>9. \A q \in rows : q = r \/ q.status \in Failures \/ \E o \in objs : Shows(q, o)
  BY <1>6, <1>7 DEF Divided, objs
<1>10. \A o \in objs : o \in toAdd[s] \/ \E q \in rows : q.uid = o.uid /\ Shows(q, o)
  BY <1>6, <1>7 DEF Divided, objs
<1> HIDE DEF r, new
<1>11. ASSUME NEW q \in rows'
       PROVE  q.status \in Failures \/ \E o \in objs : Shows(q, o)
  BY <1>7, <1>8, <1>9
<1>12. ASSUME NEW o \in objs, o \notin toAdd'[s]
       PROVE  \E q \in rows' : q.uid = o.uid /\ Shows(q, o)
  <2>1. CASE o = obj
    BY <1>8, <2>1 DEF Shows
  <2>2. CASE o # obj
    <3>1. o.uid # r.uid /\ o \notin toAdd[s]
      BY <1>1, <1>2, <1>4, <1>7, <1>12, <2>2 DEF r
    <3>2. PICK q \in rows : q.uid = o.uid /\ Shows(q, o)
      BY <1>10, <3>1
    <3> QED
      BY <1>8, <3>1, <3>2
  <2> QED
    BY <2>1, <2>2
<1> QED
  BY <1>2, <1>3, <1>7, <1>11, <1>12 DEF Divided

\* When nothing is left to do the table is the list.
LEMMA FinishTracked ==
  ASSUME IInv, NEW s \in Syncs, Tracked(s), Finish(s)
  PROVE  Tracked(s)'
<1> DEFINE objs == Listing(list[s])
           Cols(r) == [name |-> r.name, uid |-> r.uid, ver |-> r.ver]
<1>1. /\ UNCHANGED <<log, list, rows, errs, undisturbed>>
      /\ pc[s] = "apply" /\ pc'[s] = "end"
      /\ toRemove[s] = {} /\ toUpdate[s] = {} /\ toAdd[s] = {}
  BY DEF Finish, remoteVars, IInv, TypeOK
<1>2. /\ Listing(list[s])' = objs
      /\ \A obj \in objs : obj \in RemoteObject
  BY <1>1, TrackedFacts
<1>3. SUFFICES ASSUME Alone(s)' PROVE TableIsList(s)'
  BY <1>1 DEF Tracked
<1>4. Divided(s)
  BY <1>1, <1>3 DEF Tracked, Alone
<1>5. /\ \A r \in rows : r.status \in Failures \/ \E obj \in objs : Shows(r, obj)
      /\ \A obj \in objs : \E r \in rows : Shows(r, obj)
  BY <1>1, <1>4 DEF Divided
<1> HIDE DEF objs
<1>6. \A r \in rows, obj \in objs :
        Shows(r, obj) => Cols(r) = obj /\ r.status \notin Failures
  BY <1>2 DEF Shows, RemoteObject, Failures
<1>7. {Cols(r) : r \in {q \in rows : q.status \notin Failures}} = objs
  BY <1>5, <1>6
<1> QED
  BY <1>1, <1>2, <1>7 DEF TableIsList

\* The other steps of a synchronisation take it away from its work.
LEMMA AwayTracked ==
  ASSUME IInv, NEW s \in Syncs,
         \/ Submit(s) \/ Start(s) \/ Aborts(s) \/ LoadFails(s)
         \/ ListRemoteObjects(s) \/ EndWithError(s) \/ MarkEndSync(s)
         \/ EnableBidirectionalSync(s)
  PROVE  Tracked(s)'
<1>1. \/ pc'[s] \in {"none", "queued", "list", "load", "enable"}
      \/ errs'[s] = TRUE
  BY DEF Submit, Start, Aborts, LoadFails, ListRemoteObjects, EndWithError,
    MarkEndSync, EnableBidirectionalSync, IInv, TypeOK
<1> QED
  BY <1>1 DEF Tracked, Alone

\* A synchronisation that works keeps the others still, or disturbs them.
LEMMA OthersStill ==
  ASSUME IInv, NEW s \in Syncs, NEW t \in Syncs, t # s,
         Submit(s) \/ Aborts(s) \/ LoadFails(s) \/ SyncStep(s)
  PROVE  Still(t)
<1> USE DEF IInv, TypeOK, remoteVars
<1>1. LogKept
  <2>1. log' = log
    BY DEF Submit, Aborts, LoadFails, SyncStep, Start, ListRemoteObjects, LoadAndCompare,
      RemoveOne, UpdateOne, AddOne, AddOneInsert, AddOneUpdate, Finish, EndWithError,
      MarkEndSync, EnableBidirectionalSync
  <2> QED
    BY <2>1 DEF LogKept
<1>2. pc'[t] = pc[t] /\ list'[t] = list[t] /\ errs'[t] = errs[t]
  BY DEF Submit, Aborts, LoadFails, SyncStep, Start, ListRemoteObjects, LoadAndCompare,
    RemoveOne, UpdateOne, AddOne, AddOneInsert, AddOneUpdate, Finish, EndWithError,
    MarkEndSync, EnableBidirectionalSync
<1>3. toRemove'[t] = toRemove[t] /\ toUpdate'[t] = toUpdate[t]
  BY DEF Submit, Aborts, LoadFails, SyncStep, Start, ListRemoteObjects, LoadAndCompare,
    RemoveOne, UpdateOne, AddOne, AddOneInsert, AddOneUpdate, Finish, EndWithError,
    MarkEndSync, EnableBidirectionalSync
<1>4. toAdd'[t] = toAdd[t] /\ held'[t] = held[t]
  BY DEF Submit, Aborts, LoadFails, SyncStep, Start, ListRemoteObjects, LoadAndCompare,
    RemoveOne, UpdateOne, AddOne, AddOneInsert, AddOneUpdate, Finish, EndWithError,
    MarkEndSync, EnableBidirectionalSync
<1>5. undisturbed'[t] => undisturbed[t] /\ rows' = rows
  BY DEF Submit, Aborts, LoadFails, SyncStep, Start, ListRemoteObjects, LoadAndCompare,
    RemoveOne, UpdateOne, AddOne, AddOneInsert, AddOneUpdate, Finish, EndWithError,
    MarkEndSync, EnableBidirectionalSync, Disturb
<1> QED
  BY <1>1, <1>2, <1>3, <1>4, <1>5 DEF Still

\* So do the cluster, the informer, the handler and the API.
LEMMA OutsideStill ==
  ASSUME IInv, NEW t \in Syncs,
         \/ \E n \in Names : \/ RemoteCreate(n) \/ RemoteUpdate(n) \/ RemoteDelete(n)
                             \/ CreateFails(n)
         \/ OperationFails
         \/ InformerApply \/ Handler
  PROVE  Still(t)
<1>1. UNCHANGED <<pc, list, toRemove, toUpdate, toAdd, held, errs>>
  BY DEF RemoteCreate, RemoteUpdate, RemoteDelete, Change, CreateFails, OperationFails, InformerApply,
    Handler, HandlerStart, HandlerLookup, HandlerInsert, HandlerUpdate, HandlerDelete,
    syncVars
<1>2. LogKept
  <2>1. log' = log \/ \E e : log' = Append(log, e)
    BY DEF RemoteCreate, RemoteUpdate, RemoteDelete, Change, CreateFails, OperationFails, InformerApply,
      Handler, HandlerStart, HandlerLookup, HandlerInsert, HandlerUpdate, HandlerDelete,
      remoteVars
  <2>2. Len(log) \in Nat /\ log \in Seq([name : Names, uid : 0..MaxChanges])
    BY DEF IInv, TypeOK
  <2>3. CASE log' = log
    BY <2>2, <2>3 DEF LogKept
  <2>4. ASSUME NEW e, log' = Append(log, e) PROVE LogKept
    <3>1. Len(log') = Len(log) + 1 /\ \A i \in 1..Len(log) : log'[i] = log[i]
      BY <2>2, <2>4
    <3> QED
      BY <2>2, <3>1 DEF LogKept
  <2> QED
    BY <2>1, <2>3, <2>4
<1>3. undisturbed'[t] => undisturbed[t] /\ rows' = rows
  <2>1. \/ rows' = rows /\ undisturbed' = undisturbed
        \/ Disturb("api") \/ Disturb("handler")
    BY DEF RemoteCreate, RemoteUpdate, RemoteDelete, Change, CreateFails, OperationFails, InformerApply,
      Handler, HandlerStart, HandlerLookup, HandlerInsert, HandlerUpdate, HandlerDelete
  <2> QED
    BY <2>1, SyncNames DEF Disturb
<1> QED
  BY <1>1, <1>2, <1>3 DEF Still

\* Every step keeps what is known of the synchronisations.
LEMMA StepTracked ==
  ASSUME IInv, AllTracked, [Next]_vars
  PROVE  AllTracked'
<1> SUFFICES ASSUME NEW t \in Syncs PROVE Tracked(t)'
  BY DEF AllTracked
<1>1. Tracked(t)
  BY DEF AllTracked
<1>2. CASE Still(t)
  BY <1>1, <1>2, StillTracked
<1>3. ASSUME Submit(t) \/ Aborts(t) \/ LoadFails(t) \/ SyncStep(t)
      PROVE  Tracked(t)'
  BY <1>1, <1>3, AwayTracked, CompareTracked, RemoveTracked, UpdateTracked, AddTracked,
    InsertTracked, AddUpdateTracked, FinishTracked DEF SyncStep
<1>4. ASSUME NEW s \in Syncs, s # t,
             Submit(s) \/ Aborts(s) \/ LoadFails(s) \/ SyncStep(s)
      PROVE  Still(t)
  BY <1>4, OthersStill
<1>5. ASSUME \/ \E n \in Names : \/ RemoteCreate(n) \/ RemoteUpdate(n) \/ RemoteDelete(n)
                                 \/ CreateFails(n)
             \/ OperationFails
             \/ InformerApply \/ Handler
      PROVE  Still(t)
  BY <1>5, OutsideStill
<1>6. ASSUME UNCHANGED vars PROVE Still(t)
  <2>1. LogKept
    BY <1>6 DEF vars, LogKept, IInv, TypeOK
  <2> QED
    BY <1>6, <2>1 DEF vars, Still
<1> QED
  BY <1>2, <1>3, <1>4, <1>5, <1>6 DEF Next

\* A synchronisation that reports success has made the table the list it took,
\* rows of failed operations apart, unless somebody else has written rows since
\* it listed: removals, updates, insertions and the column-wise writes leave no
\* row and no object between the three lists.
THEOREM SuccessIsMirror == Spec => []SuccessMeansMirrored
<1>1. Init => AllTracked
  BY DEF Init, AllTracked, Tracked, Alone
<1>2. IInv /\ AllTracked /\ [Next]_vars => AllTracked'
  BY StepTracked
<1>3. AllTracked => SuccessMeansMirrored
  BY DEF AllTracked, Tracked, Alone, TableIsList, SuccessMeansMirrored
<1> QED
  BY <1>1, <1>2, <1>3, SyncInvariant, PTL DEF Spec
====
