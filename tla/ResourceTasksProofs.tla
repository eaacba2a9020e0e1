------------------------- MODULE ResourceTasksProofs -------------------------
(***************************************************************************)
(* Proofs about the API tasks of one cluster resource: acknowledged        *)
(* updates stay, refused ones stay out, and what a row says is true once   *)
(* events and tasks are done.  They hold for any number of tasks, updates, *)
(* writes and failures.                                                    *)
(***************************************************************************)
EXTENDS ResourceTasks, FiniteSetTheorems, TLAPS

-----------------------------------------------------------------------------
(* The inductive invariant *)

\* A stage in which the task uses the object it has got.
Holding(t) ==
  \/ task[t].stage \in {"write", "syncWrite"}
  \/ task[t].kind = "update" /\ task[t].stage = "call"

\* Pointers that will be followed point to an object.
Pointers ==
  /\ store # 0 => heap[store] # None
  /\ \A i \in DOMAIN handlerq :
       handlerq[i].type = "put" => heap[handlerq[i].ptr] # None
  /\ \A t \in Tasks : Live(t) /\ Holding(t) =>
       task[t].obj # None \/ (task[t].ptr # 0 /\ heap[task[t].ptr] # None)

\* Versions are given out once: what the watch has not delivered is not in the
\* cache, and nothing is newer than the last version.
Given ==
  /\ \A o \in Published : o.ver <= ver /\ o.uid <= ver
  /\ \A v \in Versions : heap[v] # None => v <= ver
  /\ \A i \in DOMAIN watch : watch[i].type = "put" => heap[watch[i].obj.ver] = None
  /\ \A i, j \in DOMAIN watch :
       watch[i].type = "put" /\ watch[j].type = "put"
         /\ watch[i].obj.ver = watch[j].obj.ver => i = j
  /\ \A t \in Tasks : Live(t) =>
       /\ task[t].applied <= ver
       /\ task[t].obj # None => task[t].obj.ver <= ver /\ task[t].obj.uid <= ver

\* An object with the server's version has all the server's object has: a PUT
\* that is accepted drops nothing.
Complete ==
  srv # None =>
    /\ \A o \in Published : o.ver = srv.ver => srv.val \subseteq o.val
    /\ \A t \in Tasks : Live(t) /\ task[t].obj # None /\ task[t].obj.ver = srv.ver
         => srv.val \subseteq task[t].obj.val

\* The update of a task is in the object it will send, and in the server's
\* object after it was applied to it.
Applied ==
  \A t \in Tasks : Live(t) =>
    /\ task[t].kind = "update" /\ task[t].stage \in {"init", "read"} =>
         task[t].obj = None
    /\ task[t].kind = "update" /\ task[t].stage = "call" =>
         task[t].upd \subseteq Object(t).val
    /\ srv # None /\ task[t].applied = srv.uid => task[t].upd \subseteq srv.val

\* The stages before a task's change has gone to the server.
Unsent(t) == Live(t) /\ task[t].stage \in {"init", "read", "call"}
Sending(t) == Live(t) /\ task[t].kind = "update" /\ task[t].stage = "call"

SendsCopy == \A t \in Tasks : Sending(t) => task[t].obj # None

RefusedOut == \A o \in Published : refused \cap o.val = {}

UnsentOut ==
  \A t \in Tasks : Unsent(t) =>
    /\ task[t].upd \cap refused = {}
    /\ \A o \in Published : task[t].upd \cap o.val = {}

OwnUpdates ==
  \A s, t \in Tasks : Live(s) /\ Live(t) /\ s # t => task[s].upd \cap task[t].upd = {}

CopyClean ==
  \A t \in Tasks : Sending(t) =>
    /\ task[t].obj.val \cap refused = {}
    /\ \A s \in Tasks : Unsent(s) /\ s # t => task[s].upd \cap task[t].obj.val = {}

\* Where a copy is edited, a change that was not sent yet is in no object but
\* the task's own, and a refused one is in none.
Separate == copies => SendsCopy /\ RefusedOut /\ UnsentOut /\ OwnUpdates /\ CopyClean

\* The stages a delete task passes through, and those in which a task has no object of
\* its own: it has let go of it, or will look into the cache.
Paths ==
  \A t \in Tasks : Live(t) =>
    /\ task[t].kind = "delete" => task[t].stage \in {"init", "call", "complete", "failed"}
    /\ task[t].stage \in {"reread", "syncInit", "syncRead"} => task[t].obj = None

\* The stages from which a task still writes the row's status.
WillWrite(t) ==
  /\ Live(t) /\ task[t].stage \notin {"init", "syncInit"}
  /\ task[t].stage = "complete" => task[t].kind = "delete"

Changing ==
  row # None /\ row.status \in Transitions =>
    \E t \in Tasks : WillWrite(t) /\ task[t].row = row.id

\* An object with this uid is the server's.
Current(uid) == srv # None /\ srv.uid = uid

\* An event that the object is gone has not been handled yet.
DeleteWatched == \E i \in DOMAIN watch : watch[i].type = "delete"
DeletePending == DeleteWatched \/ \E i \in DOMAIN handlerq : handlerq[i].type = "delete"
PutPending ==
  \/ \E i \in DOMAIN watch : watch[i].type = "put"
  \/ \E i \in DOMAIN handlerq : handlerq[i].type = "put"

\* An event about an object that is gone is followed by that of its deletion,
\* the deletion of one that was created again by that of its creation.
EventOrder ==
  /\ \A i \in DOMAIN watch : watch[i].type = "put" =>
       \/ Current(watch[i].obj.uid)
       \/ \E j \in DOMAIN watch : j > i /\ watch[j].type = "delete"
  /\ \A i \in DOMAIN handlerq : handlerq[i].type = "put" =>
       \/ Current(heap[handlerq[i].ptr].uid)
       \/ \E j \in DOMAIN handlerq : j > i /\ handlerq[j].type = "delete"
       \/ DeleteWatched
  /\ srv # None =>
       /\ \A i \in DOMAIN watch : watch[i].type = "delete" =>
            \E j \in DOMAIN watch : j > i /\ watch[j].type = "put"
       /\ \A i \in DOMAIN handlerq : handlerq[i].type = "delete" =>
            \/ \E j \in DOMAIN handlerq : j > i /\ handlerq[j].type = "put"
            \/ \E j \in DOMAIN watch : watch[j].type = "put"
  /\ store # 0 => Current(heap[store].uid) \/ DeleteWatched

\* What a task that is alone will write into the row it started with is true,
\* or the row will be removed.
TaskTruth ==
  /\ \A s, t \in Tasks : Live(s) /\ Live(t) => s = t
  /\ \A t \in Tasks : Live(t) =>
       /\ task[t].kind = "delete" /\ task[t].stage = "complete" => srv = None
       /\ row # None /\ row.id = task[t].row /\ task[t].stage # "init" =>
            row.status \notin Failures
       /\ row # None /\ row.id = task[t].row /\ task[t].stage \in {"write", "syncWrite"} =>
            Current(Object(t).uid) \/ DeletePending

RowTruth ==
  /\ srv # None /\ row = None => PutPending
  /\ row # None /\ row.status = "active" => Current(row.uid) \/ DeletePending

TasksInv ==
  /\ TypeOK /\ Pointers /\ Given /\ Complete /\ Applied /\ AcknowledgedKept
  /\ Separate /\ Paths /\ Changing /\ EventOrder
  /\ alone => TaskTruth /\ RowTruth

-----------------------------------------------------------------------------
(* Facts about the operators *)

\* The null values are no objects, rows or tasks.
LEMMA NullsApart ==
  /\ None \notin Objects /\ None \notin Rows /\ Idle \notin TaskRecs
<1>1. None \notin Objects
  <2> SUFFICES ASSUME NEW o \in Objects, o = None PROVE FALSE
    OBVIOUS
  <2>1. o = [uid |-> o.uid, ver |-> o.ver, val |-> o.val]
    BY DEF Objects
  <2>2. "uid" \in DOMAIN o /\ DOMAIN None = {"none"}
    BY <2>1 DEF None
  <2> QED
    BY <2>2
<1>2. None \notin Rows
  <2> SUFFICES ASSUME NEW o \in Rows, o = None PROVE FALSE
    OBVIOUS
  <2>1. o = [id |-> o.id, status |-> o.status, uid |-> o.uid, ver |-> o.ver]
    BY DEF Rows
  <2>2. "uid" \in DOMAIN o /\ DOMAIN None = {"none"}
    BY <2>1 DEF None
  <2> QED
    BY <2>2
<1>3. Idle \notin TaskRecs
  <2> SUFFICES ASSUME NEW r \in TaskRecs, r = Idle PROVE FALSE
    OBVIOUS
  <2>1. r.kind \in {"create", "update", "delete"}
    BY DEF TaskRecs
  <2>2. r.kind = "none"
    BY DEF Idle
  <2> QED
    BY <2>1, <2>2
<1> QED
  BY <1>1, <1>2, <1>3

\* With more ids than tasks there is one that neither a row nor a task uses.
LEMMA FreshIdIsFresh ==
  ASSUME TypeOK, row = None
  PROVE  /\ FreshId \in RowIds
         /\ \A t \in Tasks : Live(t) => task[t].row # FreshId
<1> DEFINE Used == {task[t].row : t \in LiveTasks}
<1>1. IsFiniteSet(Tasks)
  BY TasksAssumption
<1>2. IsFiniteSet(LiveTasks) /\ Cardinality(LiveTasks) <= Cardinality(Tasks)
  BY <1>1, FS_Subset DEF LiveTasks
<1>3. IsFiniteSet(Used) /\ Cardinality(Used) <= Cardinality(LiveTasks)
  <2> DEFINE f == [t \in LiveTasks |-> task[t].row]
  <2>1. f \in Surjection(LiveTasks, Used)
    BY DEF Surjection
  <2> QED
    BY <1>2, <2>1, FS_Surjection
<1>4. /\ Cardinality(Tasks) \in Nat /\ Cardinality(LiveTasks) \in Nat
      /\ Cardinality(Used) \in Nat
  BY <1>1, <1>2, <1>3, FS_CardinalityType
<1>5. Cardinality(RowIds) = Cardinality(Tasks) + 1
  <2>1. /\ 1 \in Int /\ Cardinality(Tasks) + 1 \in Int
        /\ ~(1 > Cardinality(Tasks) + 1)
        /\ Cardinality(Tasks) + 1 - 1 + 1 = Cardinality(Tasks) + 1
    BY <1>4
  <2> QED
    BY <2>1, FS_Interval DEF RowIds
<1>6. ~(RowIds \subseteq Used)
  <2> SUFFICES ASSUME RowIds \subseteq Used PROVE FALSE
    OBVIOUS
  <2>1. Cardinality(RowIds) <= Cardinality(Used)
    BY <1>3, FS_Subset
  <2> QED
    BY <2>1, <1>2, <1>3, <1>4, <1>5
<1>7. \E i \in RowIds : (row # None => row.id # i) /\ \A t \in LiveTasks : task[t].row # i
  <2>1. PICK i \in RowIds : i \notin Used
    BY <1>6
  <2> QED
    BY <2>1
<1>8. /\ FreshId \in RowIds
      /\ \A t \in LiveTasks : task[t].row # FreshId
  BY <1>7 DEF FreshId
<1> QED
  BY <1>8 DEF LiveTasks

\* The elements of a sequence.
LEMMA Element ==
  ASSUME NEW S, NEW q \in Seq(S), NEW i \in DOMAIN q
  PROVE  q[i] \in S
OBVIOUS

\* What Append and Tail do to the positions of a sequence.
LEMMA Positions ==
  ASSUME NEW S, NEW q \in Seq(S), NEW e \in S
  PROVE  /\ DOMAIN q = 1..Len(q) /\ Len(q) \in Nat
         /\ DOMAIN Append(q, e) = 1..(Len(q) + 1)
         /\ \A i \in DOMAIN q : Append(q, e)[i] = q[i]
         /\ Append(q, e)[Len(q) + 1] = e
         /\ q # <<>> => /\ 1 \in DOMAIN q /\ Head(q) = q[1]
                        /\ DOMAIN Tail(q) = 1..(Len(q) - 1)
                        /\ \A i \in DOMAIN Tail(q) : Tail(q)[i] = q[i + 1]
OBVIOUS

\* What a state of the right type gives each part.
LEMMA Types ==
  ASSUME TypeOK
  PROVE  /\ srv # None => srv \in Objects
         /\ raw # None => raw \in Objects
         /\ row # None => row \in Rows
         /\ \A t \in Tasks : Live(t) => task[t] \in TaskRecs
         /\ \A v \in Versions : heap[v] # None => heap[v] \in Objects
         /\ \A i \in DOMAIN watch : watch[i] \in [type : {"put", "delete"}, obj : Objects]
         /\ \A i \in DOMAIN handlerq :
              handlerq[i] \in [type : {"put", "delete"}, ptr : Versions]
         /\ \A o \in Published : o \in Objects
         /\ ver \in 0..MaxVer /\ MaxVer \in Nat \ {0}
<1>1. /\ srv # None => srv \in Objects
      /\ raw # None => raw \in Objects
      /\ row # None => row \in Rows
      /\ \A t \in Tasks : Live(t) => task[t] \in TaskRecs
      /\ \A v \in Versions : heap[v] # None => heap[v] \in Objects
      /\ ver \in 0..MaxVer /\ MaxVer \in Nat \ {0}
  BY TasksAssumption DEF TypeOK, Live
<1>2. \A i \in DOMAIN watch : watch[i] \in [type : {"put", "delete"}, obj : Objects]
  <2>1. watch \in Seq([type : {"put", "delete"}, obj : Objects])
    BY DEF TypeOK
  <2> QED
    BY <2>1, Element
<1>3. \A i \in DOMAIN handlerq :
        handlerq[i] \in [type : {"put", "delete"}, ptr : Versions]
  <2>1. handlerq \in Seq([type : {"put", "delete"}, ptr : Versions])
    BY DEF TypeOK
  <2> QED
    BY <2>1, Element
<1>4. \A o \in Published : o \in Objects
  BY <1>1, <1>2 DEF Published
<1> QED
  BY <1>1, <1>2, <1>3, <1>4

Event == [type : {"put", "delete"}, obj : Objects]
Note == [type : {"put", "delete"}, ptr : Versions]

\* A write of the API server.
LEMMA PutStep ==
  ASSUME TypeOK, NEW uid \in 1..(ver + 1), NEW val \in SUBSET Updates, Put(uid, val)
  PROVE  /\ ver' = ver + 1 /\ ver' \in Versions
         /\ srv' \in Objects /\ srv' # None
         /\ srv'.uid = uid /\ srv'.ver = ver' /\ srv'.val = val
         /\ watch' \in Seq(Event)
         /\ Len(watch) \in Nat /\ DOMAIN watch = 1..Len(watch)
         /\ DOMAIN watch' = 1..(Len(watch) + 1)
         /\ \A i \in DOMAIN watch : watch'[i] = watch[i]
         /\ watch'[Len(watch) + 1] = [type |-> "put", obj |-> srv']
<1> DEFINE e == [type |-> "put", obj |-> srv']
<1>1. ver \in 0..MaxVer /\ MaxVer \in Nat
  BY Types
<1>2. /\ ver' = ver + 1 /\ ver' \in Versions
      /\ srv' = [uid |-> uid, ver |-> ver', val |-> val]
      /\ watch' = Append(watch, e)
  BY <1>1 DEF Put, Versions
<1>3. uid \in Versions
  BY <1>1, <1>2 DEF Versions
<1>4. srv' \in Objects /\ srv'.uid = uid /\ srv'.ver = ver' /\ srv'.val = val
  BY <1>2, <1>3 DEF Objects
<1>5. srv' # None
  BY <1>4, NullsApart
<1>6. watch \in Seq(Event) /\ e \in Event
  BY <1>4 DEF TypeOK, Event
<1>7. watch' \in Seq(Event)
  BY <1>2, <1>6
<1> HIDE DEF e
<1>8. /\ Len(watch) \in Nat /\ DOMAIN watch = 1..Len(watch)
      /\ DOMAIN watch' = 1..(Len(watch) + 1)
      /\ \A i \in DOMAIN watch : watch'[i] = watch[i]
      /\ watch'[Len(watch) + 1] = e
  BY <1>2, <1>6, Positions
<1> QED
  BY <1>2, <1>4, <1>5, <1>7, <1>8 DEF e

\* What a write leaves of the types.
LEMMA PutTypes ==
  ASSUME TypeOK, NEW uid \in 1..(ver + 1), NEW val \in SUBSET Updates, Put(uid, val)
  PROVE  /\ srv' \in Objects \cup {None} /\ ver' \in 0..MaxVer
         /\ watch' \in Seq([type : {"put", "delete"}, obj : Objects])
<1>1. srv' \in Objects /\ ver' \in Versions /\ watch' \in Seq(Event)
  BY PutStep
<1>2. MaxVer \in Nat
  BY Types
<1> QED
  BY <1>1, <1>2 DEF Event, Versions

\* A deletion of the API server.
LEMMA RemoveStep ==
  ASSUME TypeOK, srv # None, Remove
  PROVE  /\ srv' = None /\ ver' = ver
         /\ watch' \in Seq(Event)
         /\ Len(watch) \in Nat /\ DOMAIN watch = 1..Len(watch)
         /\ DOMAIN watch' = 1..(Len(watch) + 1)
         /\ \A i \in DOMAIN watch : watch'[i] = watch[i]
         /\ watch'[Len(watch) + 1] = [type |-> "delete", obj |-> srv]
<1> DEFINE e == [type |-> "delete", obj |-> srv]
<1>1. srv \in Objects
  BY Types
<1>2. watch \in Seq(Event) /\ e \in Event
  BY <1>1 DEF TypeOK, Event
<1>3. srv' = None /\ ver' = ver /\ watch' = Append(watch, e)
  BY DEF Remove
<1>4. watch' \in Seq(Event)
  BY <1>2, <1>3
<1> HIDE DEF e
<1>5. /\ Len(watch) \in Nat /\ DOMAIN watch = 1..Len(watch)
      /\ DOMAIN watch' = 1..(Len(watch) + 1)
      /\ \A i \in DOMAIN watch : watch'[i] = watch[i]
      /\ watch'[Len(watch) + 1] = e
  BY <1>2, <1>3, Positions
<1> QED
  BY <1>3, <1>4, <1>5 DEF e

\* The next event of the watch goes to the cache and to the event handler.
LEMMA DeliverStep ==
  ASSUME TypeOK, Deliver
  PROVE  /\ Len(watch) \in Nat \ {0} /\ DOMAIN watch = 1..Len(watch)
         /\ watch[1] \in Event
         /\ heap' \in [Versions -> Objects \cup {None}]
         /\ \A v \in Versions : heap'[v] =
              IF watch[1].type = "put" /\ v = watch[1].obj.ver THEN watch[1].obj
              ELSE heap[v]
         /\ store' = IF watch[1].type = "put" THEN watch[1].obj.ver ELSE 0
         /\ watch' \in Seq(Event)
         /\ DOMAIN watch' = 1..(Len(watch) - 1)
         /\ \A i \in DOMAIN watch' : watch'[i] = watch[i + 1]
         /\ handlerq' \in Seq(Note)
         /\ Len(handlerq) \in Nat /\ DOMAIN handlerq = 1..Len(handlerq)
         /\ DOMAIN handlerq' = 1..(Len(handlerq) + 1)
         /\ \A i \in DOMAIN handlerq : handlerq'[i] = handlerq[i]
         /\ handlerq'[Len(handlerq) + 1] =
              [type |-> watch[1].type, ptr |-> watch[1].obj.ver]
<1> DEFINE n == [type |-> watch[1].type, ptr |-> watch[1].obj.ver]
<1>1. watch \in Seq(Event) /\ handlerq \in Seq(Note) /\ watch # <<>>
  BY DEF TypeOK, Event, Note, Deliver
<1>2. PICK e \in Event : e = Head(watch)
  BY <1>1
<1>3. /\ Len(watch) \in Nat /\ DOMAIN watch = 1..Len(watch)
      /\ 1 \in DOMAIN watch /\ Head(watch) = watch[1]
      /\ DOMAIN Tail(watch) = 1..(Len(watch) - 1)
      /\ \A i \in DOMAIN Tail(watch) : Tail(watch)[i] = watch[i + 1]
  BY <1>1, <1>2, Positions
<1>4. Len(watch) # 0 /\ watch[1] \in Event
  BY <1>2, <1>3
<1>5. n \in Note /\ watch[1].obj.ver \in Versions /\ watch[1].obj \in Objects
  BY <1>4 DEF Event, Note, Objects
<1>6. /\ heap' = [heap EXCEPT ![watch[1].obj.ver] =
                     IF watch[1].type = "put" THEN watch[1].obj ELSE @]
      /\ store' = IF watch[1].type = "put" THEN watch[1].obj.ver ELSE 0
      /\ handlerq' = Append(handlerq, n)
      /\ watch' = Tail(watch)
  BY <1>3 DEF Deliver
<1>7. heap \in [Versions -> Objects \cup {None}]
  BY DEF TypeOK
<1>8. /\ heap' \in [Versions -> Objects \cup {None}]
      /\ \A v \in Versions : heap'[v] =
           IF watch[1].type = "put" /\ v = watch[1].obj.ver THEN watch[1].obj ELSE heap[v]
  BY <1>5, <1>6, <1>7
<1> HIDE DEF n
<1>9. handlerq' \in Seq(Note) /\ watch' \in Seq(Event)
  BY <1>1, <1>5, <1>6
<1>10. /\ Len(handlerq) \in Nat /\ DOMAIN handlerq = 1..Len(handlerq)
       /\ DOMAIN handlerq' = 1..(Len(handlerq) + 1)
       /\ \A i \in DOMAIN handlerq : handlerq'[i] = handlerq[i]
       /\ handlerq'[Len(handlerq) + 1] = n
  BY <1>1, <1>5, <1>6, Positions
<1> QED
  BY <1>3, <1>4, <1>6, <1>8, <1>9, <1>10 DEF n

\* The event handler takes its next notification.
LEMMA HandleStep ==
  ASSUME TypeOK, Handle
  PROVE  /\ Len(handlerq) \in Nat \ {0} /\ DOMAIN handlerq = 1..Len(handlerq)
         /\ handlerq[1] \in Note /\ Head(handlerq) = handlerq[1]
         /\ handlerq' \in Seq(Note)
         /\ DOMAIN handlerq' = 1..(Len(handlerq) - 1)
         /\ \A i \in DOMAIN handlerq' : handlerq'[i] = handlerq[i + 1]
<1>1. handlerq \in Seq(Note) /\ handlerq # <<>> /\ handlerq' = Tail(handlerq)
  BY DEF TypeOK, Note, Handle
<1>2. PICK e \in Note : e = Head(handlerq)
  BY <1>1
<1>3. /\ Len(handlerq) \in Nat /\ DOMAIN handlerq = 1..Len(handlerq)
      /\ 1 \in DOMAIN handlerq /\ Head(handlerq) = handlerq[1]
      /\ DOMAIN Tail(handlerq) = 1..(Len(handlerq) - 1)
      /\ \A i \in DOMAIN Tail(handlerq) : Tail(handlerq)[i] = handlerq[i + 1]
  BY <1>1, <1>2, Positions
<1>4. Len(handlerq) # 0 /\ handlerq[1] \in Note
  BY <1>2, <1>3
<1>5. handlerq' \in Seq(Note)
  BY <1>1
<1> QED
  BY <1>1, <1>3, <1>4, <1>5

\* One task moves to another stage and keeps what it is for.
Moved(t, st) ==
  /\ task' \in [Tasks -> TaskRecs \cup {Idle}]
  /\ \A s \in Tasks : s # t => task'[s] = task[s]
  /\ task'[t] \in TaskRecs /\ task'[t] # Idle
  /\ task'[t].stage = st
  /\ task'[t].kind = task[t].kind /\ task'[t].row = task[t].row
  /\ task'[t].upd = task[t].upd

\* The fields of a task's record.
LEMMA TaskFields ==
  ASSUME TypeOK, NEW t \in Tasks, Live(t)
  PROVE  /\ task[t] \in TaskRecs /\ task[t].stage \in Stages
         /\ task[t].rowver \in 0..MaxVer /\ task[t].ptr \in 0..MaxVer
         /\ task[t].obj \in Objects \cup {None} /\ task[t].applied \in 0..MaxVer
         /\ task[t].kind \in {"create", "update", "delete"}
         /\ task[t].upd \in SUBSET Updates /\ task[t].row \in Nat
<1>1. task[t] \in TaskRecs
  BY Types
<1> QED
  BY <1>1 DEF TaskRecs

\* A record of a task that replaces the present one.
LEMMA Replaced ==
  ASSUME TypeOK, NEW t \in Tasks, Live(t), NEW r \in TaskRecs, NEW st,
         r.stage = st, r.kind = task[t].kind, r.row = task[t].row, r.upd = task[t].upd,
         task' = [task EXCEPT ![t] = r]
  PROVE  Moved(t, st) /\ task'[t] = r
<1>1. task \in [Tasks -> TaskRecs \cup {Idle}]
  BY DEF TypeOK
<1>2. /\ task'[t] = r /\ task' \in [Tasks -> TaskRecs \cup {Idle}]
      /\ \A s \in Tasks : s # t => task'[s] = task[s]
  BY <1>1
<1> QED
  BY <1>2, NullsApart DEF Moved

\* A step to another stage.
LEMMA GotoStep ==
  ASSUME TypeOK, NEW t \in Tasks, Live(t), NEW st \in Stages, Goto(t, st)
  PROVE  /\ Moved(t, st)
         /\ task'[t].rowver = task[t].rowver /\ task'[t].ptr = task[t].ptr
         /\ task'[t].obj = task[t].obj /\ task'[t].applied = task[t].applied
<1> DEFINE r == [task[t] EXCEPT !.stage = st]
<1>1. task' = [task EXCEPT ![t] = r]
  BY DEF Goto
<1>2. task[t] \in TaskRecs
  BY TaskFields
<1>3. /\ r \in TaskRecs /\ r.stage = st /\ r.kind = task[t].kind /\ r.row = task[t].row
      /\ r.upd = task[t].upd /\ r.rowver = task[t].rowver /\ r.ptr = task[t].ptr
      /\ r.obj = task[t].obj /\ r.applied = task[t].applied
  BY <1>2 DEF TaskRecs
<1> HIDE DEF r
<1> QED
  BY <1>1, <1>3, Replaced

\* A step that also keeps the version of the row.
LEMMA RowverStep ==
  ASSUME TypeOK, NEW t \in Tasks, Live(t), NEW st \in Stages,
         NEW rv \in 0..MaxVer,
         task' = [task EXCEPT ![t].stage = st, ![t].rowver = rv]
  PROVE  /\ Moved(t, st)
         /\ task'[t].rowver = rv /\ task'[t].ptr = task[t].ptr
         /\ task'[t].obj = task[t].obj /\ task'[t].applied = task[t].applied
<1> DEFINE r == [task[t] EXCEPT !.stage = st, !.rowver = rv]
<1>1. task[t] \in TaskRecs /\ task \in [Tasks -> TaskRecs \cup {Idle}]
  BY TaskFields DEF TypeOK
<1>2. task' = [task EXCEPT ![t] = r]
  BY <1>1
<1>3. /\ r \in TaskRecs /\ r.stage = st /\ r.kind = task[t].kind /\ r.row = task[t].row
      /\ r.upd = task[t].upd /\ r.rowver = rv /\ r.ptr = task[t].ptr
      /\ r.obj = task[t].obj /\ r.applied = task[t].applied
  BY <1>1 DEF TaskRecs
<1> HIDE DEF r
<1> QED
  BY <1>2, <1>3, Replaced

\* A step that also keeps a pointer.
LEMMA PtrStep ==
  ASSUME TypeOK, NEW t \in Tasks, Live(t), NEW st \in Stages,
         NEW p \in 0..MaxVer,
         task' = [task EXCEPT ![t].stage = st, ![t].ptr = p]
  PROVE  /\ Moved(t, st)
         /\ task'[t].rowver = task[t].rowver /\ task'[t].ptr = p
         /\ task'[t].obj = task[t].obj /\ task'[t].applied = task[t].applied
<1> DEFINE r == [task[t] EXCEPT !.stage = st, !.ptr = p]
<1>1. task[t] \in TaskRecs /\ task \in [Tasks -> TaskRecs \cup {Idle}]
  BY TaskFields DEF TypeOK
<1>2. task' = [task EXCEPT ![t] = r]
  BY <1>1
<1>3. /\ r \in TaskRecs /\ r.stage = st /\ r.kind = task[t].kind /\ r.row = task[t].row
      /\ r.upd = task[t].upd /\ r.rowver = task[t].rowver /\ r.ptr = p
      /\ r.obj = task[t].obj /\ r.applied = task[t].applied
  BY <1>1 DEF TaskRecs
<1> HIDE DEF r
<1> QED
  BY <1>2, <1>3, Replaced

\* A step that also keeps an object.
LEMMA ObjStep ==
  ASSUME TypeOK, NEW t \in Tasks, Live(t), NEW st \in Stages,
         NEW ob \in Objects \cup {None},
         task' = [task EXCEPT ![t].stage = st, ![t].obj = ob]
  PROVE  /\ Moved(t, st)
         /\ task'[t].rowver = task[t].rowver /\ task'[t].ptr = task[t].ptr
         /\ task'[t].obj = ob /\ task'[t].applied = task[t].applied
<1> DEFINE r == [task[t] EXCEPT !.stage = st, !.obj = ob]
<1>1. task[t] \in TaskRecs /\ task \in [Tasks -> TaskRecs \cup {Idle}]
  BY TaskFields DEF TypeOK
<1>2. task' = [task EXCEPT ![t] = r]
  BY <1>1
<1>3. /\ r \in TaskRecs /\ r.stage = st /\ r.kind = task[t].kind /\ r.row = task[t].row
      /\ r.upd = task[t].upd /\ r.rowver = task[t].rowver /\ r.ptr = task[t].ptr
      /\ r.obj = ob /\ r.applied = task[t].applied
  BY <1>1 DEF TaskRecs
<1> HIDE DEF r
<1> QED
  BY <1>2, <1>3, Replaced

\* A step after which the task has let go of its object.
LEMMA ReleaseStep ==
  ASSUME TypeOK, NEW t \in Tasks, Live(t), NEW st \in Stages,
         task' = [task EXCEPT ![t].stage = st, ![t].obj = None, ![t].ptr = 0]
  PROVE  /\ Moved(t, st)
         /\ task'[t].rowver = task[t].rowver /\ task'[t].ptr = 0
         /\ task'[t].obj = None /\ task'[t].applied = task[t].applied
<1> DEFINE r == [task[t] EXCEPT !.stage = st, !.obj = None, !.ptr = 0]
<1>1. task[t] \in TaskRecs /\ task \in [Tasks -> TaskRecs \cup {Idle}]
  BY TaskFields DEF TypeOK
<1>0. 0 \in 0..MaxVer
  BY Types
<1>2. task' = [task EXCEPT ![t] = r]
  BY <1>1
<1>3. /\ r \in TaskRecs /\ r.stage = st /\ r.kind = task[t].kind /\ r.row = task[t].row
      /\ r.upd = task[t].upd /\ r.rowver = task[t].rowver /\ r.ptr = 0
      /\ r.obj = None /\ r.applied = task[t].applied
  BY <1>0, <1>1 DEF TaskRecs
<1> HIDE DEF r
<1> QED
  BY <1>2, <1>3, Replaced

\* The end of a task.
LEMMA EndStep ==
  ASSUME TypeOK, NEW t \in Tasks, End(t)
  PROVE  /\ task' \in [Tasks -> TaskRecs \cup {Idle}]
         /\ \A s \in Tasks : s # t => task'[s] = task[s]
         /\ task'[t] = Idle
BY DEF TypeOK, End

\* A status is written into the row, if the row is still the one meant.
LEMMA SetStatusStep ==
  ASSUME TypeOK, NEW id, NEW st \in Statuses, SetStatus(id, st)
  PROVE  /\ row' \in Rows \cup {None}
         /\ row = None => row' = None
         /\ row # None =>
              /\ row' # None /\ row'.id = row.id /\ row'.uid = row.uid
              /\ row'.status = IF row.id = id THEN st ELSE row.status
<1>1. CASE row = None
  BY <1>1 DEF SetStatus
<1>2. CASE row # None /\ row.id # id
  BY <1>2, Types DEF SetStatus
<1>3. CASE row # None /\ row.id = id
  <2> DEFINE r == [row EXCEPT !.status = st]
  <2>1. row \in Rows /\ row' = r
    BY <1>3, Types DEF SetStatus
  <2>2. r \in Rows /\ r.id = row.id /\ r.uid = row.uid /\ r.status = st
    BY <2>1 DEF Rows
  <2> HIDE DEF r
  <2> QED
    BY <1>3, <2>1, <2>2, NullsApart
<1> QED
  BY <1>1, <1>2, <1>3

\* The row after the object's data was written into it.
LEMMA UpdatedRow ==
  ASSUME TypeOK, NEW id, NEW o \in Objects, NEW r, r = Updated(id, o)
  PROVE  /\ r \in Rows \cup {None}
         /\ row = None => r = None
         /\ row # None =>
              /\ r # None /\ r.id = row.id
              /\ r.uid = IF row.id = id THEN o.uid ELSE row.uid
              /\ r.status = IF row.id = id THEN "active" ELSE row.status
<1>1. CASE row = None
  BY <1>1 DEF Updated
<1>2. CASE row # None /\ row.id # id
  BY <1>2, Types DEF Updated
<1>3. CASE row # None /\ row.id = id
  <2> DEFINE q == [row EXCEPT !.status = "active", !.uid = o.uid, !.ver = o.ver]
  <2>1. row \in Rows /\ r = q /\ o.uid \in 0..MaxVer /\ o.ver \in 0..MaxVer
    BY <1>3, Types DEF Updated, Objects, Versions
  <2>2. q \in Rows /\ q.id = row.id /\ q.uid = o.uid /\ q.status = "active"
    BY <2>1 DEF Rows, Statuses
  <2> HIDE DEF q
  <2> QED
    BY <1>3, <2>1, <2>2, NullsApart
<1> QED
  BY <1>1, <1>2, <1>3

\* The object a task works with is one.
LEMMA HeldObject ==
  ASSUME TypeOK, Pointers, NEW t \in Tasks, Live(t), Holding(t)
  PROVE  Object(t) \in Objects
<1>1. task[t].obj # None \/ (task[t].ptr # 0 /\ heap[task[t].ptr] # None)
  BY DEF Pointers
<1>2. task[t].obj \in Objects \cup {None} /\ task[t].ptr \in 0..MaxVer
  BY TaskFields
<1>3. task[t].ptr # 0 => task[t].ptr \in Versions
  BY <1>2, Types DEF Versions
<1> QED
  BY <1>1, <1>2, <1>3, Types DEF Object

\* Write and SyncWrite: the object's data goes into the task's row, unless it is older
\* than the copy of the row.
LEMMA WriteRow ==
  ASSUME TypeOK, Pointers, NEW t \in Tasks, Live(t), Holding(t),
         row' = IF Refuses(task[t].rowver, Object(t)) THEN row
                ELSE Updated(task[t].row, Object(t))
  PROVE  /\ row' \in Rows \cup {None}
         /\ row = None => row' = None
         /\ row # None =>
              /\ row' # None /\ row'.id = row.id
              /\ \/ row'.uid = row.uid /\ row'.status = row.status
                 \/ /\ row.id = task[t].row
                    /\ row'.uid = Object(t).uid /\ row'.status = "active"
              /\ ~Refuses(task[t].rowver, Object(t)) /\ row.id = task[t].row =>
                   row'.uid = Object(t).uid /\ row'.status = "active"
<1>1. Object(t) \in Objects
  BY HeldObject
<1>2. CASE Refuses(task[t].rowver, Object(t))
  BY <1>2, Types
<1>3. CASE ~Refuses(task[t].rowver, Object(t))
  <2>1. row' = Updated(task[t].row, Object(t))
    BY <1>3
  <2> QED
    BY <1>1, <1>3, <2>1, UpdatedRow
<1> QED
  BY <1>2, <1>3

\* Handle: a notification about an object updates the row or inserts a new one, that of a
\* deletion removes it unless its last task failed.
LEMMA HandleRow ==
  ASSUME TypeOK, Pointers, Handle
  PROVE  /\ row' \in Rows \cup {None}
         /\ handlerq[1].type = "put" =>
              /\ row' # None
              /\ row # None /\ row' # row => row'.id = row.id
              /\ row = None => /\ row'.id \in RowIds
                               /\ \A t \in Tasks : Live(t) => task[t].row # row'.id
              /\ row' # row =>
                   row'.status = "active" /\ row'.uid = heap[handlerq[1].ptr].uid
         /\ handlerq[1].type = "delete" =>
              row' = IF row # None /\ row.status \notin Failures THEN None ELSE row
<1>1. /\ Head(handlerq) = handlerq[1] /\ handlerq[1] \in Note
      /\ 1 \in DOMAIN handlerq
  BY HandleStep
<1>2. handlerq[1].type \in {"put", "delete"} /\ handlerq[1].ptr \in Versions
  BY <1>1 DEF Note
<1>3. CASE handlerq[1].type = "delete"
  <2>1. row' = IF row # None /\ row.status \notin Failures THEN None ELSE row
    BY <1>1, <1>3 DEF Handle, ObjectDeleted
  <2> QED
    BY <1>3, <2>1, Types
<1>4. CASE handlerq[1].type = "put"
  <2>1. PICK o \in Objects : o = heap[handlerq[1].ptr]
    BY <1>1, <1>2, <1>4, Types DEF Pointers
  <2>2. row' = IF row = None
               THEN [id |-> FreshId, status |-> "active", uid |-> o.uid, ver |-> o.ver]
               ELSE IF Refuses(row.ver, o) THEN row ELSE Updated(row.id, o)
    BY <1>1, <1>4, <2>1 DEF Handle, CreateOrUpdate
  <2>3. CASE row = None
    <3> DEFINE q == [id |-> FreshId, status |-> "active", uid |-> o.uid, ver |-> o.ver]
    <3>1. FreshId \in RowIds /\ \A t \in Tasks : Live(t) => task[t].row # FreshId
      BY <2>3, FreshIdIsFresh
    <3>2. o.uid \in 0..MaxVer /\ o.ver \in 0..MaxVer
      BY Types DEF Objects, Versions
    <3>3. q \in Rows /\ q.id = FreshId /\ q.status = "active" /\ q.uid = o.uid
      BY <3>1, <3>2 DEF Rows, RowIds, Statuses
    <3>4. row' = q
      BY <2>2, <2>3
    <3> HIDE DEF q
    <3> QED
      BY <1>4, <2>1, <2>3, <3>1, <3>3, <3>4, NullsApart
  <2>4. CASE row # None /\ Refuses(row.ver, o)
    BY <1>4, <2>2, <2>4, Types
  <2>5. CASE row # None /\ ~Refuses(row.ver, o)
    <3>1. row' = Updated(row.id, o)
      BY <2>2, <2>5
    <3> QED
      BY <1>4, <2>1, <2>5, <3>1, UpdatedRow
  <2> QED
    BY <2>3, <2>4, <2>5
<1> QED
  BY <1>2, <1>3, <1>4

-----------------------------------------------------------------------------
(* The objects: steps that leave them alone *)

\* Pointers are followed, versions given out once, accepted writes drop nothing, and
\* changes are told apart.
Core ==
  Pointers /\ Given /\ Complete /\ Applied /\ AcknowledgedKept /\ Separate

\* The objects of the server, the cache and the clients stay.
SameObjects == UNCHANGED <<copies, srv, ver, watch, store, heap, handlerq, raw, refused>>

\* A task that ends, or goes on without sending anything, and touches no object keeps what
\* is known of the objects.
LEMMA QuietTask ==
  ASSUME TypeOK, Core, NEW t \in Tasks, Live(t), SameObjects, AcknowledgedKept',
         \A s \in Tasks : s # t => task'[s] = task[s],
         \/ task'[t] = Idle
         \/ \E st \in Stages :
              /\ Moved(t, st)
              /\ task'[t].applied = task[t].applied
              /\ task'[t].obj \in {task[t].obj, None}
              /\ st = "call" => task[t].kind # "update"
              /\ st # "init" /\ (st \in {"read", "call"} => task[t].stage = "init")
              /\ st \in {"write", "syncWrite"} =>
                   task'[t].obj # None \/ (task'[t].ptr # 0 /\ heap[task'[t].ptr] # None)
  PROVE  Core'
<1>1. Published' = Published
  BY DEF SameObjects, Published
<1>2. \A s \in Tasks : s # t => /\ Live(s)' = Live(s) /\ Holding(s)' = Holding(s)
                                /\ Object(s)' = Object(s)
                                /\ Unsent(s)' = Unsent(s) /\ Sending(s)' = Sending(s)
  BY DEF SameObjects, Live, Holding, Object, Unsent, Sending
<1>3. /\ Unsent(t)' => Unsent(t)
      /\ ~Sending(t)'
      /\ Live(t)' /\ task'[t].kind = "update" /\ task'[t].stage \in {"init", "read"} =>
           task[t].kind = "update" /\ task[t].stage = "init"
      /\ Live(t)' => /\ task'[t].upd = task[t].upd /\ task'[t].applied = task[t].applied
                     /\ task'[t].obj \in {task[t].obj, None}
      /\ Live(t)' /\ Holding(t)' =>
           task'[t].obj # None \/ (task'[t].ptr # 0 /\ heap[task'[t].ptr] # None)
  <2>1. CASE task'[t] = Idle
    BY <2>1 DEF Live, Unsent, Sending
  <2>2. ASSUME NEW st \in Stages, Moved(t, st), task'[t].applied = task[t].applied,
               task'[t].obj \in {task[t].obj, None}, st = "call" => task[t].kind # "update",
               st # "init", st \in {"read", "call"} => task[t].stage = "init",
               st \in {"write", "syncWrite"} =>
                   task'[t].obj # None \/ (task'[t].ptr # 0 /\ heap[task'[t].ptr] # None)
        PROVE  <1>3!:
    BY <2>2 DEF Moved, Live, Unsent, Sending, Holding
  <2> QED
    BY <2>1, <2>2
<1>4. Pointers'
  BY <1>2, <1>3 DEF Core, Pointers, SameObjects
<1>5. Given'
  BY <1>1, <1>2, <1>3 DEF Core, Given, SameObjects
<1>6. Complete'
  BY <1>1, <1>2, <1>3 DEF Core, Complete, SameObjects
<1>7. Applied'
  BY <1>2, <1>3 DEF Core, Applied, SameObjects, Sending
<1>8. AcknowledgedKept'
  OBVIOUS
<1>9. Separate'
  <2> SUFFICES ASSUME copies'
               PROVE  (SendsCopy /\ RefusedOut /\ UnsentOut /\ OwnUpdates /\ CopyClean)'
    BY DEF Separate
  <2>1. SendsCopy /\ RefusedOut /\ UnsentOut /\ OwnUpdates /\ CopyClean
    BY DEF Core, Separate, SameObjects
  <2>2. SendsCopy' /\ RefusedOut'
    BY <1>1, <1>2, <1>3, <2>1 DEF SendsCopy, RefusedOut, SameObjects
  <2>3. UnsentOut'
    BY <1>1, <1>2, <1>3, <2>1 DEF UnsentOut, SameObjects, Unsent
  <2>4. OwnUpdates'
    BY <1>1, <1>2, <1>3, <2>1 DEF OwnUpdates
  <2>5. CopyClean'
    BY <1>1, <1>2, <1>3, <2>1 DEF CopyClean, SameObjects, Unsent
  <2> QED
    BY <2>2, <2>3, <2>4, <2>5
<1> QED
  BY <1>4, <1>5, <1>6, <1>7, <1>8, <1>9 DEF Core

-----------------------------------------------------------------------------
(* The objects: writes and deletions of the API server *)

\* What a task may do in a step that writes `val' as object `uid': it does not start to
\* send, and if it counts the object as its own its update is in it.
AfterPut(s, uid, val) ==
  Live(s)' =>
    /\ Live(s) /\ task'[s].kind = task[s].kind /\ task'[s].upd = task[s].upd
    /\ task'[s].applied <= ver + 1
    /\ task'[s].applied = uid => task[s].upd \subseteq val
    /\ \/ /\ task'[s].stage = task[s].stage /\ task'[s].obj = task[s].obj
          /\ task'[s].ptr = task[s].ptr
       \/ /\ task'[s].stage \notin {"init", "read", "call", "syncWrite"}
          /\ task'[s].obj \in {task[s].obj, None, srv'}
          /\ task'[s].stage = "write" => task'[s].obj = srv'

\* A write that the server accepts, of a new object or over one it has.
LEMMA PutKeepsCore ==
  ASSUME TypeOK, Core,
         NEW uid \in 1..(ver + 1), NEW val \in SUBSET Updates, Put(uid, val),
         UNCHANGED <<copies, store, handlerq, refused>>,
         raw' \in {raw, None},
         \/ heap' = heap
         \/ \E p \in Versions : /\ heap[p] # None /\ heap[p].val = val
                                /\ heap' = [heap EXCEPT ![p] = srv'],
         acked' \subseteq val,
         \A s \in Tasks : AfterPut(s, uid, val),
         copies => /\ val \cap refused = {}
                   /\ \A s \in Tasks : Unsent(s)' => task[s].upd \cap val = {}
  PROVE  Core'
<1>1. /\ ver' = ver + 1 /\ ver' \in Versions /\ ver \in Nat
      /\ srv' \in Objects /\ srv' # None
      /\ srv'.uid = uid /\ srv'.ver = ver' /\ srv'.val = val
      /\ Len(watch) \in Nat /\ DOMAIN watch = 1..Len(watch)
      /\ DOMAIN watch' = 1..(Len(watch) + 1)
      /\ \A i \in DOMAIN watch : watch'[i] = watch[i]
      /\ watch'[Len(watch) + 1] = [type |-> "put", obj |-> srv']
  BY PutStep, Types
<1>2. \A v \in Versions : heap'[v] # heap[v] =>
        heap[v] # None /\ heap'[v] = srv' /\ heap[v].val = val
  <2>1. CASE heap' = heap
    BY <2>1
  <2>2. ASSUME NEW p \in Versions, heap[p] # None, heap[p].val = val,
               heap' = [heap EXCEPT ![p] = srv']
        PROVE  <1>2!:
    BY <2>2 DEF TypeOK
  <2> QED
    BY <2>1, <2>2
<1>3. \A v \in Versions : heap'[v] = None <=> heap[v] = None
  BY <1>1, <1>2
<1>4. \A o \in Published' : o \in Published \/ o = srv'
  <2> SUFFICES ASSUME NEW o \in Published', o # srv' PROVE o \in Published
    OBVIOUS
  <2>1. o # None /\ (o = raw' \/ (\E v \in Versions : heap'[v] = o)
                       \/ \E i \in DOMAIN watch' : watch'[i].obj = o)
    BY DEF Published
  <2>2. CASE o = raw'
    BY <2>1, <2>2 DEF Published
  <2>3. CASE \E v \in Versions : heap'[v] = o
    BY <1>2, <2>1, <2>3 DEF Published
  <2>4. CASE \E i \in DOMAIN watch' : watch'[i].obj = o
    <3>1. PICK i \in DOMAIN watch' : watch'[i].obj = o
      BY <2>4
    <3>2. i # Len(watch) + 1
      BY <1>1, <3>1
    <3>3. i \in DOMAIN watch
      BY <1>1, <3>2
    <3> QED
      BY <1>1, <2>1, <3>1, <3>3 DEF Published
  <2> QED
    BY <2>1, <2>2, <2>3, <2>4
<1>5. \A i \in DOMAIN watch : watch[i].obj \in Published
  <2>1. \A i \in DOMAIN watch : watch[i].obj \in Objects
    BY Types
  <2> QED
    BY <2>1, NullsApart DEF Published
<1>6. \A o \in Published : o.ver <= ver /\ o.uid <= ver /\ o.ver \in Nat /\ o.uid \in Nat
  BY Types DEF Core, Given, Objects, Versions
<1>7. \A s \in Tasks : Live(s)' =>
        /\ Live(s) /\ task'[s].upd = task[s].upd /\ task'[s].kind = task[s].kind
        /\ Unsent(s)' => Unsent(s)
        /\ Sending(s)' => Sending(s) /\ task'[s].obj = task[s].obj
                            /\ task'[s].ptr = task[s].ptr
        /\ task'[s].obj \in {task[s].obj, None, srv'}
  BY DEF AfterPut, Unsent, Sending
<1>8. \A s \in Tasks : Live(s) /\ task[s].obj # None =>
        task[s].obj.ver <= ver /\ task[s].obj.uid <= ver
          /\ task[s].obj.ver \in Nat /\ task[s].obj.uid \in Nat
  <2>1. \A s \in Tasks : Live(s) => task[s].obj \in Objects \cup {None}
    BY TaskFields
  <2> QED
    BY <2>1 DEF Core, Given, Objects, Versions
<1>9. Pointers'
  <2>1. store' # 0 => heap'[store'] # None
    BY <1>3 DEF Core, Pointers, TypeOK, Versions
  <2>2. \A i \in DOMAIN handlerq' :
          handlerq'[i].type = "put" => heap'[handlerq'[i].ptr] # None
    <3>1. \A i \in DOMAIN handlerq : handlerq[i].ptr \in Versions
      BY Types
    <3> QED
      BY <1>3, <3>1 DEF Core, Pointers
  <2>3. ASSUME NEW s \in Tasks, Live(s)', Holding(s)'
        PROVE  task'[s].obj # None \/ (task'[s].ptr # 0 /\ heap'[task'[s].ptr] # None)
    <3>1. CASE /\ task'[s].stage = task[s].stage /\ task'[s].obj = task[s].obj
               /\ task'[s].ptr = task[s].ptr
      <4>1. Live(s) /\ Holding(s)
        BY <1>7, <2>3, <3>1 DEF Holding
      <4>2. task[s].obj # None \/ (task[s].ptr # 0 /\ heap[task[s].ptr] # None)
        BY <4>1 DEF Core, Pointers
      <4>3. task[s].ptr # 0 => task[s].ptr \in Versions
        BY <4>1, TaskFields, Types DEF Versions
      <4> QED
        BY <1>3, <3>1, <4>2, <4>3
    <3>2. CASE ~(/\ task'[s].stage = task[s].stage /\ task'[s].obj = task[s].obj
                 /\ task'[s].ptr = task[s].ptr)
      BY <1>1, <2>3, <3>2 DEF AfterPut, Holding
    <3> QED
      BY <3>1, <3>2
  <2> QED
    BY <2>1, <2>2, <2>3 DEF Pointers
<1>10. Given'
  <2>1. \A o \in Published' : o.ver <= ver' /\ o.uid <= ver'
    BY <1>1, <1>4, <1>6
  <2>2. \A v \in Versions : heap'[v] # None => v <= ver'
    BY <1>1, <1>3 DEF Core, Given, Versions
  <2>3. \A i \in DOMAIN watch' : watch'[i].type = "put" => heap'[watch'[i].obj.ver] = None
    <3> SUFFICES ASSUME NEW i \in DOMAIN watch', watch'[i].type = "put"
                 PROVE  heap'[watch'[i].obj.ver] = None
      OBVIOUS
    <3>1. CASE i = Len(watch) + 1
      <4>1. watch'[i].obj.ver = ver + 1 /\ ver + 1 \in Versions
        BY <1>1, <3>1
      <4>2. heap[ver + 1] = None
        BY <1>1, <4>1 DEF Core, Given
      <4> QED
        BY <1>3, <4>1, <4>2
    <3>2. CASE i # Len(watch) + 1
      <4>1. i \in DOMAIN watch /\ watch'[i] = watch[i]
        BY <1>1, <3>2
      <4>2. watch[i].obj.ver \in Versions
        BY <4>1, Types DEF Objects
      <4> QED
        BY <1>3, <4>1, <4>2 DEF Core, Given
    <3> QED
      BY <3>1, <3>2
  <2>4. \A i, j \in DOMAIN watch' :
          watch'[i].type = "put" /\ watch'[j].type = "put"
            /\ watch'[i].obj.ver = watch'[j].obj.ver => i = j
    <3>1. \A i \in DOMAIN watch' : i # Len(watch) + 1 =>
            i \in DOMAIN watch /\ watch'[i] = watch[i] /\ watch'[i].obj.ver # ver + 1
      BY <1>1, <1>5, <1>6
    <3>2. watch'[Len(watch) + 1].obj.ver = ver + 1
      BY <1>1
    <3> QED
      BY <3>1, <3>2 DEF Core, Given
  <2>5. \A s \in Tasks : Live(s)' =>
          /\ task'[s].applied <= ver'
          /\ task'[s].obj # None => task'[s].obj.ver <= ver' /\ task'[s].obj.uid <= ver'
    BY <1>1, <1>7, <1>8 DEF AfterPut
  <2> QED
    BY <2>1, <2>2, <2>3, <2>4, <2>5 DEF Given
<1>11. Complete'
  <2>1. \A o \in Published' : o.ver = srv'.ver => srv'.val \subseteq o.val
    BY <1>1, <1>4, <1>6
  <2>2. \A s \in Tasks : Live(s)' /\ task'[s].obj # None /\ task'[s].obj.ver = srv'.ver
          => srv'.val \subseteq task'[s].obj.val
    BY <1>1, <1>7, <1>8
  <2> QED
    BY <2>1, <2>2 DEF Complete
<1>12. Applied'
  <2> SUFFICES ASSUME NEW s \in Tasks, Live(s)'
               PROVE  /\ task'[s].kind = "update" /\ task'[s].stage \in {"init", "read"} =>
                           task'[s].obj = None
                      /\ task'[s].kind = "update" /\ task'[s].stage = "call" =>
                           task'[s].upd \subseteq Object(s)'.val
                      /\ task'[s].applied = srv'.uid => task'[s].upd \subseteq srv'.val
    BY DEF Applied
  <2>1. task'[s].applied = srv'.uid => task'[s].upd \subseteq srv'.val
    BY <1>1, <1>7 DEF AfterPut
  <2>2. ASSUME task'[s].kind = "update", task'[s].stage = "call"
        PROVE  task'[s].upd \subseteq Object(s)'.val
    <3>1. Live(s) /\ Sending(s) /\ task'[s].obj = task[s].obj /\ task'[s].ptr = task[s].ptr
            /\ task'[s].upd = task[s].upd
      BY <1>7, <2>2 DEF Sending
    <3>2. task[s].upd \subseteq Object(s).val
      BY <3>1 DEF Core, Applied, Sending
    <3>3. CASE task[s].obj # None
      BY <3>1, <3>2, <3>3 DEF Object
    <3>4. CASE task[s].obj = None
      <4>1. Holding(s)
        BY <3>1 DEF Sending, Holding
      <4>2. task[s].ptr # 0
        BY <3>1, <3>4, <4>1 DEF Core, Pointers
      <4>3. task[s].ptr \in Versions
        BY <3>1, <4>2, TaskFields, Types DEF Versions
      <4>4. Object(s) = heap[task[s].ptr] /\ Object(s)' = heap'[task[s].ptr]
        BY <3>1, <3>4 DEF Object
      <4> QED
        BY <1>1, <1>2, <3>1, <3>2, <4>3, <4>4
    <3> QED
      BY <3>3, <3>4
  <2>3. task'[s].kind = "update" /\ task'[s].stage \in {"init", "read"} => task'[s].obj = None
    BY <1>7 DEF AfterPut, Core, Applied
  <2> QED
    BY <2>1, <2>2, <2>3
<1>13. AcknowledgedKept'
  BY <1>1 DEF AcknowledgedKept
<1>14. Separate'
  <2> SUFFICES ASSUME copies'
               PROVE  (SendsCopy /\ RefusedOut /\ UnsentOut /\ OwnUpdates /\ CopyClean)'
    BY DEF Separate
  <2>1. SendsCopy /\ RefusedOut /\ UnsentOut /\ OwnUpdates /\ CopyClean
    BY DEF Core, Separate
  <2>2. /\ val \cap refused = {} /\ refused' = refused
        /\ \A s \in Tasks : Unsent(s)' => task[s].upd \cap val = {}
    OBVIOUS
  <2>3. SendsCopy'
    BY <1>7, <2>1 DEF SendsCopy, Sending
  <2>4. RefusedOut'
    BY <1>1, <1>4, <2>1, <2>2 DEF RefusedOut
  <2>5. UnsentOut'
    <3> SUFFICES ASSUME NEW s \in Tasks, Unsent(s)'
                 PROVE  /\ task'[s].upd \cap refused' = {}
                        /\ \A o \in Published' : task'[s].upd \cap o.val = {}
      BY DEF UnsentOut
    <3>1. Unsent(s) /\ task'[s].upd = task[s].upd
      BY <1>7 DEF Unsent
    <3> QED
      BY <1>1, <1>4, <2>1, <2>2, <3>1 DEF UnsentOut
  <2>6. OwnUpdates'
    BY <1>7, <2>1 DEF OwnUpdates
  <2>7. CopyClean'
    <3> SUFFICES ASSUME NEW t \in Tasks, Sending(t)'
                 PROVE  /\ task'[t].obj.val \cap refused' = {}
                        /\ \A s \in Tasks : Unsent(s)' /\ s # t =>
                             task'[s].upd \cap task'[t].obj.val = {}
      BY DEF CopyClean
    <3>1. Sending(t) /\ task'[t].obj = task[t].obj
      BY <1>7 DEF Sending
    <3>2. \A s \in Tasks : Unsent(s)' => Unsent(s) /\ task'[s].upd = task[s].upd
      BY <1>7 DEF Unsent
    <3> QED
      BY <2>1, <2>2, <3>1, <3>2 DEF CopyClean
  <2> QED
    BY <2>3, <2>4, <2>5, <2>6, <2>7
<1> QED
  BY <1>9, <1>10, <1>11, <1>12, <1>13, <1>14 DEF Core

\* A deletion; the task that asked for it goes on or fails.
LEMMA RemoveKeepsCore ==
  ASSUME TypeOK, Core, srv # None, Remove,
         UNCHANGED <<copies, store, heap, handlerq, raw, refused>>,
         \A s \in Tasks : \/ task'[s] = task[s]
                          \/ /\ Moved(s, "complete") \/ Moved(s, "failed")
                             /\ Live(s)
                             /\ task'[s].applied = task[s].applied
                             /\ task'[s].obj = task[s].obj
  PROVE  Core'
<1>1. /\ srv' = None /\ ver' = ver
      /\ Len(watch) \in Nat /\ DOMAIN watch = 1..Len(watch)
      /\ DOMAIN watch' = 1..(Len(watch) + 1)
      /\ \A i \in DOMAIN watch : watch'[i] = watch[i]
      /\ watch'[Len(watch) + 1] = [type |-> "delete", obj |-> srv]
  BY RemoveStep
<1>2. \A o \in Published' : o \in Published
  <2> SUFFICES ASSUME NEW o \in Published' PROVE o \in Published
    OBVIOUS
  <2>1. o # None /\ (o = raw \/ (\E v \in Versions : heap[v] = o)
                       \/ \E i \in DOMAIN watch' : watch'[i].obj = o)
    BY <1>1 DEF Published
  <2>2. ASSUME NEW i \in DOMAIN watch', watch'[i].obj = o PROVE o \in Published
    <3>1. CASE i = Len(watch) + 1
      BY <1>1, <2>1, <2>2, <3>1 DEF Published
    <3>2. CASE i # Len(watch) + 1
      <4>1. i \in DOMAIN watch /\ watch[i].obj = o
        BY <1>1, <2>2, <3>2
      <4> QED
        BY <2>1, <4>1 DEF Published
    <3> QED
      BY <3>1, <3>2
  <2> QED
    BY <2>1, <2>2 DEF Published
<1>3. \A s \in Tasks : /\ Live(s)' = Live(s)
                       /\ Unsent(s)' => Unsent(s)
                       /\ Sending(s)' => Sending(s)
                       /\ Live(s) => /\ task'[s].applied = task[s].applied
                                     /\ task'[s].obj = task[s].obj
                                     /\ task'[s].upd = task[s].upd
  BY DEF Moved, Live, Unsent, Sending
<1>4. \A s \in Tasks : Live(s)' /\ Holding(s)' => task'[s] = task[s]
  BY DEF Moved, Holding
<1>5. Pointers'
  <2>1. ASSUME NEW s \in Tasks, Live(s)', Holding(s)'
        PROVE  task'[s].obj # None \/ (task'[s].ptr # 0 /\ heap'[task'[s].ptr] # None)
    <3>1. task'[s] = task[s]
      BY <1>4, <2>1
    <3>2. Live(s) /\ Holding(s)
      BY <2>1, <3>1 DEF Live, Holding
    <3> QED
      BY <3>1, <3>2 DEF Core, Pointers
  <2> QED
    BY <2>1 DEF Core, Pointers
<1>6. Given'
  <2>1. \A i \in DOMAIN watch' : watch'[i].type = "put" =>
          i \in DOMAIN watch /\ watch'[i] = watch[i]
    BY <1>1
  <2>2. /\ \A i \in DOMAIN watch' : watch'[i].type = "put" => heap'[watch'[i].obj.ver] = None
        /\ \A i, j \in DOMAIN watch' :
             watch'[i].type = "put" /\ watch'[j].type = "put"
               /\ watch'[i].obj.ver = watch'[j].obj.ver => i = j
    BY <2>1 DEF Core, Given
  <2> QED
    BY <1>1, <1>2, <1>3, <2>2 DEF Core, Given
<1>7. Complete' /\ AcknowledgedKept'
  BY <1>1 DEF Complete, AcknowledgedKept
<1>8. Applied'
  <2>1. ASSUME NEW s \in Tasks, Live(s)', task'[s].kind = "update", task'[s].stage = "call"
        PROVE  task'[s].upd \subseteq Object(s)'.val
    <3>1. Holding(s)'
      BY <2>1 DEF Holding
    <3>2. task'[s] = task[s]
      BY <1>4, <2>1, <3>1
    <3>3. Live(s) /\ Object(s)' = Object(s)
      BY <1>3, <2>1, <3>2 DEF Object
    <3> QED
      BY <2>1, <3>2, <3>3 DEF Core, Applied
  <2>2. \A s \in Tasks : Live(s)' /\ task'[s].kind = "update" /\ task'[s].stage \in {"init", "read"}
          => task'[s].obj = None
    BY <1>3 DEF Moved, Core, Applied
  <2> QED
    BY <1>1, <2>1, <2>2 DEF Applied
<1>9. Separate'
  <2> SUFFICES ASSUME copies'
               PROVE  (SendsCopy /\ RefusedOut /\ UnsentOut /\ OwnUpdates /\ CopyClean)'
    BY DEF Separate
  <2>1. SendsCopy /\ RefusedOut /\ UnsentOut /\ OwnUpdates /\ CopyClean
    BY DEF Core, Separate
  <2>2. SendsCopy' /\ RefusedOut'
    BY <1>2, <1>3, <2>1 DEF SendsCopy, RefusedOut, Sending
  <2>3. UnsentOut'
    BY <1>2, <1>3, <2>1 DEF UnsentOut, Unsent
  <2>4. OwnUpdates'
    BY <1>3, <2>1 DEF OwnUpdates
  <2>5. CopyClean'
    BY <1>3, <2>1 DEF CopyClean, Unsent, Sending
  <2> QED
    BY <2>2, <2>3, <2>4, <2>5
<1> QED
  BY <1>5, <1>6, <1>7, <1>8, <1>9 DEF Core

\* An update that failed before it was sent: nothing has it but the task that ends.
LEMMA RefuseKeepsCore ==
  ASSUME TypeOK, Core, NEW t \in Tasks, Unsent(t), Moved(t, "failed"),
         task'[t].applied = task[t].applied, task'[t].obj = task[t].obj,
         refused' = refused \cup task[t].upd,
         UNCHANGED <<copies, srv, ver, watch, store, heap, handlerq, raw, acked>>
  PROVE  Core'
<1>1. Published' = Published
  BY DEF Published
<1>2. \A s \in Tasks : /\ Live(s)' = Live(s)
                       /\ Unsent(s)' => Unsent(s) /\ s # t
                       /\ Sending(s)' => Sending(s) /\ s # t
                       /\ Live(s)' /\ Holding(s)' => Holding(s) /\ s # t
                       /\ Live(s) => /\ task'[s].applied = task[s].applied
                                     /\ task'[s].obj = task[s].obj
                                     /\ task'[s].upd = task[s].upd
  BY DEF Moved, Live, Unsent, Sending, Holding
<1>3. \A s \in Tasks : s # t => task'[s] = task[s] /\ Object(s)' = Object(s)
  BY DEF Moved, Object
<1>4. Pointers'
  BY <1>2, <1>3 DEF Core, Pointers
<1>5. Given'
  BY <1>1, <1>2 DEF Core, Given
<1>6. Complete' /\ AcknowledgedKept'
  BY <1>1, <1>2 DEF Core, Complete, AcknowledgedKept
<1>7. Applied'
  BY <1>2, <1>3 DEF Core, Applied, Moved
<1>8. Separate'
  <2> SUFFICES ASSUME copies'
               PROVE  (SendsCopy /\ RefusedOut /\ UnsentOut /\ OwnUpdates /\ CopyClean)'
    BY DEF Separate
  <2>1. SendsCopy /\ RefusedOut /\ UnsentOut /\ OwnUpdates /\ CopyClean
    BY DEF Core, Separate
  <2>2. SendsCopy'
    BY <1>2, <2>1 DEF SendsCopy, Sending
  <2>3. RefusedOut'
    BY <1>1, <2>1 DEF RefusedOut, UnsentOut
  <2>4. UnsentOut'
    <3> SUFFICES ASSUME NEW s \in Tasks, Unsent(s)'
                 PROVE  /\ task'[s].upd \cap refused' = {}
                        /\ \A o \in Published' : task'[s].upd \cap o.val = {}
      BY DEF UnsentOut
    <3>1. Unsent(s) /\ s # t /\ Live(s) /\ Live(t) /\ task'[s].upd = task[s].upd
      BY <1>2 DEF Unsent
    <3>2. task[s].upd \cap task[t].upd = {}
      BY <2>1, <3>1 DEF OwnUpdates
    <3> QED
      BY <1>1, <2>1, <3>1, <3>2 DEF UnsentOut
  <2>5. OwnUpdates'
    BY <1>2, <2>1 DEF OwnUpdates
  <2>6. CopyClean'
    <3> SUFFICES ASSUME NEW s \in Tasks, Sending(s)'
                 PROVE  /\ task'[s].obj.val \cap refused' = {}
                        /\ \A u \in Tasks : Unsent(u)' /\ u # s =>
                             task'[u].upd \cap task'[s].obj.val = {}
      BY DEF CopyClean
    <3>1. Sending(s) /\ s # t /\ task'[s].obj = task[s].obj
      BY <1>2 DEF Sending
    <3>2. \A u \in Tasks : Unsent(u)' => Unsent(u) /\ task'[u].upd = task[u].upd
      BY <1>2 DEF Unsent
    <3> QED
      BY <2>1, <3>1, <3>2 DEF CopyClean
  <2> QED
    BY <2>2, <2>3, <2>4, <2>5, <2>6
<1> QED
  BY <1>4, <1>5, <1>6, <1>7, <1>8 DEF Core

\* Delivered: the object was not in the cache before, so no pointer that is followed now
\* points to it.
LEMMA DeliverKeepsCore ==
  ASSUME TypeOK, Core, Deliver
  PROVE  Core'
<1>1. /\ Len(watch) \in Nat \ {0} /\ DOMAIN watch = 1..Len(watch)
      /\ watch[1] \in Event
      /\ heap' \in [Versions -> Objects \cup {None}]
      /\ \A v \in Versions : heap'[v] =
           IF watch[1].type = "put" /\ v = watch[1].obj.ver THEN watch[1].obj ELSE heap[v]
      /\ store' = IF watch[1].type = "put" THEN watch[1].obj.ver ELSE 0
      /\ DOMAIN watch' = 1..(Len(watch) - 1)
      /\ \A i \in DOMAIN watch' : watch'[i] = watch[i + 1]
      /\ Len(handlerq) \in Nat /\ DOMAIN handlerq = 1..Len(handlerq)
      /\ DOMAIN handlerq' = 1..(Len(handlerq) + 1)
      /\ \A i \in DOMAIN handlerq : handlerq'[i] = handlerq[i]
      /\ handlerq'[Len(handlerq) + 1] = [type |-> watch[1].type, ptr |-> watch[1].obj.ver]
  BY DeliverStep
<1>2. UNCHANGED <<copies, srv, ver, task, raw, acked, refused>>
  BY DEF Deliver, ghosts
<1>3. /\ watch[1].obj \in Objects /\ watch[1].obj.ver \in Versions
      /\ watch[1].type \in {"put", "delete"} /\ watch[1].obj # None
  BY <1>1, NullsApart DEF Event, Objects
<1>4. watch[1].obj \in Published
  BY <1>1, <1>3 DEF Published
<1>5. \A v \in Versions : heap[v] # None => heap'[v] = heap[v]
  BY <1>1 DEF Core, Given
<1>6. \A v \in Versions : heap'[v] # None =>
        heap'[v] = heap[v] \/ (watch[1].type = "put" /\ v = watch[1].obj.ver
                                 /\ heap'[v] = watch[1].obj)
  BY <1>1
<1>7. \A i \in DOMAIN watch' : i + 1 \in DOMAIN watch /\ watch'[i] = watch[i + 1] /\ i + 1 # 1
  BY <1>1
<1>8. \A o \in Published' : o \in Published
  <2> SUFFICES ASSUME NEW o \in Published' PROVE o \in Published
    OBVIOUS
  <2>1. o # None /\ (o = srv \/ o = raw \/ (\E v \in Versions : heap'[v] = o)
                       \/ \E i \in DOMAIN watch' : watch'[i].obj = o)
    BY <1>2 DEF Published
  <2>2. CASE \E v \in Versions : heap'[v] = o
    BY <1>4, <1>6, <2>1, <2>2 DEF Published
  <2>3. CASE \E i \in DOMAIN watch' : watch'[i].obj = o
    BY <1>7, <2>1, <2>3 DEF Published
  <2> QED
    BY <2>1, <2>2, <2>3 DEF Published
<1>9. \A s \in Tasks : Live(s) /\ Holding(s) /\ task[s].obj = None =>
        /\ task[s].ptr # 0 /\ heap[task[s].ptr] # None /\ task[s].ptr \in Versions
        /\ heap'[task[s].ptr] = heap[task[s].ptr]
  <2> SUFFICES ASSUME NEW s \in Tasks, Live(s), Holding(s), task[s].obj = None
               PROVE  /\ task[s].ptr # 0 /\ heap[task[s].ptr] # None
                      /\ task[s].ptr \in Versions
                      /\ heap'[task[s].ptr] = heap[task[s].ptr]
    OBVIOUS
  <2>1. task[s].ptr # 0 /\ heap[task[s].ptr] # None
    BY DEF Core, Pointers
  <2>2. task[s].ptr \in Versions
    BY <2>1, TaskFields, Types DEF Versions
  <2> QED
    BY <1>5, <2>1, <2>2
<1>10. \A s \in Tasks : Live(s) /\ Holding(s) => Object(s)' = Object(s)
  BY <1>2, <1>9 DEF Object
<1>11. \A s \in Tasks : /\ Live(s)' = Live(s) /\ Holding(s)' = Holding(s)
                        /\ Unsent(s)' = Unsent(s) /\ Sending(s)' = Sending(s)
  BY <1>2 DEF Live, Holding, Unsent, Sending
<1>12. Pointers'
  <2>1. store' # 0 => heap'[store'] # None
    BY <1>1, <1>3
  <2>2. \A i \in DOMAIN handlerq' :
          handlerq'[i].type = "put" => heap'[handlerq'[i].ptr] # None
    <3> SUFFICES ASSUME NEW i \in DOMAIN handlerq', handlerq'[i].type = "put"
                 PROVE  heap'[handlerq'[i].ptr] # None
      OBVIOUS
    <3>1. CASE i = Len(handlerq) + 1
      BY <1>1, <1>3, <3>1
    <3>2. CASE i # Len(handlerq) + 1
      <4>1. i \in DOMAIN handlerq /\ handlerq'[i] = handlerq[i]
        BY <1>1, <3>2
      <4>2. handlerq[i].ptr \in Versions /\ heap[handlerq[i].ptr] # None
        BY <4>1, Types DEF Core, Pointers
      <4> QED
        BY <1>5, <4>1, <4>2
    <3> QED
      BY <3>1, <3>2
  <2>3. \A s \in Tasks : Live(s)' /\ Holding(s)' =>
          task'[s].obj # None \/ (task'[s].ptr # 0 /\ heap'[task'[s].ptr] # None)
    BY <1>2, <1>9, <1>11
  <2> QED
    BY <2>1, <2>2, <2>3 DEF Pointers
<1>13. Given'
  <2>1. \A v \in Versions : heap'[v] # None => v <= ver'
    BY <1>2, <1>4, <1>6 DEF Core, Given
  <2>2. \A i, j \in DOMAIN watch' :
          watch'[i].type = "put" /\ watch'[j].type = "put"
            /\ watch'[i].obj.ver = watch'[j].obj.ver => i = j
    <3> SUFFICES ASSUME NEW i \in DOMAIN watch', NEW j \in DOMAIN watch',
                        watch'[i].type = "put", watch'[j].type = "put",
                        watch'[i].obj.ver = watch'[j].obj.ver
                 PROVE  i = j
      OBVIOUS
    <3>1. i + 1 = j + 1
      BY <1>7 DEF Core, Given
    <3>2. i \in Nat /\ j \in Nat
      BY <1>1
    <3> QED
      BY <3>1, <3>2
  <2>3. \A i \in DOMAIN watch' : watch'[i].type = "put" => heap'[watch'[i].obj.ver] = None
    <3> SUFFICES ASSUME NEW i \in DOMAIN watch', watch'[i].type = "put"
                 PROVE  heap'[watch'[i].obj.ver] = None
      OBVIOUS
    <3>1. i + 1 \in DOMAIN watch /\ watch'[i] = watch[i + 1] /\ i + 1 # 1 /\ 1 \in DOMAIN watch
      BY <1>1, <1>7
    <3>2. watch[i + 1].obj.ver \in Versions /\ heap[watch[i + 1].obj.ver] = None
      BY <3>1, Types DEF Core, Given, Objects
    <3>3. watch[1].type = "put" => watch[1].obj.ver # watch[i + 1].obj.ver
      BY <3>1 DEF Core, Given
    <3> QED
      BY <1>1, <3>1, <3>2, <3>3
  <2> QED
    BY <1>2, <1>8, <1>11, <2>1, <2>2, <2>3 DEF Core, Given
<1>14. Complete' /\ AcknowledgedKept'
  BY <1>2, <1>8, <1>11 DEF Core, Complete, AcknowledgedKept
<1>15. Applied'
  BY <1>2, <1>10, <1>11 DEF Core, Applied, Holding
<1>16. Separate'
  BY <1>2, <1>8, <1>11 DEF Core, Separate, SendsCopy, RefusedOut, UnsentOut, OwnUpdates,
                           CopyClean
<1> QED
  BY <1>12, <1>13, <1>14, <1>15, <1>16 DEF Core

\* The event handler touches no object.
LEMMA HandleKeepsCore ==
  ASSUME TypeOK, Core, Handle
  PROVE  Core'
<1>1. /\ Len(handlerq) \in Nat /\ DOMAIN handlerq = 1..Len(handlerq)
      /\ DOMAIN handlerq' = 1..(Len(handlerq) - 1)
      /\ \A i \in DOMAIN handlerq' : handlerq'[i] = handlerq[i + 1]
  BY HandleStep
<1>2. UNCHANGED <<copies, srv, ver, watch, store, heap, task, raw, acked, refused>>
  BY DEF Handle, srvVars, ghosts
<1>3. Published' = Published
  BY <1>2 DEF Published
<1>4. \A s \in Tasks : /\ Live(s)' = Live(s) /\ Holding(s)' = Holding(s)
                       /\ Unsent(s)' = Unsent(s) /\ Sending(s)' = Sending(s)
                       /\ Object(s)' = Object(s)
  BY <1>2 DEF Live, Holding, Unsent, Sending, Object
<1>5. \A i \in DOMAIN handlerq' : i + 1 \in DOMAIN handlerq
  BY <1>1
<1>6. Pointers'
  BY <1>1, <1>2, <1>4, <1>5 DEF Core, Pointers
<1>7. Given' /\ Complete' /\ AcknowledgedKept' /\ Applied'
  BY <1>2, <1>3, <1>4 DEF Core, Given, Complete, AcknowledgedKept, Applied
<1>8. Separate'
  BY <1>2, <1>3, <1>4 DEF Core, Separate, SendsCopy, RefusedOut, UnsentOut, OwnUpdates,
                          CopyClean
<1> QED
  BY <1>6, <1>7, <1>8 DEF Core

\* A client reads the object from the cache and adds a change nobody else asks for.
LEMMA FetchKeepsCore ==
  ASSUME TypeOK, Core, NEW u \in Updates, FetchRaw(u)
  PROVE  Core' /\ raw' \in Objects
<1>1. /\ store # 0 /\ u \notin UsedUpdates
      /\ raw' = [heap[store] EXCEPT !.val = @ \cup {u}]
      /\ UNCHANGED <<copies, srv, ver, watch, store, heap, handlerq, task, acked, refused>>
  BY DEF FetchRaw, HandlerGet, srvVars, cacheVars, ghosts
<1>2. store \in Versions /\ heap[store] \in Objects /\ heap[store] \in Published
  <2>1. store \in Versions /\ heap[store] # None
    BY <1>1, Types DEF TypeOK, Versions, Core, Pointers
  <2> QED
    BY <2>1, Types DEF Published
<1>3. /\ raw' \in Objects /\ raw'.ver = heap[store].ver /\ raw'.uid = heap[store].uid
      /\ raw'.val = heap[store].val \cup {u}
  BY <1>1, <1>2 DEF Objects
<1>4. \A o \in Published' : o \in Published \/ o = raw'
  BY <1>1 DEF Published
<1>5. \A s \in Tasks : /\ Live(s)' = Live(s) /\ Holding(s)' = Holding(s)
                       /\ Unsent(s)' = Unsent(s) /\ Sending(s)' = Sending(s)
                       /\ Object(s)' = Object(s)
  BY <1>1 DEF Live, Holding, Unsent, Sending, Object
<1>6. Pointers' /\ AcknowledgedKept' /\ Applied'
  BY <1>1, <1>5 DEF Core, Pointers, AcknowledgedKept, Applied
<1>7. Given'
  BY <1>1, <1>2, <1>3, <1>4, <1>5 DEF Core, Given
<1>8. Complete'
  <2>1. srv # None => \A o \in Published' : o.ver = srv.ver => srv.val \subseteq o.val
    BY <1>2, <1>3, <1>4 DEF Core, Complete
  <2> QED
    BY <1>1, <1>5, <2>1 DEF Core, Complete
<1>9. u \notin refused /\ \A s \in Tasks : Live(s) => u \notin task[s].upd
  BY <1>1 DEF UsedUpdates, AskedUpdates, LiveTasks
<1>10. Separate'
  <2> SUFFICES ASSUME copies'
               PROVE  (SendsCopy /\ RefusedOut /\ UnsentOut /\ OwnUpdates /\ CopyClean)'
    BY DEF Separate
  <2>1. SendsCopy /\ RefusedOut /\ UnsentOut /\ OwnUpdates /\ CopyClean
    BY <1>1 DEF Core, Separate
  <2>2. SendsCopy' /\ OwnUpdates' /\ CopyClean'
    BY <1>1, <1>5, <2>1 DEF SendsCopy, OwnUpdates, CopyClean
  <2>3. refused \cap raw'.val = {}
    BY <1>2, <1>3, <1>9, <2>1 DEF RefusedOut
  <2>4. \A s \in Tasks : Unsent(s) => task[s].upd \cap raw'.val = {}
    BY <1>2, <1>3, <1>9, <2>1 DEF UnsentOut, Unsent
  <2>5. RefusedOut' /\ UnsentOut'
    BY <1>1, <1>4, <1>5, <2>1, <2>3, <2>4 DEF RefusedOut, UnsentOut
  <2> QED
    BY <2>2, <2>5
<1> QED
  BY <1>3, <1>6, <1>7, <1>8, <1>10 DEF Core

\* An update task gets the object and makes its change, in a copy or in the cached object.
LEMMA EditKeepsCore ==
  ASSUME TypeOK, Core, NEW t \in Tasks, At(t, "update", "read"), store # 0,
         NewRemoteObjectForUpdate(t, store),
         UNCHANGED <<copies, srv, ver, watch, store, handlerq, raw, acked, refused>>
  PROVE  Core' /\ Moved(t, "call") /\ heap' \in [Versions -> Objects \cup {None}]
<1>1. Live(t) /\ task[t].kind = "update" /\ task[t].stage = "read"
  BY DEF At
<1>2. /\ task[t].obj = None /\ task[t].ptr \in 0..MaxVer /\ task[t].rowver \in 0..MaxVer
      /\ task[t].applied \in 0..MaxVer /\ task[t].upd \in SUBSET Updates
  BY <1>1, TaskFields DEF Core, Applied
<1>3. /\ store \in Versions /\ store \in 0..MaxVer
      /\ heap[store] \in Objects /\ heap[store] \in Published /\ heap[store] # None
  <2>1. store \in Versions /\ heap[store] # None
    BY Types DEF TypeOK, Versions, Core, Pointers
  <2> QED
    BY <2>1, Types DEF Published, TypeOK
<1> DEFINE o == [heap[store] EXCEPT !.val = @ \cup task[t].upd]
<1>4. /\ o \in Objects /\ o.ver = heap[store].ver /\ o.uid = heap[store].uid
      /\ o.val = heap[store].val \cup task[t].upd /\ o # None
  <2>1. o \in Objects /\ o.ver = heap[store].ver /\ o.uid = heap[store].uid
        /\ o.val = heap[store].val \cup task[t].upd
    BY <1>2, <1>3 DEF Objects
  <2> QED
    BY <2>1, NullsApart
<1>5. \/ /\ copies /\ heap' = heap
         /\ task' = [task EXCEPT ![t].stage = "call", ![t].obj = o]
      \/ /\ ~copies /\ heap' = [heap EXCEPT ![store] = o]
         /\ task' = [task EXCEPT ![t].stage = "call", ![t].ptr = store]
  <2>1. heap \in [Versions -> Objects \cup {None}]
    BY DEF TypeOK
  <2> QED
    BY <1>3, <2>1 DEF NewRemoteObjectForUpdate
<1> HIDE DEF o
<1>6. /\ Moved(t, "call") /\ task'[t].applied = task[t].applied
      /\ copies => task'[t].obj = o
      /\ ~copies => task'[t].obj = None /\ task'[t].ptr = store
  <2>0. "call" \in Stages
    BY DEF Stages
  <2>1. CASE copies
    BY <1>1, <1>4, <1>5, <2>0, <2>1, ObjStep
  <2>2. CASE ~copies
    BY <1>1, <1>2, <1>3, <1>5, <2>0, <2>2, PtrStep
  <2> QED
    BY <2>1, <2>2
<1>7. /\ heap' \in [Versions -> Objects \cup {None}]
      /\ \A v \in Versions : heap'[v] = heap[v] \/ (~copies /\ v = store /\ heap'[v] = o)
  BY <1>4, <1>5 DEF TypeOK
<1>8. \A v \in Versions : heap'[v] = None <=> heap[v] = None
  BY <1>3, <1>4, <1>7
<1>9. \A q \in Published' : q \in Published \/ (~copies /\ q = o)
  BY <1>7 DEF Published
<1>10. \A s \in Tasks : s # t => /\ Live(s)' = Live(s) /\ Holding(s)' = Holding(s)
                                 /\ Unsent(s)' = Unsent(s) /\ Sending(s)' = Sending(s)
                                 /\ task'[s] = task[s]
  BY <1>6 DEF Moved, Live, Holding, Unsent, Sending
<1>11. /\ Live(t)' /\ Holding(t)' /\ Unsent(t)' /\ Sending(t)' /\ Unsent(t)
       /\ task'[t].upd = task[t].upd /\ Object(t)' = o
       /\ task'[t].kind = "update" /\ task'[t].stage = "call"
  BY <1>1, <1>3, <1>4, <1>5, <1>6 DEF Moved, Live, Holding, Unsent, Sending, Object, TypeOK
<1>12. o.ver <= ver /\ o.uid <= ver
  BY <1>3, <1>4 DEF Core, Given
<1>13. srv # None /\ o.ver = srv.ver => srv.val \subseteq o.val
  BY <1>3, <1>4 DEF Core, Complete
<1>14. Pointers'
  <2>1. store' # 0 => heap'[store'] # None
    BY <1>3, <1>8
  <2>2. \A i \in DOMAIN handlerq : handlerq[i].ptr \in Versions
    BY Types
  <2>3. ASSUME NEW s \in Tasks, Live(s)', Holding(s)'
        PROVE  task'[s].obj # None \/ (task'[s].ptr # 0 /\ heap'[task'[s].ptr] # None)
    <3>1. CASE s = t
      BY <1>3, <1>4, <1>6, <1>8, <3>1 DEF Versions
    <3>2. CASE s # t
      <4>1. Live(s) /\ Holding(s) /\ task'[s] = task[s]
        BY <1>10, <2>3, <3>2
      <4>2. task[s].ptr # 0 => task[s].ptr \in Versions
        BY <4>1, TaskFields, Types DEF Versions
      <4> QED
        BY <1>8, <4>1, <4>2 DEF Core, Pointers
    <3> QED
      BY <3>1, <3>2
  <2> QED
    BY <1>8, <2>1, <2>2, <2>3 DEF Core, Pointers
<1>15. Given'
  <2>1. \A i \in DOMAIN watch : watch[i].type = "put" => heap'[watch[i].obj.ver] = None
    <3>1. \A i \in DOMAIN watch : watch[i].obj.ver \in Versions
      BY Types DEF Objects
    <3> QED
      BY <1>8, <3>1 DEF Core, Given
  <2>2. \A s \in Tasks : Live(s)' =>
          /\ task'[s].applied <= ver'
          /\ task'[s].obj # None => task'[s].obj.ver <= ver' /\ task'[s].obj.uid <= ver'
    BY <1>1, <1>6, <1>10, <1>12 DEF Core, Given
  <2> QED
    BY <1>8, <1>9, <1>12, <2>1, <2>2 DEF Core, Given
<1>16. Complete' /\ AcknowledgedKept'
  BY <1>6, <1>9, <1>10, <1>13 DEF Core, Complete, AcknowledgedKept
<1>17. Applied'
  <2> SUFFICES ASSUME NEW s \in Tasks, Live(s)'
               PROVE  /\ task'[s].kind = "update" /\ task'[s].stage \in {"init", "read"} =>
                           task'[s].obj = None
                      /\ task'[s].kind = "update" /\ task'[s].stage = "call" =>
                           task'[s].upd \subseteq Object(s)'.val
                      /\ srv # None /\ task'[s].applied = srv.uid =>
                           task'[s].upd \subseteq srv.val
    BY DEF Applied
  <2>1. CASE s = t
    BY <1>1, <1>4, <1>6, <1>11, <2>1 DEF Core, Applied
  <2>2. CASE s # t
    <3>1. Live(s) /\ task'[s] = task[s]
      BY <1>10, <2>2
    <3>2. ASSUME task[s].kind = "update", task[s].stage = "call"
          PROVE  task[s].upd \subseteq Object(s)'.val
      <4>1. task[s].upd \subseteq Object(s).val /\ Holding(s)
        BY <3>1, <3>2 DEF Core, Applied, Holding
      <4>2. CASE task[s].obj # None
        BY <3>1, <4>1, <4>2 DEF Object
      <4>3. CASE task[s].obj = None
        <5>1. task[s].ptr \in Versions
          BY <3>1, <4>1, <4>3, TaskFields, Types DEF Versions, Core, Pointers
        <5>2. Object(s) = heap[task[s].ptr] /\ Object(s)' = heap'[task[s].ptr]
          BY <3>1, <4>3 DEF Object
        <5> QED
          BY <1>4, <1>7, <4>1, <5>1, <5>2
      <4> QED
        BY <4>2, <4>3
    <3> QED
      BY <3>1, <3>2 DEF Core, Applied
  <2> QED
    BY <2>1, <2>2
<1>18. Separate'
  <2> SUFFICES ASSUME copies'
               PROVE  (SendsCopy /\ RefusedOut /\ UnsentOut /\ OwnUpdates /\ CopyClean)'
    BY DEF Separate
  <2>1. SendsCopy /\ RefusedOut /\ UnsentOut /\ OwnUpdates /\ CopyClean /\ copies
    BY DEF Core, Separate
  <2>2. Published' \subseteq Published /\ task'[t].obj = o
    BY <1>6, <1>9, <2>1
  <2>3. SendsCopy'
    BY <1>4, <1>10, <2>1, <2>2 DEF SendsCopy
  <2>4. RefusedOut'
    BY <2>1, <2>2 DEF RefusedOut
  <2>5. UnsentOut'
    BY <1>10, <1>11, <2>1, <2>2 DEF UnsentOut
  <2>6. OwnUpdates'
    BY <1>1, <1>10, <1>11, <2>1 DEF OwnUpdates
  <2>7. CopyClean'
    <3> SUFFICES ASSUME NEW s \in Tasks, Sending(s)'
                 PROVE  /\ task'[s].obj.val \cap refused = {}
                        /\ \A u \in Tasks : Unsent(u)' /\ u # s =>
                             task'[u].upd \cap task'[s].obj.val = {}
      BY DEF CopyClean
    <3>1. \A u \in Tasks : Unsent(u)' => Unsent(u) /\ task'[u].upd = task[u].upd
      BY <1>10, <1>11
    <3>2. CASE s = t
      <4>1. o.val \cap refused = {}
        BY <1>3, <1>4, <1>11, <2>1 DEF RefusedOut, UnsentOut
      <4>2. ASSUME NEW u \in Tasks, Unsent(u), u # t PROVE task[u].upd \cap o.val = {}
        <5>1. task[u].upd \cap heap[store].val = {}
          BY <1>3, <2>1, <4>2 DEF UnsentOut
        <5>2. task[u].upd \cap task[t].upd = {}
          BY <1>1, <2>1, <4>2 DEF OwnUpdates, Unsent
        <5> QED
          BY <1>4, <5>1, <5>2
      <4> QED
        BY <2>2, <3>1, <3>2, <4>1, <4>2
    <3>3. CASE s # t
      <4>1. Sending(s) /\ task'[s] = task[s]
        BY <1>10, <3>3
      <4> QED
        BY <2>1, <3>1, <4>1 DEF CopyClean
    <3> QED
      BY <3>2, <3>3
  <2> QED
    BY <2>3, <2>4, <2>5, <2>6, <2>7
<1> QED
  BY <1>6, <1>7, <1>14, <1>15, <1>16, <1>17, <1>18 DEF Core

\* A new task asks for a change that nothing has yet, or for none.
LEMMA NewTaskKeepsCore ==
  ASSUME TypeOK, Core, NEW t \in Tasks, NEW id \in Nat, NEW kind \in {"create", "update", "delete"},
         NEW upd \in SUBSET Updates, upd \cap UsedUpdates = {}, NewTask(t, kind, id, upd),
         UNCHANGED <<copies, srvVars, cacheVars, raw, acked, refused>>
  PROVE  /\ Core' /\ task' \in [Tasks -> TaskRecs \cup {Idle}]
         /\ task[t] = Idle /\ \A s \in Tasks : s # t => task'[s] = task[s]
         /\ task'[t] # Idle /\ task'[t].stage = "init" /\ task'[t].row = id
         /\ task'[t].kind = kind
<1> DEFINE r == [kind |-> kind, stage |-> "init", row |-> id, upd |-> upd,
                 rowver |-> 0, ptr |-> 0, obj |-> None, applied |-> 0]
<1>1. /\ task[t] = Idle /\ task' = [task EXCEPT ![t] = r]
      /\ task \in [Tasks -> TaskRecs \cup {Idle}]
  BY DEF NewTask, TypeOK
<1>2. /\ r \in TaskRecs /\ r.kind = kind /\ r.stage = "init" /\ r.row = id /\ r.upd = upd
      /\ r.obj = None /\ r.applied = 0
  BY Types DEF TaskRecs, Stages
<1> HIDE DEF r
<1>3. task' \in [Tasks -> TaskRecs \cup {Idle}] /\ task'[t] = r
      /\ \A s \in Tasks : s # t => task'[s] = task[s]
  BY <1>1, <1>2
<1>4. r # Idle
  BY <1>2, NullsApart
<1>5. UNCHANGED <<copies, srv, ver, watch, store, heap, handlerq, raw, acked, refused>>
  BY DEF srvVars, cacheVars
<1>6. Published' = Published
  BY <1>5 DEF Published
<1>7. \A s \in Tasks : s # t => /\ Live(s)' = Live(s) /\ Holding(s)' = Holding(s)
                                /\ Unsent(s)' = Unsent(s) /\ Sending(s)' = Sending(s)
                                /\ Object(s)' = Object(s)
  BY <1>3, <1>5 DEF Live, Holding, Unsent, Sending, Object
<1>8. ~Holding(t)' /\ ~Sending(t)' /\ task'[t].stage # "call" /\ task'[t].obj = None
      /\ task'[t].applied = 0
  BY <1>2, <1>3 DEF Holding, Sending
<1>9. Pointers'
  BY <1>3, <1>5, <1>7, <1>8 DEF Core, Pointers
<1>10. Given'
  <2>1. \A s \in Tasks : Live(s)' =>
          /\ task'[s].applied <= ver
          /\ task'[s].obj # None => task'[s].obj.ver <= ver /\ task'[s].obj.uid <= ver
    BY <1>3, <1>7, <1>8, Types DEF Core, Given
  <2> QED
    BY <1>5, <1>6, <2>1 DEF Core, Given
<1>11. Complete' /\ AcknowledgedKept'
  BY <1>3, <1>5, <1>6, <1>7, <1>8 DEF Core, Complete, AcknowledgedKept
<1>12. Applied'
  <2>1. srv # None => srv.uid # 0
    BY Types DEF Objects, Versions
  <2> QED
    BY <1>3, <1>5, <1>7, <1>8, <2>1 DEF Core, Applied
<1>13. Separate'
  <2> SUFFICES ASSUME copies'
               PROVE  (SendsCopy /\ RefusedOut /\ UnsentOut /\ OwnUpdates /\ CopyClean)'
    BY DEF Separate
  <2>1. SendsCopy /\ RefusedOut /\ UnsentOut /\ OwnUpdates /\ CopyClean
    BY <1>5 DEF Core, Separate
  <2>2. /\ upd \cap refused = {} /\ \A o \in Published : upd \cap o.val = {}
        /\ \A s \in Tasks : Live(s) => upd \cap task[s].upd = {}
        /\ \A s \in Tasks : Live(s) /\ task[s].obj # None => upd \cap task[s].obj.val = {}
    <3>1. upd \cap refused = {}
      BY DEF UsedUpdates
    <3>2. ASSUME NEW o \in Published PROVE upd \cap o.val = {}
      <4>1. o.val \subseteq PublishedUpdates
        BY DEF PublishedUpdates
      <4> QED
        BY <4>1 DEF UsedUpdates
    <3>3. ASSUME NEW s \in Tasks, Live(s) PROVE upd \cap task[s].upd = {}
      <4>1. s \in LiveTasks
        BY <3>3 DEF LiveTasks
      <4>2. task[s].upd \subseteq AskedUpdates
        BY <4>1 DEF AskedUpdates
      <4> QED
        BY <4>2 DEF UsedUpdates
    <3>4. ASSUME NEW s \in Tasks, Live(s), task[s].obj # None
          PROVE  upd \cap task[s].obj.val = {}
      <4>1. s \in {u \in LiveTasks : task[u].obj # None}
        BY <3>4 DEF LiveTasks
      <4>2. task[s].obj.val \subseteq CopiedUpdates
        BY <4>1 DEF CopiedUpdates
      <4> QED
        BY <4>2 DEF UsedUpdates
    <3> QED
      BY <3>1, <3>2, <3>3, <3>4
  <2>3. SendsCopy' /\ RefusedOut'
    BY <1>3, <1>5, <1>6, <1>7, <1>8, <2>1 DEF SendsCopy, RefusedOut
  <2>4. UnsentOut'
    BY <1>2, <1>3, <1>5, <1>6, <1>7, <2>1, <2>2 DEF UnsentOut
  <2>5. OwnUpdates'
    <3> SUFFICES ASSUME NEW a \in Tasks, NEW b \in Tasks, Live(a)', Live(b)', a # b
                 PROVE  task'[a].upd \cap task'[b].upd = {}
      BY DEF OwnUpdates
    <3>1. CASE a = t
      BY <1>2, <1>3, <1>7, <2>2, <3>1
    <3>2. CASE b = t
      BY <1>2, <1>3, <1>7, <2>2, <3>2
    <3>3. CASE a # t /\ b # t
      BY <1>3, <1>7, <2>1, <3>3 DEF OwnUpdates
    <3> QED
      BY <3>1, <3>2, <3>3
  <2>6. CopyClean'
    <3> SUFFICES ASSUME NEW s \in Tasks, Sending(s)'
                 PROVE  /\ task'[s].obj.val \cap refused = {}
                        /\ \A u \in Tasks : Unsent(u)' /\ u # s =>
                             task'[u].upd \cap task'[s].obj.val = {}
      BY <1>5 DEF CopyClean
    <3>1. s # t /\ Sending(s) /\ task'[s] = task[s]
      BY <1>3, <1>7, <1>8
    <3>2. task[s].obj # None /\ Live(s)
      BY <2>1, <3>1 DEF SendsCopy, Sending
    <3>3. \A u \in Tasks : Unsent(u)' => u = t \/ (Unsent(u) /\ task'[u] = task[u])
      BY <1>3, <1>7
    <3> QED
      BY <1>2, <1>3, <2>1, <2>2, <3>1, <3>2, <3>3 DEF CopyClean
  <2> QED
    BY <2>3, <2>4, <2>5, <2>6
<1> QED
  BY <1>1, <1>2, <1>3, <1>4, <1>9, <1>10, <1>11, <1>12, <1>13 DEF Core

-----------------------------------------------------------------------------
(* What each stage of a task does to its record *)

\* OnInit writes a status the row passes through and goes on.
LEMMA OnInitForm ==
  ASSUME TypeOK, NEW t \in Tasks, OnInit(t)
  PROVE  /\ Live(t) /\ task[t].stage = "init"
         /\ Moved(t, IF task[t].kind = "update" THEN "read" ELSE "call")
         /\ task'[t].ptr = task[t].ptr /\ task'[t].obj = task[t].obj
         /\ task'[t].applied = task[t].applied
         /\ \E st \in Transitions : SetStatus(task[t].row, st)
<1>1. /\ Live(t) /\ task[t].stage = "init"
      /\ task[t].kind \in {"create", "update", "delete"}
  BY TaskFields DEF OnInit
<1>2. PICK rv \in 0..MaxVer : rv = IF row # None /\ row.id = task[t].row THEN row.ver ELSE 0
  BY Types DEF Rows
<1>3. PICK st \in Stages : st = IF task[t].kind = "update" THEN "read" ELSE "call"
  BY DEF Stages
<1>4. task' = [task EXCEPT ![t].stage = st, ![t].rowver = rv]
  BY <1>2, <1>3 DEF OnInit
<1>5. /\ Moved(t, st) /\ task'[t].ptr = task[t].ptr /\ task'[t].obj = task[t].obj
      /\ task'[t].applied = task[t].applied
  BY <1>1, <1>4, RowverStep
<1>6. \E s \in Transitions : SetStatus(task[t].row, s)
  BY <1>1 DEF OnInit, Transitions
<1> QED
  BY <1>1, <1>3, <1>5, <1>6

\* The sync task that ends a create begins like the others.
LEMMA SyncOnInitForm ==
  ASSUME TypeOK, NEW t \in Tasks, SyncOnInit(t)
  PROVE  /\ Live(t) /\ task[t].kind = "create" /\ task[t].stage = "syncInit"
         /\ Moved(t, "syncRead")
         /\ task'[t].ptr = task[t].ptr /\ task'[t].obj = task[t].obj
         /\ task'[t].applied = task[t].applied
         /\ SetStatus(task[t].row, "syncing")
<1>1. Live(t) /\ task[t].kind = "create" /\ task[t].stage = "syncInit"
  BY DEF SyncOnInit, At
<1>2. PICK rv \in 0..MaxVer : rv = IF row # None /\ row.id = task[t].row THEN row.ver ELSE 0
  BY Types DEF Rows
<1>3. task' = [task EXCEPT ![t].stage = "syncRead", ![t].rowver = rv] /\ "syncRead" \in Stages
  BY <1>2 DEF SyncOnInit, Stages
<1> QED
  BY <1>1, <1>3, RowverStep DEF SyncOnInit

\* Reading the cache again after the write, and reading it for the sync task.
LEMMA ReadForm ==
  ASSUME TypeOK, NEW t \in Tasks, Reread(t) \/ SyncRead(t)
  PROVE  /\ Live(t) /\ task[t].stage \in {"reread", "syncRead"}
         /\ \E st \in Stages :
              /\ Moved(t, st)
              /\ store = 0 => st \in {"failed", "syncFailed"}
              /\ store # 0 => st \in {"write", "syncWrite"}
         /\ task'[t].ptr = store /\ task'[t].obj = task[t].obj
         /\ task'[t].applied = task[t].applied
<1>1. store \in 0..MaxVer
  BY DEF TypeOK
<1>2. CASE Reread(t)
  <2>1. Live(t) /\ task[t].stage = "reread"
    BY <1>2 DEF Reread, At
  <2>2. PICK st \in Stages : st = IF store = 0 THEN "failed" ELSE "write"
    BY DEF Stages
  <2>3. task' = [task EXCEPT ![t].stage = st, ![t].ptr = store]
    BY <1>2, <2>2 DEF Reread, HandlerGet
  <2> QED
    BY <1>1, <2>1, <2>2, <2>3, PtrStep
<1>3. CASE SyncRead(t)
  <2>1. Live(t) /\ task[t].stage = "syncRead"
    BY <1>3 DEF SyncRead, At
  <2>2. PICK st \in Stages : st = IF store = 0 THEN "syncFailed" ELSE "syncWrite"
    BY DEF Stages
  <2>3. task' = [task EXCEPT ![t].stage = st, ![t].ptr = store]
    BY <1>3, <2>2 DEF SyncRead, HandlerGet
  <2> QED
    BY <1>1, <2>1, <2>2, <2>3, PtrStep
<1> QED
  BY <1>2, <1>3

\* The end of a create's own part.
LEMMA OnCreateCompleteForm ==
  ASSUME TypeOK, NEW t \in Tasks, OnCreateComplete(t)
  PROVE  /\ Live(t) /\ task[t].kind = "create" /\ task[t].stage = "complete"
         /\ Moved(t, "syncInit")
         /\ task'[t].ptr = 0 /\ task'[t].obj = None /\ task'[t].applied = task[t].applied
<1>1. /\ Live(t) /\ task[t].kind = "create" /\ task[t].stage = "complete"
      /\ "syncInit" \in Stages /\ 0 \in 0..MaxVer
      /\ task' = [task EXCEPT ![t].stage = "syncInit", ![t].obj = None, ![t].ptr = 0]
  BY Types DEF OnCreateComplete, At, Stages
<1> QED
  BY <1>1, ReleaseStep

\* Write and SyncWrite move on as the row refuses the object or takes it.
LEMMA WriteForm ==
  ASSUME TypeOK, Pointers, NEW t \in Tasks, Write(t) \/ SyncWrite(t)
  PROVE  /\ Live(t) /\ Holding(t) /\ task[t].stage \in {"write", "syncWrite"}
         /\ row' = IF Refuses(task[t].rowver, Object(t)) THEN row
                   ELSE Updated(task[t].row, Object(t))
         /\ \/ task'[t] = Idle /\ ~Refuses(task[t].rowver, Object(t))
            \/ \E st \in {"failed", "complete", "syncFailed"} :
                 /\ Moved(t, st)
                 /\ st = "complete" => ~Refuses(task[t].rowver, Object(t))
                 /\ task'[t].obj = task[t].obj /\ task'[t].applied = task[t].applied
         /\ \A s \in Tasks : s # t => task'[s] = task[s]
         /\ task' \in [Tasks -> TaskRecs \cup {Idle}]
<1>1. {"failed", "complete", "syncFailed"} \subseteq Stages
  BY DEF Stages
<1>2. /\ Live(t) /\ task[t].stage \in {"write", "syncWrite"}
      /\ row' = IF Refuses(task[t].rowver, Object(t)) THEN row
                ELSE Updated(task[t].row, Object(t))
  BY DEF Write, SyncWrite, At
<1>3. Holding(t)
  BY <1>2 DEF Holding
<1>4. CASE Goto(t, "failed") \/ Goto(t, "syncFailed")
  BY <1>1, <1>2, <1>3, <1>4, GotoStep DEF Moved
<1>5. CASE Goto(t, "complete") /\ ~Refuses(task[t].rowver, Object(t)) /\ task[t].stage = "write"
  BY <1>1, <1>2, <1>3, <1>5, GotoStep DEF Moved
<1>6. CASE End(t) /\ ~Refuses(task[t].rowver, Object(t))
  BY <1>2, <1>3, <1>6, EndStep
<1> QED
  BY <1>4, <1>5, <1>6 DEF Write, SyncWrite

\* The update task has read the object and made its change, or found none.
LEMMA ReadForUpdateForm ==
  ASSUME TypeOK, NEW t \in Tasks, ReadForUpdate(t)
  PROVE  /\ Live(t) /\ task[t].kind = "update" /\ task[t].stage = "read"
         /\ \/ /\ store # 0 /\ NewRemoteObjectForUpdate(t, store) /\ refused' = refused
            \/ /\ Moved(t, "failed") /\ heap' = heap
               /\ task'[t].obj = task[t].obj /\ task'[t].applied = task[t].applied
               /\ refused' = refused \cup task[t].upd
         /\ UNCHANGED <<copies, srv, ver, watch, store, handlerq, row, raw, acked, alone>>
<1>1. Live(t) /\ task[t].kind = "update" /\ task[t].stage = "read" /\ "failed" \in Stages
  BY DEF ReadForUpdate, At, Stages
<1> QED
  BY <1>1, GotoStep DEF ReadForUpdate, HandlerGet, srvVars

\* The PUT was accepted, was accepted and its answer lost, or was refused.
LEMMA UpdateForm ==
  ASSUME TypeOK, Pointers, NEW t \in Tasks, UpdateV2(t)
  PROVE  /\ Live(t) /\ task[t].kind = "update" /\ task[t].stage = "call"
         /\ Object(t) \in Objects
         /\ \/ /\ Accepted(Object(t)) /\ Put(srv.uid, Object(t).val) /\ refused' = refused
               /\ srv # None /\ Object(t).uid = srv.uid /\ Object(t).ver = srv.ver
               /\ \/ /\ Moved(t, "reread") /\ task'[t].applied = srv.uid
                     /\ task'[t].obj = None /\ task'[t].ptr = 0
                     /\ heap' = IF task[t].obj = None THEN [heap EXCEPT ![task[t].ptr] = srv']
                                ELSE heap
                  \/ /\ Moved(t, "failed") /\ task'[t].applied = task[t].applied
                     /\ task'[t].obj = task[t].obj /\ heap' = heap
            \/ /\ Moved(t, "failed") /\ heap' = heap
               /\ task'[t].obj = task[t].obj /\ task'[t].applied = task[t].applied
               /\ refused' = refused \cup task[t].upd
               /\ UNCHANGED <<srv, ver, watch>>
         /\ UNCHANGED <<copies, store, handlerq, row, raw, acked, alone>>
<1>1. /\ Live(t) /\ task[t].kind = "update" /\ task[t].stage = "call"
      /\ "failed" \in Stages /\ "reread" \in Stages /\ 0 \in 0..MaxVer
      /\ UNCHANGED <<copies, store, handlerq, row, raw, acked, alone>>
  BY Types DEF UpdateV2, At, Stages
<1>2. Object(t) \in Objects
  BY <1>1, HeldObject DEF Holding
<1>3. Accepted(Object(t)) =>
        srv # None /\ Object(t).uid = srv.uid /\ Object(t).ver = srv.ver /\ srv.uid \in 0..MaxVer
  BY <1>2, Types DEF Accepted, Objects, Versions
<1>4. \/ /\ Accepted(Object(t)) /\ Put(srv.uid, Object(t).val)
         /\ task' = [task EXCEPT ![t].stage = "reread", ![t].applied = srv.uid,
                                 ![t].obj = None, ![t].ptr = 0]
         /\ heap' = IF task[t].obj = None THEN [heap EXCEPT ![task[t].ptr] = srv'] ELSE heap
         /\ refused' = refused
      \/ /\ Accepted(Object(t)) /\ Put(srv.uid, Object(t).val)
         /\ Goto(t, "failed") /\ heap' = heap /\ refused' = refused
      \/ /\ Goto(t, "failed") /\ heap' = heap
         /\ refused' = refused \cup task[t].upd
         /\ UNCHANGED <<srv, ver, watch>>
  BY DEF UpdateV2, PutSpec, srvVars
<1>5. ASSUME Accepted(Object(t)),
             task' = [task EXCEPT ![t].stage = "reread", ![t].applied = srv.uid,
                                  ![t].obj = None, ![t].ptr = 0]
      PROVE  /\ Moved(t, "reread") /\ task'[t].applied = srv.uid
             /\ task'[t].obj = None /\ task'[t].ptr = 0
  <2>1. task[t] \in TaskRecs /\ task \in [Tasks -> TaskRecs \cup {Idle}]
    BY <1>1, TaskFields DEF TypeOK
  <2> DEFINE r == [task[t] EXCEPT !.stage = "reread", !.applied = srv.uid, !.obj = None,
                                  !.ptr = 0]
  <2>2. task' = [task EXCEPT ![t] = r]
    BY <1>5, <2>1
  <2>3. /\ r \in TaskRecs /\ r.stage = "reread" /\ r.kind = task[t].kind
        /\ r.row = task[t].row /\ r.upd = task[t].upd /\ r.ptr = 0
        /\ r.obj = None /\ r.applied = srv.uid
    BY <1>1, <1>3, <1>5, <2>1 DEF TaskRecs
  <2> HIDE DEF r
  <2> QED
    BY <1>1, <2>2, <2>3, Replaced
<1>6. Goto(t, "failed") =>
        /\ Moved(t, "failed") /\ task'[t].applied = task[t].applied
        /\ task'[t].obj = task[t].obj
  BY <1>1, GotoStep
<1> QED
  BY <1>1, <1>2, <1>3, <1>4, <1>5, <1>6

\* The POST made the object, made it and its answer was lost, or found one.
LEMMA CreateForm ==
  ASSUME TypeOK, NEW t \in Tasks, CreateRemoteObject(t)
  PROVE  /\ Live(t) /\ task[t].kind = "create" /\ task[t].stage = "call"
         /\ \/ /\ srv = None /\ Put(ver + 1, {}) /\ acked' = {}
               /\ \/ Moved(t, "write") /\ task'[t].obj = srv'
                  \/ Moved(t, "failed") /\ task'[t].obj = task[t].obj
            \/ /\ Moved(t, "failed") /\ task'[t].obj = task[t].obj
               /\ UNCHANGED <<srv, ver, watch, acked>>
         /\ task'[t].applied = task[t].applied
         /\ UNCHANGED <<copies, store, heap, handlerq, row, raw, refused, alone>>
<1>1. /\ Live(t) /\ task[t].kind = "create" /\ task[t].stage = "call"
      /\ "failed" \in Stages /\ "write" \in Stages
      /\ UNCHANGED <<copies, store, heap, handlerq, row, raw, refused, alone>>
  BY DEF CreateRemoteObject, At, Stages, cacheVars
<1>2. \/ /\ srv = None /\ Put(ver + 1, {}) /\ acked' = {}
         /\ task' = [task EXCEPT ![t].stage = "write", ![t].obj = srv']
      \/ srv = None /\ Put(ver + 1, {}) /\ acked' = {} /\ Goto(t, "failed")
      \/ Goto(t, "failed") /\ UNCHANGED <<srv, ver, watch, acked>>
  BY DEF CreateRemoteObject, CreateV2, srvVars
<1>3. ASSUME Put(ver + 1, {}), task' = [task EXCEPT ![t].stage = "write", ![t].obj = srv']
      PROVE  Moved(t, "write") /\ task'[t].obj = srv' /\ task'[t].applied = task[t].applied
  <2>1. ver + 1 \in 1..(ver + 1) /\ {} \in SUBSET Updates
    BY Types
  <2>2. PICK ob \in Objects \cup {None} : ob = srv'
    BY <1>3, <2>1, PutStep
  <2>3. task' = [task EXCEPT ![t].stage = "write", ![t].obj = ob]
    BY <1>3, <2>2
  <2>4. Moved(t, "write") /\ task'[t].obj = ob /\ task'[t].applied = task[t].applied
    BY <1>1, <2>3, ObjStep
  <2> QED
    BY <2>2, <2>4
<1>4. Goto(t, "failed") =>
        /\ Moved(t, "failed") /\ task'[t].applied = task[t].applied
        /\ task'[t].obj = task[t].obj
  BY <1>1, GotoStep
<1> QED
  BY <1>1, <1>2, <1>3, <1>4

\* The object is gone, was deleted, or was deleted and the answer lost.
LEMMA DeleteForm ==
  ASSUME TypeOK, NEW t \in Tasks, DeleteRemoteObject(t)
  PROVE  /\ Live(t) /\ task[t].kind = "delete" /\ task[t].stage = "call"
         /\ \/ srv = None /\ Moved(t, "complete") /\ UNCHANGED <<srv, ver, watch, acked>>
            \/ /\ srv # None /\ Remove /\ acked' = {}
               /\ Moved(t, "complete") \/ Moved(t, "failed")
         /\ task'[t].obj = task[t].obj /\ task'[t].applied = task[t].applied
         /\ UNCHANGED <<copies, store, heap, handlerq, row, raw, refused, alone>>
<1>1. /\ Live(t) /\ task[t].kind = "delete" /\ task[t].stage = "call"
      /\ "failed" \in Stages /\ "complete" \in Stages
      /\ UNCHANGED <<copies, store, heap, handlerq, row, raw, refused, alone>>
  BY DEF DeleteRemoteObject, At, Stages, cacheVars
<1>2. \/ srv = None /\ Goto(t, "complete") /\ UNCHANGED <<srv, ver, watch, acked>>
      \/ /\ srv # None /\ Remove /\ acked' = {}
         /\ Goto(t, "complete") \/ Goto(t, "failed")
  BY DEF DeleteRemoteObject, HandlerDelete, srvVars
<1>3. \A st \in {"complete", "failed"} : Goto(t, st) =>
        /\ Moved(t, st) /\ task'[t].applied = task[t].applied
        /\ task'[t].obj = task[t].obj
  BY <1>1, GotoStep
<1> QED
  BY <1>1, <1>2, <1>3

\* A call that failed before the server saw it.
LEMMA CallFailsForm ==
  ASSUME TypeOK, NEW t \in Tasks, CallFails(t)
  PROVE  /\ Live(t) /\ task[t].stage = "call" /\ Moved(t, "failed")
         /\ task'[t].obj = task[t].obj /\ task'[t].applied = task[t].applied
         /\ refused' = refused \cup task[t].upd
         /\ UNCHANGED <<copies, srv, ver, watch, store, heap, handlerq, row, raw, acked, alone>>
<1>1. /\ Live(t) /\ task[t].stage = "call" /\ "failed" \in Stages /\ Goto(t, "failed")
      /\ refused' = refused \cup task[t].upd
      /\ UNCHANGED <<copies, srv, ver, watch, store, heap, handlerq, row, raw, acked, alone>>
  BY DEF CallFails, Stages, srvVars, cacheVars
<1> QED
  BY <1>1, GotoStep

\* The stages that end a task.
LEMMA EndForm ==
  ASSUME TypeOK, NEW t \in Tasks,
         OnUpdateComplete(t) \/ OnDeleteComplete(t) \/ OnFailed(t) \/ OnSyncCompleteFailed(t)
  PROVE  /\ Live(t)
         /\ task' \in [Tasks -> TaskRecs \cup {Idle}] /\ task'[t] = Idle
         /\ \A s \in Tasks : s # t => task'[s] = task[s]
         /\ UNCHANGED <<copies, srv, ver, watch, store, heap, handlerq, raw, refused, alone>>
BY EndStep DEF OnUpdateComplete, OnDeleteComplete, OnFailed, OnSyncCompleteFailed, At,
               srvVars, cacheVars, ghosts

-----------------------------------------------------------------------------
(* The objects: every step *)

\* A task that a write does not move.
LEMMA AfterPutSame ==
  ASSUME TypeOK, Core, NEW s \in Tasks, NEW uid, NEW val \in SUBSET Updates,
         task'[s] = task[s],
         \/ uid = ver + 1
         \/ srv # None /\ uid = srv.uid /\ srv.val \subseteq val
  PROVE  AfterPut(s, uid, val)
<1> SUFFICES ASSUME Live(s)
             PROVE  /\ task[s].applied <= ver + 1
                    /\ task[s].applied = uid => task[s].upd \subseteq val
  BY DEF AfterPut, Live
<1>1. task[s].applied <= ver /\ task[s].applied \in Nat /\ ver \in Nat
  BY TaskFields, Types DEF Core, Given
<1>2. srv # None /\ task[s].applied = srv.uid => task[s].upd \subseteq srv.val
  BY DEF Core, Applied
<1> QED
  BY <1>1, <1>2

\* A write over the server's object is a write of a known id.
LEMMA ServerObject ==
  ASSUME TypeOK, Core, srv # None
  PROVE  /\ srv \in Objects /\ srv \in Published
         /\ srv.uid \in 1..(ver + 1) /\ srv.uid # ver + 1 /\ srv.val \in SUBSET Updates
         /\ acked \subseteq srv.val
<1>1. srv \in Objects /\ srv \in Published
  BY Types DEF Published
<1>2. srv.uid \in Versions /\ srv.uid <= ver /\ ver \in Nat
  BY <1>1, Types DEF Core, Given, Objects
<1> QED
  BY <1>1, <1>2 DEF Versions, Objects, Core, AcknowledgedKept

\* Others create or change the object.
LEMMA OthersKeepCore ==
  ASSUME TypeOK, Core, Others
  PROVE  TypeOK' /\ Core'
<1>1. /\ UNCHANGED <<copies, store, heap, handlerq, row, task, raw, refused, faults, reqs>>
      /\ others' \in 0..MaxOthers /\ alone' \in BOOLEAN
  <2>1. UNCHANGED <<copies, store, heap, handlerq, row, task, raw, refused, faults, reqs>>
    BY DEF Others, cacheVars
  <2>2. others' \in 0..MaxOthers
    BY TasksAssumption DEF Others, TypeOK
  <2>3. alone' \in BOOLEAN
    BY DEF Others, TypeOK
  <2> QED
    BY <2>1, <2>2, <2>3
<1>2. CASE srv = None
  <2>1. Put(ver + 1, {}) /\ acked' = {}
    BY <1>2 DEF Others
  <2>2. ver + 1 \in 1..(ver + 1) /\ {} \in SUBSET Updates
    BY Types
  <2>3. \A s \in Tasks : AfterPut(s, ver + 1, {})
    BY <1>1, AfterPutSame
  <2>4. Core'
    BY <1>1, <2>1, <2>2, <2>3, PutKeepsCore
  <2>6. /\ srv' \in Objects \cup {None} /\ ver' \in 0..MaxVer
        /\ watch' \in Seq([type : {"put", "delete"}, obj : Objects])
    BY <2>1, <2>2, PutTypes
  <2>5. TypeOK'
    BY <1>1, <2>1, <2>6 DEF TypeOK
  <2> QED
    BY <2>4, <2>5
<1>3. CASE srv # None
  <2>1. Put(srv.uid, srv.val) /\ acked' = acked
    BY <1>3 DEF Others
  <2>2. \A s \in Tasks : AfterPut(s, srv.uid, srv.val)
    BY <1>1, <1>3, ServerObject, AfterPutSame
  <2>3. copies => /\ srv.val \cap refused = {}
                  /\ \A s \in Tasks : Unsent(s)' => task[s].upd \cap srv.val = {}
    BY <1>1, <1>3, ServerObject DEF Core, Separate, RefusedOut, UnsentOut, Unsent, Live
  <2>4. Core'
    BY <1>1, <1>3, <2>1, <2>2, <2>3, ServerObject, PutKeepsCore
  <2>6. /\ srv' \in Objects \cup {None} /\ ver' \in 0..MaxVer
        /\ watch' \in Seq([type : {"put", "delete"}, obj : Objects])
    BY <1>3, <2>1, ServerObject, PutTypes
  <2>5. TypeOK'
    BY <1>1, <2>1, <2>6 DEF TypeOK
  <2> QED
    BY <2>4, <2>5
<1> QED
  BY <1>2, <1>3

\* A raw request puts the client's object, with the version it was read at or without.
LEMMA PutRawKeepsCore ==
  ASSUME TypeOK, Core, PutRaw
  PROVE  TypeOK' /\ Core'
<1>1. /\ UNCHANGED <<copies, store, heap, handlerq, row, refused, alone, faults, reqs, others>>
      /\ raw # None /\ raw' = None
  BY DEF PutRaw, cacheVars, boundVars
<1>2. raw \in Objects /\ raw \in Published /\ raw.val \in SUBSET Updates /\ raw.ver # 0
  BY <1>1, Types DEF Published, Objects, Versions
<1>3. copies => /\ raw.val \cap refused = {}
                /\ \A s \in Tasks : Unsent(s) => task[s].upd \cap raw.val = {}
  BY <1>2 DEF Core, Separate, RefusedOut, UnsentOut
<1>4. CASE Accepted(raw) /\ Put(srv.uid, raw.val) /\ UNCHANGED <<acked, task>>
  <2>1. srv # None /\ raw.ver = srv.ver
    BY <1>2, <1>4 DEF Accepted
  <2>2. srv.val \subseteq raw.val
    BY <1>2, <2>1 DEF Core, Complete
  <2>3. \A s \in Tasks : AfterPut(s, srv.uid, raw.val)
    BY <1>2, <1>4, <2>1, <2>2, AfterPutSame
  <2>4. copies => \A s \in Tasks : Unsent(s)' => task[s].upd \cap raw.val = {}
    BY <1>3, <1>4 DEF Unsent, Live
  <2>5. acked' \subseteq raw.val
    BY <1>4, <2>1, <2>2, ServerObject
  <2>6. Core'
    BY <1>1, <1>2, <1>3, <1>4, <2>1, <2>3, <2>4, <2>5, ServerObject, PutKeepsCore
  <2>8. /\ srv' \in Objects \cup {None} /\ ver' \in 0..MaxVer
        /\ watch' \in Seq([type : {"put", "delete"}, obj : Objects])
    BY <1>2, <1>4, <2>1, ServerObject, PutTypes
  <2>7. TypeOK'
    BY <1>1, <1>4, <2>8 DEF TypeOK
  <2> QED
    BY <2>6, <2>7
<1>5. CASE /\ Accepted(Unversioned(raw)) /\ Put(srv.uid, raw.val)
           /\ acked' = acked \cap raw.val
           /\ task' = [t \in Tasks |->
                IF Live(t) /\ ~(task[t].upd \subseteq raw.val)
                THEN [task[t] EXCEPT !.applied = 0] ELSE task[t]]
  <2>1. srv # None
    BY <1>5 DEF Accepted
  <2>2. srv.uid # 0
    BY <2>1, ServerObject
  <2>3. ASSUME NEW s \in Tasks
        PROVE  /\ AfterPut(s, srv.uid, raw.val)
               /\ task'[s] \in TaskRecs \cup {Idle}
               /\ Unsent(s)' => Unsent(s)
    <3>1. CASE Live(s) /\ ~(task[s].upd \subseteq raw.val)
      <4> DEFINE r == [task[s] EXCEPT !.applied = 0]
      <4>1. task[s] \in TaskRecs /\ task'[s] = r
        BY <1>5, <3>1, TaskFields
      <4>2. /\ r \in TaskRecs /\ r.applied = 0 /\ r.kind = task[s].kind
            /\ r.stage = task[s].stage /\ r.upd = task[s].upd /\ r.obj = task[s].obj
            /\ r.ptr = task[s].ptr
        BY <4>1, Types DEF TaskRecs
      <4> HIDE DEF r
      <4>3. 0 <= ver + 1
        BY Types
      <4> QED
        BY <2>2, <3>1, <4>1, <4>2, <4>3 DEF AfterPut, Unsent
    <3>2. CASE ~Live(s)
      <4>1. task'[s] = task[s]
        BY <1>5, <3>2
      <4> QED
        BY <3>2, <4>1 DEF AfterPut, Live, Unsent, TypeOK
    <3>3. CASE Live(s) /\ task[s].upd \subseteq raw.val
      <4>1. task'[s] = task[s] /\ task[s] \in TaskRecs
        BY <1>5, <3>3, TaskFields
      <4>2. task[s].applied <= ver + 1
        <5>1. task[s].applied <= ver /\ task[s].applied \in Nat /\ ver \in Nat
          BY <3>3, TaskFields, Types DEF Core, Given
        <5> QED
          BY <5>1
      <4> QED
        BY <3>3, <4>1, <4>2 DEF AfterPut, Live, Unsent
    <3> QED
      BY <3>1, <3>2, <3>3
  <2>4. task' \in [Tasks -> TaskRecs \cup {Idle}]
    <3>1. task' = [t \in Tasks |-> task'[t]]
      BY <1>5
    <3> QED
      BY <2>3, <3>1
  <2>5. copies => \A s \in Tasks : Unsent(s)' => task[s].upd \cap raw.val = {}
    BY <1>3, <2>3
  <2>6. acked' \subseteq raw.val /\ acked' \subseteq Updates
    BY <1>5 DEF TypeOK
  <2>7. Core'
    BY <1>1, <1>2, <1>3, <1>5, <2>1, <2>3, <2>5, <2>6, ServerObject, PutKeepsCore
  <2>9. /\ srv' \in Objects \cup {None} /\ ver' \in 0..MaxVer
        /\ watch' \in Seq([type : {"put", "delete"}, obj : Objects])
    BY <1>2, <1>5, <2>1, ServerObject, PutTypes
  <2>8. TypeOK'
    BY <1>1, <2>4, <2>6, <2>9 DEF TypeOK
  <2> QED
    BY <2>7, <2>8
<1>6. CASE UNCHANGED <<srv, ver, watch, acked, task>>
  <2>1. \A o \in Published' : o \in Published
    BY <1>1, <1>6 DEF Published
  <2>2. \A s \in Tasks : /\ Live(s)' = Live(s) /\ Holding(s)' = Holding(s)
                         /\ Unsent(s)' = Unsent(s) /\ Sending(s)' = Sending(s)
                         /\ Object(s)' = Object(s)
    BY <1>1, <1>6 DEF Live, Holding, Unsent, Sending, Object
  <2>3. Pointers' /\ Given' /\ Complete' /\ AcknowledgedKept' /\ Applied'
    BY <1>1, <1>6, <2>1, <2>2 DEF Core, Pointers, Given, Complete, AcknowledgedKept, Applied
  <2>4. Separate'
    BY <1>1, <1>6, <2>1, <2>2 DEF Core, Separate, SendsCopy, RefusedOut, UnsentOut, OwnUpdates,
                                 CopyClean
  <2>5. TypeOK'
    BY <1>1, <1>6 DEF TypeOK
  <2> QED
    BY <2>3, <2>4, <2>5 DEF Core
<1> QED
  BY <1>4, <1>5, <1>6 DEF PutRaw, srvVars

\* Someone deletes the object by its name.
LEMMA RawDeleteKeepsCore ==
  ASSUME TypeOK, Core, deleteResourceHandler
  PROVE  TypeOK' /\ Core'
<1>1. /\ UNCHANGED <<copies, store, heap, handlerq, row, task, raw, refused, alone, faults, reqs>>
      /\ srv # None /\ Remove /\ acked' = {}
  BY DEF deleteResourceHandler, HandlerDelete, cacheVars
<1>2. others' \in 0..MaxOthers
  BY TasksAssumption DEF deleteResourceHandler, TypeOK
<1>3. srv' = None /\ ver' = ver /\ watch' \in Seq([type : {"put", "delete"}, obj : Objects])
  BY <1>1, RemoveStep DEF Event
<1>4. Core'
  BY <1>1, RemoveKeepsCore
<1>5. TypeOK'
  BY <1>1, <1>2, <1>3 DEF TypeOK
<1> QED
  BY <1>4, <1>5

\* The informer.
LEMMA DeliverTypes ==
  ASSUME TypeOK, Deliver
  PROVE  TypeOK'
<1>1. /\ heap' \in [Versions -> Objects \cup {None}]
      /\ watch' \in Seq([type : {"put", "delete"}, obj : Objects])
      /\ handlerq' \in Seq([type : {"put", "delete"}, ptr : Versions])
  BY DeliverStep DEF Event, Note
<1>2. store' \in 0..MaxVer
  <2>1. watch[1] \in Event /\ store' = IF watch[1].type = "put" THEN watch[1].obj.ver ELSE 0
    BY DeliverStep
  <2>2. 0 \in 0..MaxVer /\ MaxVer \in Nat
    BY Types
  <2> QED
    BY <2>1, <2>2 DEF Event, Objects, Versions
<1> QED
  BY <1>1, <1>2 DEF Deliver, TypeOK, ghosts, boundVars

\* The event handler.
LEMMA HandleTypes ==
  ASSUME TypeOK, Core, Handle
  PROVE  TypeOK'
<1>1. handlerq' \in Seq([type : {"put", "delete"}, ptr : Versions])
  BY HandleStep DEF Note
<1>2. row' \in Rows \cup {None}
  BY HandleRow DEF Core
<1> QED
  BY <1>1, <1>2 DEF Handle, TypeOK, srvVars, ghosts, boundVars

\* A client reads the object for a raw update.
LEMMA FetchTypes ==
  ASSUME TypeOK, Core, NEW u \in Updates, FetchRaw(u)
  PROVE  TypeOK'
<1>1. raw' \in Objects
  BY FetchKeepsCore
<1>2. reqs' \in 0..MaxReqs
  BY TasksAssumption DEF FetchRaw, TypeOK
<1> QED
  BY <1>1, <1>2 DEF FetchRaw, TypeOK, srvVars, cacheVars, ghosts

\* What an accepted request leaves behind: a task, and a row if there was none.
Started(t, kind, id, upd) ==
  /\ NewTask(t, kind, id, upd) /\ upd \cap UsedUpdates = {}
  /\ \/ row' = row /\ row # None
     \/ /\ row = None
        /\ row' = [id |-> FreshId, status |-> "init", uid |-> 0, ver |-> 0]

\* Accepted requests: the row they insert and the task they start.
LEMMA RequestKeepsCore ==
  ASSUME TypeOK, Core, NEW t \in Tasks,
         PostCreate(t) \/ PostDelete(t) \/ \E u \in Updates : PostUpdate(t, u)
  PROVE  /\ TypeOK' /\ Core'
         /\ task[t] = Idle /\ \A s \in Tasks : s # t => task'[s] = task[s]
         /\ task'[t] # Idle /\ task'[t].stage = "init" /\ row' # None
         /\ task'[t].kind \in {"create", "update", "delete"}
         /\ \/ row' = row
            \/ row = None /\ row'.status = "init"
         /\ alone' = (alone /\ LiveTasks = {})
         /\ UNCHANGED <<copies, srv, ver, watch, store, heap, handlerq, raw, acked, refused>>
<1>1. /\ UNCHANGED <<copies, srv, ver, watch, store, heap, handlerq, raw, acked, refused>>
      /\ UNCHANGED <<copies, srvVars, cacheVars, raw, acked, refused>>
      /\ UNCHANGED <<faults, others>>
  BY DEF PostCreate, PostUpdate, PostDelete, srvVars, cacheVars
<1>2. PICK kind \in {"create", "update", "delete"}, upd \in SUBSET Updates, id \in Nat :
        Started(t, kind, id, upd)
  <2>1. ASSUME PostCreate(t)
        PROVE  \E kind \in {"create", "update", "delete"}, upd \in SUBSET Updates, id \in Nat :
                 Started(t, kind, id, upd)
    <3>1. row = None /\ FreshId \in RowIds
      BY <2>1, FreshIdIsFresh DEF PostCreate
    <3>2. FreshId \in Nat
      BY <3>1 DEF RowIds
    <3>3. NewTask(t, "create", FreshId, {})
          /\ row' = [id |-> FreshId, status |-> "init", uid |-> 0, ver |-> 0]
      BY <2>1 DEF PostCreate
    <3>4. {} \in SUBSET Updates /\ {} \cap UsedUpdates = {}
      OBVIOUS
    <3> QED
      BY <3>1, <3>2, <3>3, <3>4 DEF Started
  <2>2. ASSUME NEW u \in Updates, PostUpdate(t, u)
        PROVE  \E kind \in {"create", "update", "delete"}, upd \in SUBSET Updates, id \in Nat :
                 Started(t, kind, id, upd)
    <3>1. NewTask(t, "update", row.id, {u}) /\ row # None /\ u \notin UsedUpdates /\ row' = row
      BY <2>2 DEF PostUpdate
    <3>2. row.id \in Nat
      BY <3>1, Types DEF Rows
    <3>3. {u} \in SUBSET Updates /\ {u} \cap UsedUpdates = {}
      BY <3>1
    <3> QED
      BY <3>1, <3>2, <3>3 DEF Started
  <2>3. ASSUME PostDelete(t)
        PROVE  \E kind \in {"create", "update", "delete"}, upd \in SUBSET Updates, id \in Nat :
                 Started(t, kind, id, upd)
    <3>1. NewTask(t, "delete", row.id, {}) /\ row # None /\ row' = row
      BY <2>3 DEF PostDelete
    <3>2. row.id \in Nat
      BY <3>1, Types DEF Rows
    <3>3. {} \in SUBSET Updates /\ {} \cap UsedUpdates = {}
      OBVIOUS
    <3> QED
      BY <3>1, <3>2, <3>3 DEF Started
  <2> QED
    BY <2>1, <2>2, <2>3
<1>3. /\ Core' /\ task' \in [Tasks -> TaskRecs \cup {Idle}]
      /\ task[t] = Idle /\ \A s \in Tasks : s # t => task'[s] = task[s]
      /\ task'[t] # Idle /\ task'[t].stage = "init" /\ task'[t].kind = kind
  BY <1>1, <1>2, NewTaskKeepsCore DEF Started
<1>4. alone' = (alone /\ LiveTasks = {}) /\ reqs' \in 0..MaxReqs
  BY <1>2, TasksAssumption DEF Started, NewTask, TypeOK
<1>5. /\ row' \in Rows \cup {None} /\ row' # None
      /\ \/ row' = row
         \/ row = None /\ row'.status = "init"
  <2>1. CASE row' = row /\ row # None
    BY <2>1 DEF TypeOK
  <2>2. CASE /\ row = None
             /\ row' = [id |-> FreshId, status |-> "init", uid |-> 0, ver |-> 0]
    <3>1. FreshId \in RowIds /\ 0 \in 0..MaxVer
      BY <2>2, FreshIdIsFresh, Types
    <3>2. row' \in Rows /\ row'.status = "init"
      BY <2>2, <3>1 DEF Rows, RowIds, Statuses
    <3> QED
      BY <2>2, <3>2, NullsApart
  <2> QED
    BY <1>2, <2>1, <2>2 DEF Started
<1>6. alone' \in BOOLEAN
  BY <1>4 DEF TypeOK
<1>7. TypeOK'
  BY <1>1, <1>3, <1>4, <1>5, <1>6 DEF TypeOK
<1> QED
  BY <1>1, <1>2, <1>3, <1>4, <1>5, <1>7

-----------------------------------------------------------------------------
(* The objects: the stages of a task *)

\* A step that changes a task, the row or what was acknowledged keeps the types.
LEMMA QuietTypes ==
  ASSUME TypeOK, SameObjects, task' \in [Tasks -> TaskRecs \cup {Idle}],
         row' \in Rows \cup {None}, acked' \subseteq Updates,
         UNCHANGED <<alone, faults, reqs, others>>
  PROVE  TypeOK'
BY DEF TypeOK, SameObjects

\* The first stage.
LEMMA OnInitKeepsCore ==
  ASSUME TypeOK, Core, NEW t \in Tasks, OnInit(t)
  PROVE  TypeOK' /\ Core' /\ SameObjects
<1>1. SameObjects /\ acked' = acked /\ UNCHANGED <<alone, faults, reqs, others>>
  BY DEF OnInit, SameObjects, srvVars, cacheVars, ghosts, boundVars
<1>2. PICK tr \in Transitions : SetStatus(task[t].row, tr)
  BY OnInitForm
<1>3. row' \in Rows \cup {None}
  <2>1. tr \in Statuses
    BY DEF Statuses
  <2> QED
    BY <1>2, <2>1, SetStatusStep
<1>4. AcknowledgedKept' /\ acked' \subseteq Updates
  BY <1>1 DEF SameObjects, Core, AcknowledgedKept, TypeOK
<1>5. PICK st \in {"read", "call"} :
        /\ Moved(t, st) /\ (st = "call" => task[t].kind # "update")
        /\ Live(t) /\ task[t].stage = "init"
        /\ task'[t].obj = task[t].obj /\ task'[t].applied = task[t].applied
  BY OnInitForm
<1>6. Core'
  <2>1. st \in Stages /\ st \notin {"init", "write", "syncWrite"}
    BY DEF Stages
  <2>2. \A s \in Tasks : s # t => task'[s] = task[s]
    BY <1>5 DEF Moved
  <2> QED
    BY <1>1, <1>4, <1>5, <2>1, <2>2, QuietTask
<1>7. TypeOK'
  BY <1>1, <1>3, <1>4, <1>5, QuietTypes DEF Moved
<1> QED
  BY <1>1, <1>6, <1>7

\* Stages that pass nothing to the server: the start of a synchronisation, a look into
\* the cache.
LEMMA PassKeepsCore ==
  ASSUME TypeOK, Core, NEW t \in Tasks,
         SyncOnInit(t) \/ Reread(t) \/ SyncRead(t) \/ OnCreateComplete(t)
  PROVE  TypeOK' /\ Core' /\ SameObjects
<1>1. SameObjects /\ acked' = acked /\ UNCHANGED <<alone, faults, reqs, others>>
  BY DEF SyncOnInit, Reread, SyncRead, OnCreateComplete, SameObjects,
         srvVars, cacheVars, ghosts, boundVars
<1>2. row' \in Rows \cup {None}
  <2>1. CASE SyncOnInit(t)
    <3>1. "syncing" \in Statuses /\ SetStatus(task[t].row, "syncing")
      BY <2>1, SyncOnInitForm DEF Statuses, Transitions
    <3> QED
      BY <3>1, SetStatusStep
  <2>2. CASE Reread(t) \/ SyncRead(t) \/ OnCreateComplete(t)
    BY <2>2 DEF Reread, SyncRead, OnCreateComplete, TypeOK
  <2> QED
    BY <2>1, <2>2
<1>3. AcknowledgedKept' /\ acked' \subseteq Updates
  BY <1>1 DEF SameObjects, Core, AcknowledgedKept, TypeOK
<1>4. PICK st \in {"syncInit", "syncRead", "failed", "syncFailed", "write", "syncWrite"} :
        /\ Moved(t, st) /\ Live(t)
        /\ task'[t].obj \in {task[t].obj, None} /\ task'[t].applied = task[t].applied
        /\ st \in {"write", "syncWrite"} => task'[t].ptr # 0 /\ heap[task'[t].ptr] # None
  <2>1. CASE SyncOnInit(t)
    BY <2>1, SyncOnInitForm
  <2>2. CASE Reread(t) \/ SyncRead(t)
    BY <2>2, ReadForm DEF Core, Pointers
  <2>3. CASE OnCreateComplete(t)
    BY <2>3, OnCreateCompleteForm
  <2> QED
    BY <2>1, <2>2, <2>3
<1>5. Core'
  <2>1. st \in Stages /\ st \notin {"init", "read", "call"}
    BY DEF Stages
  <2>2. \A s \in Tasks : s # t => task'[s] = task[s]
    BY <1>4 DEF Moved
  <2> QED
    BY <1>1, <1>3, <1>4, <2>1, <2>2, QuietTask
<1>6. TypeOK'
  BY <1>1, <1>2, <1>3, <1>4, QuietTypes DEF Moved
<1> QED
  BY <1>1, <1>5, <1>6

\* The object's data is written into the row.
LEMMA WriteKeepsCore ==
  ASSUME TypeOK, Core, NEW t \in Tasks, Write(t) \/ SyncWrite(t)
  PROVE  TypeOK' /\ Core' /\ SameObjects
<1>1. SameObjects /\ acked' = acked /\ UNCHANGED <<alone, faults, reqs, others>>
  BY DEF Write, SyncWrite, SameObjects, srvVars, cacheVars, ghosts, boundVars
<1>2. /\ Live(t) /\ Holding(t)
      /\ row' = IF Refuses(task[t].rowver, Object(t)) THEN row
                ELSE Updated(task[t].row, Object(t))
      /\ \/ task'[t] = Idle
         \/ \E st \in {"failed", "complete", "syncFailed"} :
              /\ Moved(t, st)
              /\ task'[t].obj = task[t].obj /\ task'[t].applied = task[t].applied
      /\ \A s \in Tasks : s # t => task'[s] = task[s]
      /\ task' \in [Tasks -> TaskRecs \cup {Idle}]
  BY WriteForm DEF Core
<1>3. row' \in Rows \cup {None}
  BY <1>2, WriteRow DEF Core
<1>4. AcknowledgedKept' /\ acked' \subseteq Updates
  BY <1>1 DEF SameObjects, Core, AcknowledgedKept, TypeOK
<1>5. Core'
  <2>1. CASE task'[t] = Idle
    BY <1>1, <1>2, <1>4, <2>1, QuietTask
  <2>2. ASSUME NEW st \in {"failed", "complete", "syncFailed"}, Moved(t, st),
               task'[t].obj = task[t].obj, task'[t].applied = task[t].applied
        PROVE  Core'
    <3>1. st \in Stages /\ st \notin {"init", "read", "call", "write", "syncWrite"}
      BY DEF Stages
    <3> QED
      BY <1>1, <1>2, <1>4, <2>2, <3>1, QuietTask
  <2> QED
    BY <1>2, <2>1, <2>2
<1>6. TypeOK'
  BY <1>1, <1>2, <1>3, <1>4, QuietTypes
<1> QED
  BY <1>1, <1>5, <1>6

\* The end of a task: an update that is acknowledged is in the object.
LEMMA EndKeepsCore ==
  ASSUME TypeOK, Core, NEW t \in Tasks,
         OnUpdateComplete(t) \/ OnDeleteComplete(t) \/ OnFailed(t) \/ OnSyncCompleteFailed(t)
  PROVE  TypeOK' /\ Core' /\ SameObjects
<1>1. SameObjects /\ UNCHANGED <<alone, faults, reqs, others>>
  BY DEF OnUpdateComplete, OnDeleteComplete, OnFailed, OnSyncCompleteFailed, SameObjects,
         srvVars, cacheVars, ghosts, boundVars
<1>2. /\ Live(t)
      /\ task' \in [Tasks -> TaskRecs \cup {Idle}] /\ task'[t] = Idle
      /\ \A s \in Tasks : s # t => task'[s] = task[s]
  BY EndForm
<1>3. /\ acked' = acked \/ (srv # None /\ srv.uid = task[t].applied
                              /\ acked' = acked \cup task[t].upd)
  BY DEF OnUpdateComplete, OnDeleteComplete, OnFailed, OnSyncCompleteFailed, ghosts
<1>4. AcknowledgedKept' /\ acked' \subseteq Updates
  <2>1. task[t].upd \subseteq Updates /\ acked \subseteq Updates
    BY <1>2, TaskFields DEF TypeOK
  <2>2. srv # None /\ srv.uid = task[t].applied => task[t].upd \subseteq srv.val
    BY <1>2 DEF Core, Applied
  <2> QED
    BY <1>1, <1>3, <2>1, <2>2 DEF SameObjects, Core, AcknowledgedKept
<1>5. row' \in Rows \cup {None}
  <2>1. CASE OnUpdateComplete(t)
    BY <2>1 DEF OnUpdateComplete, TypeOK
  <2>2. CASE OnDeleteComplete(t)
    BY <2>2 DEF OnDeleteComplete, TypeOK
  <2>3. CASE OnFailed(t)
    <3>1. \E st \in Failures : SetStatus(task[t].row, st)
      BY <1>2, <2>3, TaskFields DEF OnFailed, Failures
    <3>2. Failures \subseteq Statuses
      BY DEF Statuses
    <3> QED
      BY <3>1, <3>2, SetStatusStep
  <2>4. CASE OnSyncCompleteFailed(t)
    <3>1. SetStatus(task[t].row, "sync_fail") /\ "sync_fail" \in Statuses
      BY <2>4 DEF OnSyncCompleteFailed, Statuses, Failures
    <3> QED
      BY <3>1, SetStatusStep
  <2> QED
    BY <2>1, <2>2, <2>3, <2>4
<1>6. Core'
  BY <1>1, <1>2, <1>4, QuietTask
<1>7. TypeOK'
  BY <1>1, <1>2, <1>4, <1>5, QuietTypes
<1> QED
  BY <1>1, <1>6, <1>7

\* A call that fails.
LEMMA CallFailsKeepsCore ==
  ASSUME TypeOK, Core, NEW t \in Tasks, CallFails(t)
  PROVE  TypeOK' /\ Core'
<1>1. /\ Live(t) /\ task[t].stage = "call" /\ Moved(t, "failed")
      /\ task'[t].obj = task[t].obj /\ task'[t].applied = task[t].applied
      /\ refused' = refused \cup task[t].upd
      /\ UNCHANGED <<copies, srv, ver, watch, store, heap, handlerq, row, raw, acked, alone>>
  BY CallFailsForm
<1>2. Unsent(t) /\ task[t].upd \subseteq Updates
  BY <1>1, TaskFields DEF Unsent
<1>3. Core'
  BY <1>1, <1>2, RefuseKeepsCore
<1>4. faults' \in 0..MaxFaults /\ UNCHANGED <<reqs, others>>
  BY TasksAssumption DEF CallFails, TypeOK
<1>5. TypeOK'
  BY <1>1, <1>2, <1>4 DEF TypeOK, Moved
<1> QED
  BY <1>3, <1>5

\* The change is made to the cached object or to a copy of it.
LEMMA ReadForUpdateKeepsCore ==
  ASSUME TypeOK, Core, NEW t \in Tasks, ReadForUpdate(t)
  PROVE  TypeOK' /\ Core' /\ \E st \in {"call", "failed"} : Moved(t, st)
<1>1. /\ Live(t) /\ task[t].kind = "update" /\ task[t].stage = "read"
      /\ UNCHANGED <<copies, srv, ver, watch, store, handlerq, row, raw, acked, alone>>
      /\ UNCHANGED <<faults, reqs, others>>
  BY ReadForUpdateForm DEF ReadForUpdate, boundVars
<1>2. CASE store # 0 /\ NewRemoteObjectForUpdate(t, store) /\ refused' = refused
  <2>1. At(t, "update", "read")
    BY <1>1 DEF At
  <2>2. Core' /\ Moved(t, "call") /\ heap' \in [Versions -> Objects \cup {None}]
    BY <1>1, <1>2, <2>1, EditKeepsCore
  <2>3. TypeOK'
    BY <1>1, <1>2, <2>2 DEF TypeOK, Moved
  <2> QED
    BY <2>2, <2>3
<1>3. CASE /\ Moved(t, "failed") /\ heap' = heap
           /\ task'[t].obj = task[t].obj /\ task'[t].applied = task[t].applied
           /\ refused' = refused \cup task[t].upd
  <2>1. Unsent(t) /\ task[t].upd \subseteq Updates
    BY <1>1, TaskFields DEF Unsent
  <2>2. Core'
    BY <1>1, <1>3, <2>1, RefuseKeepsCore
  <2>3. TypeOK'
    BY <1>1, <1>3, <2>1 DEF TypeOK, Moved
  <2> QED
    BY <1>3, <2>2, <2>3
<1> QED
  BY <1>2, <1>3, ReadForUpdateForm

\* The POST of a create.
LEMMA CreateKeepsCore ==
  ASSUME TypeOK, Core, NEW t \in Tasks, CreateRemoteObject(t)
  PROVE  TypeOK' /\ Core'
<1>1. /\ Live(t) /\ task[t].kind = "create" /\ task[t].stage = "call"
      /\ task'[t].applied = task[t].applied
      /\ UNCHANGED <<copies, store, heap, handlerq, row, raw, refused, alone>>
  BY CreateForm
<1>2. faults' \in 0..MaxFaults /\ UNCHANGED <<reqs, others>>
  BY TasksAssumption DEF CreateRemoteObject, TypeOK
<1>3. CASE /\ srv = None /\ Put(ver + 1, {}) /\ acked' = {}
           /\ \/ Moved(t, "write") /\ task'[t].obj = srv'
              \/ Moved(t, "failed") /\ task'[t].obj = task[t].obj
  <2>1. ver + 1 \in 1..(ver + 1) /\ {} \in SUBSET Updates /\ ver \in Nat
    BY Types
  <2>2. \A s \in Tasks : s # t => task'[s] = task[s]
    BY <1>3 DEF Moved
  <2>3. \A s \in Tasks : s # t => AfterPut(s, ver + 1, {})
    BY <2>1, <2>2, AfterPutSame
  <2>4. task[t].applied <= ver /\ task[t].applied \in Nat
    BY <1>1, TaskFields DEF Core, Given
  <2>5. AfterPut(t, ver + 1, {})
    BY <1>1, <1>3, <2>1, <2>4 DEF AfterPut, Moved
  <2>6. \A s \in Tasks : AfterPut(s, ver + 1, {})
    BY <2>3, <2>5
  <2>7. Core'
    BY <1>1, <1>3, <2>1, <2>6, PutKeepsCore
  <2>8. /\ srv' \in Objects \cup {None} /\ ver' \in 0..MaxVer
        /\ watch' \in Seq([type : {"put", "delete"}, obj : Objects])
    BY <1>3, <2>1, PutTypes
  <2>9. TypeOK'
    BY <1>1, <1>2, <1>3, <2>8 DEF TypeOK, Moved
  <2> QED
    BY <2>7, <2>9
<1>4. CASE /\ Moved(t, "failed") /\ task'[t].obj = task[t].obj
           /\ UNCHANGED <<srv, ver, watch, acked>>
  <2>1. SameObjects /\ AcknowledgedKept' /\ "failed" \in Stages
    BY <1>1, <1>4 DEF SameObjects, Core, AcknowledgedKept, Stages
  <2>2. \A s \in Tasks : s # t => task'[s] = task[s]
    BY <1>4 DEF Moved
  <2>3. Core'
    BY <1>1, <1>4, <2>1, <2>2, QuietTask
  <2>4. TypeOK'
    BY <1>1, <1>2, <1>4 DEF TypeOK, Moved
  <2> QED
    BY <2>3, <2>4
<1> QED
  BY <1>3, <1>4, CreateForm

\* The DELETE.
LEMMA DeleteKeepsCore ==
  ASSUME TypeOK, Core, NEW t \in Tasks, DeleteRemoteObject(t)
  PROVE  TypeOK' /\ Core'
<1>1. /\ Live(t) /\ task[t].kind = "delete" /\ task[t].stage = "call"
      /\ task'[t].obj = task[t].obj /\ task'[t].applied = task[t].applied
      /\ UNCHANGED <<copies, store, heap, handlerq, row, raw, refused, alone>>
  BY DeleteForm
<1>2. faults' \in 0..MaxFaults /\ UNCHANGED <<reqs, others>>
  BY TasksAssumption DEF DeleteRemoteObject, TypeOK
<1>3. CASE srv = None /\ Moved(t, "complete") /\ UNCHANGED <<srv, ver, watch, acked>>
  <2>1. SameObjects /\ AcknowledgedKept' /\ "complete" \in Stages
    BY <1>1, <1>3 DEF SameObjects, Core, AcknowledgedKept, Stages
  <2>2. \A s \in Tasks : s # t => task'[s] = task[s]
    BY <1>3 DEF Moved
  <2>3. Core'
    BY <1>1, <1>3, <2>1, <2>2, QuietTask
  <2>4. TypeOK'
    BY <1>1, <1>2, <1>3 DEF TypeOK, Moved
  <2> QED
    BY <2>3, <2>4
<1>4. CASE /\ srv # None /\ Remove /\ acked' = {}
           /\ Moved(t, "complete") \/ Moved(t, "failed")
  <2>1. \A s \in Tasks : s # t => task'[s] = task[s]
    BY <1>4 DEF Moved
  <2>2. Core'
    BY <1>1, <1>4, <2>1, RemoveKeepsCore
  <2>3. srv' = None /\ ver' = ver /\ watch' \in Seq(Event)
    BY <1>4, RemoveStep
  <2>4. TypeOK'
    BY <1>1, <1>2, <1>4, <2>3 DEF TypeOK, Moved, Event
  <2> QED
    BY <2>2, <2>4
<1> QED
  BY <1>3, <1>4, DeleteForm

\* The PUT of an update.
LEMMA UpdateKeepsCore ==
  ASSUME TypeOK, Core, NEW t \in Tasks, UpdateV2(t)
  PROVE  TypeOK' /\ Core'
<1>1. /\ Live(t) /\ task[t].kind = "update" /\ task[t].stage = "call"
      /\ Object(t) \in Objects
      /\ UNCHANGED <<copies, store, handlerq, row, raw, acked, alone>>
  BY UpdateForm DEF Core
<1>2. faults' \in 0..MaxFaults /\ UNCHANGED <<reqs, others>>
  BY TasksAssumption DEF UpdateV2, TypeOK
<1>3. CASE /\ Put(srv.uid, Object(t).val) /\ refused' = refused
           /\ srv # None /\ Object(t).uid = srv.uid /\ Object(t).ver = srv.ver
           /\ \/ /\ Moved(t, "reread") /\ task'[t].applied = srv.uid
                 /\ task'[t].obj = None /\ task'[t].ptr = 0
                 /\ heap' = IF task[t].obj = None THEN [heap EXCEPT ![task[t].ptr] = srv']
                            ELSE heap
              \/ /\ Moved(t, "failed") /\ task'[t].applied = task[t].applied
                 /\ task'[t].obj = task[t].obj /\ heap' = heap
  <2> DEFINE val == Object(t).val
  <2>1. /\ srv \in Objects /\ srv \in Published
        /\ srv.uid \in 1..(ver + 1) /\ srv.uid # ver + 1 /\ srv.val \in SUBSET Updates
        /\ acked \subseteq srv.val
    BY <1>3, ServerObject
  <2>2. val \in SUBSET Updates
    BY <1>1 DEF Objects
  <2>3. /\ Holding(t) /\ Sending(t)
        /\ task[t].obj # None \/ (task[t].ptr # 0 /\ heap[task[t].ptr] # None)
    BY <1>1 DEF Holding, Sending, Core, Pointers
  <2>4. task[t].ptr # 0 => task[t].ptr \in Versions
    BY <1>1, TaskFields, Types DEF Versions
  <2>5. srv.val \subseteq val
    <3>1. CASE task[t].obj # None
      BY <1>1, <1>3, <3>1 DEF Object, Core, Complete
    <3>2. CASE task[t].obj = None
      <4>1. Object(t) = heap[task[t].ptr] /\ Object(t) # None /\ task[t].ptr \in Versions
        BY <2>3, <2>4, <3>2 DEF Object
      <4>2. Object(t) \in Published
        BY <4>1 DEF Published
      <4> QED
        BY <1>3, <4>2 DEF Core, Complete
    <3> QED
      BY <3>1, <3>2
  <2>6. task[t].upd \subseteq val
    BY <1>1 DEF Core, Applied
  <2>7. \/ heap' = heap
        \/ \E p \in Versions : /\ heap[p] # None /\ heap[p].val = val
                               /\ heap' = [heap EXCEPT ![p] = srv']
    BY <1>3, <2>3, <2>4 DEF Object
  <2>8. /\ \A s \in Tasks : s # t => task'[s] = task[s]
        /\ ~Unsent(t)' /\ task'[t].kind = task[t].kind /\ task'[t].upd = task[t].upd
        /\ task'[t].stage \in {"reread", "failed"} /\ task'[t].obj \in {task[t].obj, None}
        /\ task'[t].applied \in {srv.uid, task[t].applied}
    BY <1>3 DEF Moved, Unsent
  <2> HIDE DEF val
  <2>9. \A s \in Tasks : AfterPut(s, srv.uid, val)
    <3>1. \A s \in Tasks : s # t => AfterPut(s, srv.uid, val)
      BY <1>3, <2>1, <2>2, <2>5, <2>8, AfterPutSame
    <3>2. task[t].applied <= ver /\ task[t].applied \in Nat /\ ver \in Nat
      BY <1>1, TaskFields, Types DEF Core, Given
    <3>3. task'[t].applied <= ver + 1
      BY <2>1, <2>8, <3>2
    <3>4. AfterPut(t, srv.uid, val)
      BY <1>1, <2>6, <2>8, <3>3 DEF AfterPut
    <3> QED
      BY <3>1, <3>4
  <2>10. copies => /\ val \cap refused = {}
                   /\ \A s \in Tasks : Unsent(s)' => task[s].upd \cap val = {}
    <3> SUFFICES ASSUME copies
                 PROVE  /\ val \cap refused = {}
                        /\ \A s \in Tasks : Unsent(s)' => task[s].upd \cap val = {}
      OBVIOUS
    <3>1. val = task[t].obj.val
      BY <2>3 DEF val, Object, Core, Separate, SendsCopy
    <3>2. /\ task[t].obj.val \cap refused = {}
          /\ \A s \in Tasks : Unsent(s) /\ s # t => task[s].upd \cap task[t].obj.val = {}
      BY <2>3 DEF Core, Separate, CopyClean
    <3>3. \A s \in Tasks : Unsent(s)' => s # t /\ Unsent(s)
      BY <2>8 DEF Unsent, Live
    <3> QED
      BY <3>1, <3>2, <3>3
  <2>11. Put(srv.uid, val) /\ acked' \subseteq val
    BY <1>1, <1>3, <2>1, <2>5 DEF val
  <2>12. Core'
    BY <1>1, <1>3, <2>1, <2>2, <2>7, <2>9, <2>10, <2>11, PutKeepsCore
  <2>13. /\ srv' \in Objects \cup {None} /\ ver' \in 0..MaxVer
         /\ watch' \in Seq([type : {"put", "delete"}, obj : Objects])
    BY <2>1, <2>2, <2>11, PutTypes
  <2>14. heap' \in [Versions -> Objects \cup {None}]
    BY <2>7, <2>13 DEF TypeOK
  <2>15. TypeOK'
    BY <1>1, <1>2, <1>3, <2>13, <2>14 DEF TypeOK, Moved
  <2> QED
    BY <2>12, <2>15
<1>4. CASE /\ Moved(t, "failed") /\ heap' = heap
           /\ task'[t].obj = task[t].obj /\ task'[t].applied = task[t].applied
           /\ refused' = refused \cup task[t].upd
           /\ UNCHANGED <<srv, ver, watch>>
  <2>1. Unsent(t) /\ task[t].upd \subseteq Updates
    BY <1>1, TaskFields DEF Unsent
  <2>2. Core'
    BY <1>1, <1>4, <2>1, RefuseKeepsCore
  <2>3. TypeOK'
    BY <1>1, <1>2, <1>4, <2>1 DEF TypeOK, Moved
  <2> QED
    BY <2>2, <2>3
<1> QED
  BY <1>3, <1>4, UpdateForm DEF Core

-----------------------------------------------------------------------------
(* Events *)

\* An object with this uid will be the server's.
CurrentNext(uid) == srv' # None /\ srv'.uid = uid

\* What a step does to the events in flight, the event handler's step excepted: what they
\* tell of an object stays true or will be corrected.
EventsKept ==
  /\ EventOrder'
  /\ \A uid \in 0..MaxVer : Current(uid) \/ DeletePending => CurrentNext(uid) \/ DeletePending'
  /\ PutPending => PutPending'
  /\ srv = None /\ srv' # None => PutPending'

\* The objects in the cache remain the objects they are.
SameUids == \A v \in Versions : heap[v] # None => heap'[v].uid = heap[v].uid

\* The pointers of the cache and of the notifications.
LEMMA Followed ==
  ASSUME TypeOK, Pointers
  PROVE  /\ \A i \in DOMAIN handlerq :
              /\ handlerq[i].ptr \in Versions /\ handlerq[i].type \in {"put", "delete"}
              /\ handlerq[i].type = "put" => heap[handlerq[i].ptr] # None
         /\ store # 0 => store \in Versions /\ heap[store] # None
<1>1. store \in 0..MaxVer /\ MaxVer \in Nat
  BY Types DEF TypeOK
<1>2. store # 0 => store \in Versions
  BY <1>1 DEF Versions
<1> QED
  BY <1>2, Types DEF Pointers

\* A step that leaves the events alone.
LEMMA EventsUnmoved ==
  ASSUME TypeOK, Core, EventOrder, UNCHANGED <<srv, watch, store, handlerq>>, SameUids
  PROVE  EventsKept
<1>1. /\ \A uid : CurrentNext(uid) = Current(uid)
      /\ DeleteWatched' = DeleteWatched /\ DeletePending' = DeletePending
      /\ PutPending' = PutPending
  BY DEF Current, CurrentNext, DeleteWatched, DeletePending, PutPending
<1>2. /\ \A i \in DOMAIN handlerq : handlerq[i].type = "put" =>
           heap'[handlerq[i].ptr].uid = heap[handlerq[i].ptr].uid
      /\ store # 0 => heap'[store].uid = heap[store].uid
  BY Followed DEF Core, SameUids
<1>3. EventOrder'
  BY <1>1, <1>2 DEF EventOrder, Current, CurrentNext
<1> QED
  BY <1>1, <1>3 DEF EventsKept

\* A write of the API server, of a new object or of the one there is.
LEMMA EventsAfterPut ==
  ASSUME TypeOK, Core, EventOrder,
         NEW uid \in 1..(ver + 1), NEW val \in SUBSET Updates, Put(uid, val),
         srv # None => uid = srv.uid,
         UNCHANGED <<store, handlerq>>, SameUids
  PROVE  EventsKept
<1> DEFINE n == Len(watch) + 1
<1>1. /\ srv' # None /\ srv'.uid = uid
      /\ Len(watch) \in Nat /\ DOMAIN watch = 1..Len(watch) /\ DOMAIN watch' = 1..n
      /\ \A i \in DOMAIN watch : watch'[i] = watch[i]
      /\ watch'[n] = [type |-> "put", obj |-> srv']
  BY PutStep
<1>2. /\ n \in DOMAIN watch' /\ watch'[n].type = "put" /\ watch'[n].obj.uid = uid
      /\ \A i \in DOMAIN watch : i \in DOMAIN watch' /\ i < n
      /\ \A i \in DOMAIN watch' : i \in DOMAIN watch \/ i = n
  BY <1>1
<1>3. (\A id : Current(id) => CurrentNext(id)) /\ CurrentNext(uid)
  BY <1>1 DEF Current, CurrentNext
<1>4. DeleteWatched => DeleteWatched'
  BY <1>1, <1>2 DEF DeleteWatched
<1>5. PutPending'
  BY <1>2 DEF PutPending
<1>6. /\ \A i \in DOMAIN handlerq : handlerq[i].type = "put" =>
           heap'[handlerq[i].ptr].uid = heap[handlerq[i].ptr].uid
      /\ store # 0 => heap'[store].uid = heap[store].uid
  BY Followed DEF Core, SameUids
<1>7. \A i \in DOMAIN watch' : watch'[i].type = "put" =>
        \/ CurrentNext(watch'[i].obj.uid)
        \/ \E j \in DOMAIN watch' : j > i /\ watch'[j].type = "delete"
  <2> SUFFICES ASSUME NEW i \in DOMAIN watch, watch[i].type = "put"
               PROVE  \/ CurrentNext(watch[i].obj.uid)
                      \/ \E j \in DOMAIN watch' : j > i /\ watch'[j].type = "delete"
    BY <1>1, <1>2, <1>3
  <2>1. \/ Current(watch[i].obj.uid)
        \/ \E j \in DOMAIN watch : j > i /\ watch[j].type = "delete"
    BY DEF EventOrder
  <2> QED
    BY <1>1, <1>2, <1>3, <2>1
<1>8. \A i \in DOMAIN handlerq : handlerq[i].type = "put" =>
        \/ CurrentNext(heap'[handlerq[i].ptr].uid)
        \/ \E j \in DOMAIN handlerq : j > i /\ handlerq[j].type = "delete"
        \/ DeleteWatched'
  BY <1>3, <1>4, <1>6 DEF EventOrder
<1>9. \A i \in DOMAIN watch' : watch'[i].type = "delete" =>
        \E j \in DOMAIN watch' : j > i /\ watch'[j].type = "put"
  BY <1>2
<1>10. \A i \in DOMAIN handlerq : handlerq[i].type = "delete" =>
         \E j \in DOMAIN watch' : watch'[j].type = "put"
  BY <1>2
<1>11. store # 0 => CurrentNext(heap'[store].uid) \/ DeleteWatched'
  BY <1>3, <1>4, <1>6 DEF EventOrder
<1>12. EventOrder'
  BY <1>7, <1>8, <1>9, <1>10, <1>11 DEF EventOrder, Current, CurrentNext
<1>13. \A id \in 0..MaxVer : Current(id) \/ DeletePending => CurrentNext(id) \/ DeletePending'
  BY <1>3, <1>4 DEF DeletePending
<1> QED
  BY <1>5, <1>12, <1>13 DEF EventsKept

\* A deletion of the API server.
LEMMA EventsAfterRemove ==
  ASSUME TypeOK, Core, EventOrder, srv # None, Remove,
         UNCHANGED <<store, heap, handlerq>>
  PROVE  EventsKept
<1> DEFINE n == Len(watch) + 1
<1>1. /\ srv' = None
      /\ Len(watch) \in Nat /\ DOMAIN watch = 1..Len(watch) /\ DOMAIN watch' = 1..n
      /\ \A i \in DOMAIN watch : watch'[i] = watch[i]
      /\ watch'[n] = [type |-> "delete", obj |-> srv]
  BY RemoveStep
<1>2. /\ n \in DOMAIN watch' /\ watch'[n].type = "delete"
      /\ \A i \in DOMAIN watch : i \in DOMAIN watch' /\ i < n
      /\ \A i \in DOMAIN watch' : i \in DOMAIN watch \/ i = n
  BY <1>1
<1>3. DeleteWatched' /\ DeletePending'
  BY <1>2 DEF DeleteWatched, DeletePending
<1>4. \A i \in DOMAIN watch' : watch'[i].type = "put" =>
        \E j \in DOMAIN watch' : j > i /\ watch'[j].type = "delete"
  BY <1>2
<1>5. EventOrder'
  BY <1>1, <1>3, <1>4 DEF EventOrder
<1>6. PutPending => PutPending'
  BY <1>1, <1>2 DEF PutPending
<1> QED
  BY <1>1, <1>3, <1>5, <1>6 DEF EventsKept

\* The informer: an event becomes the last notification.
LEMMA EventsDelivered ==
  ASSUME TypeOK, Core, EventOrder, Deliver
  PROVE  EventsKept /\ SameUids
<1> DEFINE n == Len(handlerq) + 1
<1>1. /\ Len(watch) \in Nat \ {0} /\ DOMAIN watch = 1..Len(watch)
      /\ watch[1] \in Event
      /\ \A v \in Versions : heap'[v] =
           IF watch[1].type = "put" /\ v = watch[1].obj.ver THEN watch[1].obj
           ELSE heap[v]
      /\ store' = IF watch[1].type = "put" THEN watch[1].obj.ver ELSE 0
      /\ DOMAIN watch' = 1..(Len(watch) - 1)
      /\ \A i \in DOMAIN watch' : watch'[i] = watch[i + 1]
  BY DeliverStep
<1>2. /\ Len(handlerq) \in Nat /\ DOMAIN handlerq = 1..Len(handlerq)
      /\ DOMAIN handlerq' = 1..n
      /\ \A i \in DOMAIN handlerq : handlerq'[i] = handlerq[i]
      /\ handlerq'[n].type = watch[1].type /\ handlerq'[n].ptr = watch[1].obj.ver
  BY DeliverStep
<1>3. srv' = srv /\ \A uid : CurrentNext(uid) = Current(uid)
  BY DEF Deliver, Current, CurrentNext
<1>4. /\ 1 \in DOMAIN watch /\ watch[1].type \in {"put", "delete"}
      /\ watch[1].obj \in Objects /\ watch[1].obj.ver \in Versions
      /\ watch[1].type = "put" => heap[watch[1].obj.ver] = None
  BY <1>1 DEF Event, Objects, Core, Given
<1>5. /\ \A i \in DOMAIN watch' : i \in Nat /\ i + 1 \in DOMAIN watch /\ i + 1 # 1
      /\ \A i \in DOMAIN watch : i \in Nat /\ (i = 1 \/ (i - 1 \in DOMAIN watch' /\ i - 1 + 1 = i))
  BY <1>1
<1>6. /\ n \in DOMAIN handlerq'
      /\ \A i \in DOMAIN handlerq : i \in DOMAIN handlerq' /\ i < n
      /\ \A i \in DOMAIN handlerq' : i \in DOMAIN handlerq \/ i = n
  BY <1>2
<1> HIDE DEF n
<1>7. \A type \in {"put", "delete"} : \A i \in DOMAIN watch : watch[i].type = type =>
        \/ i = 1 /\ handlerq'[n].type = type
        \/ i - 1 \in DOMAIN watch' /\ watch'[i - 1].type = type
  BY <1>1, <1>2, <1>5
<1>8. /\ DeleteWatched => DeleteWatched' \/ handlerq'[n].type = "delete"
      /\ DeletePending => DeletePending'
      /\ PutPending => PutPending'
  BY <1>2, <1>6, <1>7 DEF DeleteWatched, DeletePending, PutPending
<1>9. SameUids /\ \A v \in Versions : heap[v] # None => heap'[v] = heap[v]
  BY <1>1, <1>4 DEF SameUids
<1>10. \A i \in DOMAIN handlerq : handlerq[i].type = "put" =>
         heap'[handlerq[i].ptr] = heap[handlerq[i].ptr]
  BY <1>9, Followed DEF Core
<1>11. \A i \in DOMAIN watch' : watch'[i].type = "put" =>
         \/ CurrentNext(watch'[i].obj.uid)
         \/ \E j \in DOMAIN watch' : j > i /\ watch'[j].type = "delete"
  <2> SUFFICES ASSUME NEW i \in DOMAIN watch', watch'[i].type = "put",
                      ~Current(watch[i + 1].obj.uid)
               PROVE  \E j \in DOMAIN watch' : j > i /\ watch'[j].type = "delete"
    BY <1>1, <1>3
  <2>1. i + 1 \in DOMAIN watch /\ watch[i + 1].type = "put" /\ i \in Nat
    BY <1>1, <1>5
  <2>2. PICK j \in DOMAIN watch : j > i + 1 /\ watch[j].type = "delete"
    BY <2>1 DEF EventOrder
  <2>3. j \in Nat /\ j - 1 \in DOMAIN watch' /\ j - 1 > i /\ j - 1 + 1 = j
    BY <1>5, <2>1, <2>2
  <2> QED
    BY <1>1, <2>2, <2>3
<1>12. watch[1].type = "put" => Current(watch[1].obj.uid) \/ DeleteWatched'
  <2> SUFFICES ASSUME watch[1].type = "put", ~Current(watch[1].obj.uid) PROVE DeleteWatched'
    OBVIOUS
  <2>1. PICK j \in DOMAIN watch : j > 1 /\ watch[j].type = "delete"
    BY <1>4 DEF EventOrder
  <2>2. j - 1 \in DOMAIN watch' /\ watch'[j - 1].type = "delete"
    BY <1>1, <1>5, <2>1
  <2> QED
    BY <2>2 DEF DeleteWatched
<1>13. watch[1].type = "put" => heap'[watch[1].obj.ver] = watch[1].obj
  BY <1>1, <1>4
<1>14. \A i \in DOMAIN handlerq' : handlerq'[i].type = "put" =>
         \/ CurrentNext(heap'[handlerq'[i].ptr].uid)
         \/ \E j \in DOMAIN handlerq' : j > i /\ handlerq'[j].type = "delete"
         \/ DeleteWatched'
  <2> SUFFICES ASSUME NEW i \in DOMAIN handlerq', handlerq'[i].type = "put",
                      ~CurrentNext(heap'[handlerq'[i].ptr].uid), ~DeleteWatched'
               PROVE  \E j \in DOMAIN handlerq' : j > i /\ handlerq'[j].type = "delete"
    OBVIOUS
  <2>1. i # n
    BY <1>2, <1>3, <1>12, <1>13
  <2>2. i \in DOMAIN handlerq /\ handlerq'[i] = handlerq[i] /\ i < n
    BY <1>2, <1>6, <2>1
  <2>3. ~Current(heap[handlerq[i].ptr].uid)
    BY <1>3, <1>10, <2>2
  <2>4. \/ \E j \in DOMAIN handlerq : j > i /\ handlerq[j].type = "delete"
        \/ DeleteWatched
    BY <2>2, <2>3 DEF EventOrder
  <2> QED
    BY <1>2, <1>6, <1>8, <2>2, <2>4
<1>15. srv # None => \A i \in DOMAIN watch' : watch'[i].type = "delete" =>
         \E j \in DOMAIN watch' : j > i /\ watch'[j].type = "put"
  <2> SUFFICES ASSUME srv # None, NEW i \in DOMAIN watch', watch'[i].type = "delete"
               PROVE  \E j \in DOMAIN watch' : j > i /\ watch'[j].type = "put"
    OBVIOUS
  <2>1. i + 1 \in DOMAIN watch /\ watch[i + 1].type = "delete" /\ i \in Nat
    BY <1>1, <1>5
  <2>2. PICK j \in DOMAIN watch : j > i + 1 /\ watch[j].type = "put"
    BY <2>1 DEF EventOrder
  <2>3. j \in Nat /\ j - 1 \in DOMAIN watch' /\ j - 1 > i /\ j - 1 + 1 = j
    BY <1>5, <2>1, <2>2
  <2> QED
    BY <1>1, <2>2, <2>3
<1>16. srv # None => \A i \in DOMAIN handlerq' : handlerq'[i].type = "delete" =>
         \/ \E j \in DOMAIN handlerq' : j > i /\ handlerq'[j].type = "put"
         \/ \E j \in DOMAIN watch' : watch'[j].type = "put"
  <2> SUFFICES ASSUME srv # None, NEW i \in DOMAIN handlerq', handlerq'[i].type = "delete"
               PROVE  \/ \E j \in DOMAIN handlerq' : j > i /\ handlerq'[j].type = "put"
                      \/ \E j \in DOMAIN watch' : watch'[j].type = "put"
    OBVIOUS
  <2>1. CASE i = n
    <3>1. watch[1].type = "delete"
      BY <1>2, <2>1
    <3>2. PICK j \in DOMAIN watch : j > 1 /\ watch[j].type = "put"
      BY <1>4, <3>1 DEF EventOrder
    <3>3. j - 1 \in DOMAIN watch' /\ watch'[j - 1].type = "put"
      BY <1>1, <1>5, <3>2
    <3> QED
      BY <3>3
  <2>2. CASE i # n
    <3>1. i \in DOMAIN handlerq /\ handlerq'[i] = handlerq[i] /\ i < n
      BY <1>2, <1>6, <2>2
    <3>2. \/ \E j \in DOMAIN handlerq : j > i /\ handlerq[j].type = "put"
          \/ \E j \in DOMAIN watch : watch[j].type = "put"
      BY <3>1 DEF EventOrder
    <3> QED
      BY <1>2, <1>6, <1>7, <3>1, <3>2
  <2> QED
    BY <2>1, <2>2
<1>17. store' # 0 => CurrentNext(heap'[store'].uid) \/ DeleteWatched'
  BY <1>1, <1>3, <1>12, <1>13
<1>18. EventOrder'
  BY <1>3, <1>11, <1>14, <1>15, <1>16, <1>17 DEF EventOrder, Current, CurrentNext
<1>19. \A uid \in 0..MaxVer : Current(uid) \/ DeletePending => CurrentNext(uid) \/ DeletePending'
  BY <1>3, <1>8
<1> QED
  BY <1>3, <1>8, <1>9, <1>18, <1>19 DEF EventsKept

\* The event handler: what the notification it handles says is true or will be corrected.
LEMMA EventsHandled ==
  ASSUME TypeOK, Core, EventOrder, Handle
  PROVE  /\ EventOrder' /\ UNCHANGED <<srv, watch, store, heap>>
         /\ handlerq[1].type \in {"put", "delete"}
         /\ handlerq[1].type = "put" =>
              /\ DeletePending => DeletePending'
              /\ Current(heap[handlerq[1].ptr].uid) \/ DeletePending'
              /\ handlerq[1].ptr \in Versions /\ heap[handlerq[1].ptr] # None
         /\ handlerq[1].type = "delete" =>
              /\ PutPending => PutPending'
              /\ srv # None => PutPending'
<1>1. /\ UNCHANGED <<srv, watch, store, heap>>
      /\ \A uid : CurrentNext(uid) = Current(uid)
  BY DEF Handle, srvVars, Current, CurrentNext
<1>2. /\ Len(handlerq) \in Nat \ {0} /\ DOMAIN handlerq = 1..Len(handlerq)
      /\ DOMAIN handlerq' = 1..(Len(handlerq) - 1)
      /\ \A i \in DOMAIN handlerq' : handlerq'[i] = handlerq[i + 1]
  BY HandleStep
<1>3. /\ 1 \in DOMAIN handlerq
      /\ \A i \in DOMAIN handlerq' : i \in Nat /\ i + 1 \in DOMAIN handlerq
      /\ \A i \in DOMAIN handlerq : i \in Nat /\ (i = 1 \/ (i - 1 \in DOMAIN handlerq' /\ i - 1 + 1 = i))
  BY <1>2
<1>4. \A i \in DOMAIN handlerq : i # 1 => i - 1 \in DOMAIN handlerq' /\ handlerq'[i - 1] = handlerq[i]
  BY <1>2, <1>3
<1>5. \A i \in DOMAIN handlerq' : handlerq'[i].type = "put" =>
         \/ CurrentNext(heap'[handlerq'[i].ptr].uid)
         \/ \E j \in DOMAIN handlerq' : j > i /\ handlerq'[j].type = "delete"
         \/ DeleteWatched'
  <2> SUFFICES ASSUME NEW i \in DOMAIN handlerq', handlerq'[i].type = "put",
                      ~Current(heap[handlerq[i + 1].ptr].uid), ~DeleteWatched
               PROVE  \E j \in DOMAIN handlerq' : j > i /\ handlerq'[j].type = "delete"
    BY <1>1, <1>2 DEF DeleteWatched
  <2>1. i + 1 \in DOMAIN handlerq /\ handlerq[i + 1].type = "put" /\ i \in Nat
    BY <1>2, <1>3
  <2>2. PICK j \in DOMAIN handlerq : j > i + 1 /\ handlerq[j].type = "delete"
    BY <2>1 DEF EventOrder
  <2>3. j \in Nat /\ j - 1 > i /\ j # 1
    BY <1>3, <2>1, <2>2
  <2> QED
    BY <1>4, <2>2, <2>3
<1>6. srv # None => \A i \in DOMAIN handlerq' : handlerq'[i].type = "delete" =>
         \/ \E j \in DOMAIN handlerq' : j > i /\ handlerq'[j].type = "put"
         \/ \E j \in DOMAIN watch : watch[j].type = "put"
  <2> SUFFICES ASSUME srv # None, NEW i \in DOMAIN handlerq', handlerq'[i].type = "delete",
                      ~\E j \in DOMAIN watch : watch[j].type = "put"
               PROVE  \E j \in DOMAIN handlerq' : j > i /\ handlerq'[j].type = "put"
    OBVIOUS
  <2>1. i + 1 \in DOMAIN handlerq /\ handlerq[i + 1].type = "delete" /\ i \in Nat
    BY <1>2, <1>3
  <2>2. PICK j \in DOMAIN handlerq : j > i + 1 /\ handlerq[j].type = "put"
    BY <2>1 DEF EventOrder
  <2>3. j \in Nat /\ j - 1 > i /\ j # 1
    BY <1>3, <2>1, <2>2
  <2> QED
    BY <1>4, <2>2, <2>3
<1>7. EventOrder'
  <2>1. /\ \A i \in DOMAIN watch' : watch'[i].type = "put" =>
             \/ CurrentNext(watch'[i].obj.uid)
             \/ \E j \in DOMAIN watch' : j > i /\ watch'[j].type = "delete"
        /\ srv' # None => \A i \in DOMAIN watch' : watch'[i].type = "delete" =>
             \E j \in DOMAIN watch' : j > i /\ watch'[j].type = "put"
        /\ store' # 0 => CurrentNext(heap'[store'].uid) \/ DeleteWatched'
    BY <1>1 DEF EventOrder, DeleteWatched
  <2> QED
    BY <1>1, <1>5, <1>6, <2>1 DEF EventOrder, Current, CurrentNext
<1>8. handlerq[1].type = "put" =>
        /\ DeletePending => DeletePending'
        /\ Current(heap[handlerq[1].ptr].uid) \/ DeletePending'
  <2> SUFFICES ASSUME handlerq[1].type = "put"
               PROVE  /\ DeletePending => DeletePending'
                      /\ Current(heap[handlerq[1].ptr].uid) \/ DeletePending'
    OBVIOUS
  <2>1. DeletePending => DeletePending'
    BY <1>1, <1>4 DEF DeletePending, DeleteWatched
  <2>2. Current(heap[handlerq[1].ptr].uid) \/ DeletePending
    BY <1>3 DEF EventOrder, DeletePending
  <2> QED
    BY <2>1, <2>2
<1>9. handlerq[1].type = "delete" =>
        /\ PutPending => PutPending'
        /\ srv # None => PutPending'
  <2> SUFFICES ASSUME handlerq[1].type = "delete"
               PROVE  /\ PutPending => PutPending'
                      /\ srv # None => PutPending'
    OBVIOUS
  <2>1. PutPending => PutPending'
    BY <1>1, <1>4 DEF PutPending
  <2>2. srv # None => PutPending
    BY <1>3 DEF EventOrder, PutPending
  <2> QED
    BY <2>1, <2>2
<1> QED
  BY <1>1, <1>3, <1>7, <1>8, <1>9, Followed DEF Core

-----------------------------------------------------------------------------
(* The row and its tasks *)

\* What is known of the tasks' stages, of the events and of the row.
Truth ==
  /\ Paths /\ Changing /\ EventOrder
  /\ alone => TaskTruth /\ RowTruth

\* A task that a step of others leaves where it is.
Stays(s) ==
  \/ task'[s] = task[s]
  \/ /\ Live(s) /\ task'[s] # Idle
     /\ task'[s].kind = task[s].kind /\ task'[s].stage = task[s].stage
     /\ task'[s].row = task[s].row /\ task'[s].obj = task[s].obj
     /\ task'[s].ptr = task[s].ptr

\* A step of the informer or of another client.
LEMMA OutsideKeepsTruth ==
  ASSUME TypeOK, Core, Truth, EventsKept, SameUids, row' = row,
         \A s \in Tasks : Stays(s), alone' => alone,
         srv = None /\ srv' # None /\ alone' =>
           \A s \in Tasks : Live(s) => task[s].kind # "delete"
  PROVE  Truth'
<1>1. \A s \in Tasks :
        /\ Live(s)' = Live(s)
        /\ Live(s) => /\ task'[s].kind = task[s].kind /\ task'[s].stage = task[s].stage
                      /\ task'[s].row = task[s].row /\ task'[s].obj = task[s].obj
                      /\ task'[s].ptr = task[s].ptr
  BY DEF Stays, Live
<1>2. Paths'
  BY <1>1 DEF Truth, Paths
<1>3. Changing'
  BY <1>1 DEF Truth, Changing, WillWrite
<1>4. ASSUME alone' PROVE TaskTruth' /\ RowTruth'
  <2>1. TaskTruth /\ RowTruth
    BY <1>4 DEF Truth
  <2>2. /\ \A uid \in 0..MaxVer : Current(uid) \/ DeletePending => CurrentNext(uid) \/ DeletePending'
        /\ PutPending => PutPending'
        /\ srv = None /\ srv' # None => PutPending'
    BY DEF EventsKept
  <2>3. ASSUME NEW t \in Tasks, Live(t), task[t].stage \in {"write", "syncWrite"},
               Current(Object(t).uid) \/ DeletePending
        PROVE  Current(Object(t).uid)' \/ DeletePending'
    <3>1. Holding(t) /\ Object(t) \in Objects
      BY <2>3, HeldObject DEF Holding, Core
    <3>2. Object(t).uid \in 0..MaxVer
      BY <3>1, Types DEF Objects, Versions
    <3>3. Object(t)'.uid = Object(t).uid
      <4>1. task[t].obj # None \/ (task[t].ptr # 0 /\ heap[task[t].ptr] # None)
        BY <2>3, <3>1 DEF Core, Pointers
      <4>2. task[t].ptr # 0 => task[t].ptr \in Versions
        BY <2>3, TaskFields, Types DEF Versions
      <4>3. task'[t].obj = task[t].obj /\ task'[t].ptr = task[t].ptr
        BY <1>1, <2>3
      <4> QED
        BY <4>1, <4>2, <4>3 DEF Object, SameUids
    <3> QED
      BY <2>2, <2>3, <3>2, <3>3 DEF Current, CurrentNext
  <2>4. TaskTruth'
    <3>1. \A s, t \in Tasks : Live(s)' /\ Live(t)' => s = t
      BY <1>1, <2>1 DEF TaskTruth
    <3>2. ASSUME NEW t \in Tasks, Live(t)'
          PROVE  /\ task'[t].kind = "delete" /\ task'[t].stage = "complete" => srv' = None
                 /\ row' # None /\ row'.id = task'[t].row /\ task'[t].stage # "init" =>
                      row'.status \notin Failures
                 /\ row' # None /\ row'.id = task'[t].row
                      /\ task'[t].stage \in {"write", "syncWrite"} =>
                      Current(Object(t).uid)' \/ DeletePending'
      <4>1. /\ Live(t) /\ task'[t].kind = task[t].kind /\ task'[t].stage = task[t].stage
            /\ task'[t].row = task[t].row
        BY <1>1, <3>2
      <4>2. task[t].kind = "delete" /\ task[t].stage = "complete" => srv' = None
        BY <1>4, <2>1, <4>1 DEF TaskTruth
      <4>3. row # None /\ row.id = task[t].row /\ task[t].stage # "init" =>
              row.status \notin Failures
        BY <2>1, <4>1 DEF TaskTruth
      <4>4. row # None /\ row.id = task[t].row /\ task[t].stage \in {"write", "syncWrite"} =>
              Current(Object(t).uid)' \/ DeletePending'
        BY <2>1, <2>3, <4>1 DEF TaskTruth
      <4> QED
        BY <4>1, <4>2, <4>3, <4>4
    <3> QED
      BY <3>1, <3>2 DEF TaskTruth
  <2>5. RowTruth'
    <3>1. srv' # None /\ row' = None => PutPending'
      BY <2>1, <2>2 DEF RowTruth
    <3>2. row # None => row.uid \in 0..MaxVer
      BY Types DEF Rows
    <3>3. row' # None /\ row'.status = "active" => Current(row.uid)' \/ DeletePending'
      BY <2>1, <2>2, <3>2 DEF RowTruth, Current, CurrentNext
    <3> QED
      BY <3>1, <3>3 DEF RowTruth
  <2> QED
    BY <2>4, <2>5
<1> QED
  BY <1>2, <1>3, <1>4 DEF Truth, EventsKept

\* The event handler's step.
LEMMA HandleKeepsTruth ==
  ASSUME TypeOK, Core, Truth, Handle
  PROVE  Truth'
<1>1. /\ EventOrder' /\ UNCHANGED <<srv, watch, store, heap>>
      /\ handlerq[1].type \in {"put", "delete"}
      /\ handlerq[1].type = "put" =>
           /\ DeletePending => DeletePending'
           /\ Current(heap[handlerq[1].ptr].uid) \/ DeletePending'
      /\ handlerq[1].type = "delete" =>
           /\ PutPending => PutPending'
           /\ srv # None => PutPending'
  BY EventsHandled DEF Truth
<1>2. /\ handlerq[1].type = "put" =>
           /\ row' # None
           /\ row # None /\ row' # row => row'.id = row.id
           /\ row = None => \A t \in Tasks : Live(t) => task[t].row # row'.id
           /\ row' # row =>
                row'.status = "active" /\ row'.uid = heap[handlerq[1].ptr].uid
      /\ handlerq[1].type = "delete" =>
           row' = IF row # None /\ row.status \notin Failures THEN None ELSE row
  BY HandleRow DEF Core
<1>3. UNCHANGED <<task, alone>>
  BY DEF Handle, ghosts
<1>4. Paths'
  BY <1>3 DEF Truth, Paths, Live
<1>5. Changing'
  <2>1. row' = row \/ row' = None \/ row'.status = "active"
    BY <1>1, <1>2
  <2>2. "active" \notin Transitions
    BY DEF Transitions
  <2> QED
    BY <1>3, <2>1, <2>2 DEF Truth, Changing, WillWrite, Live
<1>6. ASSUME alone' PROVE TaskTruth' /\ RowTruth'
  <2>1. TaskTruth /\ RowTruth
    BY <1>3, <1>6 DEF Truth
  <2>2. \A uid : Current(uid)' = Current(uid)
    BY <1>1 DEF Current
  <2>3. \A t \in Tasks : Live(t)' = Live(t) /\ Object(t)' = Object(t)
    BY <1>1, <1>3 DEF Live, Object
  <2>4. "active" \notin Failures
    BY DEF Failures
  <2>5. ASSUME NEW t \in Tasks, Live(t), row' # None, row'.id = task[t].row
        PROVE  row # None /\ row.id = task[t].row /\ (row' = row \/ row'.status = "active")
    BY <1>1, <1>2, <2>5
  <2>6. TaskTruth'
    <3>1. ASSUME NEW t \in Tasks, Live(t), row' # None, row'.id = task[t].row,
                 task[t].stage # "init"
          PROVE  row'.status \notin Failures
      BY <2>1, <2>4, <2>5, <3>1 DEF TaskTruth
    <3>2. ASSUME NEW t \in Tasks, Live(t), row' # None, row'.id = task[t].row,
                 task[t].stage \in {"write", "syncWrite"}
          PROVE  Current(Object(t).uid) \/ DeletePending'
      <4>1. row # None /\ row.id = task[t].row /\ task[t].stage # "init"
        BY <2>5, <3>2
      <4>2. Current(Object(t).uid) \/ DeletePending
        BY <2>1, <3>2, <4>1 DEF TaskTruth
      <4>3. row.status \notin Failures
        BY <2>1, <3>2, <4>1 DEF TaskTruth
      <4>4. handlerq[1].type = "put"
        BY <1>1, <1>2, <3>2, <4>1, <4>3
      <4> QED
        BY <1>1, <4>2, <4>4
    <3> QED
      BY <1>1, <1>3, <2>1, <2>2, <2>3, <3>1, <3>2 DEF TaskTruth
  <2>7. RowTruth'
    <3>1. CASE handlerq[1].type = "put"
      <4>1. row' # None
        BY <1>2, <3>1
      <4>2. row'.status = "active" => Current(row'.uid) \/ DeletePending'
        <5>1. CASE row' = row
          BY <1>1, <2>1, <3>1, <4>1, <5>1 DEF RowTruth
        <5>2. CASE row' # row
          BY <1>1, <1>2, <3>1, <5>2
        <5> QED
          BY <5>1, <5>2
      <4> QED
        BY <1>1, <4>1, <4>2 DEF RowTruth, Current
    <3>2. CASE handlerq[1].type = "delete"
      <4>1. row' = IF row # None /\ row.status \notin Failures THEN None ELSE row
        BY <1>2, <3>2
      <4>2. row' # None => row'.status \in Failures
        BY <4>1
      <4> QED
        BY <1>1, <2>4, <3>2, <4>2 DEF RowTruth
    <3> QED
      BY <1>1, <3>1, <3>2
  <2> QED
    BY <2>6, <2>7
<1> QED
  BY <1>1, <1>4, <1>5, <1>6 DEF Truth

\* A request that is accepted.
LEMMA RequestKeepsTruth ==
  ASSUME TypeOK, Core, Truth, NEW t \in Tasks,
         PostCreate(t) \/ PostDelete(t) \/ \E u \in Updates : PostUpdate(t, u)
  PROVE  Truth'
<1>1. /\ task[t] = Idle /\ \A s \in Tasks : s # t => task'[s] = task[s]
      /\ task'[t] # Idle /\ task'[t].stage = "init" /\ row' # None
      /\ \/ row' = row
         \/ row = None /\ row'.status = "init"
      /\ alone' = (alone /\ LiveTasks = {})
      /\ UNCHANGED <<srv, ver, watch, store, heap, handlerq>>
  BY RequestKeepsCore
<1>2. EventOrder' /\ DeletePending' = DeletePending /\ \A uid : Current(uid)' = Current(uid)
  <2>1. EventOrder'
    BY <1>1 DEF Truth, EventOrder, Current, DeleteWatched
  <2> QED
    BY <1>1, <2>1 DEF DeletePending, DeleteWatched, Current
<1>3. Paths'
  BY <1>1 DEF Truth, Paths, Live
<1>4. Changing'
  <2>1. "init" \notin Transitions
    BY DEF Transitions
  <2> QED
    BY <1>1, <2>1 DEF Truth, Changing, WillWrite, Live
<1>5. ASSUME alone' PROVE TaskTruth' /\ RowTruth'
  <2>1. RowTruth /\ \A s \in Tasks : s # t => task'[s] = Idle
    BY <1>1, <1>5 DEF Truth, LiveTasks, Live
  <2>2. TaskTruth'
    BY <1>1, <2>1 DEF TaskTruth, Live
  <2>3. RowTruth'
    BY <1>1, <1>2, <2>1 DEF RowTruth, Current
  <2> QED
    BY <2>2, <2>3
<1> QED
  BY <1>2, <1>3, <1>4, <1>5 DEF Truth

\* What a stage of a task must do to keep what is known of the row: a row in a transition
\* keeps a task that will write it, a row is removed only when the object is gone, and what
\* is written is true or will be corrected.
LEMMA StageKeepsTruth ==
  ASSUME TypeOK, Core, Truth, EventsKept, NEW t \in Tasks, Live(t), alone' = alone,
         \A s \in Tasks : s # t => task'[s] = task[s],
         \/ task'[t] = Idle
         \/ /\ Moved(t, task'[t].stage)
            /\ task[t].kind = "delete" =>
                 task'[t].stage \in {"init", "call", "complete", "failed"}
            /\ task'[t].stage \in {"reread", "syncInit", "syncRead"} => task'[t].obj = None,
         row' # None => row # None /\ row'.id = row.id,
         row' # None /\ row'.status \in Transitions =>
           \/ WillWrite(t)' /\ row.id = task[t].row
           \/ /\ row.status \in Transitions
              /\ row.id = task[t].row /\ WillWrite(t) => WillWrite(t)',
         TaskTruth /\ row # None /\ row' = None => srv' = None,
         TaskTruth /\ task'[t] # Idle =>
           /\ task'[t].kind = "delete" /\ task'[t].stage = "complete" => srv' = None
           /\ row' # None /\ row'.id = task[t].row /\ task'[t].stage # "init" =>
                row'.status \notin Failures
           /\ row' # None /\ row'.id = task[t].row
                /\ task'[t].stage \in {"write", "syncWrite"} =>
                Current(Object(t).uid)' \/ DeletePending',
         TaskTruth /\ RowTruth /\ row' # None /\ row'.status = "active" =>
           CurrentNext(row'.uid) \/ DeletePending'
  PROVE  Truth'
<1>1. Paths'
  BY DEF Truth, Paths, Live, Moved
<1>2. Changing'
  <2> SUFFICES ASSUME row' # None, row'.status \in Transitions
               PROVE  \E s \in Tasks : WillWrite(s)' /\ task'[s].row = row'.id
    BY DEF Changing
  <2>1. row # None /\ row'.id = row.id
    OBVIOUS
  <2>2. \A s \in Tasks : s # t /\ WillWrite(s) => WillWrite(s)' /\ task'[s].row = task[s].row
    BY DEF WillWrite, Live
  <2>3. WillWrite(t)' => task'[t].row = task[t].row
    BY DEF WillWrite, Live, Moved
  <2>4. CASE WillWrite(t)' /\ row.id = task[t].row
    BY <2>1, <2>3, <2>4
  <2>5. CASE /\ row.status \in Transitions
             /\ row.id = task[t].row /\ WillWrite(t) => WillWrite(t)'
    <3>1. PICK s \in Tasks : WillWrite(s) /\ task[s].row = row.id
      BY <2>1, <2>5 DEF Truth, Changing
    <3> QED
      BY <2>1, <2>2, <2>3, <2>5, <3>1
  <2> QED
    BY <2>4, <2>5
<1>3. ASSUME alone' PROVE TaskTruth' /\ RowTruth'
  <2>1. TaskTruth /\ RowTruth
    BY <1>3 DEF Truth
  <2>2. \A s \in Tasks : s # t => task'[s] = Idle
    BY <2>1 DEF TaskTruth, Live
  <2>3. task'[t] # Idle => task'[t].row = task[t].row
    BY DEF Moved
  <2>4. TaskTruth'
    BY <2>1, <2>2, <2>3 DEF TaskTruth, Live
  <2>5. srv' # None /\ row' = None => PutPending'
    BY <2>1 DEF RowTruth, EventsKept
  <2>6. RowTruth'
    BY <2>1, <2>5 DEF RowTruth, Current, CurrentNext
  <2> QED
    BY <2>4, <2>6
<1> QED
  BY <1>1, <1>2, <1>3 DEF Truth, EventsKept

\* A stage that leaves the row as it is.
LEMMA SameRowKeepsTruth ==
  ASSUME TypeOK, Core, Truth, EventsKept, NEW t \in Tasks, Live(t), alone' = alone,
         \A s \in Tasks : s # t => task'[s] = task[s],
         row' = row, task[t].stage # "init",
         \/ task'[t] = Idle /\ ~WillWrite(t)
         \/ /\ Moved(t, task'[t].stage) /\ task'[t].stage # "init"
            /\ task[t].kind = "delete" => task'[t].stage \in {"call", "complete", "failed"}
            /\ task'[t].stage \in {"reread", "syncInit", "syncRead"} => task'[t].obj = None
            /\ task'[t].stage = "syncInit" => ~WillWrite(t)
            /\ task'[t].stage = "complete" => task[t].kind = "delete" /\ srv' = None
            /\ task'[t].stage \in {"write", "syncWrite"} =>
                 Current(Object(t).uid)' \/ DeletePending'
  PROVE  Truth'
<1>1. \/ task'[t] = Idle
      \/ /\ Moved(t, task'[t].stage)
         /\ task[t].kind = "delete" =>
              task'[t].stage \in {"init", "call", "complete", "failed"}
         /\ task'[t].stage \in {"reread", "syncInit", "syncRead"} => task'[t].obj = None
  OBVIOUS
<1>2. row' # None /\ row'.status \in Transitions =>
           \/ WillWrite(t)' /\ row.id = task[t].row
           \/ /\ row.status \in Transitions
              /\ row.id = task[t].row /\ WillWrite(t) => WillWrite(t)'
  BY DEF WillWrite, Live, Moved
<1>3. TaskTruth /\ task'[t] # Idle =>
           /\ task'[t].kind = "delete" /\ task'[t].stage = "complete" => srv' = None
           /\ row' # None /\ row'.id = task[t].row /\ task'[t].stage # "init" =>
                row'.status \notin Failures
           /\ row' # None /\ row'.id = task[t].row
                /\ task'[t].stage \in {"write", "syncWrite"} =>
                Current(Object(t).uid)' \/ DeletePending'
  BY DEF TaskTruth
<1>4. TaskTruth /\ RowTruth /\ row' # None /\ row'.status = "active" =>
           CurrentNext(row'.uid) \/ DeletePending'
  BY Types DEF RowTruth, EventsKept, Rows
<1> QED
  BY <1>1, <1>2, <1>3, <1>4, StageKeepsTruth

\* The calls and the look into the cache before them.
LEMMA CallsKeepTruth ==
  ASSUME TypeOK, Core, Truth, NEW t \in Tasks,
         CallFails(t) \/ ReadForUpdate(t) \/ UpdateV2(t) \/ CreateRemoteObject(t)
           \/ DeleteRemoteObject(t)
  PROVE  Truth'
<1>0. EventOrder
  BY DEF Truth
<1>1. CASE CallFails(t)
  <2>1. /\ Live(t) /\ task[t].stage = "call" /\ Moved(t, "failed")
        /\ UNCHANGED <<srv, ver, watch, store, heap, handlerq, row, alone>>
    BY <1>1, CallFailsForm
  <2>2. EventsKept
    BY <1>0, <2>1, EventsUnmoved DEF SameUids
  <2> QED
    BY <2>1, <2>2, SameRowKeepsTruth DEF Moved
<1>2. CASE ReadForUpdate(t)
  <2>1. /\ Live(t) /\ task[t].kind = "update" /\ task[t].stage = "read"
        /\ UNCHANGED <<srv, ver, watch, store, handlerq, row, alone>>
        /\ \/ store # 0 /\ NewRemoteObjectForUpdate(t, store)
           \/ heap' = heap
    BY <1>2, ReadForUpdateForm
  <2>2. PICK st \in {"call", "failed"} : Moved(t, st)
    BY <1>2, ReadForUpdateKeepsCore
  <2>3. SameUids
    <3>1. CASE heap' = heap
      BY <3>1 DEF SameUids
    <3>2. CASE heap' # heap
      <4>1. store \in Versions /\ heap[store] \in Objects
        BY <2>1, <3>2, Followed, Types DEF Core
      <4>2. heap' = [heap EXCEPT ![store].val = @ \cup task[t].upd]
        BY <2>1, <3>2 DEF NewRemoteObjectForUpdate
      <4>3. heap'[store].uid = heap[store].uid
        BY <4>1, <4>2 DEF TypeOK, Objects
      <4> QED
        BY <4>1, <4>2, <4>3 DEF SameUids, TypeOK
    <3> QED
      BY <3>1, <3>2
  <2>4. EventsKept
    BY <1>0, <2>1, <2>3, EventsUnmoved
  <2> QED
    BY <2>1, <2>2, <2>4, SameRowKeepsTruth DEF Moved
<1>3. CASE UpdateV2(t)
  <2>1. /\ Live(t) /\ task[t].kind = "update" /\ task[t].stage = "call"
        /\ Object(t) \in Objects
        /\ UNCHANGED <<store, handlerq, row, alone>>
    BY <1>3, UpdateForm DEF Core
  <2>2. CASE /\ Put(srv.uid, Object(t).val)
             /\ srv # None /\ Object(t).uid = srv.uid
             /\ \/ /\ Moved(t, "reread") /\ task'[t].obj = None
                   /\ heap' = IF task[t].obj = None THEN [heap EXCEPT ![task[t].ptr] = srv']
                              ELSE heap
                \/ Moved(t, "failed") /\ heap' = heap
    <3>1. srv.uid \in 1..(ver + 1) /\ Object(t).val \in SUBSET Updates
      BY <2>1, <2>2, ServerObject DEF Objects
    <3>2. srv'.uid = srv.uid
      BY <2>2, <3>1, PutStep
    <3>3. SameUids
      <4>1. CASE heap' = heap
        BY <4>1 DEF SameUids
      <4>2. CASE task[t].obj = None /\ heap' = [heap EXCEPT ![task[t].ptr] = srv']
        BY <2>2, <3>2, <4>2 DEF SameUids, Object, TypeOK
      <4> QED
        BY <2>2, <4>1, <4>2
    <3>4. EventsKept
      BY <1>0, <2>1, <2>2, <3>1, <3>3, EventsAfterPut
    <3> QED
      BY <2>1, <2>2, <3>4, SameRowKeepsTruth DEF Moved
  <2>3. CASE Moved(t, "failed") /\ UNCHANGED <<srv, watch, heap>>
    <3>1. EventsKept
      BY <1>0, <2>1, <2>3, EventsUnmoved DEF SameUids
    <3> QED
      BY <2>1, <2>3, <3>1, SameRowKeepsTruth DEF Moved
  <2> QED
    BY <1>3, <2>2, <2>3, UpdateForm DEF Core
<1>4. CASE CreateRemoteObject(t)
  <2>1. /\ Live(t) /\ task[t].kind = "create" /\ task[t].stage = "call"
        /\ UNCHANGED <<store, heap, handlerq, row, alone>>
    BY <1>4, CreateForm
  <2>2. CASE /\ srv = None /\ Put(ver + 1, {})
             /\ \/ Moved(t, "write") /\ task'[t].obj = srv'
                \/ Moved(t, "failed")
    <3>1. ver + 1 \in 1..(ver + 1) /\ {} \in SUBSET Updates
      BY Types
    <3>2. srv' # None
      BY <2>2, <3>1, PutStep
    <3>3. EventsKept
      BY <1>0, <2>1, <2>2, <3>1, EventsAfterPut DEF SameUids
    <3>4. task'[t].stage \in {"write", "syncWrite"} => Current(Object(t).uid)'
      BY <2>2, <3>2 DEF Current, Object, Moved
    <3> QED
      BY <2>1, <2>2, <3>3, <3>4, SameRowKeepsTruth DEF Moved
  <2>3. CASE Moved(t, "failed") /\ UNCHANGED <<srv, watch>>
    <3>1. EventsKept
      BY <1>0, <2>1, <2>3, EventsUnmoved DEF SameUids
    <3> QED
      BY <2>1, <2>3, <3>1, SameRowKeepsTruth DEF Moved
  <2> QED
    BY <1>4, <2>2, <2>3, CreateForm
<1>5. CASE DeleteRemoteObject(t)
  <2>1. /\ Live(t) /\ task[t].kind = "delete" /\ task[t].stage = "call"
        /\ UNCHANGED <<store, heap, handlerq, row, alone>>
    BY <1>5, DeleteForm
  <2>2. CASE srv = None /\ Moved(t, "complete") /\ UNCHANGED <<srv, watch>>
    <3>1. EventsKept
      BY <1>0, <2>1, <2>2, EventsUnmoved DEF SameUids
    <3> QED
      BY <2>1, <2>2, <3>1, SameRowKeepsTruth DEF Moved
  <2>3. CASE srv # None /\ Remove /\ (Moved(t, "complete") \/ Moved(t, "failed"))
    <3>1. EventsKept /\ srv' = None
      BY <1>0, <2>1, <2>3, EventsAfterRemove, RemoveStep
    <3> QED
      BY <2>1, <2>3, <3>1, SameRowKeepsTruth DEF Moved
  <2> QED
    BY <1>5, <2>2, <2>3, DeleteForm
<1> QED
  BY <1>1, <1>2, <1>3, <1>4, <1>5

\* Objects that stay keep the events as they are.
LEMMA QuietEvents ==
  ASSUME TypeOK, Core, Truth, SameObjects
  PROVE  EventsKept /\ \A uid : CurrentNext(uid) = Current(uid)
BY EventsUnmoved DEF Truth, SameObjects, SameUids, Current, CurrentNext

\* The stages between the calls that leave the row alone.
LEMMA PassKeepsTruth ==
  ASSUME TypeOK, Core, Truth, NEW t \in Tasks,
         Reread(t) \/ SyncRead(t) \/ OnCreateComplete(t) \/ OnUpdateComplete(t)
  PROVE  Truth'
<1>1. SameObjects /\ row' = row /\ alone' = alone
  <2>1. SameObjects
    BY PassKeepsCore, EndKeepsCore
  <2> QED
    BY <2>1 DEF Reread, SyncRead, OnCreateComplete, OnUpdateComplete, ghosts
<1>2. EventsKept
  BY <1>1, QuietEvents
<1>3. CASE Reread(t) \/ SyncRead(t)
  <2>1. /\ Live(t) /\ task[t].stage \in {"reread", "syncRead"}
        /\ task'[t].ptr = store /\ task'[t].obj = task[t].obj
    BY <1>3, ReadForm
  <2>2. PICK st \in Stages :
          /\ Moved(t, st)
          /\ store = 0 => st \in {"failed", "syncFailed"}
          /\ store # 0 => st \in {"write", "syncWrite"}
    BY <1>3, ReadForm
  <2>3. task'[t].obj = None /\ task[t].kind # "delete"
    BY <2>1 DEF Truth, Paths
  <2>4. st \in {"write", "syncWrite"} => Current(Object(t).uid)' \/ DeletePending'
    <3> SUFFICES ASSUME st \in {"write", "syncWrite"}
                 PROVE  Current(Object(t).uid)' \/ DeletePending'
      OBVIOUS
    <3>1. store # 0 /\ Object(t)' = heap[store]
      BY <1>1, <2>1, <2>2, <2>3 DEF Object, SameObjects
    <3>2. Current(heap[store].uid) \/ DeleteWatched
      BY <3>1 DEF Truth, EventOrder
    <3> QED
      BY <1>1, <3>1, <3>2 DEF SameObjects, Current, DeletePending, DeleteWatched
  <2>5. task'[t].stage = st /\ st \in {"failed", "syncFailed", "write", "syncWrite"}
    BY <2>2 DEF Moved
  <2> QED
    BY <1>1, <1>2, <2>1, <2>2, <2>3, <2>4, <2>5, SameRowKeepsTruth DEF Moved
<1>4. CASE OnCreateComplete(t)
  <2>1. /\ Live(t) /\ task[t].kind = "create" /\ task[t].stage = "complete"
        /\ Moved(t, "syncInit") /\ task'[t].obj = None
    BY <1>4, OnCreateCompleteForm
  <2>2. ~WillWrite(t)
    BY <2>1 DEF WillWrite
  <2> QED
    BY <1>1, <1>2, <2>1, <2>2, SameRowKeepsTruth DEF Moved
<1>5. CASE OnUpdateComplete(t)
  <2>1. /\ Live(t) /\ task[t].kind = "update" /\ task[t].stage = "complete"
        /\ task'[t] = Idle /\ \A s \in Tasks : s # t => task'[s] = task[s]
    BY <1>5, EndForm DEF OnUpdateComplete, At
  <2>2. ~WillWrite(t)
    BY <2>1 DEF WillWrite
  <2> QED
    BY <1>1, <1>2, <2>1, <2>2, SameRowKeepsTruth
<1> QED
  BY <1>3, <1>4, <1>5

\* A stage that begins writes a transition into the row.
LEMMA BeginKeepsTruth ==
  ASSUME TypeOK, Core, Truth, NEW t \in Tasks, OnInit(t) \/ SyncOnInit(t)
  PROVE  Truth'
<1>1. SameObjects /\ alone' = alone
  BY OnInitKeepsCore, PassKeepsCore DEF OnInit, SyncOnInit, ghosts
<1>2. EventsKept
  BY <1>1, QuietEvents
<1>3. PICK tr \in Transitions : SetStatus(task[t].row, tr)
  BY OnInitForm, SyncOnInitForm DEF Transitions
<1>4. PICK st \in {"read", "call", "syncRead"} :
        /\ Moved(t, st) /\ Live(t) /\ task[t].stage \in {"init", "syncInit"}
        /\ task'[t].obj = task[t].obj
        /\ st = "syncRead" => task[t].stage = "syncInit"
        /\ st \in {"read", "syncRead"} => task[t].kind # "delete"
  <2>1. CASE OnInit(t)
    BY <2>1, OnInitForm
  <2>2. CASE SyncOnInit(t)
    BY <2>2, SyncOnInitForm
  <2> QED
    BY <2>1, <2>2
<1>5. /\ row = None => row' = None
      /\ row # None =>
           /\ row' # None /\ row'.id = row.id /\ row'.uid = row.uid
           /\ row'.status = IF row.id = task[t].row THEN tr ELSE row.status
      /\ tr \notin Failures /\ tr # "active"
  BY <1>3, SetStatusStep DEF Statuses, Transitions, Failures
<1>6. WillWrite(t)'
  BY <1>4 DEF WillWrite, Live, Moved
<1>7. /\ \A s \in Tasks : s # t => task'[s] = task[s]
      /\ task'[t].stage = st /\ task'[t] # Idle
      /\ st = "syncRead" => task'[t].obj = None
  BY <1>4 DEF Moved, Truth, Paths
<1>8. row' # None /\ row'.status \in Transitions =>
        \/ WillWrite(t)' /\ row.id = task[t].row
        \/ /\ row.status \in Transitions
           /\ row.id = task[t].row /\ WillWrite(t) => WillWrite(t)'
  BY <1>5, <1>6
<1>9. TaskTruth /\ RowTruth /\ row' # None /\ row'.status = "active" =>
        CurrentNext(row'.uid) \/ DeletePending'
  <2> SUFFICES ASSUME RowTruth, row' # None, row'.status = "active"
               PROVE  CurrentNext(row'.uid) \/ DeletePending'
    OBVIOUS
  <2>1. row # None /\ row.status = "active" /\ row'.uid = row.uid
    BY <1>5
  <2>2. row.uid \in 0..MaxVer
    BY <2>1, Types DEF Rows
  <2> QED
    BY <1>2, <2>1, <2>2 DEF RowTruth, EventsKept
<1>10. row' # None => row # None /\ row'.id = row.id
  BY <1>5
<1>11. row' # None /\ row'.id = task[t].row => row'.status \notin Failures
  BY <1>5
<1> QED
  BY <1>1, <1>2, <1>4, <1>5, <1>7, <1>8, <1>9, <1>10, <1>11, StageKeepsTruth

\* The object's data is written into the row.
LEMMA WriteKeepsTruth ==
  ASSUME TypeOK, Core, Truth, NEW t \in Tasks, Write(t) \/ SyncWrite(t)
  PROVE  Truth'
<1>1. SameObjects /\ alone' = alone
  BY WriteKeepsCore DEF Write, SyncWrite, ghosts
<1>2. EventsKept
  BY <1>1, QuietEvents
<1>3. /\ Live(t) /\ Holding(t) /\ task[t].stage \in {"write", "syncWrite"}
      /\ row' = IF Refuses(task[t].rowver, Object(t)) THEN row
                ELSE Updated(task[t].row, Object(t))
      /\ \A s \in Tasks : s # t => task'[s] = task[s]
  BY WriteForm DEF Core
<1>4. \/ task'[t] = Idle /\ ~Refuses(task[t].rowver, Object(t))
      \/ \E st \in {"failed", "complete", "syncFailed"} :
           /\ Moved(t, st)
           /\ st = "complete" => ~Refuses(task[t].rowver, Object(t))
  BY WriteForm DEF Core
<1>5. task[t].kind # "delete"
  BY <1>3 DEF Truth, Paths
<1>6. /\ row = None => row' = None
      /\ row # None =>
           /\ row' # None /\ row'.id = row.id
           /\ \/ row'.uid = row.uid /\ row'.status = row.status
              \/ /\ row.id = task[t].row
                 /\ row'.uid = Object(t).uid /\ row'.status = "active"
           /\ ~Refuses(task[t].rowver, Object(t)) /\ row.id = task[t].row =>
                row'.uid = Object(t).uid /\ row'.status = "active"
  BY <1>3, WriteRow DEF Core
<1>7. "active" \notin Failures \cup Transitions
  BY DEF Failures, Transitions
<1>8. \/ task'[t] = Idle
      \/ /\ Moved(t, task'[t].stage)
         /\ task[t].kind = "delete" =>
              task'[t].stage \in {"init", "call", "complete", "failed"}
         /\ task'[t].stage \in {"reread", "syncInit", "syncRead"} => task'[t].obj = None
  BY <1>4, <1>5 DEF Moved
<1>9. row' # None /\ row'.status \in Transitions =>
        /\ row.status \in Transitions
        /\ row.id = task[t].row /\ WillWrite(t) => WillWrite(t)'
  <2> SUFFICES ASSUME row' # None, row'.status \in Transitions
               PROVE  /\ row.status \in Transitions
                      /\ row.id = task[t].row /\ WillWrite(t) => WillWrite(t)'
    OBVIOUS
  <2>1. row # None /\ row.status \in Transitions
    BY <1>6, <1>7
  <2>2. row.id = task[t].row => Refuses(task[t].rowver, Object(t))
    BY <1>6, <1>7, <2>1
  <2>3. row.id = task[t].row => WillWrite(t)'
    BY <1>4, <2>2 DEF WillWrite, Live, Moved
  <2> QED
    BY <2>1, <2>3
<1>10. TaskTruth /\ task'[t] # Idle =>
         /\ task'[t].kind = "delete" /\ task'[t].stage = "complete" => srv' = None
         /\ row' # None /\ row'.id = task[t].row /\ task'[t].stage # "init" =>
              row'.status \notin Failures
         /\ row' # None /\ row'.id = task[t].row
              /\ task'[t].stage \in {"write", "syncWrite"} =>
              Current(Object(t).uid)' \/ DeletePending'
  <2> SUFFICES ASSUME TaskTruth, task'[t] # Idle
               PROVE  /\ task'[t].kind # "delete"
                      /\ row' # None /\ row'.id = task[t].row => row'.status \notin Failures
                      /\ task'[t].stage \notin {"write", "syncWrite"}
    OBVIOUS
  <2>1. task'[t].kind # "delete" /\ task'[t].stage \notin {"write", "syncWrite"}
    BY <1>4, <1>5 DEF Moved
  <2>2. row' # None /\ row'.id = task[t].row => row'.status \notin Failures
    BY <1>3, <1>6, <1>7 DEF TaskTruth
  <2> QED
    BY <2>1, <2>2
<1>11. TaskTruth /\ RowTruth /\ row' # None /\ row'.status = "active" =>
         CurrentNext(row'.uid) \/ DeletePending'
  <2> SUFFICES ASSUME TaskTruth, RowTruth, row' # None, row'.status = "active"
               PROVE  CurrentNext(row'.uid) \/ DeletePending'
    OBVIOUS
  <2>1. Current(row'.uid) \/ DeletePending
    <3>1. row # None
      BY <1>6
    <3>2. CASE row'.uid = row.uid /\ row'.status = row.status
      BY <3>1, <3>2 DEF RowTruth
    <3>3. CASE row.id = task[t].row /\ row'.uid = Object(t).uid
      BY <1>3, <3>1, <3>3 DEF TaskTruth
    <3> QED
      BY <1>6, <3>1, <3>2, <3>3
  <2>2. CurrentNext(row'.uid) = Current(row'.uid) /\ DeletePending' = DeletePending
    BY <1>1 DEF SameObjects, Current, CurrentNext, DeletePending, DeleteWatched
  <2> QED
    BY <2>1, <2>2
<1>12. row' # None => row # None /\ row'.id = row.id
  BY <1>6
<1>13. TaskTruth /\ row # None /\ row' = None => srv' = None
  BY <1>6
<1> QED
  BY <1>1, <1>2, <1>3, <1>8, <1>9, <1>10, <1>11, <1>12, <1>13, StageKeepsTruth

\* The ends of a task that write the row.
LEMMA EndKeepsTruth ==
  ASSUME TypeOK, Core, Truth, NEW t \in Tasks,
         OnDeleteComplete(t) \/ OnFailed(t) \/ OnSyncCompleteFailed(t)
  PROVE  Truth'
<1>1. SameObjects /\ alone' = alone
  BY EndKeepsCore, EndForm
<1>2. EventsKept
  BY <1>1, QuietEvents
<1>3. /\ Live(t) /\ task'[t] = Idle
      /\ \A s \in Tasks : s # t => task'[s] = task[s]
  BY EndForm
<1>4. /\ row = None => row' = None
      /\ row' # None =>
           /\ row # None /\ row'.id = row.id /\ row'.uid = row.uid
           /\ row.id = task[t].row => row'.status \in Failures
           /\ row.id # task[t].row => row'.status = row.status
      /\ row # None /\ row' = None =>
           task[t].kind = "delete" /\ task[t].stage = "complete"
  <2>1. CASE OnDeleteComplete(t)
    BY <2>1 DEF OnDeleteComplete, At
  <2>2. CASE OnFailed(t) \/ OnSyncCompleteFailed(t)
    <3>1. PICK st \in Failures : SetStatus(task[t].row, st)
      BY <1>3, <2>2, TaskFields DEF OnFailed, OnSyncCompleteFailed, Failures
    <3>2. st \in Statuses
      BY DEF Statuses
    <3> QED
      BY <3>1, <3>2, SetStatusStep
  <2> QED
    BY <2>1, <2>2
<1>5. Failures \cap Transitions = {} /\ "active" \notin Failures
  BY DEF Failures, Transitions
<1>6. row' # None /\ row'.status \in Transitions =>
        /\ row.status \in Transitions
        /\ row.id = task[t].row /\ WillWrite(t) => WillWrite(t)'
  BY <1>4, <1>5
<1>7. TaskTruth /\ row # None /\ row' = None => srv' = None
  BY <1>1, <1>3, <1>4 DEF TaskTruth, SameObjects
<1>8. TaskTruth /\ RowTruth /\ row' # None /\ row'.status = "active" =>
        CurrentNext(row'.uid) \/ DeletePending'
  <2> SUFFICES ASSUME RowTruth, row' # None, row'.status = "active"
               PROVE  CurrentNext(row'.uid) \/ DeletePending'
    OBVIOUS
  <2>1. row # None /\ row.status = "active" /\ row'.uid = row.uid
    BY <1>4, <1>5
  <2>2. row.uid \in 0..MaxVer
    BY <2>1, Types DEF Rows
  <2> QED
    BY <1>2, <2>1, <2>2 DEF RowTruth, EventsKept
<1>9. row' # None => row # None /\ row'.id = row.id
  BY <1>4
<1> QED
  BY <1>1, <1>2, <1>3, <1>6, <1>7, <1>8, <1>9, StageKeepsTruth

\* Other clients, raw requests and the informer.
LEMMA OthersKeepTruth ==
  ASSUME TypeOK, Core, Truth, Others
  PROVE  Truth'
<1>1. UNCHANGED <<store, heap, handlerq, row, task>> /\ EventOrder
  BY DEF Others, cacheVars, Truth
<1>2. \A s \in Tasks : Stays(s)
  BY <1>1 DEF Stays
<1>3. CASE srv = None
  <2>1. ver + 1 \in 1..(ver + 1) /\ {} \in SUBSET Updates /\ Put(ver + 1, {})
    BY <1>3, Types DEF Others
  <2>2. EventsKept
    BY <1>1, <1>3, <2>1, EventsAfterPut DEF SameUids
  <2>3. alone' = (alone /\ \A t \in LiveTasks : task[t].kind # "delete")
    BY <1>3 DEF Others
  <2> QED
    BY <1>1, <1>2, <2>2, <2>3, OutsideKeepsTruth DEF SameUids, LiveTasks
<1>4. CASE srv # None
  <2>1. Put(srv.uid, srv.val) /\ alone' = alone
    BY <1>4 DEF Others
  <2>2. EventsKept
    BY <1>1, <1>4, <2>1, ServerObject, EventsAfterPut DEF SameUids
  <2> QED
    BY <1>1, <1>2, <1>4, <2>1, <2>2, OutsideKeepsTruth DEF SameUids
<1> QED
  BY <1>3, <1>4

\* The informer passes an event on.
LEMMA DeliverKeepsTruth ==
  ASSUME TypeOK, Core, Truth, Deliver
  PROVE  Truth'
<1>1. UNCHANGED <<srv, row, task, alone>>
  BY DEF Deliver, ghosts
<1>2. EventsKept /\ SameUids
  BY EventsDelivered DEF Truth
<1> QED
  BY <1>1, <1>2, OutsideKeepsTruth DEF Stays

\* A client reads the object, puts its own, or deletes it.
LEMMA RawKeepsTruth ==
  ASSUME TypeOK, Core, Truth,
         (\E u \in Updates : FetchRaw(u)) \/ PutRaw \/ deleteResourceHandler
  PROVE  Truth'
<1>0. EventOrder
  BY DEF Truth
<1>1. CASE \E u \in Updates : FetchRaw(u)
  <2>1. UNCHANGED <<srv, watch, store, heap, handlerq, row, task, alone>>
    BY <1>1 DEF FetchRaw, srvVars, cacheVars, ghosts
  <2>2. EventsKept
    BY <1>0, <2>1, EventsUnmoved DEF SameUids
  <2> QED
    BY <2>1, <2>2, OutsideKeepsTruth DEF Stays, SameUids
<1>2. CASE PutRaw
  <2>1. UNCHANGED <<store, heap, handlerq, row, alone>> /\ raw # None
    BY <1>2 DEF PutRaw, cacheVars
  <2>2. \A s \in Tasks : Stays(s)
    <3> SUFFICES ASSUME NEW s \in Tasks, task'[s] # task[s] PROVE Stays(s)
      BY DEF Stays
    <3>1. Live(s) /\ task'[s] = [task[s] EXCEPT !.applied = 0]
      BY <1>2 DEF PutRaw
    <3>2. task[s] \in TaskRecs /\ 0 \in 0..MaxVer
      BY <3>1, TaskFields, Types
    <3> DEFINE r == [task[s] EXCEPT !.applied = 0]
    <3>3. /\ r \in TaskRecs /\ r.kind = task[s].kind /\ r.stage = task[s].stage
          /\ r.row = task[s].row /\ r.obj = task[s].obj /\ r.ptr = task[s].ptr
      BY <3>2 DEF TaskRecs
    <3>4. task'[s] = r
      BY <3>1
    <3> HIDE DEF r
    <3> QED
      BY <3>1, <3>3, <3>4, NullsApart DEF Stays
  <2>3. CASE srv # None /\ Put(srv.uid, raw.val)
    <3>1. raw.val \in SUBSET Updates
      BY <2>1, Types DEF Objects
    <3>2. EventsKept
      BY <1>0, <2>1, <2>3, <3>1, ServerObject, EventsAfterPut DEF SameUids
    <3> QED
      BY <2>1, <2>2, <2>3, <3>2, OutsideKeepsTruth DEF SameUids
  <2>4. CASE UNCHANGED <<srv, watch>>
    <3>1. EventsKept
      BY <1>0, <2>1, <2>4, EventsUnmoved DEF SameUids
    <3> QED
      BY <2>1, <2>2, <2>4, <3>1, OutsideKeepsTruth DEF SameUids
  <2> QED
    BY <1>2, <2>3, <2>4 DEF PutRaw, Accepted, srvVars
<1>3. CASE deleteResourceHandler
  <2>1. /\ UNCHANGED <<store, heap, handlerq, row, task, alone>>
        /\ srv # None /\ Remove
    BY <1>3 DEF deleteResourceHandler, HandlerDelete, cacheVars
  <2>2. EventsKept /\ srv' = None
    BY <1>0, <2>1, EventsAfterRemove, RemoveStep
  <2> QED
    BY <2>1, <2>2, OutsideKeepsTruth DEF Stays, SameUids
<1> QED
  BY <1>1, <1>2, <1>3

-----------------------------------------------------------------------------
(* The invariant *)

\* The invariant by its parts: types, objects, row.
LEMMA InvParts == TasksInv <=> TypeOK /\ Core /\ Truth
BY DEF TasksInv, Core, Truth

\* It holds at the start.
LEMMA InitTasks ==
  ASSUME Init
  PROVE  TasksInv
<1>1. /\ watch = <<>> /\ handlerq = <<>> /\ raw = None /\ acked = {} /\ refused = {}
      /\ alone = TRUE /\ faults = 0 /\ reqs = 0 /\ others = 0 /\ copies \in BOOLEAN
      /\ task = [t \in Tasks |-> Idle]
  BY DEF Init
<1>2. \A t \in Tasks : ~Live(t)
  BY <1>1 DEF Live
<1>3. DOMAIN watch = {} /\ DOMAIN handlerq = {}
  BY <1>1
<1>4. /\ MaxVer \in Nat \ {0} /\ 1 \in Versions /\ 0 \in 0..MaxVer /\ 1 \in 0..MaxVer
      /\ MaxFaults \in Nat /\ MaxReqs \in Nat /\ MaxOthers \in Nat
  BY TasksAssumption DEF Versions
<1> DEFINE o == [uid |-> 1, ver |-> 1, val |-> {}]
           r == [id |-> 1, status |-> "active", uid |-> 1, ver |-> 1]
<1>5. o \in Objects /\ o.uid = 1 /\ o.ver = 1 /\ o.val = {}
  BY <1>4 DEF Objects
<1>6. r \in Rows /\ r.id = 1 /\ r.status = "active" /\ r.uid = 1
  <2>1. Cardinality(Tasks) \in Nat
    BY TasksAssumption, FS_CardinalityType
  <2> QED
    BY <1>4, <2>1 DEF Rows, Statuses
<1>7. \/ /\ srv = None /\ ver = 0 /\ store = 0 /\ row = None
         /\ heap = [v \in Versions |-> None]
      \/ /\ srv = o /\ ver = 1 /\ store = 1
         /\ heap = [v \in Versions |-> IF v = 1 THEN srv ELSE None]
         /\ row = r
  BY DEF Init
<1> HIDE DEF o, r
<1>8. TypeOK
  <2>1. /\ srv \in Objects \cup {None} /\ ver \in 0..MaxVer /\ store \in 0..MaxVer
        /\ heap \in [Versions -> Objects \cup {None}] /\ row \in Rows \cup {None}
    BY <1>4, <1>5, <1>6, <1>7
  <2>2. task \in [Tasks -> TaskRecs \cup {Idle}]
    BY <1>1
  <2>3. /\ watch \in Seq([type : {"put", "delete"}, obj : Objects])
        /\ handlerq \in Seq([type : {"put", "delete"}, ptr : Versions])
    BY <1>1
  <2>4. faults \in 0..MaxFaults /\ reqs \in 0..MaxReqs /\ others \in 0..MaxOthers
    BY <1>1, <1>4
  <2> QED
    BY <1>1, <2>1, <2>2, <2>3, <2>4 DEF TypeOK
<1>9. /\ \A p \in Published : p = o /\ srv = o
      /\ \A v \in Versions : heap[v] # None => heap[v] = o /\ v = 1 /\ ver = 1
  <2>1. \A v \in Versions : heap[v] # None => heap[v] = o /\ srv = o /\ v = 1 /\ ver = 1
    BY <1>7
  <2>2. srv # None => srv = o
    BY <1>7
  <2> QED
    BY <1>1, <1>3, <2>1, <2>2 DEF Published
<1>10. srv = o => ver = 1 /\ store = 1 /\ heap[1] = o /\ row = r
  BY <1>4, <1>5, <1>7, NullsApart
<1>11. srv = o \/ (srv = None /\ store = 0 /\ row = None)
  BY <1>7
<1>12. Pointers
  BY <1>2, <1>3, <1>5, <1>10, <1>11, NullsApart DEF Pointers
<1>13. Given
  BY <1>2, <1>3, <1>5, <1>9, <1>10 DEF Given
<1>14. Complete /\ Applied /\ AcknowledgedKept
  BY <1>1, <1>2, <1>9 DEF Complete, Applied, AcknowledgedKept
<1>15. Separate
  BY <1>1, <1>2 DEF Separate, SendsCopy, RefusedOut, UnsentOut, OwnUpdates, CopyClean,
                    Unsent, Sending
<1>16. Paths /\ TaskTruth
  BY <1>2 DEF Paths, TaskTruth
<1>17. Changing
  BY <1>6, <1>10, <1>11 DEF Changing, Transitions
<1>18. EventOrder
  BY <1>3, <1>5, <1>10, <1>11, NullsApart DEF EventOrder, Current
<1>19. RowTruth
  BY <1>5, <1>6, <1>10, <1>11, NullsApart DEF RowTruth, Current
<1> QED
  BY <1>8, <1>12, <1>13, <1>14, <1>15, <1>16, <1>17, <1>18, <1>19 DEF TasksInv

\* It survives every stage of a task.
LEMMA StageKeepsInv ==
  ASSUME TasksInv, NEW t \in Tasks, Stage(t)
  PROVE  TasksInv'
<1>1. TypeOK /\ Core /\ Truth
  BY InvParts
<1>2. TypeOK' /\ Core'
  <2>1. CASE OnInit(t)
    BY <1>1, <2>1, OnInitKeepsCore
  <2>2. CASE SyncOnInit(t) \/ Reread(t) \/ SyncRead(t) \/ OnCreateComplete(t)
    BY <1>1, <2>2, PassKeepsCore
  <2>3. CASE Write(t) \/ SyncWrite(t)
    BY <1>1, <2>3, WriteKeepsCore
  <2>4. CASE OnUpdateComplete(t) \/ OnDeleteComplete(t) \/ OnFailed(t) \/ OnSyncCompleteFailed(t)
    BY <1>1, <2>4, EndKeepsCore
  <2>5. CASE CallFails(t)
    BY <1>1, <2>5, CallFailsKeepsCore
  <2>6. CASE ReadForUpdate(t)
    BY <1>1, <2>6, ReadForUpdateKeepsCore
  <2>7. CASE UpdateV2(t)
    BY <1>1, <2>7, UpdateKeepsCore
  <2>8. CASE CreateRemoteObject(t)
    BY <1>1, <2>8, CreateKeepsCore
  <2>9. CASE DeleteRemoteObject(t)
    BY <1>1, <2>9, DeleteKeepsCore
  <2> QED
    BY <2>1, <2>2, <2>3, <2>4, <2>5, <2>6, <2>7, <2>8, <2>9 DEF Stage
<1>3. Truth'
  <2>1. CASE OnInit(t) \/ SyncOnInit(t)
    BY <1>1, <2>1, BeginKeepsTruth
  <2>2. CASE Reread(t) \/ SyncRead(t) \/ OnCreateComplete(t) \/ OnUpdateComplete(t)
    BY <1>1, <2>2, PassKeepsTruth
  <2>3. CASE Write(t) \/ SyncWrite(t)
    BY <1>1, <2>3, WriteKeepsTruth
  <2>4. CASE OnDeleteComplete(t) \/ OnFailed(t) \/ OnSyncCompleteFailed(t)
    BY <1>1, <2>4, EndKeepsTruth
  <2>5. CASE CallFails(t) \/ ReadForUpdate(t) \/ UpdateV2(t) \/ CreateRemoteObject(t)
               \/ DeleteRemoteObject(t)
    BY <1>1, <2>5, CallsKeepTruth
  <2> QED
    BY <2>1, <2>2, <2>3, <2>4, <2>5 DEF Stage
<1> QED
  BY <1>2, <1>3 DEF TasksInv, Core, Truth

\* It survives every step.
LEMMA NextTasks ==
  ASSUME TasksInv, [Next]_vars
  PROVE  TasksInv'
<1>1. TypeOK /\ Core /\ Truth
  BY InvParts
<1>2. CASE Others
  <2>1. TypeOK' /\ Core' /\ Truth'
    BY <1>1, <1>2, OthersKeepCore, OthersKeepTruth
  <2> QED
    BY <2>1 DEF TasksInv, Core, Truth
<1>3. CASE Deliver
  <2>1. TypeOK' /\ Core' /\ Truth'
    BY <1>1, <1>3, DeliverTypes, DeliverKeepsCore, DeliverKeepsTruth
  <2> QED
    BY <2>1 DEF TasksInv, Core, Truth
<1>4. CASE Handle
  <2>1. TypeOK' /\ Core' /\ Truth'
    BY <1>1, <1>4, HandleTypes, HandleKeepsCore, HandleKeepsTruth
  <2> QED
    BY <2>1 DEF TasksInv, Core, Truth
<1>5. CASE \E u \in Updates : RawGet(u) \/ getResourceHandler(u)
  <2>1. PICK u \in Updates : FetchRaw(u)
    BY <1>5 DEF RawGet, getResourceHandler
  <2>2. TypeOK' /\ Core' /\ Truth'
    BY <1>1, <2>1, FetchTypes, FetchKeepsCore, RawKeepsTruth
  <2> QED
    BY <2>2 DEF TasksInv, Core, Truth
<1>6. CASE UpdateK8sObject \/ putResourceHandler
  <2>1. PutRaw
    BY <1>6 DEF UpdateK8sObject, putResourceHandler
  <2>2. TypeOK' /\ Core' /\ Truth'
    BY <1>1, <2>1, PutRawKeepsCore, RawKeepsTruth
  <2> QED
    BY <2>2 DEF TasksInv, Core, Truth
<1>7. CASE deleteResourceHandler
  <2>1. TypeOK' /\ Core' /\ Truth'
    BY <1>1, <1>7, RawDeleteKeepsCore, RawKeepsTruth
  <2> QED
    BY <2>1 DEF TasksInv, Core, Truth
<1>8. ASSUME NEW t \in Tasks,
             PostCreate(t) \/ PostDelete(t) \/ \E u \in Updates : PostUpdate(t, u)
      PROVE  TasksInv'
  <2>1. TypeOK' /\ Core' /\ Truth'
    BY <1>1, <1>8, RequestKeepsCore, RequestKeepsTruth
  <2> QED
    BY <2>1 DEF TasksInv, Core, Truth
<1>9. ASSUME NEW t \in Tasks, Stage(t) PROVE TasksInv'
  BY <1>9, StageKeepsInv
<1>10. CASE UNCHANGED vars
  <2>1. /\ UNCHANGED <<copies, srv, ver, watch, store, heap, handlerq, row, task, raw>>
        /\ UNCHANGED <<acked, refused, alone, faults, reqs, others>>
    BY <1>10 DEF vars, srvVars, cacheVars, ghosts, boundVars
  <2>2. /\ Published' = Published
        /\ \A t \in Tasks :
             /\ Live(t)' = Live(t) /\ Holding(t)' = Holding(t) /\ Object(t)' = Object(t)
             /\ Unsent(t)' = Unsent(t) /\ Sending(t)' = Sending(t)
             /\ WillWrite(t)' = WillWrite(t)
        /\ \A uid : Current(uid)' = Current(uid)
        /\ DeleteWatched' = DeleteWatched /\ DeletePending' = DeletePending
        /\ PutPending' = PutPending
    BY <2>1 DEF Published, Live, Holding, Object, Unsent, Sending, WillWrite, Current,
                DeleteWatched, DeletePending, PutPending
  <2>3. TypeOK'
    BY <1>1, <2>1 DEF TypeOK
  <2>4. (Pointers /\ Given /\ Complete /\ Applied /\ AcknowledgedKept)'
    BY <1>1, <2>1, <2>2 DEF Core, Pointers, Given, Complete, Applied, AcknowledgedKept
  <2>5. Separate'
    BY <1>1, <2>1, <2>2 DEF Core, Separate, SendsCopy, RefusedOut, UnsentOut, OwnUpdates,
                            CopyClean
  <2>6. EventOrder'
    BY <1>1, <2>1, <2>2 DEF Truth, EventOrder
  <2>7. Paths' /\ Changing' /\ (alone' => TaskTruth' /\ RowTruth')
    BY <1>1, <2>1, <2>2 DEF Truth, Paths, Changing, TaskTruth, RowTruth
  <2> QED
    BY <2>3, <2>4, <2>5, <2>6, <2>7 DEF TasksInv
<1> QED
  BY <1>2, <1>3, <1>4, <1>5, <1>6, <1>7, <1>8, <1>9, <1>10 DEF Next

-----------------------------------------------------------------------------
(* The theorems *)

\* What is known of the objects, the events, the tasks and the row holds in every state.
THEOREM TasksInvariant == Spec => []TasksInv
<1>1. Init => TasksInv
  BY InitTasks
<1>2. TasksInv /\ [Next]_vars => TasksInv'
  BY NextTasks
<1> QED
  BY <1>1, <1>2, PTL DEF Spec

\* Every variable keeps the values it is meant to have: the row a status and an id, a
\* task's record a stage of cluster_resource_task.go, a pointer an object of the cache.
THEOREM TasksTypeCorrect == Spec => []TypeOK
<1>1. TasksInv => TypeOK
  BY DEF TasksInv
<1> QED
  BY <1>1, TasksInvariant, PTL

\* The object of the API server keeps the updates of the tasks that completed, however the
\* closures of updates overlap and however late their reads of the cache are: UpdateV2 is
\* accepted at the server's version only, and the object it sends then has all that the
\* server's has.
THEOREM UpdatesAreKept == Spec => []AcknowledgedKept
<1>1. TasksInv => AcknowledgedKept
  BY DEF TasksInv
<1> QED
  BY <1>1, TasksInvariant, PTL

\* The kinds that edit a copy of the cached object never send an update whose task failed
\* before it was applied.
THEOREM RefusedNeverApplied == Spec => []RefusedStaysOut
<1>1. TasksInv => RefusedStaysOut
  <2> SUFFICES ASSUME TasksInv, copies, srv # None PROVE refused \cap srv.val = {}
    BY DEF RefusedStaysOut
  <2>1. RefusedOut
    BY DEF TasksInv, Separate
  <2>2. srv \in Published
    BY DEF Published
  <2> QED
    BY <2>1, <2>2 DEF RefusedOut
<1> QED
  BY <1>1, TasksInvariant, PTL

\* A row in a transition has a task that will write it again, and once events and tasks are
\* done an object has a row and an active row names the object there is.
THEOREM RowIsTrue == Spec => []RowTellsTruth
<1>1. TasksInv => RowTellsTruth
  <2> SUFFICES ASSUME TasksInv PROVE ChangingHasTask /\ QuietRowIsTrue
    BY DEF RowTellsTruth
  <2>1. ChangingHasTask
    BY DEF TasksInv, Changing, ChangingHasTask, WillWrite, LiveTasks
  <2>2. QuietRowIsTrue
    <3> SUFFICES ASSUME Quiet, alone
                 PROVE  /\ srv # None => row # None
                        /\ row # None /\ row.status = "active" => srv # None /\ row.uid = srv.uid
      BY DEF QuietRowIsTrue
    <3>1. RowTruth
      BY DEF TasksInv
    <3>2. DOMAIN watch = {} /\ DOMAIN handlerq = {}
      BY DEF Quiet
    <3>3. ~PutPending /\ ~DeletePending
      BY <3>2 DEF PutPending, DeletePending, DeleteWatched
    <3> QED
      BY <3>1, <3>3 DEF RowTruth, Current
  <2> QED
    BY <2>1, <2>2
<1> QED
  BY <1>1, TasksInvariant, PTL
====
