---- MODULE FederationProofs ----
(***************************************************************************)
(* What federated objects guarantee for any clusters, requests and faults, *)
(* and at the end what their roles and bindings guarantee.                 *)
(***************************************************************************)
EXTENDS Federation, FederatedRoles, Integers, SequenceTheorems, FiniteSetTheorems, TLAPS

-----------------------------------------------------------------------------
(* The inductive invariant *)

\* The steps of a job of each kind.
Reconcile == {"load", "exist", "make", "bind", "update"}
Stages ==
  [none |-> {"idle", "done"}, delete |-> {"delete"}, syncCluster |-> Reconcile,
   attachNs |-> {"just"} \cup Reconcile,
   sync |-> {"init", "list", "loop", "syncFail"} \cup Reconcile,
   attachRole |-> {"ensure", "poll", "valid", "just", "attachFail"} \cup Reconcile]

\* Row r is the row of object o in cluster k.
RowOf(r, o, k) == r \in DOMAIN rows /\ rows[r].obj = o /\ rows[r].cl = k

\* What a job has loaded is about its object and its cluster.
JobKnows(v) ==
  /\ v.pc \in Stages[v.kind]
  /\ v.todo # {} => v.kind = "sync" /\ v.pc \in {"loop"} \cup Reconcile
  /\ v.pc \in Reconcile \ {"load"} =>
       /\ v.copy.id \in DOMAIN joints
       /\ joints[v.copy.id].obj = v.obj /\ joints[v.copy.id].cl = v.cl
       /\ v.copy.res # 0 => RowOf(v.copy.res, v.obj, v.cl)
  /\ v.pc \in {"bind", "update"} => RowOf(v.res, v.obj, v.cl)

JobsKnow == \A j \in Jobs : JobKnows(job[j])

\* A joint row points at a row of its object in its cluster.
JointsKnow ==
  \A i \in DOMAIN joints :
    joints[i].res # 0 => RowOf(joints[i].res, joints[i].obj, joints[i].cl)

\* A task has a row and a template that has been; rows are deleted on request.
TasksKnow ==
  \A t \in DOMAIN tasks :
    /\ tasks[t].row \in DOMAIN rows /\ tasks[t].spec <= spec
    /\ tasks[t].type = "delete" => rows[tasks[t].row].cl \in excused

\* Nothing is attached or done for an object before it is created.
Born ==
  /\ \A j \in Jobs :
       /\ job[j].kind # "none" => fed[job[j].obj] # "absent"
       /\ job[j].kind = "attachRole" => fed["role"] # "absent"
  /\ \A i \in DOMAIN joints : fed[joints[i].obj] # "absent"

\* A job or a task that will bring the current template to the role in k.
FreshJob(j, k) ==
  /\ job[j].obj = "role"
  /\ \/ job[j].kind = "sync" /\ (job[j].pc \in {"init", "list"} \/ k \in job[j].todo)
     \/ job[j].cl = k /\ job[j].pc \in Reconcile
FreshTask(t, k) ==
  /\ tasks[t].type \in {"create", "update"} /\ tasks[t].pc \in {"init", "call"}
  /\ RowOf(tasks[t].row, "role", k) /\ tasks[t].spec = spec
Fresh(k) == (\E j \in Jobs : FreshJob(j, k)) \/ \E t \in DOMAIN tasks : FreshTask(t, k)

\* A cluster whose role is not what the template says now, or may come to be
\* so when a task creates it.
Drifts(k) ==
  /\ Exists("role") /\ Attached("role", k) # {} /\ k \notin excused /\ cluster[k] = "up"
  /\ remote["role"][k] # spec /\ (remote["role"][k] # 0 \/ Creating(k))

DriftTracked == \A k \in Clusters : Drifts(k) => Fresh(k)

\* The two halves of TransitionHasTask.
RowsServed ==
  \A r \in DOMAIN rows :
    /\ rows[r].status \in Transitional =>
         \E t \in DOMAIN tasks : tasks[t].row = r /\ tasks[t].pc # "init"
    /\ rows[r].status = "init" =>
         \/ \E t \in DOMAIN tasks : tasks[t].row = r
         \/ \E j \in Jobs : job[j].pc = "bind" /\ job[j].res = r

Syncs(v, o) == v.kind = "sync" /\ v.obj = o /\ v.pc \notin {"idle", "init", "done"}

SyncServed == \A o \in Objs : fed[o] = "syncing" => \E j \in Jobs : Syncs(job[j], o)

FedInv ==
  /\ TypeOK /\ JobsKnow /\ JointsKnow /\ TasksKnow /\ Born
  /\ AttachedOnce /\ OneRowPerName /\ RowsServed /\ SyncServed /\ DriftTracked

-----------------------------------------------------------------------------
(* Sequences *)

\* Domains of sequences.
LEMMA SeqDomain ==
  ASSUME NEW S, NEW q \in Seq(S)
  PROVE  /\ Len(q) \in Nat /\ DOMAIN q = 1..Len(q)
         /\ \A i \in DOMAIN q : q[i] \in S
  OBVIOUS

\* An element behind.
LEMMA SeqAppend ==
  ASSUME NEW S, NEW q \in Seq(S), NEW e \in S
  PROVE  /\ Append(q, e) \in Seq(S)
         /\ Len(Append(q, e)) = Len(q) + 1
         /\ DOMAIN Append(q, e) = 1..(Len(q) + 1)
         /\ \A i \in 1..Len(q) : Append(q, e)[i] = q[i]
         /\ Append(q, e)[Len(q) + 1] = e
  OBVIOUS

\* An element replaced.
LEMMA SeqExcept ==
  ASSUME NEW S, NEW q \in Seq(S), NEW i \in DOMAIN q, NEW e \in S
  PROVE  /\ [q EXCEPT ![i] = e] \in Seq(S)
         /\ Len([q EXCEPT ![i] = e]) = Len(q)
         /\ DOMAIN [q EXCEPT ![i] = e] = DOMAIN q
         /\ \A j \in DOMAIN q : [q EXCEPT ![i] = e][j] = IF j = i THEN e ELSE q[j]
  OBVIOUS

\* A function on 1..n is a sequence.
LEMMA SeqFunction ==
  ASSUME NEW S, NEW n \in Nat, NEW f \in [1..n -> S]
  PROVE  f \in Seq(S) /\ Len(f) = n
  OBVIOUS

\* An element taken out.
LEMMA SeqRemove ==
  ASSUME NEW S, NEW q \in Seq(S), NEW i \in 1..Len(q)
  PROVE  /\ RemoveAt(q, i) \in Seq(S)
         /\ Len(RemoveAt(q, i)) = Len(q) - 1
         /\ \A j \in 1..(Len(q) - 1) : RemoveAt(q, i)[j] = IF j < i THEN q[j] ELSE q[j + 1]
<1> DEFINE a == SubSeq(q, 1, i - 1)
           b == SubSeq(q, i + 1, Len(q))
<1>1. Len(q) \in Nat
  OBVIOUS
<1>2. /\ a \in Seq(S) /\ Len(a) = i - 1 /\ \A j \in 1..(i - 1) : a[j] = q[j]
  BY <1>1
<1>3. /\ b \in Seq(S) /\ Len(b) = Len(q) - i
      /\ \A j \in 1..(Len(q) - i) : b[j] = q[i + j]
  BY <1>1
<1> HIDE DEF a, b
<1>4. /\ a \o b \in Seq(S) /\ Len(a \o b) = Len(q) - 1
      /\ \A j \in 1..(Len(q) - 1) :
           (a \o b)[j] = IF j <= i - 1 THEN a[j] ELSE b[j - (i - 1)]
  <2>1. a \o b \in Seq(S) /\ Len(a \o b) = Len(a) + Len(b)
    BY <1>2, <1>3, ConcatProperties
  <2>2. \A j \in 1..(Len(a) + Len(b)) :
          (a \o b)[j] = IF j <= Len(a) THEN a[j] ELSE b[j - Len(a)]
    BY <1>2, <1>3
  <2>3. Len(a) + Len(b) = Len(q) - 1
    BY <1>1, <1>2, <1>3
  <2> QED
    BY <1>2, <2>1, <2>2, <2>3
<1>5. ASSUME NEW j \in 1..(Len(q) - 1)
      PROVE  (a \o b)[j] = IF j < i THEN q[j] ELSE q[j + 1]
  <2>1. CASE j < i
    BY <1>1, <1>2, <1>4, <2>1
  <2>2. CASE ~(j < i)
    <3>1. j - (i - 1) \in 1..(Len(q) - i) /\ i + (j - (i - 1)) = j + 1
      BY <1>1, <2>2
    <3> QED
      BY <1>1, <1>3, <1>4, <2>2, <3>1
  <2> QED
    BY <2>1, <2>2
<1> QED
  BY <1>4, <1>5 DEF RemoveAt, a, b

-----------------------------------------------------------------------------
(* Tasks, rows and joint rows *)

TaskType == [type : TaskKinds, row : 1..MaxRows, spec : 1..MaxSpec, pc : TaskStates]
RowType == [obj : Objs, cl : Clusters, ns : 0..MaxRows, status : RowStatus]
JointType == [obj : Objs, cl : Clusters, res : 0..MaxRows, live : BOOLEAN]

\* What a task is when it has moved on.
Moved(k, p) == [type |-> k.type, row |-> k.row, spec |-> k.spec, pc |-> p]

\* A task that has moved on is the same task at another place.
LEMMA MovedShape ==
  ASSUME NEW k \in TaskType, NEW p \in TaskStates
  PROVE  Moved(k, p) \in TaskType /\ Moved(k, p) = [k EXCEPT !.pc = p]
<1>1. /\ k.type \in TaskKinds /\ k.row \in 1..MaxRows /\ k.spec \in 1..MaxSpec
      /\ k = [type |-> k.type, row |-> k.row, spec |-> k.spec, pc |-> k.pc]
  BY DEF TaskType
<1>2. [k EXCEPT !.pc = p] = [type |-> k.type, row |-> k.row, spec |-> k.spec, pc |-> p]
  BY <1>1
<1> QED
  BY <1>1, <1>2 DEF TaskType, Moved

\* A task that moves leaves the others alone.
LEMMA TaskMoves ==
  ASSUME tasks \in Seq(TaskType), NEW t \in DOMAIN tasks, NEW p \in TaskStates, Step(t, p)
  PROVE  /\ tasks' \in Seq(TaskType) /\ DOMAIN tasks' = DOMAIN tasks
         /\ \A i \in DOMAIN tasks : tasks'[i] = IF i = t THEN Moved(tasks[t], p) ELSE tasks[i]
<1>1. tasks[t] \in TaskType
  BY SeqDomain
<1> DEFINE e == Moved(tasks[t], p)
<1>2. e \in TaskType /\ e = [tasks[t] EXCEPT !.pc = p]
  BY <1>1, MovedShape
<1>3. tasks' = [tasks EXCEPT ![t] = e]
  <2>1. p # "done"
    BY DEF TaskStates
  <2> HIDE DEF e
  <2> QED
    BY <1>2, <2>1 DEF Step
<1> HIDE DEF e
<1>4. tasks' \in Seq(TaskType) /\ DOMAIN tasks' = DOMAIN tasks
      /\ \A i \in DOMAIN tasks : tasks'[i] = IF i = t THEN e ELSE tasks[i]
  BY <1>2, <1>3, SeqExcept
<1> QED
  BY <1>4 DEF e

\* A task that ends leaves the others alone.
LEMMA TaskEnds ==
  ASSUME tasks \in Seq(TaskType), NEW t \in DOMAIN tasks, Step(t, "done")
  PROVE  /\ tasks' \in Seq(TaskType)
         /\ \A i \in DOMAIN tasks' : \E j \in DOMAIN tasks : j # t /\ tasks'[i] = tasks[j]
         /\ \A j \in DOMAIN tasks : j # t => \E i \in DOMAIN tasks' : tasks'[i] = tasks[j]
<1>1. tasks' = RemoveAt(tasks, t)
  BY DEF Step
<1>2. Len(tasks) \in Nat /\ DOMAIN tasks = 1..Len(tasks) /\ t \in 1..Len(tasks)
  BY SeqDomain
<1>3. /\ tasks' \in Seq(TaskType) /\ Len(tasks') = Len(tasks) - 1
      /\ \A j \in 1..(Len(tasks) - 1) :
           tasks'[j] = IF j < t THEN tasks[j] ELSE tasks[j + 1]
  BY <1>1, <1>2, SeqRemove
<1>4. DOMAIN tasks' = 1..(Len(tasks) - 1)
  BY <1>3, SeqDomain
<1>5. ASSUME NEW i \in DOMAIN tasks'
      PROVE  \E j \in DOMAIN tasks : j # t /\ tasks'[i] = tasks[j]
  <2>1. CASE i < t
    BY <1>2, <1>3, <1>4, <2>1
  <2>2. CASE ~(i < t)
    <3>1. i + 1 \in DOMAIN tasks /\ i + 1 # t
      BY <1>2, <1>4, <2>2
    <3> QED
      BY <1>3, <1>4, <2>2, <3>1
  <2> QED
    BY <2>1, <2>2
<1>6. ASSUME NEW j \in DOMAIN tasks, j # t
      PROVE  \E i \in DOMAIN tasks' : tasks'[i] = tasks[j]
  <2>1. CASE j < t
    BY <1>2, <1>3, <1>4, <2>1
  <2>2. CASE ~(j < t)
    <3>1. j - 1 \in DOMAIN tasks' /\ ~(j - 1 < t) /\ (j - 1) + 1 = j
      BY <1>2, <1>4, <1>6, <2>2
    <3> QED
      BY <1>3, <1>4, <3>1
  <2> QED
    BY <2>1, <2>2
<1> QED
  BY <1>3, <1>5, <1>6

\* A task that starts leaves the others alone.
LEMMA TaskStarts ==
  ASSUME tasks \in Seq(TaskType), NEW what \in TaskKinds, NEW r \in 1..MaxRows,
         spec \in 1..MaxSpec, StartTask(what, r)
  PROVE  /\ tasks' \in Seq(TaskType)
         /\ DOMAIN tasks' = DOMAIN tasks \cup {Len(tasks) + 1}
         /\ Len(tasks) + 1 \notin DOMAIN tasks
         /\ \A i \in DOMAIN tasks : tasks'[i] = tasks[i]
         /\ tasks'[Len(tasks) + 1] = [type |-> what, row |-> r, spec |-> spec, pc |-> "init"]
<1> DEFINE e == [type |-> what, row |-> r, spec |-> spec, pc |-> "init"]
<1>1. e \in TaskType
  BY DEF TaskType, TaskStates
<1>2. tasks' = Append(tasks, e)
  BY DEF StartTask
<1>3. Len(tasks) \in Nat /\ DOMAIN tasks = 1..Len(tasks)
  BY SeqDomain
<1> HIDE DEF e
<1>4. /\ tasks' \in Seq(TaskType) /\ DOMAIN tasks' = 1..(Len(tasks) + 1)
      /\ \A i \in 1..Len(tasks) : tasks'[i] = tasks[i]
      /\ tasks'[Len(tasks) + 1] = e
  BY <1>1, <1>2, SeqAppend
<1> QED
  BY <1>3, <1>4 DEF e

\* The status of a row of the table changes.
StatusOf(i, r, s) == IF i = r /\ rows[i].status # "gone" THEN s ELSE rows[i].status

\* Rows keep what they are about, and do not come back.
RowsKept ==
  /\ DOMAIN rows \subseteq DOMAIN rows'
  /\ \A i \in DOMAIN rows :
       /\ rows'[i].obj = rows[i].obj /\ rows'[i].cl = rows[i].cl /\ rows'[i].ns = rows[i].ns
       /\ rows[i].status = "gone" => rows'[i].status = "gone"

\* Joint rows too.
JointsKept ==
  /\ DOMAIN joints \subseteq DOMAIN joints'
  /\ \A i \in DOMAIN joints :
       /\ joints'[i].obj = joints[i].obj /\ joints'[i].cl = joints[i].cl
       /\ joints'[i].live => joints[i].live

\* A status is written.
LEMMA StatusSet ==
  ASSUME rows \in Seq(RowType), NEW r \in Nat, NEW s \in RowStatus, SetRowStatus(r, s)
  PROVE  /\ rows' \in Seq(RowType) /\ Len(rows') = Len(rows) /\ DOMAIN rows' = DOMAIN rows
         /\ RowsKept
         /\ \A i \in DOMAIN rows : rows'[i].status = StatusOf(i, r, s)
<1>1. CASE ~Live(r)
  BY <1>1 DEF SetRowStatus, Live, RowsKept, StatusOf
<1>2. CASE Live(r)
  <2>1. r \in DOMAIN rows /\ rows[r].status # "gone" /\ rows[r] \in RowType
    BY <1>2, SeqDomain DEF Live
  <2> DEFINE e == [rows[r] EXCEPT !.status = s]
  <2>2. /\ e \in RowType /\ e.obj = rows[r].obj /\ e.cl = rows[r].cl /\ e.ns = rows[r].ns
        /\ e.status = s
    BY <2>1 DEF RowType
  <2>3. rows' = [rows EXCEPT ![r] = e]
    BY <1>2 DEF SetRowStatus
  <2> HIDE DEF e
  <2>4. /\ rows' \in Seq(RowType) /\ Len(rows') = Len(rows) /\ DOMAIN rows' = DOMAIN rows
        /\ \A i \in DOMAIN rows : rows'[i] = IF i = r THEN e ELSE rows[i]
    BY <2>1, <2>2, <2>3, SeqExcept
  <2> QED
    BY <2>1, <2>2, <2>4 DEF RowsKept, StatusOf
<1> QED
  BY <1>1, <1>2

\* A row is marked as deleted.
LEMMA RowGoes ==
  ASSUME rows \in Seq(RowType), NEW r \in DOMAIN rows, Live(r),
         rows' = [rows EXCEPT ![r].status = "gone"]
  PROVE  /\ rows' \in Seq(RowType) /\ Len(rows') = Len(rows) /\ DOMAIN rows' = DOMAIN rows
         /\ RowsKept
         /\ \A i \in DOMAIN rows : rows'[i].status = StatusOf(i, r, "gone")
<1>1. SetRowStatus(r, "gone") /\ "gone" \in RowStatus
  BY DEF SetRowStatus, RowStatus
<1>2. r \in Nat
  BY SeqDomain
<1> QED
  BY <1>1, <1>2, StatusSet

\* All the rows of a cluster are.
LEMMA RowsPurged ==
  ASSUME rows \in Seq(RowType), NEW k \in Clusters, PurgeRows(k)
  PROVE  /\ rows' \in Seq(RowType) /\ Len(rows') = Len(rows) /\ DOMAIN rows' = DOMAIN rows
         /\ RowsKept
         /\ \A i \in DOMAIN rows :
              rows'[i].status = IF rows[i].cl = k THEN "gone" ELSE rows[i].status
<1>1. Len(rows) \in Nat /\ DOMAIN rows = 1..Len(rows) /\ \A i \in DOMAIN rows : rows[i] \in RowType
  BY SeqDomain
<1>2. /\ DOMAIN rows' = 1..Len(rows)
      /\ \A i \in 1..Len(rows) :
           rows'[i] = IF rows[i].cl = k THEN [rows[i] EXCEPT !.status = "gone"] ELSE rows[i]
  BY <1>1 DEF PurgeRows
<1>3. ASSUME NEW i \in 1..Len(rows)
      PROVE  /\ rows'[i] \in RowType
             /\ rows'[i].obj = rows[i].obj /\ rows'[i].cl = rows[i].cl
             /\ rows'[i].ns = rows[i].ns
             /\ rows'[i].status = IF rows[i].cl = k THEN "gone" ELSE rows[i].status
  <2>1. rows[i] \in RowType /\ "gone" \in RowStatus
    BY <1>1 DEF RowStatus
  <2> QED
    BY <1>2, <2>1 DEF RowType
<1>4. rows' \in [1..Len(rows) -> RowType]
  <2>1. rows' = [i \in 1..Len(rows) |-> rows'[i]]
    BY <1>1 DEF PurgeRows
  <2> QED
    BY <1>3, <2>1
<1>5. rows' \in Seq(RowType) /\ Len(rows') = Len(rows)
  BY <1>1, <1>4, SeqFunction
<1> QED
  BY <1>1, <1>2, <1>3, <1>5 DEF RowsKept

\* A row is inserted.
LEMMA RowInserted ==
  ASSUME rows \in Seq(RowType), Len(rows) < MaxRows, NEW o \in Objs, NEW k \in Clusters,
         NEW s \in RowStatus, o = "role" => NsRows(k) # {},
         rows' = Append(rows, NewRow(o, k, s))
  PROVE  LET n == Len(rows) + 1 IN
         /\ rows' \in Seq(RowType) /\ Len(rows') = n /\ DOMAIN rows' = DOMAIN rows \cup {n}
         /\ n \notin DOMAIN rows /\ n \in 1..MaxRows
         /\ RowsKept
         /\ \A i \in DOMAIN rows : rows'[i] = rows[i]
         /\ rows'[n].obj = o /\ rows'[n].cl = k /\ rows'[n].status = s
         /\ o = "ns" => rows'[n].ns = 0
         /\ o = "role" => rows'[n].ns \in NsRows(k)
<1> DEFINE n == Len(rows) + 1
           e == NewRow(o, k, s)
<1>1. Len(rows) \in Nat /\ DOMAIN rows = 1..Len(rows) /\ MaxRows \in Nat
  BY SeqDomain, FederationAssumption
<1>2. NsRows(k) \subseteq 1..MaxRows
  BY <1>1 DEF NsRows
<1>3. /\ e = [obj |-> o, cl |-> k, status |-> s, ns |-> e.ns]
      /\ e.ns \in 0..MaxRows
      /\ o = "ns" => e.ns = 0
      /\ o = "role" => e.ns \in NsRows(k)
  <2>1. CASE o = "ns"
    BY <1>1, <2>1 DEF NewRow
  <2>2. CASE o # "ns"
    <3>1. o = "role" /\ NsRows(k) # {}
      BY <2>2 DEF Objs
    <3> DEFINE r == CHOOSE r \in NsRows(k) : TRUE
    <3>2. r \in NsRows(k)
      BY <3>1
    <3> HIDE DEF r
    <3>3. e = [obj |-> o, cl |-> k, status |-> s, ns |-> r]
      BY <2>2 DEF NewRow, r
    <3> QED
      BY <1>1, <1>2, <3>1, <3>2, <3>3
  <2> QED
    BY <2>1, <2>2
<1> HIDE DEF e
<1>4. e \in RowType /\ e.obj = o /\ e.cl = k /\ e.status = s
  BY <1>3 DEF RowType
<1>5. /\ rows' \in Seq(RowType) /\ Len(rows') = n /\ DOMAIN rows' = 1..n
      /\ \A i \in 1..Len(rows) : rows'[i] = rows[i]
      /\ rows'[n] = e
  BY <1>4, SeqAppend DEF e
<1>6. n \notin DOMAIN rows /\ DOMAIN rows' = DOMAIN rows \cup {n} /\ n \in 1..MaxRows
  BY <1>1, <1>5
<1>7. RowsKept
  BY <1>1, <1>5, <1>6 DEF RowsKept
<1> QED
  BY <1>1, <1>3, <1>4, <1>5, <1>6, <1>7

\* The types, one by one.
LEMMA TypesSplit ==
  TypeOK <=>
    /\ fed \in [Objs -> FedStatus] /\ spec \in 1..MaxSpec
    /\ joints \in Seq(JointType)
    /\ rows \in Seq(RowType) /\ Len(rows) <= MaxRows
    /\ remote \in [Objs -> [Clusters -> 0..(MaxSpec + 1)]]
    /\ cluster \in [Clusters -> {"up", "purged", "gone"}]
    /\ job \in [Jobs -> JobType]
    /\ tasks \in Seq(TaskType)
    /\ faults \in 0..MaxFaults
    /\ excused \in SUBSET Clusters
  BY DEF TypeOK, JointType, RowType, TaskType

\* The fields of a job.
Fields(v, kind, pc, obj, cl, copy, res, todo) ==
  /\ v.kind = kind /\ v.pc = pc /\ v.obj = obj /\ v.cl = cl
  /\ v.copy = copy /\ v.res = res /\ v.todo = todo

\* A step of job j leaves the other jobs alone.
OtherJobs(j) == \A i \in Jobs : i # j => job'[i] = job[i]

\* A job is rewritten.
LEMMA JobSet ==
  ASSUME job \in [Jobs -> JobType], NEW j \in Jobs, NEW e \in JobType,
         job' = [job EXCEPT ![j] = e]
  PROVE  job' \in [Jobs -> JobType] /\ OtherJobs(j) /\ job'[j] = e
  BY DEF OtherJobs

\* A job that has nothing to do.
LEMMA IdleTyped ==
  ASSUME NEW p \in JobStates
  PROVE  /\ Idle(p) \in JobType /\ Idle(p).kind = "none" /\ Idle(p).pc = p
         /\ Idle(p).todo = {} /\ Idle(p).copy = NoCopy /\ Idle(p).res = 0
         /\ Idle(p).obj = "ns"
<1> DEFINE c == CHOOSE k \in Clusters : TRUE
<1>1. c \in Clusters
  BY FederationAssumption
<1> HIDE DEF c
<1>2. Idle(p) = [kind |-> "none", pc |-> p, obj |-> "ns", cl |-> c,
                 copy |-> NoCopy, res |-> 0, todo |-> {}]
  BY DEF Idle, c
<1>3. 0 \in 0..MaxRows /\ NoCopy \in [id : Nat, res : 0..MaxRows]
  BY FederationAssumption DEF NoCopy
<1> QED
  BY <1>1, <1>2, <1>3 DEF JobType, JobKinds, Objs

\* The next state of a job.
LEMMA JobGoes ==
  ASSUME job \in [Jobs -> JobType], NEW j \in Jobs, NEW p \in JobStates, Goto(j, p)
  PROVE  /\ job' \in [Jobs -> JobType] /\ OtherJobs(j)
         /\ Fields(job'[j], job[j].kind, p, job[j].obj, job[j].cl, job[j].copy,
                   job[j].res, job[j].todo)
<1> DEFINE e == [job[j] EXCEPT !.pc = p]
<1>1. job[j] \in JobType
  OBVIOUS
<1>2. e \in JobType /\ Fields(e, job[j].kind, p, job[j].obj, job[j].cl, job[j].copy,
                              job[j].res, job[j].todo)
  BY <1>1 DEF JobType, Fields
<1>3. job' = [job EXCEPT ![j] = e]
  BY DEF Goto
<1> HIDE DEF e
<1> QED
  BY <1>2, <1>3, JobSet

\* A job ends and forgets what it has loaded.
LEMMA JobEnds ==
  ASSUME job \in [Jobs -> JobType], NEW j \in Jobs, End(j)
  PROVE  /\ job' \in [Jobs -> JobType] /\ OtherJobs(j)
         /\ job'[j].kind = "none" /\ job'[j].pc = "done" /\ job'[j].todo = {}
         /\ job'[j].obj = "ns"
<1> DEFINE e == Idle("done")
<1>1. "done" \in JobStates
  BY DEF JobStates
<1>2. /\ e \in JobType /\ e.kind = "none" /\ e.pc = "done" /\ e.todo = {} /\ e.obj = "ns"
  BY <1>1, IdleTyped
<1>3. job' = [job EXCEPT ![j] = e]
  BY DEF End
<1> HIDE DEF e
<1> QED
  BY <1>2, <1>3, JobSet

\* A request is accepted.
LEMMA JobBegins ==
  ASSUME job \in [Jobs -> JobType], NEW j \in Jobs, NEW w \in JobKinds, NEW o \in Objs,
         NEW k \in Clusters, NEW p \in JobStates, Begin(j, w, o, k, p)
  PROVE  /\ job' \in [Jobs -> JobType] /\ OtherJobs(j) /\ job[j].pc = "idle"
         /\ job'[j].kind = w /\ job'[j].pc = p /\ job'[j].obj = o /\ job'[j].cl = k
         /\ job'[j].todo = {}
<1> DEFINE i == Idle(p)
           e == [i EXCEPT !.kind = w, !.obj = o, !.cl = k]
<1>1. i \in JobType /\ i.pc = p /\ i.todo = {}
  BY IdleTyped
<1>2. job[j].pc = "idle" /\ job' = [job EXCEPT ![j] = e]
  BY DEF Begin
<1> HIDE DEF i
<1>3. /\ e \in JobType /\ e.kind = w /\ e.pc = p /\ e.obj = o /\ e.cl = k /\ e.todo = {}
  BY <1>1 DEF JobType
<1> HIDE DEF e
<1> QED
  BY <1>2, <1>3, JobSet

\* The clusters to reach are listed.
LEMMA JobLists ==
  ASSUME job \in [Jobs -> JobType], NEW j \in Jobs, NEW t \in SUBSET Clusters, NEW p \in JobStates,
         job' = [job EXCEPT ![j].todo = t, ![j].pc = p]
  PROVE  /\ job' \in [Jobs -> JobType] /\ OtherJobs(j)
         /\ Fields(job'[j], job[j].kind, p, job[j].obj, job[j].cl,
                   job[j].copy, job[j].res, t)
<1>1. job[j] \in JobType
  OBVIOUS
<1> DEFINE e == [job[j] EXCEPT !.todo = t, !.pc = p]
<1>2. /\ e \in JobType
      /\ Fields(e, job[j].kind, p, job[j].obj, job[j].cl, job[j].copy, job[j].res, t)
  BY <1>1 DEF JobType, Fields
<1>3. \A i \in Jobs : job'[i] = IF i = j THEN e ELSE job[i]
  BY <1>1
<1>4. job' = [i \in Jobs |-> job'[i]]
  OBVIOUS
<1> HIDE DEF e
<1>5. job' \in [Jobs -> JobType]
  BY <1>2, <1>3, <1>4
<1> QED
  BY <1>2, <1>3, <1>5 DEF OtherJobs

\* The next cluster is taken.
LEMMA JobTakes ==
  ASSUME job \in [Jobs -> JobType], NEW j \in Jobs, NEW k \in Clusters, NEW p \in JobStates,
         job' = [job EXCEPT ![j].todo = @ \ {k}, ![j].cl = k, ![j].pc = p]
  PROVE  /\ job' \in [Jobs -> JobType] /\ OtherJobs(j)
         /\ Fields(job'[j], job[j].kind, p, job[j].obj, k,
                   job[j].copy, job[j].res, job[j].todo \ {k})
<1>1. job[j] \in JobType
  OBVIOUS
<1> DEFINE e == [job[j] EXCEPT !.todo = job[j].todo \ {k}, !.cl = k, !.pc = p]
<1>2. /\ e \in JobType
      /\ Fields(e, job[j].kind, p, job[j].obj, k, job[j].copy, job[j].res, job[j].todo \ {k})
  BY <1>1 DEF JobType, Fields
<1>3. \A i \in Jobs : job'[i] = IF i = j THEN e ELSE job[i]
  BY <1>1
<1>4. job' = [i \in Jobs |-> job'[i]]
  OBVIOUS
<1> HIDE DEF e
<1>5. job' \in [Jobs -> JobType]
  BY <1>2, <1>3, <1>4
<1> QED
  BY <1>2, <1>3, <1>5 DEF OtherJobs

\* A job turns to another object.
LEMMA JobTurns ==
  ASSUME job \in [Jobs -> JobType], NEW j \in Jobs, NEW o \in Objs, NEW p \in JobStates,
         job' = [job EXCEPT ![j].obj = o, ![j].pc = p]
  PROVE  /\ job' \in [Jobs -> JobType] /\ OtherJobs(j)
         /\ Fields(job'[j], job[j].kind, p, o, job[j].cl,
                   job[j].copy, job[j].res, job[j].todo)
<1>1. job[j] \in JobType
  OBVIOUS
<1> DEFINE e == [job[j] EXCEPT !.obj = o, !.pc = p]
<1>2. /\ e \in JobType
      /\ Fields(e, job[j].kind, p, o, job[j].cl, job[j].copy, job[j].res, job[j].todo)
  BY <1>1 DEF JobType, Fields
<1>3. \A i \in Jobs : job'[i] = IF i = j THEN e ELSE job[i]
  BY <1>1
<1>4. job' = [i \in Jobs |-> job'[i]]
  OBVIOUS
<1> HIDE DEF e
<1>5. job' \in [Jobs -> JobType]
  BY <1>2, <1>3, <1>4
<1> QED
  BY <1>2, <1>3, <1>5 DEF OtherJobs

\* A joint row is loaded.
LEMMA JobLoads ==
  ASSUME job \in [Jobs -> JobType], NEW j \in Jobs, NEW c \in [id : Nat, res : 0..MaxRows],
         NEW p \in JobStates,
         job' = [job EXCEPT ![j].copy = c, ![j].pc = p]
  PROVE  /\ job' \in [Jobs -> JobType] /\ OtherJobs(j)
         /\ Fields(job'[j], job[j].kind, p, job[j].obj, job[j].cl,
                   c, job[j].res, job[j].todo)
<1>1. job[j] \in JobType
  OBVIOUS
<1> DEFINE e == [job[j] EXCEPT !.copy = c, !.pc = p]
<1>2. /\ e \in JobType
      /\ Fields(e, job[j].kind, p, job[j].obj, job[j].cl, c, job[j].res, job[j].todo)
  BY <1>1 DEF JobType, Fields
<1>3. \A i \in Jobs : job'[i] = IF i = j THEN e ELSE job[i]
  BY <1>1
<1>4. job' = [i \in Jobs |-> job'[i]]
  OBVIOUS
<1> HIDE DEF e
<1>5. job' \in [Jobs -> JobType]
  BY <1>2, <1>3, <1>4
<1> QED
  BY <1>2, <1>3, <1>5 DEF OtherJobs

\* A row is found or inserted.
LEMMA JobFinds ==
  ASSUME job \in [Jobs -> JobType], NEW j \in Jobs, NEW r \in 0..MaxRows, NEW p \in JobStates,
         job' = [job EXCEPT ![j].res = r, ![j].pc = p]
  PROVE  /\ job' \in [Jobs -> JobType] /\ OtherJobs(j)
         /\ Fields(job'[j], job[j].kind, p, job[j].obj, job[j].cl,
                   job[j].copy, r, job[j].todo)
<1>1. job[j] \in JobType
  OBVIOUS
<1> DEFINE e == [job[j] EXCEPT !.res = r, !.pc = p]
<1>2. /\ e \in JobType
      /\ Fields(e, job[j].kind, p, job[j].obj, job[j].cl, job[j].copy, r, job[j].todo)
  BY <1>1 DEF JobType, Fields
<1>3. \A i \in Jobs : job'[i] = IF i = j THEN e ELSE job[i]
  BY <1>1
<1>4. job' = [i \in Jobs |-> job'[i]]
  OBVIOUS
<1> HIDE DEF e
<1>5. job' \in [Jobs -> JobType]
  BY <1>2, <1>3, <1>4
<1> QED
  BY <1>2, <1>3, <1>5 DEF OtherJobs

\* What was loaded is forgotten.
LEMMA JobForgets ==
  ASSUME job \in [Jobs -> JobType], NEW j \in Jobs, NEW c \in [id : Nat, res : 0..MaxRows],
         NEW r \in 0..MaxRows,
         NEW p \in JobStates,
         job' = [job EXCEPT ![j].copy = c, ![j].res = r, ![j].pc = p]
  PROVE  /\ job' \in [Jobs -> JobType] /\ OtherJobs(j)
         /\ Fields(job'[j], job[j].kind, p, job[j].obj, job[j].cl,
                   c, r, job[j].todo)
<1>1. job[j] \in JobType
  OBVIOUS
<1> DEFINE e == [job[j] EXCEPT !.copy = c, !.res = r, !.pc = p]
<1>2. /\ e \in JobType
      /\ Fields(e, job[j].kind, p, job[j].obj, job[j].cl, c, r, job[j].todo)
  BY <1>1 DEF JobType, Fields
<1>3. \A i \in Jobs : job'[i] = IF i = j THEN e ELSE job[i]
  BY <1>1
<1>4. job' = [i \in Jobs |-> job'[i]]
  OBVIOUS
<1> HIDE DEF e
<1>5. job' \in [Jobs -> JobType]
  BY <1>2, <1>3, <1>4
<1> QED
  BY <1>2, <1>3, <1>5 DEF OtherJobs

\* PerformSyncCluster returns to its caller.
LEMMA JobReturns ==
  ASSUME job \in [Jobs -> JobType], NEW j \in Jobs, NEW ok \in BOOLEAN, Return(j, ok)
  PROVE  /\ job' \in [Jobs -> JobType] /\ OtherJobs(j)
         /\ excused' = IF ok THEN excused ELSE excused \cup {job[j].cl}
         /\ \/ /\ job[j].kind # "sync"
               /\ job'[j].kind = "none" /\ job'[j].pc = "done" /\ job'[j].todo = {}
               /\ job'[j].obj = "ns"
            \/ /\ job[j].kind = "sync"
               /\ Fields(job'[j], "sync", "loop", job[j].obj, job[j].cl, NoCopy, 0, job[j].todo)
            \/ /\ job[j].kind = "attachRole" /\ (ok => job[j].obj # "role")
               /\ Fields(job'[j], "attachRole", IF ok THEN "poll" ELSE "attachFail",
                         job[j].obj, job[j].cl, NoCopy, 0, job[j].todo)
<1>1. excused' = IF ok THEN excused ELSE excused \cup {job[j].cl}
  BY DEF Return
<1>2. NoCopy \in [id : Nat, res : 0..MaxRows] /\ 0 \in 0..MaxRows
  BY FederationAssumption DEF NoCopy
<1>3. "loop" \in JobStates /\ "poll" \in JobStates /\ "attachFail" \in JobStates
  BY DEF JobStates
<1> DEFINE stays == /\ job[j].kind \in {"sync", "attachRole"}
                    /\ ~(job[j].kind = "attachRole" /\ ok /\ job[j].obj = "role")
<1>4. CASE ~stays
  <2>1. End(j) /\ job[j].kind # "sync"
    BY <1>4 DEF Return
  <2> QED
    BY <1>1, <2>1, JobEnds
<1>5. CASE stays /\ job[j].kind = "sync"
  <2> DEFINE p == IF job[j].kind = "sync" THEN "loop" ELSE IF ok THEN "poll" ELSE "attachFail"
  <2>1. job' = [job EXCEPT ![j].copy = NoCopy, ![j].res = 0, ![j].pc = p]
    BY <1>5 DEF Return
  <2>2. p \in JobStates /\ p = "loop"
    BY <1>3, <1>5
  <2> HIDE DEF p
  <2>3. /\ job' \in [Jobs -> JobType] /\ OtherJobs(j)
        /\ Fields(job'[j], job[j].kind, p, job[j].obj, job[j].cl, NoCopy, 0, job[j].todo)
    BY <1>2, <2>1, <2>2, JobForgets
  <2> QED
    BY <1>1, <1>5, <2>2, <2>3
<1>6. CASE stays /\ job[j].kind # "sync"
  <2> DEFINE p == IF ok THEN "poll" ELSE "attachFail"
  <2>1. job' = [job EXCEPT ![j].copy = NoCopy, ![j].res = 0, ![j].pc = p]
    BY <1>6 DEF Return
  <2>2. p \in JobStates /\ job[j].kind = "attachRole" /\ (ok => job[j].obj # "role")
    BY <1>3, <1>6
  <2> HIDE DEF p
  <2>3. /\ job' \in [Jobs -> JobType] /\ OtherJobs(j)
        /\ Fields(job'[j], job[j].kind, p, job[j].obj, job[j].cl, NoCopy, 0, job[j].todo)
    BY <1>2, <2>1, <2>2, JobForgets
  <2> QED
    BY <1>1, <2>2, <2>3 DEF p
<1> QED
  BY <1>4, <1>5, <1>6

-----------------------------------------------------------------------------
(* Joint rows *)

\* A joint row is inserted.
LEMMA JointAdded ==
  ASSUME joints \in Seq(JointType), NEW o \in Objs, NEW k \in Clusters,
         joints' = Append(joints, [obj |-> o, cl |-> k, res |-> 0, live |-> TRUE])
  PROVE  LET n == Len(joints) + 1 IN
         /\ joints' \in Seq(JointType) /\ DOMAIN joints' = DOMAIN joints \cup {n}
         /\ n \notin DOMAIN joints /\ JointsKept
         /\ \A i \in DOMAIN joints : joints'[i] = joints[i]
         /\ joints'[n].obj = o /\ joints'[n].cl = k /\ joints'[n].res = 0 /\ joints'[n].live
<1> DEFINE n == Len(joints) + 1
           e == [obj |-> o, cl |-> k, res |-> 0, live |-> TRUE]
<1>1. e \in JointType /\ e.obj = o /\ e.cl = k /\ e.res = 0 /\ e.live
  BY FederationAssumption DEF JointType
<1>2. Len(joints) \in Nat /\ DOMAIN joints = 1..Len(joints)
  BY SeqDomain
<1>3. joints' = Append(joints, e)
  OBVIOUS
<1> HIDE DEF e
<1>4. /\ joints' \in Seq(JointType) /\ DOMAIN joints' = 1..n
      /\ \A i \in 1..Len(joints) : joints'[i] = joints[i]
      /\ joints'[n] = e
  BY <1>1, <1>3, SeqAppend
<1>5. JointsKept
  BY <1>2, <1>4 DEF JointsKept
<1> QED
  BY <1>1, <1>2, <1>4, <1>5

\* One joint row is rewritten: unbound and detached, or bound.
LEMMA JointWritten ==
  ASSUME joints \in Seq(JointType), NEW i \in DOMAIN joints, NEW r \in 0..MaxRows,
         NEW b \in BOOLEAN, b => joints[i].live,
         \/ joints' = [joints EXCEPT ![i].live = b, ![i].res = r]
         \/ joints' = [joints EXCEPT ![i].res = r] /\ b = joints[i].live
  PROVE  /\ joints' \in Seq(JointType) /\ DOMAIN joints' = DOMAIN joints /\ JointsKept
         /\ \A m \in DOMAIN joints : m # i => joints'[m] = joints[m]
         /\ joints'[i].res = r /\ joints'[i].live = b
<1> DEFINE e == [joints[i] EXCEPT !.live = b, !.res = r]
<1>1. joints[i] \in JointType
  BY SeqDomain
<1>2. /\ e \in JointType /\ e.obj = joints[i].obj /\ e.cl = joints[i].cl
      /\ e.res = r /\ e.live = b
  BY <1>1 DEF JointType
<1>3. joints' = [joints EXCEPT ![i] = e]
  <2>1. CASE joints' = [joints EXCEPT ![i].live = b, ![i].res = r]
    BY <2>1
  <2>2. CASE joints' = [joints EXCEPT ![i].res = r] /\ b = joints[i].live
    <3>1. [joints[i] EXCEPT !.res = r] = e
      BY <1>1, <2>2 DEF JointType
    <3> QED
      BY <2>2, <3>1
  <2> QED
    BY <2>1, <2>2
<1> HIDE DEF e
<1>4. /\ joints' \in Seq(JointType) /\ DOMAIN joints' = DOMAIN joints
      /\ \A m \in DOMAIN joints : joints'[m] = IF m = i THEN e ELSE joints[m]
  BY <1>2, <1>3, SeqExcept
<1>5. JointsKept
  BY <1>2, <1>4 DEF JointsKept
<1> QED
  BY <1>2, <1>4, <1>5

\* The joint rows of a cluster are removed.
LEMMA JointsPurged ==
  ASSUME joints \in Seq(JointType), NEW k \in Clusters, PurgeJoints(k)
  PROVE  /\ joints' \in Seq(JointType) /\ DOMAIN joints' = DOMAIN joints /\ JointsKept
         /\ \A i \in DOMAIN joints : joints[i].cl # k => joints'[i] = joints[i]
         /\ \A i \in DOMAIN joints : joints[i].cl = k => joints'[i].res = 0 /\ ~joints'[i].live
<1>1. /\ Len(joints) \in Nat /\ DOMAIN joints = 1..Len(joints)
      /\ \A i \in DOMAIN joints : joints[i] \in JointType
  BY SeqDomain
<1>2. /\ DOMAIN joints' = 1..Len(joints)
      /\ \A i \in 1..Len(joints) :
           joints'[i] = IF joints[i].cl = k
                        THEN [joints[i] EXCEPT !.live = FALSE, !.res = 0] ELSE joints[i]
  BY <1>1 DEF PurgeJoints
<1>3. ASSUME NEW i \in 1..Len(joints)
      PROVE  /\ joints'[i] \in JointType
             /\ joints'[i].obj = joints[i].obj /\ joints'[i].cl = joints[i].cl
             /\ joints[i].cl = k => joints'[i].res = 0 /\ ~joints'[i].live
  <2>1. joints[i] \in JointType /\ 0 \in 0..MaxRows
    BY <1>1, FederationAssumption
  <2> QED
    BY <1>2, <2>1 DEF JointType
<1>4. joints' \in [1..Len(joints) -> JointType]
  <2>1. joints' = [i \in 1..Len(joints) |-> joints'[i]]
    BY <1>1 DEF PurgeJoints
  <2> QED
    BY <1>3, <2>1
<1>5. joints' \in Seq(JointType)
  BY <1>1, <1>4, SeqFunction
<1>6. JointsKept
  BY <1>1, <1>2, <1>3 DEF JointsKept
<1> QED
  BY <1>1, <1>2, <1>3, <1>5, <1>6

\* SetResource binds the joint row that is loaded, unless it is gone.
LEMMA JointBound ==
  ASSUME joints \in Seq(JointType), NEW j \in Jobs, job[j].copy.id \in DOMAIN joints,
         job[j].res \in 0..MaxRows, SetResource(j)
  PROVE  LET n == job[j].copy.id IN
         /\ joints' \in Seq(JointType) /\ DOMAIN joints' = DOMAIN joints /\ JointsKept
         /\ \A m \in DOMAIN joints : m # n => joints'[m] = joints[m]
         /\ joints'[n].live = joints[n].live
         /\ joints'[n].res = joints[n].res \/ joints'[n].res = job[j].res
<1> DEFINE n == job[j].copy.id
<1>1. joints[n] \in JointType
  BY SeqDomain
<1>2. joints[n].live \in BOOLEAN
  BY <1>1 DEF JointType
<1>3. CASE joints[n].live
  <2>1. joints' = [joints EXCEPT ![n].res = job[j].res]
    BY <1>3 DEF SetResource
  <2> HIDE DEF n
  <2>2. n \in DOMAIN joints
    BY DEF n
  <2>3. /\ joints' \in Seq(JointType) /\ DOMAIN joints' = DOMAIN joints /\ JointsKept
        /\ \A m \in DOMAIN joints : m # n => joints'[m] = joints[m]
        /\ joints'[n].res = job[j].res /\ joints'[n].live = joints[n].live
    BY <1>2, <2>1, <2>2, JointWritten
  <2> QED
    BY <2>3 DEF n
<1>4. CASE ~joints[n].live
  BY <1>4 DEF SetResource, JointsKept
<1> QED
  BY <1>3, <1>4

-----------------------------------------------------------------------------
(* Types *)

\* The status of a federated object.
LEMMA FedSet ==
  ASSUME fed \in [Objs -> FedStatus], NEW o \in Objs, NEW s \in FedStatus, SetFedStatus(o, s)
  PROVE  /\ fed' \in [Objs -> FedStatus]
         /\ \A p \in Objs : fed'[p] = IF p = o /\ Exists(o) THEN s ELSE fed[p]
  BY DEF SetFedStatus, Exists

\* A failure is counted within its bound.
LEMMA FaultCounted ==
  ASSUME faults \in 0..MaxFaults, Fault
  PROVE  faults' \in 0..MaxFaults
  BY FederationAssumption DEF Fault

\* The stages and kinds of jobs are such.
LEMMA StagesTyped ==
  /\ \A p \in {"idle", "done", "init", "list", "loop", "syncFail", "ensure", "poll", "valid",
               "just", "load", "exist", "make", "bind", "update", "attachFail", "delete"} :
       p \in JobStates
  /\ \A w \in {"none", "attachNs", "attachRole", "sync", "syncCluster", "delete"} :
       w \in JobKinds
  /\ \A s \in {"absent", "active", "syncing", "sync_fail", "update_fail", "deleted"} :
       s \in FedStatus
  /\ "ns" \in Objs /\ "role" \in Objs
  BY DEF JobStates, JobKinds, FedStatus, Objs

\* The requests.
LEMMA RequestTyped ==
  ASSUME TypeOK, NEW j \in Jobs, Request(j)
  PROVE  TypeOK'
<1>1. /\ job \in [Jobs -> JobType] /\ spec \in 1..MaxSpec /\ MaxSpec \in Nat
      /\ job[j].cl \in Clusters
  BY TypesSplit, FederationAssumption DEF JobType
<1>2. CASE UpdateFed(j)
  <2>1. Begin(j, "sync", "role", job[j].cl, "init")
    BY <1>2 DEF UpdateFed
  <2>2. job' \in [Jobs -> JobType]
    BY <1>1, <2>1, StagesTyped, JobBegins
  <2>3. spec' \in 1..MaxSpec
    BY <1>1, <1>2 DEF UpdateFed
  <2> QED
    BY <1>2, <2>2, <2>3 DEF UpdateFed, rowVars, TypeOK
<1>3. ASSUME NEW o \in Objs, PerformSync(j, o) \/ ValidateDelete(j, o)
      PROVE  TypeOK'
  <2>1. \/ Begin(j, "sync", o, job[j].cl, "init")
        \/ Begin(j, "delete", o, job[j].cl, "delete")
    BY <1>3 DEF PerformSync, ValidateDelete
  <2>2. job' \in [Jobs -> JobType]
    BY <1>1, <2>1, StagesTyped, JobBegins
  <2> QED
    BY <1>3, <2>2 DEF PerformSync, ValidateDelete, rowVars, TypeOK
<1>4. ASSUME NEW o \in Objs, NEW k \in Clusters,
             PerformSyncCluster(j, o, k) \/ AttachNs(j, k) \/ AttachRole(j, k)
      PROVE  TypeOK'
  <2>1. \/ Begin(j, "syncCluster", o, k, "load")
        \/ Begin(j, "attachNs", "ns", k, "just")
        \/ Begin(j, "attachRole", "role", k, "ensure")
    BY <1>4 DEF PerformSyncCluster, AttachNs, AttachRole
  <2>2. job' \in [Jobs -> JobType]
    BY <1>1, <2>1, StagesTyped, JobBegins
  <2> QED
    BY <1>4, <2>2 DEF PerformSyncCluster, AttachNs, AttachRole, rowVars, TypeOK
<1> QED
  BY <1>2, <1>3, <1>4, StagesTyped DEF Request

\* The steps of a job that leave the tables alone.
LEMMA JobMoveTyped ==
  ASSUME TypeOK, NEW j \in Jobs,
         \/ DeleteFed(j) \/ SyncOnInit(j) \/ SyncList(j) \/ OnSyncComplete(j)
         \/ OnSyncCompleteFailed(j) \/ (\E k \in Clusters : SyncNext(j, k))
         \/ EnsureFedNamespaceAttached(j) \/ PollNamespace(j) \/ ValidateAttachCluster(j)
         \/ OnAttachCompleteFailed(j)
  PROVE  TypeOK'
<1>1. /\ job \in [Jobs -> JobType] /\ fed \in [Objs -> FedStatus]
      /\ faults \in 0..MaxFaults /\ job[j].obj \in Objs /\ job[j].cl \in Clusters
      /\ job[j].todo \in SUBSET Clusters
  BY TypesSplit DEF JobType
<1>2. CASE DeleteFed(j)
  <2>1. fed' \in [Objs -> FedStatus]
    BY <1>1, <1>2, StagesTyped DEF DeleteFed
  <2>2. job' \in [Jobs -> JobType]
    BY <1>1, <1>2, JobEnds DEF DeleteFed
  <2> QED
    BY <1>2, <2>1, <2>2 DEF DeleteFed, rowVars, TypeOK
<1>3. CASE SyncOnInit(j)
  <2>1. fed' \in [Objs -> FedStatus]
    BY <1>1, <1>3, StagesTyped, FedSet DEF SyncOnInit
  <2>2. job' \in [Jobs -> JobType]
    BY <1>1, <1>3, StagesTyped, JobEnds, JobGoes DEF SyncOnInit
  <2> QED
    BY <1>3, <2>1, <2>2 DEF SyncOnInit, rowVars, TypeOK
<1>4. CASE SyncList(j)
  <2>1. CASE /\ job' = [job EXCEPT ![j].todo = GetAttachedClusters(job[j].obj), ![j].pc = "loop"]
             /\ UNCHANGED <<faults, excused>>
    <3>1. GetAttachedClusters(job[j].obj) \in SUBSET Clusters
      BY DEF GetAttachedClusters
    <3>2. job' \in [Jobs -> JobType]
      BY <1>1, <2>1, <3>1, StagesTyped, JobLists
    <3> QED
      BY <1>4, <2>1, <3>2 DEF SyncList, rowVars, TypeOK
  <2>2. CASE Fault /\ Goto(j, "syncFail") /\ excused' = Clusters
    <3>1. job' \in [Jobs -> JobType]
      BY <1>1, <2>2, StagesTyped, JobGoes
    <3> QED
      BY <1>1, <1>4, <2>2, <3>1, FaultCounted DEF SyncList, rowVars, TypeOK
  <2> QED
    BY <1>4, <2>1, <2>2 DEF SyncList
<1>5. CASE OnSyncComplete(j) \/ OnSyncCompleteFailed(j) \/ OnAttachCompleteFailed(j)
  <2>1. fed' \in [Objs -> FedStatus]
    BY <1>1, <1>5, StagesTyped, FedSet
       DEF OnSyncComplete, OnSyncCompleteFailed, OnAttachCompleteFailed
  <2>2. job' \in [Jobs -> JobType]
    BY <1>1, <1>5, JobEnds DEF OnSyncComplete, OnSyncCompleteFailed, OnAttachCompleteFailed
  <2> QED
    BY <1>5, <2>1, <2>2
       DEF OnSyncComplete, OnSyncCompleteFailed, OnAttachCompleteFailed, rowVars, TypeOK
<1>6. ASSUME NEW k \in Clusters, SyncNext(j, k)
      PROVE  TypeOK'
  <2>1. job' \in [Jobs -> JobType]
    BY <1>1, <1>6, StagesTyped, JobTakes DEF SyncNext
  <2> QED
    BY <1>6, <2>1 DEF SyncNext, rowVars, TypeOK
<1>7. CASE EnsureFedNamespaceAttached(j)
  <2> DEFINE p == IF Attached("ns", job[j].cl) # {} THEN "load" ELSE "just"
  <2>1. \/ Goto(j, "attachFail") \/ Goto(j, "poll")
        \/ job' = [job EXCEPT ![j].obj = "ns", ![j].pc = p]
    BY <1>7 DEF EnsureFedNamespaceAttached
  <2>2. p \in JobStates
    BY StagesTyped
  <2> HIDE DEF p
  <2>3. job' \in [Jobs -> JobType]
    BY <1>1, <2>1, <2>2, StagesTyped, JobGoes, JobTurns
  <2> QED
    BY <1>7, <2>3 DEF EnsureFedNamespaceAttached, rowVars, TypeOK
<1>8. CASE PollNamespace(j)
  <2>1. job' \in [Jobs -> JobType]
    BY <1>1, <1>8, StagesTyped, JobGoes DEF PollNamespace
  <2> QED
    BY <1>8, <2>1 DEF PollNamespace, rowVars, TypeOK
<1>9. CASE ValidateAttachCluster(j)
  <2> DEFINE p == IF /\ cluster[job[j].cl] # "gone" /\ Attached("role", job[j].cl) = {}
                     /\ Exists("ns")
                  THEN "just" ELSE "attachFail"
  <2>1. job' = [job EXCEPT ![j].obj = "role", ![j].pc = p]
    BY <1>9 DEF ValidateAttachCluster
  <2>2. p \in JobStates
    BY StagesTyped
  <2> HIDE DEF p
  <2>3. job' \in [Jobs -> JobType]
    BY <1>1, <2>1, <2>2, StagesTyped, JobTurns
  <2> QED
    BY <1>9, <2>3 DEF ValidateAttachCluster, rowVars, TypeOK
<1> QED
  BY <1>2, <1>3, <1>4, <1>5, <1>6, <1>7, <1>8, <1>9

\* What a return reports is about clusters.
LEMMA ReturnTyped ==
  ASSUME TypeOK, NEW j \in Jobs, NEW ok \in BOOLEAN, Return(j, ok)
  PROVE  job' \in [Jobs -> JobType] /\ excused' \in SUBSET Clusters
<1>1. /\ job \in [Jobs -> JobType] /\ excused \in SUBSET Clusters /\ job[j].cl \in Clusters
  BY TypesSplit DEF JobType
<1> QED
  BY <1>1, JobReturns

\* The steps of a job that attach, find and bind.
LEMMA JobTableTyped ==
  ASSUME TypeOK, JobsKnow, NEW j \in Jobs,
         \/ JustAttachCluster(j) \/ ValidateJointCluster(j) \/ IsResourceExist(j)
         \/ CreateResource(j) \/ BindCreated(j) \/ UpdateResource(j)
  PROVE  TypeOK'
<1>1. /\ job \in [Jobs -> JobType] /\ job[j].obj \in Objs /\ job[j].cl \in Clusters
      /\ job[j].res \in 0..MaxRows /\ job[j].copy.res \in 0..MaxRows
      /\ joints \in Seq(JointType) /\ rows \in Seq(RowType) /\ Len(rows) <= MaxRows
      /\ tasks \in Seq(TaskType) /\ spec \in 1..MaxSpec /\ faults \in 0..MaxFaults
      /\ MaxRows \in Nat /\ TRUE \in BOOLEAN /\ FALSE \in BOOLEAN
      /\ Len(rows) \in Nat /\ DOMAIN rows = 1..Len(rows)
  BY TypesSplit, FederationAssumption, SeqDomain DEF JobType
<1>2. CASE JustAttachCluster(j)
  <2>1. CASE Return(j, FALSE) /\ UNCHANGED joints
    BY <1>1, <1>2, <2>1, ReturnTyped DEF JustAttachCluster, rowVars, TypeOK
  <2>2. CASE /\ joints' = Append(joints, [obj |-> job[j].obj, cl |-> job[j].cl,
                                          res |-> 0, live |-> TRUE])
             /\ Goto(j, "load") /\ UNCHANGED excused
    <3>1. joints' \in Seq(JointType)
      BY <1>1, <2>2, JointAdded
    <3>2. job' \in [Jobs -> JobType]
      BY <1>1, <2>2, StagesTyped, JobGoes
    <3> QED
      BY <1>2, <2>2, <3>1, <3>2 DEF JustAttachCluster, rowVars, TypeOK, JointType
  <2> QED
    BY <1>2, <2>1, <2>2 DEF JustAttachCluster
<1>3. CASE ValidateJointCluster(j)
  <2>1. CASE Return(j, FALSE)
    BY <1>1, <1>3, <2>1, ReturnTyped DEF ValidateJointCluster, rowVars, TypeOK
  <2>2. ASSUME NEW i \in Attached(job[j].obj, job[j].cl),
               job' = [job EXCEPT ![j].copy = [id |-> i, res |-> joints[i].res],
                                  ![j].pc = "exist"],
               UNCHANGED excused
        PROVE  TypeOK'
    <3> DEFINE c == [id |-> i, res |-> joints[i].res]
    <3>1. i \in DOMAIN joints /\ i \in Nat /\ joints[i] \in JointType
      BY <1>1, SeqDomain DEF Attached
    <3>2. c \in [id : Nat, res : 0..MaxRows]
      BY <3>1 DEF JointType
    <3>3. job' = [job EXCEPT ![j].copy = c, ![j].pc = "exist"]
      BY <2>2
    <3> HIDE DEF c
    <3>4. job' \in [Jobs -> JobType]
      BY <1>1, <3>2, <3>3, StagesTyped, JobLoads
    <3> QED
      BY <1>3, <2>2, <3>4 DEF ValidateJointCluster, rowVars, TypeOK
  <2> QED
    BY <1>3, <2>1, <2>2 DEF ValidateJointCluster
<1>4. CASE IsResourceExist(j)
  <2>1. CASE Return(j, FALSE)
    BY <1>1, <1>4, <2>1, ReturnTyped DEF IsResourceExist, rowVars, TypeOK
  <2>2. CASE Goto(j, "make") /\ UNCHANGED excused
    <3>1. job' \in [Jobs -> JobType]
      BY <1>1, <2>2, StagesTyped, JobGoes
    <3> QED
      BY <1>4, <2>2, <3>1 DEF IsResourceExist, rowVars, TypeOK
  <2>3. ASSUME NEW r \in DOMAIN rows, job' = [job EXCEPT ![j].res = r, ![j].pc = "update"],
               UNCHANGED excused
        PROVE  TypeOK'
    <3>1. r \in 0..MaxRows
      BY <1>1
    <3>2. job' \in [Jobs -> JobType]
      BY <1>1, <2>3, <3>1, StagesTyped, JobFinds
    <3> QED
      BY <1>4, <2>3, <3>2 DEF IsResourceExist, rowVars, TypeOK
  <2>4. ByName(job[j].obj, job[j].cl) \subseteq DOMAIN rows
        /\ ById(job[j].copy.res, job[j].cl) \subseteq DOMAIN rows
    BY DEF ByName, ById, Live
  <2> QED
    BY <1>4, <2>1, <2>2, <2>3, <2>4 DEF IsResourceExist
<1>5. CASE CreateResource(j)
  <2>1. CASE /\ CanCreate(job[j].obj, job[j].cl) /\ Len(rows) < MaxRows
             /\ rows' = Append(rows, NewRow(job[j].obj, job[j].cl, "init"))
             /\ job' = [job EXCEPT ![j].res = Len(rows) + 1, ![j].pc = "bind"]
             /\ UNCHANGED <<faults, excused>>
    <3>1. "init" \in RowStatus /\ (job[j].obj = "role" => NsRows(job[j].cl) # {})
      BY <2>1 DEF CanCreate, HasNamespace, RowStatus
    <3>2. rows' \in Seq(RowType) /\ Len(rows') <= MaxRows
      <4>1. rows' \in Seq(RowType) /\ Len(rows') = Len(rows) + 1
        BY <1>1, <2>1, <3>1, RowInserted
      <4> QED
        BY <1>1, <2>1, <4>1
    <3>3. Len(rows) + 1 \in 0..MaxRows
      BY <1>1, <2>1
    <3>4. job' \in [Jobs -> JobType]
      BY <1>1, <2>1, <3>3, StagesTyped, JobFinds
    <3> QED
      BY <1>5, <2>1, <3>2, <3>4 DEF CreateResource, TypeOK, RowType
  <2>2. CASE Return(j, FALSE) /\ UNCHANGED rows /\ (UNCHANGED faults \/ Fault)
    <3>1. faults' \in 0..MaxFaults
      BY <1>1, <2>2, FaultCounted
    <3> QED
      BY <1>1, <1>5, <2>2, <3>1, ReturnTyped DEF CreateResource, TypeOK
  <2> QED
    BY <1>5, <2>1, <2>2 DEF CreateResource
<1>6. CASE BindCreated(j) \/ UpdateResource(j)
  <2>1. job[j].copy.id \in DOMAIN joints /\ job[j].res \in DOMAIN rows /\ JobKnows(job[j])
    BY <1>6 DEF JobsKnow, JobKnows, RowOf, BindCreated, UpdateResource, Reconcile
  <2>2. job[j].res \in 1..MaxRows
    BY <1>1, <2>1
  <2>3. joints' \in Seq(JointType)
    BY <1>1, <1>6, <2>1, JointBound DEF BindCreated, UpdateResource
  <2>4. tasks' \in Seq(TaskType)
    <3>1. \/ StartTask("create", job[j].res) \/ StartTask("update", job[j].res)
          \/ tasks' = tasks
      BY <1>6 DEF BindCreated, UpdateResource
    <3>2. "create" \in TaskKinds /\ "update" \in TaskKinds
      BY DEF TaskKinds
    <3> QED
      BY <1>1, <2>2, <3>1, <3>2, TaskStarts
  <2>5. job' \in [Jobs -> JobType] /\ excused' \in SUBSET Clusters
    BY <1>1, <1>6, ReturnTyped DEF BindCreated, UpdateResource
  <2> QED
    BY <1>6, <2>3, <2>4, <2>5 DEF BindCreated, UpdateResource, TypeOK, JointType, TaskType
<1> QED
  BY <1>2, <1>3, <1>4, <1>5, <1>6

\* An object of a cluster is written.
LEMMA RemoteSet ==
  ASSUME remote \in [Objs -> [Clusters -> 0..(MaxSpec + 1)]], NEW o \in Objs,
         NEW k \in Clusters, NEW v \in 0..(MaxSpec + 1), remote' = [remote EXCEPT ![o][k] = v]
  PROVE  /\ remote' \in [Objs -> [Clusters -> 0..(MaxSpec + 1)]]
         /\ \A p \in Objs, m \in Clusters :
              remote'[p][m] = IF p = o /\ m = k THEN v ELSE remote[p][m]
  OBVIOUS

\* An object of a cluster is deleted, a namespace together with what is in it.
LEMMA RemoteWiped ==
  ASSUME remote \in [Objs -> [Clusters -> 0..(MaxSpec + 1)]], NEW o \in Objs,
         NEW k \in Clusters,
         remote' = [p \in Objs |-> IF p = o \/ o = "ns" THEN [remote[p] EXCEPT ![k] = 0]
                                   ELSE remote[p]]
  PROVE  /\ remote' \in [Objs -> [Clusters -> 0..(MaxSpec + 1)]]
         /\ \A p \in Objs, m \in Clusters :
              remote'[p][m] = IF (p = o \/ o = "ns") /\ m = k THEN 0 ELSE remote[p][m]
<1>1. 0 \in 0..(MaxSpec + 1)
  BY FederationAssumption
<1>2. ASSUME NEW p \in Objs
      PROVE  /\ remote'[p] \in [Clusters -> 0..(MaxSpec + 1)]
             /\ \A m \in Clusters :
                  remote'[p][m] = IF (p = o \/ o = "ns") /\ m = k THEN 0 ELSE remote[p][m]
  <2>1. remote[p] \in [Clusters -> 0..(MaxSpec + 1)]
    OBVIOUS
  <2>2. CASE p = o \/ o = "ns"
    <3>1. remote'[p] = [remote[p] EXCEPT ![k] = 0]
      BY <2>2
    <3> QED
      BY <1>1, <2>1, <2>2, <3>1
  <2>3. CASE ~(p = o \/ o = "ns")
    BY <2>1, <2>3
  <2> QED
    BY <2>2, <2>3
<1>3. remote' = [p \in Objs |-> remote'[p]]
  OBVIOUS
<1> QED
  BY <1>2, <1>3

\* The steps of a task.
LEMMA TaskStepTyped ==
  ASSUME TypeOK, TasksKnow, NEW t \in DOMAIN tasks, TaskStep(t)
  PROVE  TypeOK'
<1> DEFINE r == tasks[t].row
           o == rows[r].obj
           k == rows[r].cl
<1>1. /\ tasks \in Seq(TaskType) /\ rows \in Seq(RowType) /\ Len(rows) <= MaxRows
      /\ remote \in [Objs -> [Clusters -> 0..(MaxSpec + 1)]] /\ faults \in 0..MaxFaults
      /\ excused \in SUBSET Clusters /\ spec \in 1..MaxSpec /\ MaxSpec \in Nat /\ MaxRows \in Nat
      /\ tasks[t] \in TaskType /\ tasks[t].row \in 1..MaxRows /\ tasks[t].row \in DOMAIN rows
  <2>1. tasks \in Seq(TaskType)
    BY TypesSplit
  <2>2. tasks[t] \in TaskType
    BY <2>1, SeqDomain
  <2>3. tasks[t].row \in 1..MaxRows
    BY <2>2 DEF TaskType
  <2> QED
    BY <2>1, <2>2, <2>3, TypesSplit, FederationAssumption DEF TasksKnow
<1>2. o \in Objs /\ k \in Clusters /\ r \in Nat /\ tasks[t].type \in TaskKinds
      /\ tasks[t].spec \in 1..MaxSpec
  <2>1. rows[r] \in RowType
    BY <1>1, SeqDomain
  <2>2. o \in Objs /\ k \in Clusters
    BY <2>1 DEF RowType
  <2>3. tasks[t].type \in TaskKinds /\ tasks[t].spec \in 1..MaxSpec
    BY <1>1 DEF TaskType
  <2> QED
    BY <1>1, <2>2, <2>3
<1> HIDE DEF r, o, k
<1>3. tasks' \in Seq(TaskType)
  <2>1. PICK p \in TaskStates \cup {"done"} : Step(t, p)
    BY DEF TaskStep, TaskOnInit, TaskCallFails, CreateRemoteObject, UpdateRemoteObject,
           DeleteRemoteObject, WriteBack, OnDeleteComplete, OnTaskFailed, RowSyncOnInit,
           PerformSyncResource, OnRowSyncFailed, TaskStates
  <2> QED
    BY <1>1, <2>1, TaskMoves, TaskEnds
<1>4. rows' \in Seq(RowType) /\ Len(rows') <= MaxRows
  <2>1. rows' = rows \/ \E s \in RowStatus : SetRowStatus(r, s)
    <3>1. \A w \in TaskKinds : Working[w] \in RowStatus /\ Failed[w] \in RowStatus
      BY DEF TaskKinds, Working, Failed, RowStatus, Transitional
    <3>2. /\ "active" \in RowStatus /\ "gone" \in RowStatus /\ "syncing" \in RowStatus
          /\ "sync_fail" \in RowStatus
      BY DEF RowStatus, Transitional
    <3> QED
      BY <1>2, <3>1, <3>2
         DEF TaskStep, TaskOnInit, TaskCallFails, CreateRemoteObject, UpdateRemoteObject,
             DeleteRemoteObject, WriteBack, OnDeleteComplete, OnTaskFailed, RowSyncOnInit,
             PerformSyncResource, OnRowSyncFailed, r
  <2>2. ASSUME NEW s \in RowStatus, SetRowStatus(r, s)
        PROVE  rows' \in Seq(RowType) /\ Len(rows') = Len(rows)
    BY <1>1, <1>2, <2>2, StatusSet
  <2> QED
    BY <1>1, <2>1, <2>2
<1>5. remote' \in [Objs -> [Clusters -> 0..(MaxSpec + 1)]]
  <2>1. tasks[t].spec \in 0..(MaxSpec + 1)
    BY <1>1, <1>2
  <2>2. \/ remote' = remote
        \/ remote' = [remote EXCEPT ![o][k] = tasks[t].spec]
        \/ remote' = [p \in Objs |-> IF p = o \/ o = "ns" THEN [remote[p] EXCEPT ![k] = 0]
                                     ELSE remote[p]]
    BY DEF TaskStep, TaskOnInit, TaskCallFails, CreateRemoteObject, UpdateRemoteObject,
           DeleteRemoteObject, WriteBack, OnDeleteComplete, OnTaskFailed, RowSyncOnInit,
           PerformSyncResource, OnRowSyncFailed, r, o, k
  <2> QED
    BY <1>1, <1>2, <2>1, <2>2, RemoteSet, RemoteWiped
<1>6. excused' \in SUBSET Clusters
  <2>1. excused' = excused \/ excused' = excused \cup {k}
    BY DEF TaskStep, TaskOnInit, TaskCallFails, CreateRemoteObject, UpdateRemoteObject,
           DeleteRemoteObject, WriteBack, OnDeleteComplete, OnTaskFailed, RowSyncOnInit,
           PerformSyncResource, OnRowSyncFailed, r, k
  <2> QED
    BY <1>1, <1>2, <2>1
<1>7. faults' \in 0..MaxFaults
  <2>1. faults' = faults \/ Fault
    BY DEF TaskStep, TaskOnInit, TaskCallFails, CreateRemoteObject, UpdateRemoteObject,
           DeleteRemoteObject, WriteBack, OnDeleteComplete, OnTaskFailed, RowSyncOnInit,
           PerformSyncResource, OnRowSyncFailed
  <2> QED
    BY <1>1, <2>1, FaultCounted
<1>8. UNCHANGED <<fed, spec, joints, cluster, job>>
  BY DEF TaskStep, TaskOnInit, TaskCallFails, CreateRemoteObject, UpdateRemoteObject,
         DeleteRemoteObject, WriteBack, OnDeleteComplete, OnTaskFailed, RowSyncOnInit,
         PerformSyncResource, OnRowSyncFailed
<1> QED
  BY <1>3, <1>4, <1>5, <1>6, <1>7, <1>8 DEF TypeOK, RowType, TaskType

\* Users, other clients and the clusters themselves.
LEMMA EnvironmentTyped ==
  ASSUME TypeOK, Environment
  PROVE  TypeOK'
<1>1. /\ fed \in [Objs -> FedStatus] /\ joints \in Seq(JointType)
      /\ tasks \in Seq(TaskType) /\ rows \in Seq(RowType) /\ Len(rows) <= MaxRows
      /\ remote \in [Objs -> [Clusters -> 0..(MaxSpec + 1)]] /\ faults \in 0..MaxFaults
      /\ cluster \in [Clusters -> {"up", "purged", "gone"}]
      /\ excused \in SUBSET Clusters /\ spec \in 1..MaxSpec /\ MaxSpec \in Nat /\ MaxRows \in Nat
      /\ Len(rows) \in Nat /\ DOMAIN rows = 1..Len(rows)
  BY TypesSplit, SeqDomain, FederationAssumption
<1>2. ASSUME NEW o \in Objs, CreateFed(o)
      PROVE  TypeOK'
  <2>1. fed' \in [Objs -> FedStatus]
    BY <1>1, <1>2, StagesTyped DEF CreateFed
  <2> QED
    BY <1>2, <2>1 DEF CreateFed, rowVars, TypeOK
<1>3. ASSUME NEW o \in Objs, NEW k \in Clusters, DetachCluster(o, k)
      PROVE  TypeOK'
  <2>1. PICK i \in DOMAIN joints : joints' = [joints EXCEPT ![i].live = FALSE, ![i].res = 0]
    BY <1>3 DEF DetachCluster, Attached
  <2>2. FALSE \in BOOLEAN /\ 0 \in 0..MaxRows
    BY <1>1
  <2>3. joints' \in Seq(JointType)
    BY <1>1, <2>1, <2>2, JointWritten
  <2> QED
    BY <1>1, <1>3, <2>3, FaultCounted DEF DetachCluster, rowVars, TypeOK, JointType
<1>4. ASSUME NEW o \in Objs, NEW k \in Clusters, InsertRow(o, k)
      PROVE  TypeOK'
  <2>1. "active" \in RowStatus
    BY DEF RowStatus
  <2>2. rows' \in Seq(RowType) /\ Len(rows') = Len(rows) + 1
    BY <1>1, <1>4, <2>1, RowInserted DEF InsertRow
  <2>3. Len(rows') <= MaxRows
    BY <1>1, <1>4, <2>2 DEF InsertRow
  <2> QED
    BY <1>4, <2>2, <2>3 DEF InsertRow, TypeOK, RowType
<1>5. ASSUME NEW o \in Objs, NEW k \in Clusters, OthersDelete(o, k)
      PROVE  TypeOK'
  <2>1. remote' \in [Objs -> [Clusters -> 0..(MaxSpec + 1)]]
    BY <1>1, <1>5, RemoteWiped DEF OthersDelete
  <2> QED
    BY <1>1, <1>5, <2>1, FaultCounted DEF OthersDelete, TypeOK
<1>6. ASSUME NEW o \in Objs, NEW k \in Clusters, OthersCreate(o, k)
      PROVE  TypeOK'
  <2>1. MaxSpec + 1 \in 0..(MaxSpec + 1)
    BY <1>1
  <2>2. remote' \in [Objs -> [Clusters -> 0..(MaxSpec + 1)]]
    BY <1>1, <1>6, <2>1, RemoteSet DEF OthersCreate
  <2> QED
    BY <1>1, <1>6, <2>2, FaultCounted DEF OthersCreate, TypeOK
<1>7. ASSUME NEW r \in DOMAIN rows, RemoveRow(r) \/ PerformGC(r)
      PROVE  TypeOK'
  <2>1. rows' \in Seq(RowType) /\ Len(rows') = Len(rows)
    BY <1>1, <1>7, RowGoes DEF RemoveRow, PerformGC
  <2> QED
    BY <1>1, <1>7, <2>1, FaultCounted DEF RemoveRow, PerformGC, TypeOK, RowType
<1>8. ASSUME NEW r \in DOMAIN rows, DeleteRow(r)
      PROVE  TypeOK'
  <2>1. r \in 1..MaxRows /\ "delete" \in TaskKinds
    BY <1>1 DEF TaskKinds
  <2>2. tasks' \in Seq(TaskType)
    BY <1>1, <1>8, <2>1, TaskStarts DEF DeleteRow
  <2>3. rows[r].cl \in Clusters
    <3>1. rows[r] \in RowType
      BY <1>1, SeqDomain
    <3> QED
      BY <3>1 DEF RowType
  <2> QED
    BY <1>1, <1>8, <2>2, <2>3, FaultCounted DEF DeleteRow, TypeOK, TaskType
<1>9. ASSUME NEW k \in Clusters, PurgeCluster(k)
      PROVE  TypeOK'
  <2>1. rows' \in Seq(RowType) /\ Len(rows') = Len(rows)
    BY <1>1, <1>9, RowsPurged DEF PurgeCluster
  <2>2. joints' \in Seq(JointType)
    BY <1>1, <1>9, JointsPurged DEF PurgeCluster
  <2>3. cluster' \in [Clusters -> {"up", "purged", "gone"}]
    BY <1>1, <1>9 DEF PurgeCluster
  <2> QED
    BY <1>1, <1>9, <2>1, <2>2, <2>3, FaultCounted DEF PurgeCluster, TypeOK, RowType, JointType
<1>10. ASSUME NEW k \in Clusters, RemoveCluster(k)
       PROVE  TypeOK'
  <2>1. cluster' \in [Clusters -> {"up", "purged", "gone"}]
    BY <1>1, <1>10 DEF RemoveCluster
  <2> QED
    BY <1>10, <2>1 DEF RemoveCluster, rowVars, TypeOK
<1> QED
  BY <1>2, <1>3, <1>4, <1>5, <1>6, <1>7, <1>8, <1>9, <1>10 DEF Environment

\* Every step keeps the types.
LEMMA TypesKept ==
  ASSUME TypeOK, JobsKnow, TasksKnow, [Next]_vars
  PROVE  TypeOK'
<1>1. ASSUME NEW j \in Jobs, Request(j) \/ JobStep(j)
      PROVE  TypeOK'
  <2>1. CASE Request(j)
    BY <2>1, RequestTyped
  <2>2. CASE JobStep(j)
    BY <2>2, JobMoveTyped, JobTableTyped DEF JobStep
  <2> QED
    BY <1>1, <2>1, <2>2
<1>2. ASSUME NEW t \in DOMAIN tasks, TaskStep(t)
      PROVE  TypeOK'
  BY <1>2, TaskStepTyped
<1>3. CASE Environment
  BY <1>3, EnvironmentTyped
<1>4. CASE UNCHANGED vars
  BY <1>4 DEF vars, TypeOK
<1> QED
  BY <1>1, <1>2, <1>3, <1>4 DEF Next

-----------------------------------------------------------------------------
(* Steps that keep the invariant, part by part *)

\* What jobs know stays true.
LEMMA JobsKnowKept ==
  ASSUME JobsKnow, RowsKept, JointsKept,
         \A i \in Jobs : job'[i] = job[i] \/ JobKnows(job[i])'
  PROVE  JobsKnow'
<1> SUFFICES ASSUME NEW i \in Jobs, job'[i] = job[i]
             PROVE  JobKnows(job[i])'
  BY DEF JobsKnow
<1>1. JobKnows(job[i])
  BY DEF JobsKnow
<1>2. \A r, o, k : RowOf(r, o, k) => RowOf(r, o, k)'
  BY DEF RowOf, RowsKept
<1> QED
  BY <1>1, <1>2 DEF JobKnows, JointsKept, RowOf

\* So does what joint rows point at.
LEMMA JointsKnowKept ==
  ASSUME JointsKnow, RowsKept, JointsKept,
         \A i \in DOMAIN joints' :
           \/ i \in DOMAIN joints /\ joints'[i].res = joints[i].res
           \/ joints'[i].res = 0
           \/ RowOf(joints'[i].res, joints'[i].obj, joints'[i].cl)
  PROVE  JointsKnow'
<1> SUFFICES ASSUME NEW i \in DOMAIN joints', joints'[i].res # 0
             PROVE  /\ joints'[i].res \in DOMAIN rows'
                    /\ rows'[joints'[i].res].obj = joints'[i].obj
                    /\ rows'[joints'[i].res].cl = joints'[i].cl
  BY DEF JointsKnow, RowOf
<1>1. RowOf(joints'[i].res, joints'[i].obj, joints'[i].cl)
  BY DEF JointsKnow, JointsKept
<1> QED
  BY <1>1 DEF RowOf, RowsKept

\* So does what tasks are about.
LEMMA TasksKnowKept ==
  ASSUME TypeOK, TypeOK', TasksKnow, RowsKept, spec <= spec', excused \subseteq excused',
         \A a \in DOMAIN tasks' :
           \/ \E t \in DOMAIN tasks :
                /\ tasks'[a].type = tasks[t].type
                /\ tasks'[a].row = tasks[t].row /\ tasks'[a].spec = tasks[t].spec
           \/ /\ tasks'[a].row \in DOMAIN rows /\ tasks'[a].spec = spec
              /\ tasks'[a].type = "delete" => rows[tasks'[a].row].cl \in excused'
  PROVE  TasksKnow'
<1> SUFFICES ASSUME NEW a \in DOMAIN tasks'
             PROVE  /\ tasks'[a].row \in DOMAIN rows' /\ tasks'[a].spec <= spec'
                    /\ tasks'[a].type = "delete" => rows'[tasks'[a].row].cl \in excused'
  BY DEF TasksKnow
<1>1. spec \in Nat /\ spec' \in Nat
  <2>1. spec \in 1..MaxSpec /\ spec' \in 1..MaxSpec
    BY DEF TypeOK
  <2> QED
    BY <2>1, FederationAssumption
<1>2. CASE \E t \in DOMAIN tasks :
             /\ tasks'[a].type = tasks[t].type
             /\ tasks'[a].row = tasks[t].row /\ tasks'[a].spec = tasks[t].spec
  <2>1. PICK t \in DOMAIN tasks :
             /\ tasks'[a].type = tasks[t].type
             /\ tasks'[a].row = tasks[t].row /\ tasks'[a].spec = tasks[t].spec
    BY <1>2
  <2>2. tasks[t].spec \in Nat
    <3>1. tasks \in Seq(TaskType)
      BY TypesSplit
    <3>2. tasks[t] \in TaskType
      BY <3>1, SeqDomain
    <3> QED
      BY <3>2, FederationAssumption DEF TaskType
  <2>3. tasks[t].row \in DOMAIN rows /\ tasks[t].spec <= spec
        /\ (tasks[t].type = "delete" => rows[tasks[t].row].cl \in excused)
    BY DEF TasksKnow
  <2> QED
    BY <1>1, <2>1, <2>2, <2>3 DEF RowsKept
<1>3. CASE /\ tasks'[a].row \in DOMAIN rows /\ tasks'[a].spec = spec
           /\ tasks'[a].type = "delete" => rows[tasks'[a].row].cl \in excused'
  BY <1>3 DEF RowsKept
<1> QED
  BY <1>2, <1>3

\* Objects do not become unborn.
LEMMA BornKept ==
  ASSUME Born, \A o \in Objs : fed'[o] = "absent" => fed[o] = "absent",
         "role" \in Objs, TypeOK,
         \A i \in Jobs :
           \/ job'[i] = job[i] \/ job'[i].kind = "none"
           \/ /\ job'[i].obj \in Objs /\ fed[job'[i].obj] # "absent"
              /\ job'[i].kind = "attachRole" => fed["role"] # "absent",
         JointsKept,
         \A i \in DOMAIN joints' :
           i \in DOMAIN joints \/ (joints'[i].obj \in Objs /\ fed[joints'[i].obj] # "absent")
  PROVE  Born'
<1>1. \A i \in Jobs : job[i].obj \in Objs
  BY TypesSplit DEF JobType
<1>2. \A i \in DOMAIN joints : joints[i].obj \in Objs
  <2>1. joints \in Seq(JointType)
    BY TypesSplit
  <2>2. \A i \in DOMAIN joints : joints[i] \in JointType
    BY <2>1, SeqDomain
  <2> QED
    BY <2>2 DEF JointType
<1> QED
  BY <1>1, <1>2 DEF Born, JointsKept

\* Joint rows stay unique when none is added.
LEMMA AttachedKept ==
  ASSUME AttachedOnce, JointsKept, DOMAIN joints' = DOMAIN joints
  PROVE  AttachedOnce'
  BY DEF AttachedOnce, JointsKept

\* So do rows.
LEMMA OneRowKept ==
  ASSUME OneRowPerName, RowsKept, DOMAIN rows' = DOMAIN rows
  PROVE  OneRowPerName'
  BY DEF OneRowPerName, RowsKept, Live

\* A row in a transition keeps a task.
LEMMA RowsServedKept ==
  ASSUME RowsServed,
         \A r \in DOMAIN rows' :
           \/ /\ r \in DOMAIN rows /\ rows'[r].status = rows[r].status
              /\ \A t \in DOMAIN tasks : tasks[t].row = r =>
                   \E a \in DOMAIN tasks' :
                     tasks'[a].row = r /\ (tasks[t].pc # "init" => tasks'[a].pc # "init")
              /\ \A j \in Jobs : (job[j].pc = "bind" /\ job[j].res = r) =>
                   \/ job'[j].pc = "bind" /\ job'[j].res = r
                   \/ \E a \in DOMAIN tasks' : tasks'[a].row = r
           \/ rows'[r].status \notin Transitional \cup {"init"}
           \/ /\ rows'[r].status \in Transitional
              /\ \E a \in DOMAIN tasks' : tasks'[a].row = r /\ tasks'[a].pc # "init"
           \/ /\ rows'[r].status = "init"
              /\ \E j \in Jobs : job'[j].pc = "bind" /\ job'[j].res = r
  PROVE  RowsServed'
<1> SUFFICES ASSUME NEW r \in DOMAIN rows'
             PROVE  /\ rows'[r].status \in Transitional =>
                         \E t \in DOMAIN tasks' : tasks'[t].row = r /\ tasks'[t].pc # "init"
                    /\ rows'[r].status = "init" =>
                         \/ \E t \in DOMAIN tasks' : tasks'[t].row = r
                         \/ \E j \in Jobs : job'[j].pc = "bind" /\ job'[j].res = r
  BY DEF RowsServed
<1>1. "init" \notin Transitional
  BY DEF Transitional
<1> QED
  BY <1>1 DEF RowsServed

\* An object that is synchronising keeps a job.
LEMMA SyncServedKept ==
  ASSUME SyncServed, NEW j \in Jobs, OtherJobs(j),
         \A o \in Objs : fed'[o] = "syncing" =>
           \/ fed[o] = "syncing" /\ (Syncs(job[j], o) => Syncs(job[j], o)')
           \/ Syncs(job[j], o)'
  PROVE  SyncServed'
  BY DEF SyncServed, OtherJobs, Syncs

\* A drift that somebody will end.
LEMMA FreshKept ==
  ASSUME NEW k \in Clusters, Fresh(k), spec' = spec, RowsKept,
         \A i \in Jobs : FreshJob(i, k) => Fresh(k)',
         \A t \in DOMAIN tasks : FreshTask(t, k) =>
           \E a \in DOMAIN tasks' :
             /\ tasks'[a].type = tasks[t].type /\ tasks'[a].row = tasks[t].row
             /\ tasks'[a].spec = tasks[t].spec /\ tasks'[a].pc \in {"init", "call"}
  PROVE  Fresh(k)'
<1>1. CASE \E i \in Jobs : FreshJob(i, k)
  BY <1>1
<1>2. CASE \E t \in DOMAIN tasks : FreshTask(t, k)
  <2>1. PICK t \in DOMAIN tasks : FreshTask(t, k)
    BY <1>2
  <2>2. PICK a \in DOMAIN tasks' :
             /\ tasks'[a].type = tasks[t].type /\ tasks'[a].row = tasks[t].row
             /\ tasks'[a].spec = tasks[t].spec /\ tasks'[a].pc \in {"init", "call"}
    BY <2>1
  <2>3. /\ tasks'[a].type \in {"create", "update"} /\ tasks'[a].spec = spec'
        /\ tasks'[a].row \in DOMAIN rows' /\ rows'[tasks'[a].row].obj = "role"
        /\ rows'[tasks'[a].row].cl = k
    BY <2>1, <2>2 DEF FreshTask, RowOf, RowsKept
  <2> QED
    BY <2>2, <2>3 DEF Fresh, FreshTask, RowOf
<1> QED
  BY <1>1, <1>2 DEF Fresh

-----------------------------------------------------------------------------
(* The steps of a job that leave the tables alone *)

\* Federated objects are neither unborn nor revived.
FedMoves ==
  \A o \in Objs : /\ fed'[o] = "absent" => fed[o] = "absent"
                  /\ Exists(o)' => Exists(o)

\* What the step of job j leaves synchronising is served by job j.
SyncMoves(j) ==
  \A o \in Objs : fed'[o] = "syncing" =>
    \/ fed[o] = "syncing" /\ (Syncs(job[j], o) => Syncs(job[j], o)')
    \/ Syncs(job[j], o)'

\* What job j turns to exists.
JobBorn(j) ==
  \/ job'[j].kind = "none"
  \/ /\ job'[j].obj \in Objs /\ fed[job'[j].obj] # "absent"
     /\ job'[j].kind = "attachRole" => fed["role"] # "absent"

\* Job j still brings the template where it was going to, or nothing drifts there.
DriftMoves(j) ==
  \A k \in Clusters :
    Drifts(k)' => FreshJob(j, k)' \/ (spec' = spec /\ ~FreshJob(j, k))

\* A job that leaves the tables alone keeps the invariant.
LEMMA JobStepKeeps ==
  ASSUME FedInv, TypeOK', NEW j \in Jobs, OtherJobs(j),
         UNCHANGED <<joints, rows, tasks, remote, cluster>>,
         excused \subseteq excused', spec <= spec', FedMoves, SyncMoves(j), JobBorn(j),
         JobKnows(job[j])', job[j].pc # "bind", DriftMoves(j)
  PROVE  FedInv'
<1>1. RowsKept /\ JointsKept
  BY DEF RowsKept, JointsKept
<1>2. JobsKnow'
  BY <1>1, JobsKnowKept DEF OtherJobs, FedInv
<1>3. JointsKnow'
  BY DEF FedInv, JointsKnow, RowOf
<1>4. TasksKnow'
  <2>1. \A a \in DOMAIN tasks' : \E t \in DOMAIN tasks :
          /\ tasks'[a].type = tasks[t].type
          /\ tasks'[a].row = tasks[t].row /\ tasks'[a].spec = tasks[t].spec
    OBVIOUS
  <2> QED
    BY <1>1, <2>1, TasksKnowKept DEF FedInv
<1>5. Born'
  <2>1. TypeOK /\ Born /\ "role" \in Objs
    BY DEF FedInv, Objs
  <2>2. \A i \in Jobs :
          \/ job'[i] = job[i] \/ job'[i].kind = "none"
          \/ /\ job'[i].obj \in Objs /\ fed[job'[i].obj] # "absent"
             /\ job'[i].kind = "attachRole" => fed["role"] # "absent"
    BY DEF OtherJobs, JobBorn
  <2> QED
    BY <1>1, <2>1, <2>2, BornKept DEF FedMoves
<1>6. AttachedOnce' /\ OneRowPerName'
  BY <1>1, AttachedKept, OneRowKept DEF FedInv
<1>7. RowsServed'
  <2>1. \A r \in DOMAIN rows' :
           /\ r \in DOMAIN rows /\ rows'[r].status = rows[r].status
           /\ \A t \in DOMAIN tasks : tasks[t].row = r =>
                \E a \in DOMAIN tasks' :
                  tasks'[a].row = r /\ (tasks[t].pc # "init" => tasks'[a].pc # "init")
           /\ \A i \in Jobs : (job[i].pc = "bind" /\ job[i].res = r) =>
                \/ job'[i].pc = "bind" /\ job'[i].res = r
                \/ \E a \in DOMAIN tasks' : tasks'[a].row = r
    BY DEF OtherJobs
  <2> QED
    BY <2>1, RowsServedKept DEF FedInv
<1>8. SyncServed'
  BY SyncServedKept DEF FedInv, SyncMoves
<1>9. ASSUME NEW k \in Clusters, Drifts(k)'
      PROVE  Fresh(k)'
  <2>1. CASE FreshJob(j, k)'
    BY <2>1 DEF Fresh
  <2>2. CASE spec' = spec /\ ~FreshJob(j, k)
    <3>1. Drifts(k)
      BY <1>9, <2>2, StagesTyped DEF Drifts, FedMoves, Attached, Creating
    <3>2. Fresh(k)
      BY <3>1 DEF FedInv, DriftTracked
    <3>3. \A i \in Jobs : FreshJob(i, k) => Fresh(k)'
      BY <2>2 DEF OtherJobs, FreshJob, Fresh
    <3>4. \A t \in DOMAIN tasks : FreshTask(t, k) =>
            \E a \in DOMAIN tasks' :
              /\ tasks'[a].type = tasks[t].type /\ tasks'[a].row = tasks[t].row
              /\ tasks'[a].spec = tasks[t].spec /\ tasks'[a].pc \in {"init", "call"}
      BY DEF FreshTask
    <3> QED
      BY <1>1, <2>2, <3>2, <3>3, <3>4, FreshKept
  <2> QED
    BY <1>9, <2>1, <2>2 DEF DriftMoves
<1> QED
  BY <1>2, <1>3, <1>4, <1>5, <1>6, <1>7, <1>8, <1>9 DEF FedInv, DriftTracked

\* A job that neither synchronises nor reconciles brings nothing.
LEMMA NothingFresh ==
  ASSUME FedInv, NEW j \in Jobs, job[j].pc \notin {"init", "list", "loop"} \cup Reconcile
  PROVE  \A k \in Clusters : ~FreshJob(j, k)
<1>1. JobKnows(job[j])
  BY DEF FedInv, JobsKnow
<1> QED
  BY <1>1 DEF FreshJob, JobKnows

\* A request is accepted.
LEMMA BeginKeeps ==
  ASSUME FedInv, TypeOK', NEW j \in Jobs, NEW w \in JobKinds, NEW o \in Objs, NEW k \in Clusters,
         NEW p \in JobStates, Begin(j, w, o, k, p), p \in Stages[w], w # "none",
         p \notin Reconcile \ {"load"}, Exists(o), w = "attachRole" => o = "role",
         \/ spec' = spec
         \/ spec' = spec + 1 /\ w = "sync" /\ o = "role" /\ p = "init",
         UNCHANGED <<fed, joints, rows, tasks, remote, cluster, excused>>
  PROVE  FedInv'
<1>1. job \in [Jobs -> JobType] /\ spec \in Int
  <2>1. TypeOK
    BY DEF FedInv
  <2>2. spec \in 1..MaxSpec /\ job \in [Jobs -> JobType]
    BY <2>1, TypesSplit
  <2> QED
    BY <2>2
<1>2. /\ OtherJobs(j) /\ job[j].pc = "idle"
      /\ job'[j].kind = w /\ job'[j].pc = p /\ job'[j].obj = o /\ job'[j].cl = k
      /\ job'[j].todo = {}
  BY <1>1, JobBegins
<1>3. excused \subseteq excused' /\ spec <= spec' /\ FedMoves /\ SyncMoves(j)
  BY <1>1, <1>2 DEF FedMoves, SyncMoves, Syncs, Exists
<1>4. JobBorn(j)
  BY <1>2 DEF JobBorn, Exists
<1>5. JobKnows(job[j])'
  BY <1>2 DEF JobKnows, Reconcile
<1>6. DriftMoves(j)
  <2>1. \A m \in Clusters : ~FreshJob(j, m)
    BY <1>2, NothingFresh DEF Reconcile
  <2>2. CASE spec' = spec
    BY <2>1, <2>2 DEF DriftMoves
  <2>3. CASE w = "sync" /\ o = "role" /\ p = "init"
    BY <1>2, <2>3 DEF DriftMoves, FreshJob
  <2> QED
    BY <2>2, <2>3
<1> QED
  BY <1>2, <1>3, <1>4, <1>5, <1>6, JobStepKeeps

\* Requests.
LEMMA RequestKeeps ==
  ASSUME FedInv, TypeOK', NEW j \in Jobs, Request(j)
  PROVE  FedInv'
<1>1. job[j].cl \in Clusters
  BY TypesSplit DEF JobType, FedInv
<1>2. /\ "init" \in Stages["sync"] /\ "delete" \in Stages["delete"]
      /\ "load" \in Stages["syncCluster"] /\ "just" \in Stages["attachNs"]
      /\ "ensure" \in Stages["attachRole"]
      /\ "init" \notin Reconcile /\ "delete" \notin Reconcile /\ "just" \notin Reconcile
      /\ "ensure" \notin Reconcile
  BY DEF Stages, Reconcile
<1>3. CASE UpdateFed(j)
  BY <1>1, <1>2, <1>3, StagesTyped, BeginKeeps DEF UpdateFed, rowVars
<1>4. ASSUME NEW o \in Objs, PerformSync(j, o)
      PROVE  FedInv'
  BY <1>1, <1>2, <1>4, StagesTyped, BeginKeeps DEF PerformSync, rowVars
<1>5. ASSUME NEW o \in Objs, ValidateDelete(j, o)
      PROVE  FedInv'
  BY <1>1, <1>2, <1>5, StagesTyped, BeginKeeps DEF ValidateDelete, rowVars
<1>6. ASSUME NEW o \in Objs, NEW k \in Clusters, PerformSyncCluster(j, o, k)
      PROVE  FedInv'
  BY <1>2, <1>6, StagesTyped, BeginKeeps DEF PerformSyncCluster, rowVars
<1>7. ASSUME NEW k \in Clusters, AttachNs(j, k)
      PROVE  FedInv'
  BY <1>2, <1>7, StagesTyped, BeginKeeps DEF AttachNs, rowVars
<1>8. ASSUME NEW k \in Clusters, AttachRole(j, k)
      PROVE  FedInv'
  BY <1>2, <1>8, StagesTyped, BeginKeeps DEF AttachRole, rowVars
<1> QED
  BY <1>3, <1>4, <1>5, <1>6, <1>7, <1>8 DEF Request

\* What a job is and knows.
LEMMA JobFacts ==
  ASSUME FedInv, NEW j \in Jobs
  PROVE  /\ job \in [Jobs -> JobType] /\ fed \in [Objs -> FedStatus] /\ spec \in Int
         /\ job[j].kind \in JobKinds /\ job[j].obj \in Objs /\ job[j].cl \in Clusters
         /\ job[j].todo \in SUBSET Clusters /\ job[j].res \in 0..MaxRows
         /\ job[j].copy.res \in 0..MaxRows
         /\ JobKnows(job[j]) /\ job[j].pc \in Stages[job[j].kind]
         /\ job[j].kind # "none" => fed[job[j].obj] # "absent"
         /\ job[j].kind = "attachRole" => fed["role"] # "absent"
<1>1. job \in [Jobs -> JobType] /\ fed \in [Objs -> FedStatus] /\ spec \in 1..MaxSpec
  BY TypesSplit DEF FedInv
<1>2. job[j] \in JobType /\ JobKnows(job[j])
  BY <1>1 DEF FedInv, JobsKnow
<1> QED
  BY <1>1, <1>2 DEF JobType, JobKnows, FedInv, Born

\* What kind of job is at a step.
LEMMA StageOf ==
  ASSUME NEW w \in JobKinds, NEW p \in Stages[w]
  PROVE  /\ p \in {"init", "list", "loop", "syncFail"} => w = "sync"
         /\ p = "delete" => w = "delete"
         /\ p \in {"ensure", "poll", "valid", "attachFail"} => w = "attachRole"
         /\ p = "just" => w \in {"attachNs", "attachRole"}
         /\ p \in Reconcile => w \in {"attachNs", "attachRole", "sync", "syncCluster"}
         /\ p \in {"idle", "done"} => w = "none"
<1>1. CASE w = "none"
  BY <1>1 DEF Stages, Reconcile
<1>2. CASE w = "attachNs"
  BY <1>2 DEF Stages, Reconcile
<1>3. CASE w = "attachRole"
  BY <1>3 DEF Stages, Reconcile
<1>4. CASE w = "sync"
  BY <1>4 DEF Stages, Reconcile
<1>5. CASE w = "syncCluster"
  BY <1>5 DEF Stages, Reconcile
<1>6. CASE w = "delete"
  BY <1>6 DEF Stages, Reconcile
<1> QED
  BY <1>1, <1>2, <1>3, <1>4, <1>5, <1>6 DEF JobKinds

\* Where jobs of a kind may be.
LEMMA StagesHold ==
  /\ {"list", "loop", "syncFail"} \subseteq Stages["sync"]
  /\ {"ensure", "poll", "valid", "just", "attachFail"} \subseteq Stages["attachRole"]
  /\ "done" \in Stages["none"]
  /\ \A w \in {"attachNs", "attachRole", "sync", "syncCluster"} : Reconcile \subseteq Stages[w]
  BY DEF Stages, Reconcile

\* A reconciliation that fails reports it and returns.
LEMMA ReturnKeeps ==
  ASSUME FedInv, TypeOK', NEW j \in Jobs, Return(j, FALSE),
         job[j].pc \in {"just"} \cup Reconcile, job[j].pc # "bind",
         UNCHANGED <<fed, spec, joints, rows, tasks, remote, cluster>>
  PROVE  FedInv'
<1>1. /\ OtherJobs(j) /\ excused' = excused \cup {job[j].cl}
      /\ \/ /\ job[j].kind # "sync"
            /\ job'[j].kind = "none" /\ job'[j].pc = "done" /\ job'[j].todo = {}
         \/ /\ job[j].kind = "sync"
            /\ Fields(job'[j], "sync", "loop", job[j].obj, job[j].cl, NoCopy, 0, job[j].todo)
         \/ /\ job[j].kind = "attachRole"
            /\ Fields(job'[j], "attachRole", "attachFail", job[j].obj, job[j].cl, NoCopy, 0,
                      job[j].todo)
  BY JobFacts, JobReturns
<1>2. excused \subseteq excused' /\ spec <= spec' /\ FedMoves
  BY <1>1, JobFacts DEF FedMoves, Exists
<1>3. SyncMoves(j)
  BY <1>1 DEF SyncMoves, Syncs, Fields
<1>4. JobBorn(j)
  BY <1>1, JobFacts DEF JobBorn, Fields
<1>5. JobKnows(job[j])'
  <2>1. job[j].todo # {} => job[j].kind = "sync"
    BY JobFacts DEF JobKnows
  <2> QED
    BY <1>1, <2>1, StagesHold DEF JobKnows, Fields, Reconcile
<1>6. DriftMoves(j)
  <2> SUFFICES ASSUME NEW k \in Clusters, k \notin excused', FreshJob(j, k)
               PROVE  FreshJob(j, k)'
    BY <1>1, <1>2 DEF DriftMoves, Drifts
  <2>1. job[j].kind = "sync" /\ job[j].obj = "role" /\ k \in job[j].todo
    BY <1>1 DEF FreshJob, Reconcile
  <2> QED
    BY <1>1, <2>1 DEF FreshJob, Fields
<1> QED
  BY <1>1, <1>2, <1>3, <1>4, <1>5, <1>6, JobStepKeeps

\* Steps of a synchronisation.
LEMMA SyncStepKeeps ==
  ASSUME FedInv, TypeOK', NEW j \in Jobs,
         \/ SyncOnInit(j) \/ SyncList(j) \/ OnSyncComplete(j) \/ OnSyncCompleteFailed(j)
         \/ \E k \in Clusters : SyncNext(j, k)
  PROVE  FedInv'
<1> DEFINE o == job[j].obj
<1>1. /\ job[j].kind = "sync" /\ job[j].pc \in {"init", "list", "loop", "syncFail"}
      /\ spec' = spec /\ UNCHANGED <<joints, rows, tasks, remote, cluster>>
      /\ job[j].pc # "bind" /\ o \in Objs /\ spec <= spec' /\ job[j].todo \in SUBSET Clusters
      /\ JobKnows(job[j]) /\ fed[o] # "absent"
  <2>1. /\ job[j].pc \in {"init", "list", "loop", "syncFail"} /\ spec' = spec
        /\ UNCHANGED <<joints, rows, tasks, remote, cluster>>
    BY DEF SyncOnInit, SyncList, OnSyncComplete, OnSyncCompleteFailed, SyncNext, rowVars
  <2>2. job[j].kind = "sync"
    BY <2>1, JobFacts, StageOf
  <2> QED
    BY <2>1, <2>2, JobFacts
<1>2. CASE SyncOnInit(j)
  <2>1. \A p \in Objs : fed'[p] = IF p = o /\ Exists(o) THEN "syncing" ELSE fed[p]
    BY <1>2, JobFacts, StagesTyped, FedSet DEF SyncOnInit
  <2>2. FedMoves /\ excused \subseteq excused'
    BY <1>2, <2>1 DEF FedMoves, Exists, SyncOnInit
  <2>3. CASE Exists(o)
    <3>1. OtherJobs(j) /\ Fields(job'[j], "sync", "list", o, job[j].cl, job[j].copy, job[j].res,
                                 job[j].todo)
      BY <1>1, <1>2, <2>3, JobFacts, StagesTyped, JobGoes DEF SyncOnInit
    <3>2. SyncMoves(j) /\ JobBorn(j)
      BY <1>1, <1>2, <2>1, <2>3, <3>1 DEF SyncMoves, Syncs, JobBorn, Fields, SyncOnInit
    <3>3. JobKnows(job[j])'
      BY <1>1, <1>2, <3>1, StagesHold DEF JobKnows, Fields, Reconcile, SyncOnInit
    <3>4. DriftMoves(j)
      BY <1>1, <3>1 DEF DriftMoves, FreshJob, Fields
    <3> QED
      BY <1>1, <2>2, <3>1, <3>2, <3>3, <3>4, JobStepKeeps
  <2>4. CASE ~Exists(o)
    <3>1. OtherJobs(j) /\ job'[j].kind = "none" /\ job'[j].pc = "done" /\ job'[j].todo = {}
      BY <1>2, <2>4, JobFacts, JobEnds DEF SyncOnInit
    <3>2. SyncMoves(j) /\ JobBorn(j)
      BY <1>2, <2>1, <2>4, <3>1 DEF SyncMoves, Syncs, JobBorn, SyncOnInit
    <3>3. JobKnows(job[j])'
      BY <3>1, StagesHold DEF JobKnows, Reconcile
    <3>4. DriftMoves(j)
      BY <1>1, <2>2, <2>4, StagesTyped DEF DriftMoves, FreshJob, Drifts, FedMoves
    <3> QED
      BY <1>1, <2>2, <3>1, <3>2, <3>3, <3>4, JobStepKeeps
  <2> QED
    BY <2>3, <2>4
<1>3. CASE SyncList(j)
  <2>1. FedMoves /\ fed' = fed /\ job[j].pc = "list"
    BY <1>3 DEF FedMoves, SyncList, Exists
  <2>2. CASE /\ job' = [job EXCEPT ![j].todo = GetAttachedClusters(o), ![j].pc = "loop"]
             /\ UNCHANGED <<faults, excused>>
    <3> DEFINE s == GetAttachedClusters(o)
    <3>1. s \in SUBSET Clusters
      BY DEF GetAttachedClusters
    <3>2. job' = [job EXCEPT ![j].todo = s, ![j].pc = "loop"]
      BY <2>2
    <3> HIDE DEF s
    <3>3. OtherJobs(j) /\ Fields(job'[j], "sync", "loop", o, job[j].cl, job[j].copy, job[j].res, s)
      <4>1. job \in [Jobs -> JobType] /\ "loop" \in JobStates
        BY JobFacts, StagesTyped
      <4>2. /\ OtherJobs(j)
            /\ Fields(job'[j], job[j].kind, "loop", job[j].obj, job[j].cl, job[j].copy,
                      job[j].res, s)
        BY <3>1, <3>2, <4>1, JobLists
      <4> QED
        BY <1>1, <4>2
    <3>4. SyncMoves(j) /\ JobBorn(j)
      BY <1>1, <2>1, <3>3 DEF SyncMoves, Syncs, JobBorn, Fields
    <3>5. JobKnows(job[j])'
      BY <1>1, <3>3, StagesHold DEF JobKnows, Fields, Reconcile
    <3>6. DriftMoves(j)
      <4> SUFFICES ASSUME NEW k \in Clusters, Drifts(k)', FreshJob(j, k)
                   PROVE  FreshJob(j, k)'
        BY <1>1 DEF DriftMoves
      <4>1. o = "role" /\ Attached("role", k) # {} /\ cluster[k] # "gone"
        BY <1>1 DEF FreshJob, Drifts, Attached
      <4>2. k \in s
        BY <4>1 DEF s, GetAttachedClusters
      <4> QED
        BY <3>3, <4>1, <4>2 DEF FreshJob, Fields
    <3>7. excused \subseteq excused'
      BY <2>2
    <3> QED
      BY <1>1, <2>1, <3>3, <3>4, <3>5, <3>6, <3>7, JobStepKeeps
  <2>3. CASE Goto(j, "syncFail") /\ excused' = Clusters
    <3>1. OtherJobs(j) /\ Fields(job'[j], "sync", "syncFail", o, job[j].cl, job[j].copy,
                                 job[j].res, job[j].todo)
      BY <1>1, <2>3, JobFacts, StagesTyped, JobGoes
    <3>2. SyncMoves(j) /\ JobBorn(j)
      BY <1>1, <2>1, <3>1 DEF SyncMoves, Syncs, JobBorn, Fields
    <3>3. JobKnows(job[j])'
      BY <1>1, <2>1, <3>1, StagesHold DEF JobKnows, Fields, Reconcile
    <3>4. DriftMoves(j) /\ excused \subseteq excused'
      BY <2>3, TypesSplit DEF DriftMoves, Drifts, FedInv
    <3> QED
      BY <1>1, <2>1, <3>1, <3>2, <3>3, <3>4, JobStepKeeps
  <2> QED
    BY <1>3, <2>2, <2>3 DEF SyncList
<1>4. CASE OnSyncComplete(j) \/ OnSyncCompleteFailed(j)
  <2>1. PICK s \in {"active", "sync_fail"} : SetFedStatus(o, s)
    BY <1>4 DEF OnSyncComplete, OnSyncCompleteFailed
  <2>2. \A p \in Objs : fed'[p] = IF p = o /\ Exists(o) THEN s ELSE fed[p]
    BY <1>1, <2>1, JobFacts, StagesTyped, FedSet
  <2>3. /\ OtherJobs(j) /\ job'[j].kind = "none" /\ job'[j].pc = "done" /\ job'[j].todo = {}
        /\ excused \subseteq excused'
    BY <1>4, JobFacts, JobEnds DEF OnSyncComplete, OnSyncCompleteFailed
  <2>4. FedMoves /\ SyncMoves(j) /\ JobBorn(j)
    BY <1>1, <2>2, <2>3 DEF FedMoves, SyncMoves, Syncs, JobBorn, Exists
  <2>5. JobKnows(job[j])'
    BY <2>3, StagesHold DEF JobKnows, Reconcile
  <2>6. DriftMoves(j)
    <3>1. job[j].todo = {} /\ job[j].pc \in {"loop", "syncFail"}
      BY <1>1, <1>4 DEF JobKnows, OnSyncComplete, OnSyncCompleteFailed, Reconcile
    <3> QED
      BY <1>1, <3>1 DEF DriftMoves, FreshJob, Reconcile
  <2> QED
    BY <1>1, <2>3, <2>4, <2>5, <2>6, JobStepKeeps
<1>5. ASSUME NEW k \in Clusters, SyncNext(j, k)
      PROVE  FedInv'
  <2>1. /\ OtherJobs(j) /\ job[j].pc = "loop" /\ k \in job[j].todo
        /\ Fields(job'[j], "sync", "load", o, k, job[j].copy, job[j].res, job[j].todo \ {k})
    <3>1. /\ job[j].pc = "loop" /\ k \in job[j].todo /\ "load" \in JobStates
          /\ job' = [job EXCEPT ![j].todo = @ \ {k}, ![j].cl = k, ![j].pc = "load"]
      BY <1>5, StagesTyped DEF SyncNext
    <3>2. OtherJobs(j) /\ Fields(job'[j], job[j].kind, "load", o, k, job[j].copy, job[j].res,
                                 job[j].todo \ {k})
      BY <3>1, JobFacts, JobTakes
    <3> QED
      BY <1>1, <3>1, <3>2
  <2>2. FedMoves /\ SyncMoves(j) /\ JobBorn(j) /\ excused \subseteq excused'
    BY <1>1, <1>5, <2>1 DEF FedMoves, SyncMoves, Syncs, JobBorn, Exists, SyncNext, Fields
  <2>3. JobKnows(job[j])'
    BY <1>1, <2>1, StagesHold DEF JobKnows, Fields, Reconcile
  <2>4. DriftMoves(j)
    BY <1>1, <2>1 DEF DriftMoves, FreshJob, Fields, Reconcile
  <2> QED
    BY <1>1, <2>1, <2>2, <2>3, <2>4, JobStepKeeps
<1> QED
  BY <1>2, <1>3, <1>4, <1>5

\* A request deletes a federated object.
LEMMA DeleteKeeps ==
  ASSUME FedInv, TypeOK', NEW j \in Jobs, DeleteFed(j)
  PROVE  FedInv'
<1>1. /\ job[j].pc = "delete" /\ job[j].kind = "delete"
      /\ fed' = [fed EXCEPT ![job[j].obj] = "deleted"] /\ End(j)
      /\ UNCHANGED <<spec, joints, rows, tasks, remote, cluster, excused>>
  <2>1. job[j].pc = "delete"
    BY DEF DeleteFed
  <2> QED
    BY <2>1, JobFacts, StageOf DEF DeleteFed, rowVars
<1>2. /\ OtherJobs(j) /\ job'[j].kind = "none" /\ job'[j].pc = "done" /\ job'[j].todo = {}
  BY <1>1, JobFacts, JobEnds
<1>3. FedMoves /\ SyncMoves(j) /\ JobBorn(j) /\ spec <= spec'
  BY <1>1, <1>2, JobFacts DEF FedMoves, SyncMoves, Syncs, JobBorn, Exists
<1>4. JobKnows(job[j])'
  BY <1>2, StagesHold DEF JobKnows, Reconcile
<1>5. DriftMoves(j)
  BY <1>1, NothingFresh DEF DriftMoves, Reconcile
<1> QED
  BY <1>1, <1>2, <1>3, <1>4, <1>5, JobStepKeeps DEF Reconcile

\* An attach task moves on before it reconciles.
LEMMA AttachMoves ==
  ASSUME FedInv, TypeOK', NEW j \in Jobs, NEW o \in Objs,
         NEW p \in {"attachFail", "poll", "valid", "load", "just"},
         job[j].kind = "attachRole", job[j].pc \in {"ensure", "poll", "valid"},
         o \in {job[j].obj, "role"} \/ Exists(o),
         job' = [job EXCEPT ![j].obj = o, ![j].pc = p],
         UNCHANGED <<fed, spec, joints, rows, tasks, remote, cluster, excused>>
  PROVE  FedInv'
<1>1. OtherJobs(j) /\ Fields(job'[j], job[j].kind, p, o, job[j].cl, job[j].copy, job[j].res,
                             job[j].todo)
  <2>1. p \in JobStates /\ job \in [Jobs -> JobType]
    BY StagesTyped, JobFacts
  <2> QED
    BY <2>1, JobTurns
<1>2. FedMoves /\ SyncMoves(j) /\ spec <= spec'
  BY JobFacts DEF FedMoves, SyncMoves, Syncs, Exists
<1>3. JobBorn(j)
  BY <1>1, JobFacts DEF JobBorn, Fields, Exists
<1>4. JobKnows(job[j])'
  <2>1. job[j].todo = {} /\ p \in Stages["attachRole"] /\ p \notin Reconcile \ {"load"}
    BY JobFacts, StagesHold DEF JobKnows, Reconcile
  <2> QED
    BY <1>1, <2>1 DEF JobKnows, Fields, Reconcile
<1>5. DriftMoves(j)
  BY NothingFresh DEF DriftMoves, Reconcile
<1> QED
  BY <1>1, <1>2, <1>3, <1>4, <1>5, JobStepKeeps

\* Steps of an attach task.
LEMMA AttachStepKeeps ==
  ASSUME FedInv, TypeOK', NEW j \in Jobs,
         \/ EnsureFedNamespaceAttached(j) \/ PollNamespace(j) \/ ValidateAttachCluster(j)
         \/ OnAttachCompleteFailed(j)
  PROVE  FedInv'
<1>1. /\ job[j].kind = "attachRole" /\ job[j].pc \in {"ensure", "poll", "valid", "attachFail"}
      /\ UNCHANGED <<spec, joints, rows, tasks, remote, cluster, excused>>
      /\ "ns" \in Objs /\ "role" \in Objs /\ job[j].obj \in Objs
      /\ job \in [Jobs -> JobType]
  <2>1. /\ job[j].pc \in {"ensure", "poll", "valid", "attachFail"}
        /\ UNCHANGED <<spec, joints, rows, tasks, remote, cluster, excused>>
    BY DEF EnsureFedNamespaceAttached, PollNamespace, ValidateAttachCluster,
           OnAttachCompleteFailed, rowVars
  <2> QED
    BY <2>1, JobFacts, StageOf, StagesTyped
<1>2. ASSUME NEW p \in {"attachFail", "poll", "valid"}, Goto(j, p),
             job[j].pc \in {"ensure", "poll"}, fed' = fed
      PROVE  FedInv'
  <2>1. job' = [job EXCEPT ![j].obj = job[j].obj, ![j].pc = p]
    <3>1. job[j] \in JobType
      BY <1>1
    <3>2. [job[j] EXCEPT !.pc = p] = [job[j] EXCEPT !.obj = job[j].obj, !.pc = p]
      BY <3>1 DEF JobType
    <3> QED
      BY <1>1, <1>2, <3>2 DEF Goto
  <2> QED
    BY <1>1, <1>2, <2>1, AttachMoves
<1>3. CASE EnsureFedNamespaceAttached(j)
  <2> DEFINE p == IF Attached("ns", job[j].cl) # {} THEN "load" ELSE "just"
  <2>1. \/ Goto(j, "attachFail") \/ Goto(j, "poll")
        \/ job' = [job EXCEPT ![j].obj = "ns", ![j].pc = p] /\ Exists("ns")
    BY <1>3 DEF EnsureFedNamespaceAttached
  <2>2. p \in {"load", "just"} /\ job[j].pc = "ensure" /\ fed' = fed
    BY <1>3 DEF EnsureFedNamespaceAttached
  <2> HIDE DEF p
  <2> QED
    BY <1>1, <1>2, <2>1, <2>2, AttachMoves
<1>4. CASE PollNamespace(j)
  BY <1>2, <1>4 DEF PollNamespace
<1>5. CASE ValidateAttachCluster(j)
  <2> DEFINE p == IF /\ cluster[job[j].cl] # "gone" /\ Attached("role", job[j].cl) = {}
                     /\ Exists("ns")
                  THEN "just" ELSE "attachFail"
  <2>1. job' = [job EXCEPT ![j].obj = "role", ![j].pc = p] /\ fed' = fed /\ job[j].pc = "valid"
    BY <1>5 DEF ValidateAttachCluster
  <2>2. p \in {"just", "attachFail"}
    OBVIOUS
  <2> HIDE DEF p
  <2> QED
    BY <1>1, <2>1, <2>2, AttachMoves
<1>6. CASE OnAttachCompleteFailed(j)
  <2>1. \A q \in Objs : fed'[q] = IF q = "role" /\ Exists("role") THEN "update_fail" ELSE fed[q]
    BY <1>1, <1>6, JobFacts, StagesTyped, FedSet DEF OnAttachCompleteFailed
  <2>2. /\ OtherJobs(j) /\ job'[j].kind = "none" /\ job'[j].pc = "done" /\ job'[j].todo = {}
        /\ job[j].pc = "attachFail" /\ excused \subseteq excused'
    BY <1>1, <1>6, JobEnds DEF OnAttachCompleteFailed
  <2>3. FedMoves /\ SyncMoves(j) /\ JobBorn(j) /\ spec <= spec'
    BY <1>1, <2>1, <2>2, JobFacts DEF FedMoves, SyncMoves, Syncs, JobBorn, Exists
  <2>4. JobKnows(job[j])'
    BY <2>2, StagesHold DEF JobKnows, Reconcile
  <2>5. DriftMoves(j)
    BY <1>1, <2>2, NothingFresh DEF DriftMoves, Reconcile
  <2> QED
    BY <1>1, <2>2, <2>3, <2>4, <2>5, JobStepKeeps
<1> QED
  BY <1>3, <1>4, <1>5, <1>6

\* A reconciliation moves on, and knows what it has found.
LEMMA ReconcileMoves ==
  ASSUME FedInv, TypeOK', NEW j \in Jobs, OtherJobs(j), NEW p \in {"exist", "make", "update"},
         job[j].pc \in {"load", "exist"},
         job'[j].kind = job[j].kind, job'[j].pc = p, job'[j].obj = job[j].obj,
         job'[j].cl = job[j].cl, job'[j].todo = job[j].todo,
         job'[j].copy.id \in DOMAIN joints,
         joints[job'[j].copy.id].obj = job[j].obj, joints[job'[j].copy.id].cl = job[j].cl,
         job'[j].copy.res # 0 => RowOf(job'[j].copy.res, job[j].obj, job[j].cl),
         p = "update" => RowOf(job'[j].res, job[j].obj, job[j].cl),
         UNCHANGED <<fed, spec, joints, rows, tasks, remote, cluster, excused>>
  PROVE  FedInv'
<1>1. FedMoves /\ SyncMoves(j) /\ spec <= spec'
  BY JobFacts DEF FedMoves, SyncMoves, Syncs, Exists
<1>2. JobBorn(j)
  BY JobFacts DEF JobBorn
<1>3. JobKnows(job[j])'
  <2>1. /\ job[j].kind \in {"attachNs", "attachRole", "sync", "syncCluster"}
        /\ p \in Reconcile
        /\ job[j].todo # {} => job[j].kind = "sync"
    BY JobFacts, StageOf DEF JobKnows, Reconcile
  <2>2. p \in Stages[job[j].kind]
    BY <2>1, StagesHold
  <2> QED
    BY <2>1, <2>2 DEF JobKnows, RowOf
<1>4. DriftMoves(j)
  BY DEF DriftMoves, FreshJob, Reconcile
<1> QED
  BY <1>1, <1>2, <1>3, <1>4, JobStepKeeps

\* The joint row is loaded and the cluster's row looked up.
LEMMA FindStepKeeps ==
  ASSUME FedInv, TypeOK', NEW j \in Jobs, ValidateJointCluster(j) \/ IsResourceExist(j)
  PROVE  FedInv'
<1> DEFINE o == job[j].obj
           k == job[j].cl
<1>1. /\ JobKnows(job[j]) /\ job \in [Jobs -> JobType] /\ job[j].pc \in {"load", "exist"}
      /\ UNCHANGED <<fed, spec, joints, rows, tasks, remote, cluster>>
      /\ joints \in Seq(JointType) /\ rows \in Seq(RowType) /\ MaxRows \in Nat
      /\ Len(rows) <= MaxRows
  BY JobFacts, TypesSplit, FederationAssumption
     DEF ValidateJointCluster, IsResourceExist, rowVars, FedInv
<1>2. CASE Return(j, FALSE)
  BY <1>1, <1>2, ReturnKeeps DEF Reconcile
<1>3. CASE ValidateJointCluster(j) /\ ~Return(j, FALSE)
  <2>1. PICK i \in Attached(o, k) :
          job' = [job EXCEPT ![j].copy = [id |-> i, res |-> joints[i].res], ![j].pc = "exist"]
    BY <1>3 DEF ValidateJointCluster
  <2>2. excused' = excused /\ job[j].pc = "load"
    BY <1>3 DEF ValidateJointCluster
  <2>3. i \in DOMAIN joints /\ joints[i].obj = o /\ joints[i].cl = k
    BY DEF Attached
  <2> DEFINE c == [id |-> i, res |-> joints[i].res]
  <2>4. c \in [id : Nat, res : 0..MaxRows] /\ c.id = i /\ c.res = joints[i].res
    <3>1. i \in Nat /\ joints[i] \in JointType
      BY <1>1, <2>3, SeqDomain
    <3> QED
      BY <3>1 DEF JointType
  <2>5. job' = [job EXCEPT ![j].copy = c, ![j].pc = "exist"]
    BY <2>1
  <2> HIDE DEF c
  <2>6. OtherJobs(j) /\ Fields(job'[j], job[j].kind, "exist", job[j].obj, job[j].cl, c,
                               job[j].res, job[j].todo)
    BY <1>1, <2>4, <2>5, StagesTyped, JobLoads
  <2>7. joints[i].res # 0 => RowOf(joints[i].res, o, k)
    BY <2>3 DEF FedInv, JointsKnow
  <2> QED
    BY <1>1, <2>2, <2>3, <2>4, <2>6, <2>7, ReconcileMoves DEF Fields
<1>4. CASE IsResourceExist(j) /\ ~Return(j, FALSE)
  <2> DEFINE id == job[j].copy.res
             found == IF id = 0 THEN ByName(o, k) ELSE ById(id, k)
  <2>1. excused' = excused /\ job[j].pc = "exist"
    BY <1>4 DEF IsResourceExist
  <2>2. \/ Goto(j, "make")
        \/ \E r \in found : job' = [job EXCEPT ![j].res = r, ![j].pc = "update"]
    BY <1>4 DEF IsResourceExist
  <2>3. /\ job[j].copy.id \in DOMAIN joints
        /\ joints[job[j].copy.id].obj = o /\ joints[job[j].copy.id].cl = k
        /\ job[j].copy.res # 0 => RowOf(job[j].copy.res, o, k)
    BY <1>1, <2>1 DEF JobKnows, Reconcile
  <2>4. CASE Goto(j, "make")
    <3>1. OtherJobs(j) /\ Fields(job'[j], job[j].kind, "make", job[j].obj, job[j].cl,
                                 job[j].copy, job[j].res, job[j].todo)
      BY <1>1, <2>4, StagesTyped, JobGoes
    <3> QED
      BY <1>1, <2>1, <2>3, <3>1, ReconcileMoves DEF Fields
  <2>5. ASSUME NEW r \in found, job' = [job EXCEPT ![j].res = r, ![j].pc = "update"]
        PROVE  FedInv'
    <3>1. RowOf(r, o, k)
      BY <2>3 DEF ByName, ById, Live, RowOf
    <3>2. r \in 0..MaxRows
      <4>1. Len(rows) \in Nat /\ r \in 1..Len(rows)
        BY <1>1, <3>1, SeqDomain DEF RowOf
      <4> QED
        BY <1>1, <4>1
    <3>3. OtherJobs(j) /\ Fields(job'[j], job[j].kind, "update", job[j].obj, job[j].cl,
                                 job[j].copy, r, job[j].todo)
      BY <1>1, <2>5, <3>2, StagesTyped, JobFinds
    <3> QED
      BY <1>1, <2>1, <2>3, <3>1, <3>3, ReconcileMoves DEF Fields
  <2> QED
    BY <2>2, <2>4, <2>5
<1> QED
  BY <1>2, <1>3, <1>4

-----------------------------------------------------------------------------
(* The steps of a job that attach, insert and bind *)

\* An object is attached.
LEMMA AttachKeeps ==
  ASSUME FedInv, TypeOK', NEW j \in Jobs, JustAttachCluster(j)
  PROVE  FedInv'
<1> DEFINE o == job[j].obj
           k == job[j].cl
           n == Len(joints) + 1
<1>1. /\ job[j].pc = "just" /\ job[j].kind \in {"attachNs", "attachRole"}
      /\ UNCHANGED <<fed, spec, rows, tasks, remote, cluster>>
      /\ joints \in Seq(JointType) /\ o \in Objs /\ k \in Clusters /\ job[j].todo = {}
      /\ job \in [Jobs -> JobType] /\ spec <= spec'
  <2>1. job[j].pc = "just" /\ UNCHANGED <<fed, spec, rows, tasks, remote, cluster>>
    BY DEF JustAttachCluster, rowVars
  <2>2. job[j].kind \in {"attachNs", "attachRole"}
    BY <2>1, JobFacts, StageOf
  <2>3. job[j].todo = {}
    BY <2>2, JobFacts DEF JobKnows
  <2>4. TypeOK
    BY DEF FedInv
  <2>5. spec <= spec'
    BY <2>1, JobFacts
  <2> QED
    BY <2>1, <2>2, <2>3, <2>4, <2>5, JobFacts, TypesSplit
<1>2. CASE Return(j, FALSE) /\ UNCHANGED joints
  BY <1>1, <1>2, ReturnKeeps
<1>3. CASE ~(Return(j, FALSE) /\ UNCHANGED joints)
  <2>1. /\ Attached(o, k) = {} /\ excused' = excused /\ Goto(j, "load")
        /\ joints' = Append(joints, [obj |-> o, cl |-> k, res |-> 0, live |-> TRUE])
    BY <1>3 DEF JustAttachCluster
  <2>2. /\ DOMAIN joints' = DOMAIN joints \cup {n} /\ n \notin DOMAIN joints /\ JointsKept
        /\ \A i \in DOMAIN joints : joints'[i] = joints[i]
        /\ joints'[n].obj = o /\ joints'[n].cl = k /\ joints'[n].res = 0 /\ joints'[n].live
    BY <1>1, <2>1, JointAdded
  <2>3. OtherJobs(j) /\ Fields(job'[j], job[j].kind, "load", o, k, job[j].copy, job[j].res,
                               job[j].todo)
    BY <1>1, <2>1, StagesTyped, JobGoes
  <2> HIDE DEF n
  <2>4. RowsKept
    BY <1>1 DEF RowsKept
  <2>5. JobsKnow'
    <3>1. JobKnows(job[j])'
      BY <1>1, <2>3, StagesHold DEF JobKnows, Fields, Reconcile
    <3> QED
      BY <2>2, <2>3, <2>4, <3>1, JobsKnowKept DEF OtherJobs, FedInv
  <2>6. JointsKnow'
    BY <2>2, <2>4, JointsKnowKept DEF FedInv
  <2>7. TasksKnow'
    BY <1>1, <2>1, <2>4, TasksKnowKept DEF FedInv
  <2>8. Born'
    <3>1. fed[o] # "absent" /\ (job[j].kind = "attachRole" => fed["role"] # "absent")
      BY <1>1, JobFacts
    <3>2. \A i \in Jobs :
            \/ job'[i] = job[i] \/ job'[i].kind = "none"
            \/ /\ job'[i].obj \in Objs /\ fed[job'[i].obj] # "absent"
               /\ job'[i].kind = "attachRole" => fed["role"] # "absent"
      BY <1>1, <2>3, <3>1 DEF OtherJobs, Fields
    <3> QED
      BY <1>1, <2>2, <3>1, <3>2, BornKept, StagesTyped DEF FedInv
  <2>9. AttachedOnce'
    BY <2>1, <2>2 DEF AttachedOnce, FedInv, Attached
  <2>10. OneRowPerName'
    BY <1>1, <2>4, OneRowKept DEF FedInv
  <2>11. RowsServed'
    <3>1. \A i \in Jobs : job[i].pc = "bind" => job'[i] = job[i]
      BY <1>1, <2>3 DEF OtherJobs
    <3> QED
      BY <1>1, <3>1 DEF RowsServed, FedInv
  <2>12. SyncServed'
    BY <1>1, <2>3, SyncServedKept DEF FedInv, Syncs
  <2>13. ASSUME NEW m \in Clusters, Drifts(m)'
         PROVE  Fresh(m)'
    <3>1. CASE o = "role" /\ k = m
      BY <2>3, <3>1 DEF Fresh, FreshJob, Fields, Reconcile
    <3>2. CASE ~(o = "role" /\ k = m)
      <4>1. Attached("role", m)' \subseteq Attached("role", m)
        BY <2>2, <3>2 DEF Attached
      <4>2. Drifts(m)
        BY <1>1, <2>1, <2>13, <4>1 DEF Drifts, Exists, Creating
      <4>3. Fresh(m)
        BY <4>2 DEF FedInv, DriftTracked
      <4>4. \A i \in Jobs : FreshJob(i, m) => Fresh(m)'
        BY <1>1, <2>3 DEF OtherJobs, FreshJob, Fresh, Reconcile
      <4>5. \A t \in DOMAIN tasks : FreshTask(t, m) =>
              \E a \in DOMAIN tasks' :
                /\ tasks'[a].type = tasks[t].type /\ tasks'[a].row = tasks[t].row
                /\ tasks'[a].spec = tasks[t].spec /\ tasks'[a].pc \in {"init", "call"}
        BY <1>1 DEF FreshTask
      <4> QED
        BY <1>1, <2>4, <4>3, <4>4, <4>5, FreshKept
    <3> QED
      BY <3>1, <3>2
  <2> QED
    BY <2>5, <2>6, <2>7, <2>8, <2>9, <2>10, <2>11, <2>12, <2>13 DEF FedInv, DriftTracked
<1> QED
  BY <1>2, <1>3

\* A row is inserted under a free name.
LEMMA InsertedUnique ==
  ASSUME FedInv, Len(rows) < MaxRows, NEW o \in Objs, NEW k \in Clusters, NEW s \in RowStatus,
         o = "role" => NsRows(k) # {}, ByName(o, k) = {}, rows' = Append(rows, NewRow(o, k, s))
  PROVE  OneRowPerName'
<1> DEFINE n == Len(rows) + 1
<1>1. /\ DOMAIN rows' = DOMAIN rows \cup {n} /\ n \notin DOMAIN rows
      /\ \A i \in DOMAIN rows : rows'[i] = rows[i]
      /\ rows'[n].obj = o /\ rows'[n].cl = k
      /\ o = "ns" => rows'[n].ns = 0
      /\ o = "role" => rows'[n].ns \in NsRows(k)
  <2>1. rows \in Seq(RowType)
    BY TypesSplit DEF FedInv
  <2> QED
    BY <2>1, RowInserted
<1> HIDE DEF n
<1>2. ASSUME NEW a \in DOMAIN rows, rows[a].status # "gone", rows[a].obj = o, rows[a].cl = k,
             rows[a].ns = rows'[n].ns
      PROVE  FALSE
  <2>1. a \in ByName(o, k)
    BY <1>1, <1>2 DEF ByName, Live, Objs
  <2> QED
    BY <2>1
<1> QED
  BY <1>1, <1>2 DEF OneRowPerName, FedInv, Live

\* A drift of a table that only loses roles and gains rows was there before.
LEMMA DriftsBefore ==
  ASSUME FedInv, NEW k \in Clusters, Drifts(k)', RowsKept, JointsKept,
         DOMAIN joints' = DOMAIN joints,
         spec' = spec, cluster'[k] = cluster[k], remote'["role"][k] = remote["role"][k],
         Exists("role")' => Exists("role"), excused \subseteq excused',
         \A a \in DOMAIN tasks' : tasks'[a].type = "create" => \E t \in DOMAIN tasks :
           /\ tasks'[a].type = tasks[t].type /\ tasks'[a].row = tasks[t].row
           /\ tasks'[a].pc \in {"init", "call"} => tasks[t].pc \in {"init", "call"}
  PROVE  Drifts(k)
<1>1. Attached("role", k) # {}
  BY DEF Drifts, Attached, JointsKept
<1>2. Creating(k)' => Creating(k)
  <2> SUFFICES ASSUME NEW a \in DOMAIN tasks', tasks'[a].type = "create",
                      tasks'[a].pc \in {"init", "call"}, rows'[tasks'[a].row].obj = "role",
                      rows'[tasks'[a].row].cl = k
               PROVE  Creating(k)
    BY DEF Creating
  <2>1. PICK t \in DOMAIN tasks :
           /\ tasks'[a].type = tasks[t].type /\ tasks'[a].row = tasks[t].row
           /\ tasks'[a].pc \in {"init", "call"} => tasks[t].pc \in {"init", "call"}
    OBVIOUS
  <2>2. tasks[t].row \in DOMAIN rows
    BY DEF FedInv, TasksKnow
  <2> QED
    BY <2>1, <2>2 DEF Creating, RowsKept
<1> QED
  BY <1>1, <1>2 DEF Drifts

\* A row of the cluster is inserted for a federated object.
LEMMA CreateKeeps ==
  ASSUME FedInv, TypeOK', NEW j \in Jobs, CreateResource(j)
  PROVE  FedInv'
<1> DEFINE o == job[j].obj
           k == job[j].cl
           n == Len(rows) + 1
<1>1. /\ job[j].pc = "make" /\ UNCHANGED <<fed, spec, joints, tasks, remote, cluster>>
      /\ job \in [Jobs -> JobType] /\ o \in Objs /\ k \in Clusters /\ JobKnows(job[j])
      /\ spec <= spec' /\ rows \in Seq(RowType)
      /\ job[j].kind \in {"attachNs", "attachRole", "sync", "syncCluster"}
  <2>1. job[j].pc = "make" /\ UNCHANGED <<fed, spec, joints, tasks, remote, cluster>>
    BY DEF CreateResource
  <2>2. spec <= spec' /\ job[j].kind \in {"attachNs", "attachRole", "sync", "syncCluster"}
    BY <2>1, JobFacts, StageOf DEF Reconcile
  <2>3. TypeOK
    BY DEF FedInv
  <2> QED
    BY <2>1, <2>2, <2>3, JobFacts, TypesSplit
<1>2. CASE Return(j, FALSE) /\ UNCHANGED rows
  BY <1>1, <1>2, ReturnKeeps DEF Reconcile
<1>3. CASE ~(Return(j, FALSE) /\ UNCHANGED rows)
  <2>1. /\ CanCreate(o, k) /\ Len(rows) < MaxRows /\ excused' = excused
        /\ rows' = Append(rows, NewRow(o, k, "init"))
        /\ job' = [job EXCEPT ![j].res = n, ![j].pc = "bind"]
    BY <1>3 DEF CreateResource
  <2>2. /\ (o = "role" => NsRows(k) # {}) /\ ByName(o, k) = {} /\ "init" \in RowStatus
    BY <2>1 DEF CanCreate, HasNamespace, RowStatus
  <2>3. /\ DOMAIN rows' = DOMAIN rows \cup {n} /\ n \notin DOMAIN rows /\ RowsKept
        /\ n \in 0..MaxRows
        /\ \A i \in DOMAIN rows : rows'[i] = rows[i]
        /\ rows'[n].obj = o /\ rows'[n].cl = k /\ rows'[n].status = "init"
    BY <1>1, <2>1, <2>2, RowInserted
  <2> HIDE DEF n
  <2>4. OtherJobs(j) /\ Fields(job'[j], job[j].kind, "bind", o, k, job[j].copy, n, job[j].todo)
    BY <1>1, <2>1, <2>3, StagesTyped, JobFinds
  <2>5. JointsKept /\ DOMAIN joints' = DOMAIN joints
    BY <1>1 DEF JointsKept
  <2>6. JobsKnow'
    <3>1. JobKnows(job[j])'
      <4>1. "bind" \in Stages[job[j].kind]
        BY <1>1, StagesHold DEF Reconcile
      <4> QED
        BY <1>1, <2>3, <2>4, <4>1 DEF JobKnows, Fields, Reconcile, RowOf
    <3> QED
      BY <2>3, <2>4, <2>5, <3>1, JobsKnowKept DEF OtherJobs, FedInv
  <2>7. JointsKnow'
    BY <1>1, <2>3, <2>5, JointsKnowKept DEF FedInv
  <2>8. TasksKnow'
    BY <1>1, <2>1, <2>3, TasksKnowKept DEF FedInv
  <2>9. Born'
    <3>1. fed[o] # "absent" /\ (job[j].kind = "attachRole" => fed["role"] # "absent")
      BY <1>1, JobFacts
    <3>2. \A i \in Jobs :
            \/ job'[i] = job[i] \/ job'[i].kind = "none"
            \/ /\ job'[i].obj \in Objs /\ fed[job'[i].obj] # "absent"
               /\ job'[i].kind = "attachRole" => fed["role"] # "absent"
      BY <1>1, <2>4, <3>1 DEF OtherJobs, Fields
    <3> QED
      BY <1>1, <2>5, <3>2, BornKept, StagesTyped DEF FedInv
  <2>10. AttachedOnce'
    BY <2>5, AttachedKept DEF FedInv
  <2>11. OneRowPerName'
    BY <1>1, <2>1, <2>2, InsertedUnique DEF n
  <2>12. RowsServed'
    <3>1. ASSUME NEW r \in DOMAIN rows
          PROVE  /\ rows'[r].status = rows[r].status
                 /\ \A t \in DOMAIN tasks : tasks[t].row = r =>
                      \E a \in DOMAIN tasks' :
                        tasks'[a].row = r /\ (tasks[t].pc # "init" => tasks'[a].pc # "init")
                 /\ \A i \in Jobs : (job[i].pc = "bind" /\ job[i].res = r) =>
                      \/ job'[i].pc = "bind" /\ job'[i].res = r
                      \/ \E a \in DOMAIN tasks' : tasks'[a].row = r
      BY <1>1, <2>3, <2>4 DEF OtherJobs
    <3>2. rows'[n].status = "init" /\ job'[j].pc = "bind" /\ job'[j].res = n
      BY <2>3, <2>4 DEF Fields
    <3> QED
      BY <2>3, <3>1, <3>2, RowsServedKept DEF FedInv
  <2>13. SyncServed'
    BY <1>1, <2>4, SyncServedKept DEF FedInv, Syncs, Fields
  <2>14. ASSUME NEW m \in Clusters, Drifts(m)'
         PROVE  Fresh(m)'
    <3>1. Drifts(m)
      BY <1>1, <2>1, <2>3, <2>5, <2>14, DriftsBefore DEF Exists
    <3>2. Fresh(m)
      BY <3>1 DEF FedInv, DriftTracked
    <3>3. \A i \in Jobs : FreshJob(i, m) => Fresh(m)'
      BY <1>1, <2>4 DEF OtherJobs, FreshJob, Fresh, Reconcile, Fields
    <3>4. \A t \in DOMAIN tasks : FreshTask(t, m) =>
            \E a \in DOMAIN tasks' :
              /\ tasks'[a].type = tasks[t].type /\ tasks'[a].row = tasks[t].row
              /\ tasks'[a].spec = tasks[t].spec /\ tasks'[a].pc \in {"init", "call"}
      BY <1>1 DEF FreshTask
    <3> QED
      BY <1>1, <2>3, <3>2, <3>3, <3>4, FreshKept
  <2> QED
    BY <2>6, <2>7, <2>8, <2>9, <2>10, <2>11, <2>12, <2>13, <2>14 DEF FedInv, DriftTracked
<1> QED
  BY <1>2, <1>3

\* A joint row is bound to a row of the cluster, and the row's task started.
LEMMA BoundKeeps ==
  ASSUME FedInv, TypeOK', NEW j \in Jobs, job[j].pc \in {"bind", "update"}, SetResource(j),
         NEW ok \in BOOLEAN, Return(j, ok), NEW what \in {"create", "update"},
         IF ok THEN StartTask(what, job[j].res)
               ELSE tasks' = tasks /\ job[j].pc = "update",
         UNCHANGED <<fed, spec, rows, remote, cluster>>
  PROVE  FedInv'
<1> DEFINE o == job[j].obj
           k == job[j].cl
           r == job[j].res
           n == job[j].copy.id
           new == Len(tasks) + 1
<1>1. /\ job \in [Jobs -> JobType] /\ o \in Objs /\ k \in Clusters /\ RowOf(r, o, k)
      /\ n \in DOMAIN joints /\ joints[n].obj = o /\ joints[n].cl = k
      /\ r \in 0..MaxRows /\ r \in 1..MaxRows /\ spec <= spec'
      /\ spec \in 1..MaxSpec /\ tasks \in Seq(TaskType) /\ joints \in Seq(JointType)
      /\ JobKnows(job[j])
      /\ job[j].kind \in {"attachNs", "attachRole", "sync", "syncCluster"}
  <2>1. TypeOK
    BY DEF FedInv
  <2>2. job[j].kind \in {"attachNs", "attachRole", "sync", "syncCluster"} /\ spec <= spec'
    BY JobFacts, StageOf DEF Reconcile
  <2>3. /\ RowOf(r, o, k) /\ n \in DOMAIN joints /\ joints[n].obj = o /\ joints[n].cl = k
    BY JobFacts DEF JobKnows, Reconcile
  <2>4. r \in 1..MaxRows
    <3>1. rows \in Seq(RowType) /\ Len(rows) <= MaxRows
      BY <2>1, TypesSplit
    <3>2. Len(rows) \in Nat /\ r \in 1..Len(rows)
      BY <2>3, <3>1, SeqDomain DEF RowOf
    <3> QED
      BY <3>1, <3>2, FederationAssumption
  <2> QED
    BY <2>1, <2>2, <2>3, <2>4, JobFacts, TypesSplit
<1>2. /\ DOMAIN joints' = DOMAIN joints /\ JointsKept
      /\ \A m \in DOMAIN joints : m # n => joints'[m] = joints[m]
      /\ joints'[n].res = joints[n].res \/ joints'[n].res = r
  BY <1>1, JointBound
<1>3. /\ OtherJobs(j)
      /\ excused' = IF ok THEN excused ELSE excused \cup {k}
      /\ \/ /\ job[j].kind # "sync"
            /\ job'[j].kind = "none" /\ job'[j].pc = "done" /\ job'[j].todo = {}
         \/ /\ job[j].kind = "sync"
            /\ Fields(job'[j], "sync", "loop", o, k, NoCopy, 0, job[j].todo)
         \/ /\ job[j].kind = "attachRole"
            /\ Fields(job'[j], "attachRole", IF ok THEN "poll" ELSE "attachFail",
                      o, k, NoCopy, 0, job[j].todo)
  BY <1>1, JobReturns
<1>4. ok => /\ DOMAIN tasks' = DOMAIN tasks \cup {new} /\ new \notin DOMAIN tasks
            /\ \A i \in DOMAIN tasks : tasks'[i] = tasks[i]
            /\ tasks'[new] = [type |-> what, row |-> r, spec |-> spec, pc |-> "init"]
  <2>1. what \in TaskKinds
    BY DEF TaskKinds
  <2> QED
    BY <1>1, <2>1, TaskStarts
<1> HIDE DEF new, r, n, o, k
<1>5. ok => /\ tasks'[new].type = what /\ tasks'[new].row = r /\ tasks'[new].spec = spec
            /\ tasks'[new].pc = "init"
  BY <1>4
<1>6. RowsKept
  BY DEF RowsKept
<1>7. JobsKnow'
  <2>1. job[j].todo # {} => job[j].kind = "sync"
    BY <1>1 DEF JobKnows
  <2>2. JobKnows(job[j])'
    BY <1>3, <2>1, StagesHold DEF JobKnows, Fields, Reconcile
  <2> QED
    BY <1>2, <1>3, <1>6, <2>2, JobsKnowKept DEF OtherJobs, FedInv
<1>8. JointsKnow'
  <2>1. \A i \in DOMAIN joints' :
          \/ i \in DOMAIN joints /\ joints'[i].res = joints[i].res
          \/ RowOf(joints'[i].res, joints'[i].obj, joints'[i].cl)
    BY <1>1, <1>2 DEF JointsKept
  <2> QED
    BY <1>2, <1>6, <2>1, JointsKnowKept DEF FedInv
<1>9. TasksKnow'
  <2>1. \A a \in DOMAIN tasks' :
          \/ \E t \in DOMAIN tasks :
               /\ tasks'[a].type = tasks[t].type
               /\ tasks'[a].row = tasks[t].row /\ tasks'[a].spec = tasks[t].spec
          \/ /\ tasks'[a].row \in DOMAIN rows /\ tasks'[a].spec = spec
             /\ tasks'[a].type = "delete" => rows[tasks'[a].row].cl \in excused'
    BY <1>1, <1>4, <1>5 DEF RowOf
  <2> QED
    BY <1>1, <1>3, <1>6, <2>1, TasksKnowKept DEF FedInv
<1>10. Born'
  <2>1. fed[o] # "absent" /\ (job[j].kind = "attachRole" => fed["role"] # "absent")
    BY <1>1, JobFacts DEF o
  <2>2. \A i \in Jobs :
          \/ job'[i] = job[i] \/ job'[i].kind = "none"
          \/ /\ job'[i].obj \in Objs /\ fed[job'[i].obj] # "absent"
             /\ job'[i].kind = "attachRole" => fed["role"] # "absent"
    BY <1>1, <1>3, <2>1 DEF OtherJobs, Fields
  <2> QED
    BY <1>2, <2>2, BornKept, StagesTyped DEF FedInv
<1>11. AttachedOnce' /\ OneRowPerName'
  BY <1>2, <1>6, AttachedKept, OneRowKept DEF FedInv
<1>12. \A t \in DOMAIN tasks : t \in DOMAIN tasks' /\ tasks'[t] = tasks[t]
  BY <1>4
<1>13. RowsServed'
  <2>1. ASSUME NEW q \in DOMAIN rows
        PROVE  /\ \A t \in DOMAIN tasks : tasks[t].row = q =>
                    \E a \in DOMAIN tasks' :
                      tasks'[a].row = q /\ (tasks[t].pc # "init" => tasks'[a].pc # "init")
               /\ \A i \in Jobs : (job[i].pc = "bind" /\ job[i].res = q) =>
                    \/ job'[i].pc = "bind" /\ job'[i].res = q
                    \/ \E a \in DOMAIN tasks' : tasks'[a].row = q
    <3>1. \A t \in DOMAIN tasks : tasks[t].row = q =>
            \E a \in DOMAIN tasks' :
              tasks'[a].row = q /\ (tasks[t].pc # "init" => tasks'[a].pc # "init")
      BY <1>12
    <3>2. job[j].pc = "bind" => \E a \in DOMAIN tasks' : tasks'[a].row = job[j].res
      BY <1>4, <1>5 DEF r
    <3> QED
      BY <1>3, <3>1, <3>2 DEF OtherJobs
  <2> QED
    BY <2>1, RowsServedKept DEF FedInv
<1>14. SyncServed'
  BY <1>3, SyncServedKept DEF FedInv, Syncs, Fields, o
<1>15. ASSUME NEW m \in Clusters, Drifts(m)'
       PROVE  Fresh(m)'
  <2>1. CASE ok /\ RowOf(r, "role", m)
    BY <1>4, <1>5, <2>1 DEF Fresh, FreshTask, RowOf
  <2>2. CASE ~(ok /\ RowOf(r, "role", m))
    <3>1. Drifts(m)
      <4>1. Attached("role", m) # {}
        BY <1>2, <1>15 DEF Drifts, Attached, JointsKept
      <4>2. Creating(m)' => Creating(m)
        <5> SUFFICES ASSUME NEW a \in DOMAIN tasks', tasks'[a].type = "create",
                            tasks'[a].pc \in {"init", "call"},
                            rows[tasks'[a].row].obj = "role", rows[tasks'[a].row].cl = m
                     PROVE  Creating(m)
          BY DEF Creating
        <5>1. CASE a \in DOMAIN tasks
          BY <1>12, <5>1 DEF Creating
        <5>2. CASE ok /\ a = new
          BY <1>1, <1>5, <2>2, <5>2 DEF RowOf
        <5> QED
          BY <1>4, <5>1, <5>2
      <4> QED
        BY <1>3, <1>15, <4>1, <4>2 DEF Drifts, Exists
    <3>2. Fresh(m)
      BY <3>1 DEF FedInv, DriftTracked
    <3>3. ASSUME FreshJob(j, m)
          PROVE  FreshJob(j, m)'
      <4>1. ~(o = "role" /\ k = m)
        <5>1. CASE ok
          BY <1>1, <2>2, <5>1
        <5>2. CASE ~ok
          BY <1>3, <1>15, <5>2 DEF Drifts
        <5> QED
          BY <5>1, <5>2
      <4>2. job[j].kind = "sync" /\ o = "role" /\ m \in job[j].todo
        BY <3>3, <4>1 DEF FreshJob, o, k
      <4> QED
        BY <1>3, <4>2 DEF FreshJob, Fields
    <3>4. \A i \in Jobs : FreshJob(i, m) => Fresh(m)'
      BY <1>3, <3>3 DEF OtherJobs, FreshJob, Fresh
    <3>5. \A t \in DOMAIN tasks : FreshTask(t, m) =>
            \E a \in DOMAIN tasks' :
              /\ tasks'[a].type = tasks[t].type /\ tasks'[a].row = tasks[t].row
              /\ tasks'[a].spec = tasks[t].spec /\ tasks'[a].pc \in {"init", "call"}
      BY <1>12 DEF FreshTask
    <3> QED
      BY <1>6, <3>2, <3>4, <3>5, FreshKept
  <2> QED
    BY <2>1, <2>2
<1> QED
  BY <1>7, <1>8, <1>9, <1>10, <1>11, <1>13, <1>14, <1>15 DEF FedInv, DriftTracked

\* A row that was inserted is bound and created, one that was found updated.
LEMMA BindKeeps ==
  ASSUME FedInv, TypeOK', NEW j \in Jobs, BindCreated(j) \/ UpdateResource(j)
  PROVE  FedInv'
<1>1. CASE BindCreated(j)
  BY <1>1, BoundKeeps DEF BindCreated
<1>2. CASE UpdateResource(j) /\ Exists(job[j].obj)
  BY <1>2, BoundKeeps DEF UpdateResource
<1>3. CASE UpdateResource(j) /\ ~Exists(job[j].obj)
  BY <1>3, BoundKeeps DEF UpdateResource
<1> QED
  BY <1>1, <1>2, <1>3

\* Every step of a job keeps the invariant.
LEMMA JobKeeps ==
  ASSUME FedInv, TypeOK', NEW j \in Jobs, JobStep(j)
  PROVE  FedInv'
  BY DeleteKeeps, SyncStepKeeps, AttachStepKeeps, AttachKeeps, FindStepKeeps, CreateKeeps,
     BindKeeps DEF JobStep

-----------------------------------------------------------------------------
(* The steps of a task *)

\* What the tasks are after a step of one of them.
LEMMA TaskStepped ==
  ASSUME FedInv, NEW t \in DOMAIN tasks, NEW p \in TaskStates \cup {"done"}, Step(t, p)
  PROVE  /\ \A a \in DOMAIN tasks' : \E i \in DOMAIN tasks :
              /\ tasks'[a].type = tasks[i].type /\ tasks'[a].row = tasks[i].row
              /\ tasks'[a].spec = tasks[i].spec
              /\ tasks'[a].pc = IF i = t THEN p ELSE tasks[i].pc
         /\ \A i \in DOMAIN tasks : (i # t \/ p # "done") => \E a \in DOMAIN tasks' :
              /\ tasks'[a].type = tasks[i].type /\ tasks'[a].row = tasks[i].row
              /\ tasks'[a].spec = tasks[i].spec
              /\ tasks'[a].pc = IF i = t THEN p ELSE tasks[i].pc
<1>1. tasks \in Seq(TaskType)
  BY TypesSplit DEF FedInv
<1>2. CASE p = "done"
  BY <1>1, <1>2, TaskEnds
<1>3. CASE p \in TaskStates
  <2>1. /\ DOMAIN tasks' = DOMAIN tasks
        /\ \A i \in DOMAIN tasks : tasks'[i] = IF i = t THEN Moved(tasks[t], p) ELSE tasks[i]
    BY <1>1, <1>3, TaskMoves
  <2>2. \A i \in DOMAIN tasks :
          /\ tasks'[i].type = tasks[i].type /\ tasks'[i].row = tasks[i].row
          /\ tasks'[i].spec = tasks[i].spec
          /\ tasks'[i].pc = IF i = t THEN p ELSE tasks[i].pc
    BY <2>1 DEF Moved
  <2> QED
    BY <2>1, <2>2
<1> QED
  BY <1>2, <1>3

\* The row of a task after a step: untouched, or given a status that needs no
\* task when the task ends.
RowMoves(t, p) ==
  \/ rows' = rows /\ p # "done"
  \/ \E s \in RowStatus \ {"init"} :
       /\ SetRowStatus(tasks[t].row, s)
       /\ p = "done" => s \notin Transitional \/ ~Live(tasks[t].row)

\* A step of a task keeps the rows.
LEMMA RowMoved ==
  ASSUME FedInv, NEW t \in DOMAIN tasks, NEW p, RowMoves(t, p)
  PROVE  RowsKept /\ DOMAIN rows' = DOMAIN rows
<1>1. rows \in Seq(RowType) /\ tasks[t].row \in Nat
  <2>1. rows \in Seq(RowType) /\ tasks \in Seq(TaskType)
    BY TypesSplit DEF FedInv
  <2>2. tasks[t] \in TaskType
    BY <2>1, SeqDomain
  <2>3. tasks[t].row \in 1..MaxRows
    BY <2>2 DEF TaskType
  <2> QED
    BY <2>1, <2>3, FederationAssumption
<1> QED
  BY <1>1, StatusSet DEF RowMoves, RowsKept

\* A step of a task keeps the invariant when it keeps drifts tracked.
LEMMA TaskMovesKeep ==
  ASSUME FedInv, TypeOK', NEW t \in DOMAIN tasks, NEW p \in (TaskStates \cup {"done"}) \ {"init"},
         Step(t, p), RowMoves(t, p), UNCHANGED <<fed, spec, joints, cluster, job>>,
         excused \subseteq excused', \A m \in Clusters : Drifts(m)' => Fresh(m)'
  PROVE  FedInv'
<1> DEFINE r == tasks[t].row
<1>1. RowsKept /\ DOMAIN rows' = DOMAIN rows
  BY RowMoved
<1>2. JointsKept /\ DOMAIN joints' = DOMAIN joints
  BY DEF JointsKept
<1>3. JobsKnow' /\ JointsKnow'
  BY <1>1, <1>2, JobsKnowKept, JointsKnowKept DEF FedInv
<1>4. /\ \A a \in DOMAIN tasks' : \E i \in DOMAIN tasks :
           /\ tasks'[a].type = tasks[i].type /\ tasks'[a].row = tasks[i].row
           /\ tasks'[a].spec = tasks[i].spec
           /\ tasks'[a].pc = IF i = t THEN p ELSE tasks[i].pc
      /\ \A i \in DOMAIN tasks : (i # t \/ p # "done") => \E a \in DOMAIN tasks' :
           /\ tasks'[a].type = tasks[i].type /\ tasks'[a].row = tasks[i].row
           /\ tasks'[a].spec = tasks[i].spec
           /\ tasks'[a].pc = IF i = t THEN p ELSE tasks[i].pc
  BY TaskStepped
<1>5. TasksKnow'
  <2>1. TypeOK /\ TasksKnow /\ spec <= spec'
    <3>1. TypeOK
      BY DEF FedInv
    <3>2. spec \in 1..MaxSpec
      BY <3>1, TypesSplit
    <3> QED
      BY <3>1, <3>2 DEF FedInv
  <2>2. \A a \in DOMAIN tasks' : \E i \in DOMAIN tasks :
           /\ tasks'[a].type = tasks[i].type /\ tasks'[a].row = tasks[i].row
           /\ tasks'[a].spec = tasks[i].spec
    BY <1>4
  <2> QED
    BY <1>1, <2>1, <2>2, TasksKnowKept
<1>6. Born'
  BY DEF FedInv, Born
<1>7. AttachedOnce' /\ OneRowPerName'
  BY <1>1, <1>2, AttachedKept, OneRowKept DEF FedInv
<1>8. RowsServed'
  <2>1. \/ rows' = rows /\ p # "done"
        \/ \E s \in RowStatus \ {"init"} :
             /\ \A q \in DOMAIN rows : rows'[q].status = StatusOf(q, r, s)
             /\ p = "done" => s \notin Transitional \/ ~Live(r)
    <3>1. rows \in Seq(RowType) /\ r \in Nat
      <4>1. rows \in Seq(RowType) /\ tasks \in Seq(TaskType)
        BY TypesSplit DEF FedInv
      <4>2. tasks[t] \in TaskType
        BY <4>1, SeqDomain
      <4>3. r \in 1..MaxRows
        BY <4>2 DEF TaskType
      <4> QED
        BY <4>1, <4>3, FederationAssumption
    <3> QED
      BY <3>1, StatusSet DEF RowMoves
  <2> SUFFICES ASSUME NEW q \in DOMAIN rows
               PROVE  \/ /\ rows'[q].status = rows[q].status
                         /\ \A i \in DOMAIN tasks : tasks[i].row = q =>
                              \E a \in DOMAIN tasks' :
                                tasks'[a].row = q /\ (tasks[i].pc # "init" => tasks'[a].pc # "init")
                      \/ rows'[q].status \notin Transitional \cup {"init"}
                      \/ /\ rows'[q].status \in Transitional
                         /\ \E a \in DOMAIN tasks' : tasks'[a].row = q /\ tasks'[a].pc # "init"
    BY <1>1, RowsServedKept DEF FedInv
  <2>2. CASE q # r \/ p # "done"
    <3>1. \A i \in DOMAIN tasks : tasks[i].row = q =>
            \E a \in DOMAIN tasks' :
              tasks'[a].row = q /\ (tasks[i].pc # "init" => tasks'[a].pc # "init")
      BY <1>4, <2>2
    <3>2. (q = r /\ p # "done") =>
            \E a \in DOMAIN tasks' : tasks'[a].row = q /\ tasks'[a].pc # "init"
      BY <1>4
    <3>3. \/ rows'[q].status = rows[q].status
          \/ q = r /\ rows'[q].status \in RowStatus \ {"init"}
      BY <2>1 DEF StatusOf
    <3> QED
      BY <2>2, <3>1, <3>2, <3>3
  <2>3. CASE q = r /\ p = "done"
    <3>1. PICK s \in RowStatus \ {"init"} :
            rows'[q].status = StatusOf(q, r, s) /\ (s \notin Transitional \/ ~Live(r))
      BY <2>1, <2>3
    <3>2. CASE Live(r)
      BY <2>3, <3>1, <3>2 DEF StatusOf, Live
    <3>3. CASE ~Live(r)
      BY <2>3, <3>1, <3>3 DEF StatusOf, Live, Transitional
    <3> QED
      BY <3>2, <3>3
  <2> QED
    BY <2>2, <2>3
<1>9. SyncServed'
  BY DEF FedInv, SyncServed, Syncs
<1> QED
  BY <1>3, <1>5, <1>6, <1>7, <1>8, <1>9 DEF FedInv, DriftTracked

\* A drift stays tracked when the task that steps was not bringing the template.
LEMMA DriftStays ==
  ASSUME FedInv, NEW t \in DOMAIN tasks, NEW p \in TaskStates \cup {"done"}, Step(t, p),
         RowsKept, UNCHANGED <<spec, job>>, NEW m \in Clusters, Drifts(m),
         FreshTask(t, m) => p \in {"init", "call"}
  PROVE  Fresh(m)'
<1>1. Fresh(m)
  BY DEF FedInv, DriftTracked
<1>2. \A i \in Jobs : FreshJob(i, m) => Fresh(m)'
  BY DEF FreshJob, Fresh
<1>3. ASSUME NEW i \in DOMAIN tasks, FreshTask(i, m)
      PROVE  \E a \in DOMAIN tasks' :
               /\ tasks'[a].type = tasks[i].type /\ tasks'[a].row = tasks[i].row
               /\ tasks'[a].spec = tasks[i].spec /\ tasks'[a].pc \in {"init", "call"}
  <2>1. i # t \/ p # "done"
    BY <1>3
  <2>2. PICK a \in DOMAIN tasks' :
           /\ tasks'[a].type = tasks[i].type /\ tasks'[a].row = tasks[i].row
           /\ tasks'[a].spec = tasks[i].spec
           /\ tasks'[a].pc = IF i = t THEN p ELSE tasks[i].pc
    BY <2>1, TaskStepped
  <2>3. tasks[i].pc \in {"init", "call"}
    BY <1>3 DEF FreshTask
  <2> QED
    BY <1>3, <2>2, <2>3
<1> QED
  BY <1>1, <1>2, <1>3, FreshKept

\* A drift stays tracked when the role itself is left alone.
LEMMA DriftUntouched ==
  ASSUME FedInv, NEW t \in DOMAIN tasks, NEW p \in TaskStates \cup {"done"}, Step(t, p),
         RowMoves(t, p), UNCHANGED <<fed, spec, joints, cluster, job>>,
         excused \subseteq excused', p \in {"init", "call"} => tasks[t].pc \in {"init", "call"},
         NEW m \in Clusters, Drifts(m)', remote'["role"][m] = remote["role"][m],
         FreshTask(t, m) => p \in {"init", "call"}
  PROVE  Fresh(m)'
<1>1. RowsKept /\ JointsKept /\ DOMAIN joints' = DOMAIN joints
  BY RowMoved DEF JointsKept
<1>2. Exists("role")' => Exists("role")
  BY DEF Exists
<1>3. \A a \in DOMAIN tasks' : \E i \in DOMAIN tasks :
        /\ tasks'[a].type = tasks[i].type /\ tasks'[a].row = tasks[i].row
        /\ tasks'[a].pc \in {"init", "call"} => tasks[i].pc \in {"init", "call"}
  BY TaskStepped
<1>4. Drifts(m)
  BY <1>1, <1>2, <1>3, DriftsBefore
<1> QED
  BY <1>1, <1>4, DriftStays

\* What a task is about.
LEMMA TaskFacts ==
  ASSUME FedInv, NEW t \in DOMAIN tasks
  PROVE  LET r == tasks[t].row IN
         /\ r \in DOMAIN rows /\ rows[r].obj \in Objs /\ rows[r].cl \in Clusters
         /\ tasks[t].type \in TaskKinds /\ tasks[t].spec \in Nat \ {0} /\ tasks[t].spec <= spec
         /\ tasks[t].spec \in 0..(MaxSpec + 1) /\ spec \in Nat \ {0}
         /\ tasks[t].type = "delete" => rows[r].cl \in excused
         /\ \A m \in Clusters : FreshTask(t, m) =>
              /\ rows[r].obj = "role" /\ rows[r].cl = m /\ tasks[t].type # "delete"
              /\ tasks[t].pc \in {"init", "call"} /\ tasks[t].spec = spec
<1>1. tasks \in Seq(TaskType) /\ rows \in Seq(RowType) /\ spec \in 1..MaxSpec
  BY TypesSplit DEF FedInv
<1>2. tasks[t] \in TaskType /\ tasks[t].row \in DOMAIN rows /\ tasks[t].spec <= spec
      /\ (tasks[t].type = "delete" => rows[tasks[t].row].cl \in excused)
  BY <1>1, SeqDomain DEF FedInv, TasksKnow
<1>3. rows[tasks[t].row] \in RowType
  BY <1>1, <1>2, SeqDomain
<1>4. rows[tasks[t].row].obj \in Objs /\ rows[tasks[t].row].cl \in Clusters
  BY <1>3 DEF RowType
<1>5. tasks[t].type \in TaskKinds /\ tasks[t].spec \in 1..MaxSpec
  BY <1>2 DEF TaskType
<1>6. spec \in Nat \ {0} /\ tasks[t].spec \in Nat \ {0} /\ tasks[t].spec \in 0..(MaxSpec + 1)
  BY <1>1, <1>5, FederationAssumption
<1>7. \A m \in Clusters : FreshTask(t, m) =>
        /\ rows[tasks[t].row].obj = "role" /\ rows[tasks[t].row].cl = m
        /\ tasks[t].type # "delete"
        /\ tasks[t].pc \in {"init", "call"} /\ tasks[t].spec = spec
  BY DEF FreshTask, RowOf
<1> QED
  BY <1>2, <1>4, <1>5, <1>6, <1>7

\* Statuses that tasks write.
LEMMA StatusWritten ==
  /\ \A w \in TaskKinds : /\ Working[w] \in RowStatus \ {"init"}
                          /\ Failed[w] \in (RowStatus \ {"init"}) \ Transitional
  /\ \A s \in {"active", "gone", "sync_fail"} : s \in (RowStatus \ {"init"}) \ Transitional
  /\ "syncing" \in RowStatus \ {"init"}
  /\ \A p \in {"call", "write", "real", "syncInit", "syncCall", "syncFail", "fail", "done"} :
       p \in (TaskStates \cup {"done"}) \ {"init"}
  BY DEF TaskKinds, Working, Failed, RowStatus, Transitional, TaskStates

\* Steps that leave the cluster alone and are past the call to it.
LEMMA TaskLateKeeps ==
  ASSUME FedInv, TypeOK', NEW t \in DOMAIN tasks,
         NEW p \in (TaskStates \cup {"done"}) \ {"init", "call"}, Step(t, p), RowMoves(t, p),
         UNCHANGED <<fed, spec, joints, cluster, job, remote>>, excused \subseteq excused',
         tasks[t].pc \notin {"init", "call"} \/ rows[tasks[t].row].cl \in excused'
  PROVE  FedInv'
<1>1. ASSUME NEW m \in Clusters, Drifts(m)'
      PROVE  Fresh(m)'
  <2>1. ~FreshTask(t, m)
    <3>1. m \notin excused'
      BY <1>1 DEF Drifts
    <3> QED
      BY <3>1, TaskFacts
  <2> QED
    BY <1>1, <2>1, DriftUntouched
<1> QED
  BY <1>1, TaskMovesKeep

\* A task begins.
LEMMA TaskInitKeeps ==
  ASSUME FedInv, TypeOK', NEW t \in DOMAIN tasks, TaskOnInit(t)
  PROVE  FedInv'
<1>1. /\ UNCHANGED <<fed, spec, joints, cluster, job, remote>> /\ tasks[t].pc = "init"
      /\ SetRowStatus(tasks[t].row, Working[tasks[t].type])
  BY DEF TaskOnInit
<1>2. CASE Live(tasks[t].row)
  <2>1. Step(t, "call") /\ excused' = excused
    BY <1>2 DEF TaskOnInit
  <2>2. RowMoves(t, "call") /\ "call" \in (TaskStates \cup {"done"}) \ {"init"}
    BY <1>1, TaskFacts, StatusWritten DEF RowMoves
  <2>3. ASSUME NEW m \in Clusters, Drifts(m)'
        PROVE  Fresh(m)'
    BY <1>1, <2>1, <2>2, <2>3, DriftUntouched
  <2> QED
    BY <1>1, <2>1, <2>2, <2>3, TaskMovesKeep
<1>3. CASE ~Live(tasks[t].row)
  <2>1. Step(t, "done") /\ excused' = excused \cup {rows[tasks[t].row].cl}
    BY <1>3 DEF TaskOnInit
  <2>2. RowMoves(t, "done")
    BY <1>1, <1>3, TaskFacts, StatusWritten DEF RowMoves
  <2> QED
    BY <1>1, <2>1, <2>2, StatusWritten, TaskLateKeeps
<1> QED
  BY <1>2, <1>3

\* A call fails, an answer is written, a task ends.
LEMMA TaskEndKeeps ==
  ASSUME FedInv, TypeOK', NEW t \in DOMAIN tasks,
         \/ TaskCallFails(t) \/ WriteBack(t) \/ OnDeleteComplete(t) \/ OnTaskFailed(t)
         \/ RowSyncOnInit(t) \/ PerformSyncResource(t) \/ OnRowSyncFailed(t)
  PROVE  FedInv'
<1> DEFINE r == tasks[t].row
<1>1. UNCHANGED <<fed, spec, joints, cluster, job, remote>> /\ excused \subseteq excused'
  BY DEF TaskCallFails, WriteBack, OnDeleteComplete, OnTaskFailed, RowSyncOnInit,
         PerformSyncResource, OnRowSyncFailed
<1>2. \A p \in {"write", "real", "syncInit", "syncCall", "syncFail", "fail", "done"} :
        p \in (TaskStates \cup {"done"}) \ {"init", "call"}
  BY StatusWritten
<1>3. CASE TaskCallFails(t)
  <2>1. Step(t, "fail") /\ RowMoves(t, "fail") /\ rows[r].cl \in excused'
    BY <1>3 DEF TaskCallFails, RowMoves
  <2> QED
    BY <1>1, <1>2, <2>1, TaskLateKeeps
<1>4. CASE WriteBack(t)
  <2>1. \/ Step(t, "fail") /\ RowMoves(t, "fail")
        \/ SetRowStatus(r, "active") /\ (Step(t, "syncInit") \/ Step(t, "done"))
    BY <1>4 DEF WriteBack, RowMoves
  <2>2. SetRowStatus(r, "active") => RowMoves(t, "syncInit") /\ RowMoves(t, "done")
    BY StatusWritten DEF RowMoves
  <2>3. tasks[t].pc \notin {"init", "call"}
    BY <1>4 DEF WriteBack
  <2> QED
    BY <1>1, <1>2, <2>1, <2>2, <2>3, TaskLateKeeps
<1>5. CASE OnDeleteComplete(t) \/ OnTaskFailed(t) \/ OnRowSyncFailed(t)
  <2>1. /\ Step(t, "done") /\ tasks[t].pc \notin {"init", "call"}
        /\ \E s \in (RowStatus \ {"init"}) \ Transitional : SetRowStatus(r, s)
    BY <1>5, TaskFacts, StatusWritten DEF OnDeleteComplete, OnTaskFailed, OnRowSyncFailed
  <2>2. RowMoves(t, "done")
    BY <2>1 DEF RowMoves
  <2> QED
    BY <1>1, <1>2, <2>1, <2>2, TaskLateKeeps
<1>6. CASE RowSyncOnInit(t)
  <2>1. /\ SetRowStatus(r, "syncing") /\ tasks[t].pc \notin {"init", "call"}
        /\ \/ Step(t, "syncCall")
           \/ Step(t, "done") /\ ~Live(r)
    BY <1>6 DEF RowSyncOnInit
  <2>2. RowMoves(t, "syncCall") /\ (~Live(r) => RowMoves(t, "done"))
    BY <2>1, StatusWritten DEF RowMoves
  <2> QED
    BY <1>1, <1>2, <2>1, <2>2, TaskLateKeeps
<1>7. CASE PerformSyncResource(t)
  <2>1. /\ tasks[t].pc \notin {"init", "call"}
        /\ \/ SetRowStatus(r, "active") /\ Step(t, "done")
           \/ rows' = rows /\ Step(t, "syncFail")
    BY <1>7 DEF PerformSyncResource
  <2>2. /\ SetRowStatus(r, "active") => RowMoves(t, "done")
        /\ rows' = rows => RowMoves(t, "syncFail")
    BY StatusWritten DEF RowMoves
  <2> QED
    BY <1>1, <1>2, <2>1, <2>2, TaskLateKeeps
<1> QED
  BY <1>3, <1>4, <1>5, <1>6, <1>7

\* A task creates the object.
LEMMA TaskCreateKeeps ==
  ASSUME FedInv, TypeOK', NEW t \in DOMAIN tasks, CreateRemoteObject(t)
  PROVE  FedInv'
<1> DEFINE r == tasks[t].row
           o == rows[r].obj
           k == rows[r].cl
<1>1. /\ UNCHANGED <<fed, spec, joints, cluster, job, rows>>
      /\ tasks[t].pc = "call" /\ tasks[t].type = "create"
  BY DEF CreateRemoteObject
<1>2. CASE remote[o][k] = 0 /\ (o = "role" => remote["ns"][k] # 0)
  <2>1. /\ remote' = [remote EXCEPT ![o][k] = tasks[t].spec]
        /\ Step(t, "write") /\ excused' = excused
    BY <1>2 DEF CreateRemoteObject
  <2>2. remote \in [Objs -> [Clusters -> 0..(MaxSpec + 1)]]
    BY TypesSplit DEF FedInv
  <2>3. \A p \in Objs, m \in Clusters :
          remote'[p][m] = IF p = o /\ m = k THEN tasks[t].spec ELSE remote[p][m]
    <3> DEFINE v == tasks[t].spec
    <3>1. o \in Objs /\ k \in Clusters /\ v \in 0..(MaxSpec + 1)
      BY TaskFacts
    <3>2. remote' = [remote EXCEPT ![o][k] = v]
      BY <2>1 DEF v
    <3> HIDE DEF v, o, k
    <3>3. \A p \in Objs, m \in Clusters :
            remote'[p][m] = IF p = o /\ m = k THEN v ELSE remote[p][m]
      BY <2>2, <3>1, <3>2, RemoteSet
    <3> QED
      BY <3>3 DEF v
  <2>4. RowMoves(t, "write") /\ "write" \in (TaskStates \cup {"done"}) \ {"init"}
    BY <1>1, StatusWritten DEF RowMoves
  <2>5. ASSUME NEW m \in Clusters, Drifts(m)'
        PROVE  Fresh(m)'
    <3>1. CASE o = "role" /\ m = k
      <4>1. remote'["role"][m] = tasks[t].spec /\ tasks[t].spec # spec
        BY <1>1, <2>3, <2>5, <3>1, StagesTyped DEF Drifts
      <4>2. Creating(m)
        BY <1>1, <3>1 DEF Creating
      <4>3. Drifts(m)
        BY <1>1, <1>2, <2>1, <2>5, <3>1, <4>2, TaskFacts DEF Drifts, Exists, Attached
      <4>4. ~FreshTask(t, m)
        BY <4>1, TaskFacts
      <4>5. RowsKept
        BY <2>4, RowMoved
      <4> QED
        BY <1>1, <2>1, <2>4, <4>3, <4>4, <4>5, DriftStays
    <3>2. CASE ~(o = "role" /\ m = k)
      <4>1. remote'["role"][m] = remote["role"][m]
        BY <2>3, <3>2, StagesTyped
      <4>2. ~FreshTask(t, m)
        BY <3>2, TaskFacts
      <4> QED
        BY <1>1, <2>1, <2>4, <2>5, <4>1, <4>2, DriftUntouched
    <3> QED
      BY <3>1, <3>2
  <2> QED
    BY <1>1, <2>1, <2>4, <2>5, TaskMovesKeep
<1>3. CASE ~(remote[o][k] = 0 /\ (o = "role" => remote["ns"][k] # 0))
  <2>1. Step(t, "fail") /\ remote' = remote /\ excused' = excused \cup {k}
    BY <1>3 DEF CreateRemoteObject
  <2> QED
    BY <1>1, <2>1, StatusWritten, TaskLateKeeps DEF RowMoves
<1> QED
  BY <1>2, <1>3

\* A task updates the object.
LEMMA TaskUpdateKeeps ==
  ASSUME FedInv, TypeOK', NEW t \in DOMAIN tasks, UpdateRemoteObject(t)
  PROVE  FedInv'
<1> DEFINE r == tasks[t].row
           o == rows[r].obj
           k == rows[r].cl
<1>1. /\ UNCHANGED <<fed, spec, joints, cluster, job, rows>>
      /\ tasks[t].pc = "call" /\ tasks[t].type = "update"
  BY DEF UpdateRemoteObject
<1>2. CASE remote[o][k] # 0 /\ NamespaceOf(r)
  <2>1. /\ remote' = IF o = "role" THEN [remote EXCEPT ![o][k] = tasks[t].spec] ELSE remote
        /\ excused' = IF o = "role" /\ tasks[t].spec < remote[o][k]
                      THEN excused \cup {k} ELSE excused
        /\ Step(t, "write")
    BY <1>2 DEF UpdateRemoteObject
  <2>2. remote \in [Objs -> [Clusters -> 0..(MaxSpec + 1)]]
    BY TypesSplit DEF FedInv
  <2>3. \A p \in Objs, m \in Clusters :
          remote'[p][m] = IF p = o /\ m = k /\ o = "role" THEN tasks[t].spec ELSE remote[p][m]
    <3> DEFINE v == tasks[t].spec
    <3>1. o \in Objs /\ k \in Clusters /\ v \in 0..(MaxSpec + 1)
      BY TaskFacts
    <3>2. CASE o = "role"
      <4>1. remote' = [remote EXCEPT ![o][k] = v]
        BY <2>1, <3>2 DEF v
      <4> HIDE DEF v, o, k
      <4>2. \A p \in Objs, m \in Clusters :
              remote'[p][m] = IF p = o /\ m = k THEN v ELSE remote[p][m]
        BY <2>2, <3>1, <4>1, RemoteSet
      <4> QED
        BY <3>2, <4>2 DEF v
    <3>3. CASE o # "role"
      BY <2>1, <3>3
    <3> QED
      BY <3>2, <3>3
  <2>4. RowMoves(t, "write") /\ "write" \in (TaskStates \cup {"done"}) \ {"init"}
    BY <1>1, StatusWritten DEF RowMoves
  <2>5. ASSUME NEW m \in Clusters, Drifts(m)'
        PROVE  Fresh(m)'
    <3>1. CASE o = "role" /\ m = k
      <4>1. remote'["role"][m] = tasks[t].spec /\ tasks[t].spec # spec
        BY <1>1, <2>3, <2>5, <3>1, StagesTyped DEF Drifts
      <4>2. ~(tasks[t].spec < remote["role"][m])
        BY <2>1, <2>5, <3>1 DEF Drifts
      <4>3. remote["role"][m] # spec /\ remote["role"][m] # 0
        BY <1>2, <3>1, <4>1, <4>2, TaskFacts
      <4>4. Drifts(m)
        BY <1>1, <2>1, <2>5, <4>3 DEF Drifts, Exists, Attached
      <4>5. ~FreshTask(t, m)
        BY <4>1, TaskFacts
      <4>6. RowsKept
        BY <2>4, RowMoved
      <4> QED
        BY <1>1, <2>1, <2>4, <4>4, <4>5, <4>6, DriftStays
    <3>2. CASE ~(o = "role" /\ m = k)
      <4>1. remote'["role"][m] = remote["role"][m]
        BY <2>3, <3>2, StagesTyped
      <4>2. ~FreshTask(t, m)
        BY <3>2, TaskFacts
      <4>3. excused \subseteq excused'
        BY <2>1
      <4> QED
        BY <1>1, <2>1, <2>4, <2>5, <4>1, <4>2, <4>3, DriftUntouched
    <3> QED
      BY <3>1, <3>2
  <2>6. excused \subseteq excused'
    BY <2>1
  <2> QED
    BY <1>1, <2>1, <2>4, <2>5, <2>6, TaskMovesKeep
<1>3. CASE ~(remote[o][k] # 0 /\ NamespaceOf(r))
  <2>1. Step(t, "fail") /\ remote' = remote /\ excused' = excused \cup {k}
    BY <1>3 DEF UpdateRemoteObject
  <2> QED
    BY <1>1, <2>1, StatusWritten, TaskLateKeeps DEF RowMoves
<1> QED
  BY <1>2, <1>3

\* A task deletes the object.
LEMMA TaskDeleteKeeps ==
  ASSUME FedInv, TypeOK', NEW t \in DOMAIN tasks, DeleteRemoteObject(t)
  PROVE  FedInv'
<1> DEFINE r == tasks[t].row
           o == rows[r].obj
           k == rows[r].cl
<1>1. /\ UNCHANGED <<fed, spec, joints, cluster, job, rows, excused>>
      /\ tasks[t].pc = "call" /\ tasks[t].type = "delete" /\ k \in excused
  BY TaskFacts DEF DeleteRemoteObject
<1>2. CASE NamespaceOf(r)
  <2>1. /\ remote' = [p \in Objs |-> IF p = o \/ o = "ns" THEN [remote[p] EXCEPT ![k] = 0]
                                     ELSE remote[p]]
        /\ Step(t, "real")
    BY <1>2 DEF DeleteRemoteObject
  <2>2. remote \in [Objs -> [Clusters -> 0..(MaxSpec + 1)]]
    BY TypesSplit DEF FedInv
  <2>3. \A p \in Objs, m \in Clusters :
          remote'[p][m] = IF (p = o \/ o = "ns") /\ m = k THEN 0 ELSE remote[p][m]
    BY <2>1, <2>2, TaskFacts, RemoteWiped
  <2>4. RowMoves(t, "real") /\ "real" \in (TaskStates \cup {"done"}) \ {"init"}
    BY <1>1, StatusWritten DEF RowMoves
  <2>5. ASSUME NEW m \in Clusters, Drifts(m)'
        PROVE  Fresh(m)'
    <3>1. m # k
      BY <1>1, <2>5 DEF Drifts
    <3>2. remote'["role"][m] = remote["role"][m] /\ ~FreshTask(t, m)
      BY <1>1, <2>3, <3>1, TaskFacts, StagesTyped
    <3> QED
      BY <1>1, <2>1, <2>4, <2>5, <3>2, DriftUntouched
  <2> QED
    BY <1>1, <2>1, <2>4, <2>5, TaskMovesKeep
<1>3. CASE ~NamespaceOf(r)
  <2>1. Step(t, "fail") /\ remote' = remote
    BY <1>3 DEF DeleteRemoteObject
  <2> QED
    BY <1>1, <2>1, StatusWritten, TaskLateKeeps DEF RowMoves
<1> QED
  BY <1>2, <1>3

\* Every step of a task keeps the invariant.
LEMMA TaskKeeps ==
  ASSUME FedInv, TypeOK', NEW t \in DOMAIN tasks, TaskStep(t)
  PROVE  FedInv'
  BY TaskInitKeeps, TaskEndKeeps, TaskCreateKeeps, TaskUpdateKeeps, TaskDeleteKeeps DEF TaskStep

-----------------------------------------------------------------------------
(* What others do *)

\* The tables change and no job or task moves.
LEMMA TablesKeep ==
  ASSUME FedInv, TypeOK', RowsKept, JointsKept, DOMAIN joints' = DOMAIN joints,
         UNCHANGED <<spec, job>>, excused \subseteq excused',
         \A o \in Objs : /\ fed'[o] = "absent" => fed[o] = "absent"
                         /\ fed'[o] = "syncing" => fed[o] = "syncing",
         \A i \in DOMAIN joints : joints'[i].res = joints[i].res \/ joints'[i].res = 0,
         OneRowPerName',
         \A r \in DOMAIN rows' : \/ r \in DOMAIN rows /\ rows'[r].status = rows[r].status
                                 \/ rows'[r].status \in {"active", "gone"},
         \A t \in DOMAIN tasks : t \in DOMAIN tasks' /\ tasks'[t] = tasks[t],
         \A a \in DOMAIN tasks' :
           \/ a \in DOMAIN tasks
           \/ /\ tasks'[a].row \in DOMAIN rows /\ tasks'[a].spec = spec
              /\ rows[tasks'[a].row].cl \in excused',
         \A m \in Clusters : Drifts(m)' => Drifts(m)
  PROVE  FedInv'
<1>1. TypeOK /\ spec <= spec'
  <2>1. TypeOK
    BY DEF FedInv
  <2>2. spec \in 1..MaxSpec
    BY <2>1, TypesSplit
  <2> QED
    BY <2>1, <2>2
<1>2. JobsKnow' /\ JointsKnow' /\ AttachedOnce'
  BY JobsKnowKept, JointsKnowKept, AttachedKept DEF FedInv
<1>3. TasksKnow'
  <2>1. \A a \in DOMAIN tasks' :
          \/ \E t \in DOMAIN tasks :
               /\ tasks'[a].type = tasks[t].type
               /\ tasks'[a].row = tasks[t].row /\ tasks'[a].spec = tasks[t].spec
          \/ /\ tasks'[a].row \in DOMAIN rows /\ tasks'[a].spec = spec
             /\ tasks'[a].type = "delete" => rows[tasks'[a].row].cl \in excused'
    OBVIOUS
  <2> QED
    BY <1>1, <2>1, TasksKnowKept DEF FedInv
<1>4. Born'
  BY <1>1, BornKept, StagesTyped DEF FedInv
<1>5. RowsServed'
  <2>1. ASSUME NEW r \in DOMAIN rows'
        PROVE  \/ /\ r \in DOMAIN rows /\ rows'[r].status = rows[r].status
                  /\ \A t \in DOMAIN tasks : tasks[t].row = r =>
                       \E a \in DOMAIN tasks' :
                         tasks'[a].row = r /\ (tasks[t].pc # "init" => tasks'[a].pc # "init")
                  /\ \A i \in Jobs : (job[i].pc = "bind" /\ job[i].res = r) =>
                       \/ job'[i].pc = "bind" /\ job'[i].res = r
                       \/ \E a \in DOMAIN tasks' : tasks'[a].row = r
               \/ rows'[r].status \notin Transitional \cup {"init"}
    BY DEF Transitional
  <2> QED
    BY <2>1, RowsServedKept DEF FedInv
<1>6. SyncServed'
  BY DEF FedInv, SyncServed, Syncs
<1>7. ASSUME NEW m \in Clusters, Drifts(m)'
      PROVE  Fresh(m)'
  <2>1. Fresh(m)
    BY <1>7 DEF FedInv, DriftTracked
  <2>2. \A i \in Jobs : FreshJob(i, m) => Fresh(m)'
    BY DEF FreshJob, Fresh
  <2>3. \A t \in DOMAIN tasks : FreshTask(t, m) =>
          \E a \in DOMAIN tasks' :
            /\ tasks'[a].type = tasks[t].type /\ tasks'[a].row = tasks[t].row
            /\ tasks'[a].spec = tasks[t].spec /\ tasks'[a].pc \in {"init", "call"}
    BY DEF FreshTask
  <2> QED
    BY <2>1, <2>2, <2>3, FreshKept
<1> QED
  BY <1>2, <1>3, <1>4, <1>5, <1>6, <1>7 DEF FedInv, DriftTracked

\* Users create, detach and delete, others change rows, clusters and objects.
LEMMA EnvironmentKeeps ==
  ASSUME FedInv, TypeOK', Environment
  PROVE  FedInv'
<1>1. /\ joints \in Seq(JointType) /\ rows \in Seq(RowType) /\ tasks \in Seq(TaskType)
      /\ Len(rows) <= MaxRows /\ fed \in [Objs -> FedStatus]
      /\ remote \in [Objs -> [Clusters -> 0..(MaxSpec + 1)]]
      /\ cluster \in [Clusters -> {"up", "purged", "gone"}] /\ spec \in 1..MaxSpec
      /\ DOMAIN rows \subseteq 1..MaxRows /\ OneRowPerName
  <2>1. TypeOK /\ OneRowPerName
    BY DEF FedInv
  <2>2. rows \in Seq(RowType) /\ Len(rows) <= MaxRows
    BY <2>1, TypesSplit
  <2>3. DOMAIN rows \subseteq 1..MaxRows
    <3>1. Len(rows) \in Nat /\ DOMAIN rows = 1..Len(rows)
      BY <2>2, SeqDomain
    <3> QED
      BY <2>2, <3>1, FederationAssumption
  <2> QED
    BY <2>1, <2>2, <2>3, TypesSplit
<1>2. ASSUME NEW o \in Objs, CreateFed(o)
      PROVE  FedInv'
  <2>1. /\ UNCHANGED <<spec, joints, rows, tasks, remote, cluster, job, excused>>
        /\ fed[o] = "absent" /\ \A p \in Objs : fed'[p] = IF p = o THEN "active" ELSE fed[p]
    BY <1>1, <1>2 DEF CreateFed, rowVars
  <2>2. RowsKept /\ JointsKept
    BY <2>1 DEF RowsKept, JointsKept
  <2>3. ASSUME NEW m \in Clusters, Drifts(m)'
        PROVE  Drifts(m)
    <3>1. Attached("role", m) # {}
      BY <2>1, <2>3 DEF Drifts, Attached
    <3>2. fed["role"] # "absent"
      BY <3>1 DEF Attached, FedInv, Born
    <3>3. Exists("role")
      BY <2>1, <2>3, <3>2, StagesTyped DEF Drifts, Exists
    <3> QED
      BY <2>1, <2>3, <3>1, <3>3 DEF Drifts, Creating
  <2>4. OneRowPerName'
    BY <1>1, <2>1, <2>2, OneRowKept
  <2> QED
    BY <2>1, <2>2, <2>3, <2>4, TablesKeep
<1>3. ASSUME RowsKept, JointsKept, DOMAIN joints' = DOMAIN joints,
             UNCHANGED <<spec, job, fed, tasks, remote>>, excused \subseteq excused',
             \A i \in DOMAIN joints : joints'[i].res = joints[i].res \/ joints'[i].res = 0,
             OneRowPerName',
             \A r \in DOMAIN rows' : \/ r \in DOMAIN rows /\ rows'[r].status = rows[r].status
                                     \/ rows'[r].status \in {"active", "gone"},
             \A m \in Clusters : cluster'[m] = "up" => cluster[m] = "up"
      PROVE  FedInv'
  <2>1. ASSUME NEW m \in Clusters, Drifts(m)'
        PROVE  Drifts(m)
    <3>1. cluster'[m] = cluster[m]
      BY <1>3, <2>1 DEF Drifts
    <3> QED
      BY <1>3, <2>1, <3>1, DriftsBefore DEF Exists
  <2> QED
    BY <1>3, <2>1, TablesKeep
<1>4. ASSUME NEW o \in Objs, NEW k \in Clusters, DetachCluster(o, k)
      PROVE  FedInv'
  <2>1. PICK i \in DOMAIN joints : joints' = [joints EXCEPT ![i].live = FALSE, ![i].res = 0]
    BY <1>4 DEF DetachCluster, Attached
  <2>2. UNCHANGED <<fed, spec, rows, tasks, remote, cluster, job, excused>>
    BY <1>4 DEF DetachCluster, rowVars
  <2>3. /\ DOMAIN joints' = DOMAIN joints /\ JointsKept
        /\ \A m \in DOMAIN joints : m # i => joints'[m] = joints[m]
        /\ joints'[i].res = 0
    <3>1. FALSE \in BOOLEAN /\ 0 \in 0..MaxRows
      BY FederationAssumption
    <3> QED
      BY <1>1, <2>1, <3>1, JointWritten
  <2>4. RowsKept /\ OneRowPerName'
    BY <1>1, <2>2, OneRowKept DEF RowsKept
  <2> QED
    BY <1>3, <2>2, <2>3, <2>4
<1>5. ASSUME NEW o \in Objs, NEW k \in Clusters, InsertRow(o, k)
      PROVE  FedInv'
  <2>1. /\ UNCHANGED <<fed, spec, joints, remote, cluster, job, tasks, excused>>
        /\ Len(rows) < MaxRows /\ ByName(o, k) = {} /\ (o = "role" => NsRows(k) # {})
        /\ rows' = Append(rows, NewRow(o, k, "active")) /\ "active" \in RowStatus
    BY <1>5, StatusWritten DEF InsertRow
  <2>2. OneRowPerName'
    BY <2>1, InsertedUnique
  <2>3. /\ RowsKept
        /\ \A r \in DOMAIN rows' : \/ r \in DOMAIN rows /\ rows'[r].status = rows[r].status
                                   \/ rows'[r].status \in {"active", "gone"}
    BY <1>1, <2>1, RowInserted
  <2>4. JointsKept
    BY <2>1 DEF JointsKept
  <2> QED
    BY <1>3, <2>1, <2>2, <2>3, <2>4
<1>6. ASSUME NEW r \in DOMAIN rows, RemoveRow(r) \/ PerformGC(r)
      PROVE  FedInv'
  <2>1. /\ UNCHANGED <<fed, spec, joints, remote, cluster, job, tasks, excused>>
        /\ Live(r) /\ rows' = [rows EXCEPT ![r].status = "gone"]
    BY <1>6 DEF RemoveRow, PerformGC
  <2>2. /\ DOMAIN rows' = DOMAIN rows /\ RowsKept
        /\ \A i \in DOMAIN rows : rows'[i].status = StatusOf(i, r, "gone")
    BY <1>1, <2>1, RowGoes
  <2>3. JointsKept /\ OneRowPerName'
    BY <1>1, <2>1, <2>2, OneRowKept DEF JointsKept
  <2>4. \A i \in DOMAIN rows' : \/ i \in DOMAIN rows /\ rows'[i].status = rows[i].status
                                \/ rows'[i].status \in {"active", "gone"}
    BY <2>2 DEF StatusOf
  <2> QED
    BY <1>3, <2>1, <2>2, <2>3, <2>4
<1>7. ASSUME NEW r \in DOMAIN rows, DeleteRow(r)
      PROVE  FedInv'
  <2> DEFINE new == Len(tasks) + 1
  <2>1. /\ UNCHANGED <<fed, spec, joints, remote, cluster, job, rows>>
        /\ excused' = excused \cup {rows[r].cl} /\ StartTask("delete", r)
    BY <1>7 DEF DeleteRow
  <2>2. /\ DOMAIN tasks' = DOMAIN tasks \cup {new} /\ new \notin DOMAIN tasks
        /\ \A i \in DOMAIN tasks : tasks'[i] = tasks[i]
        /\ tasks'[new] = [type |-> "delete", row |-> r, spec |-> spec, pc |-> "init"]
    <3>1. "delete" \in TaskKinds /\ r \in 1..MaxRows
      BY <1>1 DEF TaskKinds
    <3> QED
      BY <1>1, <2>1, <3>1, TaskStarts
  <2> HIDE DEF new
  <2>3. tasks'[new].type = "delete" /\ tasks'[new].row = r /\ tasks'[new].spec = spec
    BY <2>2
  <2>4. RowsKept /\ JointsKept /\ OneRowPerName'
    BY <1>1, <2>1, OneRowKept DEF RowsKept, JointsKept
  <2>5. ASSUME NEW m \in Clusters, Drifts(m)'
        PROVE  Drifts(m)
    <3>1. \A a \in DOMAIN tasks' : tasks'[a].type = "create" => \E t \in DOMAIN tasks :
            /\ tasks'[a].type = tasks[t].type /\ tasks'[a].row = tasks[t].row
            /\ tasks'[a].pc \in {"init", "call"} => tasks[t].pc \in {"init", "call"}
      BY <2>2, <2>3
    <3>2. DOMAIN joints' = DOMAIN joints /\ excused \subseteq excused'
      BY <2>1
    <3> QED
      BY <2>1, <2>4, <2>5, <3>1, <3>2, DriftsBefore DEF Exists
  <2>6. \A a \in DOMAIN tasks' :
          \/ a \in DOMAIN tasks
          \/ /\ tasks'[a].row \in DOMAIN rows /\ tasks'[a].spec = spec
             /\ rows[tasks'[a].row].cl \in excused'
    BY <2>1, <2>2, <2>3
  <2>7. excused \subseteq excused'
    BY <2>1
  <2> QED
    BY <2>1, <2>2, <2>4, <2>5, <2>6, <2>7, TablesKeep
<1>8. ASSUME NEW o \in Objs, NEW k \in Clusters, OthersDelete(o, k) \/ OthersCreate(o, k)
      PROVE  FedInv'
  <2>1. /\ UNCHANGED <<fed, spec, joints, rows, cluster, job, tasks>>
        /\ excused \subseteq excused'
    BY <1>8 DEF OthersDelete, OthersCreate
  <2>2. RowsKept /\ JointsKept /\ OneRowPerName'
    BY <1>1, <2>1, OneRowKept DEF RowsKept, JointsKept
  <2>3. \A m \in Clusters : m # k => remote'["role"][m] = remote["role"][m]
    <3>1. CASE OthersDelete(o, k)
      BY <1>1, <3>1, RemoteWiped, StagesTyped DEF OthersDelete
    <3>2. CASE OthersCreate(o, k)
      <4>1. MaxSpec + 1 \in 0..(MaxSpec + 1)
        BY FederationAssumption
      <4> QED
        BY <1>1, <3>2, <4>1, RemoteSet, StagesTyped DEF OthersCreate
    <3> QED
      BY <1>8, <3>1, <3>2
  <2>4. ASSUME Drifts(k)'
        PROVE  FALSE
    <3>1. CASE OthersDelete(o, k)
      <4>1. remote'["role"][k] = 0
        BY <1>1, <3>1, RemoteWiped, StagesTyped DEF OthersDelete, Objs
      <4>2. Creating(k)
        BY <2>1, <2>4, <4>1 DEF Drifts, Creating
      <4> QED
        BY <2>4, <3>1, <4>2 DEF Drifts, OthersDelete
    <3>2. CASE OthersCreate(o, k)
      BY <2>4, <3>2 DEF Drifts, OthersCreate
    <3> QED
      BY <1>8, <3>1, <3>2
  <2>5. ASSUME NEW m \in Clusters, Drifts(m)'
        PROVE  Drifts(m)
    <3>1. remote'["role"][m] = remote["role"][m]
      BY <2>3, <2>4, <2>5
    <3> QED
      BY <2>1, <2>2, <2>5, <3>1, DriftsBefore DEF Exists
  <2> QED
    BY <2>1, <2>2, <2>5, TablesKeep
<1>9. ASSUME NEW k \in Clusters, PurgeCluster(k)
      PROVE  FedInv'
  <2>1. /\ UNCHANGED <<fed, spec, remote, job, tasks, excused>> /\ PurgeRows(k)
        /\ PurgeJoints(k) /\ cluster' = [cluster EXCEPT ![k] = "purged"]
    BY <1>9 DEF PurgeCluster
  <2>2. /\ DOMAIN rows' = DOMAIN rows /\ RowsKept
        /\ \A i \in DOMAIN rows :
             rows'[i].status = IF rows[i].cl = k THEN "gone" ELSE rows[i].status
    BY <1>1, <2>1, RowsPurged
  <2>3. /\ DOMAIN joints' = DOMAIN joints /\ JointsKept
        /\ \A i \in DOMAIN joints : joints[i].cl # k => joints'[i] = joints[i]
        /\ \A i \in DOMAIN joints : joints[i].cl = k => joints'[i].res = 0
    BY <1>1, <2>1, JointsPurged
  <2>4. OneRowPerName'
    BY <1>1, <2>2, OneRowKept
  <2>5. \A m \in Clusters : cluster'[m] = "up" => cluster[m] = "up"
    BY <1>1, <2>1
  <2>6. \A i \in DOMAIN rows' : \/ i \in DOMAIN rows /\ rows'[i].status = rows[i].status
                                \/ rows'[i].status \in {"active", "gone"}
    BY <2>2
  <2>7. \A i \in DOMAIN joints : joints'[i].res = joints[i].res \/ joints'[i].res = 0
    BY <2>3
  <2> QED
    BY <1>3, <2>1, <2>2, <2>3, <2>4, <2>5, <2>6, <2>7
<1>10. ASSUME NEW k \in Clusters, RemoveCluster(k)
       PROVE  FedInv'
  <2>1. /\ UNCHANGED <<fed, spec, joints, rows, tasks, remote, job, excused>>
        /\ cluster' = [cluster EXCEPT ![k] = "gone"]
    BY <1>10 DEF RemoveCluster, rowVars
  <2>2. RowsKept /\ JointsKept /\ OneRowPerName'
    BY <1>1, <2>1, OneRowKept DEF RowsKept, JointsKept
  <2>3. \A m \in Clusters : cluster'[m] = "up" => cluster[m] = "up"
    BY <1>1, <2>1
  <2> QED
    BY <1>3, <2>1, <2>2, <2>3
<1> QED
  BY <1>2, <1>4, <1>5, <1>6, <1>7, <1>8, <1>9, <1>10 DEF Environment

-----------------------------------------------------------------------------
(* Theorems *)

\* The invariant holds at the start.
LEMMA FedInit ==
  ASSUME Init
  PROVE  FedInv
<1>1. /\ fed = [o \in Objs |-> "absent"] /\ spec = 1 /\ joints = <<>> /\ rows = <<>>
      /\ remote = [o \in Objs |-> [k \in Clusters |-> 0]]
      /\ cluster = [k \in Clusters |-> "up"]
      /\ job = [j \in Jobs |-> Idle("idle")]
      /\ tasks = <<>> /\ faults = 0 /\ excused = {}
  BY DEF Init
<1> DEFINE e == Idle("idle")
<1>2. e \in JobType /\ e.kind = "none" /\ e.pc = "idle" /\ e.todo = {}
  BY StagesTyped, IdleTyped
<1> HIDE DEF e
<1>3. \A j \in Jobs : job[j] = e
  BY <1>1 DEF e
<1>4. /\ DOMAIN joints = {} /\ DOMAIN rows = {} /\ DOMAIN tasks = {}
  BY <1>1
<1>5. TypeOK
  <2>1. job \in [Jobs -> JobType]
    BY <1>1, <1>2 DEF e
  <2>2. fed \in [Objs -> FedStatus]
    BY <1>1, StagesTyped
  <2>3. spec \in 1..MaxSpec /\ faults \in 0..MaxFaults
    BY <1>1, FederationAssumption
  <2>4. remote \in [Objs -> [Clusters -> 0..(MaxSpec + 1)]]
    <3>1. 0 \in 0..(MaxSpec + 1)
      BY FederationAssumption
    <3> QED
      BY <1>1, <3>1
  <2>5. cluster \in [Clusters -> {"up", "purged", "gone"}]
    BY <1>1
  <2>6. joints \in Seq(JointType) /\ rows \in Seq(RowType) /\ tasks \in Seq(TaskType)
        /\ Len(rows) <= MaxRows
    BY <1>1, FederationAssumption
  <2> QED
    BY <1>1, <2>1, <2>2, <2>3, <2>4, <2>5, <2>6, TypesSplit
<1>6. JobsKnow
  <2>1. "idle" \in Stages["none"]
    BY DEF Stages
  <2> QED
    BY <1>2, <1>3, <2>1 DEF JobsKnow, JobKnows, Reconcile
<1>7. JointsKnow /\ TasksKnow /\ AttachedOnce /\ OneRowPerName /\ RowsServed
  BY <1>4 DEF JointsKnow, TasksKnow, AttachedOnce, OneRowPerName, RowsServed
<1>8. Born
  BY <1>2, <1>3, <1>4 DEF Born
<1>9. SyncServed
  BY <1>1 DEF SyncServed
<1>10. DriftTracked
  BY <1>1 DEF DriftTracked, Drifts, Exists, Objs
<1> QED
  BY <1>5, <1>6, <1>7, <1>8, <1>9, <1>10 DEF FedInv

\* Every step keeps it.
LEMMA FedStep ==
  ASSUME FedInv, [Next]_vars
  PROVE  FedInv'
<1>1. TypeOK'
  BY TypesKept DEF FedInv
<1>2. ASSUME NEW j \in Jobs, Request(j) \/ JobStep(j)
      PROVE  FedInv'
  BY <1>1, <1>2, RequestKeeps, JobKeeps
<1>3. ASSUME NEW t \in DOMAIN tasks, TaskStep(t)
      PROVE  FedInv'
  BY <1>1, <1>3, TaskKeeps
<1>4. CASE Environment
  BY <1>1, <1>4, EnvironmentKeeps
<1>5. CASE UNCHANGED vars
  <2>1. RowsKept /\ JointsKept /\ OneRowPerName'
    BY <1>5 DEF RowsKept, JointsKept, FedInv, OneRowPerName, Live, vars
  <2>2. \A m \in Clusters : Drifts(m)' => Drifts(m)
    BY <1>5 DEF Drifts, Exists, Attached, Creating, vars
  <2> QED
    BY <1>1, <1>5, <2>1, <2>2, TablesKeep DEF vars
<1> QED
  BY <1>2, <1>3, <1>4, <1>5 DEF Next

\* The inductive invariant: what jobs, joint rows and tasks remember is about
\* their object and cluster, what is in a transition has somebody to end it and
\* a role that is not what its template says has somebody who will bring it.
THEOREM FederationInvariant == Spec => []FedInv
  BY FedInit, FedStep, PTL DEF Spec

\* The tables of fed_api.go keep their types, whatever others do to them.
THEOREM FederationTypeCorrect == Spec => []TypeOK
<1>1. FedInv => TypeOK
  BY DEF FedInv
<1> QED
  BY <1>1, FederationInvariant, PTL

\* An object is attached to a cluster once and has one row there: the existence
\* checks of JustAttachCluster and createResource hold against requests, tasks,
\* the synchronisation and purges that overlap.
THEOREM AttachmentsAreUnique == Spec => []AttachedUniquely
<1>1. FedInv => AttachedUniquely
  BY DEF FedInv, AttachedUniquely
<1> QED
  BY <1>1, FederationInvariant, PTL

\* A row in a transitional status has a task past its first step, a row that was
\* inserted a task or a job about to start one, and a federated object that is
\* synchronising a task that will end it.
THEOREM TransitionsAreServed == Spec => []TransitionHasTask
<1>1. FedInv => TransitionHasTask
  <2> SUFFICES ASSUME FedInv
               PROVE  TransitionHasTask
    OBVIOUS
  <2>1. ASSUME NEW r \in DOMAIN rows
        PROVE  /\ rows[r].status \in Transitional => \E t \in Pending(r) : tasks[t].pc # "init"
               /\ rows[r].status = "init" =>
                    Pending(r) # {} \/ \E j \in Jobs : job[j].pc = "bind" /\ job[j].res = r
    BY DEF FedInv, RowsServed, Pending
  <2>2. ASSUME NEW o \in Objs, fed[o] = "syncing"
        PROVE  \E j \in Jobs : /\ job[j].kind = "sync" /\ job[j].obj = o
                               /\ job[j].pc \notin {"idle", "init", "done"}
    BY <2>2 DEF FedInv, SyncServed, Syncs
  <2> QED
    BY <2>1, <2>2 DEF TransitionHasTask
<1> QED
  BY <1>1, FederationInvariant, PTL

\* When all jobs and tasks have ended, an attached cluster has the role as the
\* template says, unless something was reported or somebody else interfered:
\* synchronisations, attachments and row tasks that overlap lose no update.
THEOREM DriftsAreExplained == Spec => []DriftExplained
<1>1. FedInv => DriftExplained
  <2> SUFFICES ASSUME FedInv, NEW k \in Clusters, Quiet, Exists("role"),
                      Attached("role", k) # {}, k \notin excused, cluster[k] = "up",
                      remote["role"][k] # 0
               PROVE  remote["role"][k] = spec
    BY DEF DriftExplained
  <2>1. \A j \in Jobs : ~FreshJob(j, k)
    <3>1. \A j \in Jobs : job[j].pc \notin {"init", "list", "loop"} \cup Reconcile
      BY DEF Quiet, Reconcile
    <3> QED
      BY <3>1, NothingFresh
  <2>2. DOMAIN tasks = {}
    BY DEF Quiet
  <2>3. ~Fresh(k)
    BY <2>1, <2>2 DEF Fresh
  <2> QED
    BY <2>3 DEF FedInv, DriftTracked, Drifts
<1> QED
  BY <1>1, FederationInvariant, PTL

-----------------------------------------------------------------------------
(* Roles and bindings: the inductive invariant *)

FrTypeOK ==
  /\ fr \in [FrObjs -> Content] /\ jt \in [FrObjs -> {"none", "joint", "bound"}]
  /\ rm \in [Places -> Content]

\* A federated object has a place in a cluster, a binding names a sort of role.
Placed ==
  \A o \in FrObjs : Created(o) => Place(o) \in Places /\ (o \in Bindings => fr[o].ref \in Roles)

\* What the federated object filled is still filled.
OwnFilled == \A p \in own : rm[p] # Absent

GrantsOK == FrTypeOK /\ Placed /\ OwnFilled /\ BoundRefsAgree /\ DanglingExplained

\* The fan-out asks clusters it knows: the goroutines under way are those started, and
\* a result that is not nil is the list of a cluster asked.
AskOK ==
  /\ ask = [st |-> ask.st, list |-> ask.list, i |-> ask.i, going |-> ask.going,
            results |-> ask.results, err |-> ask.err, ans |-> ask.ans]
  /\ ask.list \in Seq(FrClusters) /\ ask.i \in 0..Len(ask.list)
  /\ ask.going \subseteq 1..ask.i
  /\ DOMAIN ask.results = 1..Len(ask.list)
  /\ \A k \in 1..Len(ask.list) :
       ask.results[k].nil \/ \E m \in 1..Len(ask.list) : ask.results[k].set = ask.list[m].has
  /\ Asking => ask.ans = {}
  /\ ask.st = "answered" =>
       /\ ask.err = FALSE
       /\ ask.ans = {} \/ \E m \in 1..Len(ask.list) : ask.ans = ask.list[m].has

-----------------------------------------------------------------------------
(* Roles and bindings: one lemma for each sort of step *)

\* The kinds of object are different, and a version counts from 1.
LEMMA FrFacts ==
  /\ Roles \cap Bindings = {} /\ Roles \subseteq FrObjs /\ Bindings \subseteq FrObjs
  /\ Absent \in Content /\ 1 \in 0..MaxVersion /\ 0 \in 0..MaxVersion
  /\ \A o \in FrObjs, n \in Ns \cup {"none"} : <<o, n>> \in Places <=> (o \in Namespaced <=> n # "none")
BY FederatedRolesAssumption DEF Roles, ClusterRoles, Bindings, FrObjs, Absent, Content, Places, Ns,
   Namespaced

\* Inserting a federated object keeps the grants: the binding's role is there and the
\* object fills no place yet.
LEMMA InsertKeeps ==
  ASSUME GrantsOK, NEW o \in FrObjs, NEW n \in Content, Insert(o, n), n.v = 1,
         o \in Namespaced <=> n.ns # "none",
         o \in Bindings => n.ref \in Roles /\ Created(n.ref)
  PROVE  GrantsOK'
<1> USE FrFacts DEF GrantsOK, Insert, Created
<1>1. /\ fr' = [fr EXCEPT ![o] = n] /\ rm' = rm /\ jt' = jt
      /\ own' = {p \in own : p[1] # o} /\ dropped' = {d \in dropped : d[1] # o}
      /\ fr \in [FrObjs -> Content] /\ fr' \in [FrObjs -> Content]
  BY DEF FrTypeOK
<1>2. fr'[o] = n /\ \A q \in FrObjs : q # o => fr'[q] = fr[q]
  BY <1>1
<1>3. FrTypeOK'
  BY <1>1 DEF FrTypeOK
<1>4. Placed'
  <2> SUFFICES ASSUME NEW q \in FrObjs, Created(q)'
               PROVE  Place(q)' \in Places /\ (q \in Bindings => fr'[q].ref \in Roles)
    BY DEF Placed
  <2>1. CASE q = o
    <3>1. n.ns \in Ns \cup {"none"}
      BY DEF Content
    <3> QED BY <2>1, <3>1, <1>2 DEF Place
  <2>2. CASE q # o
    BY <2>2, <1>2 DEF Place, Placed
  <2> QED BY <2>1, <2>2
<1>5. OwnFilled'
  BY <1>1 DEF OwnFilled
<1>6. BoundRefsAgree'
  <2> SUFFICES ASSUME NEW q \in Bindings, Created(q)', Place(q)' \in own'
               PROVE  rm'[Place(q)'].ref = fr'[q].ref
    BY DEF BoundRefsAgree
  <2>1. Place(q)'[1] = q
    BY DEF Place
  <2>2. q # o
    BY <2>1, <1>1
  <2> QED BY <2>2, <1>1, <1>2 DEF BoundRefsAgree, Place
<1>7. DanglingExplained'
  <2> SUFFICES ASSUME NEW q \in Bindings, Created(q)'
               PROVE  Created(fr[q].ref)' \/ <<q, fr'[q].ref>> \in dropped'
    BY DEF DanglingExplained
  <2>1. CASE q = o
    <3>1. fr'[q].ref \in Roles /\ fr'[q].ref # o /\ Created(fr'[q].ref)
      BY <2>1, <1>2
    <3> QED BY <3>1, <1>2
  <2>2. CASE q # o
    <3>1. fr'[q] = fr[q] /\ Created(q) /\ fr[q].ref \in Roles
      BY <2>2, <1>2 DEF Placed
    <3>2. Created(fr[q].ref) \/ <<q, fr[q].ref>> \in dropped
      BY <3>1 DEF DanglingExplained
    <3>3. CASE Created(fr[q].ref)
      <4>1. fr[q].ref # o
        BY <3>3
      <4> QED BY <3>1, <3>3, <4>1, <1>2
    <3>4. CASE <<q, fr[q].ref>> \in dropped
      BY <3>1, <3>4, <2>2, <1>1
    <3> QED BY <3>2, <3>3, <3>4
  <2> QED BY <2>1, <2>2
<1> QED BY <1>3, <1>4, <1>5, <1>6, <1>7

\* An update that leaves namespace and role reference alone keeps the grants.
LEMMA UpdateKeeps ==
  ASSUME GrantsOK, NEW o \in FrObjs, NEW n \in Content, Update(o, n), n.v > 0,
         n.ns = fr[o].ns, n.ref = fr[o].ref
  PROVE  GrantsOK'
<1> USE FrFacts DEF GrantsOK, Update, Created
<1>1. /\ fr' = [fr EXCEPT ![o] = n] /\ rm' = rm /\ jt' = jt /\ own' = own /\ dropped' = dropped
      /\ fr \in [FrObjs -> Content] /\ fr' \in [FrObjs -> Content] /\ fr[o].v > 0
  BY DEF FrTypeOK
<1>2. \A q \in FrObjs : /\ fr'[q].ref = fr[q].ref /\ fr'[q].ns = fr[q].ns
                        /\ fr'[q].v > 0 <=> fr[q].v > 0
  BY <1>1
<1>3. \A q \in FrObjs : (Created(q)' <=> Created(q)) /\ Place(q)' = Place(q)
  BY <1>2 DEF Place
<1>4. FrTypeOK'
  BY <1>1 DEF FrTypeOK
<1>5. Placed'
  BY <1>2, <1>3 DEF Placed
<1>6. OwnFilled'
  BY <1>1 DEF OwnFilled
<1>7. BoundRefsAgree'
  BY <1>1, <1>2, <1>3 DEF BoundRefsAgree
<1>8. DanglingExplained'
  <2> SUFFICES ASSUME NEW q \in Bindings, Created(q)'
               PROVE  Created(fr[q].ref)' \/ <<q, fr'[q].ref>> \in dropped'
    BY DEF DanglingExplained
  <2>1. Created(q) /\ fr'[q].ref = fr[q].ref /\ fr[q].ref \in FrObjs
    BY <1>2, <1>3 DEF Placed
  <2>2. Created(fr[q].ref) \/ <<q, fr[q].ref>> \in dropped
    BY <2>1 DEF DanglingExplained
  <2> QED BY <2>1, <2>2, <1>1, <1>2
<1> QED BY <1>4, <1>5, <1>6, <1>7, <1>8

\* Deleting a role leaves its bindings dangling, which is recorded.
LEMMA DeleteFedKeeps ==
  ASSUME GrantsOK, NEW o \in FrObjs, DeleteFedRole(o)
  PROVE  GrantsOK'
<1> USE FrFacts DEF GrantsOK, DeleteFedRole, Created
<1>1. /\ fr' = [fr EXCEPT ![o] = Absent] /\ rm' = rm /\ jt' = jt
      /\ own' = {p \in own : p[1] # o}
      /\ dropped \subseteq dropped'
      /\ \A b \in Bindings : o \in Roles => <<b, o>> \in dropped'
      /\ fr \in [FrObjs -> Content] /\ fr' \in [FrObjs -> Content]
  BY DEF FrTypeOK
<1>2. fr'[o].v = 0 /\ \A q \in FrObjs : q # o => fr'[q] = fr[q]
  BY <1>1 DEF Absent
<1>3. \A q \in FrObjs : Created(q)' => q # o /\ Created(q) /\ Place(q)' = Place(q)
  BY <1>2 DEF Place
<1>4. FrTypeOK'
  BY <1>1 DEF FrTypeOK
<1>5. Placed'
  BY <1>2, <1>3 DEF Placed
<1>6. OwnFilled'
  BY <1>1 DEF OwnFilled
<1>7. BoundRefsAgree'
  BY <1>1, <1>2, <1>3 DEF BoundRefsAgree
<1>8. DanglingExplained'
  <2> SUFFICES ASSUME NEW q \in Bindings, Created(q)'
               PROVE  Created(fr[q].ref)' \/ <<q, fr'[q].ref>> \in dropped'
    BY DEF DanglingExplained
  <2>1. Created(q) /\ fr'[q] = fr[q] /\ fr[q].ref \in Roles
    BY <1>2, <1>3 DEF Placed
  <2>2. Created(fr[q].ref) \/ <<q, fr[q].ref>> \in dropped
    BY <2>1 DEF DanglingExplained
  <2>3. CASE fr[q].ref = o
    BY <2>1, <2>3, <1>1
  <2>4. CASE fr[q].ref # o
    BY <2>1, <2>2, <2>4, <1>1, <1>2
  <2> QED BY <2>3, <2>4
<1> QED BY <1>4, <1>5, <1>6, <1>7, <1>8

\* What others read of the federated objects stays.
FrSame == fr' = fr /\ dropped' = dropped

\* A step that leaves the federated objects alone and writes at most one place.
LEMMA PlaceKeeps ==
  ASSUME GrantsOK, FrSame, jt' \in [FrObjs -> {"none", "joint", "bound"}],
         NEW p \in Places, NEW c \in Content, rm' = [rm EXCEPT ![p] = c],
         own' \subseteq own \cup {p}, p \in own' => c # Absent,
         \A o \in Bindings : (Created(o) /\ Place(o) = p /\ p \in own') => c.ref = fr[o].ref
  PROVE  GrantsOK'
<1> USE FrFacts DEF GrantsOK, FrSame, Created
<1>1. rm \in [Places -> Content] /\ rm' \in [Places -> Content]
  BY DEF FrTypeOK
<1>2. \A o \in FrObjs : Created(o) => Place(o) \in Places
  BY DEF Placed
<1>3. FrTypeOK'
  BY <1>1 DEF FrTypeOK
<1>4. Placed'
  BY DEF Placed, Place
<1>5. OwnFilled'
  BY <1>1 DEF OwnFilled
<1>6. BoundRefsAgree'
  <2> SUFFICES ASSUME NEW q \in Bindings, Created(q), Place(q) \in own'
               PROVE  rm'[Place(q)].ref = fr[q].ref
    BY DEF BoundRefsAgree, Place
  <2>1. CASE Place(q) = p
    BY <2>1, <1>1
  <2>2. CASE Place(q) # p
    BY <2>2, <1>1, <1>2 DEF BoundRefsAgree
  <2> QED BY <2>1, <2>2
<1>7. DanglingExplained'
  BY DEF DanglingExplained
<1> QED BY <1>3, <1>4, <1>5, <1>6, <1>7

\* Joint rows and clusters come and go without touching the grants.
LEMMA JointKeeps ==
  ASSUME GrantsOK, FrSame, jt' \in [FrObjs -> {"none", "joint", "bound"}], rm' = rm, own' = own
  PROVE  GrantsOK'
BY DEF GrantsOK, FrSame, FrTypeOK, Placed, OwnFilled, BoundRefsAgree, DanglingExplained, Place,
   Created

\* The kinds whose objects are created.
FrKinds == {"clusterrole", "role", "clusterrolebinding", "rolebinding"}

\* The content for a cluster is that of the federated object.
LEMMA DataFacts ==
  ASSUME FrTypeOK, NEW o \in FrKinds, Created(o), NEW old \in Content
  PROVE  /\ GetResourceData(o, old) \in Content /\ GetResourceData(o, old) # Absent
         /\ o \in Bindings => GetResourceData(o, old).ref = fr[o].ref
<1>1. \A q \in FrKinds : fr[q] \in Content
  BY DEF FrTypeOK, FrObjs, Roles, ClusterRoles, Bindings, FrKinds
<1>2. /\ fr["clusterrole"] \in Content /\ fr["role"] \in Content
      /\ fr["clusterrolebinding"] \in Content /\ fr["rolebinding"] \in Content
  BY <1>1 DEF FrKinds
<1>3. /\ GetResourceData(o, old) \in Content /\ GetResourceData(o, old).v = fr[o].v
      /\ o \in Bindings => GetResourceData(o, old).ref = fr[o].ref
  <2>1. CASE o = "clusterrole"
    <3>1. GetResourceData(o, old) = [old EXCEPT !.v = fr["clusterrole"].v]
      BY <2>1 DEF GetResourceData, ClusterRoleData
    <3> QED BY <2>1, <3>1, <1>2 DEF Content, Bindings
  <2>2. CASE o = "role"
    <3>1. GetResourceData(o, old) = [old EXCEPT !.v = fr["role"].v, !.ns = fr["role"].ns]
      BY <2>2 DEF GetResourceData, RoleData
    <3> QED BY <2>2, <3>1, <1>2 DEF Content, Bindings
  <2>3. CASE o = "clusterrolebinding"
    <3>1. GetResourceData(o, old) =
            [old EXCEPT !.v = fr["clusterrolebinding"].v, !.ref = fr["clusterrolebinding"].ref]
      BY <2>3 DEF GetResourceData, ClusterRoleBindingData
    <3> QED BY <2>3, <3>1, <1>2 DEF Content
  <2>4. CASE o = "rolebinding"
    <3>1. GetResourceData(o, old) = fr["rolebinding"]
      BY <2>4 DEF GetResourceData, RoleBindingData
    <3> QED BY <2>4, <3>1, <1>2 DEF Content
  <2> QED BY <2>1, <2>2, <2>3, <2>4 DEF FrKinds
<1>4. fr[o].v > 0
  BY DEF Created
<1> QED BY <1>3, <1>4 DEF Absent

\* The requests that insert a federated object.
LEMMA CreateFedKeeps ==
  ASSUME GrantsOK,
         \/ CreateFedClusterRole
         \/ \E n \in Ns : CreateFedRole(n)
         \/ \E r \in Roles : CreateFedClusterRoleBinding(r)
         \/ \E r \in Roles : \E n \in Ns : CreateFedRoleBinding(r, n)
  PROVE  GrantsOK'
<1> USE FrFacts
<1>1. CASE CreateFedClusterRole
  <2> DEFINE n == [v |-> 1, ref |-> "none", ns |-> "none"]
  <2>1. n \in Content /\ n.v = 1 /\ n.ns = "none"
    BY DEF Content
  <2>2. "clusterrole" \in FrObjs \ Bindings /\ "clusterrole" \notin Namespaced
    BY DEF FrObjs, Roles, ClusterRoles, Bindings, Namespaced
  <2>3. Insert("clusterrole", n)
    BY <1>1 DEF CreateFedClusterRole
  <2> HIDE DEF n
  <2> QED BY <2>1, <2>2, <2>3, InsertKeeps
<1>2. ASSUME NEW s \in Ns, CreateFedRole(s)
      PROVE  GrantsOK'
  <2> DEFINE n == [v |-> 1, ref |-> "none", ns |-> s]
  <2>1. n \in Content /\ n.v = 1 /\ n.ns # "none"
    BY DEF Content, Ns
  <2>2. "role" \in FrObjs \ Bindings /\ "role" \in Namespaced
    BY DEF FrObjs, Roles, ClusterRoles, Bindings, Namespaced
  <2>3. Insert("role", n)
    BY <1>2 DEF CreateFedRole
  <2> HIDE DEF n
  <2> QED BY <2>1, <2>2, <2>3, InsertKeeps
<1>3. ASSUME NEW r \in Roles, CreateFedClusterRoleBinding(r)
      PROVE  GrantsOK'
  <2> DEFINE n == [v |-> 1, ref |-> r, ns |-> "none"]
  <2>1. n \in Content /\ n.v = 1 /\ n.ns = "none" /\ n.ref = r
    BY DEF Content
  <2>2. "clusterrolebinding" \in FrObjs /\ "clusterrolebinding" \notin Namespaced
    BY DEF FrObjs, Roles, ClusterRoles, Bindings, Namespaced
  <2>3. Insert("clusterrolebinding", n) /\ Created(r)
    BY <1>3 DEF CreateFedClusterRoleBinding, ValidateFederatedRoleRef
  <2> HIDE DEF n
  <2> QED BY <2>1, <2>2, <2>3, InsertKeeps
<1>4. ASSUME NEW r \in Roles, NEW s \in Ns, CreateFedRoleBinding(r, s)
      PROVE  GrantsOK'
  <2> DEFINE n == [v |-> 1, ref |-> r, ns |-> s]
  <2>1. n \in Content /\ n.v = 1 /\ n.ns # "none" /\ n.ref = r
    BY DEF Content, Ns
  <2>2. "rolebinding" \in FrObjs /\ "rolebinding" \in Namespaced
    BY DEF FrObjs, Roles, ClusterRoles, Bindings, Namespaced
  <2>3. Insert("rolebinding", n) /\ Created(r)
    BY <1>4 DEF CreateFedRoleBinding, ValidateFederatedRoleRef
  <2> HIDE DEF n
  <2> QED BY <2>1, <2>2, <2>3, InsertKeeps
<1> QED BY <1>1, <1>2, <1>3, <1>4

\* A request that is refused changes no grant.
LEMMA RefuseKeeps ==
  ASSUME GrantsOK, NEW o \in FrObjs, Refuse(o)
  PROVE  GrantsOK'
<1>1. FrSame /\ jt' = jt /\ rm' = rm /\ own' = own
  BY DEF Refuse, FrSame
<1> QED BY <1>1, JointKeeps DEF GrantsOK, FrTypeOK

\* The requests that update a federated object: a cluster role binding keeps its role
\* reference, a role binding is never updated.
LEMMA ChangeKeeps ==
  ASSUME GrantsOK,
         \/ UpdateFedClusterRole \/ UpdateFedRole
         \/ \E r \in Roles : UpdateFedClusterRoleBinding(r) \/ UpdateFedRoleBinding(r)
  PROVE  GrantsOK'
<1> USE FrFacts, FederatedRolesAssumption
<1>0. \A o \in FrObjs : /\ fr[o] \in Content /\ fr[o].v \in 0..MaxVersion
                        /\ fr[o] = [v |-> fr[o].v, ref |-> fr[o].ref, ns |-> fr[o].ns]
  <2> SUFFICES ASSUME NEW o \in FrObjs
               PROVE  /\ fr[o] \in Content /\ fr[o].v \in 0..MaxVersion
                      /\ fr[o] = [v |-> fr[o].v, ref |-> fr[o].ref, ns |-> fr[o].ns]
    OBVIOUS
  <2>1. fr[o] \in Content
    BY DEF GrantsOK, FrTypeOK
  <2> QED BY <2>1 DEF Content
<1>1. ASSUME NEW o \in FrObjs, NEW n, Update(o, n),
             n = [v |-> fr[o].v + 1, ref |-> fr[o].ref, ns |-> fr[o].ns]
      PROVE  GrantsOK'
  <2>1. fr[o].v > 0 /\ fr[o].v < MaxVersion
    BY <1>1 DEF Update, Created
  <2>0. fr[o].v \in 0..MaxVersion /\ MaxVersion \in Nat
    BY <1>0
  <2>2. fr[o].v \in Nat /\ fr[o].v + 1 \in 0..MaxVersion
    BY ONLY <2>0, <2>1
  <2>3. fr[o].ref \in Roles \cup {"none"} /\ fr[o].ns \in Ns \cup {"none"}
    BY <1>0 DEF Content
  <2>4. n \in Content
    BY <1>1, <2>2, <2>3 DEF Content
  <2>5. n.v > 0 /\ n.ns = fr[o].ns /\ n.ref = fr[o].ref
    BY <1>1, <2>2
  <2> QED BY <1>1, <2>4, <2>5, UpdateKeeps
<1>2. ASSUME NEW o \in FrObjs, Update(o, [fr[o] EXCEPT !.v = @ + 1])
      PROVE  GrantsOK'
  <2>1. [fr[o] EXCEPT !.v = @ + 1] = [v |-> fr[o].v + 1, ref |-> fr[o].ref, ns |-> fr[o].ns]
    <3>1. fr[o] = [v |-> fr[o].v, ref |-> fr[o].ref, ns |-> fr[o].ns]
      BY <1>0
    <3> QED BY ONLY <3>1
  <2> QED BY <1>1, <1>2, <2>1
<1>3. CASE UpdateFedClusterRole
  BY <1>2, <1>3 DEF UpdateFedClusterRole, FrObjs, Roles, ClusterRoles
<1>4. CASE UpdateFedRole
  BY <1>2, <1>4 DEF UpdateFedRole, FrObjs, Roles
<1>5. ASSUME NEW r \in Roles, UpdateFedClusterRoleBinding(r)
      PROVE  GrantsOK'
  <2> DEFINE o == "clusterrolebinding"
             n == [fr[o] EXCEPT !.v = @ + 1, !.ref = r]
  <2>1. o \in FrObjs
    BY DEF FrObjs, Bindings
  <2>2. CASE ValidateUpdateFedClusterRoleBinding(fr[o], n)
    <3>1. n = [v |-> fr[o].v + 1, ref |-> r, ns |-> fr[o].ns]
      <4>1. fr[o] = [v |-> fr[o].v, ref |-> fr[o].ref, ns |-> fr[o].ns]
        BY <1>0, <2>1
      <4> DEFINE m == [fr[o] EXCEPT !.v = @ + 1]
      <4>2. m = [v |-> fr[o].v + 1, ref |-> fr[o].ref, ns |-> fr[o].ns]
        BY ONLY <4>1 DEF m
      <4>3. n = [m EXCEPT !.ref = r]
        BY DEF n, m
      <4> HIDE DEF m
      <4> QED BY ONLY <4>2, <4>3
    <3>2. Update(o, n)
      BY <1>5, <2>2 DEF UpdateFedClusterRoleBinding
    <3>3. n.ref = fr[o].ref
      BY <2>2 DEF ValidateUpdateFedClusterRoleBinding
    <3>4. n = [v |-> fr[o].v + 1, ref |-> fr[o].ref, ns |-> fr[o].ns]
      BY <3>1, <3>3
    <3> HIDE DEF n
    <3> QED BY <2>1, <3>2, <3>4, <1>1
  <2>3. CASE ~ValidateUpdateFedClusterRoleBinding(fr[o], n)
    <3>1. Refuse(o)
      BY <1>5, <2>3 DEF UpdateFedClusterRoleBinding
    <3> QED BY <2>1, <3>1, RefuseKeeps
  <2> QED BY <2>2, <2>3
<1>6. ASSUME NEW r \in Roles, UpdateFedRoleBinding(r)
      PROVE  GrantsOK'
  <2>1. Refuse("rolebinding")
    BY <1>6 DEF UpdateFedRoleBinding, ValidateUpdateFedRoleBinding, HasResourceVersion,
       FedObjectMeta
  <2>2. "rolebinding" \in FrObjs
    BY DEF FrObjs, Bindings
  <2> QED BY <2>1, <2>2, RefuseKeeps
<1> QED BY <1>3, <1>4, <1>5, <1>6

\* Creating or updating the object of a cluster: what is written names the role of the
\* federated binding.
LEMMA SyncKeeps ==
  ASSUME GrantsOK, NEW o \in FrKinds, SyncCreates(o) \/ SyncUpdates(o)
  PROVE  GrantsOK'
<1>1. o \in FrObjs
  BY DEF FrKinds, FrObjs, Roles, ClusterRoles, Bindings
<1>2. /\ Created(o) /\ FrSame /\ Place(o) \in Places
      /\ jt' = [jt EXCEPT ![o] = "bound"] /\ jt' \in [FrObjs -> {"none", "joint", "bound"}]
  BY <1>1 DEF GrantsOK, FrTypeOK, Placed, FrSame, SyncCreates, SyncUpdates
<1>3. rm[Place(o)] \in Content
  BY <1>2 DEF GrantsOK, FrTypeOK
<1>4. \A q \in FrObjs : Place(q) = Place(o) => q = o
  BY DEF Place
<1>5. CASE SyncCreates(o)
  <2> DEFINE c == GetResourceData(o, Absent)
  <2>1. rm' = [rm EXCEPT ![Place(o)] = c] /\ own' = own \cup {Place(o)}
    BY <1>5 DEF SyncCreates
  <2>2. c \in Content /\ c # Absent /\ (o \in Bindings => c.ref = fr[o].ref)
    BY <1>2, DataFacts, FrFacts DEF GrantsOK
  <2> HIDE DEF c
  <2>3. \A q \in Bindings : Place(q) = Place(o) => c.ref = fr[q].ref
    BY <1>4, <2>2, FrFacts
  <2>4. own' \subseteq own \cup {Place(o)}
    BY <2>1
  <2> QED BY <1>2, <2>1, <2>2, <2>3, <2>4, PlaceKeeps
<1>6. CASE SyncUpdates(o)
  <2> DEFINE c == GetResourceData(o, rm[Place(o)])
  <2>1. c \in Content /\ c # Absent /\ (o \in Bindings => c.ref = fr[o].ref)
    BY <1>2, <1>3, DataFacts DEF GrantsOK
  <2>2. own' = own /\ (rm' = [rm EXCEPT ![Place(o)] = c] \/ rm' = rm)
    BY <1>6 DEF SyncUpdates
  <2> HIDE DEF c
  <2>3. CASE rm' = [rm EXCEPT ![Place(o)] = c]
    <3>1. \A q \in Bindings : Place(q) = Place(o) => c.ref = fr[q].ref
      BY <1>4, <2>1, FrFacts
    <3>2. own' \subseteq own \cup {Place(o)}
      BY <2>2
    <3> QED BY <1>2, <2>1, <2>3, <3>1, <3>2, PlaceKeeps
  <2>4. CASE rm' = rm
    BY <1>2, <2>2, <2>4, JointKeeps
  <2> QED BY <2>2, <2>3, <2>4
<1> QED BY <1>5, <1>6

\* Others delete objects, and create bindings where there is nothing.
LEMMA OthersKeep ==
  ASSUME GrantsOK, NEW p \in Places,
         OthersDeleteObject(p) \/ \E r \in Roles : OthersCreateBinding(p, r)
  PROVE  GrantsOK'
<1>1. jt \in [FrObjs -> {"none", "joint", "bound"}]
  BY DEF GrantsOK, FrTypeOK
<1>2. CASE OthersDeleteObject(p)
  <2>1. /\ FrSame /\ jt' = jt /\ rm' = [rm EXCEPT ![p] = Absent] /\ own' = own \ {p}
    BY <1>2 DEF OthersDeleteObject, FrSame
  <2> QED BY <1>1, <2>1, FrFacts, PlaceKeeps
<1>3. ASSUME NEW r \in Roles, OthersCreateBinding(p, r)
      PROVE  GrantsOK'
  <2> DEFINE c == [v |-> 1, ref |-> r, ns |-> p[2]]
  <2>1. p[2] \in Ns \cup {"none"}
    BY DEF Places
  <2>2. c \in Content /\ c # Absent
    BY <2>1, FrFacts DEF Content, Absent
  <2>3. /\ FrSame /\ jt' = jt /\ rm' = [rm EXCEPT ![p] = c] /\ own' = own /\ p \notin own
    BY <1>3 DEF OthersCreateBinding, FrSame, GrantsOK, OwnFilled
  <2> HIDE DEF c
  <2> QED BY <1>1, <2>2, <2>3, PlaceKeeps
<1> QED BY <1>2, <1>3

\* Joint rows and the cluster come and go.
LEMMA JointsKeep ==
  ASSUME GrantsOK,
         \/ \E o \in FrObjs : Attach(o) \/ Detach(o)
         \/ PurgeAllByCluster \/ RemoveClusterRow
  PROVE  GrantsOK'
<1>1. jt \in [FrObjs -> {"none", "joint", "bound"}]
  BY DEF GrantsOK, FrTypeOK
<1>2. ASSUME NEW o \in FrObjs, Attach(o) \/ Detach(o)
      PROVE  GrantsOK'
  <2>1. FrSame /\ rm' = rm /\ own' = own /\ jt' \in [FrObjs -> {"none", "joint", "bound"}]
    BY <1>1, <1>2 DEF Attach, Detach, FrSame
  <2> QED BY <2>1, JointKeeps
<1>3. CASE PurgeAllByCluster
  <2>1. FrSame /\ rm' = rm /\ own' = own /\ jt' \in [FrObjs -> {"none", "joint", "bound"}]
    BY <1>3 DEF PurgeAllByCluster, FrSame
  <2> QED BY <2>1, JointKeeps
<1>4. CASE RemoveClusterRow
  <2>1. FrSame /\ rm' = rm /\ own' = own /\ jt' \in [FrObjs -> {"none", "joint", "bound"}]
    BY <1>1, <1>4 DEF RemoveClusterRow, FrSame
  <2> QED BY <2>1, JointKeeps
<1> QED BY <1>2, <1>3, <1>4

-----------------------------------------------------------------------------
(* The fan-out *)

\* What a cluster answers is nil or its whole list.
LEMMA RemoteFacts ==
  ASSUME NEW c, NEW what
  PROVE  RemoteResources(c, what).nil \/ RemoteResources(c, what).set = c.has
<1>1. CASE what = "api"
  BY <1>1 DEF RemoteResources, GetDetailsApiResources
<1>2. CASE what # "api" /\ c.openshift
  BY <1>2 DEF RemoteResources, GetDetailsClusterUsers
<1>3. CASE what # "api" /\ ~c.openshift
  BY <1>3 DEF RemoteResources, GetDetailsClusterUsers
<1> QED BY <1>1, <1>2, <1>3

\* The clusters asked are a sequence.
LEMMA RunningFacts ==
  ASSUME NEW system, NEW list \in GetFedRunningCluster(system)
  PROVE  list \in Seq(FrClusters)
<1> DEFINE S == {c \in FrClusters : c.running /\ (system \/ c.domain = "mine")}
<1>1. IsFiniteSet(S) /\ S \subseteq FrClusters
  BY FederatedRolesAssumption, FS_Subset
<1>2. Cardinality(S) \in Nat
  BY <1>1, FS_CardinalityType
<1>3. list \in [1..Cardinality(S) -> S]
  <2>1. list \in SetToSeqs(S)
    BY DEF GetFedRunningCluster
  <2> HIDE DEF S
  <2> QED BY <2>1 DEF SetToSeqs
<1> HIDE DEF S
<1>4. list \in [1..Cardinality(S) -> FrClusters]
  BY <1>1, <1>3
<1> QED BY <1>2, <1>4, IsASeq

\* The union of the answers is empty or one of them: operateSet drops what it appends.
LEMMA UnionFacts ==
  ASSUME NEW n \in Nat, NEW results, DOMAIN results = 1..n
  PROVE  \/ UnionOf(results) = {}
         \/ \E k \in 1..n : ~results[k].nil /\ UnionOf(results) = results[k].set
<1> DEFINE fRess == {k \in DOMAIN results : ~results[k].nil}
           heads == {k \in fRess : \A m \in fRess : k <= m}
           first == UNION {results[k].set : k \in heads}
<1>1. UnionOf(results) = {} \/ UnionOf(results) = first
  BY DEF UnionOf, operateSet
<1>2. \A k, m \in heads : k = m
  OBVIOUS
<1>3. \A k \in heads : k \in 1..n /\ ~results[k].nil
  OBVIOUS
<1> HIDE DEF heads
<1>4. CASE heads = {}
  BY <1>1, <1>4
<1>5. ASSUME NEW k \in heads
      PROVE  first = results[k].set
  <2>1. heads = {k}
    BY <1>2
  <2> QED BY <2>1
<1> QED BY <1>1, <1>3, <1>4, <1>5

\* Every step of the fan-out keeps what it knows.
LEMMA AskKeeps ==
  ASSUME AskOK,
         \/ \E what \in {"api", "users", "groups"}, s \in BOOLEAN : AskClusters(what, s)
         \/ Launch \/ Wait \/ \E k \in ask.going : Store(k) \/ AskFails(k)
  PROVE  AskOK'
<1> DEFINE n == Len(ask.list)
<1>0. n \in Nat /\ DOMAIN ask.list = 1..n
  BY LenProperties DEF AskOK
<1>1. ASSUME NEW what \in {"api", "users", "groups"}, NEW s \in BOOLEAN, AskClusters(what, s)
      PROVE  AskOK'
  <2>1. PICK list \in GetFedRunningCluster(s) :
          ask' = [NoAsk EXCEPT !.st = IF list = <<>> THEN "answered" ELSE what, !.list = list,
                               !.results = [k \in DOMAIN list |-> NilResult]]
    BY <1>1 DEF AskClusters
  <2> DEFINE st == IF list = <<>> THEN "answered" ELSE what
             res == [k \in DOMAIN list |-> NilResult]
  <2>2. ask' = [st |-> st, list |-> list, i |-> 0, going |-> {}, results |-> res,
                err |-> FALSE, ans |-> {}]
    BY <2>1 DEF NoAsk
  <2>3. /\ list \in Seq(FrClusters) /\ Len(list) \in Nat /\ DOMAIN list = 1..Len(list)
    BY RunningFacts, LenProperties
  <2>4. DOMAIN res = 1..Len(list) /\ \A k \in 1..Len(list) : res[k].nil
    BY <2>3 DEF NilResult
  <2> HIDE DEF st, res
  <2>5. /\ ask'.st = st /\ ask'.list = list /\ ask'.i = 0 /\ ask'.going = {}
        /\ ask'.results = res /\ ask'.err = FALSE /\ ask'.ans = {}
        /\ ask' = [st |-> ask'.st, list |-> ask'.list, i |-> ask'.i, going |-> ask'.going,
                   results |-> ask'.results, err |-> ask'.err, ans |-> ask'.ans]
    BY ONLY <2>2
  <2>6. 0 \in 0..Len(list)
    BY <2>3
  <2> QED BY <2>3, <2>4, <2>5, <2>6 DEF AskOK
<1>2. CASE Launch
  <2>1. /\ ask'.st = ask.st /\ ask'.list = ask.list /\ ask'.i = ask.i + 1
        /\ ask'.going = ask.going \cup {ask.i + 1}
        /\ ask'.results = ask.results /\ ask'.err = ask.err /\ ask'.ans = ask.ans
        /\ ask' = [st |-> ask'.st, list |-> ask'.list, i |-> ask'.i, going |-> ask'.going,
                   results |-> ask'.results, err |-> ask'.err, ans |-> ask'.ans]
    <3>1. ask' = [[ask EXCEPT !.i = ask.i + 1] EXCEPT !.going = ask.going \cup {ask.i + 1}]
      BY <1>2 DEF Launch
    <3> QED BY <3>1 DEF AskOK
  <2>2. ask.i \in 0..n /\ ask.i < n /\ ask.going \subseteq 1..ask.i /\ Asking
    BY <1>2 DEF Launch, AskOK
  <2>3. ask.i + 1 \in 0..n /\ ask.going \cup {ask.i + 1} \subseteq 1..(ask.i + 1)
    BY <1>0, <2>2
  <2> HIDE DEF n
  <2>4. Len(ask'.list) = n /\ Len(ask.list) = n /\ (Asking' <=> Asking)
    BY <2>1 DEF n, Asking
  <2> QED BY <2>1, <2>3, <2>4 DEF AskOK
<1>3. CASE Wait
  <2>1. CASE ask.err
    <3>1. ask' = [NoAsk EXCEPT !.err = TRUE]
      BY <1>3, <2>1 DEF Wait
    <3>2. ask' = [st |-> "idle", list |-> <<>>, i |-> 0, going |-> {}, results |-> <<>>,
                  err |-> TRUE, ans |-> {}]
      BY <3>1 DEF NoAsk
    <3> QED BY <3>2 DEF AskOK, Asking
  <2>2. CASE ~ask.err
    <3> DEFINE u == UnionOf(ask.results)
    <3>1. ask' = [[ask EXCEPT !.st = "answered"] EXCEPT !.ans = u] /\ Asking
      BY <1>3, <2>2 DEF Wait
    <3>2. u = {} \/ \E k \in 1..n : ~ask.results[k].nil /\ u = ask.results[k].set
      BY <1>0, UnionFacts DEF AskOK
    <3> HIDE DEF u
    <3>3. u = {} \/ \E m \in 1..n : u = ask.list[m].has
      BY <3>2 DEF AskOK
    <3>4. /\ ask'.st = "answered" /\ ask'.list = ask.list /\ ask'.i = ask.i
          /\ ask'.going = ask.going /\ ask'.results = ask.results /\ ask'.err = ask.err
          /\ ask'.ans = u
          /\ ask' = [st |-> ask'.st, list |-> ask'.list, i |-> ask'.i, going |-> ask'.going,
                     results |-> ask'.results, err |-> ask'.err, ans |-> ask'.ans]
      BY <3>1 DEF AskOK
    <3> QED BY <2>2, <3>3, <3>4 DEF AskOK, Asking
  <2> QED BY <2>1, <2>2
<1>4. ASSUME NEW k \in ask.going, Store(k)
      PROVE  AskOK'
  <2> DEFINE r == RemoteResources(ask.list[k], ask.st)
             res == [ask.results EXCEPT ![ask.i] = r]
  <2>1. Asking /\ ask' = [[ask EXCEPT !.going = ask.going \ {k}] EXCEPT !.results = res]
    BY <1>4 DEF Store
  <2>2. r.nil \/ r.set = ask.list[k].has
    BY RemoteFacts
  <2>3. ask.i \in 0..n /\ k \in 1..ask.i /\ k \in 1..n
    BY <1>0 DEF AskOK
  <2>4. DOMAIN res = 1..n
    BY DEF AskOK
  <2>5. ASSUME NEW h \in 1..n
        PROVE  res[h].nil \/ \E m \in 1..n : res[h].set = ask.list[m].has
    <3>1. CASE h = ask.i
      <4>1. res[h] = r
        BY <3>1, <2>5 DEF AskOK
      <4> HIDE DEF res, r
      <4> QED BY <4>1, <2>2, <2>3
    <3>2. CASE h # ask.i
      <4>1. res[h] = ask.results[h]
        BY <3>2, <2>5 DEF AskOK
      <4> HIDE DEF res, r
      <4> QED BY <4>1, <2>5 DEF AskOK
    <3> QED BY <3>1, <3>2
  <2> HIDE DEF res, r
  <2>6. /\ ask'.st = ask.st /\ ask'.list = ask.list /\ ask'.i = ask.i
        /\ ask'.going = ask.going \ {k} /\ ask'.results = res /\ ask'.err = ask.err
        /\ ask'.ans = ask.ans
        /\ ask' = [st |-> ask'.st, list |-> ask'.list, i |-> ask'.i, going |-> ask'.going,
                   results |-> ask'.results, err |-> ask'.err, ans |-> ask'.ans]
    BY <2>1 DEF AskOK
  <2>7. Asking' <=> Asking
    BY <2>6 DEF Asking
  <2> QED BY <2>4, <2>5, <2>6, <2>7 DEF AskOK
<1>5. ASSUME NEW k \in ask.going, AskFails(k)
      PROVE  AskOK'
  <2>1. Asking /\ ask' = [[ask EXCEPT !.going = ask.going \ {k}] EXCEPT !.err = TRUE]
    BY <1>5 DEF AskFails
  <2>2. /\ ask'.st = ask.st /\ ask'.list = ask.list /\ ask'.i = ask.i
        /\ ask'.going = ask.going \ {k} /\ ask'.results = ask.results /\ ask'.ans = ask.ans
        /\ ask' = [st |-> ask'.st, list |-> ask'.list, i |-> ask'.i, going |-> ask'.going,
                   results |-> ask'.results, err |-> ask'.err, ans |-> ask'.ans]
    BY <2>1 DEF AskOK
  <2>3. Asking' /\ ask'.st # "answered"
    BY <2>1, <2>2 DEF Asking
  <2> QED BY <2>1, <2>2, <2>3 DEF AskOK
<1> QED BY <1>1, <1>2, <1>3, <1>4, <1>5

-----------------------------------------------------------------------------
(* The theorem *)

KindsOK == kinds \subseteq FrKinds

FrInv == KindsOK /\ GrantsOK /\ ShownExplained /\ AskOK

\* At first there is nothing.
LEMMA FrInitHolds ==
  ASSUME FrInit
  PROVE  FrInv
<1> USE FrFacts DEF FrInit
<1>1. KindsOK
  BY DEF KindsOK, FrKinds, Namespaced
<1>2. GrantsOK
  BY DEF GrantsOK, FrTypeOK, Placed, OwnFilled, BoundRefsAgree, DanglingExplained, Created, Absent,
     Content
<1>3. ShownExplained
  BY DEF ShownExplained, NotShown
<1>4. AskOK
  BY DEF AskOK, NoAsk, Asking
<1> QED BY <1>1, <1>2, <1>3, <1>4 DEF FrInv

\* A step on roles and bindings leaves the fan-out alone; what was shown is forgotten,
\* or is what the step shows.
LEMMA RoleStep ==
  ASSUME FrInv,
         \/ CreateFedClusterRole \/ UpdateFedClusterRole
         \/ UpdateFedRole \/ \E n \in Ns : CreateFedRole(n)
         \/ \E r \in Roles : CreateFedClusterRoleBinding(r) \/ UpdateFedClusterRoleBinding(r)
         \/ \E r \in Roles : \/ \E n \in Ns : CreateFedRoleBinding(r, n)
                             \/ UpdateFedRoleBinding(r)
         \/ \E o \in FrKinds :
              DeleteFedRole(o) \/ Attach(o) \/ Detach(o) \/ SyncCreates(o) \/ SyncUpdates(o)
         \/ \E o \in FrKinds, b \in BOOLEAN : ShowJoint(o, b)
         \/ \E p \in Places : \/ OthersDeleteObject(p)
                              \/ \E r \in Roles : OthersCreateBinding(p, r)
         \/ PurgeAllByCluster \/ RemoveClusterRow
  PROVE  GrantsOK' /\ ShownExplained' /\ UNCHANGED ask
<1> USE DEF FrInv
<1>0. FrKinds \subseteq FrObjs
  BY DEF FrKinds, FrObjs, Roles, ClusterRoles, Bindings
<1>s. Silent => ShownExplained' /\ UNCHANGED ask
  BY DEF Silent, ShownExplained, NotShown
<1>r. ASSUME NEW o, Refuse(o)
      PROVE  ShownExplained' /\ UNCHANGED ask
  BY <1>r DEF Refuse, ShownExplained, NotShown
<1>1. CASE \/ CreateFedClusterRole
           \/ \E n \in Ns : CreateFedRole(n)
           \/ \E r \in Roles : CreateFedClusterRoleBinding(r)
           \/ \E r \in Roles : \E n \in Ns : CreateFedRoleBinding(r, n)
  <2>1. Silent
    BY <1>1 DEF CreateFedClusterRole, CreateFedRole, CreateFedClusterRoleBinding,
       CreateFedRoleBinding, Insert
  <2> QED BY <2>1, <1>1, <1>s, CreateFedKeeps
<1>2. CASE \/ UpdateFedClusterRole \/ UpdateFedRole
           \/ \E r \in Roles : UpdateFedClusterRoleBinding(r) \/ UpdateFedRoleBinding(r)
  <2>1. Silent \/ \E o \in FrObjs : Refuse(o)
    BY <1>2, <1>0 DEF UpdateFedClusterRole, UpdateFedRole, UpdateFedClusterRoleBinding,
       UpdateFedRoleBinding, Update, FrKinds
  <2> QED BY <2>1, <1>2, <1>s, <1>r, ChangeKeeps
<1>3. ASSUME NEW o \in FrKinds, DeleteFedRole(o)
      PROVE  GrantsOK' /\ ShownExplained' /\ UNCHANGED ask
  BY <1>0, <1>3, <1>s, DeleteFedKeeps DEF DeleteFedRole
<1>4. ASSUME NEW o \in FrKinds, SyncCreates(o) \/ SyncUpdates(o)
      PROVE  GrantsOK' /\ ShownExplained' /\ UNCHANGED ask
  <2>1. Silent
    BY <1>4 DEF SyncCreates, SyncUpdates
  <2> QED BY <2>1, <1>4, <1>s, SyncKeeps
<1>5. CASE \/ \E o \in FrKinds : Attach(o) \/ Detach(o)
           \/ PurgeAllByCluster \/ RemoveClusterRow
  <2>1. Silent
    BY <1>5 DEF Attach, Detach, PurgeAllByCluster, RemoveClusterRow
  <2> QED BY <2>1, <1>0, <1>5, <1>s, JointsKeep
<1>6. ASSUME NEW o \in FrKinds, NEW b \in BOOLEAN, ShowJoint(o, b)
      PROVE  GrantsOK' /\ ShownExplained' /\ UNCHANGED ask
  <2>1. /\ fr' = fr /\ jt' = jt /\ rm' = rm /\ clu' = clu /\ own' = own /\ dropped' = dropped
        /\ ask' = ask /\ shown' = GetDetails(o)
    BY <1>6 DEF ShowJoint
  <2>2. GrantsOK'
    BY <2>1, JointKeeps DEF FrSame, GrantsOK, FrTypeOK
  <2>3. ShownExplained'
    BY <2>1 DEF ShownExplained, GetDetails, Place
  <2> QED BY <2>1, <2>2, <2>3
<1>7. ASSUME NEW p \in Places, OthersDeleteObject(p) \/ \E r \in Roles : OthersCreateBinding(p, r)
      PROVE  GrantsOK' /\ ShownExplained' /\ UNCHANGED ask
  <2>1. Silent
    BY <1>7 DEF OthersDeleteObject, OthersCreateBinding
  <2> QED BY <2>1, <1>7, <1>s, OthersKeep
<1> QED BY <1>1, <1>2, <1>3, <1>4, <1>5, <1>6, <1>7

\* What the fan-out does leaves roles and bindings alone.
LEMMA AskStep ==
  ASSUME FrInv,
         \/ \E what \in {"api", "users", "groups"}, s \in BOOLEAN : AskClusters(what, s)
         \/ Launch \/ Wait \/ \E k \in ask.going : Store(k) \/ AskFails(k)
  PROVE  GrantsOK' /\ ShownExplained' /\ AskOK'
<1>1. fr' = fr /\ jt' = jt /\ rm' = rm /\ clu' = clu /\ own' = own /\ dropped' = dropped
      /\ shown' = shown
  BY DEF AskClusters, Launch, Wait, Store, AskFails
<1>2. GrantsOK'
  BY <1>1, JointKeeps DEF FrInv, FrSame, GrantsOK, FrTypeOK
<1>3. ShownExplained'
  BY <1>1 DEF FrInv, ShownExplained, Place
<1>4. AskOK'
  BY AskKeeps DEF FrInv
<1> QED BY <1>2, <1>3, <1>4

\* A step of the specification keeps the invariant.
LEMMA FrStep ==
  ASSUME FrInv, [FrNext]_frVars
  PROVE  FrInv'
<1>1. CASE FrNext
  <2>1. KindsOK'
    BY <1>1 DEF FrNext, FrInv, KindsOK
  <2>2. kinds \subseteq FrKinds
    BY DEF FrInv, KindsOK
  <2>3. \/ GrantsOK' /\ ShownExplained' /\ UNCHANGED ask
        \/ GrantsOK' /\ ShownExplained' /\ AskOK'
    <3>1. \/ \E what \in {"api", "users", "groups"}, s \in BOOLEAN : AskClusters(what, s)
          \/ Launch \/ Wait \/ \E k \in ask.going : Store(k) \/ AskFails(k)
          \/ CreateFedClusterRole \/ UpdateFedClusterRole
          \/ UpdateFedRole \/ \E n \in Ns : CreateFedRole(n)
          \/ \E r \in Roles : CreateFedClusterRoleBinding(r) \/ UpdateFedClusterRoleBinding(r)
          \/ \E r \in Roles : \/ \E n \in Ns : CreateFedRoleBinding(r, n)
                              \/ UpdateFedRoleBinding(r)
          \/ \E o \in FrKinds :
               DeleteFedRole(o) \/ Attach(o) \/ Detach(o) \/ SyncCreates(o) \/ SyncUpdates(o)
          \/ \E o \in FrKinds, b \in BOOLEAN : ShowJoint(o, b)
          \/ \E p \in Places : \/ OthersDeleteObject(p)
                               \/ \E r \in Roles : OthersCreateBinding(p, r)
          \/ PurgeAllByCluster \/ RemoveClusterRow
      BY <1>1, <2>2 DEF FrNext
    <3> QED BY <3>1, RoleStep, AskStep
  <2>4. AskOK'
    BY <2>3 DEF FrInv, AskOK, Asking
  <2> QED BY <2>1, <2>3, <2>4 DEF FrInv
<1>2. CASE UNCHANGED frVars
  <2>1. FrSame /\ kinds' = kinds /\ jt' = jt /\ rm' = rm /\ clu' = clu /\ own' = own
        /\ shown' = shown /\ ask' = ask
    BY <1>2 DEF frVars, FrSame
  <2>2. GrantsOK'
    BY <2>1, JointKeeps DEF FrInv, GrantsOK, FrTypeOK
  <2>3. KindsOK' /\ ShownExplained' /\ AskOK'
    BY <2>1 DEF FrInv, KindsOK, ShownExplained, AskOK, Asking, Place, FrSame
  <2> QED BY <2>2, <2>3 DEF FrInv
<1> QED BY <1>1, <1>2

\* Roles and bindings for any bounds and any clusters to ask: a binding created in a
\* cluster names the role the federated binding names, a federated binding dangles only
\* after a delete that nothing refuses, a list fails only on a cluster that has gone, and
\* the fan-out answers with one cluster's list or with nothing
\* (federated_*role*.go, federated_utils.go).
THEOREM RolesAreSound == FrSpec => []FederatedRolesSound
<1>1. FrInit => FrInv
  BY FrInitHolds
<1>2. FrInv /\ [FrNext]_frVars => FrInv'
  BY FrStep
<1>3. FrInv => FederatedRolesSound
  <2> SUFFICES ASSUME FrInv
               PROVE  FederatedRolesSound
    OBVIOUS
  <2>1. FanOutExplained
    <3>1. DOMAIN ask.list = 1..Len(ask.list) /\ Len(ask.list) \in Nat
      BY LenProperties DEF FrInv, AskOK
    <3> QED BY <3>1 DEF FrInv, AskOK, FanOutExplained
  <2> QED BY <2>1 DEF FederatedRolesSound, FrInv, GrantsOK, FrTypeOK
<1> QED BY <1>1, <1>2, <1>3, PTL DEF FrSpec
====
