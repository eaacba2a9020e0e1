----------------------------- MODULE MachineWork -----------------------------
(***************************************************************************)
(* One machine on a virtual server, and the requests made of the machine   *)
(* itself: recreate, prepare, terminate and delete.  They overlap with the *)
(* machine's tasks (pkg/models/machines.go, pkg/tasks/machine_*_task.go,   *)
(* pkg/drivers/machines/base.go and yunion_vm.go, pkg/utils/onecloud).     *)
(* A request and a task stage both read the row first and then wait for    *)
(* the lock of the machine: what they read may be old when they run.       *)
(***************************************************************************)
EXTENDS Naturals, FiniteSets

CONSTANTS MaxServers, MaxTasks, MaxWorkFaults

VARIABLES mrow,      \* the row: [status, res, addr]; res = 0: no resource id
          mtasks,    \* tasks: [id, kind, pc, copy, parent, cfg, role, batch]
          mreq,      \* a request: [kind, copy]
          servers,   \* the cloud's servers
          joined,    \* servers on which the init script was run
          nextServer, nextTask, workFaults,
          odd        \* ghost: what happened that explains an oddity

NoReq == [kind |-> "none", copy |-> [status |-> "init", res |-> 0, addr |-> FALSE]]
NoLoad == NoReq.copy

MwInit ==
  /\ mrow = [status |-> "init", res |-> 0, addr |-> FALSE] /\ mtasks = {} /\ mreq = NoReq
  /\ servers = {} /\ joined = {} /\ nextServer = 1 /\ nextTask = 1 /\ workFaults = 0 /\ odd = {}

Locked == \E t \in mtasks : t.pc \notin {"queued", "loaded", "waiting"}

\* SetMachineStatus compares with the copy it is called on and writes the row.
SetMachineStatus(copy, s) == IF copy.status = s THEN mrow ELSE [mrow EXCEPT !.status = s]

NewMachineTask(kind, parent, cfg, role, batch) ==
  [id |-> nextTask, kind |-> kind, pc |-> "queued", copy |-> NoLoad, parent |-> parent,
   cfg |-> cfg, role |-> role, batch |-> batch]

MwFault == workFaults < MaxWorkFaults /\ workFaults' = workFaults + 1
MwStep == UNCHANGED workFaults
Alone == mtasks = {}
-----------------------------------------------------------------------------
(* Requests: the dispatcher loads the row, then the handler runs under the *)
(* lock of the machine.                                                    *)

LoadRequest(kind) ==
  /\ mreq = NoReq /\ mrow.status # "gone" /\ nextTask <= MaxTasks
  /\ mreq' = [kind |-> kind, copy |-> mrow]
  /\ MwStep /\ UNCHANGED <<mrow, mtasks, servers, joined, nextServer, nextTask, odd>>

Start(task, status) ==
  /\ mtasks' = mtasks \cup {task} /\ nextTask' = nextTask + 1 /\ mreq' = NoReq
  /\ mrow' = IF mrow.status = "gone" THEN mrow ELSE SetMachineStatus(mreq.copy, status)
  /\ odd' = IF Alone THEN odd ELSE odd \cup {"lapped"}
  /\ MwStep /\ UNCHANGED <<servers, joined, nextServer>>

RefuseMachine ==
  /\ mreq' = NoReq /\ MwStep
  /\ UNCHANGED <<mrow, mtasks, servers, joined, nextServer, nextTask, odd>>

\* PostCreate, after the row was inserted or by the deploy task.
StartMachineCreateTask ==
  /\ mreq.kind = "create" /\ ~Locked
  /\ Start(NewMachineTask("create", FALSE, TRUE, TRUE, FALSE), "creating")

PerformRecreate ==
  /\ mreq.kind = "recreate" /\ ~Locked
  /\ IF mreq.copy.status # "create_fail" THEN RefuseMachine
     ELSE Start(NewMachineTask("create", FALSE, TRUE, TRUE, FALSE), "creating")

\* The task gets what the request sent: a role and a configuration, or none.
PerformPrepare ==
  /\ mreq.kind = "prepare" /\ ~Locked
  /\ IF mreq.copy.status \in {"running", "deleting"} THEN RefuseMachine
     ELSE \E cfg, role \in BOOLEAN : Start(NewMachineTask("prepare", FALSE, cfg, role, FALSE), "prepare")

PerformTerminate ==
  /\ mreq.kind = "terminate" /\ ~Locked
  /\ Start(NewMachineTask("terminate", FALSE, FALSE, FALSE, FALSE), "terminating")

\* The delete and batch tasks, reduced to their terminate task.
CustomizeDelete ==
  /\ mreq.kind = "delete" /\ ~Locked
  /\ Start(NewMachineTask("terminate", FALSE, FALSE, FALSE, TRUE), "terminating")
-----------------------------------------------------------------------------
(* Tasks. *)

Put(t, u) == (mtasks \ {t}) \cup {u}

LoadTask(t) ==
  /\ t.pc = "queued"
  /\ mtasks' = IF mrow.status = "gone" THEN mtasks \ {t} ELSE Put(t, [t EXCEPT !.pc = "loaded", !.copy = mrow])
  /\ MwStep /\ UNCHANGED <<mrow, mreq, servers, joined, nextServer, nextTask, odd>>

LockTask(t) ==
  /\ t.pc = "loaded" /\ ~Locked
  /\ mtasks' = Put(t, [t EXCEPT !.pc = "begin"])
  /\ MwStep /\ UNCHANGED <<mrow, mreq, servers, joined, nextServer, nextTask, odd>>

\* MachineCreateTask.OnInit: RequestPrepareMachine with the stored create
\* parameters; the create task then waits for the prepare task.
RequestPrepareMachine(t) ==
  /\ t.kind = "create" /\ t.pc = "begin" /\ nextTask <= MaxTasks + 2
  /\ mrow' = SetMachineStatus(t.copy, "prepare")
  /\ mtasks' = Put(t, [t EXCEPT !.pc = "waiting"]) \cup {NewMachineTask("prepare", TRUE, TRUE, TRUE, FALSE)}
  /\ nextTask' = nextTask + 1
  /\ MwStep /\ UNCHANGED <<mreq, servers, joined, nextServer, odd>>

\* The end of a task; a failed child fails the create task that waits for it.
Parents(t) == {u \in mtasks : t.parent /\ u.kind = "create" /\ u.pc = "waiting"}
EndMachineTask(t, failed) ==
  mtasks' = (mtasks \ ({t} \cup Parents(t)))
            \cup (IF failed THEN {[u EXCEPT !.pc = "loaded", !.copy = mrow', !.kind = "createFailed"] : u \in Parents(t)} ELSE {})

OnPrepareError(t) ==
  /\ mrow' = SetMachineStatus(t.copy, "prepare_fail")
  /\ EndMachineTask(t, TRUE)

\* OnMachinePreparedFailed.
OnMachinePreparedFailed(t) ==
  /\ t.kind = "createFailed" /\ t.pc = "begin"
  /\ mrow' = SetMachineStatus(t.copy, "create_fail") /\ mtasks' = mtasks \ {t}
  /\ MwStep /\ UNCHANGED <<mreq, servers, joined, nextServer, nextTask, odd>>

\* FillMachinePrepareInput writes into the configuration: without one it
\* panics, and a task that panics changes no status.
FillInput(t) ==
  /\ t.kind = "prepare" /\ t.pc = "begin"
  /\ IF ~t.cfg
     THEN mtasks' = mtasks \ {t} /\ odd' = odd \cup {"panic"} /\ UNCHANGED mrow /\ MwStep
     ELSE \/ mtasks' = Put(t, [t EXCEPT !.pc = "create"]) /\ UNCHANGED <<mrow, odd>> /\ MwStep
          \/ MwFault /\ OnPrepareError(t) /\ UNCHANGED odd
  /\ UNCHANGED <<mreq, servers, joined, nextServer, nextTask>>

\* The server is created and its id kept at once, whatever id there was.
PrepareCreates(t) ==
  /\ t.kind = "prepare" /\ t.pc = "create" /\ nextServer <= MaxServers
  /\ servers' = servers \cup {nextServer} /\ nextServer' = nextServer + 1
  /\ mrow' = IF mrow.status = "gone" THEN mrow ELSE [mrow EXCEPT !.res = nextServer]
  /\ mtasks' = Put(t, [t EXCEPT !.pc = "script", !.copy.res = nextServer])
  /\ odd' = odd \cup (IF mrow.res \in servers THEN {"again"} ELSE {}) \cup (IF mrow.status = "gone" THEN {"gone"} ELSE {})
  /\ MwStep /\ UNCHANGED <<mreq, joined, nextTask>>

\* Waiting for the server, its address, the login and the script: the script
\* of a request without a role is empty.
PrepareRuns(t) ==
  /\ t.kind = "prepare" /\ t.pc = "script" /\ t.copy.res \in servers
  /\ joined' = IF t.role THEN joined \cup {t.copy.res} ELSE joined
  /\ odd' = IF t.role THEN odd ELSE odd \cup {"bare"}
  /\ mrow' = IF mrow.status = "gone" THEN mrow ELSE [SetMachineStatus(t.copy, "running") EXCEPT !.addr = TRUE]
  /\ EndMachineTask(t, FALSE)
  /\ MwStep /\ UNCHANGED <<mreq, servers, nextServer, nextTask>>

PrepareFails(t) ==
  /\ t.kind = "prepare" /\ t.pc \in {"create", "script"} /\ MwFault
  /\ (mrow.status = "gone" /\ mrow' = mrow /\ EndMachineTask(t, TRUE)) \/ (mrow.status # "gone" /\ OnPrepareError(t))
  /\ UNCHANGED <<mreq, servers, joined, nextServer, nextTask, odd>>

\* The copy's resource id is deleted; a server that is not there is no error,
\* and neither is a copy without an id.  kubeadm reset may fail unnoticed.
TerminateResource(t) ==
  /\ t.kind = "terminate" /\ t.pc = "begin"
  /\ servers' = servers \ {t.copy.res}
  /\ mrow' = IF t.batch THEN [mrow EXCEPT !.status = "gone"] ELSE mrow
  /\ mtasks' = mtasks \ {t}
  /\ MwStep /\ UNCHANGED <<mreq, joined, nextServer, nextTask, odd>>

\* The deletion, or the wait for it, fails.
TerminateFails(t) ==
  /\ t.kind = "terminate" /\ t.pc = "begin" /\ t.copy.res # 0 /\ MwFault
  /\ servers' \in {servers, servers \ {t.copy.res}}
  /\ mrow' = SetMachineStatus(t.copy, "terminate_fail")
  /\ mtasks' = mtasks \ {t}
  /\ UNCHANGED <<mreq, joined, nextServer, nextTask, odd>>

MwNext ==
  \/ \E k \in {"create", "recreate", "prepare", "terminate", "delete"} :
       (k = "create" => mrow.status = "init") /\ LoadRequest(k)
  \/ StartMachineCreateTask \/ PerformRecreate \/ PerformPrepare \/ PerformTerminate \/ CustomizeDelete
  \/ \E t \in mtasks :
       \/ LoadTask(t) \/ LockTask(t) \/ RequestPrepareMachine(t) \/ OnMachinePreparedFailed(t)
       \/ FillInput(t) \/ PrepareCreates(t) \/ PrepareRuns(t) \/ PrepareFails(t)
       \/ TerminateResource(t) \/ TerminateFails(t)
mwAll == <<mrow, mtasks, mreq, servers, joined, nextServer, nextTask, workFaults, odd>>
-----------------------------------------------------------------------------
\* A machine that rests as running has a server that joined the cluster,
\* unless its tasks overlapped or it was prepared by a request that named no
\* role (the status is written by whoever ends last).
RunningIsJoined ==
  mrow.status = "running" /\ Alone => mrow.res \in servers \cap joined \/ odd \cap {"lapped", "bare"} # {}

\* No server is left that the row does not name, nor after the row is gone,
\* unless a second prepare made a second server, or tasks overlapped: then a
\* terminate task may run on a copy read before the server was made.
ServersNamed ==
  (servers \subseteq {mrow.res} /\ (mrow.status = "gone" => servers = {})) \/ odd \cap {"lapped", "again"} # {}

\* A machine rests as being created or prepared only when its task panicked
\* or overlapped another one.
WorkEnds ==
  mrow.status \in {"creating", "prepare"} /\ Alone /\ mreq = NoReq => odd \cap {"lapped", "panic"} # {}

MachineWorkSound == RunningIsJoined /\ ServersNamed /\ WorkEnds
=============================================================================
