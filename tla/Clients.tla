------------------------------ MODULE Clients ------------------------------
(***************************************************************************)
(* The client registry (pkg/client): one ClusterManager per running        *)
(* cluster, with its informers and its kubeconfig file.  AddClient,        *)
(* UpdateClient and RemoveClient are called by the start of the server,    *)
(* the health check cron job, ClusterSyncTask and the deletion of a        *)
(* cluster, each with the copy of the cluster row it loaded some time      *)
(* before; the action lock is held for a whole build, the wait for the     *)
(* informers' first list included.  ClusterSyncstatusTask writes the same  *)
(* status and never looks at the registry.                                 *)
(***************************************************************************)
EXTENDS Naturals, FiniteSets

CONSTANTS
    Clusters,      \* the clusters of the database
    SyncTasks,     \* the ClusterSyncTasks that may run at the same time
    StatusTasks,   \* the ClusterSyncstatusTasks that may run at the same time
    Health,        \* the goroutine of the start and of the health check
    Deleter,       \* the request that deletes a cluster
    Nobody,        \* no process, no cluster
    MaxFaults,     \* bound on failed calls, outages of an API server and restarts
    MaxSyncs       \* bound on the synchronisations and status checks asked for

Procs == SyncTasks \cup StatusTasks \cup {Health, Deleter}
NoManager == 0
\* One per cluster, one under construction and one per build that failed late.
Managers == 1..(Cardinality(Clusters) + MaxFaults + 1)

ASSUME ClientsAssumption ==
    /\ IsFiniteSet(Clusters) /\ MaxFaults \in Nat /\ MaxSyncs \in Nat
    /\ {Health, Deleter} \cap (SyncTasks \cup StatusTasks) = {} /\ Health # Deleter
    /\ SyncTasks \cap StatusTasks = {}
    /\ Nobody \notin Procs \cup Clusters

VARIABLES
    db,       \* status of the cluster rows
    up,       \* the clusters whose API server answers
    reg,      \* the registry: the manager of each cluster, or NoManager
    file,     \* the clusters whose kubeconfig file is in /tmp
    running,  \* the managers whose informers run
    lock,     \* who holds the action lock
    at,       \* where each process is
    arg,      \* the cluster a process works on
    copy,     \* the status in the copy of that cluster's row
    man,      \* the manager a process builds or closes
    ret,      \* the step RemoveClient returns to
    booting,  \* the server is starting: neither cron jobs nor requests run yet
    todo,     \* the clusters the loop of the start or the health check has left
    seen,     \* the statuses that loop listed
    syncs,    \* the clusters a ClusterSyncTask is scheduled for
    leaked,   \* history: managers whose build failed when their informers ran
    stranded, \* history: clusters the health check passes over, and why: below
    used      \* history: faults, and synchronisations and checks asked for

regVars == <<reg, file, running, leaked>>
loopVars == <<booting, todo, seen>>
procVars == <<arg, copy, man, ret>>
vars == <<db, up, regVars, lock, at, procVars, loopVars, syncs, stranded, used>>

DbStatus == {"running", "lost", "unknown", "init", "deleting", "delete_fail", "gone"}
\* Where a process is.  "add", "build" and "wait" are the steps of AddClient,
\* "remove" and "close" those of RemoveClient, "check" and "checkFailed" those of
\* ClusterSyncstatusTask.
Steps == {"idle", "loop", "setRunning", "setLost", "remove", "close",
          "add", "build", "wait", "revert", "deleteTask", "check", "checkFailed"}

TypeOK ==
    /\ db \in [Clusters -> DbStatus] /\ up \subseteq Clusters
    /\ reg \in [Clusters -> Managers \cup {NoManager}] /\ file \subseteq Clusters
    /\ running \subseteq Managers /\ lock \in Procs \cup {Nobody}
    /\ at \in [Procs -> Steps] /\ arg \in [Procs -> Clusters \cup {Nobody}]
    /\ copy \in [Procs -> DbStatus] /\ man \in [Procs -> Managers \cup {NoManager}]
    /\ ret \in [Procs -> Steps]
    /\ booting \in BOOLEAN /\ todo \subseteq Clusters /\ seen \in [Clusters -> DbStatus]
    /\ syncs \subseteq Clusters /\ leaked \subseteq Managers /\ stranded \subseteq Clusters
    /\ used \in [faults : 0..MaxFaults, syncs : 0..MaxSyncs]

Gone == [c \in Clusters |-> "gone"]
Listed(states) == {c \in Clusters : db[c] \in states}

\* The server starts: InitClustersManager lists the running clusters to add
\* them one by one, before the cron jobs and the API run.
Init ==
    /\ db = [c \in Clusters |-> "running"] /\ up = Clusters
    /\ reg = [c \in Clusters |-> NoManager] /\ file = {} /\ running = {}
    /\ lock = Nobody
    /\ at = [p \in Procs |-> IF p = Health THEN "loop" ELSE "idle"]
    /\ arg = [p \in Procs |-> Nobody] /\ copy = [p \in Procs |-> "gone"]
    /\ man = [p \in Procs |-> NoManager] /\ ret = [p \in Procs |-> "idle"]
    /\ booting = TRUE /\ todo = Clusters /\ seen = db
    /\ syncs = {} /\ leaked = {} /\ stranded = {}
    /\ used = [faults |-> 0, syncs |-> 0]

-----------------------------------------------------------------------------
(* Helpers *)

Goto(p, s) == at' = [at EXCEPT ![p] = s]
Fault == used.faults < MaxFaults /\ used' = [used EXCEPT !.faults = @ + 1]

\* Process p turns to cluster c with a copy of its row in status s.
Take(p, c, s) == arg' = [arg EXCEPT ![p] = c] /\ copy' = [copy EXCEPT ![p] = s]

\* Process p is done with its cluster: the loops go on to their next one.
Finish(p) ==
    /\ Goto(p, IF p = Health THEN "loop" ELSE "idle")
    /\ arg' = [arg EXCEPT ![p] = Nobody] /\ copy' = [copy EXCEPT ![p] = "gone"]
    /\ man' = [man EXCEPT ![p] = NoManager] /\ ret' = [ret EXCEPT ![p] = "idle"]

\* SetStatus: the copy gets the status before the row does, and keeps it when the
\* write fails.  Nothing is written when the copy has that status already, and
\* nobody reads the row of a deleted cluster again.
Written(p, s) ==
    LET c == arg[p]
    IN  /\ db' = IF copy[p] = s \/ db[c] = "gone" THEN db ELSE [db EXCEPT ![c] = s]
        /\ UNCHANGED used
WriteFails(p, s) == copy[p] # s /\ Fault /\ UNCHANGED db

\* A cluster is stranded from the step that lets the health check pass over it for
\* no reason of its own, until the health check finds it lost again.
Strand(c) == stranded' = stranded \cup {c}
Unstrand(c) == stranded' = stranded \ {c}

\* A manager that is neither registered nor running nor under construction.
FreeManager(i) ==
    /\ i \notin running /\ \A c \in Clusters : reg[c] # i
    /\ \A p \in Procs : man[p] # i

-----------------------------------------------------------------------------
(* AddClient *)

\* What the caller does with the result of AddClient.  A sync task goes on to
\* the synchronisation when the client is there; the health check starts one
\* when its client was added, and takes its status change back otherwise.
Added(p) ==
    /\ Finish(p)
    /\ syncs' = IF p = Health /\ ~booting THEN syncs \cup {arg[p]} ELSE syncs
    /\ IF p = Health /\ booting THEN Unstrand(arg[p]) ELSE UNCHANGED stranded

\* The start only logs a cluster it cannot add, and the row stays running.
NotAdded(p) ==
    /\ IF p = Health /\ ~booting
       THEN Goto(p, "revert") /\ man' = [man EXCEPT ![p] = NoManager]
            /\ UNCHANGED <<arg, copy, ret>>
       ELSE Finish(p)
    /\ IF p = Health /\ booting THEN Strand(arg[p]) ELSE UNCHANGED stranded
    /\ UNCHANGED syncs

\* The action lock is taken; a copy that is not running, or a manager that is
\* registered already, ends the call.
AddClient(p) ==
    /\ at[p] = "add" /\ lock = Nobody
    /\ IF copy[p] = "running" /\ reg[arg[p]] = NoManager
       THEN lock' = p /\ Goto(p, "build") /\ UNCHANGED <<procVars, syncs, stranded>>
       ELSE NotAdded(p) /\ UNCHANGED lock
    /\ UNCHANGED <<db, up, regVars, loopVars, used>>

\* The kubeconfig file of the cluster, under a name only its cluster has.
BuildKubeConfigPath(c) == file' = file \cup {c}

\* buildManager up to the informers: endpoint, kubeconfig, file, discovery.
BuildFails(p) ==
    /\ at[p] = "build"
    /\ \/ Fault /\ UNCHANGED file
       \/ arg[p] \notin up /\ BuildKubeConfigPath(arg[p]) /\ UNCHANGED used
    /\ lock' = Nobody /\ NotAdded(p)
    /\ UNCHANGED <<db, up, reg, running, leaked, loopVars>>

BuildManager(p) ==
    /\ at[p] = "build" /\ arg[p] \in up
    /\ \E i \in Managers :
          /\ FreeManager(i) /\ \A j \in 1..(i - 1) : ~FreeManager(j)
          /\ running' = running \cup {i} /\ man' = [man EXCEPT ![p] = i]
    /\ BuildKubeConfigPath(arg[p]) /\ Goto(p, "wait")
    /\ UNCHANGED <<db, up, reg, leaked, lock, arg, copy, ret, loopVars, syncs, stranded, used>>

\* WaitForCacheSync has no timeout and its stop channel is known to nobody yet:
\* it ends when the API server answers.  A failure after it (the second
\* client) leaves the informers running.
RegisterManager(p) ==
    /\ at[p] = "wait" /\ arg[p] \in up
    /\ reg' = [reg EXCEPT ![arg[p]] = man[p]]
    /\ lock' = Nobody /\ Added(p)
    /\ UNCHANGED <<db, up, file, running, leaked, loopVars, used>>

LateFailure(p) ==
    /\ at[p] = "wait" /\ arg[p] \in up /\ Fault
    /\ leaked' = leaked \cup {man[p]}
    /\ lock' = Nobody /\ NotAdded(p)
    /\ UNCHANGED <<db, up, reg, file, running, loopVars>>

-----------------------------------------------------------------------------
(* RemoveClient *)

\* RemoveClient returns: the turn of a lost cluster is over, UpdateClient goes
\* on to AddClient and a deletion to its task.
Return(p) ==
    IF ret[p] = "loop" THEN Finish(p)
    ELSE Goto(p, ret[p]) /\ man' = [man EXCEPT ![p] = NoManager]
         /\ UNCHANGED <<arg, copy, ret>>

\* Mutant: the lock is released before the manager is closed.
RemoveClientEarlyUnlock(p) ==
    /\ at[p] = "remove" /\ lock = Nobody
    /\ IF reg[arg[p]] = NoManager
       THEN Return(p) /\ UNCHANGED reg
       ELSE /\ man' = [man EXCEPT ![p] = reg[arg[p]]]
            /\ reg' = [reg EXCEPT ![arg[p]] = NoManager]
            /\ Goto(p, "close") /\ UNCHANGED <<arg, copy, ret>>
    /\ UNCHANGED <<db, up, file, running, leaked, lock, loopVars, syncs, stranded, used>>

\* The entry leaves the map under the action lock; without one the call returns.
RemoveClient(p) ==
    /\ at[p] = "remove" /\ lock = Nobody
    /\ IF reg[arg[p]] = NoManager
       THEN Return(p) /\ UNCHANGED <<reg, lock>>
       ELSE /\ man' = [man EXCEPT ![p] = reg[arg[p]]]
            /\ reg' = [reg EXCEPT ![arg[p]] = NoManager]
            /\ lock' = p /\ Goto(p, "close") /\ UNCHANGED <<arg, copy, ret>>
    /\ UNCHANGED <<db, up, file, running, leaked, loopVars, syncs, stranded, used>>

\* ClusterManager.Close: the kubeconfig file goes, the informers stop.
Close(p) ==
    /\ at[p] = "close"
    /\ file' = file \ {arg[p]} /\ running' = running \ {man[p]}
    /\ lock' = Nobody /\ Return(p)
    /\ UNCHANGED <<db, up, reg, leaked, loopVars, syncs, stranded, used>>

-----------------------------------------------------------------------------
(* The start and the health check *)

\* initRunningClustersOnce: the next running cluster is added.
BootNext ==
    /\ at[Health] = "loop" /\ booting
    /\ \E c \in todo :
          /\ todo' = todo \ {c} /\ Take(Health, c, seen[c]) /\ Goto(Health, "add")
    /\ UNCHANGED <<db, up, regVars, lock, man, ret, booting, seen, syncs, stranded, used>>

\* The loop is over; after the start the cron jobs and the API run.
LoopEnds ==
    /\ at[Health] = "loop" /\ todo = {}
    /\ Goto(Health, "idle") /\ booting' = FALSE /\ seen' = Gone
    /\ UNCHANGED <<db, up, regVars, lock, procVars, todo, syncs, stranded, used>>


\* ClusterHealthCheckTask lists the running and the lost clusters.
HealthCheck ==
    /\ at[Health] = "idle" /\ Goto(Health, "loop")
    /\ todo' = Listed({"running", "lost"})
    /\ seen' = [c \in Clusters |-> IF c \in todo' THEN db[c] ELSE "gone"]
    /\ UNCHANGED <<db, up, regVars, lock, procVars, booting, syncs, stranded, used>>

\* One cluster of the list: a healthy running one is left alone.
Probe ==
    /\ at[Health] = "loop" /\ ~booting
    /\ \E c \in todo :
          /\ todo' = todo \ {c}
          /\ IF c \in up /\ seen[c] = "running"
             THEN UNCHANGED <<arg, copy, at>>
             ELSE Take(Health, c, seen[c])
                  /\ Goto(Health, IF c \in up THEN "setRunning" ELSE "setLost")
    /\ UNCHANGED <<db, up, regVars, lock, man, ret, booting, seen, syncs, stranded, used>>

\* A lost cluster answers: its status first, then UpdateClient, with a copy that
\* says running whether or not the write succeeded.
SetRunning ==
    /\ at[Health] = "setRunning"
    /\ Written(Health, "running") \/ WriteFails(Health, "running")
    /\ copy' = [copy EXCEPT ![Health] = "running"]
    /\ Goto(Health, "remove") /\ ret' = [ret EXCEPT ![Health] = "add"]
    /\ UNCHANGED <<up, regVars, lock, arg, man, loopVars, syncs, stranded>>

\* Mutant: the health check leaves the status running when its client was not added.
RevertNothing ==
    /\ at[Health] = "revert" /\ Finish(Health)
    /\ UNCHANGED <<db, up, regVars, lock, loopVars, syncs, stranded, used>>

\* AddClient failed: the status the loop found is written back; nobody looks at
\* the result of that write.
Revert ==
    /\ at[Health] = "revert"
    /\ LET c == arg[Health]
       IN  \/ Written(Health, seen[c]) /\ Unstrand(c)
           \/ WriteFails(Health, seen[c]) /\ Strand(c)
    /\ Finish(Health)
    /\ UNCHANGED <<up, regVars, lock, loopVars, syncs>>

\* A cluster does not answer: status lost, then RemoveClient whatever became of
\* the write.  A copy that says lost already is not written, even if a status
\* check has set the row to something else since.
SetLost ==
    /\ at[Health] = "setLost"
    /\ LET c == arg[Health]
       IN  \/ /\ Written(Health, "lost")
              /\ IF db'[c] = "lost" THEN Unstrand(c) ELSE Strand(c)
           \/ WriteFails(Health, "lost") /\ Strand(c)
    /\ copy' = [copy EXCEPT ![Health] = "lost"]
    /\ Goto(Health, "remove") /\ ret' = [ret EXCEPT ![Health] = "loop"]
    /\ UNCHANGED <<up, regVars, lock, arg, man, loopVars, syncs>>

-----------------------------------------------------------------------------
(* Synchronisation tasks and deletion *)

\* A user asks for a synchronisation: a ClusterSyncTask is scheduled.
PerformSync(c) ==
    /\ ~booting /\ db[c] # "gone" /\ used.syncs < MaxSyncs
    /\ used' = [used EXCEPT !.syncs = @ + 1] /\ syncs' = syncs \cup {c}
    /\ UNCHANGED <<db, up, regVars, lock, at, procVars, loopVars, stranded>>

\* ClusterSyncTask.OnInit loads the row and calls AddClient with it.
SyncOnInit(p) ==
    /\ p \in SyncTasks /\ at[p] = "idle"
    /\ \E c \in syncs :
          /\ syncs' = syncs \ {c}
          /\ IF db[c] = "gone" THEN UNCHANGED <<at, arg, copy>>
                               ELSE Take(p, c, db[c]) /\ Goto(p, "add")
    /\ UNCHANGED <<db, up, regVars, lock, man, ret, loopVars, stranded, used>>

\* StartClusterDeleteTask: status deleting, RemoveClient, then the task.
DeleteCluster(c) ==
    /\ ~booting /\ at[Deleter] = "idle" /\ db[c] # "gone"
    /\ db' = [db EXCEPT ![c] = "deleting"] /\ Take(Deleter, c, "deleting")
    /\ Goto(Deleter, "remove") /\ ret' = [ret EXCEPT ![Deleter] = "deleteTask"]
    /\ UNCHANGED <<up, regVars, lock, man, loopVars, syncs, stranded, used>>

\* ClusterDeleteTask ends: RealDelete removes the row (the registry is left
\* alone), or the deletion failed, and the write that says so may fail too.
DeleteEnds ==
    /\ at[Deleter] = "deleteTask"
    /\ LET c == arg[Deleter]
       IN  \/ db' = [db EXCEPT ![c] = "gone"] /\ UNCHANGED <<used, stranded>>
           \/ Written(Deleter, "delete_fail") /\ UNCHANGED stranded
           \/ WriteFails(Deleter, "delete_fail") /\ Strand(c)
    /\ Finish(Deleter)
    /\ UNCHANGED <<up, regVars, lock, loopVars, syncs>>

-----------------------------------------------------------------------------
(* ClusterSyncstatusTask *)

\* A user, or the task that created or removed machines, asks for the status: no
\* status of the cluster forbids it.  The task loads the row.
PerformSyncstatus(p, c) ==
    /\ p \in StatusTasks /\ at[p] = "idle"
    /\ ~booting /\ db[c] # "gone" /\ used.syncs < MaxSyncs
    /\ used' = [used EXCEPT !.syncs = @ + 1]
    /\ Take(p, c, db[c]) /\ Goto(p, "check")
    /\ UNCHANGED <<db, up, regVars, lock, man, ret, loopVars, syncs, stranded>>

\* The API server answers a client of the task's own: the status is running, and
\* no client is added.  A cluster without the machines it needs is set to init.
CheckAnswers(p) ==
    /\ at[p] = "check"
    /\ \E s \in {"running", "init"} :
          /\ s = "running" => arg[p] \in up
          /\ Written(p, s) /\ Strand(arg[p]) /\ Finish(p)
    /\ UNCHANGED <<up, regVars, lock, loopVars, syncs>>

\* No answer, no count of the machines, or the write failed.
CheckErrs(p) ==
    /\ at[p] = "check" /\ Goto(p, "checkFailed")
    /\ arg[p] \in up => Fault
    /\ arg[p] \notin up => UNCHANGED used
    /\ UNCHANGED <<db, up, regVars, lock, procVars, loopVars, syncs, stranded>>

\* SetFailed loads the row anew: the status is unknown, which the health check
\* does not list.
CheckFailed(p) ==
    /\ at[p] = "checkFailed"
    /\ \/ /\ db' = IF db[arg[p]] = "gone" THEN db ELSE [db EXCEPT ![arg[p]] = "unknown"]
          /\ Strand(arg[p]) /\ UNCHANGED used
       \/ Fault /\ UNCHANGED <<db, stranded>>
    /\ Finish(p)
    /\ UNCHANGED <<up, regVars, lock, loopVars, syncs>>

-----------------------------------------------------------------------------
(* The environment *)

ApiDown(c) ==
    /\ c \in up /\ Fault /\ up' = up \ {c}
    /\ UNCHANGED <<db, regVars, lock, at, procVars, loopVars, syncs, stranded>>

ApiUp(c) ==
    /\ c \notin up /\ up' = up \cup {c}
    /\ UNCHANGED <<db, regVars, lock, at, procVars, loopVars, syncs, stranded, used>>

\* The server restarts: what is in memory is lost, the files of /tmp stay.
Restart ==
    /\ Fault
    /\ reg' = [c \in Clusters |-> NoManager] /\ running' = {} /\ leaked' = {}
    /\ lock' = Nobody /\ syncs' = {}
    /\ at' = [p \in Procs |-> IF p = Health THEN "loop" ELSE "idle"]
    /\ arg' = [p \in Procs |-> Nobody] /\ copy' = [p \in Procs |-> "gone"]
    /\ man' = [p \in Procs |-> NoManager] /\ ret' = [p \in Procs |-> "idle"]
    /\ booting' = TRUE /\ todo' = Listed({"running"})
    /\ seen' = [c \in Clusters |-> IF c \in todo' THEN db[c] ELSE "gone"]
    /\ UNCHANGED <<db, up, file, stranded>>

-----------------------------------------------------------------------------
ClientCall(p) ==
    \/ AddClient(p) \/ BuildFails(p) \/ BuildManager(p) \/ RegisterManager(p)
    \/ LateFailure(p) \/ RemoveClient(p) \/ Close(p)

HealthLoop ==
    BootNext \/ LoopEnds \/ HealthCheck \/ Probe \/ SetRunning \/ Revert \/ SetLost

Next ==
    \/ \E p \in Procs :
          ClientCall(p) \/ SyncOnInit(p) \/ CheckAnswers(p) \/ CheckErrs(p) \/ CheckFailed(p)
    \/ \E p \in Procs, c \in Clusters : PerformSyncstatus(p, c)
    \/ HealthLoop \/ DeleteEnds
    \/ \E c \in Clusters : PerformSync(c) \/ DeleteCluster(c) \/ ApiDown(c) \/ ApiUp(c)
    \/ Restart

\* The scheduler runs every goroutine and the cron job comes round for ever;
\* no API server has to come back and no call has to fail.
Fairness ==
    /\ \A p \in Procs :
          /\ WF_vars(AddClient(p)) /\ WF_vars(BuildFails(p) \/ BuildManager(p))
          /\ WF_vars(RegisterManager(p)) /\ WF_vars(RemoveClient(p)) /\ WF_vars(Close(p))
          /\ WF_vars(SyncOnInit(p)) /\ WF_vars(CheckAnswers(p) \/ CheckErrs(p))
          /\ WF_vars(CheckFailed(p))
    /\ WF_vars(HealthLoop) /\ WF_vars(DeleteEnds)

Spec == Init /\ [][Next]_vars /\ Fairness

-----------------------------------------------------------------------------
(* Properties *)

\* The registry and the informers agree: a registered manager runs and its
\* kubeconfig file is there, and informers run only for a registered manager,
\* one a call is building or closing, or one whose build failed after they
\* were started (buildManager loses their stop channel).
RegistryMatches ==
    /\ \A c \in Clusters :
          reg[c] # NoManager => reg[c] \in running /\ c \in file
    /\ \A i \in running :
          \/ \E c \in Clusters : reg[c] = i
          \/ \E p \in Procs : man[p] = i
          \/ i \in leaked

\* A cluster whose row says running has a client, or one is on its way: the start
\* has still to add it, or the health check or the deletion is at work on it.
\* Otherwise it is stranded: the start gave up on it, a status check wrote its
\* status, or a write of the status failed or was skipped because the copy had
\* that status already.
RunningHasClient ==
    \A c \in Clusters :
        db[c] = "running" /\ reg[c] = NoManager =>
            \/ booting /\ c \in todo
            \/ arg[Health] = c \/ arg[Deleter] = c
            \/ c \in stranded

Recovered(c) ==
    \/ db[c] = "running" /\ reg[c] # NoManager
    \/ db[c] \in {"deleting", "delete_fail", "gone"}


=============================================================================
