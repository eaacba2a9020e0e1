---------------------------- MODULE ClientsProofs ----------------------------
(***************************************************************************)
(* What the client registry guarantees for every set of clusters and       *)
(* synchronisation tasks: registered managers and running informers agree, *)
(* because every build and every removal holds the action lock from its    *)
(* look at the registry to its end; and a cluster that is running has a    *)
(* client, or somebody at work on it, unless one of the named steps left   *)
(* it so, because the health check writes the status it leaves behind      *)
(* before it removes a client or gives up building one.                    *)
(***************************************************************************)
EXTENDS Clients, FiniteSetTheorems, TLAPS

-----------------------------------------------------------------------------
(* The inductive invariant *)

\* A process that builds or closes a manager has the action lock, and nobody
\* else has a manager at hand.
LockHeld ==
    \A p \in Procs :
        /\ at[p] \in {"build", "wait", "close"} => lock = p
        /\ man[p] # NoManager <=> at[p] \in {"wait", "close"}

\* The cluster of a call is known, and RemoveClient knows where to return to.
CallsAreOfClusters ==
    \A p \in Procs :
        /\ at[p] \notin {"idle", "loop"} => arg[p] \in Clusters
        /\ at[p] \in {"remove", "close"} => ret[p] \in {"loop", "add", "deleteTask"}

\* Between the look at the registry and the end of the call the cluster has no
\* entry; the manager at hand runs and is nobody's entry.
EntryFree ==
    \A p \in Procs :
        /\ at[p] \in {"build", "wait", "close"} => reg[arg[p]] = NoManager
        /\ at[p] = "wait" => arg[p] \in file
        /\ at[p] \in {"wait", "close"} =>
              man[p] \in running /\ \A c \in Clusters : reg[c] # man[p]

\* No two clusters share a manager.
OwnManager ==
    \A c, d \in Clusters : reg[c] # NoManager /\ reg[c] = reg[d] => c = d

\* The registry and its managers, at every stage of a call.
Registry ==
    /\ LockHeld /\ CallsAreOfClusters /\ EntryFree /\ OwnManager /\ RegistryMatches

\* What the deletion does: RemoveClient, then its task, with a copy that says
\* deleting.
DeletionSteps ==
    /\ at[Deleter] \in {"idle", "remove", "close", "deleteTask"}
    /\ at[Deleter] = "idle" => arg[Deleter] = Nobody
    /\ at[Deleter] \in {"remove", "close"} => ret[Deleter] = "deleteTask"
    /\ at[Deleter] # "idle" => copy[Deleter] = "deleting"

\* The tasks call no RemoveClient, and the health check is no status check.
CallersKnown ==
    /\ \A p \in SyncTasks \cup StatusTasks :
          at[p] \in {"idle", "add", "build", "wait", "check", "checkFailed"}
    /\ at[Health] \notin {"check", "checkFailed", "deleteTask"}

\* The loops list running and lost clusters, and are at one of them or at none.
ListedOnly ==
    /\ \A c \in todo : seen[c] \in {"running", "lost"}
    /\ at[Health] \in {"idle", "loop"} => arg[Health] = Nobody

\* The health check that asks for a client of a lost cluster has a copy that says
\* running and remembers what it found.
RetriesLost ==
    /\ at[Health] \in {"setRunning", "setLost"} => ~booting
    /\ at[Health] = "setRunning" => seen[arg[Health]] = "lost"
    /\ at[Health] \in {"remove", "close"} =>
          /\ ~booting /\ ret[Health] \in {"loop", "add"}
          /\ ret[Health] = "add" => copy[Health] = "running" /\ seen[arg[Health]] = "lost"
    /\ at[Health] \in {"add", "build", "wait"} /\ ~booting =>
          copy[Health] = "running" /\ seen[arg[Health]] = "lost"
    /\ at[Health] = "revert" => copy[Health] = "running" /\ seen[arg[Health]] = "lost"

\* The health check removes the client of a cluster whose row it has set to lost,
\* unless that write failed or a status check came after it.
LostBeforeRemoval ==
    at[Health] \in {"remove", "close"} /\ ret[Health] = "loop"
        /\ db[arg[Health]] = "running" => arg[Health] \in stranded

StrandInv ==
    /\ DeletionSteps /\ CallersKnown /\ ListedOnly /\ RetriesLost /\ LostBeforeRemoval
    /\ RunningHasClient

-----------------------------------------------------------------------------
(* Types *)

\* There is a first manager, and it is not the mark for none.
LEMMA ManagersPositive == NoManager \notin Managers
<1>1. Cardinality(Clusters) \in Nat
  BY ClientsAssumption, FS_CardinalityType
<1> QED
  BY <1>1, ClientsAssumption DEF Managers, NoManager

\* The variables that hold the processes' calls.
CallTypes ==
    /\ at \in [Procs -> Steps] /\ arg \in [Procs -> Clusters \cup {Nobody}]
    /\ copy \in [Procs -> DbStatus]
    /\ man \in [Procs -> Managers \cup {NoManager}] /\ ret \in [Procs -> Steps]

\* The counters of faults and requests.
UsedTypes == used \in [faults : 0..MaxFaults, syncs : 0..MaxSyncs]

\* A fault is counted within its bound.
LEMMA FaultTyped == ASSUME UsedTypes, Fault PROVE UsedTypes'
  BY ClientsAssumption DEF UsedTypes, Fault

\* So is a request for a synchronisation or a status check.
LEMMA AskedTyped ==
  ASSUME UsedTypes, NEW c \in Clusters,
         PerformSync(c) \/ \E p \in Procs : PerformSyncstatus(p, c)
  PROVE  UsedTypes'
  BY ClientsAssumption DEF UsedTypes, PerformSync, PerformSyncstatus

\* Every step counts faults and requests within their bounds.
LEMMA UsedStep == ASSUME UsedTypes, [Next]_vars PROVE UsedTypes'
<1>1. ASSUME UNCHANGED used PROVE UsedTypes'
  BY <1>1 DEF UsedTypes
<1>2. ASSUME NEW p \in Procs, ClientCall(p) \/ SyncOnInit(p)
      PROVE  Fault \/ UNCHANGED used
  BY <1>2 DEF ClientCall, AddClient, BuildFails, BuildManager, RegisterManager,
    LateFailure, RemoveClient, Close, SyncOnInit
<1>3. ASSUME HealthLoop \/ DeleteEnds PROVE Fault \/ UNCHANGED used
  BY <1>3 DEF HealthLoop, BootNext, LoopEnds, HealthCheck, Probe, SetRunning,
    Revert, SetLost, DeleteEnds, Written, WriteFails
<1>4. ASSUME NEW c \in Clusters, DeleteCluster(c) \/ ApiDown(c) \/ ApiUp(c)
      PROVE  Fault \/ UNCHANGED used
  BY <1>4 DEF DeleteCluster, ApiDown, ApiUp
<1>5. ASSUME NEW p \in Procs, CheckAnswers(p) \/ CheckErrs(p) \/ CheckFailed(p)
      PROVE  Fault \/ UNCHANGED used
  BY <1>5 DEF CheckAnswers, CheckErrs, CheckFailed, Written
<1>6. CASE Restart
  BY <1>6, FaultTyped DEF Restart
<1>7. CASE UNCHANGED vars
  BY <1>7, <1>1 DEF vars
<1> QED
  BY <1>1, <1>2, <1>3, <1>4, <1>5, <1>6, <1>7, FaultTyped, AskedTyped DEF Next

\* The registry, the database and the lists.
StateTypes ==
    /\ db \in [Clusters -> DbStatus] /\ up \subseteq Clusters
    /\ reg \in [Clusters -> Managers \cup {NoManager}] /\ file \subseteq Clusters
    /\ running \subseteq Managers /\ lock \in Procs \cup {Nobody}
    /\ booting \in BOOLEAN /\ todo \subseteq Clusters /\ seen \in [Clusters -> DbStatus]
    /\ syncs \subseteq Clusters /\ leaked \subseteq Managers /\ stranded \subseteq Clusters

\* The steps of AddClient and RemoveClient keep the types.
LEMMA CallTyped ==
  ASSUME StateTypes, CallTypes, LockHeld, CallsAreOfClusters,
         NEW p \in Procs, ClientCall(p)
  PROVE  StateTypes' /\ CallTypes'
<1> USE DEF StateTypes, CallTypes, LockHeld, CallsAreOfClusters, Steps, DbStatus,
      regVars, loopVars, procVars, Goto, Finish, Strand, Unstrand
<1>1. CASE AddClient(p)
  BY <1>1 DEF AddClient, NotAdded
<1>2. CASE BuildFails(p)
  BY <1>2 DEF BuildFails, BuildKubeConfigPath, NotAdded
<1>3. CASE BuildManager(p)
  BY <1>3 DEF BuildManager, BuildKubeConfigPath
<1>4. CASE RegisterManager(p)
  BY <1>4 DEF RegisterManager, Added
<1>5. CASE LateFailure(p)
  BY <1>5 DEF LateFailure, NotAdded
<1>6. CASE RemoveClient(p)
  BY <1>6 DEF RemoveClient, Return
<1>7. CASE Close(p)
  BY <1>7 DEF Close, Return
<1> QED
  BY <1>1, <1>2, <1>3, <1>4, <1>5, <1>6, <1>7 DEF ClientCall

\* The loop of the start and of the health check keeps the types.
LEMMA LoopTyped ==
  ASSUME StateTypes, CallTypes, CallsAreOfClusters, HealthLoop
  PROVE  StateTypes' /\ CallTypes'
<1> USE DEF StateTypes, CallTypes, CallsAreOfClusters, Steps, DbStatus,
      regVars, loopVars, procVars, Goto, Finish, Take, Gone, Listed, Procs
<1>1. CASE BootNext
  BY <1>1 DEF BootNext
<1>2. CASE LoopEnds
  BY <1>2 DEF LoopEnds
<1>3. CASE HealthCheck
  BY <1>3 DEF HealthCheck
<1>4. CASE Probe
  BY <1>4 DEF Probe
<1>5. CASE SetRunning
  BY <1>5 DEF SetRunning, Written, WriteFails
<1>6. CASE Revert
  BY <1>6 DEF Revert, Written, WriteFails, Strand, Unstrand
<1>7. CASE SetLost
  BY <1>7 DEF SetLost, Written, WriteFails, Strand, Unstrand
<1> QED
  BY <1>1, <1>2, <1>3, <1>4, <1>5, <1>6, <1>7 DEF HealthLoop

\* So do the tasks, the deletion, the API servers and a restart.
LEMMA OthersTyped ==
  ASSUME StateTypes, CallTypes, CallsAreOfClusters,
         \/ \E p \in Procs :
               SyncOnInit(p) \/ CheckAnswers(p) \/ CheckErrs(p) \/ CheckFailed(p)
         \/ \E p \in Procs, c \in Clusters : PerformSyncstatus(p, c)
         \/ \E c \in Clusters :
               PerformSync(c) \/ DeleteCluster(c) \/ ApiDown(c) \/ ApiUp(c)
         \/ DeleteEnds \/ Restart \/ UNCHANGED vars
  PROVE  StateTypes' /\ CallTypes'
<1> USE DEF StateTypes, CallTypes, CallsAreOfClusters, Steps, DbStatus,
      regVars, loopVars, procVars, Goto, Finish, Take, Listed, Procs
<1>1. ASSUME NEW p \in Procs, SyncOnInit(p) PROVE StateTypes' /\ CallTypes'
  BY <1>1 DEF SyncOnInit
<1>2. ASSUME NEW c \in Clusters, PerformSync(c) \/ ApiDown(c) \/ ApiUp(c)
      PROVE  StateTypes' /\ CallTypes'
  BY <1>2 DEF PerformSync, ApiDown, ApiUp
<1>3. ASSUME NEW c \in Clusters, DeleteCluster(c)
      PROVE  StateTypes' /\ CallTypes'
  BY <1>3 DEF DeleteCluster
<1>4. CASE DeleteEnds
  BY <1>4 DEF DeleteEnds, Written, WriteFails, Strand
<1>5. CASE Restart
  BY <1>5 DEF Restart
<1>6. CASE UNCHANGED vars
  BY <1>6 DEF vars
<1>7. ASSUME NEW p \in Procs, NEW c \in Clusters, PerformSyncstatus(p, c)
      PROVE  StateTypes' /\ CallTypes'
  BY <1>7 DEF PerformSyncstatus
<1>8. ASSUME NEW p \in Procs, CheckAnswers(p) \/ CheckErrs(p) \/ CheckFailed(p)
      PROVE  StateTypes' /\ CallTypes'
  BY <1>8 DEF CheckAnswers, CheckErrs, CheckFailed, Written, Strand
<1> QED
  BY <1>1, <1>2, <1>3, <1>4, <1>5, <1>6, <1>7, <1>8

-----------------------------------------------------------------------------
(* The registry *)

\* A call of AddClient or RemoveClient.  The processes outside the lock are at
\* none of the stages it protects.
LEMMA CallRegistry ==
  ASSUME StateTypes, CallTypes, Registry, NEW p \in Procs, ClientCall(p)
  PROVE  Registry'
<1> USE ClientsAssumption, ManagersPositive
    DEF StateTypes, CallTypes, Registry, LockHeld, CallsAreOfClusters, EntryFree,
      OwnManager, RegistryMatches, regVars, loopVars, procVars, Goto, Finish
<1>1. CASE AddClient(p)
  BY <1>1 DEF AddClient, NotAdded
<1>2. CASE BuildFails(p)
  BY <1>2 DEF BuildFails, BuildKubeConfigPath, NotAdded
<1>3. CASE BuildManager(p)
  BY <1>3 DEF BuildManager, BuildKubeConfigPath, FreeManager
<1>4. CASE RegisterManager(p)
  BY <1>4 DEF RegisterManager, Added
<1>5. CASE LateFailure(p)
  BY <1>5 DEF LateFailure, NotAdded
<1>6. CASE RemoveClient(p)
  BY <1>6 DEF RemoveClient, Return
<1>7. CASE Close(p)
  BY <1>7 DEF Close, Return
<1> QED
  BY <1>1, <1>2, <1>3, <1>4, <1>5, <1>6, <1>7 DEF ClientCall

\* The other steps of a process leave the registry alone, and are outside the
\* lock before and after.
LEMMA OthersRegistry ==
  ASSUME StateTypes, CallTypes, Registry,
         \/ \E p \in Procs :
               SyncOnInit(p) \/ CheckAnswers(p) \/ CheckErrs(p) \/ CheckFailed(p)
         \/ \E p \in Procs, c \in Clusters : PerformSyncstatus(p, c)
         \/ \E c \in Clusters :
               PerformSync(c) \/ DeleteCluster(c) \/ ApiDown(c) \/ ApiUp(c)
         \/ HealthLoop \/ DeleteEnds \/ Restart \/ UNCHANGED vars
  PROVE  Registry'
<1> USE ClientsAssumption, ManagersPositive
    DEF StateTypes, CallTypes, Registry, LockHeld, CallsAreOfClusters, EntryFree,
      OwnManager, RegistryMatches, regVars, loopVars, procVars, Goto, Finish,
      Take, Procs
<1>1. ASSUME NEW p \in Procs, SyncOnInit(p) PROVE Registry'
  BY <1>1 DEF SyncOnInit
<1>2. ASSUME NEW c \in Clusters, PerformSync(c) \/ ApiDown(c) \/ ApiUp(c)
      PROVE  Registry'
  BY <1>2 DEF PerformSync, ApiDown, ApiUp
<1>3. ASSUME NEW c \in Clusters, DeleteCluster(c) PROVE Registry'
  BY <1>3 DEF DeleteCluster
<1>4. CASE DeleteEnds
  BY <1>4 DEF DeleteEnds
<1>5. CASE Restart
  BY <1>5 DEF Restart
<1>6. CASE UNCHANGED vars
  BY <1>6 DEF vars
<1>7. CASE BootNext \/ Probe
  BY <1>7 DEF BootNext, Probe
<1>8. CASE LoopEnds \/ HealthCheck
  BY <1>8 DEF LoopEnds, HealthCheck
<1>9. CASE SetRunning \/ SetLost \/ Revert
  BY <1>9 DEF SetRunning, SetLost, Revert
<1>10. ASSUME NEW p \in Procs, NEW c \in Clusters, PerformSyncstatus(p, c)
       PROVE  Registry'
  BY <1>10 DEF PerformSyncstatus
<1>11. ASSUME NEW p \in Procs, CheckAnswers(p) \/ CheckErrs(p) \/ CheckFailed(p)
       PROVE  Registry'
  BY <1>11 DEF CheckAnswers, CheckErrs, CheckFailed
<1> QED
  BY <1>1, <1>2, <1>3, <1>4, <1>5, <1>6, <1>7, <1>8, <1>9, <1>10,
    <1>11 DEF HealthLoop

-----------------------------------------------------------------------------
(* Running clusters *)

\* A call of AddClient or RemoveClient: only the health check and the deletion
\* remove a client, and both stay at work on the cluster until it is lost or gone.
LEMMA CallStrands ==
  ASSUME StateTypes, CallTypes, Registry, StrandInv, NEW p \in Procs, ClientCall(p)
  PROVE  StrandInv'
<1> USE ClientsAssumption, ManagersPositive
    DEF StateTypes, CallTypes, Registry, LockHeld, CallsAreOfClusters, EntryFree,
      StrandInv, DeletionSteps, CallersKnown, ListedOnly, RetriesLost,
      LostBeforeRemoval, RunningHasClient, Strand, Unstrand, regVars, loopVars, procVars, Goto, Finish, Procs
<1>1. CASE AddClient(p)
  BY <1>1 DEF AddClient, NotAdded
<1>2. CASE BuildFails(p)
  BY <1>2 DEF BuildFails, NotAdded
<1>3. CASE BuildManager(p)
  BY <1>3 DEF BuildManager
<1>4. CASE RegisterManager(p)
  BY <1>4 DEF RegisterManager, Added
<1>5. CASE LateFailure(p)
  BY <1>5 DEF LateFailure, NotAdded
<1>6. CASE RemoveClient(p)
  BY <1>6 DEF RemoveClient, Return
<1>7. CASE Close(p)
  BY <1>7 DEF Close, Return
<1> QED
  BY <1>1, <1>2, <1>3, <1>4, <1>5, <1>6, <1>7 DEF ClientCall

\* The other steps: whoever writes running is at work on the cluster or strands it,
\* and a restart lists every running cluster.
LEMMA OthersStrand ==
  ASSUME StateTypes, CallTypes, Registry, StrandInv,
         \/ \E p \in Procs :
               SyncOnInit(p) \/ CheckAnswers(p) \/ CheckErrs(p) \/ CheckFailed(p)
         \/ \E p \in Procs, c \in Clusters : PerformSyncstatus(p, c)
         \/ \E c \in Clusters :
               PerformSync(c) \/ DeleteCluster(c) \/ ApiDown(c) \/ ApiUp(c)
         \/ HealthLoop \/ DeleteEnds \/ Restart \/ UNCHANGED vars
  PROVE  StrandInv'
<1> USE ClientsAssumption, ManagersPositive
    DEF StateTypes, CallTypes, Registry, LockHeld, CallsAreOfClusters, EntryFree,
      StrandInv, DeletionSteps, CallersKnown, ListedOnly, RetriesLost,
      LostBeforeRemoval, RunningHasClient, Strand, Unstrand, regVars, loopVars, procVars, Goto, Finish, Take, Procs, DbStatus
<1>1. ASSUME NEW p \in Procs, SyncOnInit(p) PROVE StrandInv'
  BY <1>1 DEF SyncOnInit
<1>2. ASSUME NEW c \in Clusters, PerformSync(c) \/ ApiDown(c) \/ ApiUp(c)
      PROVE  StrandInv'
  BY <1>2 DEF PerformSync, ApiDown, ApiUp
<1>3. ASSUME NEW c \in Clusters, DeleteCluster(c) PROVE StrandInv'
  BY <1>3 DEF DeleteCluster
<1>4. CASE DeleteEnds
  BY <1>4 DEF DeleteEnds, Written, WriteFails
<1>5. CASE Restart
  BY <1>5 DEF Restart, Listed
<1>6. CASE UNCHANGED vars
  BY <1>6 DEF vars
<1>7. CASE BootNext \/ Probe
  BY <1>7 DEF BootNext, Probe
<1>8. CASE LoopEnds \/ HealthCheck
  BY <1>8 DEF LoopEnds, HealthCheck, Listed, Gone
<1>9. CASE SetRunning \/ SetLost \/ Revert
  <2>1. CASE SetRunning
    BY <2>1 DEF SetRunning, Written, WriteFails
  <2>2. CASE SetLost
    BY <2>2 DEF SetLost, Written, WriteFails
  <2>3. CASE Revert
    BY <2>3 DEF Revert, Written, WriteFails
  <2> QED
    BY <1>9, <2>1, <2>2, <2>3
<1>10. ASSUME NEW p \in Procs, NEW c \in Clusters, PerformSyncstatus(p, c)
       PROVE  StrandInv'
  BY <1>10 DEF PerformSyncstatus
<1>11. ASSUME NEW p \in Procs, CheckAnswers(p) \/ CheckErrs(p) \/ CheckFailed(p)
       PROVE  StrandInv'
  BY <1>11 DEF CheckAnswers, CheckErrs, CheckFailed, Written
<1> QED
  BY <1>1, <1>2, <1>3, <1>4, <1>5, <1>6, <1>7, <1>8, <1>9, <1>10,
    <1>11 DEF HealthLoop

-----------------------------------------------------------------------------
(* Theorems *)

\* What holds in every reachable state.
ClientInv == StateTypes /\ CallTypes /\ UsedTypes /\ Registry /\ StrandInv

\* The server that starts satisfies the invariant.
LEMMA InitClientInv == Init => ClientInv
<1> SUFFICES ASSUME Init PROVE ClientInv
  OBVIOUS
<1>1. StateTypes /\ CallTypes
  BY ClientsAssumption DEF Init, StateTypes, CallTypes, DbStatus, Steps, Procs
<1>2. UsedTypes
  BY ClientsAssumption DEF Init, UsedTypes
<1>3. Registry
  BY DEF Init, Registry, LockHeld, CallsAreOfClusters, EntryFree, OwnManager,
    RegistryMatches
<1>4. StrandInv
  BY ClientsAssumption DEF Init, StrandInv, DeletionSteps, CallersKnown, ListedOnly,
    RetriesLost, LostBeforeRemoval, RunningHasClient, Procs
<1> QED
  BY <1>1, <1>2, <1>3, <1>4 DEF ClientInv

\* Every step keeps it.
LEMMA StepClientInv == ClientInv /\ [Next]_vars => ClientInv'
<1> SUFFICES ASSUME ClientInv, [Next]_vars PROVE ClientInv'
  OBVIOUS
<1>1. /\ StateTypes /\ CallTypes /\ UsedTypes /\ Registry /\ StrandInv
      /\ LockHeld /\ CallsAreOfClusters
  BY DEF ClientInv, Registry
<1>2. UsedTypes'
  BY <1>1, UsedStep
<1>3. ASSUME NEW p \in Procs, ClientCall(p)
      PROVE  StateTypes' /\ CallTypes' /\ Registry' /\ StrandInv'
  BY <1>1, <1>3, CallTyped, CallRegistry, CallStrands
<1>4. ASSUME ~\E p \in Procs : ClientCall(p)
      PROVE  StateTypes' /\ CallTypes' /\ Registry' /\ StrandInv'
  <2>1. CASE HealthLoop
    BY <1>1, <2>1, LoopTyped, OthersRegistry, OthersStrand
  <2>2. CASE ~HealthLoop
    <3>1. \/ \E p \in Procs :
                SyncOnInit(p) \/ CheckAnswers(p) \/ CheckErrs(p) \/ CheckFailed(p)
          \/ \E p \in Procs, c \in Clusters : PerformSyncstatus(p, c)
          \/ \E c \in Clusters :
                PerformSync(c) \/ DeleteCluster(c) \/ ApiDown(c) \/ ApiUp(c)
          \/ DeleteEnds \/ Restart \/ UNCHANGED vars
      BY <1>4, <2>2 DEF Next
    <3> QED
      BY <1>1, <3>1, OthersTyped, OthersRegistry, OthersStrand
  <2> QED
    BY <2>1, <2>2
<1> QED
  BY <1>2, <1>3, <1>4 DEF ClientInv

\* The invariant holds in every reachable state, whatever the fairness.
THEOREM ClientInvariant == Spec => []ClientInv
  BY InitClientInv, StepClientInv, PTL DEF Spec

\* Every reachable state of the registry is well typed, whatever the clusters,
\* tasks and bounds.
THEOREM ClientsTypeCorrect == Spec => []TypeOK
<1>1. ClientInv => TypeOK
  BY DEF ClientInv, StateTypes, CallTypes, UsedTypes, TypeOK
<1> QED
  BY ClientInvariant, <1>1, PTL

\* AddClient and RemoveClient, called by any number of tasks, the health check
\* and deletions of any number of clusters, keep registry, informers and
\* kubeconfig files together, failed builds and restarts included: the action
\* lock covers every build and every removal from its look at the registry on.
THEOREM RegistryConsistent == Spec => []RegistryMatches
<1>1. ClientInv => RegistryMatches
  BY DEF ClientInv, Registry
<1> QED
  BY ClientInvariant, <1>1, PTL

\* Whatever calls, failed builds, failed writes, status checks and restarts come
\* together, a cluster is left running without a client, and with nobody at work on
\* it, only by the steps that say so.
THEOREM RunningClustersHaveClients == Spec => []RunningHasClient
<1>1. ClientInv => RunningHasClient
  BY DEF ClientInv, StrandInv
<1> QED
  BY ClientInvariant, <1>1, PTL
=============================================================================
