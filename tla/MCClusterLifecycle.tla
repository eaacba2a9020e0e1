------------------------- MODULE MCClusterLifecycle -------------------------
(* Instances of ClusterLifecycle for TLC. *)
EXTENDS ClusterLifecycle, TLC

CONSTANTS c1, n1, j1, j2, j3

MCMachines == {c1, n1}
MCControls == {c1}
MCJobs2 == {j1, j2}
MCJobs3 == {j1, j2, j3}

\* Jobs are interchangeable: no definition tells one from another.
JobSymmetry == Permutations(Jobs)

\* A cluster whose creation completed and whose machines all run: every job is
\* left for what follows.
RunningInit ==
    /\ status = "running" /\ kube = c1 /\ client = "present"
    /\ mstat = [m \in Machines |-> "running"]
    /\ first = {c1} /\ rid = Machines /\ vm = Machines /\ up = {c1}
    /\ prep = [m \in Machines |-> "done"]
    /\ kind = [j \in Jobs |-> "none"]
    /\ pc = [j \in Jobs |-> "idle"]
    /\ ms = [j \in Jobs |-> {}]
    /\ todo = [j \in Jobs |-> {}]
    /\ seen = [j \in Jobs |-> "none"]
    /\ term = [j \in Jobs |-> [m \in Machines |-> "none"]]
    /\ sched = [j \in Jobs |-> {}]
    /\ probe = "idle"

\* The system met at its beginning, or in the middle of its life.
StartedSpec == (Init \/ RunningInit) /\ [][Next]_vars

\* The same with the workers that run the stages, closures and tasks.
FairStartedSpec == StartedSpec /\ Fairness

=============================================================================
