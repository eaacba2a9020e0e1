---- MODULE MCFederation ----
(* The federation, and apart from it the checks of roles and bindings.  Jobs are
   interchangeable. *)
EXTENDS Federation, FederatedRoles, TLC

\* Four clusters to ask: one is not running, one belongs to another domain, one is no
\* OpenShift cluster.
MCFrClusters ==
  {[running |-> TRUE, domain |-> "mine", openshift |-> TRUE, has |-> {"p"}],
   [running |-> TRUE, domain |-> "theirs", openshift |-> FALSE, has |-> {"q"}],
   [running |-> FALSE, domain |-> "mine", openshift |-> TRUE, has |-> {"s"}],
   [running |-> TRUE, domain |-> "mine", openshift |-> TRUE, has |-> {"p", "r"}]}

VARIABLE mode

JobSymmetry == Permutations(Jobs)

\* Others interfere with bindings to cluster roles only, to keep the instance small: a
\* binding to a role goes through the same steps.
MCInit ==
  /\ mode \in {"federation", "roles"}
  /\ Init
  /\ FrInit /\ (mode = "federation" => kinds = {})
  /\ others = IF kinds = Namespaced THEN 1 ELSE 0

MCNext ==
  /\ UNCHANGED mode
  /\ \/ mode = "federation" /\ Next /\ UNCHANGED frVars
     \/ mode = "roles" /\ FrNext /\ UNCHANGED vars

MCSpec == MCInit /\ [][MCNext]_<<mode, vars, frVars>>
====
