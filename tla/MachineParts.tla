---------------------------- MODULE MachineParts ----------------------------
(***************************************************************************)
(* What stands behind the machines of a cluster: its key pairs (KeyPairs), *)
(* the control planes of a cluster on hosts (ControlPlane) and the work on *)
(* one virtual machine (MachineWork).  They meet in the batch tasks of     *)
(* ClusterLifecycle only, and take their steps independently.              *)
(***************************************************************************)
EXTENDS KeyPairs, ControlPlane, MachineWork

partsAll == <<keyAll, cpAll, mwAll>>

PartsInit == KpInit /\ CpInit /\ MwInit

PartsNext ==
  \/ KpNext /\ UNCHANGED <<cpAll, mwAll>>
  \/ CpNext /\ UNCHANGED <<keyAll, mwAll>>
  \/ MwNext /\ UNCHANGED <<keyAll, cpAll>>

PartsSpec == PartsInit /\ [][PartsNext]_partsAll

\* Machines: key pairs are made once and go with their cluster, a control plane node that
\* goes leaves etcd and the kubeadm configuration, and no server is lost from sight, or
\* the cause is named (x509_keypair.go, yunion_host.go, machine tasks).
MachinesSound == KeyPairsSound /\ ControlPlaneExplained /\ MachineWorkSound
=============================================================================
