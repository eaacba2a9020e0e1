----------------------------- MODULE ControlPlane -----------------------------
(***************************************************************************)
(* Removing control planes of a cluster built on hosts: the host driver    *)
(* takes the joined control planes out of etcd and out of the kubeadm      *)
(* status, which it reads first and writes back last, before the batch     *)
(* task resets the hosts and deletes their rows                            *)
(* (pkg/drivers/clusters/yunion_host.go, pkg/drivers/machines/             *)
(* yunion_host.go, pkg/utils/etcd/etcd.go).  Requests overlap, a machine   *)
(* may join meanwhile, and any call may fail, an etcd removal also after   *)
(* it took effect.                                                         *)
(***************************************************************************)
EXTENDS Naturals, FiniteSets

CONSTANTS Hosts1, FirstHost, Removers, MaxCpFaults, MaxMapVer

VARIABLES rows,      \* control-plane machine rows
          members,   \* etcd members
          status,    \* API endpoints in the kubeadm config map
          mapVer,    \* resource version of the config map
          rem,       \* the removal requests
          gone,      \* machines whose removal was handed to the batch task
          lapped,    \* ghost: machines hidden or revived by a write of a stale copy
          asked,     \* ghost: machines some request named
          cpFaults

NoRem == [pc |-> "idle", ms |-> {}, todo |-> {}, copy |-> {}, ver |-> 0]

CpInit ==
  /\ FirstHost \in Hosts1
  /\ \E S \in SUBSET Hosts1 : FirstHost \in S /\ rows = S /\ members = S /\ status = S
  /\ mapVer = 0 /\ rem = [r \in Removers |-> NoRem] /\ gone = {} /\ lapped = {} /\ asked = {} /\ cpFaults = 0

CpFault == cpFaults < MaxCpFaults /\ cpFaults' = cpFaults + 1
CpStep == UNCHANGED cpFaults

\* kubeadm join on a new host (external): an etcd member and an endpoint,
\* written with a conflict check by kubeadm itself.
Join(h) ==
  /\ h \notin rows \cup gone /\ mapVer < MaxMapVer
  /\ rows' = rows \cup {h} /\ members' = members \cup {h} /\ status' = status \cup {h}
  /\ mapVer' = mapVer + 1 /\ CpStep /\ UNCHANGED <<rem, gone, lapped, asked>>

\* A request; without a joined control plane it goes straight to the batch.
RequestDeleteMachines(r, S) ==
  /\ rem[r].pc \in {"idle", "failed"} /\ S # {} /\ S \subseteq rows \ gone
  /\ S \ {FirstHost} # {}
  /\ rem' = [rem EXCEPT ![r] = [NoRem EXCEPT !.pc = "open", !.ms = S, !.todo = S \ {FirstHost}]]
  /\ asked' = asked \cup S
  /\ CpStep /\ UNCHANGED <<rows, members, status, mapVer, gone, lapped>>

\* The etcd client: its key pair and the addresses of all control planes.
GetClusterEtcdClient(r) ==
  /\ rem[r].pc = "open"
  /\ rem' = [rem EXCEPT ![r].pc = "status"]
  /\ CpStep /\ UNCHANGED <<rows, members, status, mapVer, gone, lapped, asked>>

GetKubeadmClusterStatus(r) ==
  /\ rem[r].pc = "status"
  /\ rem' = [rem EXCEPT ![r].pc = "members", ![r].copy = status]
  /\ CpStep /\ UNCHANGED <<rows, members, status, mapVer, gone, lapped, asked>>

\* Mutant: a member that is out of etcd already stays in the copy of the status.
RemoveEtcdMemberOnce(r) ==
  /\ rem[r].pc = "members" /\ rem[r].todo # {}
  /\ \E m \in rem[r].todo :
       IF m \in members
       THEN members' = members \ {m} /\ rem' = [rem EXCEPT ![r].copy = @ \ {m}, ![r].todo = @ \ {m}]
       ELSE members' = members /\ rem' = [rem EXCEPT ![r].todo = @ \ {m}]
  /\ CpStep /\ UNCHANGED <<rows, status, mapVer, gone, lapped, asked>>

\* One machine: off the copy, then out of etcd; not being a member is no error.
RemoveEtcdMember(r) ==
  /\ rem[r].pc = "members" /\ rem[r].todo # {}
  /\ \E m \in rem[r].todo :
       /\ members' = members \ {m}
       /\ rem' = [rem EXCEPT ![r].copy = @ \ {m}, ![r].todo = @ \ {m}]
  /\ CpStep /\ UNCHANGED <<rows, status, mapVer, gone, lapped, asked>>

\* The removal may have taken effect although its answer is an error.
MemberFails(r) ==
  /\ rem[r].pc = "members" /\ rem[r].todo # {} /\ CpFault
  /\ \E m \in rem[r].todo : members' \in {members, members \ {m}}
  /\ rem' = [rem EXCEPT ![r] = [NoRem EXCEPT !.pc = "failed"]]
  /\ UNCHANGED <<rows, status, mapVer, gone, lapped, asked>>

\* updateKubeadmClusterStatus reads the config map again, for its version, ...
getKubeadmConfigmap(r) ==
  /\ rem[r].pc = "members" /\ rem[r].todo = {}
  /\ rem' = [rem EXCEPT ![r].pc = "write", ![r].ver = mapVer]
  /\ CpStep /\ UNCHANGED <<rows, members, status, mapVer, gone, lapped, asked>>

\* ... and writes the copy that was read before the members were removed.
updateKubeadmClusterStatus(r) ==
  /\ rem[r].pc = "write" /\ mapVer < MaxMapVer
  /\ IF rem[r].ver # mapVer
     THEN rem' = [rem EXCEPT ![r] = [NoRem EXCEPT !.pc = "failed"]] /\ UNCHANGED <<status, mapVer, gone, lapped, asked>>
     ELSE /\ status' = rem[r].copy /\ mapVer' = mapVer + 1
          /\ lapped' = lapped \cup (rem[r].copy \ status)
                              \cup ((status \ rem[r].copy) \ rem[r].ms)
          /\ rem' = [rem EXCEPT ![r] = NoRem] /\ gone' = gone \cup rem[r].ms
  /\ CpStep /\ UNCHANGED <<rows, members, asked>>

CpFails(r) ==
  /\ rem[r].pc \in {"open", "status", "write"} /\ CpFault
  /\ rem' = [rem EXCEPT ![r] = [NoRem EXCEPT !.pc = "failed"]]
  /\ UNCHANGED <<rows, members, status, mapVer, gone, lapped, asked>>

\* TerminateHost of the host driver and the deletion of the row, done by
\* the batch task (ClusterLifecycle): the containers go, the scheduling tag
\* (its failure is only logged), then kubeadm reset.
TerminateHost(m) ==
  /\ m \in gone \cap rows
  /\ rows' = rows \ {m}
  /\ CpStep /\ UNCHANGED <<members, status, mapVer, rem, gone, lapped, asked>>

CpNext ==
  \/ \E h \in Hosts1 : Join(h) \/ TerminateHost(h)
  \/ \E r \in Removers :
       \/ \E S \in SUBSET Hosts1 : RequestDeleteMachines(r, S)
       \/ GetClusterEtcdClient(r) \/ GetKubeadmClusterStatus(r) \/ RemoveEtcdMember(r)
       \/ MemberFails(r) \/ getKubeadmConfigmap(r) \/ updateKubeadmClusterStatus(r) \/ CpFails(r)
cpAll == <<rows, members, status, mapVer, rem, gone, lapped, asked, cpFaults>>
-----------------------------------------------------------------------------
\* A joined control plane whose removal was handed on is out of etcd, and out
\* of the kubeadm status unless another request wrote back a copy that still
\* had it; a retry of a removal that failed half-way gets there too.
RemovedIsOut ==
  \A m \in gone \ {FirstHost} : m \notin members /\ (m \in status => m \in lapped)

\* No other machine loses its place: every control plane nobody asked to
\* remove is a member, and an endpoint unless a stale copy was written over it.
OthersKept ==
  \A m \in rows \ asked : m \in members /\ (m \in status \/ m \in lapped)

ControlPlaneExplained == RemovedIsOut /\ OthersKept
=============================================================================
