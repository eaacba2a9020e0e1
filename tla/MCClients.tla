----------------------------- MODULE MCClients -----------------------------
(* The instance of Clients for TLC: one cluster, one ClusterSyncTask and one *)
(* ClusterSyncstatusTask next to the health check and the deletion.          *)
EXTENDS Clients

CONSTANTS c1, s1, k1
OneCluster == {c1}
OneTask == {s1}
OneCheck == {k1}
=============================================================================
