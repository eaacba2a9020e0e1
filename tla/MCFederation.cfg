SPECIFICATION MCSpec
CONSTANTS
  Clusters = {k1}
  Jobs = {j1, j2}
  Requests = {"attach", "sync", "update", "syncCluster", "detach", "delete", "deleteRow", "purgeCluster"}
  MaxRows = 3
  MaxFaults = 1
  MaxSpec = 2
  MaxVersion = 2
  MaxOthers = 1
  FrClusters <- MCFrClusters
SYMMETRY JobSymmetry
INVARIANTS AttachedUniquely TransitionHasTask DriftExplained FederatedRolesSound
CHECK_DEADLOCK FALSE
