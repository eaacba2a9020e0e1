SPECIFICATION Spec
CONSTANTS
    c1 = c1
    s1 = s1
    k1 = k1
    Clusters <- OneCluster
    SyncTasks <- OneTask
    StatusTasks <- OneCheck
    Health = Health
    Deleter = Deleter
    Nobody = Nobody
    MaxFaults = 2
    MaxSyncs = 2
INVARIANTS
    RegistryMatches
    RunningHasClient

    
CHECK_DEADLOCK FALSE
