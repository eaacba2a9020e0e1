SPECIFICATION FairSpec
CONSTANTS
    c1 = c1
    n1 = n1
    j1 = j1
    j2 = j2
    j3 = j3
    Machines <- MCMachines
    Controls <- MCControls
    Jobs <- MCJobs2
    Requests = {"create", "delete"}
    NeedCreateMachines = FALSE
    NoMachine = NoMachine
PROPERTIES
    SyncCallReturns
CHECK_DEADLOCK FALSE
