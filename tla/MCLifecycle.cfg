SPECIFICATION StartedSpec
CONSTANTS
    c1 = c1
    n1 = n1
    j1 = j1
    j2 = j2
    j3 = j3
    Machines <- MCMachines
    Controls <- MCControls
    Jobs <- MCJobs2
    Requests = {"create", "add", "post", "delMachines", "delMachine", "delete", "syncstatus", "health"}
    NeedCreateMachines = TRUE
    NoMachine = NoMachine
SYMMETRY JobSymmetry
INVARIANTS
    NoStuckTransition
    FirstNodeLeads
    LeakExplained
    DeleteDrains
PROPERTIES
    FirstLeavesLast
CHECK_DEADLOCK FALSE
