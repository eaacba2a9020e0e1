SPECIFICATION MCSpec
CONSTANTS
  Drivers = {"helm", "kubectl"}
  MaxComponents = 2
  MaxSettings = 2
  MaxCalls = 3
  MaxBreaks = 1
  Repos = {n1, n2}
  Domains = {d1, d2}
  Apps = {"app"}
  MaxRepos = 2
  MaxReleases = 2
  MaxKeyFaults = 2
  Hosts1 = {"h1", "h2", "h3"}
  FirstHost = "h1"
  Removers = {1, 2}
  MaxCpFaults = 1
  MaxMapVer = 3
  MaxServers = 2
  MaxTasks = 3
  MaxWorkFaults = 1
  Nil = Nil
SYMMETRY RepoSymmetry
INVARIANTS ComponentsSound ReleasesSound RequestsChecked MachinesSound
CHECK_DEADLOCK FALSE
