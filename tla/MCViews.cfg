SPECIFICATION MCSpec
CONSTANTS
  Nil = Nil
  Requests = {"pod", "env", "nodes", "cordon", "deployment", "statefulset", "daemonset", "create", "revisions",
              "job", "template", "service", "mounts", "other", "list"}
  Pods <- MCPods
  Specs <- MCSpecs
  ConfigMaps <- MCConfigMaps
  Secrets <- MCSecrets
  Nodes <- MCNodes
  EventLists <- MCEventLists
  Deployments <- MCDeployments
  StatefulSets <- MCStatefulSets
  DaemonSets <- MCDaemonSets
  PodSets <- MCPodSets
  ReplicaSets <- MCReplicaSets
  Metas <- MCMetas
  Options <- MCOptions
  Volumes <- MCVolumes
  Claims <- MCClaims
  Jobs <- MCJobs
  Templates <- MCTemplates
  RevisionLists <- MCRevisionLists
  TemplateInputs <- MCTemplateInputs
  Services <- MCServices
  Mounters <- MCMounters
  Objects <- MCObjects
  Queries <- MCQueries
  Filters <- MCFilters
  Texts <- MCTexts
  DefaultLimit = 3
INVARIANTS
  PodsSound
  WorkloadsSound
  PagesPartition
  ObjectsSound
  ChartsSound
CHECK_DEADLOCK FALSE
