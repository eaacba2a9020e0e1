---- MODULE Applications ----
(***************************************************************************)
(* Components and releases of the same cluster.  The helm driver of a      *)
(* component installs a release; a synchronisation of the cluster lists it *)
(* with the others and makes it a row, and deleting that row uninstalls    *)
(* what the component's row still says is deployed.                        *)
(***************************************************************************)
EXTENDS Components, FiniteSets

CONSTANTS Repos, Domains, Apps, MaxRepos, MaxReleases

ASSUME ApplicationsAssumption == IsFiniteSet(Apps) /\ "none" \notin Domains

\* The release of the component; Apps are those that users create.
ComponentRelease == "component"
RelNames == Apps \cup {ComponentRelease}

VARIABLES
  store,     \* what helm has under the names of Apps
  repos, file, rjobs, todo, rels, jobs, listing, stale, ghost, race, raced,
  undeployed \* history: the release of the component was deleted as a release

ReleaseStatus(d) == IF d.ver = 0 \/ driver = "kubectl" THEN "none"
                    ELSE IF d.ok THEN "deployed" ELSE "failed"

Helm == [n \in RelNames |-> IF n = ComponentRelease THEN ReleaseStatus(dep) ELSE store[n]]

R == INSTANCE Releases WITH helm <- Helm, Foreign <- {ComponentRelease}, overlap <- raced

appVars == <<vars, store, repos, file, rjobs, todo, rels, jobs, listing, stale, ghost, race, raced,
             undeployed>>

AppInit ==
  /\ Init /\ R!RelInit
  /\ store = [n \in Apps |-> "none"] /\ undeployed = FALSE

\* Requests and tasks of components.
ComponentStep ==
  /\ Next
  /\ UNCHANGED <<store, repos, file, rjobs, todo, rels, jobs, listing, stale, ghost, race, raced,
                 undeployed>>

\* Requests, tasks and synchronisations of repositories and releases; what helm
\* has changes where they say.
ReleaseStep ==
  /\ UNCHANGED <<driver, comps, req, tasks, overlap, dropped>>
  /\ store' \in [Apps -> R!HelmStatus]
  /\ dep' \in {dep} \cup (IF driver = "helm" THEN {Nothing} ELSE {})
  /\ undeployed' = (undeployed \/ dep' # dep)
  /\ R!RelNext

AppNext == ComponentStep \/ ReleaseStep

AppSpec == AppInit /\ [][AppNext]_appVars

-----------------------------------------------------------------------------
(* Properties *)

\* Every repository has its entry in repositories.yaml and every entry its
\* repository (Releases).
RepoFileMatches == R!RepoFileMatches

\* A release keeps the repository of its chart (Releases).
ReleaseKeepsRepo == R!ReleaseKeepsRepo

\* Rows of releases and what helm has agree (Releases).
ReleasesTellTruth == R!ReleasesTellTruth

\* A component's status is true (Components), unless its release was deleted
\* through the row that a synchronisation made of it.
ComponentStatusIsTrue == undeployed \/ StatusIsTrue

\* Components: the status of a component is true or a task is about to set it.
ComponentsSound == ChangingHasTask /\ ComponentStatusIsTrue

\* Releases and repositories: the repository file, the rows and Helm agree, or a fault or
\* an overlap that explains the difference is named.
ReleasesSound == RepoFileMatches /\ ReleaseKeepsRepo /\ ReleasesTellTruth
====
