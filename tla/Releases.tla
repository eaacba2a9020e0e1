---- MODULE Releases ----
(***************************************************************************)
(* Chart repositories and helm releases of one cluster (pkg/helm,          *)
(* pkg/models/repos.go, release.go, pkg/controllers/helm).                 *)
(*                                                                         *)
(* A repository is a row of the database and an entry of one               *)
(* repositories.yaml shared by every domain.  RepoClient.Add rewrites the  *)
(* file under a file lock, RepoClient.Remove without it; the row and the   *)
(* entry are written by different steps.  Every entry is tagged with the   *)
(* domain whose URL it holds.                                              *)
(*                                                                         *)
(* A release is a row, the repository of its chart and what helm stores    *)
(* under its name in the cluster.  Releases that other code installs are   *)
(* Foreign: they become rows when the cluster is synchronised.             *)
(***************************************************************************)
EXTENDS Naturals, FiniteSets, SequencesExt

CONSTANTS
  Repos,        \* names of repositories
  Domains,      \* domains, each with an URL of its own for a name
  RelNames,     \* names of releases
  Foreign,      \* those that are installed by other code
  MaxRepos,     \* bounds the repository rows ever inserted
  MaxReleases,  \* bounds the release rows ever inserted
  MaxCalls,     \* bounds the requests, refreshes and synchronisations
  MaxBreaks     \* bounds failing steps

VARIABLES
  repos,      \* repository rows ever inserted
  file,       \* repositories.yaml: the domain an entry is of, or none
  rjobs,      \* requests on repositories, and the Add of the refresh
  todo,       \* rows that the refresh has listed and not looked at yet
  rels,       \* release rows ever inserted
  helm,       \* what helm has under each name
  jobs,       \* release requests and tasks
  listing,    \* what the synchronisation under way has listed
  calls, breaks,
  stale,      \* history: the file was rewritten from an outdated copy, the entry of
              \* a repository still to be inserted was removed, the refresh failed,
              \* or two domains got the same name
  ghost,      \* history: an entry was added whose row was not there, or about to go
  race,       \* history: a release was created while its repository was being deleted
  overlap     \* history: a release was deleted, or dropped by a synchronisation, during a task

NoEntry == "none"
Files == [Repos -> Domains \cup {NoEntry}]
Empty == [n \in Repos |-> NoEntry]
HelmStatus == {"none", "deployed", "failed"}
RowStatus == {"creating", "create_fail", "deleting", "delete_fail", "deployed", "failed"}
NotListing == [on |-> FALSE, seen |-> [n \in RelNames |-> "none"]]

RelTypeOK ==
  /\ repos \in Seq([name : Repos, dom : Domains, live : BOOLEAN]) /\ Len(repos) <= MaxRepos
  /\ file \in Files
  /\ rjobs \in Seq([kind : {"create", "sync", "refresh", "delete"}, name : Repos, dom : Domains,
                    row : 0..MaxRepos, stage : {"load", "write", "row"}, snap : Files])
  /\ todo \subseteq 1..MaxRepos
  /\ rels \in Seq([name : RelNames, repo : 0..MaxRepos, live : BOOLEAN, status : RowStatus])
  /\ Len(rels) <= MaxReleases
  /\ helm \in [RelNames -> HelmStatus]
  /\ jobs \in Seq([kind : {"create", "delete"}, name : RelNames, repo : 0..MaxRepos,
                   row : 0..MaxReleases, stage : {"insert", "call", "done", "failed"}])
  /\ listing \in [on : BOOLEAN, seen : [RelNames -> HelmStatus]]
  /\ calls \in 0..MaxCalls /\ breaks \in 0..MaxBreaks
  /\ stale \in BOOLEAN /\ ghost \in BOOLEAN /\ race \in BOOLEAN /\ overlap \in BOOLEAN

\* Everything but what helm has and the shared budgets.
RelInit ==
  /\ repos = <<>> /\ file = Empty /\ rjobs = <<>> /\ todo = {}
  /\ rels = <<>> /\ jobs = <<>> /\ listing = NotListing
  /\ stale = FALSE /\ ghost = FALSE /\ race = FALSE /\ overlap = FALSE

repoSide == <<repos, file, rjobs, todo, stale, ghost>>
releaseSide == <<rels, helm, jobs, listing, race, overlap>>

Request == calls < MaxCalls /\ calls' = calls + 1
StepFails == breaks < MaxBreaks /\ breaks' = breaks + 1

LiveRepo(r) == r \in DOMAIN repos /\ repos[r].live
LiveRows(n) == {r \in DOMAIN rels : rels[r].live /\ rels[r].name = n}

-----------------------------------------------------------------------------
(* Repositories *)

RepoJob(kind, n, d, r) ==
  rjobs' = Append(rjobs, [kind |-> kind, name |-> n, dom |-> d, row |-> r,
                          stage |-> "load", snap |-> Empty])
RepoEnds(j) == rjobs' = RemoveAt(rjobs, j)
RepoStage(j, s) == rjobs' = [rjobs EXCEPT ![j].stage = s]

\* An object is locked by the request on it.
ObjectFree(r) == \A j \in DOMAIN rjobs : rjobs[j].row # r

\* SRepoManager.ValidateCreateData; the class lock is the domain's.
CreateRepo(n, d) ==
  /\ Request /\ \A j \in DOMAIN rjobs : ~(rjobs[j].kind = "create" /\ rjobs[j].dom = d)
  /\ RepoJob("create", n, d, 0)
  /\ UNCHANGED <<repos, file, todo, stale, ghost, releaseSide, breaks>>

\* SRepo.PerformSync: DoSync.
PerformSync(r) ==
  /\ LiveRepo(r) /\ ObjectFree(r) /\ Request
  /\ RepoJob("sync", repos[r].name, repos[r].dom, r)
  /\ UNCHANGED <<repos, file, todo, stale, ghost, releaseSide, breaks>>

\* doRepoRefresh, and Start after a restart, list the rows ...
ListRepos ==
  /\ todo = {} /\ \A j \in DOMAIN rjobs : rjobs[j].kind # "refresh"
  /\ \E r \in DOMAIN repos : repos[r].live
  /\ Request
  /\ todo' = {r \in DOMAIN repos : repos[r].live}
  /\ UNCHANGED <<repos, file, rjobs, stale, ghost, releaseSide, breaks>>

\* ... and add those that have no entry (RepoCacheBackend.Update).
RefreshOne(r) ==
  /\ \A j \in DOMAIN rjobs : rjobs[j].kind # "refresh"
  /\ todo' = todo \ {r}
  /\ IF file[repos[r].name] = NoEntry
     THEN RepoJob("refresh", repos[r].name, repos[r].dom, 0) ELSE UNCHANGED rjobs
  /\ UNCHANGED <<repos, file, stale, ghost, releaseSide, calls, breaks>>

LockHeld == \E j \in DOMAIN rjobs : rjobs[j].kind # "delete" /\ rjobs[j].stage = "write"

\* RepoClient.Add: the file lock, the file, and no entry of that name.
AddLoad(j) ==
  /\ rjobs[j].kind # "delete" /\ rjobs[j].stage = "load" /\ ~LockHeld
  /\ IF file[rjobs[j].name] # NoEntry THEN RepoEnds(j)
     ELSE rjobs' = [rjobs EXCEPT ![j].stage = "write", ![j].snap = file]
  /\ UNCHANGED <<repos, file, todo, stale, ghost, releaseSide, calls, breaks>>

\* The lock is not had within 30 s, or the index cannot be downloaded.
AddFails(j) ==
  /\ rjobs[j].kind # "delete" /\ StepFails
  /\ \/ rjobs[j].stage = "load" /\ LockHeld
     \/ rjobs[j].stage = "write"
  /\ stale' = (stale \/ rjobs[j].kind = "refresh")
  /\ RepoEnds(j)
  /\ UNCHANGED <<repos, file, todo, ghost, releaseSide, calls>>

AddWrite(j) ==
  LET k == rjobs[j] IN
  /\ k.kind # "delete" /\ k.stage = "write"
  /\ file' = [k.snap EXCEPT ![k.name] = k.dom]
  /\ stale' = (stale \/ k.snap # file)
  /\ IF k.kind = "create" THEN RepoStage(j, "row") ELSE RepoEnds(j)
  /\ ghost' = (ghost \/ (k.kind # "create" /\
                 ~\E r \in DOMAIN repos : repos[r].live /\ repos[r].name = k.name
                      /\ repos[r].dom = k.dom
                      /\ \A i \in DOMAIN rjobs : ~(rjobs[i].kind = "delete" /\ rjobs[i].row = r)))
  /\ UNCHANGED <<repos, todo, releaseSide, calls, breaks>>

\* The name is looked for after the entry was added; then the row is inserted.
InsertRepo(j) ==
  LET k == rjobs[j]
      same == {r \in DOMAIN repos : repos[r].live /\ repos[r].name = k.name}
      taken == \E r \in same : repos[r].dom = k.dom IN
  /\ k.kind = "create" /\ k.stage = "row"
  /\ \/ /\ ~taken /\ Len(repos) < MaxRepos
        /\ repos' = Append(repos, [name |-> k.name, dom |-> k.dom, live |-> TRUE])
        /\ stale' = (stale \/ same # {})
        /\ UNCHANGED <<ghost, breaks>>
     \/ /\ (taken /\ UNCHANGED breaks) \/ (~taken /\ StepFails)
        /\ ghost' = TRUE /\ UNCHANGED <<repos, stale>>
  /\ RepoEnds(j)
  /\ UNCHANGED <<file, todo, releaseSide, calls>>

\* Mutant: the releases are not counted.
DeleteRepoUncounted(r) ==
  /\ LiveRepo(r) /\ ObjectFree(r) /\ Request
  /\ RepoJob("delete", repos[r].name, repos[r].dom, r)
  /\ race' = (race \/ \E i \in DOMAIN jobs : jobs[i].stage = "insert" /\ jobs[i].repo = r)
  /\ UNCHANGED <<repos, file, todo, stale, ghost, rels, helm, jobs, listing, overlap, breaks>>

\* SRepo.ValidateDeleteCondition counts the releases.
DeleteRepo(r) ==
  /\ LiveRepo(r) /\ ObjectFree(r) /\ Request
  /\ \A i \in DOMAIN rels : ~(rels[i].live /\ rels[i].repo = r)
  /\ RepoJob("delete", repos[r].name, repos[r].dom, r)
  /\ race' = (race \/ \E i \in DOMAIN jobs : jobs[i].stage = "insert" /\ jobs[i].repo = r)
  /\ UNCHANGED <<repos, file, todo, stale, ghost, rels, helm, jobs, listing, overlap, breaks>>

\* RepoClient.Remove: without a file, or an entry in it, there is nothing to
\* remove; an entry that is not there is an error.
RemoveLoad(j) ==
  /\ rjobs[j].kind = "delete" /\ rjobs[j].stage = "load"
  /\ IF file = Empty THEN RepoStage(j, "row")
     ELSE IF file[rjobs[j].name] = NoEntry THEN RepoEnds(j)
     ELSE rjobs' = [rjobs EXCEPT ![j].stage = "write", ![j].snap = file]
  /\ UNCHANGED <<repos, file, todo, stale, ghost, releaseSide, calls, breaks>>

RemoveWrite(j) ==
  LET k == rjobs[j] IN
  /\ k.kind = "delete" /\ k.stage = "write"
  /\ file' = [k.snap EXCEPT ![k.name] = NoEntry]
  /\ stale' = (stale \/ k.snap # file \/ \E i \in DOMAIN rjobs :
                 rjobs[i].kind = "create" /\ rjobs[i].stage = "row" /\ rjobs[i].name = k.name)
  /\ RepoStage(j, "row")
  /\ UNCHANGED <<repos, todo, ghost, releaseSide, calls, breaks>>

\* SRepo.Delete: then the row.
RemoveRow(j) ==
  /\ rjobs[j].kind = "delete" /\ rjobs[j].stage = "row"
  /\ repos' = [repos EXCEPT ![rjobs[j].row].live = FALSE]
  /\ RepoEnds(j)
  /\ UNCHANGED <<file, todo, stale, ghost, releaseSide, calls, breaks>>

\* The process stops: requests and the refresh are lost.
Restart ==
  /\ rjobs # <<>> /\ jobs = <<>> /\ listing = NotListing /\ StepFails
  /\ ghost' = (ghost \/ \E j \in DOMAIN rjobs : rjobs[j].kind = "create" /\ rjobs[j].stage = "row")
  /\ rjobs' = <<>> /\ todo' = {r \in DOMAIN repos : repos[r].live}
  /\ UNCHANGED <<repos, file, stale, releaseSide, calls>>

-----------------------------------------------------------------------------
(* Releases *)

Job(kind, n, p, r, s) ==
  jobs' = Append(jobs, [kind |-> kind, name |-> n, repo |-> p, row |-> r, stage |-> s])
JobEnds(j) == jobs' = RemoveAt(jobs, j)
JobStage(j, s) == jobs' = [jobs EXCEPT ![j].stage = s]

\* ShowChart: the entry of the repository's name, whoever added it.
ShowChart(p) == LiveRepo(p) /\ file[repos[p].name] # NoEntry

\* SReleaseManager.ValidateCreateData, under the class lock.
CreateRelease(n, p) ==
  /\ n \notin Foreign /\ ShowChart(p) /\ LiveRows(n) = {}
  /\ \A j \in DOMAIN jobs : jobs[j].stage # "insert"
  /\ Request
  /\ Job("create", n, p, 0, "insert")
  /\ race' = (race \/ \E i \in DOMAIN rjobs : rjobs[i].kind = "delete" /\ rjobs[i].row = p)
  /\ UNCHANGED <<repoSide, rels, helm, listing, overlap, breaks>>

\* CustomizeCreate and PostCreate: the row, unless the repository or the name
\* has gone meanwhile; the create task follows.
InsertRelease(j) ==
  LET k == jobs[j] IN
  /\ k.stage = "insert"
  /\ IF LiveRepo(k.repo) /\ LiveRows(k.name) = {} /\ Len(rels) < MaxReleases
     THEN /\ rels' = Append(rels, [name |-> k.name, repo |-> k.repo, live |-> TRUE,
                                   status |-> "creating"])
          /\ jobs' = [jobs EXCEPT ![j].row = Len(rels) + 1, ![j].stage = "call"]
     ELSE JobEnds(j) /\ UNCHANGED rels
  /\ UNCHANGED <<repoSide, helm, listing, race, overlap, calls, breaks>>

\* doCreate: Replace, so that a failed release gives its name away; not Atomic,
\* so that an installation that fails stays.
Install(j) ==
  LET k == jobs[j]
      possible == ShowChart(k.repo) /\ helm[k.name] # "deployed" IN
  /\ k.kind = "create" /\ k.stage = "call"
  /\ \/ /\ possible /\ helm' = [helm EXCEPT ![k.name] = "deployed"]
        /\ JobStage(j, "done") /\ UNCHANGED breaks
     \/ ~possible /\ JobStage(j, "failed") /\ UNCHANGED <<helm, breaks>>
     \/ /\ StepFails /\ JobStage(j, "failed")
        /\ \/ UNCHANGED helm
           \/ possible /\ helm' = [helm EXCEPT ![k.name] = "failed"]
  /\ UNCHANGED <<repoSide, rels, listing, race, overlap, calls>>

\* The status a task leaves; a row that has gone is left alone.
SetStatus(r, s) == rels' = IF rels[r].live THEN [rels EXCEPT ![r].status = s] ELSE rels

\* OnCreateComplete: the resource sync task reads the release.
CreateEnds(j) ==
  LET k == jobs[j] IN
  /\ k.kind = "create" /\ k.stage \in {"done", "failed"}
  /\ IF k.stage = "failed" THEN SetStatus(k.row, "create_fail")
     ELSE IF helm[k.name] = "none" THEN UNCHANGED rels ELSE SetStatus(k.row, helm[k.name])
  /\ JobEnds(j)
  /\ UNCHANGED <<repoSide, helm, listing, race, overlap, calls, breaks>>

DeleteRelease(r) ==
  /\ rels[r].live /\ Request
  /\ rels' = [rels EXCEPT ![r].status = "deleting"]
  /\ Job("delete", rels[r].name, rels[r].repo, r, "call")
  /\ overlap' = (overlap \/ \E j \in DOMAIN jobs : jobs[j].row = r)
  /\ UNCHANGED <<repoSide, helm, listing, race, breaks>>

\* DeleteRemoteObject: a release that is not found is deleted.
Uninstall(j) ==
  /\ jobs[j].kind = "delete" /\ jobs[j].stage = "call"
  /\ \/ /\ helm' = [helm EXCEPT ![jobs[j].name] = "none"]
        /\ JobStage(j, "done") /\ UNCHANGED breaks
     \/ helm[jobs[j].name] # "none" /\ StepFails /\ JobStage(j, "failed") /\ UNCHANGED helm
  /\ UNCHANGED <<repoSide, rels, listing, race, overlap, calls>>

\* OnDeleteComplete and OnDeleteCompleteFailed.
DeleteEnds(j) ==
  LET k == jobs[j] IN
  /\ k.kind = "delete" /\ k.stage \in {"done", "failed"}
  /\ IF k.stage = "failed" THEN SetStatus(k.row, "delete_fail")
     ELSE rels' = [rels EXCEPT ![k.row].live = FALSE]
  /\ JobEnds(j)
  /\ UNCHANGED <<repoSide, helm, listing, race, overlap, calls, breaks>>

\* A synchronisation lists every release of the cluster ...
ListReleases ==
  /\ ~listing.on /\ Request
  /\ listing' = [on |-> TRUE, seen |-> helm]
  /\ UNCHANGED <<repoSide, rels, helm, jobs, race, overlap, breaks>>

\* ... and brings the rows in line with the list: rows without a release go
\* unless they have failed, releases without a row get one.
Fails(s) == s \in {"create_fail", "delete_fail"}
Dropped(r) == rels[r].live /\ listing.seen[rels[r].name] = "none" /\ ~Fails(rels[r].status)
Added == {n \in RelNames : listing.seen[n] # "none" /\ LiveRows(n) = {}}

SyncReleases ==
  /\ listing.on /\ Len(rels) + Cardinality(Added) <= MaxReleases
  /\ rels' = [r \in DOMAIN rels |->
                 IF Dropped(r) THEN [rels[r] EXCEPT !.live = FALSE]
                 ELSE IF rels[r].live /\ listing.seen[rels[r].name] # "none"
                 THEN [rels[r] EXCEPT !.status = listing.seen[rels[r].name]]
                 ELSE rels[r]]
             \o SetToSeq({[name |-> n, repo |-> 0, live |-> TRUE, status |-> listing.seen[n]]
                           : n \in Added})
  /\ overlap' = (overlap \/ listing.seen # helm \/ \E j \in DOMAIN jobs : jobs[j].row # 0)
  /\ listing' = NotListing
  /\ UNCHANGED <<repoSide, helm, jobs, race, calls, breaks>>

-----------------------------------------------------------------------------

RelNext ==
  \/ \E n \in Repos, d \in Domains : CreateRepo(n, d)
  \/ \E r \in DOMAIN repos : PerformSync(r) \/ DeleteRepo(r)
  \/ ListRepos \/ Restart
  \/ \E r \in todo : RefreshOne(r)
  \/ \E j \in DOMAIN rjobs : AddLoad(j) \/ AddFails(j) \/ AddWrite(j) \/ InsertRepo(j)
                             \/ RemoveLoad(j) \/ RemoveWrite(j) \/ RemoveRow(j)
  \/ \E n \in RelNames, p \in DOMAIN repos : CreateRelease(n, p)
  \/ \E r \in DOMAIN rels : DeleteRelease(r)
  \/ \E j \in DOMAIN jobs : InsertRelease(j) \/ Install(j) \/ CreateEnds(j)
                            \/ Uninstall(j) \/ DeleteEnds(j)
  \/ ListReleases \/ SyncReleases

-----------------------------------------------------------------------------
(* Properties *)

\* Rows and entries agree once no request on repositories and no refresh is
\* under way, restarts between the two writes included: the name of every
\* repository has an entry unless a request undid what another had written, and
\* every entry has the repository of its URL unless it was added without.
RepoFileMatches ==
  (rjobs = <<>> /\ todo = {} /\ ~stale) =>
    /\ \A r \in DOMAIN repos : repos[r].live => file[repos[r].name] # NoEntry
    /\ ~ghost => \A n \in Repos : file[n] # NoEntry =>
         \E r \in DOMAIN repos : repos[r].live /\ repos[r].name = n /\ repos[r].dom = file[n]

\* A release keeps the repository of its chart: the count of releases before a
\* repository is deleted suffices, unless the release was being created.
ReleaseKeepsRepo ==
  race \/ \A r \in DOMAIN rels :
            (rels[r].live /\ rels[r].repo # 0) => LiveRepo(rels[r].repo)

\* When nothing is under way and no two tasks of a release overlapped, a row
\* that says deployed has its release and a release has its row.
ReleasesTellTruth ==
  (jobs = <<>> /\ ~listing.on /\ ~overlap) =>
    \A n \in RelNames \ Foreign :
      /\ \A r \in LiveRows(n) : rels[r].status = "deployed" => helm[n] = "deployed"
      /\ helm[n] # "none" => LiveRows(n) # {}
====
