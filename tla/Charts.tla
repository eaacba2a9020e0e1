---- MODULE Charts ----
(***************************************************************************)
(* Charts of Helm repositories and the release made from one: the list and *)
(* the details of charts (pkg/helm/chart.go, pkg/resources/chart,          *)
(* pkg/k8s/helm_handler.go), the version a release is pinned to, its       *)
(* values and its resources (pkg/models/release.go, pkg/models/helper.go). *)
(*                                                                         *)
(* The content of a chart version is its digest.  Three copies of it may   *)
(* differ: what the repository publishes, what the index file of the last  *)
(* refresh says, and the archive the last download left.  Archives lie in  *)
(* one directory under the chart's name and version, so repositories share *)
(* them.                                                                   *)
(***************************************************************************)
EXTENDS Naturals, SequencesExt, FiniteSetsExt, TLC

CONSTANTS
  Repos,        \* repositories, by name
  Charts,       \* names of charts, numbers: they sort
  Released,     \* released versions, numbers
  Prereleases,  \* pre-release versions, numbers; they sort with the others
  MaxChanges,   \* bounds what happens in the repositories
  Manifests,    \* manifests of an installed release, sequences of objects
  Values        \* values a user gives, functions from keys

VARIABLES
  published,   \* digest of each version in its repository, 0 when it is not there
  index,       \* index files: as published at some time, NoIndex when there is none
  archive,     \* digests of the downloaded archives, 0 when there is none
  rel,         \* the release made of chart 1
  changes,     \* digests given so far
  fresh        \* history: since the release was validated, its repository has had what
               \* its index file said

Versions == Released \cup Prereleases
Empty == [c \in Charts |-> [v \in Versions |-> 0]]
NoIndex == Empty
NoRelease == [st |-> "none", repo |-> "", version |-> 0, digest |-> 0, seen |-> 0]

\* What a version of a request admits; "" takes the caller's default.  Masterminds' semver
\* lets a pre-release match only a constraint that has one; "bad" does not parse.
Admits(con) ==
  CASE con = "any" -> Versions          \* >0.0.0-0
    [] con = "released" -> Released     \* >0.0.0, *
    [] con = "first" -> {1}
    [] con = "bad" -> {}

\* Every repository has version 1 of every chart, each with a content of its own.
ChInit ==
  /\ published = [r \in Repos |-> [c \in Charts |-> [v \in Versions |->
                   IF v = 1 THEN 10 * c + (IF r = "a" THEN 1 ELSE 2) ELSE 0]]]
  /\ index = published /\ archive = Empty
  /\ rel = NoRelease /\ changes = 0 /\ fresh = FALSE

-----------------------------------------------------------------------------
(* The list of charts. *)

\* buildIndex and search.SortScore: every version of every chart of the repository named
\* in the request, by name and then newest first.  A repository without an index file
\* is skipped.
Before(x, y) == IF x.name = y.name THEN x.version > y.version ELSE x.name < y.name
buildIndex(repo) ==
  IF repo \notin Repos THEN <<>>
  ELSE SetToSortSeq({[name |-> p[1], version |-> p[2], digest |-> index[repo][p[1]][p[2]]] :
                       p \in {q \in Charts \X Versions : index[repo][q[1]][q[2]] > 0}}, Before)

\* applyFilter: the name asked for or, without one, a keyword, here the set of names it fits.
applyFilter(q, res) ==
  SelectSeq(res, LAMBDA r : IF q.name # 0 THEN r.name = q.name ELSE r.name \in q.keyword)

\* applyConstraint keeps what satisfies the constraint and, unless all versions are asked
\* for, only the first of each name.
applyConstraint(con, allVersion, res) ==
  FoldLeft(LAMBDA acc, r :
             IF r.name \in acc.found \/ r.version \notin Admits(con) THEN acc
             ELSE [data |-> Append(acc.data, r),
                   found |-> acc.found \cup IF allVersion THEN {} ELSE {r.name}],
           [data |-> <<>>, found |-> {}], res).data

SearchRepo(q) ==
  applyConstraint(IF q.con = "" THEN "released" ELSE q.con, q.all, applyFilter(q, buildIndex(q.repo)))

\* chartlistHandler and List: the repository may be given by its name or its id, and is
\* searched for under what was given.
List(q) ==
  IF q.repo = "" \/ q.con = "bad" THEN [err |-> TRUE, charts |-> <<>>]
  ELSE [err |-> FALSE, charts |-> SearchRepo(q)]

ChartQueries == [repo : Repos \cup {"", "id-a"}, name : {0, 1}, keyword : {Charts, {2}},
            con : {"", "any", "first", "bad"}, all : BOOLEAN]

-----------------------------------------------------------------------------
(* Locating a chart. *)

\* getChartPath: the newest version of the index file that the constraint admits.
getChartPath(r, c, con) ==
  LET fit == {v \in Versions : index[r][c][v] > 0 /\ v \in Admits(con)}
  IN IF fit = {} THEN 0 ELSE Max(fit)

\* Mutant: an archive that is there is taken.
LocateChartUnchecked(r, c, v) ==
  IF archive[c][v] # 0 THEN archive[c][v] ELSE published[r][c][v]

\* LocateChart: the archive when its digest is the one in the index; otherwise what the
\* repository has now is downloaded, and not compared with the index.
LocateChart(r, c, v) ==
  IF archive[c][v] = index[r][c][v] THEN archive[c][v] ELSE published[r][c][v]

\* ChartClient.Show, with the entry of the repository there.
Show(r, c, con) ==
  LET v == getChartPath(r, c, con)
      d == IF v = 0 THEN 0 ELSE LocateChart(r, c, v)
  IN [err |-> d = 0, version |-> v, digest |-> d]

Keep(c, s) == archive' = IF s.err THEN archive ELSE [archive EXCEPT ![c][s.version] = s.digest]

\* chartShowHandler; helm reads an empty version as "*".
chartShowHandler(r, c, con) ==
  /\ Keep(c, Show(r, c, IF con = "" THEN "released" ELSE con))
  /\ UNCHANGED <<published, index, rel, changes, fresh>>

-----------------------------------------------------------------------------
(* What happens to the repositories. *)

\* The owner of the repository publishes a version, again or for the first time, or
\* withdraws it.
Publish(r, v, withdrawn) ==
  /\ changes < MaxChanges /\ changes' = changes + 1
  /\ published' = [published EXCEPT ![r][1][v] = IF withdrawn THEN 0 ELSE 20 + changes]
  /\ fresh' = (fresh /\ r # rel.repo)
  /\ UNCHANGED <<index, archive, rel>>

\* RepoClient.Update, and Add for a repository that has been removed: the index file is
\* downloaded.  When that fails the old one stays.
UpdateIndex(r) ==
  /\ index' = [index EXCEPT ![r] = published[r]]
  /\ UNCHANGED <<published, archive, rel, changes, fresh>>

\* RepoClient.Remove: entry and index file go, archives stay.
RemoveRepo(r) ==
  /\ rel.repo # r
  /\ index' = [index EXCEPT ![r] = NoIndex]
  /\ UNCHANGED <<published, archive, rel, changes, fresh>>

-----------------------------------------------------------------------------
(* The release. *)

\* MergeValues: a set replaces the value at its path and leaves the paths beside it.
MergeValues(yaml, sets) == sets @@ yaml

\* CustomizeCreate: the JSON values replace the configuration key by key, each with
\* everything under it.  A path is a pair: a key and a key under it.
Tops(values) == {p[1] : p \in DOMAIN values}
CustomizeCreate(yaml, sets, json) ==
  LET merged == MergeValues(yaml, sets)
  IN json @@ [p \in {q \in DOMAIN merged : q[1] \notin Tops(json)} |-> merged[p]]

\* ValidateCreateData: without a version any will do, pre-releases too; the one found is
\* written into the request.
ValidateCreateData(r, con) ==
  LET s == Show(r, 1, IF con = "" THEN "any" ELSE con)
  IN /\ rel.st = "none" /\ ~s.err
     /\ rel' = [st |-> "creating", repo |-> r, version |-> s.version, seen |-> s.digest,
                digest |-> 0]
     /\ fresh' = (index[r] = published[r]) /\ Keep(1, s)
     /\ UNCHANGED <<published, index, changes>>

\* doCreate, in the task: the chart is located again, by the version of the row.
doCreate ==
  LET r == rel.repo
      v == IF index[r][1][rel.version] > 0 THEN rel.version ELSE 0
      s == [err |-> v = 0 \/ LocateChart(r, 1, rel.version) = 0, version |-> rel.version,
            digest |-> IF v = 0 THEN 0 ELSE LocateChart(r, 1, v)]
  IN /\ rel.st = "creating"
     /\ rel' = IF s.err THEN [rel EXCEPT !.st = "create_fail"]
               ELSE [rel EXCEPT !.st = "deployed", !.digest = s.digest]
     /\ Keep(1, s)
     /\ UNCHANGED <<published, index, changes, fresh>>

Delete ==
  /\ rel.st \in {"deployed", "create_fail"}
  /\ rel' = NoRelease /\ fresh' = FALSE
  /\ UNCHANGED <<published, index, archive, changes>>

\* GetReleaseResources visits the manifest.  An object of a kind without a manager, or that
\* is not in the cluster, is skipped; one that cannot be shown ends the visit, whose error
\* nobody reads.
GetReleaseResources(manifest) ==
  FoldLeft(LAMBDA acc, o :
             IF acc.ended \/ ~o.known \/ ~o.there THEN acc
             ELSE IF ~o.shows THEN [acc EXCEPT !.ended = TRUE]
             ELSE [acc EXCEPT !.list = Append(@, o)],
           [list |-> <<>>, ended |-> FALSE], manifest).list

\* GetHelmRelease: a list leaves the resources out.
GetHelmRelease(manifest, isList) ==
  IF rel.st # "deployed" THEN [err |-> TRUE, resources |-> <<>>]
  ELSE [err |-> FALSE, resources |-> IF isList THEN <<>> ELSE GetReleaseResources(manifest)]

\* fillReleaseDetail: without the release of Helm only the row is shown (the error is
\* logged), and a release whose repository row cannot be read is an external one.
fillReleaseDetail(manifest, isList, repoType) ==
  LET r == GetHelmRelease(manifest, isList)
  IN IF r.err THEN [resources |-> <<>>, type |-> "none"]
     ELSE [resources |-> r.resources, type |-> IF repoType = "none" THEN "external" ELSE repoType]

ChNext ==
  \/ \E r \in Repos, c \in Charts, con \in {"", "any", "first", "bad"} : chartShowHandler(r, c, con)
  \/ \E r \in Repos, v \in Versions, w \in BOOLEAN : Publish(r, v, w)
  \/ \E r \in Repos : UpdateIndex(r) \/ RemoveRepo(r)
  \/ \E r \in Repos, con \in {"", "first", "bad"} : ValidateCreateData(r, con)
  \/ doCreate \/ Delete

-----------------------------------------------------------------------------
(* Properties. *)

Newest(r, c, con) == getChartPath(r, c, con)

\* List: without all_version a repository's list has each chart once, with the newest
\* version the constraint admits; with all_version it has every one of them, newest first.
\* A repository given by its id is found and then searched for under a name it does not
\* have: its list is empty.
ListShowsNewest ==
  \A q \in ChartQueries :
    LET l == List(q).charts
        con == IF q.con = "" THEN "released" ELSE q.con
        wanted == IF q.name # 0 THEN {q.name} ELSE q.keyword
    IN /\ q.repo \notin Repos => l = <<>>
       /\ q.repo \in Repos =>
            /\ \A i, j \in DOMAIN l : i < j => Before(l[i], l[j])
            /\ {<<l[i].name, l[i].version>> : i \in DOMAIN l} =
                 {p \in wanted \X Versions :
                    IF q.all THEN index[q.repo][p[1]][p[2]] > 0 /\ p[2] \in Admits(con)
                    ELSE p[2] = Newest(q.repo, p[1], con)}

\* LocateChart: although the repositories share the archives, what is shown of a chart or
\* installed from it is a content its own repository published: the one in the index file
\* or the one it has now.
ShownIsOwn ==
  \A r \in Repos, c \in Charts, con \in {"any", "released", "first"} :
    LET s == Show(r, c, con)
    IN ~s.err => s.digest \in {index[r][c][s.version], published[r][c][s.version]}

\* ValidateCreateData and doCreate: what is installed is what was looked at when the
\* request was validated, when its repository had what the index file said all that time.
InstalledWasSeen == rel.st = "deployed" /\ fresh => rel.digest = rel.seen

\* CustomizeCreate: the configuration has nothing nobody gave; the last of YAML, sets and
\* JSON that gives a value wins; and a value of the YAML or the sets that is lost lies under
\* a key of the JSON values, whether or not the JSON gives that value.
ConfigExplained ==
  rel.st = "creating" =>
    \A y, s, j \in Values :
      LET c == CustomizeCreate(y, s, j)
      IN \A p \in DOMAIN y \cup DOMAIN s \cup DOMAIN j \cup DOMAIN c :
           IF p \notin DOMAIN c THEN p \notin DOMAIN j /\ p[1] \in Tops(j)
           ELSE \/ p \in DOMAIN j /\ c[p] = j[p]
                \/ p \in DOMAIN s \ DOMAIN j /\ c[p] = s[p]
                \/ p \in DOMAIN y \ (DOMAIN s \cup DOMAIN j) /\ c[p] = y[p]

\* GetReleaseResources: an object of the release that its details do not show has no
\* manager, is not in the cluster, or comes after one that could not be shown.
HiddenExplained ==
  rel.st = "deployed" =>
    \A m \in Manifests :
      LET shown == ToSet(fillReleaseDetail(m, FALSE, "none").resources)
      IN \A i \in DOMAIN m : m[i] \notin shown =>
           ~m[i].known \/ ~m[i].there \/ \E k \in 1 .. i : m[k].known /\ m[k].there /\ ~m[k].shows

\* GetDetails: a deployed release always has a type, and is shown as an internal one (managed
\* through its repository) only if its repository row says so.
ReleaseTyped ==
  \A m \in Manifests, l \in BOOLEAN, t \in {"none", "internal", "external"} :
    LET d == fillReleaseDetail(m, l, t)
    IN /\ (d.type = "none") = (rel.st # "deployed")
       /\ d.type = "internal" => t = "internal"

ChartsSound == ListShowsNewest /\ ShownIsOwn /\ InstalledWasSeen /\ ConfigExplained /\ HiddenExplained
               /\ ReleaseTyped
====
