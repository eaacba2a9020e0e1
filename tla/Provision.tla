------------------------------ MODULE Provision ------------------------------
(***************************************************************************)
(* What requests for clusters and machines are turned into before a row is *)
(* written, and what a machine is then told to run: the checks and         *)
(* defaults of pkg/models/clusters.go and machines.go, the cluster drivers *)
(* (host, VM, imported, system) and the machine drivers.  Machine rows on  *)
(* hosts are inserted by concurrent requests; everything else is one       *)
(* request and its answer.                                                 *)
(***************************************************************************)
EXTENDS Naturals, Sequences, FiniteSets, SequencesExt

CONSTANTS Nil, CreateInputs, Adds, Hosts, HostRequests, Scripts, Asks,
          Clusters1, Machines1

VARIABLE prov

Refused == [kind |-> "refused"]
Panic == [kind |-> "panic"]
Ok(out) == [kind |-> "ok", out |-> out]
Default(x, d) == IF x = "" THEN d ELSE x
-----------------------------------------------------------------------------
(* Drivers by mode, provider and resource type. *)

ClusterDrivers ==
  {<<"customize", "onecloud", "host">>, <<"customize", "onecloud", "guest">>,
   <<"import", "external", "unknown">>, <<"import", "system", "host">>}

DriverOf(in) == <<in.mode, in.provider, in.resourceType>>
NeedCreateMachines(drv) == drv[1] = "customize"
GetK8sVersions(drv) ==
  IF drv[1] = "import" THEN <<>> ELSE IF drv[3] = "host" THEN <<"v1.13.3">> ELSE <<"v1.14.1">>

Roles == {"controlplane", "node"}
OfRole(ms, role) == SelectSeq(ms, LAMBDA m : m.role = role)
Controls(ms) == OfRole(ms, "controlplane")
-----------------------------------------------------------------------------
(* Virtual machines.  A name is its text without the last dash-separated   *)
(* part and that part's number (Nil when it is none).                      *)

\* The smallest numbers no machine of the role has.
getClusterMachineIndexs(existing, role, count) ==
  LET used == {m.name.idx : m \in {n \in existing : n.role = role}} \ {Nil}
      free == SetToSortSeq((0..(count + Cardinality(used))) \ used, <)
  IN SubSeq(free, 1, count)

generateVMName(cluster, role, idx) == [base |-> <<cluster, role, "rand">>, idx |-> idx]

Position(ms, i) == Cardinality({j \in 1..i : (ms[j].role = "controlplane") = (ms[i].role = "controlplane")})

\* Roles other than controlplane count as nodes when names are given.
Named(cluster, existing, ms) ==
  LET n == Len(Controls(ms))
      ctl == getClusterMachineIndexs(existing, "controlplane", n)
      nod == getClusterMachineIndexs(existing, "node", Len(ms) - n)
  IN [i \in 1..Len(ms) |->
        IF ms[i].name # Nil THEN ms[i]
        ELSE [ms[i] EXCEPT !.name = generateVMName(cluster, ms[i].role,
                (IF ms[i].role = "controlplane" THEN ctl ELSE nod)[Position(ms, i)])]]

DefaultCPU == 2
DefaultMem == 2048
ApplyConfig(m, image) ==
  [m EXCEPT !.cpu = IF @ = 0 THEN DefaultCPU ELSE @, !.mem = IF @ = 0 THEN DefaultMem ELSE @,
            !.disks = <<image>> \o (IF @ = <<>> THEN <<>> ELSE Tail(@))]
ConfigRefused(m) == m.cpu < DefaultCPU

\* The machine driver's check; cloud is the answer of the cloud's own.
validateConfig(m, cloud) == m.cpu >= 4 /\ m.mem >= 4096 /\ cloud

validateCreateMachine(m, cloud) ==
  m.role \in Roles /\ m.type = "vm" /\ m.resourceId = "" /\ validateConfig(m, cloud)

findImage(env) == env.image = "active"

ValidateVMs(cluster, existing, isNew, ms, env) ==
  IF ~isNew /\ existing = {} /\ Controls(ms) = <<>> THEN Refused
  ELSE IF ~findImage(env) THEN Refused
  ELSE LET out == [i \in 1..Len(ms) |-> ApplyConfig(Named(cluster, existing, ms)[i], env.image)]
       IN IF (\E i \in 1..Len(out) : ConfigRefused(out[i]) \/ ~validateCreateMachine(out[i], env.cloud))
          THEN Refused ELSE Ok(out)
-----------------------------------------------------------------------------
(* Hosts.  host.ref is what a request may call it: its id or its name. *)

HostBy(ref) == {h \in Hosts : ref \in {h.id, h.name}}

\* rows: the resource ids of all machine rows.
ValidateHostId(rows, ref) ==
  \E h \in HostBy(ref) : h.id \notin rows /\ h.type \in {"hypervisor", "kubelet"} /\ h.ready

HostAccepted(rows, m) ==
  m.role \in Roles /\ m.type = "baremetal" /\ m.resourceId # "" /\ ValidateHostId(rows, m.resourceId)

HostNamed(m) == [m EXCEPT !.name = [base |-> <<(CHOOSE h \in HostBy(m.resourceId) : TRUE).name>>, idx |-> Nil]]

\* Adding machines waits for every check.
ValidateHosts(rows, needControl, ms) ==
  IF needControl /\ Controls(ms) = <<>> THEN Refused
  ELSE IF \E i \in 1..Len(ms) : ~HostAccepted(rows, ms[i]) THEN Refused
  ELSE Ok([i \in 1..Len(ms) |-> HostNamed(ms[i])])

\* Creating a cluster starts the same checks and does not wait for them: no
\* failure is seen, and each name is written in time or not.
ValidateClusterCreateData(rows, ms) ==
  IF Controls(ms) = <<>> THEN {Refused}
  ELSE {Ok([i \in 1..Len(ms) |-> IF i \in late \/ ~HostAccepted(rows, ms[i]) THEN ms[i] ELSE HostNamed(ms[i])]) :
          late \in SUBSET (1..Len(ms))}

GetUsableInstances(rows) ==
  {h.id : h \in {g \in Hosts : g.type \in {"hypervisor", "kubelet"} /\ g.online /\ g.id \notin rows}}
-----------------------------------------------------------------------------
(* Imported clusters. *)

ImportDistros == {"k8s", "openshift"}

\* The version the OpenShift operator reports, Nil when asking for it fails.
\* The failure is wrapped around the wrong, nil error: errors.Wrap of nil is
\* nil, so it is accepted.
OpenshiftInfo(distro, operator) == IF distro = "openshift" THEN operator ELSE Nil

\* system: Nil or the system cluster.
ValidateImport(in, env) ==
  IF in.import = Nil THEN Refused
  ELSE LET distro == Default(in.import.distro, "k8s") IN
       IF distro \notin ImportDistros \/ ~in.import.valid \/ ~in.import.reachable THEN Refused
       ELSE IF env.system = Nil \/ in.import.uid = env.system THEN Refused
       ELSE Ok([in EXCEPT !.version = "server",
                          !.import = [@ EXCEPT !.distro = distro, !.encoded = TRUE,
                                               !.info = OpenshiftInfo(distro, env.operator)]])

ValidateSystemImport(in) ==
  IF in.import = Nil THEN Panic
  ELSE IF ~in.import.valid \/ ~in.import.reachable THEN Refused
  ELSE Ok([in EXCEPT !.version = "server"])
-----------------------------------------------------------------------------
(* Creating a cluster. *)

WithDefaults(in) ==
  [in EXCEPT !.clusterType = Default(@, "default"), !.cloudType = Default(@, "private"),
             !.resourceType = Default(@, "host"), !.mode = Default(@, "customize"),
             !.provider = Default(@, "onecloud"), !.serviceCidr = Default(@, "10.43.0.0/16"),
             !.podCidr = Default(@, "10.42.0.0/16")]

ValidateResourceType(t) == t \in {"host", "guest", "unknown"}
ValidateProviderType(p) == p \in {"onecloud", "system", "external"}

FieldsValid(in) ==
  /\ in.isSystem => in.admin
  /\ in.clusterType = "default" /\ in.cloudType = "private"
  /\ ValidateResourceType(in.resourceType) /\ in.mode \in {"customize", "import"}
  /\ ValidateProviderType(in.provider) /\ DriverOf(in) \in ClusterDrivers
  /\ in.serviceCidr # "bad" /\ in.podCidr # "bad"
  /\ in.provider # "system" /\ NeedCreateMachines(DriverOf(in)) => in.machines # <<>>
  /\ \A i \in 1..Len(in.machines) : in.machines[i].type # "" /\ in.machines[i].type = in.machines[1].type

\* A VM cluster asks for a control plane only when its provider is not the
\* one every VM cluster has.
DriverValidates(in, env) ==
  LET drv == DriverOf(in)
      withMachines(r) == IF r.kind = "ok" THEN Ok([in EXCEPT !.machines = r.out]) ELSE r
  IN CASE drv[1] = "import" /\ drv[2] = "external" -> {ValidateImport(in, env)}
       [] drv[1] = "import" /\ drv[2] = "system" -> {ValidateSystemImport(in)}
       [] drv[3] = "host" -> {withMachines(r) : r \in ValidateClusterCreateData(env.rows, in.machines)}
       [] drv[3] = "guest" -> {withMachines(ValidateVMs(in.name, {}, TRUE, in.machines, env))}

\* repo is Nil or the parts of its URL.
RepoValid(repo) == repo = Nil \/ Len(repo) = 2
CheckVersion(r) ==
  IF r.kind # "ok" THEN r
  ELSE LET vs == GetK8sVersions(DriverOf(r.out))
           v == IF vs = <<>> THEN r.out.version ELSE Default(r.out.version, vs[1])
       IN IF (vs # <<>> /\ v \notin ToSet(vs)) \/ ~RepoValid(r.out.repo) THEN Refused
          ELSE Ok([r.out EXCEPT !.version = v])

ValidateCreateData(in, env) ==
  LET d == WithDefaults(in)
  IN IF ~FieldsValid(d) THEN {Refused} ELSE {CheckVersion(r) : r \in DriverValidates(d, env)}

\* The row: an imported cluster keeps the checked credentials.
CustomizeCreate(in) ==
  [isSystem |-> in.isSystem, driver |-> DriverOf(in), version |-> in.version,
   kubeconfig |-> IF in.mode = "import" THEN in.import ELSE Nil]
-----------------------------------------------------------------------------
(* What a machine runs.  data: role, token, pairs, ip. *)

KeyUsers == {"ca", "etcd", "proxy", "sa"}

DefaultRepo == <<"registry", "yunionio">>
GetImageRepository(repo) ==
  IF repo = Nil THEN [url |-> DefaultRepo, insecure |-> FALSE]
  ELSE [repo EXCEPT !.url = IF @ = <<>> THEN DefaultRepo ELSE @]

GetDefaultMachineDockerConfig(repo) == IF repo.insecure THEN {repo.url[1]} ELSE {}

\* first: the machine's FirstNode flag.
FillMachinePrepareInput(m, pairs, token, repo) ==
  IF pairs # KeyUsers THEN Refused
  ELSE IF ~m.first /\ token = Nil THEN Refused
  ELSE LET from == GetImageRepository(repo)
       IN IF from.insecure /\ ~RepoValid(from.url) THEN Refused
          ELSE Ok([role |-> m.role, name |-> m.name, pairs |-> pairs, token |-> IF m.first THEN Nil ELSE token,
                   ip |-> m.ip, repo |-> from.url, insecure |-> GetDefaultMachineDockerConfig(from)])

Script(run, data, pairs, args, endpoint) ==
  [run |-> run, pairs |-> pairs, args |-> args, endpoint |-> endpoint, node |-> data.name, token |-> data.token,
   repo |-> data.repo, insecure |-> data.insecure]

SetInitConfigurationOverrides(args) == args \cup {"cloud-provider"}
SetJoinNodeConfigurationOverrides == {"cloud-provider"}

\* The address written in the certificates and the node addresses: the one
\* given for the cluster, or the machine's own.
SetClusterConfigurationOverrides(endpoint, ip) == IF endpoint = Nil THEN ip ELSE endpoint

\* The kubelet arguments of a worker replace those the join configuration
\* had been given, the cloud provider among them.
GetMachineInitScript(data, endpoint) ==
  IF data.role = "controlplane" /\ data.token = Nil
  THEN Ok(Script("init", data, data.pairs, SetInitConfigurationOverrides({"kubelet"}),
                 SetClusterConfigurationOverrides(endpoint, data.ip)))
  ELSE IF endpoint = Nil THEN Refused
  ELSE IF data.role = "controlplane"
  THEN Ok(Script("joinControl", data, data.pairs, SetJoinNodeConfigurationOverrides, endpoint))
  ELSE Ok(Script("join", data, {}, {"kubelet"}, endpoint))

\* The script of a host machine: it needs the endpoint before anything else.
getUserData(data, endpoint) ==
  IF endpoint = Nil THEN Refused
  ELSE IF data.role = "controlplane" /\ data.token = Nil
  THEN Ok(Script("init", data, data.pairs, {"kubelet"}, endpoint))
  ELSE IF data.role = "controlplane"
  THEN Ok(Script("joinControl", data, data.pairs, {"kubelet"}, endpoint))
  ELSE Ok(Script("join", data, {}, {"kubelet"}, endpoint))

\* The first control node's address, whatever its status.
GetAPIServerEndpoint(machines) ==
  LET ms == {m \in machines : m.role = "controlplane" /\ m.first}
  IN IF ms = {} THEN Nil ELSE (CHOOSE m \in ms : TRUE).ip
-----------------------------------------------------------------------------
(* Questions about clusters. *)

GetSystemCluster(rows) ==
  LET ms == {c \in rows : c.provider = "system" /\ c.name = "system-default"}
  IN IF ms = {} THEN Nil ELSE IF Cardinality(ms) > 1 THEN Refused ELSE CHOOSE c \in ms : TRUE

IsSystemClusterReady(rows) == \E c \in rows : c.status = "running"

usageClusters(rows, domain, isSystem) ==
  {c \in rows : c.isSystem = isSystem /\ (domain = Nil \/ c.domain = domain)}

\* Hidden system clusters, and the clusters a federated object uses or not.
ListItemFilter(rows, q) ==
  {c \in rows : /\ (q.system /\ q.allowed) \/ ~c.isSystem
                /\ q.used = Nil \/ q.used = (c.name \in q.joined)}

\* The number shown is that of the machine rows, or of the nodes when there
\* are none; it is left out when the nodes cannot be asked.
moreExtraInfo(machines, nodes) == IF machines > 0 THEN machines ELSE nodes

\* An unregistered combination ends the process.
GetPropertyK8sVersions(q) ==
  IF ~ValidateProviderType(q.provider) \/ ~ValidateResourceType(Default(q.resourceType, "host")) THEN Refused
  ELSE LET drv == <<Default(q.mode, "customize"), q.provider, Default(q.resourceType, "host")>>
       IN IF drv \notin ClusterDrivers THEN [kind |-> "fatal"] ELSE Ok(GetK8sVersions(drv))

\* Resources with no verb, and groups that do not parse, are left out.
GetDetailsApiResources(lists) ==
  {<<l.group, r.name>> : <<l, r>> \in {x \in lists \X UNION {l.resources : l \in lists} :
      x[2] \in x[1].resources /\ x[2].verbs # {} /\ x[1].group # "bad"}}

GetDetailsClusterUsers(distro, users) == IF distro = "openshift" THEN users ELSE {}

InitializeData(rows) == {[c EXCEPT !.resourceType = Default(@, "host")] : c \in rows}
-----------------------------------------------------------------------------
(* Requests.  Machine rows on hosts are inserted one by one, each checked  *)
(* again under the class lock, by two requests that were validated before. *)

State(kind, in, env) == [kind |-> kind, in |-> in, env |-> env, out |-> Nil]

ProvInit ==
  \/ \E i \in CreateInputs : prov = State("create", i.in, i.env)
  \/ \E a \in Adds : prov = State("add", a, Nil)
  \/ \E s \in Scripts : prov = State("script", s, Nil)
  \/ \E q \in Asks : prov = State("ask", q, Nil)
  \/ \E row \in {Nil} \cup {[info |-> i, isSystem |-> b, status |-> "lost"] : i \in 1..2, b \in BOOLEAN} :
       prov = State("boot", [pc |-> "find", row |-> row, fresh |-> FALSE, tries |-> 0], Nil)
  \/ \E r \in HostRequests : prov = [kind |-> "hosts", in |-> r, env |-> {}, out |-> Nil]

CreateCluster ==
  /\ prov.kind = "create" /\ prov.out = Nil
  /\ \E r \in ValidateCreateData(prov.in, prov.env) :
       prov' = [prov EXCEPT !.out = IF r.kind = "ok" THEN [r EXCEPT !.out = [in |-> r.out, row |-> CustomizeCreate(r.out)]]
                                    ELSE r]

AddMachines ==
  /\ prov.kind = "add" /\ prov.out = Nil
  /\ prov' = [prov EXCEPT !.out = ValidateVMs(prov.in.cluster, prov.in.existing, FALSE, prov.in.machines, prov.in.env)]

RunScript ==
  /\ prov.kind = "script" /\ prov.out = Nil
  /\ LET s == prov.in
         data == FillMachinePrepareInput(s.machine, s.pairs, s.token, s.repo)
         endpoint == GetAPIServerEndpoint(s.others \cup {s.machine})
     IN prov' = [prov EXCEPT !.out =
          IF data.kind # "ok" THEN data
          ELSE IF s.driver = "vm" THEN GetMachineInitScript(data.out, endpoint)
          ELSE getUserData(data.out, endpoint)]

Ask ==
  /\ prov.kind = "ask" /\ prov.out = Nil
  /\ LET q == prov.in IN prov' = [prov EXCEPT !.out =
       CASE q.what = "ready" -> Ok(IsSystemClusterReady(Clusters1))
         [] q.what = "system" -> Ok(GetSystemCluster(Clusters1))
         [] q.what = "usage" -> Ok(usageClusters(Clusters1, q.domain, q.isSystem))
         [] q.what = "list" -> Ok(ListItemFilter(Clusters1, q))
         [] q.what = "versions" -> GetPropertyK8sVersions(q)
         [] q.what = "instances" -> Ok(GetUsableInstances(Machines1))
         [] q.what = "count" -> Ok(moreExtraInfo(q.machines, q.nodes))
         [] q.what = "resources" -> Ok(GetDetailsApiResources(q.lists))
         [] q.what = "users" -> Ok(GetDetailsClusterUsers(q.distro, {"u"}))
         [] q.what = "initialize" -> Ok(InitializeData(Clusters1))]

\* Mutant: the host is not checked against the rows there are.
CreateMachineUnchecked(i) ==
  /\ prov.kind = "hosts" /\ i \in DOMAIN prov.in /\ prov.in[i] # <<>>
  /\ LET m == Head(prov.in[i]) IN
     prov' = [prov EXCEPT !.in[i] = Tail(@), !.env = @ \cup {[m EXCEPT !.seq = <<i, Len(prov.in[i])>>]}]

\* env holds the rows inserted so far, in the requests still to be served.
CreateMachineNoHook(i) ==
  /\ prov.kind = "hosts" /\ i \in DOMAIN prov.in /\ prov.in[i] # <<>>
  /\ LET m == Head(prov.in[i]) IN
     IF ~HostAccepted({r.resourceId : r \in prov.env}, m)
     THEN prov' = [prov EXCEPT !.in[i] = <<>>]
     ELSE prov' = [prov EXCEPT !.in[i] = Tail(@), !.env = @ \cup {[HostNamed(m) EXCEPT !.seq = <<i, Len(prov.in[i])>>]}]

\* RegisterSystemCluster, run when the service starts: find or create the
\* row, write the in-cluster address and credentials, and poll its status
\* while the create or status task works.  Any call may fail.
MaxPolls == 5

\* The address and a kubeconfig with the token of the service's own pod, of the
\* cluster the service runs in now; none without HOSTNAME or when the pod or
\* the certificate cannot be read.
GetSystemClusterKubeconfig == {Nil} \cup 1..2

RegisterCreate ==
  /\ prov.kind = "boot" /\ prov.in.pc = "find"
  /\ \/ prov' = [prov EXCEPT !.in.pc = "failed"]
     \/ /\ prov.in.row = Nil
        /\ \E i \in GetSystemClusterKubeconfig \ {Nil} : prov' = [prov EXCEPT !.in = [@ EXCEPT !.pc = "update", !.fresh = TRUE,
                             !.row = [info |-> i, isSystem |-> FALSE, status |-> "creating"]]]
     \/ prov.in.row # Nil /\ prov' = [prov EXCEPT !.in.pc = "update"]

RegisterUpdate ==
  /\ prov.kind = "boot" /\ prov.in.pc = "update"
  /\ \/ prov' = [prov EXCEPT !.in.pc = "failed"]
     \/ \E i \in GetSystemClusterKubeconfig \ {Nil} : prov' = [prov EXCEPT !.env = i, !.in = [@ EXCEPT !.pc = "poll",
                             !.row = [@ EXCEPT !.info = i, !.isSystem = TRUE]]]

RegisterPoll ==
  /\ prov.kind = "boot" /\ prov.in.pc = "poll"
  /\ prov' = [prov EXCEPT !.in = [@ EXCEPT !.tries = @ + 1,
                !.pc = IF prov.in.row.status = "running" THEN "ok"
                       ELSE IF prov.in.tries + 1 = MaxPolls THEN "failed" ELSE "poll"]]

StatusTask ==
  /\ prov.kind = "boot" /\ prov.in.pc = "poll"
  /\ \E st \in {"running", "create_fail", "lost"} :
       /\ st = "create_fail" => prov.in.fresh
       /\ prov' = [prov EXCEPT !.in.row.status = st]

ProvNext == RegisterCreate \/ RegisterUpdate \/ RegisterPoll \/ StatusTask \/ CreateCluster \/ AddMachines \/ RunScript \/ Ask \/ \E i \in 1..2 : CreateMachineNoHook(i)
-----------------------------------------------------------------------------
(* Properties. *)

Accepted == prov.out # Nil /\ prov.out.kind = "ok"

\* An accepted create request fits its driver: a VM cluster consists of
\* machines the VM driver can build, an imported cluster is not the system
\* cluster under another name and keeps normalised credentials, a cluster
\* that is built has a version its driver offers and machines of one type
\* (ValidateCreateData and the drivers' checks).
CreateFitsDriver ==
  prov.kind = "create" /\ Accepted =>
    LET in == prov.out.out.in
        drv == DriverOf(in)
    IN /\ drv \in ClusterDrivers
       /\ NeedCreateMachines(drv) =>
            in.version \in ToSet(GetK8sVersions(drv)) /\ in.machines # <<>>
            /\ Cardinality({m.type : m \in ToSet(in.machines)}) = 1
       /\ drv[3] = "guest" => \A m \in ToSet(in.machines) :
            m.name # Nil /\ m.type = "vm" /\ m.cpu >= 4 /\ m.mem >= 4096 /\ m.disks[1] = prov.env.image
       /\ drv[2] = "external" => in.import.uid # prov.env.system /\ prov.out.out.row.kubeconfig.encoded

\* Names made for machines never meet each other or a machine the cluster
\* already has (getClusterMachineIndexs, although the random part is fixed).
NamesFresh ==
  LET names(ms) == {ms[i].name : i \in 1..Len(ms)}
  IN prov.kind = "add" /\ Accepted =>
       LET made == {i \in 1..Len(prov.in.machines) : prov.in.machines[i].name = Nil}
       IN /\ \A i, j \in made : i # j => prov.out.out[i].name # prov.out.out[j].name
          /\ \A i \in made : \A e \in prov.in.existing :
               e.role = prov.out.out[i].role => e.name.idx # prov.out.out[i].name.idx

\* Exactly the first node starts a new cluster, with every key pair; every
\* other machine joins with a token at the address of the first node, and
\* only control planes get the key pairs (GetMachineInitScript, getUserData).
FirstStartsOthersJoin ==
  prov.kind = "script" /\ Accepted =>
    LET s == prov.out.out
    IN /\ (s.run = "init") <=> prov.in.machine.first
       /\ s.run # "init" => s.token # Nil
                            /\ \E m \in prov.in.others \cup {prov.in.machine} : m.first /\ m.ip = s.endpoint
       /\ s.pairs = IF prov.in.machine.role = "controlplane" THEN KeyUsers ELSE {}

\* Two machine rows share a host only when a request called the host by its
\* name: the name is what the row then stores, and the check compares ids.
HostSharedExplained ==
  prov.kind = "hosts" =>
    \A r, s \in prov.env : r # s /\ HostBy(r.resourceId) = HostBy(s.resourceId) =>
      \E t \in {r, s} : \A h \in Hosts : t.resourceId # h.id

\* A start that reports success leaves one row that is marked as the system
\* cluster and holds the credentials of the cluster the service now runs in,
\* also when an earlier start had stored others (RegisterSystemCluster).
StartedIsCurrent ==
  prov.kind = "boot" /\ prov.in.pc = "ok" => prov.in.row.isSystem /\ prov.in.row.info = prov.env

ProvisionSound == StartedIsCurrent /\ CreateFitsDriver /\ NamesFresh /\ FirstStartsOthersJoin /\ HostSharedExplained
=============================================================================
