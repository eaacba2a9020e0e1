----------------------------- MODULE MCProvision -----------------------------
(* Applications and, explored by themselves, the settings of components     *)
(* (ComponentSettings), what makes and removes the clusters they run in     *)
(* (Provision) and what stands behind their machines (MachineParts).        *)
EXTENDS Applications, MachineParts

CONSTANT Nil

\* Repositories and domains are interchangeable.
RepoSymmetry == Permutations(Repos) \cup Permutations(Domains)

SeqsUpTo(S, n) == UNION {[1..k -> S] : k \in 0..n}
-----------------------------------------------------------------------------
(* Requests for Provision. *)

Vm(name, role, type, cpu, mem, disks) ==
  [name |-> name, role |-> role, type |-> type, resourceId |-> "", cpu |-> cpu, mem |-> mem,
   disks |-> disks, seq |-> Nil]
Name(b, i) == [base |-> <<b>>, idx |-> i]

MCVms == {Vm(n, r, "vm", 4, 4096, d) : n \in {Nil, Name("given", Nil)}, r \in {"controlplane", "node"},
                                       d \in {<<>>, <<"old", "data">>}}
           \cup {Vm(Nil, "node", "vm", 0, 0, <<>>), Vm(Nil, "worker", "vm", 4, 4096, <<>>)}
MCHostMachine(role, ref) ==
  [name |-> Nil, role |-> role, type |-> "baremetal", resourceId |-> ref, cpu |-> 0, mem |-> 0,
   disks |-> <<>>, seq |-> Nil]
MCHostMachines == {MCHostMachine(r, ref) : r \in {"controlplane", "node"}, ref \in {"id1", "name1", "id2", "none"}}

MCHosts == {[id |-> "id1", name |-> "name1", type |-> "hypervisor", online |-> TRUE, ready |-> TRUE],
            [id |-> "id2", name |-> "name2", type |-> "kubelet", online |-> FALSE, ready |-> TRUE],
            [id |-> "id3", name |-> "name3", type |-> "baremetal", online |-> TRUE, ready |-> TRUE]}
MCHostRequests == {<<a, b>> : a, b \in SeqsUpTo(MCHostMachines, 2)}

MCEnv(image, cloud, system) ==
  [image |-> image, cloud |-> cloud, system |-> system, operator |-> Nil, rows |-> {"id2"}]
MCInput(mode, provider, type, machines, import, version, repo) ==
  [name |-> "c", isSystem |-> FALSE, admin |-> FALSE, clusterType |-> "", cloudType |-> "",
   resourceType |-> type, mode |-> mode, provider |-> provider, serviceCidr |-> "", podCidr |-> "",
   machines |-> machines, import |-> import, version |-> version, repo |-> repo]
MCImports == {Nil} \cup {[distro |-> d, valid |-> v, reachable |-> TRUE, uid |-> u, encoded |-> FALSE,
                          info |-> Nil] :
                d \in {"", "openshift", "rke"}, v \in BOOLEAN, u \in {"u1", "u2"}}
MCCreateInputs ==
  {[in |-> MCInput("", "", t, ms, Nil, v, r), env |-> MCEnv(i, c, Nil)] :
     t \in {"", "guest", "unknown"}, ms \in SeqsUpTo(MCVms, 2) \cup SeqsUpTo(MCHostMachines, 2),
     v \in {"", "v1.14.1"}, r \in {Nil, <<"docker.io", "yunion">>, <<"yunion">>},
     i \in {"active", "queued"}, c \in BOOLEAN}
    \cup {[in |-> MCInput("import", p, t, <<>>, im, "", Nil), env |-> MCEnv("active", TRUE, s)] :
            p \in {"external", "system"}, t \in {"unknown", "host", ""}, im \in MCImports, s \in {Nil, "u1"}}
    \cup {[in |-> [MCInput("", "", "guest", <<Vm(Nil, "node", "vm", 4, 4096, <<>>)>>, Nil, "", Nil)
                    EXCEPT !.isSystem = TRUE, !.admin = a], env |-> MCEnv("active", TRUE, Nil)] : a \in BOOLEAN}

MCExisting ==
  SUBSET {[name |-> Name("c-controlplane", 0), role |-> "controlplane"], [name |-> Name("c-node", 1), role |-> "node"],
          [name |-> Name("by-hand", Nil), role |-> "node"]}
MCAdds == {[cluster |-> "c", existing |-> e, machines |-> ms, env |-> MCEnv("active", TRUE, Nil)] :
             e \in MCExisting, ms \in [1..3 -> {m \in MCVms : m.disks = <<>>}]}

MCMachine(name, role, first, ip) == [name |-> name, role |-> role, first |-> first, ip |-> ip]
MCScripts ==
  {[driver |-> d, machine |-> m, others |-> o, pairs |-> p, token |-> t, repo |-> r] :
     d \in {"vm", "host"}, t \in {Nil, "token"}, p \in {{"ca"}, {"ca", "etcd", "proxy", "sa"}},
     r \in {Nil, [url |-> <<>>, insecure |-> TRUE]},
     m \in {MCMachine("m", "controlplane", TRUE, "1"), MCMachine("m", "controlplane", FALSE, "1"),
            MCMachine("m", "node", FALSE, "1")},
     o \in {{}, {MCMachine("o", "controlplane", TRUE, "2")}, {MCMachine("o", "controlplane", FALSE, "2")}}}
MCScripts1 == {s \in MCScripts : Cardinality({m \in s.others \cup {s.machine} : m.first}) <= 1}

MCClusters ==
  {[name |-> "system-default", provider |-> "system", status |-> "running", isSystem |-> TRUE,
    domain |-> "d1", resourceType |-> ""],
   [name |-> "c", provider |-> "onecloud", status |-> "creating", isSystem |-> FALSE, domain |-> "d2",
    resourceType |-> "guest"]}
MCAsks ==
  {[what |-> w] : w \in {"ready", "system", "instances", "initialize"}}
    \cup {[what |-> "usage", domain |-> d, isSystem |-> b] : d \in {Nil, "d1"}, b \in BOOLEAN}
    \cup {[what |-> "list", system |-> s, allowed |-> a, used |-> u, joined |-> {"c"}] :
            s \in BOOLEAN, a \in BOOLEAN, u \in {Nil, TRUE, FALSE}}
    \cup {[what |-> "versions", mode |-> m, provider |-> p, resourceType |-> t] :
            m \in {"", "import"}, p \in {"onecloud", "aws"}, t \in {"", "guest", "pod"}}
    \cup {[what |-> "count", machines |-> m, nodes |-> n] : m \in 0..1, n \in {Nil, 2}}
    \cup {[what |-> "resources", lists |-> {[group |-> g, resources |-> {[name |-> "r", verbs |-> v]}]}] :
            g \in {"apps", "bad"}, v \in {{}, {"get"}}}
    \cup {[what |-> "users", distro |-> d] : d \in {"k8s", "openshift"}}
-----------------------------------------------------------------------------
VARIABLES mode, prov, comp, values, answer, certs

P == INSTANCE Provision WITH CreateInputs <- MCCreateInputs, Adds <- MCAdds, Hosts <- MCHosts,
       HostRequests <- MCHostRequests, Scripts <- MCScripts1, Asks <- MCAsks,
       Clusters1 <- MCClusters, Machines1 <- {"id2"}
S == INSTANCE ComponentSettings WITH Classes <- {[id |-> "i1", name |-> "fast"]}, ClassRefs <- {"i1", "none"},
       Sizes <- {1023, 1536}, MaxCerts <- 1

csAll == <<comp, values, answer, certs>>
csNone == comp = Nil /\ values = Nil /\ answer = Nil /\ certs = Nil

\* A part that a behaviour does not move is as it is at first.
MCInit ==
  /\ AppInit /\ PartsInit
  /\ mode \in {"apps", "provision", "keys", "control", "machine", "settings"}
  /\ IF mode = "provision" THEN P!ProvInit ELSE prov = Nil
  /\ IF mode = "settings" THEN S!CsInit ELSE csNone
  /\ mode # "control" => rows = {FirstHost}
  /\ mode # "apps" => driver = "helm"

MCNext ==
  /\ UNCHANGED mode
  /\ \/ mode = "apps" /\ AppNext /\ UNCHANGED <<prov, partsAll, csAll>>
     \/ mode = "provision" /\ P!ProvNext /\ UNCHANGED <<appVars, partsAll, csAll>>
     \/ mode = "keys" /\ KpNext /\ UNCHANGED <<appVars, prov, cpAll, mwAll, csAll>>
     \/ mode = "control" /\ CpNext /\ UNCHANGED <<appVars, prov, keyAll, mwAll, csAll>>
     \/ mode = "machine" /\ MwNext /\ UNCHANGED <<appVars, prov, keyAll, cpAll, csAll>>
     \/ mode = "settings" /\ S!CsNext /\ UNCHANGED <<appVars, prov, partsAll>>

MCSpec == MCInit /\ [][MCNext]_<<mode, appVars, prov, partsAll, csAll>>

\* What is asked for is checked: what ValidateCreateData lets through can be built
\* (Provision), and what is deployed of a component went through the checks of its driver
\* (ComponentSettings).
RequestsChecked ==
  /\ mode = "provision" => P!ProvisionSound
  /\ mode = "settings" => S!CheckedDeploys
=============================================================================
