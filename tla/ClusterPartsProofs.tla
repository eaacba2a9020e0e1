------------------------ MODULE ClusterPartsProofs ------------------------
(***************************************************************************)
(* Proofs about what a cluster is made of: the control planes that leave   *)
(* it, its key pairs and the work on one machine (MachineParts), then its  *)
(* components, chart repositories and releases (Applications), for any     *)
(* hosts, requests, settings, numbers of tasks and servers, and faults.    *)
(***************************************************************************)
EXTENDS MachineParts, Applications, Integers, SequenceTheorems, FiniteSetTheorems, TLAPS

-----------------------------------------------------------------------------
(* Control planes: the inductive invariant *)

RemPCs == {"idle", "failed", "open", "status", "members", "write"}

\* A removal took the machines of ms but for todo and the first node out of etcd, whose
\* members are es, and out of its copy; what it is to remove was asked for, and has a row
\* or had one: it is in ks.
Removal(v, as, ks, es) ==
  /\ v = [pc |-> v.pc, ms |-> v.ms, todo |-> v.todo, copy |-> v.copy, ver |-> v.ver]
  /\ v.pc \in RemPCs
  /\ v.ms \subseteq as \cap ks /\ v.todo \subseteq v.ms
  /\ v.pc = "write" => v.todo = {}
  /\ v.pc \in {"open", "status"} => v.ms \ {FirstHost} \subseteq v.todo
  /\ \A m \in v.ms \ (v.todo \cup {FirstHost}) : m \notin es /\ m \notin v.copy

CpInv ==
  /\ rem = [r \in Removers |-> rem[r]]
  /\ \A r \in Removers : Removal(rem[r], asked, rows \cup gone, members)
  /\ RemovedIsOut /\ OthersKept

\* A removal under way stays one when machines that are not its own come, and others go.
LEMMA RemovalKept ==
  ASSUME NEW v, NEW as, NEW ks, NEW es, Removal(v, as, ks, es),
         NEW as2, NEW ks2, NEW es2, as \subseteq as2, ks \subseteq ks2,
         \A m \in ks : m \in es2 => m \in es
  PROVE  Removal(v, as2, ks2, es2)
BY DEF Removal

\* A removal at rest.
LEMMA RestingRemoval ==
  ASSUME NEW p \in {"idle", "failed"}, NEW as, NEW ks, NEW es
  PROVE  Removal([NoRem EXCEPT !.pc = p], as, ks, es) /\ Removal(NoRem, as, ks, es)
BY DEF Removal, NoRem, RemPCs

\* The removals at first.
LEMMA CpInitHolds ==
  ASSUME CpInit
  PROVE  CpInv
BY RestingRemoval DEF CpInit, CpInv, RemovedIsOut, OthersKept

\* No machine loses a known row or is forgotten, and none that is known joins again.
CpGrows ==
  /\ asked \subseteq asked' /\ rows \cup gone \subseteq rows' \cup gone'
  /\ \A m \in rows \cup gone : m \in members' => m \in members

\* A step that gives one removal a new state.
LEMMA OneRemoval ==
  ASSUME CpInv, CpGrows, RemovedIsOut', OthersKept',
         NEW r \in Removers, NEW v, rem' = [rem EXCEPT ![r] = v],
         Removal(v, asked', rows' \cup gone', members')
  PROVE  CpInv'
<1>1. /\ rem' = [q \in Removers |-> rem'[q]] /\ rem'[r] = v
      /\ \A q \in Removers : q # r => rem'[q] = rem[q]
  BY DEF CpInv
<1>2. \A q \in Removers : Removal(rem'[q], asked', rows' \cup gone', members')
  <2> SUFFICES ASSUME NEW q \in Removers
               PROVE  Removal(rem'[q], asked', rows' \cup gone', members')
    OBVIOUS
  <2>1. CASE q = r
    BY <1>1, <2>1
  <2>2. CASE q # r
    <3>1. Removal(rem[q], asked, rows \cup gone, members)
      BY DEF CpInv
    <3>2. Removal(rem[q], asked', rows' \cup gone', members')
      BY <3>1, RemovalKept DEF CpGrows
    <3> QED BY <1>1, <2>2, <3>2
  <2> QED BY <2>1, <2>2
<1> QED BY <1>1, <1>2 DEF CpInv

\* A step that leaves the removals alone.
LEMMA NoRemoval ==
  ASSUME CpInv, CpGrows, RemovedIsOut', OthersKept', rem' = rem
  PROVE  CpInv'
<1>1. ASSUME NEW q \in Removers
      PROVE  Removal(rem[q], asked', rows' \cup gone', members')
  <2>1. Removal(rem[q], asked, rows \cup gone, members)
    BY DEF CpInv
  <2> QED BY <2>1, RemovalKept DEF CpGrows
<1> QED BY <1>1 DEF CpInv

-----------------------------------------------------------------------------
(* Control planes: one lemma for each sort of step *)

\* A machine that joins is new; one that is terminated was handed on.
LEMMA HostSteps ==
  ASSUME CpInv, NEW h \in Hosts1, Join(h) \/ TerminateHost(h)
  PROVE  CpInv'
<1>1. CASE Join(h)
  <2>1. CpGrows /\ RemovedIsOut' /\ OthersKept' /\ rem' = rem
    BY <1>1 DEF Join, CpGrows, CpInv, RemovedIsOut, OthersKept
  <2> QED BY <2>1, NoRemoval
<1>2. CASE TerminateHost(h)
  <2>1. CpGrows /\ RemovedIsOut' /\ OthersKept' /\ rem' = rem
    BY <1>2 DEF TerminateHost, CpGrows, CpInv, RemovedIsOut, OthersKept
  <2> QED BY <2>1, NoRemoval
<1> QED BY <1>1, <1>2

\* The calls of a removal that only read, or fail.
LEMMA RemovalReads ==
  ASSUME CpInv, NEW r \in Removers,
         \/ \E S \in SUBSET Hosts1 : RequestDeleteMachines(r, S)
         \/ GetClusterEtcdClient(r) \/ GetKubeadmClusterStatus(r) \/ getKubeadmConfigmap(r)
         \/ CpFails(r)
  PROVE  CpInv'
<1>0. /\ Removal(rem[r], asked, rows \cup gone, members)
      /\ DOMAIN rem = Removers
  BY DEF CpInv
<1>s. ASSUME NEW v, rem' = [rem EXCEPT ![r] = v], asked \subseteq asked',
             UNCHANGED <<rows, members, status, gone, lapped>>,
             Removal(v, asked', rows \cup gone, members)
      PROVE  CpInv'
  <2>1. CpGrows /\ RemovedIsOut' /\ OthersKept'
    BY <1>s DEF CpGrows, CpInv, RemovedIsOut, OthersKept
  <2> QED BY <1>s, <2>1, OneRemoval
<1>1. ASSUME NEW S \in SUBSET Hosts1, RequestDeleteMachines(r, S)
      PROVE  CpInv'
  <2> DEFINE v == [NoRem EXCEPT !.pc = "open", !.ms = S, !.todo = S \ {FirstHost}]
  <2>1. rem' = [rem EXCEPT ![r] = v] /\ asked' = asked \cup S /\ S \subseteq rows
        /\ UNCHANGED <<rows, members, status, gone, lapped>>
    BY <1>1 DEF RequestDeleteMachines
  <2>2. v = [pc |-> "open", ms |-> S, todo |-> S \ {FirstHost}, copy |-> {}, ver |-> 0]
    <3> DEFINE a == [NoRem EXCEPT !.pc = "open"]
               b == [a EXCEPT !.ms = S]
    <3>1. a = [pc |-> "open", ms |-> {}, todo |-> {}, copy |-> {}, ver |-> 0]
      BY DEF NoRem
    <3> HIDE DEF a
    <3>2. b = [pc |-> "open", ms |-> S, todo |-> {}, copy |-> {}, ver |-> 0]
      BY <3>1
    <3>3. v = [b EXCEPT !.todo = S \ {FirstHost}]
      BY DEF a
    <3> HIDE DEF b
    <3> QED BY <3>2, <3>3
  <2> HIDE DEF v
  <2>3. Removal(v, asked', rows \cup gone, members)
    BY <2>1, <2>2 DEF Removal, RemPCs
  <2> QED BY <2>1, <2>3, <1>s
<1>2. CASE GetClusterEtcdClient(r)
  <2> DEFINE v == [rem[r] EXCEPT !.pc = "status"]
  <2>1. rem' = [rem EXCEPT ![r] = v] /\ asked' = asked /\ rem[r].pc = "open"
        /\ UNCHANGED <<rows, members, status, gone, lapped>>
    BY <1>0, <1>2 DEF GetClusterEtcdClient
  <2>2. Removal(v, asked', rows \cup gone, members)
    BY <1>0, <2>1 DEF Removal, RemPCs
  <2> HIDE DEF v
  <2> QED BY <2>1, <2>2, <1>s
<1>3. CASE GetKubeadmClusterStatus(r)
  <2> DEFINE v == [[rem[r] EXCEPT !.pc = "members"] EXCEPT !.copy = status]
  <2>1. rem' = [rem EXCEPT ![r] = v] /\ asked' = asked /\ rem[r].pc = "status"
        /\ UNCHANGED <<rows, members, status, gone, lapped>>
    BY <1>0, <1>3 DEF GetKubeadmClusterStatus
  <2>3. v = [pc |-> "members", ms |-> rem[r].ms, todo |-> rem[r].todo, copy |-> status,
             ver |-> rem[r].ver]
    <3> DEFINE a == [rem[r] EXCEPT !.pc = "members"]
    <3>1. a = [pc |-> "members", ms |-> rem[r].ms, todo |-> rem[r].todo, copy |-> rem[r].copy,
               ver |-> rem[r].ver]
      BY <1>0 DEF Removal
    <3>2. v = [a EXCEPT !.copy = status]
      OBVIOUS
    <3> HIDE DEF a, v
    <3> QED BY <3>1, <3>2
  <2> HIDE DEF v
  <2>2. Removal(v, asked', rows \cup gone, members)
    BY <1>0, <2>1, <2>3 DEF Removal, RemPCs
  <2> QED BY <2>1, <2>2, <1>s
<1>4. CASE getKubeadmConfigmap(r)
  <2> DEFINE v == [[rem[r] EXCEPT !.pc = "write"] EXCEPT !.ver = mapVer]
  <2>1. rem' = [rem EXCEPT ![r] = v] /\ asked' = asked /\ rem[r].pc = "members"
        /\ rem[r].todo = {} /\ UNCHANGED <<rows, members, status, gone, lapped>>
    BY <1>0, <1>4 DEF getKubeadmConfigmap
  <2>3. v = [pc |-> "write", ms |-> rem[r].ms, todo |-> rem[r].todo, copy |-> rem[r].copy,
             ver |-> mapVer]
    <3> DEFINE a == [rem[r] EXCEPT !.pc = "write"]
    <3>1. a = [pc |-> "write", ms |-> rem[r].ms, todo |-> rem[r].todo, copy |-> rem[r].copy,
               ver |-> rem[r].ver]
      BY <1>0 DEF Removal
    <3>2. v = [a EXCEPT !.ver = mapVer]
      OBVIOUS
    <3> HIDE DEF a, v
    <3> QED BY <3>1, <3>2
  <2> HIDE DEF v
  <2>2. Removal(v, asked', rows \cup gone, members)
    BY <1>0, <2>1, <2>3 DEF Removal, RemPCs
  <2> QED BY <2>1, <2>2, <1>s
<1>5. CASE CpFails(r)
  <2> DEFINE v == [NoRem EXCEPT !.pc = "failed"]
  <2>1. rem' = [rem EXCEPT ![r] = v] /\ asked' = asked
        /\ UNCHANGED <<rows, members, status, gone, lapped>>
    BY <1>5 DEF CpFails
  <2>2. Removal(v, asked', rows \cup gone, members)
    BY RestingRemoval
  <2> HIDE DEF v
  <2> QED BY <2>1, <2>2, <1>s
<1> QED BY <1>1, <1>2, <1>3, <1>4, <1>5

\* The calls that take a machine out of etcd.
LEMMA RemovalTakes ==
  ASSUME CpInv, NEW r \in Removers, RemoveEtcdMember(r) \/ MemberFails(r)
  PROVE  CpInv'
<1>0. /\ Removal(rem[r], asked, rows \cup gone, members)
      /\ DOMAIN rem = Removers
  BY DEF CpInv
<1>s. ASSUME NEW m \in rem[r].todo, members' \in {members, members \ {m}},
             UNCHANGED <<rows, status, gone, lapped, asked>>
      PROVE  CpGrows /\ RemovedIsOut' /\ OthersKept'
  <2>1. m \in asked
    BY <1>0 DEF Removal
  <2> QED BY <1>s, <2>1 DEF CpGrows, CpInv, RemovedIsOut, OthersKept
<1>1. CASE RemoveEtcdMember(r)
  <2>1. PICK m \in rem[r].todo :
          /\ members' = members \ {m}
          /\ rem' = [rem EXCEPT ![r].copy = @ \ {m}, ![r].todo = @ \ {m}]
    BY <1>1 DEF RemoveEtcdMember
  <2> DEFINE v == [[rem[r] EXCEPT !.copy = rem[r].copy \ {m}] EXCEPT !.todo = rem[r].todo \ {m}]
  <2>2. rem' = [rem EXCEPT ![r] = v]
    BY <1>0, <2>1
  <2>3. UNCHANGED <<rows, status, gone, lapped, asked>> /\ rem[r].pc = "members"
    BY <1>1 DEF RemoveEtcdMember
  <2>4. Removal(v, asked', rows' \cup gone', members')
    BY <1>0, <2>1, <2>3 DEF Removal, RemPCs
  <2> HIDE DEF v
  <2>5. CpGrows /\ RemovedIsOut' /\ OthersKept'
    BY <1>s, <2>1, <2>3
  <2> QED BY <2>2, <2>4, <2>5, OneRemoval
<1>2. CASE MemberFails(r)
  <2>1. PICK m \in rem[r].todo : members' \in {members, members \ {m}}
    BY <1>2 DEF MemberFails
  <2> DEFINE v == [NoRem EXCEPT !.pc = "failed"]
  <2>2. rem' = [rem EXCEPT ![r] = v] /\ UNCHANGED <<rows, status, gone, lapped, asked>>
    BY <1>2 DEF MemberFails
  <2>3. Removal(v, asked', rows' \cup gone', members')
    BY RestingRemoval
  <2> HIDE DEF v
  <2>4. CpGrows /\ RemovedIsOut' /\ OthersKept'
    BY <1>s, <2>1, <2>2
  <2> QED BY <2>2, <2>3, <2>4, OneRemoval
<1> QED BY <1>1, <1>2

\* The copy is written back, and the machines are handed to the batch task: a machine
\* that the copy hides or revives is remembered.
LEMMA RemovalWrites ==
  ASSUME CpInv, NEW r \in Removers, updateKubeadmClusterStatus(r)
  PROVE  CpInv'
<1>0. /\ Removal(rem[r], asked, rows \cup gone, members)
      /\ DOMAIN rem = Removers
  BY DEF CpInv
<1>1. CASE rem[r].ver # mapVer
  <2> DEFINE v == [NoRem EXCEPT !.pc = "failed"]
  <2>1. rem' = [rem EXCEPT ![r] = v]
        /\ UNCHANGED <<rows, members, status, gone, lapped, asked>>
    BY <1>1 DEF updateKubeadmClusterStatus
  <2>2. Removal(v, asked', rows' \cup gone', members')
    BY RestingRemoval
  <2> HIDE DEF v
  <2>3. CpGrows /\ RemovedIsOut' /\ OthersKept'
    BY <2>1 DEF CpGrows, CpInv, RemovedIsOut, OthersKept
  <2> QED BY <2>1, <2>2, <2>3, OneRemoval
<1>2. CASE rem[r].ver = mapVer
  <2>1. /\ rem[r].pc = "write" /\ rem' = [rem EXCEPT ![r] = NoRem]
        /\ status' = rem[r].copy /\ gone' = gone \cup rem[r].ms
        /\ lapped' = lapped \cup (rem[r].copy \ status)
                            \cup ((status \ rem[r].copy) \ rem[r].ms)
        /\ UNCHANGED <<rows, members, asked>>
    BY <1>2 DEF updateKubeadmClusterStatus
  <2>2. /\ rem[r].ms \subseteq asked
        /\ \A m \in rem[r].ms \ {FirstHost} : m \notin members /\ m \notin rem[r].copy
    BY <1>0, <2>1 DEF Removal
  <2>3. RemovedIsOut'
    BY <2>1, <2>2 DEF CpInv, RemovedIsOut
  <2>4. OthersKept'
    BY <2>1, <2>2 DEF CpInv, OthersKept
  <2>5. CpGrows
    BY <2>1 DEF CpGrows
  <2>6. Removal(NoRem, asked', rows' \cup gone', members')
    BY RestingRemoval
  <2> QED BY <2>1, <2>3, <2>4, <2>5, <2>6, OneRemoval
<1> QED BY <1>1, <1>2

\* Every step of the control planes.
LEMMA CpStepKeeps ==
  ASSUME CpInv, CpNext
  PROVE  CpInv'
BY HostSteps, RemovalReads, RemovalTakes, RemovalWrites DEF CpNext

\* The steps of the others leave the control planes alone.
LEMMA CpStutter ==
  ASSUME CpInv, UNCHANGED cpAll
  PROVE  CpInv'
<1>1. CpGrows /\ RemovedIsOut' /\ OthersKept' /\ rem' = rem
  BY DEF cpAll, CpGrows, CpInv, RemovedIsOut, OthersKept
<1> QED BY <1>1, NoRemoval

-----------------------------------------------------------------------------
(* Key pairs: the inductive invariant *)

\* The pair of each user and its joint row.
PairOf(i) ==
  LET made == IF Users[i] = "sa" THEN GetOrGenerateServiceAccountKeys(i) ELSE GetOrGenerateCACert(i)
  IN [id |-> i, user |-> Users[i], cert |-> made.cert, key |-> made.key]
TieOf(i) == [kp |-> i, user |-> Users[i]]
Has(i) == PairOf(i) \in kps
Tied(i) == TieOf(i) \in ties

\* What callers may sign with the first pair.
Confs == {NewKubeconfig(k, PairOf(1).cert, PairOf(1).key) : k \in CallerKeys}

\* The rows are those of the users.  One without a joint row is the row under work, or
\* is lost.
PairsOK ==
  /\ \A k \in kps : \E i \in 1..4 : k = PairOf(i)
  /\ \A t \in ties : \E i \in 1..4 : t = TieOf(i)
  /\ \A i \in 1..4 : /\ Tied(i) => Has(i)
                     /\ Has(i) /\ ~Tied(i) => i \in lost \/ at.user = i

\* Where the task that holds the lock is.
WorkOK ==
  /\ cluster \in {"creating", "ready", "failed", "deleting", "gone"}
  /\ at = [user |-> at.user, made |-> at.made] /\ at.made \in BOOLEAN
  /\ cluster = "creating" =>
       /\ at.user \in 1..4
       /\ \A i \in 1..4 : /\ Tied(i) <=> i < at.user
                          /\ Has(i) <=> (i < at.user \/ (i = at.user /\ at.made))
  /\ cluster \notin {"creating", "deleting"} => at = NoWork
  /\ cluster = "ready" => \A i \in 1..4 : Tied(i)
  /\ cluster = "deleting" =>
       /\ kpTodo \subseteq kps
       /\ \A i \in 1..4 : Tied(i) => PairOf(i) \in kpTodo
       /\ at # NoWork => \E i \in 1..4 : at.user = i /\ PairOf(i) \in kpTodo /\ ~Tied(i)
  /\ cluster = "gone" => ties = {} /\ \A i \in 1..4 : Has(i) => i \in lost

\* A reader has the pairs it read so far; what is signed and stored is one of the
\* kubeconfigs.
ReadOK ==
  /\ reader = [next |-> reader.next, got |-> reader.got] /\ reader.next \in 0..5
  /\ reader.next < 5 => reader.got = {PairOf(i) : i \in 1..reader.next}
  /\ reader.next = 5 => reader.got = {}
  /\ signed \subseteq Confs /\ (conf = NoConf \/ conf \in Confs)

KpInv == PairsOK /\ WorkOK /\ ReadOK

\* The users are four, and each has its pair and its joint row.
LEMMA PairFacts ==
  /\ Len(Users) = 4 /\ Users[1] = "ca"
  /\ \A i, j \in 1..4 : Users[i] = Users[j] => i = j
  /\ \A i : /\ PairOf(i).id = i /\ PairOf(i).user = Users[i]
            /\ TieOf(i).kp = i /\ TieOf(i).user = Users[i]
<1>1. Len(Users) = 4 /\ Users[1] = "ca" /\ Users[2] = "etcd" /\ Users[3] = "proxy" /\ Users[4] = "sa"
  BY DEF Users
<1>2. \A i \in 1..4 : i = 1 \/ i = 2 \/ i = 3 \/ i = 4
  OBVIOUS
<1>3. \A i, j \in 1..4 : Users[i] = Users[j] => i = j
  BY <1>1, <1>2
<1>4. \A i : /\ PairOf(i).id = i /\ PairOf(i).user = Users[i]
             /\ TieOf(i).kp = i /\ TieOf(i).user = Users[i]
  BY DEF PairOf, TieOf
<1> QED BY <1>1, <1>3, <1>4

\* The first pair is an authority of its own, and decodes.
LEMMA AuthorityFacts ==
  /\ PairOf(1).cert = Pem("CERTIFICATE", 1, 1, TRUE, {}) /\ PairOf(1).key = 1
  /\ \A c \in Confs : /\ c # NoConf
                      /\ c.cert.pub = c.key /\ c.cert.signer = 1
                      /\ c.ca = Pem("CERTIFICATE", 1, 1, TRUE, {})
                      /\ c.cert.ca = FALSE /\ "client" \in c.cert.usages
<1>1. PairOf(1).cert = Pem("CERTIFICATE", 1, 1, TRUE, {}) /\ PairOf(1).key = 1
  <2>1. Users[1] = "ca"
    BY PairFacts
  <2> QED BY <2>1 DEF PairOf, GetOrGenerateCACert, NewSelfSignedCACert
<1>2. ASSUME NEW k \in CallerKeys
      PROVE  NewKubeconfig(k, PairOf(1).cert, PairOf(1).key) =
               [ca |-> Pem("CERTIFICATE", 1, 1, TRUE, {}),
                cert |-> Pem("CERTIFICATE", k, 1, FALSE, {"client"}), key |-> k]
  <2> DEFINE cfg == [name |-> "kubernetes-admin", usages |-> {"client"}, years |-> 100]
  <2>1. NewSignedCert(cfg, k, 1) = [err |-> FALSE, cert |-> Pem("CERTIFICATE", k, 1, FALSE, {"client"})]
    BY DEF NewSignedCert
  <2>2. NewKubeconfig(k, PairOf(1).cert, 1) = NewKubeconfigV2(cfg, k, PairOf(1).cert, 1)
    BY DEF NewKubeconfig
  <2> HIDE DEF cfg
  <2>3. NewKubeconfigV2(cfg, k, PairOf(1).cert, 1) =
          [ca |-> PairOf(1).cert, cert |-> Pem("CERTIFICATE", k, 1, FALSE, {"client"}), key |-> k]
    <3> DEFINE s == NewSignedCert(cfg, k, 1)
    <3>1. ~s.err /\ s.cert = Pem("CERTIFICATE", k, 1, FALSE, {"client"})
      <4> DEFINE c == Pem("CERTIFICATE", k, 1, FALSE, {"client"})
      <4>1. s = [err |-> FALSE, cert |-> c]
        BY <2>1
      <4> HIDE DEF c, s
      <4>2. ~s.err
        BY <4>1, Zenon
      <4>3. s.cert = c
        BY <4>1
      <4> QED BY <4>2, <4>3 DEF c
    <3>2. NewKubeconfigV2(cfg, k, PairOf(1).cert, 1) =
            IF s.err THEN NoConf ELSE [ca |-> PairOf(1).cert, cert |-> s.cert, key |-> k]
      BY DEF NewKubeconfigV2
    <3> HIDE DEF s
    <3>3. (IF s.err THEN NoConf ELSE [ca |-> PairOf(1).cert, cert |-> s.cert, key |-> k])
            = [ca |-> PairOf(1).cert, cert |-> s.cert, key |-> k]
      BY <3>1
    <3> QED BY <3>1, <3>2, <3>3
  <2>4. NewKubeconfig(k, PairOf(1).cert, PairOf(1).key) = NewKubeconfig(k, PairOf(1).cert, 1)
    BY <1>1
  <2> QED BY <1>1, <2>2, <2>3, <2>4
<1>3. ASSUME NEW c \in Confs
      PROVE  /\ c # NoConf
             /\ c.cert.pub = c.key /\ c.cert.signer = 1
             /\ c.ca = Pem("CERTIFICATE", 1, 1, TRUE, {})
             /\ c.cert.ca = FALSE /\ "client" \in c.cert.usages
  <2>1. PICK k \in CallerKeys :
          c = [ca |-> Pem("CERTIFICATE", 1, 1, TRUE, {}),
               cert |-> Pem("CERTIFICATE", k, 1, FALSE, {"client"}), key |-> k]
    BY <1>2 DEF Confs
  <2>2. c.key = k /\ k # 0 /\ NoConf.key = 0
    BY <2>1 DEF CallerKeys, NoConf
  <2> QED BY <2>1, <2>2 DEF Pem
<1> QED BY <1>1, <1>3

\* At first there is no pair.
LEMMA KpInitHolds ==
  ASSUME KpInit
  PROVE  KpInv
BY DEF KpInit, KpInv, PairsOK, WorkOK, ReadOK, NoReader, Has, Tied

\* What the steps of the lock's holder leave to the readers.
Unread == UNCHANGED <<reader, conf, signed>>

\* They keep what the readers have.
LEMMA UnreadKeeps ==
  ASSUME ReadOK, Unread
  PROVE  ReadOK'
BY DEF ReadOK, Unread

\* Making a pair: the row, then the joint row; a failure between loses the row.
LEMMA GenerateKeeps ==
  ASSUME KpInv, CreateRow \/ AttachKeypair \/ GenerateFails
  PROVE  PairsOK' /\ WorkOK' /\ Unread
<1> USE PairFacts DEF KpInv, Has, Tied
<1>1. cluster = "creating" /\ at.user \in 1..4 /\ at.made \in BOOLEAN
      /\ at = [user |-> at.user, made |-> at.made]
  BY DEF CreateRow, AttachKeypair, GenerateFails, WorkOK
<1>2. CASE CreateRow
  <2>1. kps' = kps \cup {PairOf(at.user)} /\ ~at.made
    BY <1>2 DEF CreateRow, PairOf
  <2>2. at' = [user |-> at.user, made |-> TRUE]
    BY <1>1, <1>2 DEF CreateRow
  <2>3. UNCHANGED <<ties, cluster, kpTodo, reader, lost>> /\ Unread
    BY <1>2 DEF CreateRow, Step, Unread
  <2>4. \A i \in 1..4 : Has(i)' <=> Has(i) \/ i = at.user
    BY <2>1
  <2>5. PairsOK'
    BY <1>1, <2>1, <2>2, <2>3, <2>4 DEF PairsOK
  <2>6. WorkOK'
    BY <1>1, <2>1, <2>2, <2>3, <2>4 DEF WorkOK
  <2> QED BY <2>3, <2>5, <2>6
<1>3. CASE AttachKeypair
  <2>1. /\ ties' = ties \cup {TieOf(at.user)} /\ at.made
        /\ IF at.user = 4 THEN cluster' = "ready" /\ at' = NoWork
           ELSE cluster' = cluster /\ at' = [user |-> at.user + 1, made |-> FALSE]
    BY <1>3 DEF AttachKeypair, TieOf
  <2>2. UNCHANGED <<kps, kpTodo, reader, lost>> /\ Unread
    BY <1>3 DEF AttachKeypair, Step, Unread
  <2>3. \A i \in 1..4 : Tied(i)' <=> Tied(i) \/ i = at.user
    BY <2>1
  <2>4. \A i \in 1..4 : (Tied(i) <=> i < at.user) /\ (Has(i) <=> i <= at.user)
    BY <1>1, <2>1 DEF WorkOK
  <2>5. PairsOK'
    <3>1. \A i \in 1..4 : Has(i) => Tied(i)'
      BY <1>1, <2>3, <2>4
    <3> QED BY <1>1, <2>1, <2>2, <2>3, <2>4, <3>1 DEF PairsOK
  <2>6. WorkOK'
    <3>1. CASE at.user = 4
      <4>1. \A i \in 1..4 : Tied(i)'
        BY <2>3, <2>4, <3>1
      <4>2. cluster' = "ready" /\ at' = [user |-> 0, made |-> FALSE] /\ at' = NoWork
        BY <2>1, <3>1 DEF NoWork
      <4> QED BY <4>1, <4>2 DEF WorkOK
    <3>2. CASE at.user # 4
      <4>1. at' = [user |-> at.user + 1, made |-> FALSE] /\ cluster' = "creating"
        BY <1>1, <2>1, <3>2
      <4>2. \A i \in 1..4 : (Tied(i)' <=> i < at.user + 1) /\ (Has(i)' <=> i < at.user + 1)
        BY <1>1, <2>2, <2>3, <2>4
      <4>3. at.user + 1 \in 1..4
        BY <1>1, <3>2
      <4> QED BY <4>1, <4>2, <4>3 DEF WorkOK
    <3> QED BY <3>1, <3>2
  <2> QED BY <2>2, <2>5, <2>6
<1>4. CASE GenerateFails
  <2>1. /\ cluster' = "failed" /\ at' = NoWork
        /\ lost' = IF at.made THEN lost \cup {at.user} ELSE lost
        /\ UNCHANGED <<kps, ties, kpTodo, reader>> /\ Unread
    BY <1>4 DEF GenerateFails, Fault, Unread
  <2>2. PairsOK'
    <3>1. \A i \in 1..4 : Has(i) /\ ~Tied(i) => i \in lost'
      BY <1>1, <2>1 DEF PairsOK, WorkOK
    <3> QED BY <2>1, <3>1 DEF PairsOK
  <2>3. WorkOK'
    BY <2>1 DEF WorkOK, NoWork
  <2> QED BY <2>1, <2>2, <2>3
<1> QED BY <1>2, <1>3, <1>4

\* Removing the pairs: the joint row, then the row; a failure between loses the row.
LEMMA DrainKeeps ==
  ASSUME KpInv, DeleteStart \/ Detach \/ DeleteRow \/ DeleteFails \/ RealDelete
  PROVE  PairsOK' /\ WorkOK' /\ Unread
<1> USE PairFacts DEF KpInv, Has, Tied
<1>1. CASE DeleteStart
  <2>1. /\ cluster \in {"ready", "failed"} /\ cluster' = "deleting" /\ at' = NoWork
        /\ kpTodo' = {k \in kps : \E t \in ties : t.kp = k.id}
        /\ UNCHANGED <<kps, ties, lost>> /\ Unread /\ at = NoWork
    BY <1>1 DEF DeleteStart, Step, Unread, WorkOK
  <2>2. \A i \in 1..4 : Tied(i) => PairOf(i) \in kpTodo'
    BY <2>1 DEF PairsOK
  <2>3. PairsOK'
    BY <2>1 DEF PairsOK
  <2>4. WorkOK'
    BY <2>1, <2>2 DEF WorkOK, NoWork
  <2> QED BY <2>1, <2>3, <2>4
<1>2. CASE Detach
  <2>1. PICK k \in kpTodo : /\ ties' = {t \in ties : t.kp # k.id}
                            /\ at' = [user |-> k.id, made |-> TRUE]
    BY <1>2 DEF Detach
  <2>2. /\ cluster = "deleting" /\ at = NoWork /\ UNCHANGED <<kps, cluster, kpTodo, lost>>
        /\ Unread
    BY <1>2 DEF Detach, Step, Unread
  <2>3. PICK j \in 1..4 : k = PairOf(j)
    BY <2>1, <2>2 DEF WorkOK, PairsOK
  <2>4. \A i \in 1..4 : Tied(i)' <=> Tied(i) /\ i # j
    BY <2>1, <2>3
  <2>5. at.user = 0 /\ at'.user = j
    BY <2>1, <2>2, <2>3 DEF NoWork
  <2>6. PairsOK'
    BY <2>1, <2>2, <2>4, <2>5 DEF PairsOK
  <2>7. WorkOK'
    BY <2>1, <2>2, <2>3, <2>4 DEF WorkOK
  <2> QED BY <2>2, <2>6, <2>7
<1>3. CASE DeleteRow
  <2>1. /\ cluster = "deleting" /\ at # NoWork
        /\ kps' = {k \in kps : k.id # at.user} /\ kpTodo' = {k \in kpTodo : k.id # at.user}
        /\ at' = NoWork /\ UNCHANGED <<ties, cluster, lost>> /\ Unread
    BY <1>3 DEF DeleteRow, Step, Unread
  <2>2. PICK j \in 1..4 : at.user = j /\ PairOf(j) \in kpTodo /\ ~Tied(j)
    BY <2>1 DEF WorkOK
  <2>3. \A i \in 1..4 : /\ Has(i)' <=> Has(i) /\ i # j
                        /\ PairOf(i) \in kpTodo' <=> PairOf(i) \in kpTodo /\ i # j
    BY <2>1, <2>2
  <2>4. ~Tied(j)
    BY <2>2
  <2>5. PairsOK'
    BY <2>1, <2>2, <2>3, <2>4 DEF PairsOK
  <2>6. WorkOK'
    BY <2>1, <2>2, <2>3, <2>4 DEF WorkOK, NoWork
  <2> QED BY <2>1, <2>5, <2>6
<1>4. CASE DeleteFails
  <2>1. /\ cluster = "deleting" /\ cluster' = "failed" /\ at' = NoWork
        /\ lost' = IF at = NoWork THEN lost ELSE lost \cup {at.user}
        /\ UNCHANGED <<kps, ties>> /\ Unread
    BY <1>4 DEF DeleteFails, Fault, Unread
  <2>2. \A i \in 1..4 : Has(i) /\ ~Tied(i) => i \in lost'
    <3>1. at = NoWork => at.user = 0
      BY DEF NoWork
    <3> QED BY <2>1, <3>1 DEF PairsOK
  <2>3. PairsOK'
    BY <2>1, <2>2 DEF PairsOK
  <2>4. WorkOK'
    BY <2>1 DEF WorkOK, NoWork
  <2> QED BY <2>1, <2>3, <2>4
<1>5. CASE RealDelete
  <2>1. /\ cluster = "deleting" /\ kpTodo = {} /\ cluster' = "gone"
        /\ UNCHANGED <<kps, ties, at, kpTodo, lost>> /\ Unread
    BY <1>5 DEF RealDelete, Step, Unread
  <2>2. at = NoWork /\ \A i \in 1..4 : ~Tied(i)
    BY <2>1 DEF WorkOK
  <2>3. ties = {}
    BY <2>2 DEF PairsOK
  <2>4. \A i \in 1..4 : Has(i) => i \in lost
    BY <2>2 DEF PairsOK, NoWork
  <2>5. PairsOK' /\ WorkOK'
    BY <2>1, <2>2, <2>3, <2>4 DEF PairsOK, WorkOK, NoWork
  <2> QED BY <2>1, <2>5
<1> QED BY <1>1, <1>2, <1>3, <1>4, <1>5

\* The readers, and the callers who sign, leave the rows and the work alone: each pair is
\* read from its joint row, and the only pair of the authority signs.
LEMMA ReadersKeep ==
  ASSUME KpInv,
         \/ Read \/ ReadAgain \/ SetKubeconfig
         \/ \E k \in CallerKeys : GetKubeconfigByCerts(k)
  PROVE  KpInv'
<1> USE PairFacts DEF KpInv, Has, Tied
<1>s. ASSUME UNCHANGED <<kps, ties, cluster, at, kpTodo, lost>>
      PROVE  PairsOK' /\ WorkOK'
  BY <1>s DEF PairsOK, WorkOK
<1>1. CASE Read
  <2> DEFINE n == reader.next
             found == {k \in kps : \E t \in ties : t.user = Users[n + 1] /\ t.kp = k.id}
  <2>1. /\ n \in 0..3 /\ reader.got = {PairOf(i) : i \in 1..n}
        /\ reader' = IF found = {} THEN [next |-> 5, got |-> {}]
                     ELSE [next |-> n + 1, got |-> reader.got \cup found]
        /\ UNCHANGED <<kps, ties, cluster, at, kpTodo, lost, conf, signed>>
    BY <1>1 DEF Read, Step, ReadOK
  <2>2. found \subseteq {PairOf(n + 1)}
    <3> SUFFICES ASSUME NEW k \in found
                 PROVE  k = PairOf(n + 1)
      OBVIOUS
    <3>1. PICK t \in ties : t.user = Users[n + 1] /\ t.kp = k.id
      OBVIOUS
    <3>2. PICK i \in 1..4 : k = PairOf(i)
      BY DEF PairsOK
    <3>3. PICK j \in 1..4 : t = TieOf(j)
      BY DEF PairsOK
    <3>4. n + 1 \in 1..4
      BY <2>1
    <3>5. j = n + 1 /\ i = j
      BY <3>1, <3>2, <3>3, <3>4
    <3> QED BY <3>2, <3>5
  <2>3. CASE found = {}
    <3>1. reader' = [next |-> 5, got |-> {}]
      BY <2>1, <2>3
    <3> HIDE DEF found
    <3>2. reader'.next = 5 /\ reader'.got = {}
          /\ reader' = [next |-> reader'.next, got |-> reader'.got]
      BY <3>1
    <3>3. ReadOK'
      BY <2>1, <3>2 DEF ReadOK
    <3> QED BY <2>1, <3>3, <1>s
  <2>4. CASE found # {}
    <3>1. found = {PairOf(n + 1)}
      BY <2>2, <2>4
    <3> HIDE DEF found
    <3>2. reader' = [next |-> n + 1, got |-> {PairOf(i) : i \in 1..n} \cup {PairOf(n + 1)}]
      BY <2>1, <2>4, <3>1
    <3>3. {PairOf(i) : i \in 1..n} \cup {PairOf(n + 1)} = {PairOf(i) : i \in 1..(n + 1)}
      <4>1. 1..(n + 1) = 1..n \cup {n + 1}
        BY <2>1
      <4> QED BY <4>1
    <3>4. /\ reader'.next = n + 1 /\ reader'.got = {PairOf(i) : i \in 1..(n + 1)}
          /\ reader' = [next |-> reader'.next, got |-> reader'.got]
      BY <3>2, <3>3
    <3>5. n + 1 \in 0..5 /\ n + 1 # 5
      BY <2>1
    <3> HIDE DEF n
    <3>6. ReadOK'
      BY <2>1, <3>4, <3>5 DEF ReadOK
    <3> QED BY <2>1, <3>6, <1>s
  <2> QED BY <2>3, <2>4
<1>2. CASE ReadAgain
  <2>1. /\ reader' = [next |-> 0, got |-> {}]
        /\ UNCHANGED <<kps, ties, cluster, at, kpTodo, lost, conf, signed>>
    BY <1>2 DEF ReadAgain, Step, NoReader
  <2>2. {PairOf(i) : i \in 1..0} = {}
    OBVIOUS
  <2>3. ReadOK'
    BY <2>1, <2>2 DEF ReadOK
  <2> QED BY <2>1, <2>3, <1>s
<1>3. CASE SetKubeconfig
  <2>1. /\ \E c \in signed : conf' = c /\ signed' = signed \ {c}
        /\ UNCHANGED <<kps, ties, cluster, at, kpTodo, reader, lost>>
    BY <1>3 DEF SetKubeconfig
  <2>2. ReadOK'
    BY <2>1 DEF ReadOK
  <2> QED BY <2>1, <2>2, <1>s
<1>4. ASSUME NEW k \in CallerKeys, GetKubeconfigByCerts(k)
      PROVE  KpInv'
  <2>1. PICK p \in kps : p.user = "ca" /\ signed' = signed \cup {NewKubeconfig(k, p.cert, p.key)}
    BY <1>4 DEF GetKubeconfigByCerts
  <2>2. UNCHANGED <<kps, ties, cluster, at, kpTodo, reader, lost, conf>>
    BY <1>4 DEF GetKubeconfigByCerts
  <2>3. p = PairOf(1)
    BY <2>1 DEF PairsOK
  <2>4. NewKubeconfig(k, p.cert, p.key) \in Confs
    BY <2>3 DEF Confs
  <2>5. signed' \subseteq Confs
    BY <2>1, <2>4 DEF ReadOK
  <2>6. ReadOK'
    BY <2>2, <2>5 DEF ReadOK
  <2> QED BY <2>2, <2>6, <1>s
<1> QED BY <1>1, <1>2, <1>3, <1>4

\* Every step of the key pairs.
LEMMA KpStepKeeps ==
  ASSUME KpInv, KpNext
  PROVE  KpInv'
BY GenerateKeeps, DrainKeeps, UnreadKeeps, ReadersKeep DEF KpNext, KpInv

\* The steps of the others leave the key pairs alone.
LEMMA KpStutter ==
  ASSUME KpInv, UNCHANGED keyAll
  PROVE  KpInv'
BY DEF keyAll, KpInv, PairsOK, WorkOK, ReadOK, Has, Tied

\* There are four users.
LEMMA FourCount == IsFiniteSet(1..4) /\ Cardinality(1..4) = 4
<1>1. \A a, b \in Int : /\ IsFiniteSet(a..b)
                         /\ Cardinality(a..b) = IF a > b THEN 0 ELSE b-a+1
  BY FS_Interval
<1>2. 1 \in Int /\ 4 \in Int
  OBVIOUS
<1>3. IsFiniteSet(1..4) /\ Cardinality(1..4) = IF 1 > 4 THEN 0 ELSE 4 - 1 + 1
  BY <1>1, <1>2
<1>4. (IF 1 > 4 THEN 0 ELSE 4 - 1 + 1) = 4
  OBVIOUS
<1> QED BY <1>3, <1>4

\* What the invariant says of a group, of a cluster that is gone, and of a kubeconfig.
LEMMA KpSound ==
  ASSUME KpInv
  PROVE  KeyPairsSound
<1> USE PairFacts DEF KpInv
<1>1. ASSUME reader.next = Len(Users)
      PROVE  {k.user : k \in reader.got} = {Users[i] : i \in 1..4} /\ Cardinality(reader.got) = 4
  <2>1. reader.got = {PairOf(i) : i \in 1..4}
    BY <1>1 DEF ReadOK
  <2>2. {k.user : k \in reader.got} = {Users[i] : i \in 1..4}
    BY <2>1
  <2> DEFINE f == [i \in 1..4 |-> PairOf(i)]
  <2>3. f \in Bijection(1..4, reader.got)
    <3>1. \A i, j \in 1..4 : f[i] = f[j] => i = j
      BY PairFacts
    <3>2. f \in [1..4 -> reader.got] /\ \A k \in reader.got : \E i \in 1..4 : f[i] = k
      BY <2>1
    <3> HIDE DEF f
    <3> QED BY <3>1, <3>2 DEF Bijection, Injection, Surjection, IsInjective
  <2>4. IsFiniteSet(1..4) /\ Cardinality(1..4) = 4
    BY FourCount
  <2>5. Cardinality(reader.got) = 4
    BY <2>3, <2>4, FS_Bijection DEF ExistsBijection
  <2> QED BY <2>2, <2>5
<1>2. ASSUME cluster = "ready", NEW i \in 1..4
      PROVE  Cardinality({t \in ties : t.user = Users[i]}) = 1
  <2>1. TieOf(i) \in ties
    BY <1>2 DEF WorkOK, Tied
  <2>2. {t \in ties : t.user = Users[i]} = {TieOf(i)}
    BY <2>1 DEF PairsOK
  <2> QED BY <2>2, FS_Singleton
<1>3. KeysDrained
  BY DEF KeysDrained, WorkOK, PairsOK, Has
<1>4. ASSUME conf # NoConf
      PROVE  /\ conf.cert.pub = conf.key /\ conf.cert.signer = conf.ca.pub
             /\ conf.ca.ca /\ ~conf.cert.ca /\ "client" \in conf.cert.usages
             /\ \A k \in reader.got : k.user = "ca" =>
                  GenerateCertificateHash(k.cert) = [err |-> FALSE, hash |-> conf.ca.pub]
  <2>1. conf \in Confs
    BY <1>4 DEF ReadOK
  <2> DEFINE ca == Pem("CERTIFICATE", 1, 1, TRUE, {})
  <2>2. /\ conf.cert.pub = conf.key /\ conf.cert.signer = 1 /\ conf.ca = ca
        /\ conf.cert.ca = FALSE /\ "client" \in conf.cert.usages
    BY <2>1, AuthorityFacts
  <2>3. ca.pub = 1 /\ ca.ca /\ ca.type = "CERTIFICATE"
    BY DEF Pem
  <2>4. GenerateCertificateHash(ca) = [err |-> FALSE, hash |-> 1]
    <3>1. DecodeCertPEM(ca) = [err |-> FALSE, cert |-> ca]
      BY <2>3 DEF DecodeCertPEM
    <3> DEFINE d == DecodeCertPEM(ca)
    <3>2. GenerateCertificateHash(ca) =
            IF d.err THEN [err |-> TRUE, hash |-> 0] ELSE [err |-> FALSE, hash |-> d.cert.pub]
      BY DEF GenerateCertificateHash
    <3> HIDE DEF ca, d
    <3>3. d = [err |-> FALSE, cert |-> ca]
      BY <3>1 DEF d
    <3>4. ~d.err
      BY <3>3, Zenon
    <3>5. d.cert = ca
      BY <3>3
    <3> QED BY <2>3, <3>2, <3>4, <3>5
  <2>5. ASSUME NEW k \in reader.got, k.user = "ca"
        PROVE  k.cert = ca
    <3>1. reader.next \in 0..5 /\ reader.next # 5
      BY <2>5 DEF ReadOK
    <3>2. PICK i \in 1..reader.next : k = PairOf(i)
      BY <3>1 DEF ReadOK
    <3>3. i = 1
      BY <2>5, <3>1, <3>2
    <3> QED BY <3>2, <3>3, AuthorityFacts
  <2> HIDE DEF ca
  <2> QED BY <2>2, <2>3, <2>4, <2>5
<1>5. GroupComplete
  BY <1>1, <1>2 DEF GroupComplete
<1>6. KubeconfigTrusted
  BY <1>4 DEF KubeconfigTrusted
<1> QED BY <1>3, <1>5, <1>6 DEF KeyPairsSound

-----------------------------------------------------------------------------
(* The work on a machine: the inductive invariant *)

Over == {"terminating", "terminate_fail", "gone"}
Held == {"loaded", "begin", "create", "script"}

\* The records: a task, and what it or a request read of the row.
RowRec(r) == r = [status |-> r.status, res |-> r.res, addr |-> r.addr]
TaskRec(t) ==
  /\ t = [id |-> t.id, kind |-> t.kind, pc |-> t.pc, copy |-> t.copy, parent |-> t.parent,
          cfg |-> t.cfg, role |-> t.role, batch |-> t.batch]
  /\ t.cfg \in BOOLEAN /\ t.role \in BOOLEAN /\ t.parent \in BOOLEAN /\ t.batch \in BOOLEAN
  /\ RowRec(t.copy) /\ t.pc \in Held \cup {"queued", "waiting"}

\* A task that has loaded the machine has the status and the server of the row; one that
\* terminates the machine is alone with it.
TaskOK(t, row) ==
  /\ TaskRec(t)
  /\ t.pc \in Held => t.copy.status = row.status /\ t.copy.res = row.res
  /\ t.kind = "terminate" => row.status \in Over
  /\ row.status = "terminating" => t.kind = "terminate"
  /\ row.status = "gone" => t.pc = "queued"

\* One task, or one that waits for the prepare task it made.
Lone(t) == ~t.parent /\ t.pc # "waiting"
Pair(u, c) ==
  /\ u.kind = "create" /\ u.pc = "waiting" /\ ~u.parent
  /\ c.kind = "prepare" /\ c.pc # "waiting" /\ c.parent /\ c.cfg
Crew(ts) ==
  \/ ts = {}
  \/ \E t \in ts : ts = {t} /\ Lone(t)
  \/ \E u, c \in ts : ts = {u, c} /\ Pair(u, c)

\* What a request has read: when the machine was being terminated then, it still is, or was.
ReqOK(q, row, ts) ==
  /\ q = [kind |-> q.kind, copy |-> q.copy]
  /\ q.kind # "none" =>
       /\ q.copy.status # "terminating" => row.status # "terminating"
       /\ q.copy.status = "terminating" => row.status \in Over /\ \A t \in ts : t.kind = "terminate"
  /\ q.kind = "create" => q.copy.status = "init"

\* A machine that runs has joined, or is prepared again; one that is made has a task; the
\* only server is the row's.
RowOK(row, ts, ss, js, od) ==
  /\ RowRec(row)
  /\ row.status = "running" =>
       \/ row.res \in ss \cap js \/ "bare" \in od
       \/ \E t \in ts : t.kind = "prepare" /\ t.pc = "script"
  /\ row.status \in {"creating", "prepare"} => ts # {} \/ "panic" \in od
  /\ (ss \subseteq {row.res} /\ (row.status = "gone" => ss = {})) \/ "again" \in od

MwCalm ==
  /\ \A t \in mtasks : TaskOK(t, mrow)
  /\ Crew(mtasks) /\ ReqOK(mreq, mrow, mtasks) /\ RowOK(mrow, mtasks, servers, joined, odd)

\* Once tasks overlapped, nothing is said.
MwInv == "lapped" \in odd \/ MwCalm

\* A status is written, unless the copy has it already; the rest of the row stays.
LEMMA StatusFacts ==
  ASSUME RowRec(mrow), NEW copy, NEW s
  PROVE  LET r == SetMachineStatus(copy, s)
         IN  /\ RowRec(r) /\ r.res = mrow.res
             /\ r.status = IF copy.status = s THEN mrow.status ELSE s
BY DEF SetMachineStatus, RowRec

\* A copy that has the status of the row.
LEMMA HeldStatusFacts ==
  ASSUME RowRec(mrow), NEW copy, copy.status = mrow.status, NEW s
  PROVE  LET r == SetMachineStatus(copy, s)
         IN  RowRec(r) /\ r.res = mrow.res /\ r.status = s
BY StatusFacts


\* A record with the fields of a task.
TaskOf(a, k, p, c, pa, cfg, role, ba) ==
  [id |-> a, kind |-> k, pc |-> p, copy |-> c, parent |-> pa, cfg |-> cfg, role |-> role, batch |-> ba]

\* Its fields.
LEMMA TaskFields ==
  ASSUME NEW a, NEW k, NEW p, NEW c, NEW pa, NEW cfg, NEW role, NEW ba
  PROVE  LET n == TaskOf(a, k, p, c, pa, cfg, role, ba)
         IN  /\ n.id = a /\ n.kind = k /\ n.pc = p /\ n.copy = c
             /\ n.parent = pa /\ n.cfg = cfg /\ n.role = role /\ n.batch = ba
             /\ n = [id |-> n.id, kind |-> n.kind, pc |-> n.pc, copy |-> n.copy, parent |-> n.parent,
                     cfg |-> n.cfg, role |-> n.role, batch |-> n.batch]
BY DEF TaskOf

\* It is a task.
LEMMA TaskOfOK ==
  ASSUME NEW a, NEW k, NEW p \in Held \cup {"queued", "waiting"}, NEW c, RowRec(c),
         NEW pa \in BOOLEAN, NEW cfg \in BOOLEAN, NEW role \in BOOLEAN, NEW ba \in BOOLEAN
  PROVE  LET n == TaskOf(a, k, p, c, pa, cfg, role, ba)
         IN  TaskRec(n) /\ n.kind = k /\ n.pc = p /\ n.copy = c /\ n.parent = pa /\ n.cfg = cfg
<1> DEFINE n == TaskOf(a, k, p, c, pa, cfg, role, ba)
<1>1. /\ n.id = a /\ n.kind = k /\ n.pc = p /\ n.copy = c
      /\ n.parent = pa /\ n.cfg = cfg /\ n.role = role /\ n.batch = ba
      /\ n = [id |-> n.id, kind |-> n.kind, pc |-> n.pc, copy |-> n.copy, parent |-> n.parent,
              cfg |-> n.cfg, role |-> n.role, batch |-> n.batch]
  BY TaskFields
<1> HIDE DEF n
<1>2. RowRec(n.copy) /\ n.pc \in Held \cup {"queued", "waiting"}
  BY <1>1
<1>3. n.parent \in BOOLEAN /\ n.cfg \in BOOLEAN /\ n.role \in BOOLEAN /\ n.batch \in BOOLEAN
  BY <1>1
<1>4. TaskRec(n)
  BY <1>1, <1>2, <1>3 DEF TaskRec
<1> QED BY <1>1, <1>4 DEF n

\* A task with another place, another kind, or another copy.
LEMMA TaskExcept ==
  ASSUME NEW t, TaskRec(t), NEW x
  PROVE  /\ [t EXCEPT !.pc = x] = TaskOf(t.id, t.kind, x, t.copy, t.parent, t.cfg, t.role, t.batch)
         /\ [t EXCEPT !.kind = x] = TaskOf(t.id, x, t.pc, t.copy, t.parent, t.cfg, t.role, t.batch)
         /\ [t EXCEPT !.copy = x] = TaskOf(t.id, t.kind, t.pc, x, t.parent, t.cfg, t.role, t.batch)
BY DEF TaskRec, TaskOf

\* What its fields are.
LEMMA WorkTypes ==
  ASSUME NEW t, TaskRec(t)
  PROVE  /\ t.cfg \in BOOLEAN /\ t.role \in BOOLEAN /\ t.parent \in BOOLEAN /\ t.batch \in BOOLEAN
         /\ RowRec(t.copy) /\ t.pc \in Held \cup {"queued", "waiting"}
BY DEF TaskRec

\* A task that is started.
LEMMA NewTaskFacts ==
  ASSUME NEW k, NEW pa \in BOOLEAN, NEW cfg \in BOOLEAN, NEW role \in BOOLEAN, NEW ba \in BOOLEAN
  PROVE  LET n == NewMachineTask(k, pa, cfg, role, ba)
         IN  TaskRec(n) /\ n.kind = k /\ n.pc = "queued" /\ n.parent = pa /\ n.cfg = cfg
<1>1. NewMachineTask(k, pa, cfg, role, ba) = TaskOf(nextTask, k, "queued", NoLoad, pa, cfg, role, ba)
  BY DEF NewMachineTask, TaskOf
<1>2. RowRec(NoLoad)
  BY DEF RowRec, NoLoad, NoReq
<1> QED BY <1>1, <1>2, TaskOfOK

\* A task takes a step of its own.
LEMMA MovedFacts ==
  ASSUME NEW t, TaskRec(t), NEW p \in Held \cup {"waiting"}
  PROVE  LET n == [t EXCEPT !.pc = p]
         IN  /\ TaskRec(n) /\ n.pc = p /\ n.kind = t.kind /\ n.copy = t.copy
             /\ n.parent = t.parent /\ n.cfg = t.cfg
<1>1. [t EXCEPT !.pc = p] = TaskOf(t.id, t.kind, p, t.copy, t.parent, t.cfg, t.role, t.batch)
  BY TaskExcept
<1> QED BY <1>1, WorkTypes, TaskOfOK

\* It has another copy.
LEMMA CopiedFacts ==
  ASSUME NEW t, TaskRec(t), NEW c, RowRec(c)
  PROVE  LET n == [t EXCEPT !.copy = c]
         IN  /\ TaskRec(n) /\ n.pc = t.pc /\ n.kind = t.kind /\ n.copy = c
             /\ n.parent = t.parent /\ n.cfg = t.cfg
<1>1. [t EXCEPT !.copy = c] = TaskOf(t.id, t.kind, t.pc, c, t.parent, t.cfg, t.role, t.batch)
  BY TaskExcept
<1> QED BY <1>1, WorkTypes, TaskOfOK

\* It has another kind.
LEMMA TurnedFacts ==
  ASSUME NEW t, TaskRec(t), NEW k
  PROVE  LET n == [t EXCEPT !.kind = k]
         IN  TaskRec(n) /\ n.pc = t.pc /\ n.kind = k /\ n.copy = t.copy /\ n.parent = t.parent
<1>1. [t EXCEPT !.kind = k] = TaskOf(t.id, k, t.pc, t.copy, t.parent, t.cfg, t.role, t.batch)
  BY TaskExcept
<1> QED BY <1>1, WorkTypes, TaskOfOK

\* A task loads the row.
LEMMA LoadedFacts ==
  ASSUME NEW t, TaskRec(t), NEW row, RowRec(row)
  PROVE  LET n == [t EXCEPT !.pc = "loaded", !.copy = row]
         IN  /\ TaskRec(n) /\ n.pc = "loaded" /\ n.kind = t.kind /\ n.copy = row
             /\ n.parent = t.parent /\ n.cfg = t.cfg
<1> DEFINE m == [t EXCEPT !.pc = "loaded"]
           n == [t EXCEPT !.pc = "loaded", !.copy = row]
<1>1. "loaded" \in Held \cup {"waiting"}
  BY DEF Held
<1>2. TaskRec(m) /\ m.pc = "loaded" /\ m.kind = t.kind /\ m.parent = t.parent /\ m.cfg = t.cfg
  BY <1>1, MovedFacts
<1>3. n = [m EXCEPT !.copy = row]
  OBVIOUS
<1> HIDE DEF m, n
<1>4. /\ TaskRec(n) /\ n.pc = "loaded" /\ n.kind = t.kind /\ n.copy = row
      /\ n.parent = t.parent /\ n.cfg = t.cfg
  BY <1>2, <1>3, CopiedFacts
<1> QED BY <1>4 DEF n

\* A create task whose prepare task failed loads the row too.
LEMMA ResumedFacts ==
  ASSUME NEW t, TaskRec(t), NEW row, RowRec(row)
  PROVE  LET n == [t EXCEPT !.pc = "loaded", !.copy = row, !.kind = "createFailed"]
         IN  /\ TaskRec(n) /\ n.pc = "loaded" /\ n.kind = "createFailed" /\ n.copy = row
             /\ n.parent = t.parent
<1> DEFINE m == [t EXCEPT !.pc = "loaded", !.copy = row]
           n == [t EXCEPT !.pc = "loaded", !.copy = row, !.kind = "createFailed"]
<1>1. TaskRec(m) /\ m.pc = "loaded" /\ m.copy = row /\ m.parent = t.parent
  BY ONLY TaskRec(t), RowRec(row), LoadedFacts, Zenon
<1>2. n = [m EXCEPT !.kind = "createFailed"]
  OBVIOUS
<1> HIDE DEF m, n
<1>3. TaskRec(n) /\ n.pc = "loaded" /\ n.kind = "createFailed" /\ n.copy = row /\ n.parent = t.parent
  BY <1>1, <1>2, TurnedFacts
<1> QED BY <1>3 DEF n

\* A prepare task has its server.
LEMMA ServedFacts ==
  ASSUME NEW t, TaskRec(t), NEW sv
  PROVE  LET n == [t EXCEPT !.pc = "script", !.copy.res = sv]
         IN  /\ TaskRec(n) /\ n.pc = "script" /\ n.kind = t.kind
             /\ n.copy.status = t.copy.status /\ n.copy.res = sv
             /\ n.parent = t.parent /\ n.cfg = t.cfg
<1> DEFINE c == [t.copy EXCEPT !.res = sv]
           m == [t EXCEPT !.pc = "script"]
           n == [t EXCEPT !.pc = "script", !.copy.res = sv]
<1>1. "script" \in Held \cup {"waiting"}
  BY DEF Held
<1>2. /\ TaskRec(m) /\ m.pc = "script" /\ m.kind = t.kind /\ m.copy = t.copy
      /\ m.parent = t.parent /\ m.cfg = t.cfg
  BY <1>1, MovedFacts
<1>3. c = [status |-> t.copy.status, res |-> sv, addr |-> t.copy.addr]
  BY DEF TaskRec, RowRec
<1>4. n = [m EXCEPT !.copy = [m.copy EXCEPT !.res = sv]]
  OBVIOUS
<1>5. n = [m EXCEPT !.copy = c]
  BY <1>2, <1>4
<1> HIDE DEF m, n, c
<1>6. RowRec(c) /\ c.status = t.copy.status /\ c.res = sv
  BY <1>3 DEF RowRec
<1>7. /\ TaskRec(n) /\ n.pc = "script" /\ n.kind = t.kind /\ n.copy = c
      /\ n.parent = t.parent /\ n.cfg = t.cfg
  BY <1>2, <1>5, <1>6, CopiedFacts
<1> QED BY <1>6, <1>7 DEF n

\* A task that does not wait is the only one, or the child of the only other one.
LEMMA Active ==
  ASSUME MwCalm, NEW t \in mtasks, t.pc # "waiting"
  PROVE  \/ mtasks = {t} /\ ~t.parent
         \/ \E u \in mtasks : mtasks = {u, t} /\ Pair(u, t)
BY DEF MwCalm, Crew, Lone, Pair

\* The others wait: only this one may be at its script.
LEMMA OthersWait ==
  ASSUME MwCalm, NEW t \in mtasks, t.pc # "waiting"
  PROVE  \A u \in mtasks : u # t => u.pc = "waiting" /\ ~u.parent /\ u.kind = "create"
BY Active DEF Pair

\* A task moves on, and the row keeps its status.
LEMMA Moves ==
  ASSUME MwCalm, NEW t \in mtasks, t.pc # "waiting", mrow.status # "gone",
         NEW n, TaskRec(n), n.pc \in Held, n.kind = t.kind, n.parent = t.parent, n.cfg = t.cfg,
         n.copy.status = mrow'.status, n.copy.res = mrow'.res,
         mtasks' = Put(t, n), mreq' = mreq, mrow'.status = mrow.status,
         RowOK(mrow', mtasks', servers', joined', odd')
  PROVE  MwCalm'
<1>1. mtasks' = (mtasks \ {t}) \cup {n}
  BY DEF Put
<1>2. \A u \in mtasks' : TaskOK(u, mrow')
  <2> SUFFICES ASSUME NEW u \in mtasks'
               PROVE  TaskOK(u, mrow')
    OBVIOUS
  <2>1. CASE u = n
    BY <2>1 DEF MwCalm, TaskOK
  <2>2. CASE u # n
    <3>1. u \in mtasks /\ u # t /\ u.pc = "waiting" /\ "waiting" \notin Held
      BY <1>1, <2>2, OthersWait DEF Held
    <3> QED BY <3>1 DEF MwCalm, TaskOK
  <2> QED BY <2>1, <2>2
<1>3. n.pc # "waiting"
  BY DEF Held
<1>4. Crew(mtasks')
  <2>1. CASE mtasks = {t} /\ ~t.parent
    <3>1. mtasks' = {n} /\ Lone(n)
      BY <1>1, <1>3, <2>1 DEF Lone
    <3> QED BY <3>1 DEF Crew
  <2>2. ASSUME NEW u \in mtasks, mtasks = {u, t}, Pair(u, t)
        PROVE  Crew(mtasks')
    <3>1. u # t
      BY <2>2 DEF Pair
    <3>2. mtasks' = {u, n} /\ Pair(u, n)
      BY <1>1, <1>3, <2>2, <3>1 DEF Pair
    <3> QED BY <3>2 DEF Crew
  <2> QED BY <2>1, <2>2, Active
<1>5. ReqOK(mreq', mrow', mtasks')
  <2>1. \A u \in mtasks' : \E v \in mtasks : u.kind = v.kind
    BY <1>1
  <2> QED BY <2>1 DEF MwCalm, ReqOK
<1> QED BY <1>2, <1>4, <1>5 DEF MwCalm

\* The last task ends.
LEMMA LastEnds ==
  ASSUME MwCalm, mtasks' = {}, mreq' = mreq,
         RowOK(mrow', mtasks', servers', joined', odd'),
         mreq.copy.status # "terminating" => mrow'.status # "terminating" \/ mreq.kind = "none",
         mreq.copy.status = "terminating" => mrow'.status \in Over \/ mreq.kind = "none"
  PROVE  MwCalm'
<1>1. Crew(mtasks')
  BY DEF Crew
<1>2. ReqOK(mreq', mrow', mtasks')
  BY DEF MwCalm, ReqOK
<1> QED BY <1>1, <1>2 DEF MwCalm

\* A prepare task ends, and with it the create task that waits for it, or that one goes on.
LEMMA PrepareEnds ==
  ASSUME MwCalm, NEW t \in mtasks, t.pc # "waiting", t.kind = "prepare",
         NEW failed \in BOOLEAN, EndMachineTask(t, failed), mreq' = mreq,
         mrow'.status \notin {"terminating", "gone"}, RowRec(mrow'),
         RowOK(mrow', mtasks', servers', joined', odd')
  PROVE  MwCalm'
<1>1. ASSUME mreq.kind # "none"
      PROVE  mreq.copy.status # "terminating"
  BY <1>1 DEF MwCalm, ReqOK
<1>2. CASE mtasks' = {}
  BY <1>1, <1>2, LastEnds
<1>3. CASE mtasks' # {}
  <2>1. CASE mtasks = {t} /\ ~t.parent
    <3>1. Parents(t) = {}
      BY <2>1 DEF Parents
    <3> QED BY <1>3, <2>1, <3>1 DEF EndMachineTask
  <2>2. ASSUME NEW u \in mtasks, mtasks = {u, t}, Pair(u, t)
        PROVE  MwCalm'
    <3> DEFINE w == [u EXCEPT !.pc = "loaded", !.copy = mrow', !.kind = "createFailed"]
    <3>1. Parents(t) = {u}
      BY <2>2 DEF Parents, Pair
    <3>2. mtasks' = {w}
      <4>1. mtasks \ ({t} \cup Parents(t)) = {}
        BY <2>2, <3>1
      <4>2. {[v EXCEPT !.pc = "loaded", !.copy = mrow', !.kind = "createFailed"] : v \in Parents(t)} = {w}
        BY <3>1
      <4> QED BY <1>3, <4>1, <4>2 DEF EndMachineTask
    <3>3. TaskRec(u)
      BY DEF MwCalm, TaskOK
    <3>4. /\ TaskRec(w) /\ w.pc = "loaded" /\ w.kind = "createFailed" /\ w.copy = mrow'
          /\ w.parent = u.parent
      BY <3>3, ResumedFacts
    <3> HIDE DEF w
    <3>5. TaskOK(w, mrow')
      BY <3>4 DEF TaskOK
    <3>6. Lone(w)
      BY <2>2, <3>4 DEF Lone, Pair
    <3>7. Crew(mtasks')
      BY <3>2, <3>6 DEF Crew
    <3>8. ReqOK(mreq', mrow', mtasks')
      BY <1>1 DEF MwCalm, ReqOK
    <3> QED BY <3>2, <3>5, <3>7, <3>8 DEF MwCalm
  <2> QED BY <2>1, <2>2, Active
<1> QED BY <1>2, <1>3

\* A request starts a task: with another one it overlaps.
LEMMA StartKeeps ==
  ASSUME MwCalm, NEW k, NEW cfg \in BOOLEAN, NEW role \in BOOLEAN, NEW ba \in BOOLEAN,
         NEW s \in {"creating", "prepare", "terminating"}, s = "terminating" <=> k = "terminate",
         mreq.kind # "none", k # "none",
         Start(NewMachineTask(k, FALSE, cfg, role, ba), s)
  PROVE  MwInv'
<1> DEFINE n == NewMachineTask(k, FALSE, cfg, role, ba)
<1>1. /\ mtasks' = mtasks \cup {n} /\ mreq' = NoReq
      /\ mrow' = IF mrow.status = "gone" THEN mrow ELSE SetMachineStatus(mreq.copy, s)
      /\ odd' = IF Alone THEN odd ELSE odd \cup {"lapped"}
      /\ UNCHANGED <<servers, joined>>
  BY DEF Start
<1>p. PICK pa \in BOOLEAN : pa = FALSE
  OBVIOUS
<1>n. n = NewMachineTask(k, pa, cfg, role, ba)
  BY <1>p
<1> HIDE DEF n
<1>2. TaskRec(n) /\ n.kind = k /\ n.pc = "queued" /\ ~n.parent
  <2>1. TaskRec(n) /\ n.kind = k /\ n.pc = "queued" /\ n.parent = pa
    BY <1>n, NewTaskFacts
  <2> QED BY <1>p, <2>1
<1>3. CASE ~Alone
  BY <1>1, <1>3 DEF MwInv
<1>4. CASE Alone
  <2>1. mtasks' = {n} /\ mtasks = {} /\ odd' = odd
    BY <1>1, <1>4 DEF Alone
  <2>2. /\ RowRec(mrow') /\ mrow'.res = mrow.res
        /\ mrow'.status \in {s, mrow.status}
        /\ mrow'.status = mrow.status => mrow.status = "gone" \/ mreq.copy.status = s \/ mrow.status = s
        /\ mrow'.status = "gone" <=> mrow.status = "gone"
    <3>1. RowRec(mrow)
      BY DEF MwCalm, RowOK
    <3>2. CASE mrow.status = "gone"
      BY <1>1, <3>1, <3>2
    <3>3. CASE mrow.status # "gone"
      <4> DEFINE r == SetMachineStatus(mreq.copy, s)
      <4>1. /\ RowRec(r) /\ r.res = mrow.res
            /\ r.status = IF mreq.copy.status = s THEN mrow.status ELSE s
        BY <3>1, StatusFacts
      <4>2. mrow' = r
        BY <1>1, <3>3
      <4> HIDE DEF r
      <4> QED BY <3>3, <4>1, <4>2
    <3> QED BY <3>2, <3>3
  <2>3. /\ mreq.copy.status # "terminating" => mrow.status # "terminating"
        /\ mreq.copy.status = "terminating" => mrow.status \in Over
    BY DEF MwCalm, ReqOK
  <2>4. TaskOK(n, mrow')
    BY <1>2, <2>2, <2>3 DEF TaskOK, Held, Over
  <2>5. Crew(mtasks')
    BY <1>2, <2>1 DEF Crew, Lone
  <2>6. ReqOK(mreq', mrow', mtasks')
    BY <1>1 DEF ReqOK, NoReq
  <2>7. RowOK(mrow', mtasks', servers', joined', odd')
    BY <1>1, <2>1, <2>2 DEF MwCalm, RowOK
  <2> QED BY <2>1, <2>4, <2>5, <2>6, <2>7 DEF MwInv, MwCalm
<1> QED BY <1>3, <1>4

\* A request that is refused, or that has only read the row, changes nothing else.
LEMMA RequestKeeps ==
  ASSUME MwCalm,
         \/ \E k \in {"create", "recreate", "prepare", "terminate", "delete"} :
              (k = "create" => mrow.status = "init") /\ LoadRequest(k)
         \/ RefuseMachine
  PROVE  MwCalm'
<1>1. UNCHANGED <<mrow, mtasks, servers, joined, odd>>
  BY DEF LoadRequest, RefuseMachine
<1>2. ReqOK(mreq', mrow', mtasks')
  <2>1. CASE RefuseMachine
    BY <2>1 DEF RefuseMachine, ReqOK, NoReq
  <2>2. ASSUME NEW k \in {"create", "recreate", "prepare", "terminate", "delete"},
               k = "create" => mrow.status = "init", LoadRequest(k)
        PROVE  ReqOK(mreq', mrow', mtasks')
    <3>1. mreq' = [kind |-> k, copy |-> mrow]
      BY <2>2 DEF LoadRequest
    <3>2. mreq'.kind = k /\ mreq'.copy = mrow /\ mreq' = [kind |-> mreq'.kind, copy |-> mreq'.copy]
      BY <3>1
    <3>3. mrow.status = "terminating" => \A t \in mtasks : t.kind = "terminate"
      BY DEF MwCalm, TaskOK
    <3> QED BY <1>1, <2>2, <3>2, <3>3 DEF ReqOK, Over
  <2> QED BY <2>1, <2>2
<1> QED BY <1>1, <1>2 DEF MwCalm

\* The requests, on what they have read.
LEMMA RequestsKeep ==
  ASSUME MwCalm,
         \/ \E k \in {"create", "recreate", "prepare", "terminate", "delete"} :
              (k = "create" => mrow.status = "init") /\ LoadRequest(k)
         \/ StartMachineCreateTask \/ PerformRecreate \/ PerformPrepare \/ PerformTerminate
         \/ CustomizeDelete
  PROVE  MwInv'
<1>0. TRUE \in BOOLEAN /\ FALSE \in BOOLEAN
  OBVIOUS
<1>r. CASE RefuseMachine
  BY <1>r, RequestKeeps DEF MwInv
<1>s. ASSUME NEW k \in {"create", "prepare", "terminate"},
             NEW cfg \in BOOLEAN, NEW role \in BOOLEAN, NEW ba \in BOOLEAN,
             NEW s \in {"creating", "prepare", "terminating"}, s = "terminating" <=> k = "terminate",
             mreq.kind # "none", Start(NewMachineTask(k, FALSE, cfg, role, ba), s)
      PROVE  MwInv'
  BY <1>s, StartKeeps
<1>1. CASE \E k \in {"create", "recreate", "prepare", "terminate", "delete"} :
             (k = "create" => mrow.status = "init") /\ LoadRequest(k)
  BY <1>1, RequestKeeps DEF MwInv
<1>2. CASE StartMachineCreateTask
  BY <1>2, <1>s DEF StartMachineCreateTask
<1>3. CASE PerformRecreate
  BY <1>3, <1>r, <1>s DEF PerformRecreate
<1>4. CASE PerformPrepare
  <2>1. CASE mreq.copy.status \in {"running", "deleting"}
    BY <1>4, <1>r, <2>1 DEF PerformPrepare
  <2>2. CASE mreq.copy.status \notin {"running", "deleting"}
    <3>1. PICK cfg \in BOOLEAN, role \in BOOLEAN :
             Start(NewMachineTask("prepare", FALSE, cfg, role, FALSE), "prepare")
      BY <1>4, <2>2 DEF PerformPrepare
    <3> QED BY <1>4, <1>s, <3>1 DEF PerformPrepare
  <2> QED BY <2>1, <2>2
<1>5. CASE PerformTerminate
  BY <1>5, <1>s DEF PerformTerminate
<1>6. CASE CustomizeDelete
  BY <1>6, <1>s DEF CustomizeDelete
<1> QED BY <1>1, <1>2, <1>3, <1>4, <1>5, <1>6

\* A row that keeps its status and its server, and servers and tasks that stay: the row is
\* as it was, unless the task at its script was the reason for its status.
LEMMA RowStays ==
  ASSUME MwCalm, NEW t \in mtasks, t.pc \notin {"waiting", "script"},
         NEW n, mtasks' = Put(t, n), UNCHANGED <<mrow, servers, joined, odd>>
  PROVE  RowOK(mrow', mtasks', servers', joined', odd')
<1>1. \A u \in mtasks : u.pc # "script"
  BY OthersWait
<1>2. n \in mtasks'
  BY DEF Put
<1> QED BY <1>1, <1>2 DEF MwCalm, RowOK

\* A task loads the row and waits for the lock of the machine.
LEMMA LoadKeeps ==
  ASSUME MwCalm, NEW t \in mtasks, LoadTask(t) \/ LockTask(t)
  PROVE  MwCalm'
<1>0. TaskOK(t, mrow) /\ TaskRec(t) /\ RowRec(mrow)
  BY DEF MwCalm, RowOK, TaskOK
<1>1. CASE LoadTask(t) /\ mrow.status = "gone"
  <2>1. /\ mtasks' = mtasks \ {t} /\ t.pc = "queued"
        /\ UNCHANGED <<mrow, mreq, servers, joined, odd>>
    BY <1>1 DEF LoadTask
  <2>2. \A u \in mtasks : u.pc = "queued"
    BY <1>1 DEF MwCalm, TaskOK
  <2>3. mtasks = {t}
    BY <2>1, <2>2, Active DEF Pair
  <2>4. mtasks' = {}
    BY <2>1, <2>3
  <2>5. RowOK(mrow', mtasks', servers', joined', odd')
    BY <1>1, <2>1, <2>4 DEF MwCalm, RowOK
  <2> QED BY <1>1, <2>1, <2>4, <2>5, LastEnds DEF Over
<1>2. CASE LoadTask(t) /\ mrow.status # "gone"
  <2> DEFINE n == [t EXCEPT !.pc = "loaded", !.copy = mrow]
  <2>1. /\ mtasks' = Put(t, n) /\ t.pc = "queued"
        /\ UNCHANGED <<mrow, mreq, servers, joined, odd>>
    BY <1>2 DEF LoadTask
  <2>2. /\ TaskRec(n) /\ n.pc = "loaded" /\ n.kind = t.kind /\ n.copy = mrow
        /\ n.parent = t.parent /\ n.cfg = t.cfg
    BY <1>0, LoadedFacts
  <2> HIDE DEF n
  <2>3. RowOK(mrow', mtasks', servers', joined', odd')
    BY <2>1, RowStays
  <2>4. n.copy.status = mrow'.status /\ n.copy.res = mrow'.res /\ n.pc \in Held /\ t.pc # "waiting"
    BY <2>1, <2>2 DEF Held
  <2> QED BY <1>2, <2>1, <2>2, <2>3, <2>4, Moves
<1>3. CASE LockTask(t)
  <2> DEFINE n == [t EXCEPT !.pc = "begin"]
  <2>1. /\ mtasks' = Put(t, n) /\ t.pc = "loaded"
        /\ UNCHANGED <<mrow, mreq, servers, joined, odd>>
    BY <1>3 DEF LockTask
  <2>2. /\ TaskRec(n) /\ n.pc = "begin" /\ n.kind = t.kind /\ n.copy = t.copy
        /\ n.parent = t.parent /\ n.cfg = t.cfg
    BY <1>0, MovedFacts DEF TaskOK, Held
  <2> HIDE DEF n
  <2>3. RowOK(mrow', mtasks', servers', joined', odd')
    BY <2>1, RowStays
  <2>4. /\ t.copy.status = mrow.status /\ t.copy.res = mrow.res /\ mrow.status # "gone"
        /\ n.pc \in Held
    BY <1>0, <2>1, <2>2 DEF TaskOK, Held
  <2> QED BY <2>1, <2>2, <2>3, <2>4, Moves
<1> QED BY <1>1, <1>2, <1>3

\* A create task hands the machine to a prepare task.
LEMMA HandKeeps ==
  ASSUME MwCalm, NEW t \in mtasks, RequestPrepareMachine(t)
  PROVE  MwCalm'
<1>p. PICK yes \in BOOLEAN, no \in BOOLEAN : yes = TRUE /\ no = FALSE
  OBVIOUS
<1> DEFINE w == [t EXCEPT !.pc = "waiting"]
           n == NewMachineTask("prepare", TRUE, TRUE, TRUE, FALSE)
<1>1. /\ t.kind = "create" /\ t.pc = "begin"
      /\ mrow' = SetMachineStatus(t.copy, "prepare") /\ mtasks' = Put(t, w) \cup {n}
      /\ UNCHANGED <<mreq, servers, joined, odd>>
  BY DEF RequestPrepareMachine
<1>2. TaskOK(t, mrow) /\ RowRec(mrow) /\ t.copy.status = mrow.status /\ mrow.status # "gone"
  BY <1>1 DEF MwCalm, RowOK, TaskOK, Held
<1>3. mtasks = {t} /\ ~t.parent
  BY <1>1, Active DEF Pair
<1>4. TaskRec(w) /\ w.pc = "waiting" /\ w.kind = "create" /\ w.parent = t.parent
  BY <1>1, <1>2, MovedFacts DEF TaskOK
<1>5. TaskRec(n) /\ n.kind = "prepare" /\ n.pc = "queued" /\ n.parent /\ n.cfg
  <2>1. n = NewMachineTask("prepare", yes, yes, yes, no)
    BY <1>p
  <2> HIDE DEF n
  <2>2. TaskRec(n) /\ n.kind = "prepare" /\ n.pc = "queued" /\ n.parent = yes /\ n.cfg = yes
    BY <2>1, NewTaskFacts
  <2> QED BY <1>p, <2>2
<1>6. RowRec(mrow') /\ mrow'.res = mrow.res /\ mrow'.status = "prepare"
  BY <1>1, <1>2, HeldStatusFacts
<1> HIDE DEF w, n
<1>7. mtasks' = {w, n}
  BY <1>1, <1>3 DEF Put
<1>8. Crew(mtasks')
  BY <1>3, <1>4, <1>5, <1>7 DEF Crew, Pair
<1>9. TaskOK(w, mrow') /\ TaskOK(n, mrow')
  BY <1>4, <1>5, <1>6 DEF TaskOK, Held
<1>10. ReqOK(mreq', mrow', mtasks')
  <2>1. mreq.kind # "none" => mreq.copy.status # "terminating"
    BY <1>1 DEF MwCalm, ReqOK
  <2> QED BY <1>1, <1>6, <2>1 DEF MwCalm, ReqOK
<1>11. RowOK(mrow', mtasks', servers', joined', odd')
  BY <1>1, <1>2, <1>6, <1>7 DEF MwCalm, RowOK
<1> QED BY <1>7, <1>8, <1>9, <1>10, <1>11 DEF MwCalm

\* The configuration of a prepare task is filled in, or its lack ends the task.
LEMMA FillKeeps ==
  ASSUME MwCalm, NEW t \in mtasks, FillInput(t)
  PROVE  MwCalm'
<1>0. /\ TaskOK(t, mrow) /\ TaskRec(t) /\ RowRec(mrow) /\ t.kind = "prepare" /\ t.pc = "begin"
      /\ UNCHANGED <<mreq, servers, joined>>
  BY DEF MwCalm, RowOK, TaskOK, FillInput
<1>1. /\ t.copy.status = mrow.status /\ t.copy.res = mrow.res /\ mrow.status # "gone"
      /\ mrow.status # "terminating" /\ t.pc \notin {"waiting", "script"}
  BY <1>0 DEF TaskOK, Held
<1>2. CASE ~t.cfg
  <2>1. mtasks' = mtasks \ {t} /\ odd' = odd \cup {"panic"} /\ UNCHANGED mrow
    BY <1>2 DEF FillInput
  <2>2. mtasks = {t}
    BY <1>1, <1>2, Active DEF Pair
  <2>3. mtasks' = {}
    BY <2>1, <2>2
  <2>4. RowOK(mrow', mtasks', servers', joined', odd')
    BY <1>0, <2>1, <2>2, <2>3 DEF MwCalm, RowOK
  <2>5. mreq.kind # "none" => mreq.copy.status # "terminating"
    BY <1>0 DEF MwCalm, ReqOK
  <2> QED BY <1>0, <1>1, <2>1, <2>3, <2>4, <2>5, LastEnds
<1>3. CASE mtasks' = Put(t, [t EXCEPT !.pc = "create"]) /\ UNCHANGED <<mrow, odd>>
  <2> DEFINE n == [t EXCEPT !.pc = "create"]
  <2>1. /\ TaskRec(n) /\ n.pc = "create" /\ n.kind = t.kind /\ n.copy = t.copy
        /\ n.parent = t.parent /\ n.cfg = t.cfg
    BY <1>0, MovedFacts DEF Held
  <2>2. mtasks' = Put(t, n)
    BY <1>3
  <2> HIDE DEF n
  <2>3. RowOK(mrow', mtasks', servers', joined', odd')
    BY <1>0, <1>1, <1>3, <2>2, RowStays
  <2>4. n.pc \in Held /\ n.copy.status = mrow'.status /\ n.copy.res = mrow'.res
    BY <1>1, <1>3, <2>1 DEF Held
  <2> QED BY <1>0, <1>1, <1>3, <2>1, <2>2, <2>3, <2>4, Moves
<1>4. CASE OnPrepareError(t) /\ UNCHANGED odd
  <2>1. mrow' = SetMachineStatus(t.copy, "prepare_fail") /\ EndMachineTask(t, TRUE)
    BY <1>4 DEF OnPrepareError
  <2>2. RowRec(mrow') /\ mrow'.res = mrow.res /\ mrow'.status = "prepare_fail"
    BY <1>0, <1>1, <2>1, HeldStatusFacts
  <2>3. RowOK(mrow', mtasks', servers', joined', odd')
    BY <1>0, <1>1, <1>4, <2>2 DEF MwCalm, RowOK
  <2>4. PICK failed \in BOOLEAN : EndMachineTask(t, failed)
    BY <2>1
  <2> QED BY <1>0, <1>1, <2>2, <2>3, <2>4, PrepareEnds
<1> QED BY <1>2, <1>3, <1>4 DEF FillInput

\* The server is made: it is the only one, unless the row had one.
LEMMA CreatesKeeps ==
  ASSUME MwCalm, NEW t \in mtasks, PrepareCreates(t)
  PROVE  MwCalm'
<1> DEFINE n == [t EXCEPT !.pc = "script", !.copy.res = nextServer]
<1>0. /\ TaskOK(t, mrow) /\ TaskRec(t) /\ RowRec(mrow) /\ t.kind = "prepare" /\ t.pc = "create"
      /\ UNCHANGED <<mreq, joined>> /\ mtasks' = Put(t, n) /\ servers' = servers \cup {nextServer}
      /\ mrow' = IF mrow.status = "gone" THEN mrow ELSE [mrow EXCEPT !.res = nextServer]
      /\ odd' = odd \cup (IF mrow.res \in servers THEN {"again"} ELSE {})
                    \cup (IF mrow.status = "gone" THEN {"gone"} ELSE {})
  BY DEF MwCalm, RowOK, TaskOK, PrepareCreates
<1>1. t.copy.status = mrow.status /\ mrow.status # "gone" /\ t.pc # "waiting"
  BY <1>0 DEF TaskOK, Held
<1>2. /\ TaskRec(n) /\ n.pc = "script" /\ n.kind = t.kind
      /\ n.copy.status = t.copy.status /\ n.copy.res = nextServer
      /\ n.parent = t.parent /\ n.cfg = t.cfg
  BY <1>0, ServedFacts
<1> HIDE DEF n
<1>3. mrow' = [mrow EXCEPT !.res = nextServer]
  BY <1>0, <1>1
<1>4. RowRec(mrow') /\ mrow'.status = mrow.status /\ mrow'.res = nextServer
  BY <1>0, <1>3 DEF RowRec
<1>5. RowOK(mrow', mtasks', servers', joined', odd')
  <2>1. n \in mtasks'
    BY <1>0 DEF Put
  <2>2. servers' \subseteq {mrow'.res} \/ "again" \in odd'
    BY <1>0, <1>4 DEF MwCalm, RowOK
  <2> QED BY <1>0, <1>1, <1>2, <1>4, <2>1, <2>2 DEF RowOK
<1>6. n.pc \in Held /\ n.copy.status = mrow'.status /\ n.copy.res = mrow'.res
  BY <1>1, <1>2, <1>4 DEF Held
<1> QED BY <1>0, <1>1, <1>2, <1>4, <1>5, <1>6, Moves

\* The script has run on the server, or the prepare task fails.
LEMMA PreparedKeeps ==
  ASSUME MwCalm, NEW t \in mtasks, PrepareRuns(t) \/ PrepareFails(t)
  PROVE  MwCalm'
<1>0. /\ TaskOK(t, mrow) /\ RowRec(mrow) /\ t.kind = "prepare" /\ t.pc \in {"create", "script"}
      /\ UNCHANGED <<mreq, servers>>
  BY DEF MwCalm, RowOK, PrepareRuns, PrepareFails
<1>1. /\ t.copy.status = mrow.status /\ t.copy.res = mrow.res /\ mrow.status # "gone"
      /\ t.pc # "waiting"
  BY <1>0 DEF TaskOK, Held
<1>2. CASE PrepareRuns(t)
  <2> DEFINE r == SetMachineStatus(t.copy, "running")
  <2>1. /\ t.copy.res \in servers
        /\ joined' = IF t.role THEN joined \cup {t.copy.res} ELSE joined
        /\ odd' = IF t.role THEN odd ELSE odd \cup {"bare"}
        /\ mrow' = [r EXCEPT !.addr = TRUE] /\ EndMachineTask(t, FALSE)
    BY <1>1, <1>2 DEF PrepareRuns
  <2>2. RowRec(r) /\ r.res = mrow.res /\ r.status = "running"
    BY <1>0, <1>1, HeldStatusFacts
  <2> HIDE DEF r
  <2>3. RowRec(mrow') /\ mrow'.res = mrow.res /\ mrow'.status = "running"
    BY <2>1, <2>2 DEF RowRec
  <2>4. mrow'.res \in servers' \cap joined' \/ "bare" \in odd'
    BY <1>0, <1>1, <2>1, <2>3
  <2>5. servers' \subseteq {mrow'.res} \/ "again" \in odd'
    BY <1>0, <2>1, <2>3 DEF MwCalm, RowOK
  <2>6. RowOK(mrow', mtasks', servers', joined', odd')
    BY <2>3, <2>4, <2>5 DEF RowOK
  <2>7. PICK failed \in BOOLEAN : EndMachineTask(t, failed)
    BY <2>1
  <2> QED BY <1>0, <1>1, <2>3, <2>6, <2>7, PrepareEnds
<1>3. CASE PrepareFails(t)
  <2>1. /\ mrow' = SetMachineStatus(t.copy, "prepare_fail") /\ EndMachineTask(t, TRUE)
        /\ UNCHANGED <<joined, odd>>
    BY <1>1, <1>3 DEF PrepareFails, OnPrepareError
  <2>2. RowRec(mrow') /\ mrow'.res = mrow.res /\ mrow'.status = "prepare_fail"
    BY <1>0, <1>1, <2>1, HeldStatusFacts
  <2>3. RowOK(mrow', mtasks', servers', joined', odd')
    BY <1>0, <1>1, <2>1, <2>2 DEF MwCalm, RowOK
  <2>4. PICK failed \in BOOLEAN : EndMachineTask(t, failed)
    BY <2>1
  <2> QED BY <1>0, <1>1, <2>2, <2>3, <2>4, PrepareEnds
<1> QED BY <1>2, <1>3

\* A create task ends as failed; a terminate task removes the server, or fails to.
LEMMA LastKeeps ==
  ASSUME MwCalm, NEW t \in mtasks,
         OnMachinePreparedFailed(t) \/ TerminateResource(t) \/ TerminateFails(t)
  PROVE  MwCalm'
<1>0. /\ TaskOK(t, mrow) /\ RowRec(mrow) /\ t.kind \in {"createFailed", "terminate"}
      /\ t.pc = "begin" /\ mtasks' = mtasks \ {t} /\ UNCHANGED <<mreq, joined, odd>>
  BY DEF MwCalm, RowOK, OnMachinePreparedFailed, TerminateResource, TerminateFails
<1>1. /\ t.copy.status = mrow.status /\ t.copy.res = mrow.res /\ mrow.status # "gone"
  BY <1>0 DEF TaskOK, Held
<1>2. mtasks' = {}
  <2>1. mtasks = {t}
    BY <1>0, Active DEF Pair
  <2> QED BY <1>0, <2>1
<1>3. \A u \in mtasks : u.pc # "script"
  BY <1>0, OthersWait
<1>4. CASE OnMachinePreparedFailed(t)
  <2>1. mrow' = SetMachineStatus(t.copy, "create_fail") /\ servers' = servers /\ t.kind = "createFailed"
    BY <1>4 DEF OnMachinePreparedFailed
  <2>2. RowRec(mrow') /\ mrow'.res = mrow.res /\ mrow'.status = "create_fail"
    BY <1>0, <1>1, <2>1, HeldStatusFacts
  <2>3. RowOK(mrow', mtasks', servers', joined', odd')
    BY <1>0, <1>1, <2>1, <2>2 DEF MwCalm, RowOK
  <2>4. mreq.kind # "none" => mreq.copy.status # "terminating"
    BY <2>1 DEF MwCalm, ReqOK
  <2> QED BY <1>0, <1>2, <2>2, <2>3, <2>4, LastEnds
<1>5. CASE TerminateResource(t)
  <2>1. /\ servers' = servers \ {t.copy.res} /\ t.kind = "terminate"
        /\ mrow' = IF t.batch THEN [mrow EXCEPT !.status = "gone"] ELSE mrow
    BY <1>5 DEF TerminateResource
  <2>2. mrow.status \in Over
    BY <1>0, <2>1 DEF TaskOK
  <2>3. /\ RowRec(mrow') /\ mrow'.res = mrow.res /\ mrow'.status \in {"gone", mrow.status}
    BY <1>0, <2>1 DEF RowRec
  <2>4. servers' = {} \/ "again" \in odd'
    BY <1>0, <1>1, <2>1 DEF MwCalm, RowOK
  <2>5. RowOK(mrow', mtasks', servers', joined', odd')
    BY <2>2, <2>3, <2>4 DEF RowOK, Over
  <2>6. mreq.kind # "none" /\ mreq.copy.status # "terminating" => mrow.status # "terminating"
    BY DEF MwCalm, ReqOK
  <2> QED BY <1>0, <1>2, <2>2, <2>3, <2>5, <2>6, LastEnds DEF Over
<1>6. CASE TerminateFails(t)
  <2>1. mrow' = SetMachineStatus(t.copy, "terminate_fail") /\ servers' \subseteq servers
    BY <1>6 DEF TerminateFails
  <2>2. RowRec(mrow') /\ mrow'.res = mrow.res /\ mrow'.status = "terminate_fail"
    BY <1>0, <1>1, <2>1, HeldStatusFacts
  <2>3. RowOK(mrow', mtasks', servers', joined', odd')
    BY <1>0, <1>1, <2>1, <2>2 DEF MwCalm, RowOK
  <2> QED BY <1>0, <1>2, <2>2, <2>3, LastEnds DEF Over
<1> QED BY <1>4, <1>5, <1>6

\* A machine has no task at first.
LEMMA MwInitHolds ==
  ASSUME MwInit
  PROVE  MwInv
<1>1. RowOK(mrow, mtasks, servers, joined, odd)
  BY DEF MwInit, RowOK, RowRec
<1>2. ReqOK(mreq, mrow, mtasks) /\ Crew(mtasks)
  BY DEF MwInit, ReqOK, Crew, NoReq
<1> QED BY <1>1, <1>2 DEF MwInit, MwInv, MwCalm

\* Every step of the work on a machine.
LEMMA MwStepKeeps ==
  ASSUME MwInv, MwNext
  PROVE  MwInv'
<1>1. CASE "lapped" \in odd
  <2>1. odd \subseteq odd'
    <3>1. ASSUME NEW t \in mtasks,
                 \/ LoadTask(t) \/ LockTask(t) \/ RequestPrepareMachine(t) \/ OnMachinePreparedFailed(t)
                 \/ FillInput(t) \/ PrepareCreates(t) \/ PrepareRuns(t) \/ PrepareFails(t)
                 \/ TerminateResource(t) \/ TerminateFails(t)
          PROVE  odd \subseteq odd'
      BY <3>1 DEF LoadTask, LockTask, RequestPrepareMachine, OnMachinePreparedFailed, FillInput,
                  PrepareCreates, PrepareRuns, PrepareFails, TerminateResource, TerminateFails
    <3>2. ASSUME NEW task, NEW s, Start(task, s)
          PROVE  odd \subseteq odd'
      BY <3>2 DEF Start
    <3>3. RefuseMachine => odd \subseteq odd'
      BY DEF RefuseMachine
    <3>4. ASSUME NEW k, LoadRequest(k)
          PROVE  odd \subseteq odd'
      BY <3>4 DEF LoadRequest
    <3>5. StartMachineCreateTask \/ PerformRecreate \/ PerformPrepare \/ PerformTerminate
            \/ CustomizeDelete => odd \subseteq odd'
      BY <3>2, <3>3 DEF StartMachineCreateTask, PerformRecreate, PerformPrepare, PerformTerminate,
                        CustomizeDelete
    <3> QED BY <3>1, <3>4, <3>5 DEF MwNext
  <2> QED BY <1>1, <2>1 DEF MwInv
<1>2. CASE MwCalm
  BY <1>2, RequestsKeep, LoadKeeps, HandKeeps, FillKeeps, CreatesKeeps, PreparedKeeps, LastKeeps
     DEF MwNext, MwInv
<1> QED BY <1>1, <1>2 DEF MwInv

\* The steps of the others leave the work on a machine alone.
LEMMA MwStutter ==
  ASSUME MwInv, UNCHANGED mwAll
  PROVE  MwInv'
BY DEF mwAll, MwInv, MwCalm

\* What the invariant says of a machine at rest.
LEMMA MwSound ==
  ASSUME MwInv
  PROVE  MachineWorkSound
BY DEF MwInv, MwCalm, RowOK, MachineWorkSound, RunningIsJoined, ServersNamed, WorkEnds, Alone

-----------------------------------------------------------------------------
(* The parts together *)

PartsInv == KpInv /\ CpInv /\ MwInv

\* Key pairs, control planes and the work on machines keep what their properties promise,
\* in every order of their steps: a group of certificates is whole, a cluster that is gone
\* left no key pair but the lost ones, a kubeconfig is trusted; a control plane that was
\* removed is out of etcd and no other is; a machine at rest has its server and no other.
THEOREM MachinesAreSound == PartsSpec => []MachinesSound
<1>1. PartsInit => PartsInv
  BY KpInitHolds, CpInitHolds, MwInitHolds DEF PartsInit, PartsInv
<1>2. PartsInv /\ [PartsNext]_partsAll => PartsInv'
  <2> SUFFICES ASSUME PartsInv, [PartsNext]_partsAll
               PROVE  PartsInv'
    OBVIOUS
  <2>1. CASE KpNext /\ UNCHANGED <<cpAll, mwAll>>
    BY <2>1, KpStepKeeps, CpStutter, MwStutter DEF PartsInv
  <2>2. CASE CpNext /\ UNCHANGED <<keyAll, mwAll>>
    BY <2>2, KpStutter, CpStepKeeps, MwStutter DEF PartsInv
  <2>3. CASE MwNext /\ UNCHANGED <<keyAll, cpAll>>
    BY <2>3, KpStutter, CpStutter, MwStepKeeps DEF PartsInv
  <2>4. CASE UNCHANGED partsAll
    BY <2>4, KpStutter, CpStutter, MwStutter DEF PartsInv, partsAll
  <2> QED BY <2>1, <2>2, <2>3, <2>4 DEF PartsNext
<1>3. PartsInv => MachinesSound
  BY KpSound, MwSound DEF PartsInv, CpInv, MachinesSound, ControlPlaneExplained
<1> QED BY <1>1, <1>2, <1>3, PTL DEF PartsSpec

-----------------------------------------------------------------------------
(* Sequences *)

\* An element behind.
LEMMA AppendFacts ==
  ASSUME NEW T, NEW q \in Seq(T), NEW e \in T
  PROVE  /\ Append(q, e) \in Seq(T)
         /\ Len(Append(q, e)) = Len(q) + 1
         /\ DOMAIN Append(q, e) = DOMAIN q \cup {Len(q) + 1}
         /\ Len(q) + 1 \notin DOMAIN q
         /\ \A i \in DOMAIN q : Append(q, e)[i] = q[i]
         /\ Append(q, e)[Len(q) + 1] = e
OBVIOUS

\* An element replaced.
LEMMA ReplaceFacts ==
  ASSUME NEW T, NEW q \in Seq(T), NEW i \in DOMAIN q, NEW e \in T
  PROVE  /\ [q EXCEPT ![i] = e] \in Seq(T)
         /\ DOMAIN [q EXCEPT ![i] = e] = DOMAIN q
         /\ \A h \in DOMAIN q : [q EXCEPT ![i] = e][h] = IF h = i THEN e ELSE q[h]
OBVIOUS

\* An element taken out: the others keep their order.
LEMMA RemoveFacts ==
  ASSUME NEW T, NEW q \in Seq(T), NEW i \in DOMAIN q
  PROVE  /\ RemoveAt(q, i) \in Seq(T)
         /\ Len(RemoveAt(q, i)) = Len(q) - 1
         /\ \A h \in 1..(Len(q) - 1) : RemoveAt(q, i)[h] = IF h < i THEN q[h] ELSE q[h + 1]
<1> DEFINE a == SubSeq(q, 1, i - 1)
           b == SubSeq(q, i + 1, Len(q))
<1>1. Len(q) \in Nat /\ i \in 1..Len(q)
  OBVIOUS
<1>2. a \in Seq(T) /\ Len(a) = i - 1 /\ \A h \in 1..(i - 1) : a[h] = q[h]
  BY <1>1
<1>3. b \in Seq(T) /\ Len(b) = Len(q) - i /\ \A h \in 1..(Len(q) - i) : b[h] = q[i + h]
  BY <1>1
<1> HIDE DEF a, b
<1>4. a \o b \in Seq(T) /\ Len(a \o b) = Len(q) - 1
  BY <1>1, <1>2, <1>3, ConcatProperties
<1>5. \A h \in 1..(Len(q) - 1) : (a \o b)[h] = IF h <= i - 1 THEN a[h] ELSE b[h - (i - 1)]
  <2>1. ASSUME NEW h \in 1..(Len(q) - 1)
        PROVE  (a \o b)[h] = IF h <= i - 1 THEN a[h] ELSE b[h - (i - 1)]
    <3>1. Len(a) = i - 1 /\ Len(b) = Len(q) - i /\ h \in 1..(Len(a) + Len(b))
      BY <1>1, <1>2, <1>3, <2>1
    <3>2. (a \o b)[h] = IF h <= Len(a) THEN a[h] ELSE b[h - Len(a)]
      BY <1>2, <1>3, <3>1
    <3> QED BY <3>1, <3>2
  <2> QED BY <2>1
<1>6. ASSUME NEW h \in 1..(Len(q) - 1)
      PROVE  (a \o b)[h] = IF h < i THEN q[h] ELSE q[h + 1]
  <2>1. CASE h < i
    BY <1>1, <1>2, <1>5, <2>1
  <2>2. CASE ~(h < i)
    <3>1. h - (i - 1) \in 1..(Len(q) - i) /\ i + (h - (i - 1)) = h + 1
      BY <1>1, <2>2
    <3>2. ~(h <= i - 1)
      BY <1>1, <2>2
    <3>4. (a \o b)[h] = b[h - (i - 1)]
      BY <1>5, <3>2
    <3>3. b[h - (i - 1)] = q[h + 1]
      BY <1>3, <3>1
    <3> QED BY <2>2, <3>4, <3>3
  <2> QED BY <2>1, <2>2
<1> QED BY <1>4, <1>6 DEF RemoveAt, a, b

\* What is left after an element was taken out was there, and the others are left.
LEMMA RemoveKeeps ==
  ASSUME NEW T, NEW q \in Seq(T), NEW i \in DOMAIN q
  PROVE  /\ \A h \in DOMAIN RemoveAt(q, i) :
              \E m \in DOMAIN q : m # i /\ RemoveAt(q, i)[h] = q[m]
                                  /\ m = IF h < i THEN h ELSE h + 1
         /\ \A m \in DOMAIN q : m # i => \E h \in DOMAIN RemoveAt(q, i) : RemoveAt(q, i)[h] = q[m]
<1> DEFINE w == RemoveAt(q, i)
<1>1. /\ w \in Seq(T) /\ Len(w) = Len(q) - 1 /\ Len(q) \in Nat /\ i \in 1..Len(q)
      /\ \A h \in 1..(Len(q) - 1) : w[h] = IF h < i THEN q[h] ELSE q[h + 1]
  <2>1. /\ w \in Seq(T) /\ Len(w) = Len(q) - 1
        /\ \A h \in 1..(Len(q) - 1) : w[h] = IF h < i THEN q[h] ELSE q[h + 1]
    BY RemoveFacts, Zenon
  <2>2. Len(q) \in Nat /\ i \in 1..Len(q)
    OBVIOUS
  <2> QED BY <2>1, <2>2, Zenon
<1> HIDE DEF w
<1>2. DOMAIN w = 1..(Len(q) - 1) /\ DOMAIN q = 1..Len(q)
  BY <1>1
<1>3. ASSUME NEW h \in DOMAIN w
      PROVE  \E m \in DOMAIN q : m # i /\ w[h] = q[m] /\ m = IF h < i THEN h ELSE h + 1
  <2>1. h \in Nat /\ h \in 1..(Len(q) - 1)
    BY <1>2
  <2>2. CASE h < i
    <3>1. h \in DOMAIN q /\ h # i /\ w[h] = q[h]
      BY <1>1, <1>2, <2>1, <2>2
    <3> QED BY <2>2, <3>1
  <2>3. CASE ~(h < i)
    <3>1. h + 1 \in DOMAIN q /\ h + 1 # i /\ w[h] = q[h + 1]
      BY <1>1, <1>2, <2>1, <2>3
    <3> QED BY <2>3, <3>1
  <2> QED BY <2>2, <2>3
<1>4. ASSUME NEW m \in DOMAIN q, m # i
      PROVE  \E h \in DOMAIN w : w[h] = q[m]
  <2>1. m \in Nat /\ m \in 1..Len(q)
    BY <1>2
  <2>2. CASE m < i
    <3>1. m \in DOMAIN w /\ w[m] = q[m]
      BY <1>1, <1>2, <2>1, <2>2
    <3> QED BY <3>1
  <2>3. CASE ~(m < i)
    <3>1. m - 1 \in 1..(Len(q) - 1) /\ ~(m - 1 < i) /\ (m - 1) + 1 = m
      BY <1>1, <2>1, <2>3, <1>4
    <3>2. w[m - 1] = q[m]
      BY <1>1, <3>1
    <3> QED BY <1>2, <3>1, <3>2
  <2> QED BY <2>2, <2>3
<1> QED BY <1>3, <1>4 DEF w

-----------------------------------------------------------------------------
(* Components: the inductive invariant *)

RowType == [joint : BOOLEAN, live : BOOLEAN, copy : Copy]
TaskType == [type : TaskTypes, row : Nat, stage : TaskStages, copy : Copy]
ReqType == [kind : Kinds, row : Nat, copy : Copy]
DepType == [ver : 0..MaxSettings, ok : BOOLEAN]

CompTypes ==
  /\ driver \in {"helm", "kubectl"}
  /\ comps \in Seq(RowType) /\ dep \in DepType
  /\ req \in [Locks -> ReqType]
  /\ \A l \in Locks : req[l].kind # "none" => req[l].row \in DOMAIN comps
  /\ req["component"].kind \in {"none", "enable", "disable"}
  /\ tasks \in Seq(TaskType)
  /\ \A t \in DOMAIN tasks : tasks[t].row \in DOMAIN comps
  /\ overlap \in BOOLEAN /\ dropped \in BOOLEAN /\ undeployed \in BOOLEAN

\* No request overlapped a task, and no row or release went behind the tasks' back.
Clean == ~overlap /\ ~dropped /\ ~undeployed

\* What a task past the lookup of its component, or about to deploy, relies on: there says
\* that its component is one of the cluster, copy holds its columns and d what is deployed.
TaskRelies(k, there, copy, d) ==
  /\ k.stage \in {"call", "apply", "complete"} => there /\ k.copy = copy
  /\ (k.type = "deploy" /\ k.stage # "failed" /\ there) => copy.enabled
  /\ (k.type = "update" /\ k.stage \in {"init", "call"} /\ there) => copy.enabled \/ d = Nothing
  /\ k.stage = "apply" => k.type = "update" /\ copy.enabled
  /\ (k.stage = "complete" /\ k.type \in {"deploy", "update"}) =>
       copy.enabled /\ d = [ver |-> copy.setting, ok |-> TRUE]
  /\ (k.stage = "complete" /\ k.type \in {"undeploy", "delete"}) => d = Nothing

TaskFacts(k) == TaskRelies(k, k.row \in OfCluster, comps[k.row].copy, dep)

OneTask(ts) == \A t, u \in DOMAIN ts : ts[t].row = ts[u].row => t = u

OneComponent ==
  /\ \A c, d \in OfCluster : c = d
  /\ req["cluster"].kind = "insert" => OfCluster = {}
  /\ OfCluster = {} => dep = Nothing

\* An update that was let through finds nothing deployed of a component disabled since.
UpdateFacts ==
  (/\ req["cluster"].kind = "update" /\ req["cluster"].copy.enabled
   /\ req["cluster"].row \in OfCluster) =>
     comps[req["cluster"].row].copy.enabled \/ dep = Nothing

\* A component at rest.
RestFacts(c) ==
  /\ comps[c].copy.status = "deployed" =>
       comps[c].copy.enabled /\ dep = [ver |-> comps[c].copy.setting, ok |-> TRUE]
  /\ comps[c].copy.status = "init" => ~comps[c].copy.enabled /\ dep = Nothing

CleanFacts ==
  /\ OneTask(tasks) /\ OneComponent /\ UpdateFacts
  /\ \A t \in DOMAIN tasks : TaskFacts(tasks[t])
  /\ \A c \in OfCluster : Busy(c) \/ RestFacts(c)

CompInv == CompTypes /\ ChangingHasTask /\ (Clean => CleanFacts)

-----------------------------------------------------------------------------
(* Components: lists of tasks and rows *)

\* The tasks of other rows are the same.
Elsewhere(ts, us, c) ==
  /\ \A u \in DOMAIN us : us[u].row # c => \E t \in DOMAIN ts : ts[t] = us[u]
  /\ \A t \in DOMAIN ts : ts[t].row # c => \E u \in DOMAIN us : us[u] = ts[t]

\* A task k of row c is new, or took the place of another of that row.
HasTask(ts, us, k, c) ==
  /\ us \in Seq(TaskType) /\ Elsewhere(ts, us, c)
  /\ \E u \in DOMAIN us : us[u] = k
  /\ \A u \in DOMAIN us : us[u] = k \/ \E t \in DOMAIN ts : ts[t] = us[u]

\* It is the only one of its row, and no row has two.
OnlyTask(us, k, c) ==
  OneTask(us) /\ \A u \in DOMAIN us : us[u].row = c => us[u] = k

\* A task more.
LEMMA TaskComes ==
  ASSUME NEW ts \in Seq(TaskType), NEW k \in TaskType, NEW c, k.row = c
  PROVE  /\ HasTask(ts, Append(ts, k), k, c)
         /\ (OneTask(ts) /\ \A t \in DOMAIN ts : ts[t].row # c) => OnlyTask(Append(ts, k), k, c)
<1> DEFINE us == Append(ts, k)
<1>1. /\ us \in Seq(TaskType) /\ DOMAIN us = DOMAIN ts \cup {Len(ts) + 1}
      /\ \A t \in DOMAIN ts : us[t] = ts[t]
      /\ us[Len(ts) + 1] = k
  BY AppendFacts
<1> HIDE DEF us
<1>2. Elsewhere(ts, us, c)
  BY <1>1 DEF Elsewhere
<1>3. (OneTask(ts) /\ \A t \in DOMAIN ts : ts[t].row # c) => OnlyTask(us, k, c)
  BY <1>1 DEF OneTask, OnlyTask
<1>4. \E u \in DOMAIN us : us[u] = k
  BY <1>1
<1>5. \A u \in DOMAIN us : us[u] = k \/ \E t \in DOMAIN ts : ts[t] = us[u]
  BY <1>1
<1>6. HasTask(ts, us, k, c)
  BY <1>1, <1>2, <1>4, <1>5 DEF HasTask
<1> QED BY <1>3, <1>6 DEF us

\* A task at another stage.
LEMMA TaskMoves ==
  ASSUME NEW ts \in Seq(TaskType), NEW t \in DOMAIN ts, NEW k \in TaskType, NEW c,
         k.row = c, ts[t].row = c
  PROVE  /\ HasTask(ts, [ts EXCEPT ![t] = k], k, c)
         /\ OneTask(ts) => OnlyTask([ts EXCEPT ![t] = k], k, c)
<1> DEFINE us == [ts EXCEPT ![t] = k]
<1>1. /\ us \in Seq(TaskType) /\ DOMAIN us = DOMAIN ts
      /\ \A u \in DOMAIN ts : us[u] = IF u = t THEN k ELSE ts[u]
  BY ReplaceFacts
<1> HIDE DEF us
<1>2. Elsewhere(ts, us, c)
  BY <1>1 DEF Elsewhere
<1>3. OneTask(ts) => OnlyTask(us, k, c)
  BY <1>1 DEF OneTask, OnlyTask
<1>4. \E u \in DOMAIN us : us[u] = k
  BY <1>1
<1>5. \A u \in DOMAIN us : us[u] = k \/ \E v \in DOMAIN ts : ts[v] = us[u]
  BY <1>1
<1>6. HasTask(ts, us, k, c)
  BY <1>1, <1>2, <1>4, <1>5 DEF HasTask
<1> QED BY <1>3, <1>6 DEF us

\* The list without a task of row c.
TaskLess(ts, us, c) ==
  /\ us \in Seq(TaskType) /\ Elsewhere(ts, us, c)
  /\ \A u \in DOMAIN us : \E v \in DOMAIN ts : ts[v] = us[u]
  /\ OneTask(ts) => OneTask(us) /\ \A u \in DOMAIN us : us[u].row # c

\* A task less.
LEMMA TaskGoes ==
  ASSUME NEW ts \in Seq(TaskType), NEW t \in DOMAIN ts, NEW c, ts[t].row = c
  PROVE  TaskLess(ts, RemoveAt(ts, t), c)
<1> DEFINE us == RemoveAt(ts, t)
<1>1. /\ us \in Seq(TaskType)
      /\ \A u \in DOMAIN us : \E m \in DOMAIN ts : m # t /\ us[u] = ts[m]
                                                   /\ m = IF u < t THEN u ELSE u + 1
      /\ \A m \in DOMAIN ts : m # t => \E u \in DOMAIN us : us[u] = ts[m]
  BY RemoveFacts, RemoveKeeps
<1> HIDE DEF us
<1>2. Elsewhere(ts, us, c)
  BY <1>1 DEF Elsewhere
<1>3. ASSUME OneTask(ts), NEW u \in DOMAIN us
      PROVE  us[u].row # c
  BY <1>1, <1>3 DEF OneTask
<1>4. ASSUME OneTask(ts), NEW u \in DOMAIN us, NEW v \in DOMAIN us, us[u].row = us[v].row
      PROVE  u = v
  <2>1. PICK m \in DOMAIN ts : us[u] = ts[m] /\ m = IF u < t THEN u ELSE u + 1
    BY <1>1
  <2>2. PICK h \in DOMAIN ts : us[v] = ts[h] /\ h = IF v < t THEN v ELSE v + 1
    BY <1>1
  <2>3. m = h
    BY <1>4, <2>1, <2>2 DEF OneTask
  <2>4. u \in Nat /\ v \in Nat /\ t \in Nat
    <3>1. us \in Seq(TaskType)
      BY <1>1
    <3>2. DOMAIN us = 1..Len(us) /\ Len(us) \in Nat /\ DOMAIN ts = 1..Len(ts) /\ Len(ts) \in Nat
      BY <3>1
    <3> QED BY <3>2
  <2> QED BY <2>1, <2>2, <2>3, <2>4
<1>5. OneTask(ts) => OneTask(us) /\ \A u \in DOMAIN us : us[u].row # c
  BY <1>3, <1>4 DEF OneTask
<1>6. \A u \in DOMAIN us : \E v \in DOMAIN ts : ts[v] = us[u]
  BY <1>1
<1>7. TaskLess(ts, us, c)
  BY <1>1, <1>2, <1>5, <1>6 DEF TaskLess
<1> QED BY <1>7 DEF us

\* The other rows are the same, in a list as long.
OtherRows(cs, ds, c) ==
  DOMAIN ds = DOMAIN cs /\ \A d \in DOMAIN cs : d # c => ds[d] = cs[d]

\* A row of components as a record, and one with another field.
LEMMA RowRecord ==
  ASSUME NEW x \in RowType
  PROVE  x = [joint |-> x.joint, live |-> x.live, copy |-> x.copy]
BY DEF RowType

\* A row with another joint row and other columns.
LEMMA RowWith ==
  ASSUME NEW x \in RowType, NEW a, NEW w
  PROVE  [[x EXCEPT !.joint = a] EXCEPT !.copy = w] = [joint |-> a, live |-> x.live, copy |-> w]
<1> DEFINE y == [joint |-> x.joint, live |-> x.live, copy |-> x.copy]
           z == [joint |-> a, live |-> x.live, copy |-> x.copy]
<1>1. x = y
  BY RowRecord
<1>2. [y EXCEPT !.joint = a] = z
  OBVIOUS
<1>3. [z EXCEPT !.copy = w] = [joint |-> a, live |-> x.live, copy |-> w]
  OBVIOUS
<1> HIDE DEF y, z
<1> QED BY <1>1, <1>2, <1>3

\* New columns of a row.
LEMMA ColumnsFacts ==
  ASSUME CompTypes, NEW c \in DOMAIN comps, NEW new \in Copy, SetColumns(c, new)
  PROVE  /\ comps' \in Seq(RowType) /\ OtherRows(comps, comps', c)
         /\ comps'[c].live = comps[c].live /\ comps'[c].joint = comps[c].joint
         /\ comps[c].live => comps'[c].copy = new
<1>1. CASE ~comps[c].live
  BY <1>1 DEF SetColumns, OtherRows, CompTypes
<1>2. CASE comps[c].live
  <2> DEFINE e == [comps[c] EXCEPT !.copy = new]
  <2>1. comps \in Seq(RowType) /\ comps[c] \in RowType
    BY DEF CompTypes
  <2>2. /\ e \in RowType /\ e.live = comps[c].live /\ e.joint = comps[c].joint
        /\ e.copy = new
    BY <2>1 DEF RowType
  <2>3. comps' = [comps EXCEPT ![c] = e]
    BY <1>2 DEF SetColumns
  <2> HIDE DEF e
  <2>4. /\ comps' \in Seq(RowType) /\ DOMAIN comps' = DOMAIN comps
        /\ \A d \in DOMAIN comps : comps'[d] = IF d = c THEN e ELSE comps[d]
    BY <2>1, <2>2, <2>3, ReplaceFacts
  <2> QED BY <2>2, <2>4 DEF OtherRows
<1> QED BY <1>1, <1>2

\* A row at rest may keep its task, or end it on a status that stays.
LEMMA ChangingKept ==
  ASSUME CompTypes, ChangingHasTask, NEW c,
         OtherRows(comps, comps', c), Elsewhere(tasks, tasks', c),
         (c \in DOMAIN comps /\ comps'[c].live /\ comps'[c].copy.status \in Changing) => Busy(c)'
  PROVE  ChangingHasTask'
<1> SUFFICES ASSUME NEW d \in DOMAIN comps', comps'[d].live, comps'[d].copy.status \in Changing
             PROVE  Busy(d)'
  BY DEF ChangingHasTask
<1>1. CASE d = c
  BY <1>1 DEF OtherRows
<1>2. CASE d # c
  <2>1. comps'[d] = comps[d] /\ d \in DOMAIN comps
    BY <1>2 DEF OtherRows
  <2>2. PICK t \in DOMAIN tasks : tasks[t].row = d
    BY <2>1 DEF ChangingHasTask, Busy
  <2>3. PICK u \in DOMAIN tasks' : tasks'[u] = tasks[t]
    BY <1>2, <2>2 DEF Elsewhere
  <2> QED BY <2>2, <2>3 DEF Busy
<1> QED BY <1>1, <1>2

\* What a step that works on one row leaves of the others.
LEMMA CleanKept ==
  ASSUME CompInv, Clean, NEW c, OtherRows(comps, comps', c), Elsewhere(tasks, tasks', c),
         OneTask(tasks'), OneComponent', UpdateFacts', dep' = dep \/ c \in OfCluster,
         \A u \in DOMAIN tasks' : tasks'[u].row = c => TaskFacts(tasks[u])',
         c \in OfCluster' => Busy(c)' \/ RestFacts(c)'
  PROVE  CleanFacts'
<1>1. CleanFacts
  BY DEF CompInv
<1>2. \A d : d # c => (d \in OfCluster' <=> d \in OfCluster)
  BY DEF OtherRows, OfCluster
<1>3. ASSUME NEW d \in OfCluster, d # c
      PROVE  dep' = dep /\ comps'[d] = comps[d]
  BY <1>1, <1>3 DEF CleanFacts, OneComponent, OtherRows, OfCluster
<1>4. ASSUME NEW u \in DOMAIN tasks'
      PROVE  TaskFacts(tasks[u])'
  <2>1. CASE tasks'[u].row = c
    BY <2>1
  <2>2. CASE tasks'[u].row # c
    <3>1. PICK t \in DOMAIN tasks : tasks[t] = tasks'[u]
      BY <2>2 DEF Elsewhere
    <3>2. PICK d : d = tasks[t].row
      OBVIOUS
    <3>3. TaskRelies(tasks[t], d \in OfCluster, comps[d].copy, dep)
      BY <1>1, <3>2 DEF CleanFacts, TaskFacts
    <3>4. d # c /\ (d \in OfCluster' <=> d \in OfCluster)
      BY <1>2, <2>2, <3>1, <3>2
    <3>5. TaskRelies(tasks[t], d \in OfCluster', comps'[d].copy, dep')
      <4>1. CASE d \in OfCluster
        BY <1>3, <3>3, <3>4, <4>1
      <4>2. CASE d \notin OfCluster
        BY <3>3, <3>4, <4>2 DEF TaskRelies
      <4> QED BY <4>1, <4>2
    <3> QED BY <3>1, <3>2, <3>5 DEF TaskFacts
  <2> QED BY <2>1, <2>2
<1>5. ASSUME NEW d \in OfCluster'
      PROVE  Busy(d)' \/ RestFacts(d)'
  <2>1. CASE d = c
    BY <2>1, <1>5
  <2>2. CASE d # c
    <3>1. d \in OfCluster
      BY <1>2, <1>5, <2>2
    <3>2. dep' = dep /\ comps'[d] = comps[d]
      BY <1>3, <2>2, <3>1
    <3>3. CASE Busy(d)
      <4>1. PICK t \in DOMAIN tasks : tasks[t].row = d
        BY <3>3 DEF Busy
      <4>2. \E u \in DOMAIN tasks' : tasks'[u] = tasks[t]
        BY <2>2, <4>1 DEF Elsewhere
      <4> QED BY <4>1, <4>2 DEF Busy
    <3>4. CASE RestFacts(d)
      BY <3>2, <3>4 DEF RestFacts
    <3> QED BY <1>1, <3>1, <3>3, <3>4 DEF CleanFacts
  <2> QED BY <2>1, <2>2
<1> QED BY <1>4, <1>5 DEF CleanFacts

\* A step that leaves the rows, the tasks and what is deployed alone.
LEMMA CompStands ==
  ASSUME CompInv, comps' = comps, tasks' = tasks,
         Clean' => Clean /\ dep' = dep,
         CompTypes', Clean' => (UpdateFacts /\ OneComponent => UpdateFacts' /\ OneComponent')
  PROVE  CompInv'
<1>1. ChangingHasTask'
  BY DEF CompInv, ChangingHasTask, Busy
<1>2. ASSUME Clean' PROVE CleanFacts'
  <2>1. Clean /\ CleanFacts /\ dep' = dep
    BY <1>2 DEF CompInv
  <2>2. OfCluster' = OfCluster /\ \A c : Busy(c)' = Busy(c) /\ RestFacts(c)' = RestFacts(c)
    BY <2>1 DEF OfCluster, Busy, RestFacts
  <2>3. \A t \in DOMAIN tasks : TaskFacts(tasks[t])'
    BY <2>1, <2>2 DEF CleanFacts, TaskFacts
  <2>4. OneTask(tasks') /\ OneComponent' /\ UpdateFacts'
    BY <1>2, <2>1 DEF CleanFacts
  <2> QED BY <2>1, <2>2, <2>3, <2>4 DEF CleanFacts
<1> QED BY <1>1, <1>2 DEF CompInv

\* The components at first.
LEMMA CompInitHolds ==
  ASSUME Init, undeployed = FALSE
  PROVE  CompInv
<1>1. NoCopy \in Copy /\ Nothing \in DepType
  BY ComponentsAssumption DEF NoCopy, Copy, Status, Nothing, DepType
<1>2. NoRequest \in ReqType
  BY <1>1 DEF NoRequest, ReqType, Kinds
<1>3. comps = <<>> /\ tasks = <<>>
  BY DEF Init
<1>4. CompTypes
  <2>1. driver \in {"helm", "kubectl"}
    BY ComponentsAssumption DEF Init
  <2>2. req \in [Locks -> ReqType] /\ \A l \in Locks : req[l].kind = "none"
    BY <1>2 DEF Init, NoRequest
  <2>3. "component" \in Locks
    BY DEF Locks
  <2>4. comps \in Seq(RowType) /\ tasks \in Seq(TaskType) /\ DOMAIN tasks = {}
    BY <1>3
  <2>5. dep \in DepType /\ ~overlap /\ ~dropped /\ undeployed = FALSE
    BY <1>1 DEF Init
  <2>6. overlap \in BOOLEAN /\ dropped \in BOOLEAN
    BY DEF Init
  <2> QED BY <2>1, <2>2, <2>3, <2>4, <2>5, <2>6 DEF CompTypes
<1>5. DOMAIN comps = {} /\ DOMAIN tasks = {} /\ dep = Nothing /\ req["cluster"].kind = "none"
  BY <1>3 DEF Init, Locks, NoRequest
<1>6. OfCluster = {}
  BY <1>5 DEF OfCluster
<1> QED BY <1>4, <1>5, <1>6 DEF CompInv, ChangingHasTask, CleanFacts, OneTask, OneComponent, UpdateFacts

-----------------------------------------------------------------------------
(* Components: requests *)

\* Loading a component, when an update is loaded of a component that is there.
LEMMA LoadStep ==
  ASSUME CompInv, NEW l \in Locks, NEW kind \in Kinds \ {"insert"}, NEW c \in DOMAIN comps,
         Load(l, kind, c), undeployed' = undeployed,
         l = "component" => kind \in {"none", "enable", "disable"}
  PROVE  CompInv'
<1> DEFINE r == [kind |-> kind, row |-> c, copy |-> comps[c].copy]
<1>1. /\ UNCHANGED <<driver, comps, dep, tasks, overlap, dropped, undeployed>>
      /\ req' = [req EXCEPT ![l] = r]
  BY DEF Load, history
<1>2. comps \in Seq(RowType) /\ comps[c] \in RowType /\ c \in Nat
  BY DEF CompInv, CompTypes
<1>3. r \in ReqType /\ r.row = c /\ r.kind = kind /\ r.copy = comps[c].copy
  BY <1>2 DEF ReqType, RowType
<1> HIDE DEF r
<1>4. req' \in [Locks -> ReqType] /\ \A x \in Locks : req'[x] = IF x = l THEN r ELSE req[x]
  BY <1>1, <1>3 DEF CompInv, CompTypes
<1>5. CompTypes'
  <2>1. \A x \in Locks : req'[x].kind # "none" => req'[x].row \in DOMAIN comps
    BY <1>3, <1>4 DEF CompInv, CompTypes
  <2>2. req'["component"].kind \in {"none", "enable", "disable"}
    BY <1>3, <1>4 DEF CompInv, CompTypes, Locks
  <2> QED BY <1>1, <1>4, <2>1, <2>2 DEF CompInv, CompTypes
<1>6. OfCluster' = OfCluster /\ Clean' = Clean
  BY <1>1 DEF OfCluster, Clean
<1>7. "cluster" \in Locks
  BY DEF Locks
<1>8. UpdateFacts => UpdateFacts'
  <2>1. CASE l = "cluster"
    <3>1. req'["cluster"].row = c /\ req'["cluster"].copy = comps[c].copy
      BY <1>3, <1>4, <1>7, <2>1
    <3> QED BY <1>1, <3>1 DEF UpdateFacts
  <2>2. CASE l # "cluster"
    <3>1. req'["cluster"] = req["cluster"]
      BY <1>4, <1>7, <2>2
    <3> QED BY <1>1, <1>6, <3>1 DEF UpdateFacts
  <2> QED BY <2>1, <2>2
<1>9. OneComponent => OneComponent'
  <2>1. req'["cluster"].kind = "insert" => req["cluster"].kind = "insert"
    BY <1>3, <1>4, <1>7
  <2> QED BY <1>1, <1>6, <2>1 DEF OneComponent
<1> QED BY <1>1, <1>5, <1>6, <1>8, <1>9, CompStands

\* A request that is refused.
LEMMA RefuseStep ==
  ASSUME CompInv, NEW l \in Locks, Refuse(l), undeployed' = undeployed
  PROVE  CompInv'
<1>1. /\ UNCHANGED <<driver, comps, dep, tasks, overlap, dropped, undeployed>>
      /\ req' = [req EXCEPT ![l] = NoRequest]
  BY DEF Refuse, history
<1>2. NoRequest \in ReqType /\ NoRequest.kind = "none"
  BY ComponentsAssumption DEF NoRequest, ReqType, Kinds, NoCopy, Copy, Status
<1>3. req' \in [Locks -> ReqType]
      /\ \A x \in Locks : req'[x] = IF x = l THEN NoRequest ELSE req[x]
  BY <1>1, <1>2 DEF CompInv, CompTypes
<1>4. CompTypes'
  <2>1. \A x \in Locks : req'[x].kind # "none" => req'[x].row \in DOMAIN comps
    BY <1>2, <1>3 DEF CompInv, CompTypes
  <2>2. req'["component"].kind \in {"none", "enable", "disable"}
    BY <1>2, <1>3 DEF CompInv, CompTypes, Locks
  <2> QED BY <1>1, <1>3, <2>1, <2>2 DEF CompInv, CompTypes
<1>5. OfCluster' = OfCluster /\ Clean' = Clean
  BY <1>1 DEF OfCluster, Clean
<1>6. req'["cluster"] = req["cluster"] \/ req'["cluster"].kind = "none"
  BY <1>2, <1>3 DEF Locks
<1>7. (UpdateFacts => UpdateFacts') /\ (OneComponent => OneComponent')
  BY <1>1, <1>5, <1>6 DEF UpdateFacts, OneComponent
<1> QED BY <1>1, <1>4, <1>5, <1>7, CompStands

\* A request that is accepted: its columns are written and a task is added.
LEMMA AcceptStep ==
  ASSUME CompInv, NEW l \in Locks, NEW type \in TaskTypes, NEW new \in Copy,
         Accept(l, type, new), undeployed' = undeployed, req[l].kind # "none",
         type = "deploy" => new.enabled /\ ~req[l].copy.enabled,
         type = "update" => /\ l = "cluster" /\ req[l].kind = "update"
                            /\ new.enabled /\ req[l].copy.enabled,
         l = "component" => new.enabled \/ new.enabled = req[l].copy.enabled
  PROVE  CompInv'
<1> PICK c : c = req[l].row
  OBVIOUS
<1> DEFINE e == [status |-> IF new.status = req[l].copy.status THEN comps[c].copy.status ELSE new.status,
                 enabled |-> IF new.enabled = req[l].copy.enabled THEN comps[c].copy.enabled ELSE new.enabled,
                 setting |-> IF new.setting = req[l].copy.setting THEN comps[c].copy.setting ELSE new.setting]
           k == [type |-> type, row |-> c, stage |-> "init", copy |-> NoCopy]
<1>1. /\ SetColumns(c, e) /\ tasks' = Append(tasks, k)
      /\ overlap' = (overlap \/ Busy(c)) /\ req' = [req EXCEPT ![l] = NoRequest]
      /\ UNCHANGED <<driver, dep, dropped, undeployed>>
  BY DEF Accept, NewTask
<1>2. /\ c \in DOMAIN comps /\ c \in Nat /\ comps \in Seq(RowType) /\ comps[c] \in RowType
      /\ tasks \in Seq(TaskType) /\ req[l] \in ReqType
  BY DEF CompInv, CompTypes
<1>3. e \in Copy /\ comps[c].copy \in Copy /\ req[l].copy \in Copy
  <2>1. comps[c].copy \in Copy /\ req[l].copy \in Copy
    BY <1>2 DEF RowType, ReqType
  <2> QED BY <2>1 DEF Copy
<1>4. /\ (new.enabled /\ ~req[l].copy.enabled) => e.enabled
      /\ new.enabled = req[l].copy.enabled => e.enabled = comps[c].copy.enabled
      /\ new.enabled => e.enabled \/ e.enabled = comps[c].copy.enabled
  BY <1>3 DEF Copy
<1>5. k \in TaskType /\ k.row = c /\ k.type = type /\ k.stage = "init"
  BY <1>2, ComponentsAssumption DEF TaskType, TaskStages, NoCopy, Copy, Status
<1> HIDE DEF e, k
<1>6. /\ comps' \in Seq(RowType) /\ OtherRows(comps, comps', c)
      /\ comps'[c].live = comps[c].live /\ comps'[c].joint = comps[c].joint
      /\ comps[c].live => comps'[c].copy = e
  BY <1>1, <1>2, <1>3, ColumnsFacts DEF CompInv
<1>7. /\ HasTask(tasks, tasks', k, c)
      /\ (OneTask(tasks) /\ \A t \in DOMAIN tasks : tasks[t].row # c) => OnlyTask(tasks', k, c)
  <2>1. tasks \in Seq(TaskType) /\ k \in TaskType /\ k.row = c /\ tasks' = Append(tasks, k)
    BY <1>1, <1>2, <1>5
  <2> QED BY <2>1, TaskComes
<1>8. NoRequest \in ReqType /\ NoRequest.kind = "none"
  BY ComponentsAssumption DEF NoRequest, ReqType, Kinds, NoCopy, Copy, Status
<1>9. req' \in [Locks -> ReqType]
      /\ \A x \in Locks : req'[x] = IF x = l THEN NoRequest ELSE req[x]
  BY <1>1, <1>8 DEF CompInv, CompTypes
<1>10. CompTypes'
  <2>1. \A x \in Locks : req'[x].kind # "none" => req'[x].row \in DOMAIN comps'
    BY <1>6, <1>8, <1>9 DEF CompInv, CompTypes, OtherRows
  <2>2. req'["component"].kind \in {"none", "enable", "disable"}
    BY <1>8, <1>9 DEF CompInv, CompTypes, Locks
  <2>3. \A t \in DOMAIN tasks' : tasks'[t].row \in DOMAIN comps'
    BY <1>2, <1>5, <1>6, <1>7 DEF CompInv, CompTypes, OtherRows, HasTask
  <2>4. overlap' \in BOOLEAN
    BY <1>1
  <2> QED BY <1>1, <1>6, <1>7, <1>9, <2>1, <2>2, <2>3, <2>4 DEF CompInv, CompTypes, HasTask
<1>11. Busy(c)'
  BY <1>5, <1>7 DEF Busy, HasTask
<1>12. ChangingHasTask'
  BY <1>6, <1>7, <1>11, ChangingKept DEF CompInv, HasTask
<1>13. OfCluster' = OfCluster
  BY <1>2, <1>6 DEF OfCluster, OtherRows
<1>14. ASSUME Clean'
       PROVE  CleanFacts'
  <2>1. Clean /\ ~Busy(c)
    <3>1. ~overlap' /\ ~dropped' /\ ~undeployed'
      BY <1>14 DEF Clean
    <3>2. ~overlap /\ ~Busy(c)
      BY <1>1, <3>1, Zenon
    <3>3. ~dropped /\ ~undeployed
      BY <1>1, <3>1
    <3> QED BY <3>2, <3>3 DEF Clean
  <2>2. CleanFacts
    BY <2>1 DEF CompInv
  <2>3. OneTask(tasks') /\ \A u \in DOMAIN tasks' : tasks'[u].row = c => tasks'[u] = k
    BY <1>7, <2>1, <2>2 DEF CleanFacts, Busy, OnlyTask
  <2>4. OneComponent'
    <3>1. req'["cluster"].kind = "insert" => req["cluster"].kind = "insert"
      BY <1>8, <1>9 DEF Locks
    <3> QED BY <1>1, <1>13, <2>2, <3>1 DEF CleanFacts, OneComponent
  <2>5. UpdateFacts'
    <3>1. CASE l = "cluster"
      BY <1>8, <1>9, <3>1 DEF UpdateFacts
    <3>2. CASE l # "cluster"
      <4>1. l = "component" /\ req'["cluster"] = req["cluster"]
        BY <1>9, <3>2 DEF Locks
      <4>2. e.enabled \/ e.enabled = comps[c].copy.enabled
        BY <1>4, <4>1
      <4>3. ASSUME NEW d \in OfCluster, comps[d].copy.enabled
            PROVE  comps'[d].copy.enabled
        BY <1>6, <4>2, <4>3 DEF OfCluster, OtherRows
      <4> QED BY <1>1, <1>13, <2>2, <4>1, <4>3 DEF CleanFacts, UpdateFacts
    <3> QED BY <3>1, <3>2
  <2>6. TaskRelies(k, c \in OfCluster, comps'[c].copy, dep)
    <3>1. CASE c \notin OfCluster
      BY <1>5, <3>1 DEF TaskRelies
    <3>2. CASE c \in OfCluster
      <4>1. comps'[c].copy = e
        BY <1>6, <3>2 DEF OfCluster
      <4>2. type = "deploy" => e.enabled
        BY <1>4
      <4>3. type = "update" => e.enabled \/ dep = Nothing
        BY <1>4, <2>2, <3>2 DEF CleanFacts, UpdateFacts
      <4> QED BY <1>5, <4>1, <4>2, <4>3 DEF TaskRelies
    <3> QED BY <3>1, <3>2
  <2>7. ASSUME NEW u \in DOMAIN tasks', tasks'[u].row = c
        PROVE  TaskFacts(tasks[u])'
    BY <1>1, <1>5, <1>13, <2>3, <2>6, <2>7 DEF TaskFacts
  <2>8. Elsewhere(tasks, tasks', c)
    BY <1>7 DEF HasTask
  <2> QED BY <1>1, <1>6, <1>11, <2>1, <2>3, <2>4, <2>5, <2>7, <2>8, CleanKept
<1> QED BY <1>10, <1>12, <1>14 DEF CompInv

\* Enabling, disabling, deleting and updating.
LEMMA AcceptedSteps ==
  ASSUME CompInv, NEW l \in Locks, undeployed' = undeployed,
         DoEnable(l) \/ DoDisable(l) \/ DoDelete(l) \/ DoUpdate(l)
  PROVE  CompInv'
<1> DEFINE copy == req[l].copy
<1>1. copy \in Copy /\ req[l].kind \in Kinds
  BY DEF CompInv, CompTypes, ReqType
<1>2. l \in {"cluster", "component"} /\ req["component"].kind \in {"none", "enable", "disable"}
  BY DEF Locks, CompInv, CompTypes
<1>3. CASE DoEnable(l)
  <2>1. /\ [copy EXCEPT !.enabled = TRUE, !.status = "deploying"] \in Copy
        /\ [copy EXCEPT !.enabled = TRUE, !.status = "deploying"].enabled
    BY <1>1 DEF Copy, Status
  <2>2. "deploy" \in TaskTypes
    BY DEF TaskTypes
  <2> HIDE DEF CompInv, Accept
  <2> QED BY <1>3, <2>1, <2>2, AcceptStep DEF DoEnable, Ready
<1>4. CASE DoDisable(l)
  <2>1. /\ [copy EXCEPT !.status = "undeploying"] \in Copy
        /\ [copy EXCEPT !.status = "undeploying"].enabled = copy.enabled
    BY <1>1 DEF Copy, Status
  <2>2. "undeploy" \in TaskTypes
    BY DEF TaskTypes
  <2> HIDE DEF CompInv, Accept
  <2> QED BY <1>4, <2>1, <2>2, AcceptStep DEF DoDisable, Ready
<1>5. CASE DoDelete(l)
  <2>1. [copy EXCEPT !.enabled = FALSE, !.status = "deleting"] \in Copy
    BY <1>1 DEF Copy, Status
  <2>2. "delete" \in TaskTypes
    BY DEF TaskTypes
  <2>3. l # "component"
    BY <1>2, <1>5 DEF DoDelete, Ready
  <2> HIDE DEF CompInv, Accept
  <2> QED BY <1>5, <2>1, <2>2, <2>3, AcceptStep DEF DoDelete, Ready
<1>6. CASE DoUpdate(l)
  <2>1. /\ [copy EXCEPT !.setting = @ + 1, !.status = "updating"] \in Copy
        /\ [copy EXCEPT !.setting = @ + 1, !.status = "updating"].enabled = copy.enabled
    <3>1. copy.setting \in 1..MaxSettings /\ copy.setting < MaxSettings /\ MaxSettings \in Nat
      BY <1>1, <1>6, ComponentsAssumption DEF Copy, DoUpdate
    <3>2. copy.setting + 1 \in 1..MaxSettings
      BY <3>1
    <3> QED BY <1>1, <3>2 DEF Copy, Status
  <2>2. "update" \in TaskTypes
    BY DEF TaskTypes
  <2>3. l = "cluster"
    BY <1>2, <1>6 DEF DoUpdate, Ready
  <2> HIDE DEF CompInv, Accept
  <2> QED BY <1>6, <2>1, <2>2, <2>3, AcceptStep DEF DoUpdate, Ready
<1> QED BY <1>3, <1>4, <1>5, <1>6

\* Loading a component through its cluster or by its id.
LEMMA LoadSteps ==
  ASSUME CompInv, NEW kind \in Kinds \ {"insert", "none"},
         GetComponentByType(kind) \/ FetchById(kind), undeployed' = undeployed
  PROVE  CompInv'
<1>1. "cluster" \in Locks /\ "component" \in Locks /\ "cluster" # "component"
  BY DEF Locks
<1>2. CASE GetComponentByType(kind)
  <2>1. PICK c \in DOMAIN comps : Load("cluster", kind, c)
    BY <1>2 DEF GetComponentByType, OfCluster
  <2> HIDE DEF CompInv, Load
  <2> QED BY <1>1, <2>1, LoadStep
<1>3. CASE FetchById(kind)
  <2>1. PICK c \in DOMAIN comps : Load("component", kind, c)
    BY <1>3 DEF FetchById
  <2>2. kind \in {"enable", "disable"}
    BY <1>3 DEF FetchById
  <2> HIDE DEF CompInv, Load
  <2> QED BY <1>1, <2>1, <2>2, LoadStep
<1> QED BY <1>2, <1>3

\* What a request under the cluster's lock leaves of the requests.
LEMMA ClusterRequest ==
  ASSUME CompInv, NEW v \in ReqType, req' = [req EXCEPT !["cluster"] = v],
         DOMAIN comps \subseteq DOMAIN comps', v.kind # "none" => v.row \in DOMAIN comps'
  PROVE  /\ req' \in [Locks -> ReqType] /\ req'["cluster"] = v
         /\ \A l \in Locks : req'[l].kind # "none" => req'[l].row \in DOMAIN comps'
         /\ req'["component"].kind \in {"none", "enable", "disable"}
<1>1. req' \in [Locks -> ReqType]
      /\ \A l \in Locks : req'[l] = IF l = "cluster" THEN v ELSE req[l]
  BY DEF CompInv, CompTypes
<1>2. "cluster" \in Locks /\ "component" \in Locks
  BY DEF Locks
<1>3. req'["cluster"] = v /\ req'["component"] = req["component"]
  BY <1>1, <1>2
<1>4. \A l \in Locks : req'[l].kind # "none" => req'[l].row \in DOMAIN comps'
  BY <1>1 DEF CompInv, CompTypes
<1> QED BY <1>1, <1>3, <1>4 DEF CompInv, CompTypes

\* A request at rest.
LEMMA NoRequestType == NoRequest \in ReqType /\ NoRequest.kind = "none" /\ NoCopy \in Copy
BY ComponentsAssumption DEF NoRequest, ReqType, Kinds, NoCopy, Copy, Status

\* A component that is inserted.
LEMMA CreateByClusterStep ==
  ASSUME CompInv, CreateByCluster, undeployed' = undeployed
  PROVE  CompInv'
<1> DEFINE e == [joint |-> FALSE, live |-> TRUE, copy |-> NoCopy]
           v == [kind |-> "insert", row |-> Len(comps) + 1, copy |-> NoCopy]
<1>1. /\ comps' = Append(comps, e) /\ req' = [req EXCEPT !["cluster"] = v]
      /\ OfCluster = {}
      /\ UNCHANGED <<driver, dep, tasks, overlap, dropped, undeployed>>
  BY DEF CreateByCluster, history
<1>2. comps \in Seq(RowType) /\ e \in RowType /\ v \in ReqType
      /\ v.kind = "insert" /\ v.row = Len(comps) + 1 /\ e.joint = FALSE
      /\ e.copy.status = "init"
  <2>1. comps \in Seq(RowType) /\ Len(comps) + 1 \in Nat
    BY DEF CompInv, CompTypes
  <2> QED BY <2>1, NoRequestType DEF RowType, ReqType, Kinds, NoCopy
<1> HIDE DEF e, v
<1>3. /\ comps' \in Seq(RowType) /\ DOMAIN comps' = DOMAIN comps \cup {Len(comps) + 1}
      /\ Len(comps) + 1 \notin DOMAIN comps
      /\ \A d \in DOMAIN comps : comps'[d] = comps[d]
      /\ comps'[Len(comps) + 1] = e
  BY <1>1, <1>2, AppendFacts
<1>4. CompTypes'
  <2>1. /\ req' \in [Locks -> ReqType] /\ req'["cluster"] = v
        /\ \A l \in Locks : req'[l].kind # "none" => req'[l].row \in DOMAIN comps'
        /\ req'["component"].kind \in {"none", "enable", "disable"}
    BY <1>1, <1>2, <1>3, ClusterRequest
  <2>2. \A t \in DOMAIN tasks' : tasks'[t].row \in DOMAIN comps'
    BY <1>1, <1>3 DEF CompInv, CompTypes
  <2> QED BY <1>1, <1>3, <2>1, <2>2 DEF CompInv, CompTypes
<1>5. ChangingHasTask'
  <2>1. \A d : Busy(d)' <=> Busy(d)
    BY <1>1 DEF Busy
  <2>2. "init" \notin Changing
    BY DEF Changing
  <2> QED BY <1>2, <1>3, <2>1, <2>2 DEF CompInv, ChangingHasTask
<1>6. OfCluster' = {}
  BY <1>1, <1>2, <1>3 DEF OfCluster
<1>7. ASSUME Clean'
      PROVE  CleanFacts'
  <2>1. CleanFacts
    BY <1>1, <1>7 DEF Clean, CompInv
  <2>2. OneComponent'
    BY <1>1, <1>6, <2>1 DEF CleanFacts, OneComponent
  <2>3. UpdateFacts'
    BY <1>6 DEF UpdateFacts
  <2>4. ASSUME NEW t \in DOMAIN tasks
        PROVE  TaskFacts(tasks[t])'
    <3>1. PICK d : d = tasks[t].row
      OBVIOUS
    <3>2. d \in DOMAIN comps /\ comps'[d] = comps[d]
      BY <1>3, <3>1 DEF CompInv, CompTypes
    <3>3. TaskRelies(tasks[t], d \in OfCluster, comps[d].copy, dep)
      BY <2>1, <3>1 DEF CleanFacts, TaskFacts
    <3>4. TaskRelies(tasks[t], d \in OfCluster', comps'[d].copy, dep)
      BY <1>1, <1>6, <3>2, <3>3
    <3> QED BY <1>1, <3>1, <3>4 DEF TaskFacts
  <2> QED BY <1>1, <1>6, <2>1, <2>2, <2>3, <2>4 DEF CleanFacts
<1> QED BY <1>4, <1>5, <1>7 DEF CompInv

\* Its joint row is saved, and it is deployed.
LEMMA SaveJointStep ==
  ASSUME CompInv, SaveJoint, undeployed' = undeployed
  PROVE  CompInv'
<1> PICK c : c = req["cluster"].row
  OBVIOUS
<1>1. /\ req["cluster"].kind = "insert" /\ req' = [req EXCEPT !["cluster"] = NoRequest]
      /\ UNCHANGED <<driver, dep, dropped, undeployed>>
  BY DEF SaveJoint
<1>2. "cluster" \in Locks /\ "component" \in Locks
  BY DEF Locks
<1>3. c \in DOMAIN comps /\ c \in Nat /\ comps \in Seq(RowType) /\ comps[c] \in RowType
      /\ tasks \in Seq(TaskType)
  BY <1>1, <1>2 DEF CompInv, CompTypes
<1>4. CASE UNCHANGED <<comps, tasks, overlap>>
  <2>1. /\ req' \in [Locks -> ReqType] /\ req'["cluster"] = NoRequest
        /\ \A l \in Locks : req'[l].kind # "none" => req'[l].row \in DOMAIN comps'
        /\ req'["component"].kind \in {"none", "enable", "disable"}
    BY <1>1, <1>4, NoRequestType, ClusterRequest
  <2>2. CompTypes'
    BY <1>1, <1>4, <2>1 DEF CompInv, CompTypes
  <2>3. UpdateFacts' /\ (OneComponent => OneComponent')
    BY <1>1, <1>4, <2>1, NoRequestType DEF UpdateFacts, OneComponent, OfCluster
  <2>4. Clean' => Clean
    BY <1>1, <1>4 DEF Clean
  <2> QED BY <1>1, <1>4, <2>2, <2>3, <2>4, CompStands
<1>5. CASE /\ comps' = [comps EXCEPT ![c].joint = TRUE,
                         ![c].copy = IF comps[c].live
                                     THEN [@ EXCEPT !.enabled = TRUE, !.status = "deploying"]
                                     ELSE @]
           /\ NewTask("deploy", c) /\ overlap' = (overlap \/ Busy(c))
  <2> DEFINE new == [comps[c].copy EXCEPT !.enabled = TRUE, !.status = "deploying"]
             e == [joint |-> TRUE, live |-> comps[c].live,
                   copy |-> IF comps[c].live THEN new ELSE comps[c].copy]
             k == [type |-> "deploy", row |-> c, stage |-> "init", copy |-> NoCopy]
  <2>1. comps' = [comps EXCEPT ![c] = e]
    <3> DEFINE w == IF comps[c].live THEN new ELSE comps[c].copy
    <3>1. PICK x \in BOOLEAN : x = TRUE
      OBVIOUS
    <3>2. [comps EXCEPT ![c].joint = x, ![c].copy = w] = [comps EXCEPT ![c] = e]
      <4> DEFINE y == [comps EXCEPT ![c].joint = x]
                 z == [comps[c] EXCEPT !.joint = x]
      <4>1. e = [joint |-> x, live |-> comps[c].live, copy |-> w]
        BY <3>1
      <4> HIDE DEF w, e
      <4>2. [z EXCEPT !.copy = w] = e
        BY <1>3, <4>1, RowWith
      <4>3. y = [comps EXCEPT ![c] = z]
        OBVIOUS
      <4>4. [comps EXCEPT ![c].joint = x, ![c].copy = w] = [y EXCEPT ![c].copy = w]
        OBVIOUS
      <4> HIDE DEF z
      <4>5. y[c] = z
        BY <1>3, <4>3
      <4>6. [y EXCEPT ![c].copy = w] = [y EXCEPT ![c] = e]
        BY <4>2, <4>5
      <4> HIDE DEF y
      <4>7. [y EXCEPT ![c] = e] = [comps EXCEPT ![c] = e]
        BY <1>3, <4>3
      <4> QED BY <4>4, <4>6, <4>7
    <3>3. comps' = [comps EXCEPT ![c].joint = x, ![c].copy = w]
      <4>1. [comps EXCEPT ![c].joint = x][c].copy = comps[c].copy
        BY <1>3 DEF RowType
      <4>2. CASE comps[c].live
        BY <1>5, <3>1, <4>1, <4>2
      <4>3. CASE ~comps[c].live
        BY <1>5, <3>1, <4>1, <4>3
      <4> QED BY <4>2, <4>3
    <3> QED BY <3>2, <3>3
  <2>2. new \in Copy /\ new.enabled
    BY <1>3 DEF RowType, Copy, Status
  <2>3. /\ e \in RowType /\ e.live = comps[c].live /\ (comps[c].live => e.copy.enabled)
        /\ e.joint = TRUE
    <3> HIDE DEF new
    <3> QED BY <1>3, <2>2 DEF RowType
  <2>4. k \in TaskType /\ k.row = c /\ k.type = "deploy" /\ k.stage = "init"
    BY <1>3, NoRequestType DEF TaskType, TaskStages, TaskTypes
  <2>5. tasks' = Append(tasks, k)
    BY <1>5 DEF NewTask
  <2> HIDE DEF new, e, k
  <2>6. /\ comps' \in Seq(RowType) /\ DOMAIN comps' = DOMAIN comps
        /\ \A d \in DOMAIN comps : comps'[d] = IF d = c THEN e ELSE comps[d]
    BY <1>3, <2>1, <2>3, ReplaceFacts
  <2>7. OtherRows(comps, comps', c)
    BY <2>6 DEF OtherRows
  <2>8. /\ HasTask(tasks, tasks', k, c)
        /\ (OneTask(tasks) /\ \A t \in DOMAIN tasks : tasks[t].row # c) => OnlyTask(tasks', k, c)
    <3>1. tasks \in Seq(TaskType) /\ k \in TaskType /\ k.row = c /\ tasks' = Append(tasks, k)
      BY <1>3, <2>4, <2>5
    <3> QED BY <3>1, TaskComes
  <2>9. /\ req' \in [Locks -> ReqType] /\ req'["cluster"] = NoRequest
        /\ \A l \in Locks : req'[l].kind # "none" => req'[l].row \in DOMAIN comps'
        /\ req'["component"].kind \in {"none", "enable", "disable"}
    BY <1>1, <2>6, NoRequestType, ClusterRequest
  <2>10. CompTypes'
    <3>1. \A t \in DOMAIN tasks' : tasks'[t].row \in DOMAIN comps'
      BY <1>3, <2>4, <2>6, <2>8 DEF CompInv, CompTypes, HasTask
    <3>2. overlap' \in BOOLEAN
      BY <1>5
    <3> QED BY <1>1, <2>6, <2>8, <2>9, <3>1, <3>2 DEF CompInv, CompTypes, HasTask
  <2>11. Busy(c)'
    BY <2>4, <2>8 DEF Busy, HasTask
  <2>12. ChangingHasTask'
    BY <2>7, <2>8, <2>11, ChangingKept DEF CompInv, HasTask
  <2>13. ASSUME Clean'
         PROVE  CleanFacts'
    <3>1. Clean /\ ~Busy(c)
      <4>1. ~overlap' /\ ~dropped' /\ ~undeployed'
        BY <2>13 DEF Clean
      <4>2. ~overlap /\ ~Busy(c)
        BY <1>5, <4>1, Zenon
      <4>3. ~dropped /\ ~undeployed
        BY <1>1, <4>1
      <4> QED BY <4>2, <4>3 DEF Clean
    <3>2. CleanFacts
      BY <3>1 DEF CompInv
    <3>3. OneTask(tasks') /\ \A u \in DOMAIN tasks' : tasks'[u].row = c => tasks'[u] = k
      BY <2>8, <3>1, <3>2 DEF CleanFacts, Busy, OnlyTask
    <3>4. OfCluster = {} /\ dep = Nothing
      BY <1>1, <3>2 DEF CleanFacts, OneComponent
    <3>5. \A d \in OfCluster' : d = c /\ comps[c].live
      BY <2>3, <2>6, <3>4 DEF OfCluster
    <3>6. OneComponent'
      BY <1>1, <2>9, <3>4, <3>5, NoRequestType DEF OneComponent
    <3>7. UpdateFacts'
      BY <2>9, NoRequestType DEF UpdateFacts
    <3>8. TaskRelies(k, c \in OfCluster', comps'[c].copy, dep')
      <4>1. c \in OfCluster' => comps'[c].copy.enabled
        BY <1>3, <2>3, <2>6, <3>5
      <4> QED BY <2>4, <4>1 DEF TaskRelies
    <3>9. ASSUME NEW u \in DOMAIN tasks', tasks'[u].row = c
          PROVE  TaskFacts(tasks[u])'
      BY <2>4, <3>3, <3>8, <3>9 DEF TaskFacts
    <3>10. Elsewhere(tasks, tasks', c)
      BY <2>8 DEF HasTask
    <3> QED BY <1>1, <2>7, <2>11, <3>1, <3>3, <3>6, <3>7, <3>9, <3>10, CleanKept
  <2> QED BY <2>10, <2>12, <2>13 DEF CompInv
<1> QED BY <1>4, <1>5 DEF SaveJoint

\* A row is deleted by its id, or all of them with their cluster.
LEMMA DroppedSteps ==
  ASSUME CompInv, undeployed' = undeployed,
         DeleteAllComponents \/ \E c \in DOMAIN comps : DeleteById(c)
  PROVE  CompInv'
<1>1. /\ UNCHANGED <<driver, dep, req, tasks, overlap, undeployed>> /\ dropped' = TRUE
  BY DEF DeleteAllComponents, DeleteById
<1>2. comps \in Seq(RowType)
  BY DEF CompInv, CompTypes
<1>3. /\ comps' \in Seq(RowType) /\ DOMAIN comps' = DOMAIN comps
      /\ \A d \in DOMAIN comps : comps'[d] = comps[d] \/ comps'[d].live = FALSE
  <2>1. \A x \in RowType, a \in BOOLEAN :
          /\ [x EXCEPT !.live = a] \in RowType /\ [x EXCEPT !.live = a].live = a
    BY DEF RowType
  <2>2. PICK a \in BOOLEAN : a = FALSE
    OBVIOUS
  <2>3. CASE DeleteAllComponents
    <3> DEFINE f(c) == IF comps[c].joint THEN [comps[c] EXCEPT !.joint = a, !.live = a] ELSE comps[c]
    <3>1. comps' = [c \in DOMAIN comps |-> f(c)]
      BY <2>2, <2>3 DEF DeleteAllComponents
    <3>2. \A c \in DOMAIN comps : f(c) \in RowType /\ (f(c) = comps[c] \/ f(c).live = a)
      <4>1. ASSUME NEW c \in DOMAIN comps
            PROVE  f(c) \in RowType /\ (f(c) = comps[c] \/ f(c).live = a)
        <5>1. PICK x \in RowType : x = comps[c]
          BY <1>2
        <5>2. CASE x.joint
          BY <5>1, <5>2 DEF RowType
        <5>3. CASE ~x.joint
          BY <5>1, <5>3
        <5> QED BY <5>2, <5>3
      <4> HIDE DEF f
      <4> QED BY <4>1
    <3> HIDE DEF f
    <3>3. DOMAIN comps = 1..Len(comps) /\ Len(comps) \in Nat
      BY <1>2
    <3>4. comps' \in Seq(RowType)
      BY <3>1, <3>2, <3>3
    <3> QED BY <2>2, <3>1, <3>2, <3>4
  <2>4. ASSUME NEW c \in DOMAIN comps, DeleteById(c)
        PROVE  /\ comps' \in Seq(RowType) /\ DOMAIN comps' = DOMAIN comps
               /\ \A d \in DOMAIN comps : comps'[d] = comps[d] \/ comps'[d].live = FALSE
    <3> DEFINE e == [comps[c] EXCEPT !.live = a]
    <3>1. comps' = [comps EXCEPT ![c] = e]
      BY <2>2, <2>4 DEF DeleteById
    <3>2. e \in RowType /\ e.live = a
      <4>1. comps[c] \in RowType
        BY <1>2
      <4> QED BY <2>1, <4>1
    <3> HIDE DEF e
    <3> QED BY <1>2, <2>2, <3>1, <3>2, ReplaceFacts
  <2> QED BY <2>3, <2>4
<1>4. CompTypes'
  <2>1. dropped' \in BOOLEAN
    BY <1>1
  <2> QED BY <1>1, <1>3, <2>1 DEF CompInv, CompTypes
<1>5. \A d : Busy(d)' <=> Busy(d)
  BY <1>1 DEF Busy
<1>6. ChangingHasTask'
  BY <1>3, <1>5 DEF CompInv, ChangingHasTask
<1>7. ~Clean'
  BY <1>1 DEF Clean
<1> QED BY <1>4, <1>6, <1>7 DEF CompInv

-----------------------------------------------------------------------------
(* Components: tasks *)

\* A task goes on.
LEMMA MoveStep ==
  ASSUME CompInv, NEW t \in DOMAIN tasks, NEW c, c = tasks[t].row, NEW k \in TaskType, k.row = c,
         tasks' = [tasks EXCEPT ![t] = k],
         UNCHANGED <<driver, req, overlap, dropped, undeployed>>,
         comps' \in Seq(RowType), OtherRows(comps, comps', c), dep' \in DepType,
         comps'[c].live = comps[c].live, comps'[c].joint = comps[c].joint,
         Clean => /\ dep' = dep \/ c \in OfCluster
                  /\ TaskRelies(k, c \in OfCluster, comps'[c].copy, dep')
                  /\ (c \in OfCluster /\ (comps[c].copy.enabled \/ dep = Nothing)) =>
                       comps'[c].copy.enabled \/ dep' = Nothing
  PROVE  CompInv'
<1>1. tasks \in Seq(TaskType) /\ c \in DOMAIN comps
  BY DEF CompInv, CompTypes
<1>2. HasTask(tasks, tasks', k, c) /\ (OneTask(tasks) => OnlyTask(tasks', k, c))
  <2>1. tasks \in Seq(TaskType) /\ t \in DOMAIN tasks /\ k \in TaskType
        /\ tasks[t].row = c /\ k.row = c /\ tasks' = [tasks EXCEPT ![t] = k]
    BY <1>1
  <2> HIDE DEF CompInv
  <2> QED BY <2>1, TaskMoves
<1>3. CompTypes'
  <2>1. \A u \in DOMAIN tasks' : tasks'[u].row \in DOMAIN comps'
    BY <1>1, <1>2 DEF CompInv, CompTypes, OtherRows, HasTask
  <2> QED BY <1>2, <2>1 DEF CompInv, CompTypes, OtherRows, HasTask
<1>4. Busy(c)'
  BY <1>2 DEF Busy, HasTask
<1>5. ChangingHasTask'
  BY <1>2, <1>4, ChangingKept DEF CompInv, HasTask
<1>6. OfCluster' = OfCluster
  BY <1>1 DEF OfCluster, OtherRows
<1>7. ASSUME Clean'
      PROVE  CleanFacts'
  <2>1. Clean
    BY <1>7 DEF Clean
  <2>2. CleanFacts
    BY <2>1 DEF CompInv
  <2>3. OneTask(tasks') /\ \A u \in DOMAIN tasks' : tasks'[u].row = c => tasks'[u] = k
    BY <1>2, <2>2 DEF CleanFacts, OnlyTask
  <2>4. OneComponent'
    BY <1>6, <2>1, <2>2 DEF CleanFacts, OneComponent
  <2>5. UpdateFacts'
    <3>1. \A d \in OfCluster : d = c \/ (comps'[d] = comps[d] /\ dep' = dep)
      BY <2>1, <2>2 DEF CleanFacts, OneComponent, OtherRows, OfCluster
    <3> QED BY <1>6, <2>1, <2>2, <3>1 DEF CleanFacts, UpdateFacts
  <2>6. ASSUME NEW u \in DOMAIN tasks', tasks'[u].row = c
        PROVE  TaskFacts(tasks[u])'
    BY <1>6, <2>1, <2>3, <2>6 DEF TaskFacts
  <2>7. dep' = dep \/ c \in OfCluster
    BY <2>1
  <2>8. Elsewhere(tasks, tasks', c)
    BY <1>2 DEF HasTask
  <2> HIDE DEF CompInv, Clean
  <2> QED BY <1>4, <2>1, <2>3, <2>4, <2>5, <2>6, <2>7, <2>8, CleanKept
<1> QED BY <1>3, <1>5, <1>7 DEF CompInv

\* A task ends.
LEMMA EndStep ==
  ASSUME CompInv, NEW t \in DOMAIN tasks, NEW c, c = tasks[t].row, EndTask(t),
         UNCHANGED <<driver, req, dep, overlap, dropped, undeployed>>,
         comps' \in Seq(RowType), OtherRows(comps, comps', c),
         comps'[c].live => comps'[c].copy.status \notin Changing,
         c \in OfCluster' => c \in OfCluster,
         Clean => /\ c \in OfCluster' => RestFacts(c)'
                  /\ (c \in OfCluster' /\ (comps[c].copy.enabled \/ dep = Nothing)) =>
                       comps'[c].copy.enabled \/ dep = Nothing
                  /\ (c \in OfCluster /\ c \notin OfCluster') => dep = Nothing
  PROVE  CompInv'
<1>1. tasks \in Seq(TaskType) /\ c \in DOMAIN comps
  BY DEF CompInv, CompTypes
<1>2. TaskLess(tasks, tasks', c)
  <2>1. tasks' = RemoveAt(tasks, t)
    BY DEF EndTask
  <2>2. tasks \in Seq(TaskType) /\ t \in DOMAIN tasks /\ tasks[t].row = c
    BY <1>1
  <2> HIDE DEF CompInv
  <2> QED BY <2>1, <2>2, TaskGoes
<1>3. CompTypes'
  <2>1. \A u \in DOMAIN tasks' : tasks'[u].row \in DOMAIN comps'
    BY <1>1, <1>2 DEF CompInv, CompTypes, OtherRows, TaskLess
  <2> QED BY <1>2, <2>1 DEF CompInv, CompTypes, OtherRows, TaskLess
<1>4. ChangingHasTask'
  BY <1>2, ChangingKept DEF CompInv, TaskLess
<1>5. \A d : d # c => (d \in OfCluster' <=> d \in OfCluster)
  BY DEF OfCluster, OtherRows
<1>6. ASSUME Clean'
      PROVE  CleanFacts'
  <2>1. Clean
    BY <1>6 DEF Clean
  <2>2. CleanFacts
    BY <2>1 DEF CompInv
  <2>3. OneTask(tasks') /\ \A u \in DOMAIN tasks' : tasks'[u].row # c
    BY <1>2, <2>2 DEF CleanFacts, TaskLess
  <2>4. OneComponent'
    <3>1. \A d \in OfCluster' : d \in OfCluster
      BY <1>5
    <3>2. OfCluster' = {} => OfCluster = {} \/ (c \in OfCluster /\ c \notin OfCluster')
      BY <1>5
    <3> QED BY <2>1, <2>2, <3>1, <3>2 DEF CleanFacts, OneComponent
  <2>5. UpdateFacts'
    <3>1. \A d \in OfCluster' : d \in OfCluster /\ (d = c \/ comps'[d] = comps[d])
      BY <1>5 DEF OtherRows, OfCluster
    <3> QED BY <2>1, <2>2, <3>1 DEF CleanFacts, UpdateFacts
  <2>6. Elsewhere(tasks, tasks', c)
    BY <1>2 DEF TaskLess
  <2> QED BY <2>1, <2>3, <2>4, <2>5, <2>6, CleanKept
<1> QED BY <1>3, <1>4, <1>6 DEF CompInv

\* A result of a call of a driver: what is deployed then, and whether the call succeeded.
CallRelies(type, s, d, ok) ==
  /\ d \in DepType
  /\ (dep = Nothing /\ type # "deploy") => d = Nothing
  /\ ok => /\ type \in {"undeploy", "delete"} => d = Nothing
           /\ type = "deploy" => d = [ver |-> s, ok |-> TRUE]
           /\ type = "update" => dep # Nothing
           /\ (type = "update" /\ driver = "helm") => d = [ver |-> s, ok |-> TRUE]

\* What the calls of the drivers do.
LEMMA CallFacts ==
  ASSUME CompTypes, NEW type \in TaskTypes, NEW s \in 1..MaxSettings
  PROVE  /\ \A x \in Call(type, s) : CallRelies(type, s, x.dep, x.ok)
         /\ \A x \in CallBroken(type, s) : CallRelies(type, s, x.dep, FALSE)
<1>1. /\ driver \in {"helm", "kubectl"} /\ dep \in DepType
      /\ type \in {"deploy", "update", "undeploy", "delete"}
  BY DEF CompTypes, TaskTypes
<1>2. MaxSettings \in Nat /\ s \in 0..MaxSettings
  BY ComponentsAssumption
<1>3. Nothing \in DepType /\ Nothing.ver = 0 /\ Nothing.ok = FALSE
  BY <1>2 DEF Nothing, DepType
<1>4. \A b \in BOOLEAN : [ver |-> s, ok |-> b] \in DepType
  BY <1>2 DEF DepType
<1>5. [dep EXCEPT !.ok = FALSE] \in DepType
  BY <1>1 DEF DepType
<1>6. \A d : /\ Result(d, TRUE).dep = d /\ Result(d, TRUE).ok
            /\ Result(d, FALSE).dep = d /\ ~Result(d, FALSE).ok
            /\ Result(d, dep.ok).dep = d /\ Result(d, dep.ok).ok = dep.ok
  BY DEF Result
<1>7. dep.ok \in BOOLEAN
  BY <1>1 DEF DepType
<1> DEFINE up == [ver |-> s, ok |-> TRUE]
           half == [ver |-> s, ok |-> FALSE]
           less == [dep EXCEPT !.ok = FALSE]
<1>8. up \in DepType /\ half \in DepType /\ less \in DepType
  BY <1>4, <1>5
<1>9. CASE driver = "helm" /\ type = "deploy"
  <2>1. Call(type, s) = IF dep.ok THEN {Result(dep, FALSE)} ELSE {Result(up, TRUE)}
    BY <1>9 DEF Call, HelmInstall
  <2>2. CallBroken(type, s) = IF dep.ok THEN {Result(dep, FALSE)}
                              ELSE {Result(dep, FALSE), Result(Nothing, FALSE)}
    BY <1>9 DEF CallBroken, HelmInstallBroken
  <2> HIDE DEF up, Nothing, Result
  <2>3. \A x \in Call(type, s) : (x.dep = dep /\ ~x.ok) \/ x.dep = up
    <3>1. CASE dep.ok
      BY <1>6, <2>1, <3>1
    <3>2. CASE ~dep.ok
      BY <1>6, <2>1, <3>2
    <3> QED BY <3>1, <3>2
  <2>4. \A x \in CallBroken(type, s) : x.dep = dep \/ x.dep = Nothing
    BY <1>6, <2>2
  <2> QED BY <1>1, <1>3, <1>8, <1>9, <2>3, <2>4 DEF CallRelies, up
<1>10. CASE driver = "helm" /\ type = "update"
  <2>1. Call(type, s) = IF dep.ver = 0 THEN {Result(dep, FALSE)} ELSE {Result(up, TRUE)}
    BY <1>10 DEF Call, HelmUpdate
  <2>2. CallBroken(type, s) = IF dep.ver = 0 THEN {Result(dep, FALSE)}
                              ELSE {Result(dep, FALSE), Result(half, FALSE)}
    BY <1>10 DEF CallBroken, HelmUpdateBroken
  <2> HIDE DEF up, half, Nothing, Result
  <2>3. dep.ver # 0 => dep # Nothing
    BY <1>3
  <2>4. \A x \in Call(type, s) : (x.dep = dep /\ ~x.ok) \/ (x.dep = up /\ dep # Nothing)
    <3>1. CASE dep.ver = 0
      <4>1. Call(type, s) = {Result(dep, FALSE)}
        BY <2>1, <3>1
      <4> QED BY <1>6, <4>1
    <3>2. CASE dep.ver # 0
      BY <1>6, <2>1, <2>3, <3>2
    <3> QED BY <3>1, <3>2
  <2>5. \A x \in CallBroken(type, s) : x.dep = dep \/ (x.dep = half /\ dep # Nothing)
    <3>1. CASE dep.ver = 0
      <4>1. CallBroken(type, s) = {Result(dep, FALSE)}
        BY <2>2, <3>1
      <4> QED BY <1>6, <4>1
    <3>2. CASE dep.ver # 0
      BY <1>6, <2>2, <2>3, <3>2
    <3> QED BY <3>1, <3>2
  <2> QED BY <1>1, <1>3, <1>8, <1>10, <2>4, <2>5 DEF CallRelies, up
<1>11. CASE driver = "helm" /\ type \in {"undeploy", "delete"}
  <2>1. Call(type, s) = {Result(Nothing, TRUE)} /\ CallBroken(type, s) = {Result(dep, FALSE)}
    BY <1>11 DEF Call, HelmUninstall, CallBroken
  <2> HIDE DEF Nothing, Result
  <2>2. /\ \A x \in Call(type, s) : x.dep = Nothing
        /\ \A x \in CallBroken(type, s) : x.dep = dep
    BY <1>6, <2>1
  <2> QED BY <1>1, <1>3, <1>11, <2>2 DEF CallRelies
<1>12. CASE driver = "kubectl" /\ type = "deploy"
  <2>1. /\ Call(type, s) = {Result(up, TRUE)}
        /\ CallBroken(type, s) = {Result(dep, FALSE), Result(half, FALSE)}
    BY <1>12 DEF Call, KubectlApply, CallBroken, KubectlApplyBroken
  <2> HIDE DEF up, half, Nothing, Result
  <2>2. /\ \A x \in Call(type, s) : x.dep = up
        /\ \A x \in CallBroken(type, s) : x.dep = dep \/ x.dep = half
    BY <1>6, <2>1
  <2> QED BY <1>1, <1>3, <1>8, <1>12, <2>2 DEF CallRelies, up
<1>13. CASE driver = "kubectl" /\ type # "deploy"
  <2>1. Call(type, s) = {Result(Nothing, dep.ok)}
    BY <1>13 DEF Call, KubectlDelete
  <2>2. CallBroken(type, s) = {Result(dep, FALSE)} \cup
                                (IF dep.ver = 0 THEN {} ELSE {Result(less, FALSE)})
    BY <1>13 DEF CallBroken, KubectlDeleteBroken
  <2> HIDE DEF less, Nothing, Result
  <2>3. dep.ok => dep # Nothing
    BY <1>3
  <2>4. dep.ver # 0 => dep # Nothing
    BY <1>3
  <2>5. \A x \in Call(type, s) : x.dep = Nothing /\ (x.ok => dep # Nothing)
    BY <1>6, <2>1, <2>3
  <2>6. \A x \in CallBroken(type, s) : x.dep = dep \/ (x.dep = less /\ dep # Nothing)
    <3>1. CASE dep.ver = 0
      <4>1. CallBroken(type, s) = {Result(dep, FALSE)}
        BY <2>2, <3>1
      <4> QED BY <1>6, <4>1
    <3>2. CASE dep.ver # 0
      BY <1>6, <2>2, <2>4, <3>2
    <3> QED BY <3>1, <3>2
  <2> QED BY <1>1, <1>3, <1>8, <1>13, <2>5, <2>6 DEF CallRelies
<1> QED BY <1>1, <1>9, <1>10, <1>11, <1>12, <1>13

\* A task at another stage.
LEMMA StageFacts ==
  ASSUME NEW x \in TaskType, NEW s \in TaskStages
  PROVE  /\ [x EXCEPT !.stage = s] \in TaskType /\ [x EXCEPT !.stage = s].type = x.type
         /\ [x EXCEPT !.stage = s].row = x.row /\ [x EXCEPT !.stage = s].stage = s
         /\ [x EXCEPT !.stage = s].copy = x.copy
BY DEF TaskType

\* What every task finds.
LEMMA TaskFound ==
  ASSUME CompInv, NEW t \in DOMAIN tasks
  PROVE  /\ tasks \in Seq(TaskType) /\ tasks[t] \in TaskType /\ comps \in Seq(RowType)
         /\ tasks[t].row \in DOMAIN comps /\ comps[tasks[t].row] \in RowType
         /\ comps[tasks[t].row].copy \in Copy /\ dep \in DepType
         /\ OtherRows(comps, comps, tasks[t].row)
         /\ Clean => TaskRelies(tasks[t], tasks[t].row \in OfCluster, comps[tasks[t].row].copy, dep)
<1>1. /\ tasks \in Seq(TaskType) /\ tasks[t] \in TaskType /\ comps \in Seq(RowType)
      /\ tasks[t].row \in DOMAIN comps /\ dep \in DepType
  BY DEF CompInv, CompTypes
<1>2. comps[tasks[t].row] \in RowType /\ comps[tasks[t].row].copy \in Copy
  <2>1. comps[tasks[t].row] \in RowType
    BY <1>1
  <2> QED BY <2>1 DEF RowType
<1>3. Clean => TaskRelies(tasks[t], tasks[t].row \in OfCluster, comps[tasks[t].row].copy, dep)
  BY DEF CompInv, CleanFacts, TaskFacts
<1> QED BY <1>1, <1>2, <1>3 DEF OtherRows

\* A task calls its driver, and the call succeeds or fails.
LEMMA CallDriverStep ==
  ASSUME CompInv, NEW t \in DOMAIN tasks, CallDriver(t) \/ CallFails(t), undeployed' = undeployed
  PROVE  CompInv'
<1> PICK c : c = tasks[t].row
  OBVIOUS
<1> DEFINE k == tasks[t]
<1>1. /\ UNCHANGED <<driver, comps, req, overlap, dropped, undeployed>> /\ k.stage = "call"
  BY DEF CallDriver, CallFails, history
<1>2. /\ k \in TaskType /\ comps \in Seq(RowType) /\ c \in DOMAIN comps
      /\ OtherRows(comps, comps, c)
      /\ Clean => TaskRelies(k, c \in OfCluster, comps[c].copy, dep)
  BY TaskFound
<1>3. k.type \in TaskTypes /\ k.copy.setting \in 1..MaxSettings
  BY <1>2 DEF TaskType, Copy
<1>4. PICK s \in TaskStages, ok \in BOOLEAN :
        /\ CallRelies(k.type, k.copy.setting, dep', ok) /\ Stage(t, s)
        /\ s = "failed" \/ (ok /\ s = IF k.type = "update" /\ driver = "kubectl" THEN "apply" ELSE "complete")
  <2>1. CASE CallDriver(t)
    <3>1. PICK x \in Call(k.type, k.copy.setting) :
            /\ dep' = x.dep
            /\ Stage(t, IF ~x.ok THEN "failed"
                        ELSE IF k.type = "update" /\ driver = "kubectl" THEN "apply" ELSE "complete")
      BY <2>1 DEF CallDriver
    <3>2. CallRelies(k.type, k.copy.setting, dep', x.ok)
      BY <1>3, <3>1, CallFacts DEF CompInv
    <3>3. "failed" \in TaskStages /\ "apply" \in TaskStages /\ "complete" \in TaskStages
      BY DEF TaskStages
    <3>4. CASE x.ok
      <4>1. PICK ok \in BOOLEAN : ok = TRUE
        OBVIOUS
      <4>2. CallRelies(k.type, k.copy.setting, dep', ok)
        BY <3>2, <3>4, <4>1 DEF CallRelies
      <4> QED BY <3>1, <3>3, <3>4, <4>1, <4>2
    <3>5. CASE ~x.ok
      <4>1. PICK ok \in BOOLEAN : ok = FALSE
        OBVIOUS
      <4>2. CallRelies(k.type, k.copy.setting, dep', ok)
        BY <3>2, <3>5, <4>1 DEF CallRelies
      <4> QED BY <3>1, <3>3, <3>5, <4>1, <4>2
    <3> QED BY <3>4, <3>5
  <2>2. CASE CallFails(t)
    <3>1. PICK x \in CallBroken(k.type, k.copy.setting) : dep' = x.dep
      BY <2>2 DEF CallFails
    <3>2. CallRelies(k.type, k.copy.setting, dep', FALSE)
      BY <1>3, <3>1, CallFacts DEF CompInv
    <3>3. "failed" \in TaskStages /\ Stage(t, "failed")
      BY <2>2 DEF TaskStages, CallFails
    <3> QED BY <3>2, <3>3
  <2> QED BY <2>1, <2>2
<1> DEFINE m == [k EXCEPT !.stage = s]
<1>5. /\ m \in TaskType /\ m.type = k.type /\ m.row = c /\ m.stage = s /\ m.copy = k.copy
      /\ tasks' = [tasks EXCEPT ![t] = m]
  BY <1>2, <1>4, StageFacts DEF Stage
<1>6. dep' \in DepType
  BY <1>4 DEF CallRelies
<1> HIDE DEF m, k
<1>7. ASSUME Clean
      PROVE  /\ c \in OfCluster /\ TaskRelies(m, c \in OfCluster, comps[c].copy, dep')
             /\ (comps[c].copy.enabled \/ dep = Nothing) =>
                  comps[c].copy.enabled \/ dep' = Nothing
  <2>1. /\ c \in OfCluster /\ k.copy = comps[c].copy
        /\ k.type = "deploy" => comps[c].copy.enabled
        /\ k.type = "update" => comps[c].copy.enabled \/ dep = Nothing
    BY <1>1, <1>2, <1>7 DEF TaskRelies, k
  <2>2. (comps[c].copy.enabled \/ dep = Nothing) => comps[c].copy.enabled \/ dep' = Nothing
    BY <1>4, <2>1 DEF CallRelies
  <2>3. CASE s = "failed"
    BY <1>5, <2>1, <2>2, <2>3 DEF TaskRelies
  <2>4. CASE ok /\ k.type = "update" /\ driver = "kubectl" /\ s = "apply"
    BY <1>4, <1>5, <2>1, <2>2, <2>4 DEF TaskRelies, CallRelies
  <2>5. CASE ok /\ ~(k.type = "update" /\ driver = "kubectl") /\ s = "complete"
    <3>1. driver \in {"helm", "kubectl"}
      BY DEF CompInv, CompTypes
    <3>2. (k.type \in {"deploy", "update"}) =>
            comps[c].copy.enabled /\ dep' = [ver |-> comps[c].copy.setting, ok |-> TRUE]
      BY <1>4, <2>1, <2>5, <3>1 DEF CallRelies
    <3>3. k.type \in {"undeploy", "delete"} => dep' = Nothing
      BY <1>4, <2>5 DEF CallRelies
    <3> QED BY <1>5, <2>1, <2>2, <2>5, <3>2, <3>3 DEF TaskRelies
  <2> QED BY <1>4, <2>1, <2>2, <2>3, <2>4, <2>5
<1> QED BY <1>1, <1>2, <1>5, <1>6, <1>7, MoveStep

\* Other columns of the row of a task.
LEMMA ColumnsKept ==
  ASSUME CompInv, NEW c \in DOMAIN comps, NEW new \in Copy, SetColumns(c, new)
  PROVE  /\ comps' \in Seq(RowType) /\ OtherRows(comps, comps', c)
         /\ comps'[c].live = comps[c].live /\ comps'[c].joint = comps[c].joint
         /\ comps[c].live => comps'[c].copy = new
         /\ c \in OfCluster' <=> c \in OfCluster
         /\ c \in OfCluster => comps'[c].copy = new
<1>1. /\ comps' \in Seq(RowType) /\ OtherRows(comps, comps', c)
      /\ comps'[c].live = comps[c].live /\ comps'[c].joint = comps[c].joint
      /\ comps[c].live => comps'[c].copy = new
  BY ColumnsFacts DEF CompInv
<1>2. c \in DOMAIN comps'
  BY <1>1 DEF OtherRows
<1>3. (c \in OfCluster' <=> c \in OfCluster) /\ (c \in OfCluster => comps[c].live)
  BY <1>1, <1>2 DEF OfCluster
<1> QED BY <1>1, <1>3

\* A status that a task leaves.
LEMMA StatusCopy ==
  ASSUME NEW x \in Copy, NEW s \in Status
  PROVE  /\ [x EXCEPT !.status = s] \in Copy /\ [x EXCEPT !.status = s].status = s
         /\ [x EXCEPT !.status = s].enabled = x.enabled
         /\ [x EXCEPT !.status = s].setting = x.setting
BY DEF Copy

\* A deletion starts, and says undeploying.
LEMMA DeleteOnInitStep ==
  ASSUME CompInv, NEW t \in DOMAIN tasks, DeleteOnInit(t), undeployed' = undeployed
  PROVE  CompInv'
<1> PICK c : c = tasks[t].row
  OBVIOUS
<1> DEFINE new == [comps[c].copy EXCEPT !.status = "undeploying"]
           k == tasks[t]
           m == [k EXCEPT !.stage = "undeploy"]
<1>1. /\ UNCHANGED <<driver, dep, req, overlap, dropped, undeployed>>
      /\ k.type = "delete" /\ SetColumns(c, new)
      /\ IF comps[c].live THEN tasks' = [tasks EXCEPT ![t] = m] ELSE EndTask(t)
  BY DEF DeleteOnInit, history, Stage
<1>2. /\ k \in TaskType /\ comps \in Seq(RowType) /\ c \in DOMAIN comps /\ dep \in DepType
      /\ comps[c].copy \in Copy
      /\ OtherRows(comps, comps, c)
  BY TaskFound
<1>3. "undeploying" \in Status /\ "undeploy" \in TaskStages
  BY DEF Status, TaskStages
<1>4. new \in Copy /\ new.enabled = comps[c].copy.enabled
  BY <1>2, <1>3, StatusCopy
<1>5. m \in TaskType /\ m.type = "delete" /\ m.row = c /\ m.stage = "undeploy"
  BY <1>1, <1>2, <1>3, StageFacts
<1> HIDE DEF new, m, k
<1>6. /\ comps' \in Seq(RowType) /\ OtherRows(comps, comps', c)
      /\ comps'[c].live = comps[c].live /\ comps'[c].joint = comps[c].joint
      /\ c \in OfCluster' <=> c \in OfCluster
      /\ c \in OfCluster => comps'[c].copy = new
  BY <1>1, <1>2, <1>4, ColumnsKept
<1>7. CASE comps[c].live
  <2>1. TaskRelies(m, c \in OfCluster, comps'[c].copy, dep')
    BY <1>5 DEF TaskRelies
  <2>2. c \in OfCluster /\ (comps[c].copy.enabled \/ dep = Nothing) =>
          comps'[c].copy.enabled \/ dep' = Nothing
    BY <1>1, <1>4, <1>6
  <2>3. dep' = dep /\ dep' \in DepType /\ tasks' = [tasks EXCEPT ![t] = m]
        /\ UNCHANGED <<driver, req, overlap, dropped, undeployed>>
    BY <1>1, <1>2, <1>7
  <2> HIDE DEF CompInv
  <2> QED BY <1>5, <1>6, <2>1, <2>2, <2>3, MoveStep
<1>8. CASE ~comps[c].live
  <2>1. c \notin OfCluster /\ ~comps'[c].live /\ EndTask(t)
    BY <1>1, <1>6, <1>8 DEF OfCluster
  <2> HIDE DEF CompInv, EndTask
  <2> QED BY <1>1, <1>6, <2>1, EndStep
<1> QED BY <1>7, <1>8

\* A task looks its component up.
LEMMA OnInitStep ==
  ASSUME CompInv, NEW t \in DOMAIN tasks, OnInit(t), undeployed' = undeployed
  PROVE  CompInv'
<1> PICK c : c = tasks[t].row
  OBVIOUS
<1> DEFINE k == tasks[t]
<1>1. /\ UNCHANGED <<driver, comps, dep, req, overlap, dropped, undeployed>>
      /\ k.stage \in {"init", "undeploy"} /\ (k.type # "delete" => k.stage = "init")
      /\ IF ~comps[c].live THEN EndTask(t)
         ELSE IF ~comps[c].joint THEN tasks' = [tasks EXCEPT ![t] = [k EXCEPT !.stage = "failed"]]
         ELSE tasks' = [tasks EXCEPT ![t].stage = "call", ![t].copy = comps[c].copy]
  BY DEF OnInit, history, Stage
<1>2. /\ k \in TaskType /\ comps \in Seq(RowType) /\ c \in DOMAIN comps /\ dep \in DepType
      /\ comps[c].copy \in Copy /\ OtherRows(comps, comps, c) /\ tasks \in Seq(TaskType)
      /\ Clean => TaskRelies(k, c \in OfCluster, comps[c].copy, dep)
  BY TaskFound
<1>3. "failed" \in TaskStages /\ "call" \in TaskStages
  BY DEF TaskStages
<1>4. CASE ~comps[c].live
  <2>1. c \notin OfCluster /\ EndTask(t) /\ ~comps'[c].live /\ c \notin OfCluster'
        /\ comps' \in Seq(RowType) /\ OtherRows(comps, comps', c)
    BY <1>1, <1>2, <1>4 DEF OfCluster
  <2> HIDE DEF CompInv, EndTask
  <2> QED BY <1>1, <2>1, EndStep
<1>5. ASSUME NEW m \in TaskType, m.row = c, tasks' = [tasks EXCEPT ![t] = m],
             Clean => TaskRelies(m, c \in OfCluster, comps[c].copy, dep)
      PROVE  CompInv'
  <2>1. dep' = dep /\ dep' \in DepType /\ comps' \in Seq(RowType) /\ OtherRows(comps, comps', c)
        /\ comps'[c] = comps[c]
    BY <1>1, <1>2
  <2>2. /\ comps'[c].live = comps[c].live /\ comps'[c].joint = comps[c].joint
        /\ (comps[c].copy.enabled \/ dep = Nothing => comps'[c].copy.enabled \/ dep' = Nothing)
        /\ Clean => TaskRelies(m, c \in OfCluster, comps'[c].copy, dep')
    BY <1>5, <2>1
  <2>3. UNCHANGED <<driver, req, overlap, dropped, undeployed>>
    BY <1>1
  <2> HIDE DEF CompInv, k
  <2> QED BY <1>5, <2>1, <2>2, <2>3, MoveStep
<1>6. CASE comps[c].live /\ ~comps[c].joint
  <2> DEFINE m == [k EXCEPT !.stage = "failed"]
  <2>1. m \in TaskType /\ m.row = c /\ m.stage = "failed"
    BY <1>2, <1>3, StageFacts
  <2>2. tasks' = [tasks EXCEPT ![t] = m]
    BY <1>1, <1>6
  <2> HIDE DEF m
  <2>3. TaskRelies(m, c \in OfCluster, comps[c].copy, dep)
    BY <2>1 DEF TaskRelies
  <2> QED BY <1>5, <2>1, <2>2, <2>3
<1>7. CASE comps[c].live /\ comps[c].joint
  <2> DEFINE w == comps[c].copy
             y == [k EXCEPT !.stage = "call"]
             m == [y EXCEPT !.copy = w]
  <2>1. y \in TaskType /\ y.row = c /\ y.stage = "call" /\ y.type = k.type
    BY <1>2, <1>3, StageFacts
  <2>2. tasks' = [tasks EXCEPT ![t] = m]
    <3> DEFINE z == [tasks EXCEPT ![t].stage = "call"]
    <3>1. tasks' = [z EXCEPT ![t].copy = w]
      BY <1>1, <1>7
    <3>2. z = [tasks EXCEPT ![t] = y]
      OBVIOUS
    <3> HIDE DEF y, w
    <3>3. z[t] = y
      BY <1>2, <3>2
    <3>4. [z EXCEPT ![t].copy = w] = [z EXCEPT ![t] = m]
      BY <3>3
    <3> HIDE DEF z, m
    <3>5. [z EXCEPT ![t] = m] = [tasks EXCEPT ![t] = m]
      BY <1>2, <3>2
    <3> QED BY <3>1, <3>4, <3>5
  <2>3. w \in Copy
    BY <1>2
  <2> HIDE DEF y, w
  <2>4. m \in TaskType /\ m.row = c /\ m.stage = "call" /\ m.type = k.type /\ m.copy = w
    BY <2>1, <2>3 DEF TaskType
  <2> HIDE DEF m
  <2>5. Clean => TaskRelies(m, c \in OfCluster, comps[c].copy, dep)
    <3>1. c \in OfCluster
      BY <1>2, <1>7 DEF OfCluster
    <3>2. k.type = "deploy" => k.stage # "failed"
      BY <1>1
    <3>3. k.type = "update" => k.stage \in {"init", "call"}
      BY <1>1
    <3> QED BY <1>2, <2>4, <3>1, <3>2, <3>3 DEF TaskRelies, w
  <2> QED BY <1>5, <2>2, <2>4, <2>5
<1> QED BY <1>4, <1>6, <1>7

\* The second half of an update with kubectl.
LEMMA ApplyAgainStep ==
  ASSUME CompInv, NEW t \in DOMAIN tasks, ApplyAgain(t), undeployed' = undeployed
  PROVE  CompInv'
<1> PICK c : c = tasks[t].row
  OBVIOUS
<1> DEFINE k == tasks[t]
<1>1. /\ UNCHANGED <<driver, comps, req, overlap, dropped, undeployed>> /\ k.stage = "apply"
  BY DEF ApplyAgain, history
<1>2. /\ k \in TaskType /\ comps \in Seq(RowType) /\ c \in DOMAIN comps
      /\ OtherRows(comps, comps, c) /\ dep \in DepType
      /\ Clean => TaskRelies(k, c \in OfCluster, comps[c].copy, dep)
  BY TaskFound
<1>3. k.copy.setting \in 0..MaxSettings
  BY <1>2, ComponentsAssumption DEF TaskType, Copy
<1>4. \A d, b : Result(d, b).dep = d
  BY DEF Result
<1> DEFINE up == [ver |-> k.copy.setting, ok |-> TRUE]
           half == [ver |-> k.copy.setting, ok |-> FALSE]
<1>5. PICK s \in TaskStages :
        dep' \in DepType /\ Stage(t, s) /\ (s = "failed" \/ (s = "complete" /\ dep' = up))
  <2>1. "failed" \in TaskStages /\ "complete" \in TaskStages
    BY DEF TaskStages
  <2>2. \A b \in BOOLEAN : [ver |-> k.copy.setting, ok |-> b] \in DepType
    BY <1>3 DEF DepType
  <2>3. up \in DepType /\ half \in DepType
    BY <2>2
  <2>4. KubectlApply(k.copy.setting) = {Result(up, TRUE)}
    BY DEF KubectlApply
  <2>5. KubectlApplyBroken(k.copy.setting) = {Result(dep, FALSE), Result(half, FALSE)}
    BY DEF KubectlApplyBroken
  <2>6. \/ Stage(t, "complete") /\ \E x \in KubectlApply(k.copy.setting) : dep' = x.dep
        \/ Stage(t, "failed") /\ \E x \in KubectlApplyBroken(k.copy.setting) : dep' = x.dep
    BY DEF ApplyAgain
  <2> HIDE DEF up, half, k, Result
  <2>7. \/ Stage(t, "complete") /\ dep' = up
        \/ Stage(t, "failed") /\ (dep' = dep \/ dep' = half)
    BY <1>4, <2>4, <2>5, <2>6
  <2> QED BY <1>2, <2>1, <2>3, <2>7
<1> HIDE DEF up, half
<1> DEFINE m == [k EXCEPT !.stage = s]
<1>6. /\ m \in TaskType /\ m.type = k.type /\ m.row = c /\ m.stage = s /\ m.copy = k.copy
      /\ tasks' = [tasks EXCEPT ![t] = m]
  <2>1. tasks' = [tasks EXCEPT ![t] = m]
    BY <1>5 DEF Stage
  <2>2. k \in TaskType /\ s \in TaskStages /\ k.row = c
    BY <1>2
  <2> HIDE DEF k
  <2> QED BY <2>1, <2>2, StageFacts
<1> HIDE DEF m, k
<1>7. ASSUME Clean
      PROVE  /\ c \in OfCluster /\ comps[c].copy.enabled
             /\ TaskRelies(m, c \in OfCluster, comps[c].copy, dep')
  <2>1. /\ c \in OfCluster /\ k.copy = comps[c].copy /\ k.type = "update"
        /\ comps[c].copy.enabled
    BY <1>1, <1>2, <1>7 DEF TaskRelies
  <2>2. CASE s = "failed"
    BY <1>6, <2>1, <2>2 DEF TaskRelies
  <2>3. CASE s = "complete" /\ dep' = up
    <3>1. dep' = [ver |-> comps[c].copy.setting, ok |-> TRUE]
      BY <2>1, <2>3 DEF up
    <3> HIDE DEF Clean
    <3> QED BY <1>6, <2>1, <2>3, <3>1 DEF TaskRelies
  <2> QED BY <1>5, <2>2, <2>3
<1>8. /\ comps' \in Seq(RowType) /\ OtherRows(comps, comps', c) /\ comps'[c] = comps[c]
      /\ dep' \in DepType /\ UNCHANGED <<driver, req, overlap, dropped, undeployed>>
  BY <1>1, <1>2, <1>5
<1> HIDE DEF CompInv
<1> QED BY <1>6, <1>7, <1>8, MoveStep

\* A task ends on a status.
LEMMA EndsOnStatus ==
  ASSUME CompInv, NEW t \in DOMAIN tasks, NEW c, c = tasks[t].row, NEW new \in Copy,
         SetColumns(c, new), EndTask(t), new.status \notin Changing,
         UNCHANGED <<driver, dep, req, overlap, dropped, undeployed>>,
         (Clean /\ c \in OfCluster) =>
           /\ new.status = "deployed" => new.enabled /\ dep = [ver |-> new.setting, ok |-> TRUE]
           /\ new.status = "init" => ~new.enabled /\ dep = Nothing
           /\ (comps[c].copy.enabled \/ dep = Nothing) => new.enabled \/ dep = Nothing
  PROVE  CompInv'
<1>1. c \in DOMAIN comps
  BY TaskFound
<1>2. /\ comps' \in Seq(RowType) /\ OtherRows(comps, comps', c)
      /\ comps'[c].live = comps[c].live
      /\ comps[c].live => comps'[c].copy = new
      /\ c \in OfCluster' <=> c \in OfCluster
      /\ c \in OfCluster => comps'[c].copy = new
  BY <1>1, ColumnsKept
<1>3. comps'[c].live => comps'[c].copy.status \notin Changing
  BY <1>2
<1>4. ASSUME Clean, c \in OfCluster
      PROVE  RestFacts(c)'
  BY <1>2, <1>4 DEF RestFacts
<1>5. (Clean /\ c \in OfCluster /\ (comps[c].copy.enabled \/ dep = Nothing)) =>
        comps'[c].copy.enabled \/ dep = Nothing
  BY <1>2
<1> HIDE DEF CompInv, Clean, EndTask, SetColumns
<1> QED BY <1>2, <1>3, <1>4, <1>5, EndStep

\* The ends of tasks that leave the row.
LEMMA EndSteps ==
  ASSUME CompInv, NEW t \in DOMAIN tasks, undeployed' = undeployed,
         OnComplete(t) \/ UndeployComplete(t) \/ OnError(t)
  PROVE  CompInv'
<1> PICK c : c = tasks[t].row
  OBVIOUS
<1> DEFINE k == tasks[t]
<1>1. /\ UNCHANGED <<driver, dep, req, overlap, dropped, undeployed>> /\ EndTask(t)
  BY DEF OnComplete, UndeployComplete, OnError, history
<1>2. /\ k \in TaskType /\ comps[c].copy \in Copy
      /\ Clean => TaskRelies(k, c \in OfCluster, comps[c].copy, dep)
  BY TaskFound
<1>3. /\ "deployed" \in Status \ Changing /\ "init" \in Status \ Changing
      /\ {"deploy_fail", "update_fail", "undeploy_fail", "delete_fail"} \subseteq Status \ Changing
  BY DEF Status, Changing
<1>4. CASE OnComplete(t)
  <2> DEFINE new == [comps[c].copy EXCEPT !.status = "deployed"]
  <2>1. SetColumns(c, new) /\ k.type \in {"deploy", "update"} /\ k.stage = "complete"
    BY <1>4 DEF OnComplete
  <2>2. /\ new \in Copy /\ new.status = "deployed" /\ new.enabled = comps[c].copy.enabled
        /\ new.setting = comps[c].copy.setting
    BY <1>2, <1>3, StatusCopy
  <2> HIDE DEF new, k
  <2>3. ASSUME Clean, c \in OfCluster
        PROVE  new.enabled /\ dep = [ver |-> new.setting, ok |-> TRUE]
    <3>1. /\ k.copy = comps[c].copy /\ comps[c].copy.enabled
          /\ dep = [ver |-> comps[c].copy.setting, ok |-> TRUE]
      BY <1>2, <2>1, <2>3 DEF TaskRelies
    <3> QED BY <2>2, <3>1
  <2> HIDE DEF CompInv, Clean, EndTask, SetColumns
  <2> QED BY <1>1, <1>3, <2>1, <2>2, <2>3, EndsOnStatus
<1>5. CASE UndeployComplete(t)
  <2> DEFINE e == IF k.copy.enabled THEN FALSE ELSE comps[c].copy.enabled
             new == [[comps[c].copy EXCEPT !.status = "init"] EXCEPT !.enabled = e]
  <2>1. SetColumns(c, new) /\ k.type = "undeploy" /\ k.stage = "complete"
    <3>1. [comps[c].copy EXCEPT !.status = "init"].enabled = comps[c].copy.enabled
      BY <1>2, <1>3, StatusCopy
    <3> QED BY <1>5, <3>1 DEF UndeployComplete
  <2>2. new \in Copy /\ new.status = "init" /\ new.enabled = e
    <3>1. comps[c].copy.enabled \in BOOLEAN
      BY <1>2 DEF Copy
    <3>2. e \in BOOLEAN
      BY <3>1
    <3>3. [comps[c].copy EXCEPT !.status = "init"] \in Copy
          /\ [comps[c].copy EXCEPT !.status = "init"].status = "init"
      BY <1>2, <1>3, StatusCopy
    <3> HIDE DEF e
    <3> QED BY <3>2, <3>3 DEF Copy
  <2>3. k.copy = comps[c].copy => ~e
    OBVIOUS
  <2> HIDE DEF new, e, k
  <2>4. ASSUME Clean, c \in OfCluster
        PROVE  ~new.enabled /\ dep = Nothing
    <3>1. k.copy = comps[c].copy /\ dep = Nothing
      BY <1>2, <2>1, <2>4 DEF TaskRelies
    <3> QED BY <2>2, <2>3, <3>1
  <2> HIDE DEF CompInv, Clean, EndTask, SetColumns
  <2> QED BY <1>1, <1>3, <2>1, <2>2, <2>4, EndsOnStatus
<1>6. CASE OnError(t)
  <2> PICK s : s = FailStatus[k.type]
    OBVIOUS
  <2> DEFINE new == [comps[c].copy EXCEPT !.status = s]
  <2>1. SetColumns(c, new)
    BY <1>6 DEF OnError
  <2>2. s \in Status \ Changing /\ s \notin {"deployed", "init"}
    <3>1. k.type \in {"deploy", "update", "undeploy", "delete"}
      BY <1>2 DEF TaskType, TaskTypes
    <3>2. s \in {"deploy_fail", "update_fail", "undeploy_fail", "delete_fail"}
      BY <3>1 DEF FailStatus
    <3> QED BY <1>3, <3>2
  <2>3. /\ new \in Copy /\ new.status = s /\ new.enabled = comps[c].copy.enabled
    BY <1>2, <2>2, StatusCopy
  <2> HIDE DEF new, k
  <2> HIDE DEF CompInv, Clean, EndTask, SetColumns
  <2> QED BY <1>1, <2>1, <2>2, <2>3, EndsOnStatus
<1> QED BY <1>4, <1>5, <1>6

\* A deletion ends, and the rows go.
LEMMA OnUndeployCompleteStep ==
  ASSUME CompInv, NEW t \in DOMAIN tasks, OnUndeployComplete(t), undeployed' = undeployed
  PROVE  CompInv'
<1> PICK c : c = tasks[t].row
  OBVIOUS
<1> DEFINE k == tasks[t]
<1>1. /\ UNCHANGED <<driver, dep, req, overlap, dropped, undeployed>> /\ EndTask(t)
      /\ k.type = "delete" /\ k.stage = "complete"
      /\ comps' = [comps EXCEPT ![c] = [@ EXCEPT !.joint = FALSE, !.live = FALSE]]
  BY DEF OnUndeployComplete, history
<1>2. /\ comps \in Seq(RowType) /\ c \in DOMAIN comps /\ comps[c] \in RowType
      /\ Clean => TaskRelies(k, c \in OfCluster, comps[c].copy, dep)
  BY TaskFound
<1>3. PICK e \in RowType : ~e.live /\ comps' = [comps EXCEPT ![c] = e]
  <2> DEFINE e == [comps[c] EXCEPT !.joint = FALSE, !.live = FALSE]
  <2>1. e \in RowType /\ ~e.live
    BY <1>2 DEF RowType
  <2>2. comps' = [comps EXCEPT ![c] = e]
    BY <1>1
  <2> HIDE DEF e
  <2> QED BY <2>1, <2>2
<1>4. comps' \in Seq(RowType) /\ OtherRows(comps, comps', c) /\ ~comps'[c].live
  <2>1. /\ comps' \in Seq(RowType) /\ DOMAIN comps' = DOMAIN comps
        /\ \A d \in DOMAIN comps : comps'[d] = IF d = c THEN e ELSE comps[d]
    BY <1>2, <1>3, ReplaceFacts
  <2> QED BY <1>2, <1>3, <2>1 DEF OtherRows
<1>5. c \notin OfCluster'
  BY <1>4 DEF OfCluster
<1>6. Clean => dep = Nothing
  BY <1>1, <1>2 DEF TaskRelies
<1> HIDE DEF CompInv, Clean, EndTask, k
<1> QED BY <1>1, <1>4, <1>5, <1>6, EndStep

-----------------------------------------------------------------------------
(* Components: every step *)

\* A step of a component.
LEMMA CompNextHolds ==
  ASSUME CompInv, Next, undeployed' = undeployed
  PROVE  CompInv'
<1>1. CASE \E kind \in Kinds \ {"insert", "none"} : GetComponentByType(kind) \/ FetchById(kind)
  BY <1>1, LoadSteps
<1>2. CASE CreateByCluster \/ SaveJoint
  BY <1>2, CreateByClusterStep, SaveJointStep
<1>3. CASE DeleteAllComponents \/ \E c \in DOMAIN comps : DeleteById(c)
  BY <1>3, DroppedSteps
<1>4. CASE \E l \in Locks : DoEnable(l) \/ DoDisable(l) \/ DoDelete(l) \/ DoUpdate(l) \/ Refuse(l)
  BY <1>4, AcceptedSteps, RefuseStep
<1>5. CASE \E t \in DOMAIN tasks :
             \/ DeleteOnInit(t) \/ OnInit(t) \/ CallDriver(t) \/ CallFails(t) \/ ApplyAgain(t)
             \/ OnComplete(t) \/ UndeployComplete(t) \/ OnUndeployComplete(t) \/ OnError(t)
  BY <1>5, DeleteOnInitStep, OnInitStep, CallDriverStep, ApplyAgainStep, EndSteps,
     OnUndeployCompleteStep
<1> QED BY <1>1, <1>2, <1>3, <1>4, <1>5 DEF Next

\* A step of a release: what it undeploys of a component is remembered.
LEMMA CompReleaseStep ==
  ASSUME CompInv, ReleaseStep
  PROVE  CompInv'
<1>1. /\ UNCHANGED <<driver, comps, req, tasks, overlap, dropped>>
      /\ undeployed' = (undeployed \/ dep' # dep)
      /\ dep' = dep \/ dep' = Nothing
  BY DEF ReleaseStep
<1>2. Clean' => Clean /\ dep' = dep
  <2>1. ASSUME Clean' PROVE Clean /\ dep' = dep
    <3>1. ~overlap' /\ ~dropped' /\ ~undeployed'
      BY <2>1 DEF Clean
    <3>2. ~undeployed /\ dep' = dep
      BY <1>1, <3>1, Zenon
    <3>3. ~overlap /\ ~dropped
      BY <1>1, <3>1
    <3> QED BY <3>2, <3>3 DEF Clean
  <2> QED BY <2>1
<1>3. Nothing \in DepType
  BY ComponentsAssumption DEF Nothing, DepType
<1>4. CompTypes'
  <2>1. dep' \in DepType
    BY <1>1, <1>3 DEF CompInv, CompTypes
  <2>2. undeployed' \in BOOLEAN
    BY <1>1
  <2> QED BY <1>1, <2>1, <2>2 DEF CompInv, CompTypes
<1>5. Clean' => (UpdateFacts /\ OneComponent => UpdateFacts' /\ OneComponent')
  BY <1>1, <1>2 DEF UpdateFacts, OneComponent, OfCluster
<1> HIDE DEF CompInv, Clean
<1>6. comps' = comps /\ tasks' = tasks
  BY <1>1
<1> QED BY <1>2, <1>4, <1>5, <1>6, CompStands

\* A step that changes nothing.
LEMMA CompStutters ==
  ASSUME CompInv, UNCHANGED appVars
  PROVE  CompInv'
<1>1. /\ UNCHANGED <<driver, comps, dep, req, tasks, overlap, dropped, undeployed>>
  BY DEF appVars, vars
<1>2. CompTypes'
  BY <1>1 DEF CompInv, CompTypes
<1>3. Clean' = Clean /\ OfCluster' = OfCluster
  BY <1>1 DEF Clean, OfCluster
<1>4. (UpdateFacts => UpdateFacts') /\ (OneComponent => OneComponent')
  BY <1>1, <1>3 DEF UpdateFacts, OneComponent
<1> HIDE DEF CompInv
<1> QED BY <1>1, <1>2, <1>3, <1>4, CompStands

\* The inductive invariant explains the property.
LEMMA CompInvSound ==
  ASSUME CompInv
  PROVE  ComponentsSound
<1>1. ChangingHasTask
  BY DEF CompInv
<1>2. ASSUME ~undeployed PROVE StatusIsTrue
  <2>1. ASSUME Idle, ~overlap, ~dropped
        PROVE  CleanFacts /\ DOMAIN tasks = {}
    BY <1>2, <2>1 DEF CompInv, Clean, Idle
  <2>2. ASSUME Idle, ~overlap, ~dropped, NEW c \in OfCluster
        PROVE  RestFacts(c)
    BY <2>1, <2>2 DEF CleanFacts, Busy
  <2>3. ASSUME Idle, ~overlap, ~dropped, OfCluster = {}
        PROVE  dep = Nothing
    BY <2>1, <2>3 DEF CleanFacts, OneComponent
  <2> QED BY <2>2, <2>3 DEF StatusIsTrue, RestFacts
<1>3. undeployed \in BOOLEAN
  BY DEF CompInv, CompTypes
<1> QED BY <1>1, <1>2, <1>3 DEF ComponentsSound, ComponentStatusIsTrue

\* Components: whichever requests overlap, fail and find a component changed since they
\* loaded it, its status is true or a task is about to set it (components.go,
\* component_*_task.go), unless its release was deleted as a release, for any number of
\* components, settings, requests and failing calls.
THEOREM ComponentsAreSound == AppSpec => []ComponentsSound
<1>1. AppInit => CompInv
  BY CompInitHolds DEF AppInit
<1>2. CompInv /\ [AppNext]_appVars => CompInv'
  <2>1. ASSUME CompInv, AppNext PROVE CompInv'
    <3>1. CASE ComponentStep
      BY <2>1, <3>1, CompNextHolds DEF ComponentStep
    <3>2. CASE ReleaseStep
      BY <2>1, <3>2, CompReleaseStep
    <3> QED BY <2>1, <3>1, <3>2 DEF AppNext
  <2>2. ASSUME CompInv, UNCHANGED appVars PROVE CompInv'
    BY <2>2, CompStutters
  <2> QED BY <2>1, <2>2
<1>3. CompInv => ComponentsSound
  BY CompInvSound
<1> QED BY <1>1, <1>2, <1>3, PTL DEF AppSpec

-----------------------------------------------------------------------------
(* Repositories: the inductive invariant *)

RepoType == [name : Repos, dom : Domains, live : BOOLEAN]
RepoJobType == [kind : {"create", "sync", "refresh", "delete"}, name : Repos, dom : Domains,
                row : Nat, stage : {"load", "write", "row"}, snap : R!Files]

\* The deletion of a row is the only request on it.
OneDelete(ks) == \A i, h \in DOMAIN ks : (ks[i].kind = "delete" /\ ks[i].row = ks[h].row) => i = h

RepoTypes ==
  /\ repos \in Seq(RepoType) /\ file \in R!Files /\ rjobs \in Seq(RepoJobType)
  /\ todo \subseteq DOMAIN repos
  /\ \A k \in ToSet(rjobs) : k.kind = "delete" =>
       k.row \in DOMAIN repos /\ repos[k.row].live /\ k.name = repos[k.row].name
  /\ OneDelete(rjobs)
  /\ stale \in BOOLEAN /\ ghost \in BOOLEAN

\* The request k has removed the entry of row x and will remove the row.
RemovesRow(k, x) == k.kind = "delete" /\ k.row = x /\ k.stage = "row"

\* The request k has added an entry of name n for domain d and will insert the row.
InsertsRow(k, n, d) == k.kind = "create" /\ k.stage = "row" /\ k.name = n /\ k.dom = d

\* The name of a repository has an entry, or gets one, or the repository goes.
HasEntry(x) ==
  \/ file[repos[x].name] # R!NoEntry \/ x \in todo
  \/ \E k \in ToSet(rjobs) : k.kind = "refresh" /\ k.name = repos[x].name
  \/ \E k \in ToSet(rjobs) : RemovesRow(k, x)

\* An entry has the repository of its domain, or gets it.
HasRow(n) ==
  \/ \E x \in DOMAIN repos :
       /\ repos[x].live /\ repos[x].name = n /\ repos[x].dom = file[n]
       /\ \A k \in ToSet(rjobs) : ~RemovesRow(k, x)
  \/ \E k \in ToSet(rjobs) : InsertsRow(k, n, file[n])

\* No two repositories have the same name.
OneName ==
  \A x, y \in DOMAIN repos :
    (repos[x].live /\ repos[y].live /\ repos[x].name = repos[y].name) => x = y

EntriesKept ==
  /\ OneName
  /\ \A x \in DOMAIN repos : repos[x].live => HasEntry(x)
  /\ \A k \in ToSet(rjobs) :
       (k.kind = "create" /\ k.stage = "row") => file[k.name] # R!NoEntry

RowsKept == \A n \in Repos : file[n] # R!NoEntry => HasRow(n)

RepoInv == RepoTypes /\ (~stale => EntriesKept) /\ ((~stale /\ ~ghost) => RowsKept)

-----------------------------------------------------------------------------
(* Repositories: lists of requests *)

\* A request k is new, the request k went, the request k became m.
ListGains(ks, ms, k) == ToSet(ms) = ToSet(ks) \cup {k}
ListLoses(ks, ms, k) ==
  k \in ToSet(ks) /\ ToSet(ms) \subseteq ToSet(ks) /\ ToSet(ks) \ {k} \subseteq ToSet(ms)
ListTurns(ks, ms, k, m) ==
  /\ k \in ToSet(ks) /\ m \in ToSet(ms)
  /\ ToSet(ms) \subseteq ToSet(ks) \cup {m} /\ ToSet(ks) \ {k} \subseteq ToSet(ms)

\* Elements of a list by their place.
LEMMA PlaceFacts ==
  ASSUME NEW T, NEW q \in Seq(T)
  PROVE  /\ \A i \in DOMAIN q : q[i] \in ToSet(q) /\ q[i] \in T
         /\ \A e \in ToSet(q) : e \in T /\ \E i \in DOMAIN q : q[i] = e
BY DEF ToSet

\* The three ways lists change.
LEMMA ListChanges ==
  ASSUME NEW T, NEW q \in Seq(T)
  PROVE  /\ \A e \in T : Append(q, e) \in Seq(T) /\ ListGains(q, Append(q, e), e)
         /\ \A i \in DOMAIN q : RemoveAt(q, i) \in Seq(T) /\ ListLoses(q, RemoveAt(q, i), q[i])
         /\ \A i \in DOMAIN q, e \in T :
              [q EXCEPT ![i] = e] \in Seq(T) /\ ListTurns(q, [q EXCEPT ![i] = e], q[i], e)
<1>1. ASSUME NEW e \in T
      PROVE  Append(q, e) \in Seq(T) /\ ListGains(q, Append(q, e), e)
  <2> DEFINE w == Append(q, e)
  <2>1. /\ w \in Seq(T) /\ DOMAIN w = DOMAIN q \cup {Len(q) + 1}
        /\ \A i \in DOMAIN q : w[i] = q[i]
        /\ w[Len(q) + 1] = e
    BY AppendFacts
  <2> HIDE DEF w
  <2>2. ListGains(q, w, e)
    BY <2>1 DEF ListGains, ToSet
  <2> QED BY <2>1, <2>2 DEF w
<1>2. ASSUME NEW i \in DOMAIN q
      PROVE  RemoveAt(q, i) \in Seq(T) /\ ListLoses(q, RemoveAt(q, i), q[i])
  <2> DEFINE w == RemoveAt(q, i)
  <2>1. /\ w \in Seq(T)
        /\ \A h \in DOMAIN w : \E m \in DOMAIN q : w[h] = q[m]
        /\ \A m \in DOMAIN q : m # i => \E h \in DOMAIN w : w[h] = q[m]
    BY RemoveFacts, RemoveKeeps
  <2> HIDE DEF w
  <2>2. ToSet(w) \subseteq ToSet(q)
    BY <2>1 DEF ToSet
  <2>3. ASSUME NEW e \in ToSet(q) \ {q[i]} PROVE e \in ToSet(w)
    <3>1. PICK m \in DOMAIN q : q[m] = e
      BY <2>3 DEF ToSet
    <3>2. m # i
      BY <2>3, <3>1
    <3> QED BY <2>1, <3>1, <3>2 DEF ToSet
  <2>4. q[i] \in ToSet(q)
    BY DEF ToSet
  <2> QED BY <2>1, <2>2, <2>3, <2>4 DEF w, ListLoses
<1>3. ASSUME NEW i \in DOMAIN q, NEW e \in T
      PROVE  [q EXCEPT ![i] = e] \in Seq(T) /\ ListTurns(q, [q EXCEPT ![i] = e], q[i], e)
  <2> DEFINE w == [q EXCEPT ![i] = e]
  <2>1. /\ w \in Seq(T) /\ DOMAIN w = DOMAIN q
        /\ \A h \in DOMAIN q : w[h] = IF h = i THEN e ELSE q[h]
    BY ReplaceFacts
  <2> HIDE DEF w
  <2>2. ListTurns(q, w, q[i], e)
    BY <2>1 DEF ListTurns, ToSet
  <2> QED BY <2>1, <2>2 DEF w
<1> QED BY <1>1, <1>2, <1>3

\* The deletion of a row stays the only request on it.
LEMMA DeleteChanges ==
  ASSUME NEW q \in Seq(RepoJobType), OneDelete(q)
  PROVE  /\ \A e \in RepoJobType :
              (\A h \in DOMAIN q : q[h].row # e.row \/ (e.kind # "delete" /\ q[h].kind # "delete"))
                => OneDelete(Append(q, e))
         /\ \A i \in DOMAIN q : OneDelete(RemoveAt(q, i))
         /\ \A i \in DOMAIN q, e \in RepoJobType :
              (e.kind = q[i].kind /\ e.row = q[i].row) => OneDelete([q EXCEPT ![i] = e])
<1>1. ASSUME NEW e \in RepoJobType,
             \A h \in DOMAIN q : q[h].row # e.row \/ (e.kind # "delete" /\ q[h].kind # "delete")
      PROVE  OneDelete(Append(q, e))
  <2> DEFINE w == Append(q, e)
  <2>1. /\ DOMAIN w = DOMAIN q \cup {Len(q) + 1}
        /\ \A i \in DOMAIN q : w[i] = q[i]
        /\ w[Len(q) + 1] = e
    BY AppendFacts
  <2> HIDE DEF w
  <2>2. OneDelete(w)
    BY <1>1, <2>1 DEF OneDelete
  <2> QED BY <2>2 DEF w
<1>2. ASSUME NEW i \in DOMAIN q
      PROVE  OneDelete(RemoveAt(q, i))
  <2> DEFINE w == RemoveAt(q, i)
             was(h) == IF h < i THEN h ELSE h + 1
  <2>1. w \in Seq(RepoJobType) /\ \A h \in DOMAIN w : was(h) \in DOMAIN q /\ w[h] = q[was(h)]
    <3>1. w \in Seq(RepoJobType)
      BY RemoveFacts
    <3>2. ASSUME NEW h \in DOMAIN w
          PROVE  was(h) \in DOMAIN q /\ w[h] = q[was(h)]
      <4>1. PICK m \in DOMAIN q : w[h] = q[m] /\ m = IF h < i THEN h ELSE h + 1
        BY RemoveKeeps
      <4> QED BY <4>1
    <3> QED BY <3>1, <3>2
  <2>2. DOMAIN w \subseteq Nat /\ i \in Nat
    BY <2>1
  <2>3. \A g, h \in Nat : was(g) = was(h) => g = h
    BY <2>2
  <2> HIDE DEF w, was
  <2>4. OneDelete(w)
    BY <2>1, <2>2, <2>3 DEF OneDelete
  <2> QED BY <2>4 DEF w
<1>3. ASSUME NEW i \in DOMAIN q, NEW e \in RepoJobType, e.kind = q[i].kind, e.row = q[i].row
      PROVE  OneDelete([q EXCEPT ![i] = e])
  <2> DEFINE w == [q EXCEPT ![i] = e]
  <2>1. DOMAIN w = DOMAIN q /\ \A h \in DOMAIN q : w[h] = IF h = i THEN e ELSE q[h]
    BY ReplaceFacts
  <2> HIDE DEF w
  <2>2. \A h \in DOMAIN q : w[h].kind = q[h].kind /\ w[h].row = q[h].row
    BY <1>3, <2>1
  <2>3. OneDelete(w)
    BY <2>1, <2>2 DEF OneDelete
  <2> QED BY <2>3 DEF w
<1> QED BY <1>1, <1>2, <1>3

-----------------------------------------------------------------------------
(* Repositories: steps of requests *)

\* Requests that neither write the file nor the rows.
LEMMA JobsOnly ==
  ASSUME RepoInv, repos' = repos, file' = file, rjobs' \in Seq(RepoJobType), OneDelete(rjobs'),
         todo' \subseteq DOMAIN repos, stale' \in BOOLEAN, ghost' \in BOOLEAN,
         \A k \in ToSet(rjobs') : k.kind = "delete" =>
           k.row \in DOMAIN repos /\ repos[k.row].live /\ k.name = repos[k.row].name,
         ~stale' => ~stale, ~ghost' => ~ghost,
         \A k \in ToSet(rjobs) : k.kind \in {"create", "delete"} /\ k.stage = "row" => k \in ToSet(rjobs'),
         \A k \in ToSet(rjobs') : k.kind = "create" /\ k.stage = "row" => k \in ToSet(rjobs),
         \A k \in ToSet(rjobs') : k.kind = "delete" /\ k.stage = "row" =>
           k \in ToSet(rjobs) \/ file[k.name] = R!NoEntry,
         ~stale' => \A k \in ToSet(rjobs) : k.kind = "refresh" =>
           \/ file[k.name] # R!NoEntry
           \/ \E m \in ToSet(rjobs') : m.kind = "refresh" /\ m.name = k.name,
         \A x \in todo : \/ x \in todo' \/ file[repos[x].name] # R!NoEntry
                         \/ \E m \in ToSet(rjobs') : m.kind = "refresh" /\ m.name = repos[x].name
  PROVE  RepoInv'
<1>1. RepoTypes'
  BY DEF RepoInv, RepoTypes
<1>2. ASSUME ~stale'
      PROVE  EntriesKept'
  <2>1. EntriesKept
    BY <1>2 DEF RepoInv
  <2>2. ASSUME NEW x \in DOMAIN repos, repos[x].live
        PROVE  HasEntry(x)'
    <3>1. HasEntry(x)
      BY <2>1, <2>2 DEF EntriesKept
    <3>2. CASE file[repos[x].name] # R!NoEntry \/ x \in todo
      BY <3>2 DEF HasEntry
    <3>3. CASE \E k \in ToSet(rjobs) : k.kind = "refresh" /\ k.name = repos[x].name
      BY <1>2, <3>3 DEF HasEntry
    <3>4. CASE \E k \in ToSet(rjobs) : RemovesRow(k, x)
      BY <3>4 DEF HasEntry, RemovesRow
    <3> QED BY <3>1, <3>2, <3>3, <3>4 DEF HasEntry
  <2>3. OneName'
    BY <2>1 DEF EntriesKept, OneName
  <2> QED BY <2>1, <2>2, <2>3 DEF EntriesKept
<1>3. ASSUME ~stale', ~ghost', NEW n \in Repos, file[n] # R!NoEntry
      PROVE  HasRow(n)'
  <2>1. HasRow(n)
    BY <1>3 DEF RepoInv, RowsKept
  <2>2. CASE \E k \in ToSet(rjobs) : InsertsRow(k, n, file[n])
    BY <2>2 DEF HasRow, InsertsRow
  <2>3. ASSUME NEW x \in DOMAIN repos, repos[x].live, repos[x].name = n, repos[x].dom = file[n],
               \A k \in ToSet(rjobs) : ~RemovesRow(k, x)
        PROVE  HasRow(n)'
    <3>1. \A k \in ToSet(rjobs') : ~RemovesRow(k, x)
      BY <1>3, <2>3 DEF RemovesRow
    <3> QED BY <2>3, <3>1 DEF HasRow
  <2> QED BY <2>1, <2>2, <2>3 DEF HasRow
<1> QED BY <1>1, <1>2, <1>3 DEF RepoInv, RowsKept

\* A list of requests that grew, shrank or has a request changed.
LEMMA RequestGains ==
  ASSUME RepoTypes, NEW e \in RepoJobType, rjobs' = Append(rjobs, e),
         \A h \in DOMAIN rjobs : rjobs[h].row # e.row \/ (e.kind # "delete" /\ rjobs[h].kind # "delete")
  PROVE  rjobs' \in Seq(RepoJobType) /\ OneDelete(rjobs') /\ ListGains(rjobs, rjobs', e)
<1>1. rjobs \in Seq(RepoJobType) /\ OneDelete(rjobs)
  BY DEF RepoTypes
<1> QED BY <1>1, ListChanges, DeleteChanges

\* The same for a request that ended.
LEMMA RequestGoes ==
  ASSUME RepoTypes, NEW j \in DOMAIN rjobs, rjobs' = RemoveAt(rjobs, j)
  PROVE  /\ rjobs' \in Seq(RepoJobType) /\ OneDelete(rjobs')
         /\ ListLoses(rjobs, rjobs', rjobs[j]) /\ rjobs[j] \in RepoJobType
<1>1. rjobs \in Seq(RepoJobType) /\ OneDelete(rjobs)
  BY DEF RepoTypes
<1>2. RemoveAt(rjobs, j) \in Seq(RepoJobType) /\ ListLoses(rjobs, RemoveAt(rjobs, j), rjobs[j])
  BY <1>1, ListChanges
<1>3. OneDelete(RemoveAt(rjobs, j))
  BY <1>1, DeleteChanges
<1> QED BY <1>1, <1>2, <1>3

\* The same for a request that goes on.
LEMMA RequestTurns ==
  ASSUME RepoTypes, NEW j \in DOMAIN rjobs, NEW e \in RepoJobType, rjobs' = [rjobs EXCEPT ![j] = e],
         e.kind = rjobs[j].kind, e.row = rjobs[j].row
  PROVE  /\ rjobs' \in Seq(RepoJobType) /\ OneDelete(rjobs')
         /\ ListTurns(rjobs, rjobs', rjobs[j], e) /\ rjobs[j] \in RepoJobType
<1>1. rjobs \in Seq(RepoJobType) /\ OneDelete(rjobs)
  BY DEF RepoTypes
<1>2. /\ [rjobs EXCEPT ![j] = e] \in Seq(RepoJobType)
      /\ ListTurns(rjobs, [rjobs EXCEPT ![j] = e], rjobs[j], e)
  BY <1>1, ListChanges
<1>3. OneDelete([rjobs EXCEPT ![j] = e])
  BY <1>1, DeleteChanges
<1> QED BY <1>1, <1>2, <1>3

\* A request ends that has written nothing, or whose name has its entry.
LEMMA QuietEnd ==
  ASSUME RepoInv, NEW j \in DOMAIN rjobs, rjobs' = RemoveAt(rjobs, j),
         UNCHANGED <<repos, file, todo, ghost>>, stale' \in BOOLEAN, ~stale' => ~stale,
         rjobs[j].stage # "row",
         (rjobs[j].kind = "refresh" /\ ~stale') => file[rjobs[j].name] # R!NoEntry
  PROVE  RepoInv'
<1> DEFINE k == rjobs[j]
<1>1. /\ rjobs' \in Seq(RepoJobType) /\ OneDelete(rjobs')
      /\ k \in ToSet(rjobs) /\ ToSet(rjobs') \subseteq ToSet(rjobs)
      /\ ToSet(rjobs) \ {k} \subseteq ToSet(rjobs')
  BY RequestGoes DEF RepoInv, ListLoses
<1>2. k.stage # "row" /\ ((k.kind = "refresh" /\ ~stale') => file[k.name] # R!NoEntry)
  OBVIOUS
<1> HIDE DEF k
<1>3. /\ \A m \in ToSet(rjobs') : m.kind = "delete" =>
           m.row \in DOMAIN repos /\ repos[m.row].live /\ m.name = repos[m.row].name
      /\ todo \subseteq DOMAIN repos /\ ghost \in BOOLEAN
  BY <1>1 DEF RepoInv, RepoTypes
<1>4. \A m \in ToSet(rjobs) : m.kind = "refresh" /\ m # k => m \in ToSet(rjobs')
  BY <1>1
<1>5. \A m \in ToSet(rjobs) : m.stage = "row" => m \in ToSet(rjobs')
  BY <1>1, <1>2
<1>6. ~stale' => \A m \in ToSet(rjobs) : m.kind = "refresh" =>
        \/ file[m.name] # R!NoEntry
        \/ \E i \in ToSet(rjobs') : i.kind = "refresh" /\ i.name = m.name
  BY <1>2, <1>4
<1> HIDE DEF RepoInv
<1> QED BY <1>1, <1>3, <1>5, <1>6, JobsOnly

\* A request goes on without having written.
LEMMA QuietTurn ==
  ASSUME RepoInv, NEW j \in DOMAIN rjobs, NEW e \in RepoJobType, rjobs' = [rjobs EXCEPT ![j] = e],
         UNCHANGED <<repos, file, todo, ghost, stale>>,
         e.kind = rjobs[j].kind, e.row = rjobs[j].row, e.name = rjobs[j].name,
         rjobs[j].stage # "row",
         e.stage = "row" => e.kind = "delete" /\ file[e.name] = R!NoEntry
  PROVE  RepoInv'
<1> DEFINE k == rjobs[j]
<1>1. /\ rjobs' \in Seq(RepoJobType) /\ OneDelete(rjobs')
      /\ k \in ToSet(rjobs) /\ ToSet(rjobs') \subseteq ToSet(rjobs) \cup {e} /\ e \in ToSet(rjobs')
      /\ ToSet(rjobs) \ {k} \subseteq ToSet(rjobs')
  BY RequestTurns DEF RepoInv, ListTurns
<1>2. /\ k.stage # "row" /\ e.kind = k.kind /\ e.row = k.row /\ e.name = k.name
  OBVIOUS
<1> HIDE DEF k
<1>3. /\ \A m \in ToSet(rjobs') : m.kind = "delete" =>
           m.row \in DOMAIN repos /\ repos[m.row].live /\ m.name = repos[m.row].name
      /\ todo \subseteq DOMAIN repos /\ ghost \in BOOLEAN /\ stale \in BOOLEAN
  <2>1. ASSUME NEW m \in ToSet(rjobs'), m.kind = "delete"
        PROVE  m.row \in DOMAIN repos /\ repos[m.row].live /\ m.name = repos[m.row].name
    <3>1. CASE m \in ToSet(rjobs)
      BY <2>1, <3>1 DEF RepoInv, RepoTypes
    <3>2. CASE m = e
      BY <1>1, <1>2, <2>1, <3>2 DEF RepoInv, RepoTypes
    <3> QED BY <1>1, <3>1, <3>2
  <2>2. todo \subseteq DOMAIN repos /\ ghost \in BOOLEAN /\ stale \in BOOLEAN
    BY DEF RepoInv, RepoTypes
  <2> QED BY <2>1, <2>2
<1>5. \A m \in ToSet(rjobs) : m.stage = "row" => m \in ToSet(rjobs')
  BY <1>1, <1>2
<1>6. \A m \in ToSet(rjobs) : m.kind = "refresh" =>
        \E i \in ToSet(rjobs') : i.kind = "refresh" /\ i.name = m.name
  BY <1>1, <1>2
<1>7. \A m \in ToSet(rjobs') : m.stage = "row" =>
        m \in ToSet(rjobs) \/ (m.kind = "delete" /\ file[m.name] = R!NoEntry)
  BY <1>1
<1> HIDE DEF RepoInv
<1> QED BY <1>1, <1>3, <1>5, <1>6, <1>7, JobsOnly

\* A new request.
LEMMA QuietStart ==
  ASSUME RepoInv, NEW e \in RepoJobType, rjobs' = Append(rjobs, e), e.stage = "load",
         UNCHANGED <<repos, file, ghost, stale>>,
         \A h \in DOMAIN rjobs : rjobs[h].row # e.row \/ (e.kind # "delete" /\ rjobs[h].kind # "delete"),
         e.kind = "delete" => e.row \in DOMAIN repos /\ repos[e.row].live /\ e.name = repos[e.row].name,
         todo' \subseteq todo,
         \A x \in todo \ todo' : e.kind = "refresh" /\ e.name = repos[x].name
  PROVE  RepoInv'
<1>1. /\ rjobs' \in Seq(RepoJobType) /\ OneDelete(rjobs')
      /\ ToSet(rjobs') = ToSet(rjobs) \cup {e}
  BY RequestGains DEF RepoInv, ListGains
<1>3. /\ \A m \in ToSet(rjobs') : m.kind = "delete" =>
           m.row \in DOMAIN repos /\ repos[m.row].live /\ m.name = repos[m.row].name
      /\ todo' \subseteq DOMAIN repos /\ ghost \in BOOLEAN /\ stale \in BOOLEAN
  BY <1>1 DEF RepoInv, RepoTypes
<1>5. \A m \in ToSet(rjobs') : m.stage = "row" => m \in ToSet(rjobs)
  BY <1>1
<1>6. \A x \in todo : \/ x \in todo'
                      \/ \E m \in ToSet(rjobs') : m.kind = "refresh" /\ m.name = repos[x].name
  BY <1>1
<1> HIDE DEF RepoInv
<1> QED BY <1>1, <1>3, <1>5, <1>6, JobsOnly

\* What ends a request, as the modules of the two lists write it.
LEMMA EndsAre ==
  ASSUME NEW j
  PROVE  /\ R!RepoEnds(j) => rjobs' = RemoveAt(rjobs, j)
         /\ R!JobEnds(j) => jobs' = RemoveAt(jobs, j)
BY DEF R!RepoEnds, R!JobEnds, R!RemoveAt, RemoveAt

-----------------------------------------------------------------------------
(* Repositories: the steps *)

\* Requests on repositories and the refresh, whether they hold their step.
LEMMA JobFits ==
  ASSUME RepoInv, NEW j \in DOMAIN rjobs
  PROVE  /\ rjobs[j] \in ToSet(rjobs)
         /\ rjobs[j].kind \in {"create", "sync", "refresh", "delete"} /\ rjobs[j].name \in Repos
         /\ rjobs[j].dom \in Domains /\ rjobs[j].row \in Nat
         /\ rjobs[j].stage \in {"load", "write", "row"} /\ rjobs[j].snap \in R!Files
         /\ rjobs[j] \in RepoJobType
<1>1. rjobs[j] \in RepoJobType /\ rjobs[j] \in ToSet(rjobs)
  BY PlaceFacts DEF RepoInv, RepoTypes
<1> QED BY <1>1 DEF RepoJobType

\* The same request in another stage, with the file it has read.
LEMMA JobTurned ==
  ASSUME NEW k \in RepoJobType, NEW s \in {"load", "write", "row"}
  PROVE  /\ [k EXCEPT !.stage = s] \in RepoJobType
         /\ [k EXCEPT !.stage = s].kind = k.kind /\ [k EXCEPT !.stage = s].row = k.row
         /\ [k EXCEPT !.stage = s].name = k.name /\ [k EXCEPT !.stage = s].dom = k.dom
         /\ [k EXCEPT !.stage = s].stage = s
BY DEF RepoJobType

\* The same request once it has read the file.
LEMMA JobLoaded ==
  ASSUME NEW k \in RepoJobType, NEW f \in R!Files
  PROVE  \E e \in RepoJobType :
           /\ e = [k EXCEPT !.stage = "write", !.snap = f]
           /\ e.kind = k.kind /\ e.row = k.row /\ e.name = k.name /\ e.stage = "write"
<1> DEFINE mid == [k EXCEPT !.stage = "write"]
           e == [mid EXCEPT !.snap = f]
<1>1. /\ mid \in RepoJobType /\ mid.kind = k.kind /\ mid.row = k.row /\ mid.name = k.name
      /\ mid.stage = "write"
  BY JobTurned
<1>2. e = [k EXCEPT !.stage = "write", !.snap = f]
  OBVIOUS
<1> HIDE DEF mid
<1>3. /\ e \in RepoJobType /\ e.kind = mid.kind /\ e.row = mid.row /\ e.name = mid.name
      /\ e.stage = mid.stage
  BY <1>1 DEF RepoJobType
<1> HIDE DEF e
<1> QED BY <1>1, <1>2, <1>3

\* A request that only loads.
LEMMA NewRequestType ==
  ASSUME NEW kind \in {"create", "sync", "refresh", "delete"}, NEW n \in Repos, NEW d \in Domains,
         NEW r \in Nat
  PROVE  [kind |-> kind, name |-> n, dom |-> d, row |-> r, stage |-> "load", snap |-> R!Empty]
           \in RepoJobType
BY DEF RepoJobType, R!Files, R!Empty, R!NoEntry

\* A row has a name and a domain.
LEMMA RepoFits ==
  ASSUME RepoInv, NEW x \in DOMAIN repos
  PROVE  repos[x].name \in Repos /\ repos[x].dom \in Domains /\ x \in Nat /\ x # 0
<1>1. repos \in Seq(RepoType)
  BY DEF RepoInv, RepoTypes
<1>2. repos[x] \in RepoType /\ x \in Nat /\ x # 0
  BY <1>1
<1> QED BY <1>2 DEF RepoType

\* Requests come.
LEMMA RequestSteps ==
  ASSUME RepoInv,
         \/ \E n \in Repos, d \in Domains : R!CreateRepo(n, d)
         \/ \E r \in DOMAIN repos : R!PerformSync(r) \/ R!DeleteRepo(r)
         \/ \E r \in todo : R!RefreshOne(r)
  PROVE  RepoInv'
<1>1. \A h \in DOMAIN rjobs : rjobs[h].kind = "delete" => rjobs[h].row \in DOMAIN repos
  BY JobFits DEF RepoInv, RepoTypes
<1>2. ASSUME NEW n \in Repos, NEW d \in Domains, R!CreateRepo(n, d)
      PROVE  RepoInv'
  <2> DEFINE e == [kind |-> "create", name |-> n, dom |-> d, row |-> 0, stage |-> "load", snap |-> R!Empty]
  <2>1. e \in RepoJobType /\ e.kind = "create" /\ e.stage = "load" /\ e.row = 0
    BY NewRequestType
  <2>2. rjobs' = Append(rjobs, e) /\ UNCHANGED <<repos, file, todo, ghost, stale>>
    BY <1>2 DEF R!CreateRepo, R!RepoJob
  <2> HIDE DEF e
  <2>3. \A h \in DOMAIN rjobs : rjobs[h].kind = "delete" => rjobs[h].row # 0
    BY <1>1, RepoFits
  <2> HIDE DEF RepoInv
  <2> QED BY <2>1, <2>2, <2>3, QuietStart
<1>3. ASSUME NEW r \in DOMAIN repos, R!PerformSync(r) \/ R!DeleteRepo(r)
      PROVE  RepoInv'
  <2> PICK kind \in {"sync", "delete"} :
        rjobs' = Append(rjobs, [kind |-> kind, name |-> repos[r].name, dom |-> repos[r].dom,
                                row |-> r, stage |-> "load", snap |-> R!Empty])
    BY <1>3 DEF R!PerformSync, R!DeleteRepo, R!RepoJob
  <2> DEFINE e == [kind |-> kind, name |-> repos[r].name, dom |-> repos[r].dom,
                   row |-> r, stage |-> "load", snap |-> R!Empty]
  <2>1. e \in RepoJobType /\ e.kind = kind /\ e.stage = "load" /\ e.row = r /\ e.name = repos[r].name
    BY NewRequestType, RepoFits
  <2>2. /\ rjobs' = Append(rjobs, e) /\ UNCHANGED <<repos, file, todo, ghost, stale>>
        /\ repos[r].live /\ \A h \in DOMAIN rjobs : rjobs[h].row # r
    BY <1>3 DEF R!PerformSync, R!DeleteRepo, R!LiveRepo, R!ObjectFree
  <2> HIDE DEF e, RepoInv
  <2> QED BY <2>1, <2>2, QuietStart
<1>4. ASSUME NEW r \in todo, R!RefreshOne(r)
      PROVE  RepoInv'
  <2>1. r \in DOMAIN repos
    BY DEF RepoInv, RepoTypes
  <2>2. UNCHANGED <<repos, file, ghost, stale>> /\ todo' = todo \ {r}
    BY <1>4 DEF R!RefreshOne
  <2>3. CASE file[repos[r].name] = R!NoEntry
    <3> DEFINE e == [kind |-> "refresh", name |-> repos[r].name, dom |-> repos[r].dom,
                     row |-> 0, stage |-> "load", snap |-> R!Empty]
    <3>1. e \in RepoJobType /\ e.kind = "refresh" /\ e.stage = "load" /\ e.row = 0
          /\ e.name = repos[r].name
      BY <2>1, NewRequestType, RepoFits
    <3>2. rjobs' = Append(rjobs, e)
      BY <1>4, <2>3 DEF R!RefreshOne, R!RepoJob
    <3> HIDE DEF e
    <3>3. \A h \in DOMAIN rjobs : rjobs[h].kind = "delete" => rjobs[h].row # 0
      BY <1>1, RepoFits
    <3>4. todo' \subseteq todo /\ \A x \in todo \ todo' : x = r
      BY <2>2
    <3> HIDE DEF RepoInv
    <3> QED BY <2>2, <3>1, <3>2, <3>3, <3>4, QuietStart
  <2>4. CASE file[repos[r].name] # R!NoEntry
    <3>1. rjobs' = rjobs
      BY <1>4, <2>4 DEF R!RefreshOne
    <3>2. /\ rjobs \in Seq(RepoJobType) /\ OneDelete(rjobs) /\ stale \in BOOLEAN /\ ghost \in BOOLEAN
          /\ todo \subseteq DOMAIN repos
          /\ \A k \in ToSet(rjobs) : k.kind = "delete" =>
               k.row \in DOMAIN repos /\ repos[k.row].live /\ k.name = repos[k.row].name
      BY DEF RepoInv, RepoTypes
    <3> HIDE DEF RepoInv
    <3> QED BY <2>2, <2>4, <3>1, <3>2, JobsOnly
  <2> QED BY <2>3, <2>4
<1> QED BY <1>2, <1>3, <1>4

\* Requests that load the file, and those that fail.
LEMMA LoadFileSteps ==
  ASSUME RepoInv, NEW j \in DOMAIN rjobs, R!AddLoad(j) \/ R!RemoveLoad(j) \/ R!AddFails(j)
  PROVE  RepoInv'
<1> DEFINE k == rjobs[j]
<1>1. /\ k \in RepoJobType /\ k.name \in Repos /\ k.kind \in {"create", "sync", "refresh", "delete"}
      /\ stale \in BOOLEAN /\ file \in R!Files
  BY JobFits DEF RepoInv, RepoTypes
<1>2. UNCHANGED <<repos, file, todo, ghost>>
  BY DEF R!AddLoad, R!RemoveLoad, R!AddFails
<1>3. ASSUME R!AddLoad(j) \/ R!RemoveLoad(j) PROVE RepoInv'
  <2>1. k.stage = "load" /\ UNCHANGED <<repos, file, todo, ghost, stale>>
    BY <1>3 DEF R!AddLoad, R!RemoveLoad
  <2>2. \/ R!RepoEnds(j) /\ (k.kind = "refresh" => file[k.name] # R!NoEntry)
        \/ rjobs' = [rjobs EXCEPT ![j].stage = "write", ![j].snap = file]
        \/ rjobs' = [rjobs EXCEPT ![j].stage = "row"] /\ file = R!Empty /\ k.kind = "delete"
    BY <1>3, <1>1 DEF R!AddLoad, R!RemoveLoad, R!RepoStage
  <2>3. CASE R!RepoEnds(j) /\ (k.kind = "refresh" => file[k.name] # R!NoEntry)
    <3>1. rjobs' = RemoveAt(rjobs, j)
      BY <2>3, EndsAre
    <3> QED BY <1>1, <2>1, <2>3, <3>1, QuietEnd
  <2>4. CASE rjobs' = [rjobs EXCEPT ![j].stage = "write", ![j].snap = file]
    <3>1. PICK e \in RepoJobType :
            /\ e = [k EXCEPT !.stage = "write", !.snap = file]
            /\ e.kind = k.kind /\ e.row = k.row /\ e.name = k.name /\ e.stage = "write"
      BY <1>1, JobLoaded
    <3>2. rjobs' = [rjobs EXCEPT ![j] = e]
      BY <2>4, <3>1
    <3> HIDE DEF RepoInv
    <3> QED BY <2>1, <3>1, <3>2, QuietTurn
  <2>5. CASE rjobs' = [rjobs EXCEPT ![j].stage = "row"] /\ file = R!Empty /\ k.kind = "delete"
    <3> DEFINE e == [k EXCEPT !.stage = "row"]
    <3>1. e \in RepoJobType /\ e.kind = k.kind /\ e.row = k.row /\ e.name = k.name
      BY <1>1, JobTurned
    <3>2. rjobs' = [rjobs EXCEPT ![j] = e]
      BY <2>5
    <3>3. file[e.name] = R!NoEntry /\ e.kind = "delete"
      BY <1>1, <2>5, <3>1 DEF R!Empty
    <3> HIDE DEF e, RepoInv
    <3> QED BY <2>1, <2>5, <3>1, <3>2, <3>3, QuietTurn
  <2> QED BY <2>2, <2>3, <2>4, <2>5
<1>4. ASSUME R!AddFails(j) PROVE RepoInv'
  <2>1. k.stage # "row" /\ stale' = (stale \/ k.kind = "refresh") /\ R!RepoEnds(j)
    BY <1>4 DEF R!AddFails
  <2>2. rjobs' = RemoveAt(rjobs, j)
    BY <2>1, EndsAre
  <2>3. stale' \in BOOLEAN /\ (~stale' => ~stale) /\ ~(k.kind = "refresh" /\ ~stale')
    BY <1>1, <2>1
  <2> HIDE DEF RepoInv
  <2> QED BY <1>2, <2>1, <2>2, <2>3, QuietEnd
<1> QED BY <1>3, <1>4

\* The rows are listed.
LEMMA ListReposStep ==
  ASSUME RepoInv, R!ListRepos
  PROVE  RepoInv'
<1>1. todo = {} /\ todo' \subseteq DOMAIN repos /\ UNCHANGED <<repos, file, rjobs, stale, ghost>>
  BY DEF R!ListRepos
<1>2. /\ rjobs \in Seq(RepoJobType) /\ OneDelete(rjobs) /\ stale \in BOOLEAN /\ ghost \in BOOLEAN
      /\ \A k \in ToSet(rjobs) : k.kind = "delete" =>
           k.row \in DOMAIN repos /\ repos[k.row].live /\ k.name = repos[k.row].name
  BY DEF RepoInv, RepoTypes
<1> HIDE DEF RepoInv
<1> QED BY <1>1, <1>2, JobsOnly

\* The process stops: what the refresh lists keeps every entry.
LEMMA RestartRepoStep ==
  ASSUME RepoInv, R!Restart
  PROVE  RepoInv'
<1>1. /\ ghost' = (ghost \/ \E j \in DOMAIN rjobs : rjobs[j].kind = "create" /\ rjobs[j].stage = "row")
      /\ rjobs' = <<>> /\ todo' = {r \in DOMAIN repos : repos[r].live}
      /\ UNCHANGED <<repos, file, stale>>
  BY DEF R!Restart
<1>2. ToSet(rjobs') = {} /\ rjobs' \in Seq(RepoJobType) /\ OneDelete(rjobs')
  BY <1>1 DEF ToSet, OneDelete
<1>3. RepoTypes'
  BY <1>1, <1>2 DEF RepoInv, RepoTypes
<1>4. ASSUME ~stale' PROVE EntriesKept'
  BY <1>1, <1>2, <1>4 DEF RepoInv, EntriesKept, OneName, HasEntry
<1>5. ASSUME ~stale', ~ghost', NEW n \in Repos, file[n] # R!NoEntry PROVE HasRow(n)'
  <2>1. ~ghost /\ \A j \in DOMAIN rjobs : ~(rjobs[j].kind = "create" /\ rjobs[j].stage = "row")
    BY <1>1, <1>5
  <2>2. \A k \in ToSet(rjobs) : ~InsertsRow(k, n, file[n])
    BY <2>1 DEF InsertsRow, ToSet
  <2>3. HasRow(n)
    BY <1>1, <1>5, <2>1 DEF RepoInv, RowsKept
  <2>4. PICK x \in DOMAIN repos : repos[x].live /\ repos[x].name = n /\ repos[x].dom = file[n]
    BY <2>2, <2>3 DEF HasRow
  <2> QED BY <1>1, <1>2, <2>4 DEF HasRow
<1> QED BY <1>1, <1>3, <1>4, <1>5 DEF RepoInv, RowsKept

\* An entry is written.
LEMMA AddWriteStep ==
  ASSUME RepoInv, NEW j \in DOMAIN rjobs, R!AddWrite(j)
  PROVE  RepoInv'
<1> DEFINE k == rjobs[j]
           up == [k EXCEPT !.stage = "row"]
           Covers(x) == /\ repos[x].live /\ repos[x].name = k.name /\ repos[x].dom = k.dom
                        /\ \A i \in DOMAIN rjobs : ~(rjobs[i].kind = "delete" /\ rjobs[i].row = x)
<1>1. /\ k \in RepoJobType /\ k \in ToSet(rjobs) /\ k.name \in Repos /\ k.dom \in Domains
      /\ k.snap \in R!Files
      /\ stale \in BOOLEAN /\ ghost \in BOOLEAN /\ file \in R!Files
  BY JobFits DEF RepoInv, RepoTypes
<1>2. /\ k.kind # "delete" /\ k.stage = "write" /\ file' = [k.snap EXCEPT ![k.name] = k.dom]
      /\ stale' = (stale \/ k.snap # file)
      /\ ghost' = (ghost \/ (k.kind # "create" /\ ~\E x \in DOMAIN repos : Covers(x)))
      /\ UNCHANGED <<repos, todo>>
  BY DEF R!AddWrite
<1>3. /\ k.kind = "create" => rjobs' = [rjobs EXCEPT ![j] = up]
      /\ k.kind # "create" => rjobs' = RemoveAt(rjobs, j)
  BY EndsAre DEF R!AddWrite, R!RepoStage
<1>4. /\ up \in RepoJobType /\ up.kind = k.kind /\ up.row = k.row /\ up.name = k.name
      /\ up.dom = k.dom /\ up.stage = "row"
  BY <1>1, JobTurned
<1> HIDE DEF up
<1>5. RepoTypes
  BY DEF RepoInv
<1>6. /\ rjobs' \in Seq(RepoJobType) /\ OneDelete(rjobs')
      /\ ToSet(rjobs) \ {k} \subseteq ToSet(rjobs')
      /\ k.kind = "create" => up \in ToSet(rjobs') /\ ToSet(rjobs') \subseteq ToSet(rjobs) \cup {up}
      /\ k.kind # "create" => ToSet(rjobs') \subseteq ToSet(rjobs)
  <2>1. CASE k.kind = "create"
    <3>1. /\ rjobs' \in Seq(RepoJobType) /\ OneDelete(rjobs') /\ ListTurns(rjobs, rjobs', k, up)
      BY <1>3, <1>4, <1>5, <2>1, RequestTurns
    <3> QED BY <2>1, <3>1 DEF ListTurns
  <2>2. CASE k.kind # "create"
    <3>1. /\ rjobs' \in Seq(RepoJobType) /\ OneDelete(rjobs') /\ ListLoses(rjobs, rjobs', k)
      BY <1>3, <1>5, <2>2, RequestGoes
    <3> QED BY <2>2, <3>1 DEF ListLoses
  <2> QED BY <2>1, <2>2
<1>7. ToSet(rjobs') \subseteq ToSet(rjobs) \cup {up} /\ up.kind # "delete"
  BY <1>2, <1>4, <1>6
<1>8. file' \in R!Files /\ stale' \in BOOLEAN /\ ghost' \in BOOLEAN
  BY <1>1, <1>2 DEF R!Files
<1>9. RepoTypes'
  BY <1>2, <1>5, <1>6, <1>7, <1>8 DEF RepoTypes
<1>10. ~stale' => ~stale /\ k.snap = file
  BY <1>1, <1>2
<1>11. ASSUME ~stale'
       PROVE  /\ file' = [file EXCEPT ![k.name] = k.dom] /\ file'[k.name] = k.dom
              /\ file'[k.name] # R!NoEntry
              /\ \A n \in Repos : n # k.name => file'[n] = file[n]
  BY <1>1, <1>2, <1>10, <1>11, ApplicationsAssumption DEF R!NoEntry, R!Files
<1>12. \A m \in ToSet(rjobs) : m.stage = "row" => m \in ToSet(rjobs')
  BY <1>2, <1>6
<1>13. ASSUME ~stale' PROVE EntriesKept'
  <2>1. EntriesKept
    BY <1>10, <1>13 DEF RepoInv
  <2>2. OneName'
    BY <1>2, <2>1 DEF EntriesKept, OneName
  <2>3. ASSUME NEW x \in DOMAIN repos, repos[x].live PROVE HasEntry(x)'
    <3>1. CASE repos[x].name = k.name
      BY <1>2, <1>11, <1>13, <3>1 DEF HasEntry
    <3>2. CASE repos[x].name # k.name
      <4>1. HasEntry(x) /\ repos[x].name \in Repos
        BY <2>1, <2>3, RepoFits DEF EntriesKept
      <4>2. file'[repos[x].name] = file[repos[x].name]
        BY <1>11, <1>13, <3>2, <4>1
      <4>3. CASE file[repos[x].name] # R!NoEntry \/ x \in todo
        BY <1>2, <4>2, <4>3 DEF HasEntry
      <4>4. CASE \E m \in ToSet(rjobs) : m.kind = "refresh" /\ m.name = repos[x].name
        <5>1. PICK m \in ToSet(rjobs) : m.kind = "refresh" /\ m.name = repos[x].name
          BY <4>4
        <5>2. m \in ToSet(rjobs')
          BY <1>6, <3>2, <5>1
        <5> QED BY <1>2, <5>1, <5>2 DEF HasEntry
      <4>5. CASE \E m \in ToSet(rjobs) : RemovesRow(m, x)
        BY <1>2, <1>12, <4>5 DEF HasEntry, RemovesRow
      <4> QED BY <4>1, <4>3, <4>4, <4>5 DEF HasEntry
    <3> QED BY <3>1, <3>2
  <2>4. ASSUME NEW m \in ToSet(rjobs'), m.kind = "create", m.stage = "row"
        PROVE  file'[m.name] # R!NoEntry
    <3>1. CASE m.name = k.name
      BY <1>11, <1>13, <3>1
    <3>2. CASE m.name # k.name
      <4>1. m \in ToSet(rjobs)
        BY <1>4, <1>7, <3>2
      <4>2. m.name \in Repos
        <5>1. rjobs \in Seq(RepoJobType)
          BY <1>5 DEF RepoTypes
        <5>2. m \in RepoJobType
          BY <4>1, <5>1, PlaceFacts
        <5> QED BY <5>2 DEF RepoJobType
      <4> QED BY <1>11, <1>13, <2>1, <2>4, <3>2, <4>1, <4>2 DEF EntriesKept
    <3> QED BY <3>1, <3>2
  <2> QED BY <1>2, <2>2, <2>3, <2>4 DEF EntriesKept
<1>14. ASSUME ~stale', ~ghost', NEW n \in Repos, file'[n] # R!NoEntry PROVE HasRow(n)'
  <2>1. ~ghost /\ (k.kind = "create" \/ \E x \in DOMAIN repos : Covers(x))
    BY <1>1, <1>2, <1>14
  <2>2. ASSUME NEW x, NEW m \in ToSet(rjobs'), RemovesRow(m, x)
        PROVE  m \in ToSet(rjobs)
    BY <1>7, <2>2 DEF RemovesRow
  <2>3. CASE n # k.name
    <3>1. file'[n] = file[n] /\ HasRow(n)
      BY <1>10, <1>11, <1>14, <2>1, <2>3 DEF RepoInv, RowsKept
    <3>2. CASE \E m \in ToSet(rjobs) : InsertsRow(m, n, file[n])
      BY <1>12, <3>1, <3>2 DEF HasRow, InsertsRow
    <3>3. ASSUME NEW x \in DOMAIN repos, repos[x].live, repos[x].name = n, repos[x].dom = file[n],
                 \A m \in ToSet(rjobs) : ~RemovesRow(m, x)
          PROVE  HasRow(n)'
      BY <1>2, <2>2, <3>1, <3>3 DEF HasRow
    <3> QED BY <3>1, <3>2, <3>3 DEF HasRow
  <2>4. CASE n = k.name /\ k.kind = "create"
    <3>1. InsertsRow(up, n, file'[n]) /\ up \in ToSet(rjobs')
      BY <1>4, <1>6, <1>11, <1>14, <2>4 DEF InsertsRow
    <3> QED BY <3>1 DEF HasRow
  <2>5. CASE n = k.name /\ \E x \in DOMAIN repos : Covers(x)
    <3>1. PICK x \in DOMAIN repos : Covers(x)
      BY <2>5
    <3>2. \A m \in ToSet(rjobs') : ~RemovesRow(m, x)
      BY <2>2, <3>1, PlaceFacts DEF RemovesRow, ToSet
    <3> QED BY <1>2, <1>11, <1>14, <2>5, <3>1, <3>2 DEF HasRow
  <2> QED BY <2>1, <2>3, <2>4, <2>5
<1> QED BY <1>9, <1>13, <1>14 DEF RepoInv, RowsKept

\* The name is free and the row is inserted, or the name is given up.
LEMMA InsertRepoStep ==
  ASSUME RepoInv, NEW j \in DOMAIN rjobs, R!InsertRepo(j)
  PROVE  RepoInv'
<1> DEFINE k == rjobs[j]
           row == [name |-> k.name, dom |-> k.dom, live |-> TRUE]
           Same(x) == repos[x].live /\ repos[x].name = k.name
<1>1. /\ k \in ToSet(rjobs) /\ k.name \in Repos /\ k.dom \in Domains
      /\ stale \in BOOLEAN /\ ghost \in BOOLEAN /\ file \in R!Files
      /\ rjobs \in Seq(RepoJobType) /\ repos \in Seq(RepoType) /\ RepoTypes
  BY JobFits DEF RepoInv, RepoTypes
<1>2. /\ k.kind = "create" /\ k.stage = "row" /\ R!RepoEnds(j) /\ UNCHANGED <<file, todo>>
      /\ \/ /\ repos' = Append(repos, row)
            /\ stale' = (stale \/ {x \in DOMAIN repos : Same(x)} # {})
            /\ UNCHANGED ghost
         \/ ghost' = TRUE /\ UNCHANGED <<repos, stale>>
  BY DEF R!InsertRepo
<1>3. rjobs' = RemoveAt(rjobs, j)
  BY <1>2, EndsAre
<1>4. /\ rjobs' \in Seq(RepoJobType) /\ OneDelete(rjobs')
      /\ ToSet(rjobs') \subseteq ToSet(rjobs) /\ ToSet(rjobs) \ {k} \subseteq ToSet(rjobs')
  BY <1>1, <1>3, RequestGoes DEF ListLoses
<1>5. \A m \in ToSet(rjobs') : m.kind = "delete" =>
        m.row \in DOMAIN repos /\ repos[m.row].live /\ m.name = repos[m.row].name
  BY <1>1, <1>4 DEF RepoTypes
<1>6. \A m \in ToSet(rjobs) : m.kind # "create" => m \in ToSet(rjobs')
  BY <1>2, <1>4
<1>7. todo \subseteq DOMAIN repos
  BY <1>1 DEF RepoTypes
<1> HIDE DEF k, row
<1>8. CASE ghost' = TRUE /\ UNCHANGED <<repos, stale>>
  <2>1. RepoTypes'
    BY <1>1, <1>2, <1>4, <1>5, <1>7, <1>8 DEF RepoTypes
  <2>2. ASSUME ~stale' PROVE EntriesKept'
    <3>1. EntriesKept
      BY <1>8, <2>2 DEF RepoInv
    <3>2. ASSUME NEW x \in DOMAIN repos, repos[x].live PROVE HasEntry(x)'
      <4>1. HasEntry(x)
        BY <3>1, <3>2 DEF EntriesKept
      <4> QED BY <1>2, <1>6, <1>8, <4>1 DEF HasEntry, RemovesRow
    <3> QED BY <1>2, <1>4, <1>8, <3>1, <3>2 DEF EntriesKept, OneName
  <2> QED BY <1>8, <2>1, <2>2 DEF RepoInv
<1>9. CASE /\ repos' = Append(repos, row)
           /\ stale' = (stale \/ {x \in DOMAIN repos : Same(x)} # {})
           /\ UNCHANGED ghost
  <2>1. row \in RepoType /\ row.name = k.name /\ row.dom = k.dom /\ row.live
    BY <1>1 DEF row, RepoType
  <2> PICK top : top = Len(repos) + 1
    OBVIOUS
  <2>2. /\ repos' \in Seq(RepoType) /\ DOMAIN repos' = DOMAIN repos \cup {top} /\ top \notin DOMAIN repos
        /\ \A x \in DOMAIN repos : repos'[x] = repos[x]
        /\ repos'[top] = row
    BY <1>1, <1>9, <2>1, AppendFacts
  <2>3. RepoTypes'
    <3>1. stale' \in BOOLEAN
      BY <1>1, <1>9
    <3>2. \A m \in ToSet(rjobs') : m.kind = "delete" =>
            m.row \in DOMAIN repos' /\ repos'[m.row].live /\ m.name = repos'[m.row].name
      BY <1>5, <2>2
    <3> QED BY <1>1, <1>2, <1>4, <1>7, <1>9, <2>2, <3>1, <3>2 DEF RepoTypes
  <2>4. ~stale' => ~stale /\ \A x \in DOMAIN repos : ~Same(x)
    BY <1>1, <1>9
  <2>5. ASSUME ~stale' PROVE EntriesKept'
    <3>1. EntriesKept /\ \A x \in DOMAIN repos : ~Same(x)
      BY <2>4, <2>5 DEF RepoInv
    <3>2. ASSUME NEW x \in DOMAIN repos, repos[x].live PROVE HasEntry(x)'
      <4>1. HasEntry(x)
        BY <3>1, <3>2 DEF EntriesKept
      <4> QED BY <1>2, <1>6, <2>2, <4>1 DEF HasEntry, RemovesRow
    <3>3. file[k.name] # R!NoEntry
      BY <1>1, <1>2, <3>1 DEF EntriesKept
    <3>4. HasEntry(top)'
      BY <1>2, <2>1, <2>2, <3>3 DEF HasEntry
    <3>5. OneName'
      BY <2>1, <2>2, <3>1 DEF EntriesKept, OneName
    <3> QED BY <1>2, <1>4, <2>2, <3>1, <3>2, <3>4, <3>5 DEF EntriesKept
  <2>6. ASSUME ~stale', ~ghost', NEW n \in Repos, file[n] # R!NoEntry PROVE HasRow(n)'
    <3>1. HasRow(n)
      BY <1>9, <2>4, <2>6 DEF RepoInv, RowsKept
    <3>2. ASSUME NEW x \in DOMAIN repos, repos[x].live, repos[x].name = n, repos[x].dom = file[n],
                 \A m \in ToSet(rjobs) : ~RemovesRow(m, x)
          PROVE  HasRow(n)'
      BY <1>2, <1>4, <2>2, <3>2 DEF HasRow
    <3>3. ASSUME NEW m \in ToSet(rjobs), InsertsRow(m, n, file[n]) PROVE HasRow(n)'
      <4>1. CASE m = k
        <5>1. row.name = n /\ row.dom = file[n] /\ row.live
          BY <2>1, <3>3, <4>1 DEF InsertsRow
        <5>2. \A i \in ToSet(rjobs') : ~RemovesRow(i, top)
          BY <1>5, <2>2 DEF RemovesRow
        <5> QED BY <1>2, <2>2, <5>1, <5>2 DEF HasRow
      <4>2. CASE m # k
        BY <1>2, <1>4, <3>3, <4>2 DEF HasRow
      <4> QED BY <4>1, <4>2
    <3> QED BY <3>1, <3>2, <3>3 DEF HasRow
  <2> QED BY <1>2, <2>3, <2>5, <2>6 DEF RepoInv, RowsKept
<1> QED BY <1>2, <1>8, <1>9

\* An entry is removed.
LEMMA RemoveWriteStep ==
  ASSUME RepoInv, NEW j \in DOMAIN rjobs, R!RemoveWrite(j)
  PROVE  RepoInv'
<1> DEFINE k == rjobs[j]
           up == [k EXCEPT !.stage = "row"]
<1>1. /\ k \in RepoJobType /\ k \in ToSet(rjobs) /\ k.name \in Repos /\ k.snap \in R!Files
      /\ stale \in BOOLEAN /\ ghost \in BOOLEAN /\ file \in R!Files /\ RepoTypes
  BY JobFits DEF RepoInv, RepoTypes
<1>2. /\ k.kind = "delete" /\ k.stage = "write" /\ file' = [k.snap EXCEPT ![k.name] = R!NoEntry]
      /\ stale' = (stale \/ k.snap # file \/ \E i \in DOMAIN rjobs :
                     rjobs[i].kind = "create" /\ rjobs[i].stage = "row" /\ rjobs[i].name = k.name)
      /\ rjobs' = [rjobs EXCEPT ![j] = up]
      /\ UNCHANGED <<repos, todo, ghost>>
  BY DEF R!RemoveWrite, R!RepoStage
<1>3. /\ up \in RepoJobType /\ up.kind = k.kind /\ up.row = k.row /\ up.name = k.name
      /\ up.stage = "row"
  BY <1>1, JobTurned
<1> HIDE DEF up
<1>4. /\ rjobs' \in Seq(RepoJobType) /\ OneDelete(rjobs')
      /\ ToSet(rjobs') \subseteq ToSet(rjobs) \cup {up} /\ up \in ToSet(rjobs')
      /\ ToSet(rjobs) \ {k} \subseteq ToSet(rjobs')
  BY <1>1, <1>2, <1>3, RequestTurns DEF ListTurns
<1>5. /\ k.row \in DOMAIN repos /\ repos[k.row].live /\ k.name = repos[k.row].name
      /\ \A m \in ToSet(rjobs') : m.kind = "delete" =>
           m.row \in DOMAIN repos /\ repos[m.row].live /\ m.name = repos[m.row].name
  BY <1>1, <1>2, <1>3, <1>4 DEF RepoTypes
<1>6. RepoTypes'
  <2>1. file' \in R!Files /\ stale' \in BOOLEAN
    BY <1>1, <1>2 DEF R!Files
  <2> QED BY <1>1, <1>2, <1>4, <1>5, <2>1 DEF RepoTypes
<1>7. ~stale' => /\ ~stale /\ k.snap = file
                 /\ \A i \in DOMAIN rjobs : ~(rjobs[i].kind = "create" /\ rjobs[i].stage = "row"
                                              /\ rjobs[i].name = k.name)
  BY <1>1, <1>2
<1>8. ~stale' => \A m \in ToSet(rjobs) : ~(m.kind = "create" /\ m.stage = "row" /\ m.name = k.name)
  BY <1>7 DEF ToSet
<1>9. ASSUME ~stale'
      PROVE  file'[k.name] = R!NoEntry /\ \A n \in Repos : n # k.name => file'[n] = file[n]
  BY <1>1, <1>2, <1>7, <1>9 DEF R!Files
<1>10. \A m \in ToSet(rjobs) : m.kind # "delete" \/ m.stage = "row" => m \in ToSet(rjobs')
  BY <1>2, <1>4
<1> HIDE DEF k
<1>11. ASSUME ~stale' PROVE EntriesKept'
  <2>1. EntriesKept
    BY <1>7, <1>11 DEF RepoInv
  <2>2. OneName'
    BY <1>2, <2>1 DEF EntriesKept, OneName
  <2>3. ASSUME NEW x \in DOMAIN repos, repos[x].live PROVE HasEntry(x)'
    <3>1. CASE repos[x].name = k.name
      <4>1. x = k.row
        BY <1>5, <2>1, <2>3, <3>1 DEF EntriesKept, OneName
      <4> QED BY <1>2, <1>3, <1>4, <4>1 DEF HasEntry, RemovesRow
    <3>2. CASE repos[x].name # k.name
      <4>1. HasEntry(x) /\ repos[x].name \in Repos
        BY <2>1, <2>3, RepoFits DEF EntriesKept
      <4>2. file'[repos[x].name] = file[repos[x].name]
        BY <1>9, <1>11, <3>2, <4>1
      <4> QED BY <1>2, <1>10, <4>1, <4>2 DEF HasEntry, RemovesRow
    <3> QED BY <3>1, <3>2
  <2>4. ASSUME NEW m \in ToSet(rjobs'), m.kind = "create", m.stage = "row"
        PROVE  file'[m.name] # R!NoEntry
    <3>1. m \in ToSet(rjobs)
      BY <1>2, <1>3, <1>4, <2>4
    <3>2. m.name # k.name /\ file[m.name] # R!NoEntry
      BY <1>8, <1>11, <2>1, <2>4, <3>1 DEF EntriesKept
    <3>3. m.name \in Repos
      <4>1. m \in RepoJobType
        BY <1>4, <2>4, PlaceFacts
      <4> QED BY <4>1 DEF RepoJobType
    <3> QED BY <1>9, <1>11, <3>2, <3>3
  <2> QED BY <1>2, <2>2, <2>3, <2>4 DEF EntriesKept
<1>12. ASSUME ~stale', ~ghost', NEW n \in Repos, file'[n] # R!NoEntry PROVE HasRow(n)'
  <2>1. n # k.name /\ file'[n] = file[n] /\ HasRow(n)
    BY <1>2, <1>7, <1>9, <1>12 DEF RepoInv, RowsKept
  <2>2. CASE \E m \in ToSet(rjobs) : InsertsRow(m, n, file[n])
    BY <1>10, <2>1, <2>2 DEF HasRow, InsertsRow
  <2>3. ASSUME NEW x \in DOMAIN repos, repos[x].live, repos[x].name = n, repos[x].dom = file[n],
               \A m \in ToSet(rjobs) : ~RemovesRow(m, x)
        PROVE  HasRow(n)'
    <3>1. \A m \in ToSet(rjobs') : ~RemovesRow(m, x)
      BY <1>3, <1>4, <1>5, <2>1, <2>3 DEF RemovesRow
    <3> QED BY <1>2, <2>1, <2>3, <3>1 DEF HasRow
  <2> QED BY <2>1, <2>2, <2>3 DEF HasRow
<1> QED BY <1>6, <1>11, <1>12 DEF RepoInv, RowsKept

\* The row goes.
LEMMA RemoveRowStep ==
  ASSUME RepoInv, NEW j \in DOMAIN rjobs, R!RemoveRow(j)
  PROVE  RepoInv'
<1> PICK k \in ToSet(rjobs) : k = rjobs[j]
  BY JobFits
<1> PICK z : z = k.row
  OBVIOUS
<1>1. /\ k.kind = "delete" /\ k.stage = "row" /\ R!RepoEnds(j)
      /\ repos' = [repos EXCEPT ![z].live = FALSE]
      /\ UNCHANGED <<file, todo, stale, ghost>>
  BY DEF R!RemoveRow
<1>2. /\ RepoTypes /\ repos \in Seq(RepoType) /\ rjobs \in Seq(RepoJobType)
      /\ z \in DOMAIN repos /\ repos[z] \in RepoType /\ OneDelete(rjobs)
      /\ \A m \in ToSet(rjobs) : m.kind = "delete" =>
           m.row \in DOMAIN repos /\ repos[m.row].live /\ m.name = repos[m.row].name
  BY <1>1 DEF RepoInv, RepoTypes
<1>3. rjobs' = RemoveAt(rjobs, j)
  BY <1>1, EndsAre
<1>4. /\ rjobs' \in Seq(RepoJobType) /\ OneDelete(rjobs')
      /\ ToSet(rjobs') \subseteq ToSet(rjobs) /\ ToSet(rjobs) \ {k} \subseteq ToSet(rjobs')
  BY <1>2, <1>3, RequestGoes DEF ListLoses
<1>5. ASSUME NEW m \in ToSet(rjobs') PROVE m.row # z
  <2>1. PICK h \in DOMAIN rjobs' : rjobs'[h] = m
    BY <1>4, PlaceFacts
  <2>2. PICK i \in DOMAIN rjobs : i # j /\ rjobs'[h] = rjobs[i]
    BY <1>2, <1>3, RemoveKeeps
  <2> QED BY <1>1, <1>2, <2>1, <2>2 DEF OneDelete
<1>6. /\ repos' \in Seq(RepoType) /\ DOMAIN repos' = DOMAIN repos
      /\ \A x \in DOMAIN repos : x # z => repos'[x] = repos[x]
      /\ ~repos'[z].live
  <2> DEFINE left == [repos[z] EXCEPT !.live = FALSE]
  <2>1. left \in RepoType /\ ~left.live
    BY <1>2 DEF RepoType
  <2>2. repos' = [repos EXCEPT ![z] = left]
    BY <1>1
  <2> HIDE DEF left
  <2> QED BY <1>2, <2>1, <2>2, ReplaceFacts
<1>7. RepoTypes'
  <2>1. \A m \in ToSet(rjobs') : m.kind = "delete" =>
          m.row \in DOMAIN repos' /\ repos'[m.row].live /\ m.name = repos'[m.row].name
    BY <1>2, <1>4, <1>5, <1>6
  <2> QED BY <1>1, <1>2, <1>4, <1>6, <2>1 DEF RepoTypes
<1>8. \A m \in ToSet(rjobs) : m.kind # "delete" \/ m.row # z => m \in ToSet(rjobs')
  BY <1>1, <1>4
<1>9. ASSUME ~stale' PROVE EntriesKept'
  <2>1. EntriesKept
    BY <1>1, <1>9 DEF RepoInv
  <2>2. ASSUME NEW x \in DOMAIN repos, repos'[x].live PROVE HasEntry(x)'
    <3>1. x # z /\ repos'[x] = repos[x] /\ HasEntry(x)
      BY <1>6, <2>1, <2>2 DEF EntriesKept
    <3> QED BY <1>1, <1>8, <3>1 DEF HasEntry, RemovesRow
  <2> QED BY <1>1, <1>4, <1>6, <2>1, <2>2 DEF EntriesKept, OneName
<1>10. ASSUME ~stale', ~ghost', NEW n \in Repos, file[n] # R!NoEntry PROVE HasRow(n)'
  <2>1. HasRow(n)
    BY <1>1, <1>10 DEF RepoInv, RowsKept
  <2>2. ASSUME NEW x \in DOMAIN repos, repos[x].live, repos[x].name = n, repos[x].dom = file[n],
               \A m \in ToSet(rjobs) : ~RemovesRow(m, x)
        PROVE  HasRow(n)'
    <3>1. x # z
      BY <1>1, <2>2 DEF RemovesRow
    <3> QED BY <1>1, <1>4, <1>6, <2>2, <3>1 DEF HasRow
  <2>3. ASSUME NEW m \in ToSet(rjobs), InsertsRow(m, n, file[n]) PROVE HasRow(n)'
    BY <1>1, <1>8, <2>3 DEF HasRow, InsertsRow
  <2> QED BY <2>1, <2>2, <2>3 DEF HasRow
<1> QED BY <1>1, <1>7, <1>9, <1>10 DEF RepoInv, RowsKept

\* Nothing of repositories changes.
LEMMA RepoStands ==
  ASSUME RepoInv, UNCHANGED <<repos, file, rjobs, todo, stale, ghost>>
  PROVE  RepoInv'
<1>1. /\ rjobs \in Seq(RepoJobType) /\ OneDelete(rjobs) /\ stale \in BOOLEAN /\ ghost \in BOOLEAN
      /\ todo \subseteq DOMAIN repos
      /\ \A k \in ToSet(rjobs) : k.kind = "delete" =>
           k.row \in DOMAIN repos /\ repos[k.row].live /\ k.name = repos[k.row].name
  BY DEF RepoInv, RepoTypes
<1> HIDE DEF RepoInv
<1> QED BY <1>1, JobsOnly

\* The invariant holds at the start ...
LEMMA RepoInitHolds ==
  ASSUME AppInit
  PROVE  RepoInv
<1>1. /\ repos = <<>> /\ file = R!Empty /\ rjobs = <<>> /\ todo = {} /\ stale = FALSE /\ ghost = FALSE
  BY DEF AppInit, R!RelInit
<1>2. ToSet(rjobs) = {} /\ DOMAIN repos = {} /\ OneDelete(rjobs)
  BY <1>1 DEF ToSet, OneDelete
<1>3. file \in R!Files /\ \A n \in Repos : file[n] = R!NoEntry
  BY <1>1 DEF R!Files, R!Empty, R!NoEntry
<1>4. RepoTypes
  <2>1. stale \in BOOLEAN /\ ghost \in BOOLEAN
    BY <1>1
  <2>2. repos \in Seq(RepoType) /\ rjobs \in Seq(RepoJobType) /\ todo \subseteq DOMAIN repos
    BY <1>1
  <2> QED BY <1>2, <1>3, <2>1, <2>2 DEF RepoTypes
<1>5. EntriesKept /\ RowsKept
  BY <1>2, <1>3 DEF EntriesKept, RowsKept, OneName
<1> QED BY <1>4, <1>5 DEF RepoInv

\* ... every step keeps it ...
LEMMA RepoNextHolds ==
  ASSUME RepoInv, [AppNext]_appVars
  PROVE  RepoInv'
<1>1. CASE ComponentStep
  BY <1>1, RepoStands DEF ComponentStep
<1>2. CASE UNCHANGED appVars
  BY <1>2, RepoStands DEF appVars
<1>3. CASE R!RelNext
  <2>1. CASE \/ \E n \in Repos, d \in Domains : R!CreateRepo(n, d)
             \/ \E r \in DOMAIN repos : R!PerformSync(r) \/ R!DeleteRepo(r)
             \/ \E r \in todo : R!RefreshOne(r)
    BY <2>1, RequestSteps
  <2>2. CASE R!ListRepos \/ R!Restart
    BY <2>2, ListReposStep, RestartRepoStep
  <2>3. CASE \E j \in DOMAIN rjobs : \/ R!AddLoad(j) \/ R!AddFails(j) \/ R!AddWrite(j)
                                     \/ R!InsertRepo(j) \/ R!RemoveLoad(j) \/ R!RemoveWrite(j)
                                     \/ R!RemoveRow(j)
    BY <2>3, LoadFileSteps, AddWriteStep, InsertRepoStep, RemoveWriteStep, RemoveRowStep
  <2>4. CASE \/ \E n \in RelNames, p \in DOMAIN repos : R!CreateRelease(n, p)
             \/ \E r \in DOMAIN rels : R!DeleteRelease(r)
             \/ \E j \in DOMAIN jobs : \/ R!InsertRelease(j) \/ R!Install(j) \/ R!CreateEnds(j)
                                       \/ R!Uninstall(j) \/ R!DeleteEnds(j)
             \/ R!ListReleases \/ R!SyncReleases
    <3>1. UNCHANGED <<repos, file, rjobs, todo, stale, ghost>>
      BY <2>4 DEF R!CreateRelease, R!DeleteRelease, R!InsertRelease, R!Install, R!CreateEnds,
         R!Uninstall, R!DeleteEnds, R!ListReleases, R!SyncReleases, R!repoSide
    <3> QED BY <3>1, RepoStands
  <2> QED BY <1>3, <2>1, <2>2, <2>3, <2>4 DEF R!RelNext
<1> QED BY <1>1, <1>2, <1>3 DEF AppNext, ReleaseStep

\* ... and it explains the property.
LEMMA RepoInvMatches ==
  ASSUME RepoInv
  PROVE  RepoFileMatches
<1>1. ASSUME rjobs = <<>>, todo = {}, ~stale
      PROVE  /\ \A r \in DOMAIN repos : repos[r].live => file[repos[r].name] # R!NoEntry
             /\ ~ghost => \A n \in Repos : file[n] # R!NoEntry =>
                  \E r \in DOMAIN repos : repos[r].live /\ repos[r].name = n /\ repos[r].dom = file[n]
  <2>1. ToSet(rjobs) = {}
    BY <1>1 DEF ToSet
  <2>2. EntriesKept /\ (~ghost => RowsKept)
    BY <1>1 DEF RepoInv
  <2> QED BY <1>1, <2>1, <2>2 DEF EntriesKept, RowsKept, HasEntry, HasRow
<1> QED BY <1>1 DEF RepoFileMatches, R!RepoFileMatches

-----------------------------------------------------------------------------
(* Releases: the inductive invariant *)

\* The releases that users create.
Mine == RelNames \ {ComponentRelease}

RelType == [name : RelNames, repo : Nat, live : BOOLEAN, status : R!RowStatus]
RelJobType == [kind : {"create", "delete"}, name : RelNames, repo : Nat, row : Nat,
               stage : {"insert", "call", "done", "failed"}]

RelTypes ==
  /\ rels \in Seq(RelType) /\ jobs \in Seq(RelJobType)
  /\ \A k \in ToSet(jobs) : /\ k.row \in DOMAIN rels \cup {0} /\ (k.stage = "insert" <=> k.row = 0)
                            /\ k.kind = "create" => k.name \in Mine
  /\ listing.seen \in [RelNames -> R!HelmStatus] /\ store \in [Apps -> R!HelmStatus]
  /\ race \in BOOLEAN /\ raced \in BOOLEAN

\* A name is that of one row.
NamesOnce ==
  \A r, s \in DOMAIN rels :
    (rels[r].live /\ rels[s].live /\ rels[r].name = rels[s].name) => r = s

\* A row has one task.
OneRow(ks) == \A i, h \in DOMAIN ks : (ks[i].row # 0 /\ ks[i].row = ks[h].row) => i = h

\* The row of a task is there, and a task that is done has done its work.
TaskTells(k) ==
  /\ k.row # 0 => rels[k.row].live /\ rels[k.row].name = k.name
  /\ (k.stage = "done" /\ k.name \in Mine) =>
       Helm[k.name] = IF k.kind = "create" THEN "deployed" ELSE "none"

\* A row at rest that says deployed has its release.
RowTells(r) ==
  (/\ rels[r].live /\ rels[r].name \in Mine /\ rels[r].status = "deployed"
   /\ \A k \in ToSet(jobs) : k.row # r) => Helm[rels[r].name] = "deployed"

\* A release has its row.
IsKnown(n) == Helm[n] # "none" => \E r \in DOMAIN rels : rels[r].live /\ rels[r].name = n

Agree ==
  /\ OneRow(jobs)
  /\ \A k \in ToSet(jobs) : TaskTells(k)
  /\ \A r \in DOMAIN rels : RowTells(r)
  /\ \A n \in Mine : IsKnown(n)

ReleaseInv == RelTypes /\ NamesOnce /\ (~raced => Agree)

-----------------------------------------------------------------------------
(* Releases: facts about the operators *)

\* What a set is turned into: every element once.
LEMMA ListOfSet ==
  ASSUME NEW S, IsFiniteSet(S)
  PROVE  /\ R!SetToSeq(S) \in Seq(S)
         /\ \A e \in S : \E i \in DOMAIN R!SetToSeq(S) : R!SetToSeq(S)[i] = e
         /\ \A i, h \in DOMAIN R!SetToSeq(S) : R!SetToSeq(S)[i] = R!SetToSeq(S)[h] => i = h
<1> DEFINE n == Cardinality(S)
           One(f) == f \in [1..n -> S] /\ \A a, b \in 1..n : f[a] = f[b] => a = b
<1>1. n \in Nat /\ ExistsBijection(1..n, S)
  BY FS_CardinalityType
<1>2. \E f : One(f)
  BY <1>1 DEF ExistsBijection, Bijection, Injection, IsInjective
<1>0. R!Cardinality(S) = Cardinality(S)
  BY DEF R!Cardinality, Cardinality
<1>3. R!SetToSeq(S) = CHOOSE f \in [1..n -> S] : \A a, b \in DOMAIN f : f[a] = f[b] => a = b
  BY <1>0 DEF R!SetToSeq, R!IsInjective
<1>4. One(R!SetToSeq(S))
  BY <1>2, <1>3
<1> DEFINE q == R!SetToSeq(S)
<1> HIDE DEF q
<1>5. q \in Injection(1..n, S)
  BY <1>4 DEF Injection, IsInjective, q
<1>6. IsFiniteSet(1..n) /\ Cardinality(1..n) = n
  BY <1>1, FS_Interval
<1>7. q \in Surjection(1..n, S)
  BY <1>1, <1>5, <1>6, FS_Injection
<1> HIDE DEF n
<1>8. q \in Seq(S) /\ DOMAIN q = 1..n
  BY <1>1, <1>4 DEF q
<1> QED BY <1>4, <1>7, <1>8 DEF Surjection, q

\* What helm has is a status; of the releases of users it is what the store has.
LEMMA HelmFacts ==
  ASSUME store \in [Apps -> R!HelmStatus]
  PROVE  /\ Helm \in [RelNames -> R!HelmStatus]
         /\ \A n \in Mine : n \in RelNames /\ Helm[n] = store[n]
BY DEF Helm, ReleaseStatus, R!HelmStatus, Mine, RelNames

\* Rows and tasks of releases are of their types.
LEMMA RelFits ==
  ASSUME RelTypes
  PROVE  /\ \A r \in DOMAIN rels : /\ rels[r] \in RelType /\ rels[r].name \in RelNames
                                   /\ rels[r].repo \in Nat /\ rels[r].live \in BOOLEAN
                                   /\ rels[r].status \in R!RowStatus /\ r \in Nat /\ r # 0
         /\ \A j \in DOMAIN jobs : jobs[j] \in ToSet(jobs)
         /\ \A k \in ToSet(jobs) : /\ k \in RelJobType /\ k.kind \in {"create", "delete"}
                                   /\ k.name \in RelNames /\ k.repo \in Nat /\ k.row \in Nat
                                   /\ k.stage \in {"insert", "call", "done", "failed"}
<1>1. rels \in Seq(RelType) /\ jobs \in Seq(RelJobType)
  BY DEF RelTypes
<1>2. ASSUME NEW r \in DOMAIN rels PROVE rels[r] \in RelType /\ r \in Nat /\ r # 0
  BY <1>1
<1>3. ASSUME NEW k \in ToSet(jobs) PROVE k \in RelJobType
  BY <1>1, PlaceFacts
<1>4. \A j \in DOMAIN jobs : jobs[j] \in ToSet(jobs)
  BY <1>1, PlaceFacts
<1> QED BY <1>2, <1>3, <1>4 DEF RelType, RelJobType

\* A row keeps one task when a task comes, ends or goes on.
LEMMA OneRowChanges ==
  ASSUME NEW q \in Seq(RelJobType), OneRow(q)
  PROVE  /\ \A e \in RelJobType :
              (e.row = 0 \/ \A h \in DOMAIN q : q[h].row # e.row) => OneRow(Append(q, e))
         /\ \A i \in DOMAIN q : /\ OneRow(RemoveAt(q, i))
                                /\ q[i].row # 0 => \A e \in ToSet(RemoveAt(q, i)) : e.row # q[i].row
         /\ \A i \in DOMAIN q, e \in RelJobType :
              (e.row = q[i].row \/ \A h \in DOMAIN q : q[h].row # e.row) => OneRow([q EXCEPT ![i] = e])
<1>1. ASSUME NEW e \in RelJobType, e.row = 0 \/ \A h \in DOMAIN q : q[h].row # e.row
      PROVE  OneRow(Append(q, e))
  <2> DEFINE w == Append(q, e)
  <2>1. /\ DOMAIN w = DOMAIN q \cup {Len(q) + 1}
        /\ \A i \in DOMAIN q : w[i] = q[i]
        /\ w[Len(q) + 1] = e
    BY AppendFacts
  <2> HIDE DEF w
  <2>2. OneRow(w)
    BY <1>1, <2>1 DEF OneRow
  <2> QED BY <2>2 DEF w
<1>2. ASSUME NEW i \in DOMAIN q
      PROVE  OneRow(RemoveAt(q, i)) /\ (q[i].row # 0 => \A e \in ToSet(RemoveAt(q, i)) : e.row # q[i].row)
  <2> DEFINE w == RemoveAt(q, i)
             was(h) == IF h < i THEN h ELSE h + 1
  <2>1. \A h \in DOMAIN w : was(h) \in DOMAIN q /\ was(h) # i /\ w[h] = q[was(h)]
    <3>2. ASSUME NEW h \in DOMAIN w
          PROVE  was(h) \in DOMAIN q /\ was(h) # i /\ w[h] = q[was(h)]
      <4>1. PICK m \in DOMAIN q : m # i /\ w[h] = q[m] /\ m = IF h < i THEN h ELSE h + 1
        BY RemoveKeeps
      <4> QED BY <4>1
    <3> QED BY <3>2
  <2>2. w \in Seq(RelJobType) /\ DOMAIN w \subseteq Nat /\ i \in Nat
    BY RemoveFacts
  <2>3. \A g, h \in Nat : was(g) = was(h) => g = h
    BY <2>2
  <2> HIDE DEF w, was
  <2>4. OneRow(w)
    BY <2>1, <2>2, <2>3 DEF OneRow
  <2>5. ASSUME NEW e \in ToSet(w), q[i].row # 0 PROVE e.row # q[i].row
    <3>1. PICK h \in DOMAIN w : w[h] = e
      BY <2>2, <2>5, PlaceFacts
    <3> QED BY <2>1, <2>5, <3>1 DEF OneRow
  <2> QED BY <2>4, <2>5 DEF w
<1>3. ASSUME NEW i \in DOMAIN q, NEW e \in RelJobType,
             e.row = q[i].row \/ \A h \in DOMAIN q : q[h].row # e.row
      PROVE  OneRow([q EXCEPT ![i] = e])
  <2> DEFINE w == [q EXCEPT ![i] = e]
  <2>1. DOMAIN w = DOMAIN q /\ \A h \in DOMAIN q : w[h] = IF h = i THEN e ELSE q[h]
    BY ReplaceFacts
  <2> HIDE DEF w
  <2>2. OneRow(w)
    BY <1>3, <2>1 DEF OneRow
  <2> QED BY <2>2 DEF w
<1> QED BY <1>1, <1>2, <1>3

-----------------------------------------------------------------------------
(* Releases: tasks *)

\* A task goes on: what helm has changes at most under its name.
LEMMA TaskGoesOn ==
  ASSUME ReleaseInv, NEW j \in DOMAIN jobs, NEW e \in RelJobType, jobs' = [jobs EXCEPT ![j] = e],
         e.kind = jobs[j].kind, e.name = jobs[j].name, e.row = jobs[j].row,
         jobs[j].stage # "insert", e.stage # "insert",
         UNCHANGED <<rels, listing, race, raced>>, store' \in [Apps -> R!HelmStatus],
         \A n \in Mine : n # e.name => Helm'[n] = Helm[n],
         (e.stage = "done" /\ e.name \in Mine) =>
           Helm'[e.name] = IF e.kind = "create" THEN "deployed" ELSE "none"
  PROVE  ReleaseInv'
<1> PICK k \in ToSet(jobs) : k = jobs[j]
  BY RelFits DEF ReleaseInv
<1>1. /\ RelTypes /\ jobs \in Seq(RelJobType) /\ NamesOnce /\ raced \in BOOLEAN
      /\ \A m \in ToSet(jobs) : /\ m.row \in DOMAIN rels \cup {0} /\ (m.stage = "insert" <=> m.row = 0)
                                /\ m.kind = "create" => m.name \in Mine
  BY DEF ReleaseInv, RelTypes
<1>2. /\ jobs' \in Seq(RelJobType) /\ k \in ToSet(jobs) /\ e \in ToSet(jobs')
      /\ ToSet(jobs') \subseteq ToSet(jobs) \cup {e} /\ ToSet(jobs) \ {k} \subseteq ToSet(jobs')
  BY <1>1, ListChanges DEF ListTurns
<1>3. /\ e.kind = k.kind /\ e.name = k.name /\ e.row = k.row /\ k.stage # "insert" /\ e.stage # "insert"
      /\ k.row \in DOMAIN rels
  BY <1>1
<1>4. RelTypes'
  <2>1. \A m \in ToSet(jobs') : /\ m.row \in DOMAIN rels \cup {0} /\ (m.stage = "insert" <=> m.row = 0)
                                /\ m.kind = "create" => m.name \in Mine
    <3>1. k.row # 0
      BY <1>1, <1>3
    <3> QED BY <1>1, <1>2, <1>3, <3>1
  <2> QED BY <1>2, <2>1 DEF ReleaseInv, RelTypes
<1>5. ASSUME ~raced' PROVE Agree'
  <2>1. OneRow(jobs) /\ Agree
    BY <1>5 DEF ReleaseInv, Agree
  <2>2. OneRow([jobs EXCEPT ![j] = e])
    BY <1>1, <2>1, OneRowChanges
  <2>3. rels[k.row].live /\ rels[k.row].name = k.name
    BY <1>3, <2>1, RelFits DEF Agree, TaskTells, ReleaseInv
  <2>4. ASSUME NEW m \in ToSet(jobs') PROVE TaskTells(m)'
    <3>1. CASE m = e
      BY <1>3, <2>3, <3>1 DEF TaskTells
    <3>2. CASE m # e
      <4>1. m \in ToSet(jobs) /\ TaskTells(m)
        BY <1>2, <2>1, <3>2 DEF Agree
      <4>2. CASE m.stage = "done" /\ m.name \in Mine /\ m.name = k.name
        <5>1. m.row # 0 /\ m.row \in DOMAIN rels /\ rels[m.row].live /\ rels[m.row].name = k.name
          BY <1>1, <4>1, <4>2 DEF TaskTells
        <5>2. m.row = e.row
          BY <1>1, <1>3, <2>3, <5>1 DEF NamesOnce
        <5>3. \A g, h \in DOMAIN jobs' : (jobs'[g].row # 0 /\ jobs'[g].row = jobs'[h].row) => g = h
          BY <2>2 DEF OneRow
        <5>4. \E g \in DOMAIN jobs' : jobs'[g] = m
          BY <2>4 DEF ToSet
        <5>5. \E h \in DOMAIN jobs' : jobs'[h] = e
          BY <1>2 DEF ToSet
        <5>6. m = e
          BY <5>1, <5>2, <5>3, <5>4, <5>5
        <5> QED BY <3>2, <5>6
      <4>3. CASE ~(m.stage = "done" /\ m.name \in Mine /\ m.name = k.name)
        BY <1>3, <4>1, <4>3 DEF TaskTells
      <4> QED BY <4>2, <4>3
    <3> QED BY <3>1, <3>2
  <2>5. ASSUME NEW r \in DOMAIN rels PROVE RowTells(r)'
    <3>1. RowTells(r)
      BY <2>1 DEF Agree
    <3>2. ASSUME rels[r].live, rels[r].name \in Mine, rels[r].status = "deployed",
                 \A m \in ToSet(jobs') : m.row # r
          PROVE  Helm'[rels[r].name] = "deployed"
      <4>1. r # k.row
        BY <1>2, <1>3, <3>2
      <4>2. rels[r].name # k.name
        BY <1>1, <1>3, <2>3, <3>2, <4>1 DEF NamesOnce
      <4>3. \A m \in ToSet(jobs) : m.row # r
        BY <1>2, <3>2, <4>1
      <4> QED BY <1>3, <3>1, <3>2, <4>2, <4>3 DEF RowTells
    <3> QED BY <3>2 DEF RowTells
  <2>6. ASSUME NEW n \in Mine PROVE IsKnown(n)'
    <3>1. IsKnown(n)
      BY <2>1 DEF Agree
    <3>2. CASE n = k.name
      BY <1>3, <2>3, <3>2 DEF IsKnown
    <3>3. CASE n # k.name
      BY <1>3, <3>1, <3>3 DEF IsKnown
    <3> QED BY <3>2, <3>3
  <2> QED BY <2>2, <2>4, <2>5, <2>6 DEF Agree
<1> QED BY <1>1, <1>4, <1>5 DEF ReleaseInv, NamesOnce

\* The same task in another stage.
LEMMA TaskTurned ==
  ASSUME NEW k \in RelJobType, NEW s \in {"insert", "call", "done", "failed"}
  PROVE  \E e \in RelJobType :
           /\ e = [k EXCEPT !.stage = s] /\ e.kind = k.kind /\ e.row = k.row
           /\ e.name = k.name /\ e.repo = k.repo /\ e.stage = s
<1> DEFINE e == [k EXCEPT !.stage = s]
<1>1. /\ e \in RelJobType /\ e.kind = k.kind /\ e.row = k.row /\ e.name = k.name /\ e.repo = k.repo
      /\ e.stage = s
  BY DEF RelJobType
<1>2. e = [k EXCEPT !.stage = s]
  OBVIOUS
<1> HIDE DEF e
<1> QED BY <1>1, <1>2

\* Helm installs and uninstalls.
LEMMA CallSteps ==
  ASSUME ReleaseInv, NEW j \in DOMAIN jobs, R!Install(j) \/ R!Uninstall(j),
         store' \in [Apps -> R!HelmStatus]
  PROVE  ReleaseInv'
<1> PICK k \in ToSet(jobs) : k = jobs[j]
  BY RelFits DEF ReleaseInv
<1>1. k \in RelJobType /\ k.name \in RelNames /\ store \in [Apps -> R!HelmStatus]
      /\ Helm \in [RelNames -> R!HelmStatus]
  BY RelFits, HelmFacts DEF ReleaseInv, RelTypes
<1>2. UNCHANGED <<rels, listing, race, raced>> /\ k.stage = "call"
  BY DEF R!Install, R!Uninstall
<1>3. PICK s \in {"done", "failed"} :
        /\ jobs' = [jobs EXCEPT ![j].stage = s]
        /\ Helm' = Helm \/ \E v : Helm' = [Helm EXCEPT ![k.name] = v]
        /\ s = "done" => Helm' = [Helm EXCEPT ![k.name] = IF k.kind = "create" THEN "deployed" ELSE "none"]
  <2>1. CASE R!Install(j)
    BY <2>1 DEF R!Install, R!JobStage
  <2>2. CASE R!Uninstall(j)
    BY <2>2 DEF R!Uninstall, R!JobStage
  <2> QED BY <2>1, <2>2
<1>4. PICK e \in RelJobType :
        /\ e = [k EXCEPT !.stage = s] /\ e.kind = k.kind /\ e.row = k.row
        /\ e.name = k.name /\ e.stage = s
  <2>1. s \in {"insert", "call", "done", "failed"}
    BY <1>3
  <2> HIDE DEF ReleaseInv
  <2>2. k \in RelJobType
    BY <1>1
  <2>3. \E e \in RelJobType :
           /\ e = [k EXCEPT !.stage = s] /\ e.kind = k.kind /\ e.row = k.row
           /\ e.name = k.name /\ e.repo = k.repo /\ e.stage = s
    BY ONLY <2>1, <2>2, TaskTurned, Zenon
  <2> QED BY <2>3
<1>5. jobs' = [jobs EXCEPT ![j] = e]
  BY <1>3, <1>4
<1>6. \A n \in Mine : n # e.name => Helm'[n] = Helm[n]
  BY <1>1, <1>3, <1>4 DEF Mine
<1>7. (e.stage = "done" /\ e.name \in Mine) =>
        Helm'[e.name] = IF e.kind = "create" THEN "deployed" ELSE "none"
  BY <1>1, <1>3, <1>4
<1> HIDE DEF ReleaseInv
<1>8. /\ e.kind = jobs[j].kind /\ e.name = jobs[j].name /\ e.row = jobs[j].row
      /\ jobs[j].stage # "insert" /\ e.stage # "insert"
  BY <1>2, <1>3, <1>4
<1> QED BY <1>2, <1>5, <1>6, <1>7, <1>8, TaskGoesOn, Zenon

\* A task ends and leaves its row as e.
LEMMA TaskLeaves ==
  ASSUME ReleaseInv, NEW j \in DOMAIN jobs, jobs' = RemoveAt(jobs, j), jobs[j].row # 0,
         NEW e \in RelType, rels' = [rels EXCEPT ![jobs[j].row] = e],
         e.name = rels[jobs[j].row].name, e.live => rels[jobs[j].row].live,
         UNCHANGED <<listing, race, raced>>, store' \in [Apps -> R!HelmStatus],
         \A n \in Mine : Helm'[n] = Helm[n],
         (~raced /\ e.name \in Mine) =>
           IF e.live THEN e.status = "deployed" => Helm[e.name] = "deployed" ELSE Helm[e.name] = "none"
  PROVE  ReleaseInv'
<1> PICK k \in ToSet(jobs) : k = jobs[j]
  BY RelFits DEF ReleaseInv
<1> PICK z : z = k.row
  OBVIOUS
<1>1. /\ RelTypes /\ jobs \in Seq(RelJobType) /\ rels \in Seq(RelType) /\ NamesOnce /\ raced \in BOOLEAN
      /\ \A m \in ToSet(jobs) : /\ m.row \in DOMAIN rels \cup {0} /\ (m.stage = "insert" <=> m.row = 0)
                                /\ m.kind = "create" => m.name \in Mine
  BY DEF ReleaseInv, RelTypes
<1>2. /\ jobs' \in Seq(RelJobType)
      /\ ToSet(jobs') \subseteq ToSet(jobs) /\ ToSet(jobs) \ {k} \subseteq ToSet(jobs')
  BY <1>1, ListChanges DEF ListLoses
<1>3. z \in DOMAIN rels /\ z # 0
  BY <1>1
<1>4. /\ rels' \in Seq(RelType) /\ DOMAIN rels' = DOMAIN rels /\ rels'[z] = e
      /\ \A r \in DOMAIN rels : r # z => rels'[r] = rels[r]
  BY <1>1, <1>3, ReplaceFacts
<1>5. RelTypes'
  BY <1>1, <1>2, <1>4 DEF RelTypes
<1>6. \A r \in DOMAIN rels : rels'[r].name = rels[r].name /\ (rels'[r].live => rels[r].live)
  BY <1>3, <1>4
<1>7. NamesOnce'
  BY <1>1, <1>4, <1>6 DEF NamesOnce
<1>8. ASSUME ~raced' PROVE Agree'
  <2>1. ~raced /\ OneRow(jobs) /\ Agree
    BY <1>8 DEF ReleaseInv, Agree
  <2>2. OneRow(jobs') /\ \A m \in ToSet(jobs') : m.row # z
    BY <1>1, <1>3, <2>1, OneRowChanges
  <2>3. rels[z].live /\ rels[z].name = k.name /\ e.name = k.name
    BY <1>3, <2>1 DEF Agree, TaskTells
  <2>4. ASSUME NEW m \in ToSet(jobs') PROVE TaskTells(m)'
    <3>1. TaskTells(m) /\ m.row # z /\ m.row \in DOMAIN rels \cup {0}
      BY <1>1, <1>2, <2>1, <2>2 DEF Agree
    <3> QED BY <1>4, <3>1 DEF TaskTells
  <2>5. ASSUME NEW r \in DOMAIN rels' PROVE RowTells(r)'
    <3>1. CASE r = z
      BY <1>4, <2>1, <3>1 DEF RowTells
    <3>2. CASE r # z
      <4>1. RowTells(r) /\ rels'[r] = rels[r]
        BY <1>4, <2>1, <3>2 DEF Agree
      <4>2. (\A m \in ToSet(jobs') : m.row # r) => \A m \in ToSet(jobs) : m.row # r
        BY <1>2, <3>2
      <4> QED BY <4>1, <4>2 DEF RowTells
    <3> QED BY <3>1, <3>2
  <2>6. ASSUME NEW n \in Mine, Helm'[n] # "none"
        PROVE  \E r \in DOMAIN rels' : rels'[r].live /\ rels'[r].name = n
    <3>1. PICK r \in DOMAIN rels : rels[r].live /\ rels[r].name = n
      BY <2>1, <2>6 DEF Agree, IsKnown
    <3>2. CASE r = z
      BY <1>3, <1>4, <2>1, <2>3, <2>6, <3>1, <3>2
    <3>3. CASE r # z
      BY <1>4, <3>1, <3>3
    <3> QED BY <3>2, <3>3
  <2> QED BY <2>2, <2>4, <2>5, <2>6 DEF Agree, IsKnown
<1> QED BY <1>5, <1>7, <1>8 DEF ReleaseInv

\* A row with another status, or gone.
LEMMA RowChanged ==
  ASSUME NEW x \in RelType, NEW s \in R!RowStatus
  PROVE  /\ [x EXCEPT !.status = s] \in RelType /\ [x EXCEPT !.status = s].status = s
         /\ [x EXCEPT !.status = s].name = x.name /\ [x EXCEPT !.status = s].repo = x.repo
         /\ [x EXCEPT !.status = s].live = x.live
         /\ [x EXCEPT !.live = FALSE] \in RelType /\ ~[x EXCEPT !.live = FALSE].live
         /\ [x EXCEPT !.live = FALSE].name = x.name /\ [x EXCEPT !.live = FALSE].repo = x.repo
BY DEF RelType

\* Tasks end.
LEMMA TaskEndSteps ==
  ASSUME ReleaseInv, NEW j \in DOMAIN jobs, R!CreateEnds(j) \/ R!DeleteEnds(j),
         store' \in [Apps -> R!HelmStatus]
  PROVE  /\ ReleaseInv'
         /\ jobs' = RemoveAt(jobs, j) /\ jobs[j].row # 0 /\ jobs[j].stage # "insert"
         /\ \E e \in RelType : /\ rels' = [rels EXCEPT ![jobs[j].row] = e]
                               /\ e.repo = rels[jobs[j].row].repo
                               /\ e.live => rels[jobs[j].row].live
<1> PICK k \in ToSet(jobs) : k = jobs[j]
  BY RelFits DEF ReleaseInv
<1> PICK z : z = k.row
  OBVIOUS
<1>1. /\ k \in RelJobType /\ k.name \in RelNames /\ store \in [Apps -> R!HelmStatus]
      /\ Helm \in [RelNames -> R!HelmStatus]
  BY RelFits, HelmFacts DEF ReleaseInv, RelTypes
<1>2. UNCHANGED <<listing, race, raced>> /\ Helm' = Helm /\ R!JobEnds(j) /\ k.stage \in {"done", "failed"}
  BY DEF R!CreateEnds, R!DeleteEnds
<1>3. jobs' = RemoveAt(jobs, j)
  BY <1>2, EndsAre
<1>4. z \in DOMAIN rels /\ z # 0 /\ rels[z] \in RelType
  <2>1. z \in DOMAIN rels /\ z # 0
    BY <1>2 DEF ReleaseInv, RelTypes
  <2> QED BY <2>1, RelFits DEF ReleaseInv
<1>5. ~raced => rels[z].live /\ rels[z].name = k.name
                /\ ((k.stage = "done" /\ k.name \in Mine) =>
                      Helm[k.name] = IF k.kind = "create" THEN "deployed" ELSE "none")
  BY <1>4 DEF ReleaseInv, Agree, TaskTells
<1>6. k.kind = "create" => k.name \in Mine
  BY DEF ReleaseInv, RelTypes
<1> DEFINE Left(e) ==
      /\ rels' = [rels EXCEPT ![z] = e] /\ e.name = rels[z].name /\ e.repo = rels[z].repo
      /\ e.live => rels[z].live
      /\ (~raced /\ e.name \in Mine) =>
           IF e.live THEN e.status = "deployed" => Helm[e.name] = "deployed" ELSE Helm[e.name] = "none"
<1>7. ASSUME NEW s \in R!RowStatus, R!SetStatus(z, s), s = "deployed" => k.kind = "create" /\ k.stage = "done"
      PROVE  \E e \in RelType : Left(e)
  <2>1. CASE rels[z].live
    <3> DEFINE e == [rels[z] EXCEPT !.status = s]
    <3>1. /\ e \in RelType /\ e.status = s /\ e.name = rels[z].name /\ e.repo = rels[z].repo
          /\ e.live = rels[z].live
      <4>1. rels[z] \in RelType /\ s \in R!RowStatus
        BY <1>4, <1>7
      <4> QED BY ONLY <4>1, RowChanged, Zenon
    <3>2. rels' = [rels EXCEPT ![z] = e]
      BY <1>7, <2>1 DEF R!SetStatus
    <3> HIDE DEF e
    <3>3. Left(e)
      BY <1>5, <1>6, <1>7, <2>1, <3>1, <3>2
    <3> QED BY <3>1, <3>3
  <2>2. CASE ~rels[z].live
    <3>1. rels' = rels
      BY <1>7, <2>2 DEF R!SetStatus
    <3>2. rels' = [rels EXCEPT ![z] = rels[z]]
      <4>1. rels \in Seq(RelType)
        BY DEF ReleaseInv, RelTypes
      <4> QED BY <1>4, <3>1, <4>1
    <3>3. Left(rels[z])
      BY <1>5, <2>2, <3>2
    <3> QED BY <1>4, <3>3
  <2> QED BY <2>1, <2>2
<1>8. \E e \in RelType : Left(e)
  <2>1. CASE R!CreateEnds(j) /\ k.stage = "failed"
    <3>1. R!SetStatus(z, "create_fail")
      BY <2>1 DEF R!CreateEnds
    <3> QED BY <1>7, <3>1 DEF R!RowStatus
  <2>2. CASE R!CreateEnds(j) /\ k.stage = "done"
    <3>1. k.kind = "create" /\ IF Helm[k.name] = "none" THEN UNCHANGED rels ELSE R!SetStatus(z, Helm[k.name])
      BY <2>2 DEF R!CreateEnds
    <3>2. CASE Helm[k.name] = "none"
      <4>1. rels' = [rels EXCEPT ![z] = rels[z]]
        <5>1. rels \in Seq(RelType)
          BY DEF ReleaseInv, RelTypes
        <5> QED BY <1>4, <3>1, <3>2, <5>1
      <4>2. raced
        BY <1>5, <1>6, <2>2, <3>1, <3>2
      <4>3. Left(rels[z])
        BY <4>1, <4>2
      <4> QED BY <1>4, <4>3
    <3>3. CASE Helm[k.name] # "none"
      <4>1. Helm[k.name] \in R!RowStatus
        BY <1>1, <3>3 DEF R!RowStatus, R!HelmStatus
      <4> QED BY <1>7, <2>2, <3>1, <3>3, <4>1
    <3> QED BY <3>2, <3>3
  <2>3. CASE R!DeleteEnds(j) /\ k.stage = "failed"
    <3>1. R!SetStatus(z, "delete_fail")
      BY <2>3 DEF R!DeleteEnds
    <3> QED BY <1>7, <3>1 DEF R!RowStatus
  <2>4. CASE R!DeleteEnds(j) /\ k.stage = "done"
    <3> DEFINE e == [rels[z] EXCEPT !.live = FALSE]
    <3>1. /\ e \in RelType /\ e.name = rels[z].name /\ e.repo = rels[z].repo /\ ~e.live
      BY <1>4, RowChanged DEF R!RowStatus
    <3>2. rels' = [rels EXCEPT ![z] = e] /\ k.kind = "delete"
      BY <2>4 DEF R!DeleteEnds
    <3> HIDE DEF e
    <3>3. Left(e)
      BY <1>5, <2>4, <3>1, <3>2
    <3> QED BY <3>1, <3>3
  <2> QED BY <1>2, <2>1, <2>2, <2>3, <2>4
<1>9. PICK e \in RelType : Left(e)
  BY <1>8
<1>10. \A n \in Mine : Helm'[n] = Helm[n]
  BY <1>2
<1>11. ReleaseInv'
  <2> HIDE DEF ReleaseInv
  <2> QED BY <1>2, <1>3, <1>4, <1>9, <1>10, TaskLeaves
<1> QED BY <1>2, <1>3, <1>4, <1>9, <1>11

-----------------------------------------------------------------------------
(* Releases: requests *)

\* What is listed and what concerns others is no matter.
LEMMA ReleaseStands ==
  ASSUME ReleaseInv, UNCHANGED <<rels, jobs>>, raced' = raced, race' \in BOOLEAN,
         listing'.seen \in [RelNames -> R!HelmStatus], store' \in [Apps -> R!HelmStatus],
         \A n \in Mine : Helm'[n] = Helm[n]
  PROVE  ReleaseInv'
<1>1. RelTypes' /\ NamesOnce'
  BY DEF ReleaseInv, RelTypes, NamesOnce
<1>2. ASSUME ~raced' PROVE Agree'
  <2>1. Agree
    BY <1>2 DEF ReleaseInv
  <2>2. \A k \in ToSet(jobs) : TaskTells(k)'
    BY <2>1 DEF Agree, TaskTells
  <2>3. \A r \in DOMAIN rels : RowTells(r)'
    BY <2>1 DEF Agree, RowTells
  <2>4. \A n \in Mine : IsKnown(n)'
    BY <2>1 DEF Agree, IsKnown
  <2> QED BY <2>1, <2>2, <2>3, <2>4 DEF Agree
<1> QED BY <1>1, <1>2 DEF ReleaseInv

\* A release is created: the request waits for its row.
LEMMA CreateReleaseStep ==
  ASSUME ReleaseInv, NEW n \in RelNames, NEW p \in Nat, R!CreateRelease(n, p),
         store' \in [Apps -> R!HelmStatus]
  PROVE  /\ ReleaseInv'
         /\ \E e \in RelJobType : jobs' = Append(jobs, e) /\ e.repo = p
<1> DEFINE e == [kind |-> "create", name |-> n, repo |-> p, row |-> 0, stage |-> "insert"]
<1>1. /\ e \in RelJobType /\ e.kind = "create" /\ e.name = n /\ e.row = 0 /\ e.stage = "insert"
      /\ e.repo = p
  BY DEF RelJobType
<1>2. /\ jobs' = Append(jobs, e) /\ UNCHANGED <<rels, listing, raced>> /\ Helm' = Helm
      /\ n \in Mine
      /\ race' = (race \/ \E i \in DOMAIN rjobs : rjobs[i].kind = "delete" /\ rjobs[i].row = p)
  BY DEF R!CreateRelease, R!Job, Mine
<1> HIDE DEF e
<1>3. jobs \in Seq(RelJobType) /\ RelTypes /\ race' \in BOOLEAN
  BY <1>2 DEF ReleaseInv, RelTypes
<1>4. jobs' \in Seq(RelJobType) /\ ToSet(jobs') = ToSet(jobs) \cup {e}
  BY <1>1, <1>2, <1>3, ListChanges DEF ListGains
<1>5. RelTypes' /\ NamesOnce'
  <2>1. \A k \in ToSet(jobs') : /\ k.row \in DOMAIN rels \cup {0} /\ (k.stage = "insert" <=> k.row = 0)
                                /\ k.kind = "create" => k.name \in Mine
    BY <1>1, <1>2, <1>3, <1>4 DEF RelTypes
  <2> QED BY <1>2, <1>3, <1>4, <2>1 DEF ReleaseInv, RelTypes, NamesOnce
<1>6. ASSUME ~raced' PROVE Agree'
  <2>1. Agree
    BY <1>2, <1>6 DEF ReleaseInv
  <2>2. OneRow(Append(jobs, e))
    BY <1>1, <1>3, <2>1, OneRowChanges DEF Agree
  <2>3. \A k \in ToSet(jobs') : TaskTells(k)'
    BY <1>1, <1>2, <1>4, <2>1 DEF Agree, TaskTells
  <2>4. \A r \in DOMAIN rels : RowTells(r)'
    BY <1>2, <1>4, <2>1 DEF Agree, RowTells
  <2>5. \A m \in Mine : IsKnown(m)'
    BY <1>2, <2>1 DEF Agree, IsKnown
  <2> QED BY <1>2, <2>2, <2>3, <2>4, <2>5 DEF Agree
<1> QED BY <1>1, <1>2, <1>5, <1>6 DEF ReleaseInv

\* A release is deleted.
LEMMA DeleteReleaseStep ==
  ASSUME ReleaseInv, NEW r \in DOMAIN rels, R!DeleteRelease(r), store' \in [Apps -> R!HelmStatus]
  PROVE  /\ ReleaseInv' /\ UNCHANGED race
         /\ \E e \in RelJobType : jobs' = Append(jobs, e) /\ e.stage = "call"
         /\ \E x \in RelType : rels' = [rels EXCEPT ![r] = x] /\ x.repo = rels[r].repo
                               /\ x.live = rels[r].live
<1> DEFINE e == [kind |-> "delete", name |-> rels[r].name, repo |-> rels[r].repo, row |-> r,
                 stage |-> "call"]
           x == [rels[r] EXCEPT !.status = "deleting"]
<1>1. /\ RelTypes /\ rels \in Seq(RelType) /\ jobs \in Seq(RelJobType) /\ rels[r] \in RelType
      /\ r \in Nat /\ r # 0 /\ rels[r].name \in RelNames /\ rels[r].repo \in Nat
      /\ raced \in BOOLEAN
  BY RelFits DEF ReleaseInv, RelTypes
<1>2. /\ e \in RelJobType /\ e.kind = "delete" /\ e.name = rels[r].name /\ e.row = r /\ e.stage = "call"
  BY <1>1 DEF RelJobType
<1>3. /\ x \in RelType /\ x.status = "deleting" /\ x.name = rels[r].name /\ x.repo = rels[r].repo
      /\ x.live = rels[r].live
  BY <1>1, RowChanged DEF R!RowStatus
<1>4. /\ jobs' = Append(jobs, e) /\ rels' = [rels EXCEPT ![r] = x]
      /\ UNCHANGED <<listing, race>> /\ Helm' = Helm /\ rels[r].live
      /\ raced' = (raced \/ \E j \in DOMAIN jobs : jobs[j].row = r)
  BY DEF R!DeleteRelease, R!Job
<1> HIDE DEF e, x
<1>5. jobs' \in Seq(RelJobType) /\ ToSet(jobs') = ToSet(jobs) \cup {e}
  BY <1>1, <1>2, <1>4, ListChanges DEF ListGains
<1>6. /\ rels' \in Seq(RelType) /\ DOMAIN rels' = DOMAIN rels /\ rels'[r] = x
      /\ \A s \in DOMAIN rels : s # r => rels'[s] = rels[s]
  BY <1>1, <1>3, <1>4, ReplaceFacts
<1>7. raced' \in BOOLEAN /\ (~raced' => ~raced /\ \A j \in DOMAIN jobs : jobs[j].row # r)
  BY <1>1, <1>4
<1>8. RelTypes'
  <2>1. \A k \in ToSet(jobs') : /\ k.row \in DOMAIN rels \cup {0} /\ (k.stage = "insert" <=> k.row = 0)
                                /\ k.kind = "create" => k.name \in Mine
    BY <1>1, <1>2, <1>5 DEF RelTypes
  <2> QED BY <1>1, <1>4, <1>5, <1>6, <1>7, <2>1 DEF RelTypes
<1>9. \A s \in DOMAIN rels : rels'[s].name = rels[s].name /\ rels'[s].live = rels[s].live
  BY <1>3, <1>6
<1>10. NamesOnce'
  BY <1>6, <1>9 DEF ReleaseInv, NamesOnce
<1>11. ASSUME ~raced' PROVE Agree'
  <2>1. Agree
    BY <1>7, <1>11 DEF ReleaseInv
  <2>2. OneRow(Append(jobs, e))
    BY <1>1, <1>2, <1>7, <1>11, <2>1, OneRowChanges DEF Agree
  <2>3. ASSUME NEW k \in ToSet(jobs') PROVE TaskTells(k)'
    <3>1. CASE k = e
      BY <1>2, <1>3, <1>4, <1>6, <3>1 DEF TaskTells
    <3>2. CASE k # e
      <4>1. k \in ToSet(jobs) /\ TaskTells(k) /\ k.row \in DOMAIN rels \cup {0}
        BY <1>1, <1>5, <2>1, <3>2 DEF Agree, RelTypes
      <4> QED BY <1>4, <1>6, <1>9, <4>1 DEF TaskTells
    <3> QED BY <3>1, <3>2
  <2>4. ASSUME NEW s \in DOMAIN rels PROVE RowTells(s)'
    <3>1. CASE s = r
      BY <1>3, <1>6, <3>1 DEF RowTells
    <3>2. CASE s # r
      <4>1. RowTells(s) /\ rels'[s] = rels[s]
        BY <1>6, <2>1, <3>2 DEF Agree
      <4> QED BY <1>4, <1>5, <4>1 DEF RowTells
    <3> QED BY <3>1, <3>2
  <2>5. \A m \in Mine : IsKnown(m)'
    BY <1>4, <1>6, <1>9, <2>1 DEF Agree, IsKnown
  <2> QED BY <1>4, <1>6, <2>2, <2>3, <2>4, <2>5 DEF Agree
<1> QED BY <1>2, <1>3, <1>4, <1>8, <1>10, <1>11 DEF ReleaseInv

\* The row of a release is inserted, or the request gives up.
LEMMA InsertReleaseStep ==
  ASSUME ReleaseInv, NEW j \in DOMAIN jobs, R!InsertRelease(j), store' \in [Apps -> R!HelmStatus]
  PROVE  /\ ReleaseInv' /\ UNCHANGED race
         /\ \/ rels' = rels /\ jobs' = RemoveAt(jobs, j)
            \/ \E x \in RelType, e \in RelJobType :
                 /\ rels' = Append(rels, x) /\ jobs' = [jobs EXCEPT ![j] = e]
                 /\ jobs[j].stage = "insert" /\ e.stage = "call"
                 /\ x.repo = jobs[j].repo /\ R!LiveRepo(x.repo)
<1> PICK k \in ToSet(jobs) : k = jobs[j]
  BY RelFits DEF ReleaseInv
<1> PICK top : top = Len(rels) + 1
  OBVIOUS
<1>1. /\ RelTypes /\ rels \in Seq(RelType) /\ jobs \in Seq(RelJobType)
      /\ k \in RelJobType /\ k.name \in RelNames /\ k.repo \in Nat
      /\ raced \in BOOLEAN
  BY RelFits DEF ReleaseInv, RelTypes
<1>2. UNCHANGED <<listing, race, raced>> /\ Helm' = Helm /\ k.stage = "insert"
  BY DEF R!InsertRelease
<1>3. k.row = 0 /\ (k.kind = "create" => k.name \in Mine)
  BY <1>1, <1>2 DEF RelTypes
<1>4. CASE R!JobEnds(j) /\ UNCHANGED rels
  <2>1. jobs' = RemoveAt(jobs, j)
    BY <1>4, EndsAre
  <2>2. /\ jobs' \in Seq(RelJobType)
        /\ ToSet(jobs') \subseteq ToSet(jobs) /\ ToSet(jobs) \ {k} \subseteq ToSet(jobs')
    BY <1>1, <2>1, ListChanges DEF ListLoses
  <2>3. RelTypes' /\ NamesOnce'
    BY <1>1, <1>2, <1>4, <2>2 DEF ReleaseInv, RelTypes, NamesOnce
  <2>4. ASSUME ~raced' PROVE Agree'
    <3>1. Agree
      BY <1>2, <2>4 DEF ReleaseInv
    <3>2. OneRow(jobs')
      BY <1>1, <2>1, <3>1, OneRowChanges DEF Agree
    <3>3. \A m \in ToSet(jobs') : TaskTells(m)'
      BY <1>2, <1>4, <2>2, <3>1 DEF Agree, TaskTells
    <3>4. ASSUME NEW r \in DOMAIN rels PROVE RowTells(r)'
      <4>1. r # 0
        BY <1>1, RelFits
      <4>2. (\A m \in ToSet(jobs') : m.row # r) => \A m \in ToSet(jobs) : m.row # r
        BY <1>3, <2>2, <4>1
      <4> QED BY <1>2, <1>4, <3>1, <4>2 DEF Agree, RowTells
    <3>5. \A m \in Mine : IsKnown(m)'
      BY <1>2, <1>4, <3>1 DEF Agree, IsKnown
    <3> QED BY <1>4, <3>2, <3>3, <3>4, <3>5 DEF Agree
  <2> QED BY <1>2, <1>4, <2>1, <2>3, <2>4 DEF ReleaseInv
<1>5. CASE /\ R!LiveRepo(k.repo) /\ R!LiveRows(k.name) = {}
           /\ rels' = Append(rels, [name |-> k.name, repo |-> k.repo, live |-> TRUE,
                                    status |-> "creating"])
           /\ jobs' = [jobs EXCEPT ![j].row = Len(rels) + 1, ![j].stage = "call"]
  <2> DEFINE x == [name |-> k.name, repo |-> k.repo, live |-> TRUE, status |-> "creating"]
             mid == [k EXCEPT !.row = top]
             e == [mid EXCEPT !.stage = "call"]
  <2>1. x \in RelType /\ x.name = k.name /\ x.repo = k.repo /\ x.live /\ x.status = "creating"
    BY <1>1 DEF RelType, R!RowStatus
  <2>2. top \in Nat /\ top # 0
    BY <1>1
  <2>3. rels' = Append(rels, x) /\ jobs' = [jobs EXCEPT ![j] = e]
    BY <1>5
  <2>4. mid \in RelJobType /\ mid.kind = k.kind /\ mid.name = k.name /\ mid.row = top
    BY <1>1, <2>2 DEF RelJobType
  <2> HIDE DEF mid
  <2>5. e \in RelJobType /\ e.kind = k.kind /\ e.name = k.name /\ e.row = top /\ e.stage = "call"
    BY <2>4 DEF RelJobType
  <2> HIDE DEF x, e
  <2>6. /\ rels' \in Seq(RelType) /\ DOMAIN rels' = DOMAIN rels \cup {top} /\ top \notin DOMAIN rels
        /\ \A r \in DOMAIN rels : rels'[r] = rels[r]
        /\ rels'[top] = x
    BY <1>1, <2>1, <2>3, AppendFacts
  <2>7. /\ jobs' \in Seq(RelJobType) /\ e \in ToSet(jobs')
        /\ ToSet(jobs') \subseteq ToSet(jobs) \cup {e} /\ ToSet(jobs) \ {k} \subseteq ToSet(jobs')
    BY <1>1, <2>3, <2>5, ListChanges DEF ListTurns
  <2>8. \A r \in DOMAIN rels : ~(rels[r].live /\ rels[r].name = k.name)
    BY <1>5 DEF R!LiveRows
  <2>9. RelTypes'
    <3>1. \A m \in ToSet(jobs') : /\ m.row \in DOMAIN rels' \cup {0} /\ (m.stage = "insert" <=> m.row = 0)
                                  /\ m.kind = "create" => m.name \in Mine
      BY <1>1, <1>3, <2>2, <2>5, <2>6, <2>7 DEF RelTypes
    <3> QED BY <1>1, <1>2, <2>6, <2>7, <3>1 DEF RelTypes
  <2>10. NamesOnce'
    BY <2>1, <2>6, <2>8 DEF ReleaseInv, NamesOnce
  <2>11. ASSUME ~raced' PROVE Agree'
    <3>1. Agree
      BY <1>2, <2>11 DEF ReleaseInv
    <3>2. \A h \in DOMAIN jobs : jobs[h].row # e.row
      <4>1. ASSUME NEW h \in DOMAIN jobs PROVE jobs[h].row \in DOMAIN rels \cup {0}
        BY <1>1, RelFits DEF RelTypes
      <4> QED BY <2>2, <2>5, <2>6, <4>1
    <3>3. OneRow([jobs EXCEPT ![j] = e])
      BY <1>1, <2>5, <3>1, <3>2, OneRowChanges DEF Agree
    <3>4. ASSUME NEW m \in ToSet(jobs') PROVE TaskTells(m)'
      <4>1. CASE m = e
        BY <1>2, <2>1, <2>5, <2>6, <4>1 DEF TaskTells
      <4>2. CASE m # e
        <5>1. TaskTells(m) /\ m.row \in DOMAIN rels \cup {0}
          BY <1>1, <2>7, <3>1, <4>2 DEF Agree, RelTypes
        <5> QED BY <1>2, <2>6, <5>1 DEF TaskTells
      <4> QED BY <4>1, <4>2
    <3>5. ASSUME NEW r \in DOMAIN rels' PROVE RowTells(r)'
      <4>1. CASE r = top
        BY <2>1, <2>6, <4>1 DEF RowTells
      <4>2. CASE r # top
        <5>1. r \in DOMAIN rels /\ RowTells(r) /\ rels'[r] = rels[r] /\ r # 0
          BY <1>1, <2>6, <3>1, <4>2, RelFits DEF Agree
        <5>2. (\A m \in ToSet(jobs') : m.row # r) => \A m \in ToSet(jobs) : m.row # r
          BY <1>3, <2>7, <5>1
        <5> QED BY <1>2, <5>1, <5>2 DEF RowTells
      <4> QED BY <4>1, <4>2
    <3>6. \A m \in Mine : IsKnown(m)'
      BY <1>2, <2>6, <3>1 DEF Agree, IsKnown
    <3> QED BY <2>3, <3>3, <3>4, <3>5, <3>6 DEF Agree
  <2> QED BY <1>2, <1>5, <2>1, <2>3, <2>5, <2>9, <2>10, <2>11 DEF ReleaseInv
<1> QED BY <1>4, <1>5 DEF R!InsertRelease

-----------------------------------------------------------------------------
(* Releases: synchronisation *)

\* The releases are listed.
LEMMA ListReleasesStep ==
  ASSUME ReleaseInv, R!ListReleases, store' \in [Apps -> R!HelmStatus]
  PROVE  ReleaseInv' /\ UNCHANGED <<rels, jobs, race>>
<1>1. /\ UNCHANGED <<rels, jobs, race, raced>> /\ Helm' = Helm /\ listing'.seen = Helm
  BY DEF R!ListReleases
<1>2. store \in [Apps -> R!HelmStatus] /\ race \in BOOLEAN
  BY DEF ReleaseInv, RelTypes
<1>3. listing'.seen \in [RelNames -> R!HelmStatus]
  BY <1>1, <1>2, HelmFacts
<1> HIDE DEF ReleaseInv
<1> QED BY <1>1, <1>2, <1>3, ReleaseStands

\* The row that a listed release gets.
NewRow(n) == [name |-> n, repo |-> 0, live |-> TRUE, status |-> listing.seen[n]]

\* What a synchronisation makes of the rows: those that were there change their status
\* or go, and every release without a row gets one.
Synced(old, new) ==
  /\ new \in Seq(RelType) /\ DOMAIN old \subseteq DOMAIN new
  /\ \A r \in DOMAIN old :
       /\ new[r].name = old[r].name /\ new[r].repo = old[r].repo
       /\ new[r].live = (old[r].live /\ ~R!Dropped(r))
       /\ new[r].status = IF new[r].live /\ listing.seen[old[r].name] # "none"
                          THEN listing.seen[old[r].name] ELSE old[r].status
  /\ \A r \in DOMAIN new \ DOMAIN old : \E n \in R!Added : new[r] = NewRow(n)
  /\ \A n \in R!Added : \E r \in DOMAIN new \ DOMAIN old : new[r] = NewRow(n)
  /\ \A r, s \in DOMAIN new \ DOMAIN old : new[r].name = new[s].name => r = s

\* There are as many added as there are names.
LEMMA AddedFinite ==
  ASSUME NEW S, S = {NewRow(n) : n \in R!Added}
  PROVE  IsFiniteSet(S)
<1>1. IsFiniteSet(RelNames)
  BY ApplicationsAssumption, FS_AddElement DEF RelNames
<1>2. R!Added \in SUBSET RelNames
  BY DEF R!Added
<1>3. IsFiniteSet(R!Added)
  BY <1>1, <1>2, FS_Subset
<1> DEFINE f == [n \in R!Added |-> NewRow(n)]
<1>4. f \in Surjection(R!Added, S)
  BY DEF Surjection
<1> HIDE DEF f
<1> QED BY <1>3, <1>4, FS_Surjection

\* The synchronisation does this.
LEMMA SyncRows ==
  ASSUME ReleaseInv, R!SyncReleases
  PROVE  Synced(rels, rels')
<1> DEFINE S == {NewRow(n) : n \in R!Added}
           q == R!SetToSeq(S)
           Kept(r) == IF R!Dropped(r) THEN [rels[r] EXCEPT !.live = FALSE]
                      ELSE IF rels[r].live /\ listing.seen[rels[r].name] # "none"
                      THEN [rels[r] EXCEPT !.status = listing.seen[rels[r].name]]
                      ELSE rels[r]
           p == [r \in DOMAIN rels |-> Kept(r)]
<1>1. rels' = p \o q
  BY DEF R!SyncReleases, NewRow
<1>2. /\ RelTypes /\ rels \in Seq(RelType) /\ listing.seen \in [RelNames -> R!HelmStatus]
  BY DEF ReleaseInv, RelTypes
<1>3. /\ q \in Seq(S) /\ \A e \in S : \E i \in DOMAIN q : q[i] = e
      /\ \A i, h \in DOMAIN q : q[i] = q[h] => i = h
  BY AddedFinite, ListOfSet
<1> HIDE DEF q
<1>4. ASSUME NEW n \in R!Added
      PROVE  NewRow(n) \in RelType /\ NewRow(n).name = n
  <2>1. n \in RelNames /\ listing.seen[n] # "none" /\ listing.seen[n] \in R!HelmStatus
    BY <1>2 DEF R!Added
  <2>2. listing.seen[n] \in R!RowStatus
    BY <2>1 DEF R!HelmStatus, R!RowStatus
  <2> QED BY <2>1, <2>2 DEF NewRow, RelType
<1>5. S \subseteq RelType
  BY <1>4
<1>6. ASSUME NEW r \in DOMAIN rels
      PROVE  /\ Kept(r) \in RelType /\ Kept(r).name = rels[r].name /\ Kept(r).repo = rels[r].repo
             /\ Kept(r).live = (rels[r].live /\ ~R!Dropped(r))
             /\ Kept(r).status = IF Kept(r).live /\ listing.seen[rels[r].name] # "none"
                                 THEN listing.seen[rels[r].name] ELSE rels[r].status
  <2>1. rels[r] \in RelType /\ rels[r].live \in BOOLEAN /\ rels[r].name \in RelNames
    BY <1>2, RelFits
  <2>2. CASE R!Dropped(r)
    <3>1. listing.seen[rels[r].name] = "none" /\ rels[r].live
      BY <2>2 DEF R!Dropped
    <3> DEFINE x == [rels[r] EXCEPT !.live = FALSE]
    <3>2. x \in RelType /\ x.name = rels[r].name /\ x.repo = rels[r].repo /\ x.live = FALSE
          /\ x.status = rels[r].status
      BY <2>1 DEF RelType
    <3>3. Kept(r) = x
      BY <2>2
    <3> HIDE DEF x, Kept
    <3> QED BY <2>2, <3>1, <3>2, <3>3
  <2>3. CASE ~R!Dropped(r) /\ rels[r].live /\ listing.seen[rels[r].name] # "none"
    <3> DEFINE x == [rels[r] EXCEPT !.status = listing.seen[rels[r].name]]
    <3>1. listing.seen[rels[r].name] \in R!RowStatus
      BY <1>2, <2>1, <2>3 DEF R!HelmStatus, R!RowStatus
    <3>2. x \in RelType /\ x.name = rels[r].name /\ x.repo = rels[r].repo /\ x.live = rels[r].live
          /\ x.status = listing.seen[rels[r].name]
      BY <2>1, <3>1 DEF RelType
    <3>3. Kept(r) = x
      BY <2>3
    <3> HIDE DEF x, Kept
    <3> QED BY <2>3, <3>2, <3>3
  <2>4. CASE ~R!Dropped(r) /\ ~(rels[r].live /\ listing.seen[rels[r].name] # "none")
    <3>1. Kept(r) = rels[r]
      BY <2>4
    <3> HIDE DEF Kept
    <3> QED BY <2>1, <2>4, <3>1
  <2> QED BY <2>2, <2>3, <2>4
<1> HIDE DEF S, Kept
<1>7. p \in Seq(RelType) /\ DOMAIN p = DOMAIN rels /\ \A r \in DOMAIN rels : p[r] = Kept(r)
  BY <1>2, <1>6
<1> HIDE DEF p
<1>8. q \in Seq(RelType)
  BY <1>3, <1>5
<1>9. /\ rels' \in Seq(RelType) /\ DOMAIN rels' = 1..(Len(p) + Len(q))
      /\ DOMAIN p = 1..Len(p) /\ DOMAIN q = 1..Len(q) /\ Len(p) \in Nat /\ Len(q) \in Nat
      /\ \A r \in 1..Len(p) : rels'[r] = p[r]
      /\ \A i \in 1..Len(q) : rels'[Len(p) + i] = q[i]
  BY <1>1, <1>7, <1>8
<1>10. DOMAIN rels \subseteq DOMAIN rels'
  BY <1>7, <1>9
<1>11. ASSUME NEW r \in DOMAIN rels' \ DOMAIN rels
       PROVE  r - Len(p) \in DOMAIN q /\ rels'[r] = q[r - Len(p)]
  <2>1. r \in 1..(Len(p) + Len(q)) /\ r \notin 1..Len(p)
    BY <1>7, <1>9
  <2>2. r - Len(p) \in 1..Len(q) /\ Len(p) + (r - Len(p)) = r
    BY <1>9, <2>1
  <2> QED BY <1>9, <2>2
<1>12. ASSUME NEW i \in DOMAIN q
       PROVE  Len(p) + i \in DOMAIN rels' \ DOMAIN rels /\ rels'[Len(p) + i] = q[i]
  BY <1>7, <1>9
<1>13. ASSUME NEW r \in DOMAIN rels' \ DOMAIN rels
       PROVE  \E n \in R!Added : rels'[r] = NewRow(n)
  <2>1. rels'[r] \in S
    BY <1>3, <1>11
  <2> QED BY <2>1 DEF S
<1>14. ASSUME NEW n \in R!Added
       PROVE  \E r \in DOMAIN rels' \ DOMAIN rels : rels'[r] = NewRow(n)
  <2>1. NewRow(n) \in S
    BY DEF S
  <2>2. PICK i \in DOMAIN q : q[i] = NewRow(n)
    BY <1>3, <2>1
  <2> QED BY <1>12, <2>2
<1>15. ASSUME NEW r \in DOMAIN rels' \ DOMAIN rels, NEW s \in DOMAIN rels' \ DOMAIN rels,
              rels'[r].name = rels'[s].name
       PROVE  r = s
  <2>1. PICK n \in R!Added : rels'[r] = NewRow(n)
    BY <1>13
  <2>2. PICK m \in R!Added : rels'[s] = NewRow(m)
    BY <1>13
  <2>3. n = m
    BY <1>4, <1>15, <2>1, <2>2
  <2>4. q[r - Len(p)] = q[s - Len(p)] /\ r - Len(p) \in DOMAIN q /\ s - Len(p) \in DOMAIN q
    BY <1>11, <2>1, <2>2, <2>3
  <2>5. r - Len(p) = s - Len(p)
    BY <1>3, <2>4
  <2>6. r \in Nat /\ s \in Nat
    BY <1>9
  <2> QED BY <1>9, <2>5, <2>6
<1> QED BY <1>6, <1>7, <1>9, <1>10, <1>13, <1>14, <1>15 DEF Synced

\* The rows are brought in line with the list.
LEMMA SyncReleasesStep ==
  ASSUME ReleaseInv, R!SyncReleases, store' \in [Apps -> R!HelmStatus]
  PROVE  ReleaseInv' /\ UNCHANGED <<jobs, race>> /\ Synced(rels, rels')
<1>1. Synced(rels, rels')
  BY SyncRows
<1>2. /\ UNCHANGED <<jobs, race>> /\ Helm' = Helm /\ listing' = R!NotListing
      /\ raced' = (raced \/ listing.seen # Helm \/ \E j \in DOMAIN jobs : jobs[j].row # 0)
  BY DEF R!SyncReleases
<1>3. /\ RelTypes /\ rels \in Seq(RelType) /\ raced \in BOOLEAN
      /\ listing.seen \in [RelNames -> R!HelmStatus]
  BY DEF ReleaseInv, RelTypes
<1>4. /\ raced' \in BOOLEAN
      /\ ~raced' => ~raced /\ listing.seen = Helm /\ \A j \in DOMAIN jobs : jobs[j].row = 0
  BY <1>2, <1>3
<1>5. listing'.seen \in [RelNames -> R!HelmStatus]
  BY <1>2 DEF R!NotListing, R!HelmStatus
<1>6. /\ rels' \in Seq(RelType) /\ DOMAIN rels \subseteq DOMAIN rels'
      /\ \A r \in DOMAIN rels : rels'[r].name = rels[r].name /\ (rels'[r].live => rels[r].live)
      /\ \A r \in DOMAIN rels' \ DOMAIN rels : \E n \in R!Added : rels'[r] = NewRow(n)
      /\ \A r, s \in DOMAIN rels' \ DOMAIN rels : rels'[r].name = rels'[s].name => r = s
  BY <1>1 DEF Synced
<1>7. RelTypes'
  BY <1>2, <1>3, <1>4, <1>5, <1>6 DEF RelTypes
<1>8. \A n \in R!Added : /\ n \in RelNames /\ listing.seen[n] # "none"
                         /\ \A r \in DOMAIN rels : ~(rels[r].live /\ rels[r].name = n)
  BY DEF R!Added, R!LiveRows
<1>9. \A n : NewRow(n).name = n /\ NewRow(n).status = listing.seen[n] /\ NewRow(n).live
             /\ NewRow(n).repo = 0
  BY DEF NewRow
<1>10. NamesOnce'
  <2>1. ASSUME NEW r \in DOMAIN rels', NEW s \in DOMAIN rels', rels'[r].live, rels'[s].live,
               rels'[r].name = rels'[s].name, r \in DOMAIN rels
        PROVE  r = s
    <3>1. CASE s \in DOMAIN rels
      BY <1>6, <2>1, <3>1 DEF ReleaseInv, NamesOnce
    <3>2. CASE s \notin DOMAIN rels
      <4>1. PICK n \in R!Added : rels'[s] = NewRow(n)
        BY <1>6, <3>2
      <4> QED BY <1>6, <1>8, <1>9, <2>1, <4>1
    <3> QED BY <3>1, <3>2
  <2> QED BY <1>6, <2>1 DEF NamesOnce
<1>11. ASSUME ~raced' PROVE Agree'
  <2>1. Agree /\ listing.seen = Helm /\ \A k \in ToSet(jobs) : k.row = 0
    BY <1>4, <1>11 DEF ReleaseInv, ToSet
  <2>2. ASSUME NEW k \in ToSet(jobs) PROVE TaskTells(k)'
    <3>1. k.stage = "insert" /\ k.row = 0
      BY <1>3, <2>1 DEF RelTypes
    <3> QED BY <3>1 DEF TaskTells
  <2>3. ASSUME NEW r \in DOMAIN rels', rels'[r].live, rels'[r].name \in Mine,
               rels'[r].status = "deployed"
        PROVE  Helm[rels'[r].name] = "deployed"
    <3>1. CASE r \in DOMAIN rels
      <4>1. /\ rels'[r].name = rels[r].name /\ rels[r].live /\ ~R!Dropped(r)
            /\ rels'[r].status = IF Helm[rels[r].name] # "none" THEN Helm[rels[r].name] ELSE rels[r].status
        BY <1>1, <2>1, <2>3, <3>1 DEF Synced
      <4>2. Helm[rels[r].name] = "none" => R!Fails(rels[r].status)
        BY <2>1, <4>1 DEF R!Dropped
      <4>3. ~R!Fails("deployed")
        BY DEF R!Fails
      <4> QED BY <2>3, <4>1, <4>2, <4>3
    <3>2. CASE r \notin DOMAIN rels
      <4>1. PICK n \in R!Added : rels'[r] = NewRow(n)
        BY <1>6, <3>2
      <4> QED BY <1>9, <2>1, <2>3, <4>1
    <3> QED BY <3>1, <3>2
  <2>4. ASSUME NEW n \in Mine, Helm[n] # "none"
        PROVE  \E r \in DOMAIN rels' : rels'[r].live /\ rels'[r].name = n
    <3>1. PICK r \in DOMAIN rels : rels[r].live /\ rels[r].name = n
      BY <2>1, <2>4 DEF Agree, IsKnown
    <3>2. ~R!Dropped(r)
      BY <2>1, <2>4, <3>1 DEF R!Dropped
    <3> QED BY <1>1, <1>6, <3>1, <3>2 DEF Synced
  <2>5. \A r \in DOMAIN rels' : RowTells(r)'
    BY <1>2, <2>3 DEF RowTells
  <2>6. \A n \in Mine : IsKnown(n)'
    BY <1>2, <2>4 DEF IsKnown
  <2> QED BY <1>2, <2>1, <2>2, <2>5, <2>6 DEF Agree
<1> QED BY <1>1, <1>2, <1>7, <1>10, <1>11 DEF ReleaseInv

-----------------------------------------------------------------------------
(* Releases: every step *)

\* The invariant holds at the start ...
LEMMA ReleaseInitHolds ==
  ASSUME AppInit
  PROVE  ReleaseInv
<1>1. /\ rels = <<>> /\ jobs = <<>> /\ listing = R!NotListing /\ race = FALSE /\ raced = FALSE
      /\ store = [n \in Apps |-> "none"]
  BY DEF AppInit, R!RelInit
<1>2. ToSet(jobs) = {} /\ DOMAIN rels = {} /\ OneRow(jobs)
  BY <1>1 DEF ToSet, OneRow
<1>3. store \in [Apps -> R!HelmStatus] /\ \A n \in Apps : store[n] = "none"
  BY <1>1 DEF R!HelmStatus
<1>4. \A n \in Mine : Helm[n] = "none"
  BY <1>3, HelmFacts DEF Mine, RelNames
<1>5. listing.seen \in [RelNames -> R!HelmStatus]
  BY <1>1 DEF R!NotListing, R!HelmStatus
<1>6. rels \in Seq(RelType) /\ jobs \in Seq(RelJobType)
  BY <1>1
<1>9. race \in BOOLEAN /\ raced \in BOOLEAN
  BY <1>1
<1>7. RelTypes
  BY <1>2, <1>3, <1>5, <1>6, <1>9 DEF RelTypes
<1>8. NamesOnce /\ Agree
  BY <1>2, <1>4 DEF NamesOnce, Agree, IsKnown
<1> QED BY <1>7, <1>8 DEF ReleaseInv

\* Steps of repositories leave the releases alone.
LEMMA RepoSteps ==
  ASSUME \/ \E n \in Repos, d \in Domains : R!CreateRepo(n, d)
         \/ \E r \in DOMAIN repos : R!PerformSync(r) \/ R!DeleteRepo(r)
         \/ R!ListRepos \/ R!Restart
         \/ \E r \in todo : R!RefreshOne(r)
         \/ \E j \in DOMAIN rjobs : \/ R!AddLoad(j) \/ R!AddFails(j) \/ R!AddWrite(j)
                                    \/ R!InsertRepo(j) \/ R!RemoveLoad(j) \/ R!RemoveWrite(j)
                                    \/ R!RemoveRow(j)
  PROVE  UNCHANGED <<rels, jobs, listing, raced>> /\ Helm' = Helm
         /\ (race' = race \/ \E r \in DOMAIN repos : R!DeleteRepo(r))
BY DEF R!CreateRepo, R!PerformSync, R!DeleteRepo, R!ListRepos, R!Restart, R!RefreshOne, R!AddLoad,
   R!AddFails, R!AddWrite, R!InsertRepo, R!RemoveLoad, R!RemoveWrite, R!RemoveRow, R!releaseSide

\* ... every step keeps it ...
LEMMA ReleaseNextHolds ==
  ASSUME ReleaseInv, RepoInv, [AppNext]_appVars
  PROVE  ReleaseInv'
<1>1. /\ store \in [Apps -> R!HelmStatus] /\ race \in BOOLEAN
      /\ listing.seen \in [RelNames -> R!HelmStatus]
  BY DEF ReleaseInv, RelTypes
<1>2. CASE ComponentStep \/ UNCHANGED appVars
  <2>1. UNCHANGED <<rels, jobs, raced, race, listing, store>>
    BY <1>2 DEF ComponentStep, appVars
  <2>2. \A n \in Mine : Helm[n] = store[n] /\ Helm'[n] = store'[n]
    BY <1>1, <2>1 DEF Helm, Mine, RelNames
  <2> HIDE DEF ReleaseInv
  <2> QED BY <1>1, <2>1, <2>2, ReleaseStands
<1>3. CASE ReleaseStep
  <2> USE DEF R!RelNext
  <2>1. store' \in [Apps -> R!HelmStatus] /\ R!RelNext
    BY <1>3 DEF ReleaseStep
  <2>2. CASE \/ \E n \in Repos, d \in Domains : R!CreateRepo(n, d)
             \/ \E r \in DOMAIN repos : R!PerformSync(r) \/ R!DeleteRepo(r)
             \/ R!ListRepos \/ R!Restart
             \/ \E r \in todo : R!RefreshOne(r)
             \/ \E j \in DOMAIN rjobs : \/ R!AddLoad(j) \/ R!AddFails(j) \/ R!AddWrite(j)
                                        \/ R!InsertRepo(j) \/ R!RemoveLoad(j) \/ R!RemoveWrite(j)
                                        \/ R!RemoveRow(j)
    <3>1. /\ UNCHANGED <<rels, jobs, listing, raced>> /\ Helm' = Helm
          /\ (race' = race \/ \E r \in DOMAIN repos : R!DeleteRepo(r))
      BY <2>2, RepoSteps
    <3>2. race' \in BOOLEAN
      <4>1. ASSUME NEW r \in DOMAIN repos, R!DeleteRepo(r) PROVE race' \in BOOLEAN
        BY <1>1, <4>1 DEF R!DeleteRepo
      <4> QED BY <1>1, <3>1, <4>1
    <3> HIDE DEF ReleaseInv
    <3> QED BY <1>1, <2>1, <3>1, <3>2, ReleaseStands
  <2>3. CASE \E n \in RelNames, p \in DOMAIN repos : R!CreateRelease(n, p)
    <3>1. PICK n \in RelNames, p \in DOMAIN repos : R!CreateRelease(n, p)
      BY <2>3
    <3>2. p \in Nat
      BY RepoFits
    <3> QED BY <2>1, <3>1, <3>2, CreateReleaseStep
  <2>4. CASE \E r \in DOMAIN rels : R!DeleteRelease(r)
    BY <2>1, <2>4, DeleteReleaseStep
  <2>5. CASE \E j \in DOMAIN jobs : \/ R!InsertRelease(j) \/ R!Install(j) \/ R!CreateEnds(j)
                                    \/ R!Uninstall(j) \/ R!DeleteEnds(j)
    BY <2>1, <2>5, InsertReleaseStep, CallSteps, TaskEndSteps
  <2>6. CASE R!ListReleases \/ R!SyncReleases
    BY <2>1, <2>6, ListReleasesStep, SyncReleasesStep
  <2> QED BY <2>1, <2>2, <2>3, <2>4, <2>5, <2>6
<1> QED BY <1>2, <1>3 DEF AppNext

\* ... and it explains the property.
LEMMA ReleaseInvTells ==
  ASSUME ReleaseInv
  PROVE  ReleasesTellTruth
<1>1. ASSUME jobs = <<>>, ~raced, NEW n \in Mine
      PROVE  /\ \A r \in DOMAIN rels :
                  (rels[r].live /\ rels[r].name = n /\ rels[r].status = "deployed") => Helm[n] = "deployed"
             /\ Helm[n] # "none" => \E r \in DOMAIN rels : rels[r].live /\ rels[r].name = n
  BY <1>1 DEF ReleaseInv, Agree, RowTells, IsKnown, ToSet
<1> QED BY <1>1 DEF ReleasesTellTruth, R!ReleasesTellTruth, R!LiveRows, Mine

-----------------------------------------------------------------------------
(* Releases keep the repository of their chart *)

\* No request deletes the repository p.
NotDeleted(p) == \A k \in ToSet(rjobs) : ~(k.kind = "delete" /\ k.row = p)

\* The repositories of releases, and those of releases about to be inserted, stay.
ReposStay ==
  /\ \A r \in DOMAIN rels : (rels[r].live /\ rels[r].repo # 0) =>
       R!LiveRepo(rels[r].repo) /\ NotDeleted(rels[r].repo)
  /\ \A k \in ToSet(jobs) : k.stage = "insert" => NotDeleted(k.repo)

KeepInv == ~race => ReposStay

\* Requests that delete nothing new, and rows of repositories that stay.
LEMMA RepoSideQuiet ==
  ASSUME RepoInv,
         \/ \E n \in Repos, d \in Domains : R!CreateRepo(n, d)
         \/ \E r \in DOMAIN repos : R!PerformSync(r)
         \/ R!ListRepos \/ R!Restart
         \/ \E r \in todo : R!RefreshOne(r)
         \/ \E j \in DOMAIN rjobs : \/ R!AddLoad(j) \/ R!AddFails(j) \/ R!AddWrite(j)
                                    \/ R!InsertRepo(j) \/ R!RemoveLoad(j) \/ R!RemoveWrite(j)
  PROVE  \A p : (NotDeleted(p) => NotDeleted(p)') /\ (R!LiveRepo(p) => R!LiveRepo(p)')
<1>1. /\ RepoTypes /\ rjobs \in Seq(RepoJobType) /\ repos \in Seq(RepoType)
      /\ \A j \in DOMAIN rjobs : rjobs[j] \in ToSet(rjobs)
  BY PlaceFacts DEF RepoInv, RepoTypes
<1> DEFINE Gained == \E kind \in {"create", "sync", "refresh"}, n \in Repos, d \in Domains, r \in Nat :
                       rjobs' = Append(rjobs, [kind |-> kind, name |-> n, dom |-> d, row |-> r,
                                               stage |-> "load", snap |-> R!Empty])
           Turned == \E j \in DOMAIN rjobs, e \in RepoJobType :
                       rjobs' = [rjobs EXCEPT ![j] = e] /\ e.kind = rjobs[j].kind /\ e.row = rjobs[j].row
           Lost == \E j \in DOMAIN rjobs : rjobs' = RemoveAt(rjobs, j)
           Fewer == \A p : NotDeleted(p) => NotDeleted(p)'
<1>2. Gained => Fewer
  <2>1. ASSUME NEW kind \in {"create", "sync", "refresh"}, NEW n \in Repos, NEW d \in Domains, NEW r \in Nat,
               rjobs' = Append(rjobs, [kind |-> kind, name |-> n, dom |-> d, row |-> r,
                                       stage |-> "load", snap |-> R!Empty])
        PROVE  Fewer
    <3> DEFINE e == [kind |-> kind, name |-> n, dom |-> d, row |-> r, stage |-> "load", snap |-> R!Empty]
    <3>1. e \in RepoJobType /\ e.kind # "delete"
      BY NewRequestType
    <3>2. rjobs' = Append(rjobs, e)
      BY <2>1
    <3> HIDE DEF e
    <3>3. ToSet(rjobs') = ToSet(rjobs) \cup {e}
      BY <1>1, <3>1, <3>2, ListChanges DEF ListGains
    <3> QED BY <3>1, <3>3 DEF NotDeleted
  <2> QED BY <2>1
<1>3. Turned => Fewer
  <2>1. ASSUME NEW j \in DOMAIN rjobs, NEW e \in RepoJobType,
               rjobs' = [rjobs EXCEPT ![j] = e], e.kind = rjobs[j].kind, e.row = rjobs[j].row
        PROVE  Fewer
    <3>1. ToSet(rjobs') \subseteq ToSet(rjobs) \cup {e}
      BY <1>1, <2>1, ListChanges DEF ListTurns
    <3> QED BY <1>1, <2>1, <3>1 DEF NotDeleted
  <2> QED BY <2>1
<1>4. Lost => Fewer
  <2>1. ASSUME NEW j \in DOMAIN rjobs, rjobs' = RemoveAt(rjobs, j)
        PROVE  Fewer
    <3>1. ToSet(rjobs') \subseteq ToSet(rjobs)
      BY <1>1, <2>1, ListChanges DEF ListLoses
    <3> QED BY <3>1 DEF NotDeleted
  <2> QED BY <2>1
<1>5. rjobs' = rjobs \/ rjobs' = <<>> => Fewer
  BY DEF NotDeleted, ToSet
<1> DEFINE Stay == \A p : R!LiveRepo(p) => R!LiveRepo(p)'
<1>6. repos' = repos => Stay
  BY DEF R!LiveRepo
<1>7. ASSUME NEW n \in Repos, NEW d \in Domains, R!CreateRepo(n, d) PROVE Fewer /\ Stay
  <2>1. Gained /\ repos' = repos
    BY <1>7 DEF R!CreateRepo, R!RepoJob
  <2> QED BY <1>2, <1>6, <2>1
<1>8. ASSUME NEW r \in DOMAIN repos, R!PerformSync(r) PROVE Fewer /\ Stay
  <2>1. Gained /\ repos' = repos
    BY <1>8, RepoFits DEF R!PerformSync, R!RepoJob
  <2> QED BY <1>2, <1>6, <2>1
<1>9. CASE R!ListRepos \/ R!Restart
  <2>1. (rjobs' = rjobs \/ rjobs' = <<>>) /\ repos' = repos
    BY <1>9 DEF R!ListRepos, R!Restart
  <2> QED BY <1>5, <1>6, <2>1
<1>10. ASSUME NEW r \in todo, R!RefreshOne(r) PROVE Fewer /\ Stay
  <2>1. r \in DOMAIN repos
    BY DEF RepoInv, RepoTypes
  <2>2. (Gained \/ rjobs' = rjobs) /\ repos' = repos
    BY <1>10, <2>1, RepoFits DEF R!RefreshOne, R!RepoJob
  <2> QED BY <1>2, <1>5, <1>6, <2>2
<1>11. ASSUME NEW j \in DOMAIN rjobs,
              \/ R!AddLoad(j) \/ R!AddFails(j) \/ R!AddWrite(j)
              \/ R!InsertRepo(j) \/ R!RemoveLoad(j) \/ R!RemoveWrite(j)
       PROVE  Fewer /\ Stay
  <2>1. rjobs[j] \in RepoJobType /\ file \in R!Files
    BY JobFits DEF RepoInv, RepoTypes
  <2>2. ASSUME NEW s \in {"write", "row"}, rjobs' = [rjobs EXCEPT ![j].stage = s] PROVE Turned
    <3> DEFINE e == [rjobs[j] EXCEPT !.stage = s]
    <3>1. e \in RepoJobType /\ e.kind = rjobs[j].kind /\ e.row = rjobs[j].row
      <4>1. s \in {"load", "write", "row"}
        BY <2>2
      <4> QED BY <2>1, <4>1, JobTurned
    <3>2. rjobs' = [rjobs EXCEPT ![j] = e]
      BY <2>2
    <3> HIDE DEF e
    <3> QED BY <3>1, <3>2
  <2>3. ASSUME rjobs' = [rjobs EXCEPT ![j].stage = "write", ![j].snap = file] PROVE Turned
    <3>1. PICK e \in RepoJobType :
            /\ e = [rjobs[j] EXCEPT !.stage = "write", !.snap = file]
            /\ e.kind = rjobs[j].kind /\ e.row = rjobs[j].row /\ e.name = rjobs[j].name
            /\ e.stage = "write"
      BY <2>1, JobLoaded
    <3>2. rjobs' = [rjobs EXCEPT ![j] = e]
      BY <2>3, <3>1
    <3> QED BY <3>1, <3>2
  <2>4. \/ R!RepoEnds(j)
        \/ rjobs' = [rjobs EXCEPT ![j].stage = "write", ![j].snap = file]
        \/ rjobs' = [rjobs EXCEPT ![j].stage = "row"]
    BY <1>11 DEF R!AddLoad, R!AddFails, R!AddWrite, R!InsertRepo, R!RemoveLoad, R!RemoveWrite, R!RepoStage
  <2>5. Turned \/ Lost
    BY <2>2, <2>3, <2>4, EndsAre
  <2>6. Stay
    <3>1. CASE repos' = repos
      BY <1>6, <3>1
    <3>2. CASE repos' # repos
      <4>1. \E e \in RepoType : repos' = Append(repos, e)
        <5>1. /\ R!InsertRepo(j)
              /\ repos' = Append(repos, [name |-> rjobs[j].name, dom |-> rjobs[j].dom, live |-> TRUE])
          BY <1>11, <3>2 DEF R!AddLoad, R!AddFails, R!AddWrite, R!InsertRepo, R!RemoveLoad, R!RemoveWrite
        <5>2. rjobs[j].name \in Repos /\ rjobs[j].dom \in Domains
          BY JobFits
        <5> QED BY <5>1, <5>2 DEF RepoType
      <4>2. PICK e \in RepoType : repos' = Append(repos, e)
        BY <4>1
      <4>3. DOMAIN repos \subseteq DOMAIN repos' /\ \A x \in DOMAIN repos : repos'[x] = repos[x]
        BY <1>1, <4>2, AppendFacts
      <4> QED BY <4>3 DEF R!LiveRepo
    <3> QED BY <3>1, <3>2
  <2> QED BY <1>3, <1>4, <2>5, <2>6
<1> QED BY <1>7, <1>8, <1>9, <1>10, <1>11

\* Repositories stay when the releases and what is deleted stay.
LEMMA KeepStands ==
  ASSUME KeepInv, UNCHANGED <<rels, jobs>>, race' = race,
         \A p : (NotDeleted(p) => NotDeleted(p)') /\ (R!LiveRepo(p) => R!LiveRepo(p)')
  PROVE  KeepInv'
<1>1. ASSUME ~race' PROVE ReposStay'
  <2>1. ReposStay
    BY <1>1 DEF KeepInv
  <2>2. ASSUME NEW r \in DOMAIN rels, rels[r].live, rels[r].repo # 0
        PROVE  R!LiveRepo(rels[r].repo)' /\ NotDeleted(rels[r].repo)'
    <3> PICK p : p = rels[r].repo
      OBVIOUS
    <3>1. R!LiveRepo(p) /\ NotDeleted(p)
      BY <2>1, <2>2 DEF ReposStay
    <3>2. R!LiveRepo(p)' /\ NotDeleted(p)'
      BY <3>1
    <3> QED BY <3>2
  <2>3. ASSUME NEW k \in ToSet(jobs), k.stage = "insert" PROVE NotDeleted(k.repo)'
    BY <2>1, <2>3 DEF ReposStay
  <2> QED BY <2>2, <2>3 DEF ReposStay
<1> QED BY <1>1 DEF KeepInv

\* Steps of releases: a live row with a repository had it, or was about to be inserted.
LEMMA KeepReleases ==
  ASSUME KeepInv, UNCHANGED <<repos, rjobs>>, ~race' => ~race,
         \A r \in DOMAIN rels' : (rels'[r].live /\ rels'[r].repo # 0) =>
           \/ \E s \in DOMAIN rels : rels[s].live /\ rels[s].repo = rels'[r].repo
           \/ \E k \in ToSet(jobs) :
                k.stage = "insert" /\ k.repo = rels'[r].repo /\ R!LiveRepo(k.repo),
         ~race' => \A k \in ToSet(jobs') : k.stage = "insert" => k \in ToSet(jobs) \/ NotDeleted(k.repo)
  PROVE  KeepInv'
<1>2. ASSUME ~race' PROVE ReposStay'
  <2>1. ReposStay
    BY <1>2 DEF KeepInv
  <2>2. ASSUME NEW r \in DOMAIN rels', rels'[r].live, rels'[r].repo # 0
        PROVE  R!LiveRepo(rels'[r].repo) /\ NotDeleted(rels'[r].repo)
    BY <2>1, <2>2 DEF ReposStay
  <2>3. ASSUME NEW k \in ToSet(jobs'), k.stage = "insert" PROVE NotDeleted(k.repo)
    BY <1>2, <2>1, <2>3 DEF ReposStay
  <2>4. repos' = repos /\ rjobs' = rjobs
    OBVIOUS
  <2> QED BY <2>2, <2>3, <2>4 DEF ReposStay, R!LiveRepo, NotDeleted
<1> QED BY <1>2 DEF KeepInv

\* A repository is deleted only when no release has it ...
LEMMA KeepDeleteRepo ==
  ASSUME KeepInv, RepoInv, ReleaseInv, NEW r \in DOMAIN repos, R!DeleteRepo(r)
  PROVE  KeepInv'
<1> DEFINE e == [kind |-> "delete", name |-> repos[r].name, dom |-> repos[r].dom,
                 row |-> r, stage |-> "load", snap |-> R!Empty]
<1>1. e \in RepoJobType /\ e.row = r
  BY NewRequestType, RepoFits
<1>2. /\ rjobs' = Append(rjobs, e) /\ UNCHANGED <<repos, rels, jobs>>
      /\ \A i \in DOMAIN rels : ~(rels[i].live /\ rels[i].repo = r)
      /\ race' = (race \/ \E i \in DOMAIN jobs : jobs[i].stage = "insert" /\ jobs[i].repo = r)
  BY DEF R!DeleteRepo, R!RepoJob
<1> HIDE DEF e
<1>3. rjobs \in Seq(RepoJobType) /\ race \in BOOLEAN
  BY DEF RepoInv, RepoTypes, ReleaseInv, RelTypes
<1>4. ToSet(rjobs') = ToSet(rjobs) \cup {e}
  BY <1>1, <1>2, <1>3, ListChanges DEF ListGains
<1>5. \A p : p # r => (NotDeleted(p) => NotDeleted(p)')
  BY <1>1, <1>4 DEF NotDeleted
<1>6. ASSUME ~race' PROVE ReposStay'
  <2>1. ReposStay /\ \A k \in ToSet(jobs) : k.stage = "insert" => k.repo # r
    BY <1>2, <1>3, <1>6 DEF KeepInv, ToSet
  <2>2. ASSUME NEW i \in DOMAIN rels, rels[i].live, rels[i].repo # 0
        PROVE  R!LiveRepo(rels[i].repo)' /\ NotDeleted(rels[i].repo)'
    <3> PICK p : p = rels[i].repo
      OBVIOUS
    <3>1. R!LiveRepo(p) /\ NotDeleted(p) /\ p # r
      BY <1>2, <2>1, <2>2 DEF ReposStay
    <3>2. R!LiveRepo(p)' /\ NotDeleted(p)'
      BY <1>2, <1>5, <3>1 DEF R!LiveRepo
    <3> QED BY <1>2, <3>2
  <2>3. ASSUME NEW k \in ToSet(jobs), k.stage = "insert" PROVE NotDeleted(k.repo)'
    BY <1>5, <2>1, <2>3 DEF ReposStay
  <2> QED BY <1>2, <2>2, <2>3 DEF ReposStay
<1> QED BY <1>6 DEF KeepInv

\* ... so the row that goes is the repository of none.
LEMMA KeepRemoveRow ==
  ASSUME KeepInv, RepoInv, NEW j \in DOMAIN rjobs, R!RemoveRow(j)
  PROVE  KeepInv'
<1> PICK k \in ToSet(rjobs) : k = rjobs[j]
  BY JobFits
<1> PICK z : z = k.row
  OBVIOUS
<1>1. /\ k.kind = "delete" /\ R!RepoEnds(j) /\ repos' = [repos EXCEPT ![z].live = FALSE]
      /\ UNCHANGED <<rels, jobs, race>>
  BY DEF R!RemoveRow, R!releaseSide
<1>2. /\ repos \in Seq(RepoType) /\ rjobs \in Seq(RepoJobType)
  BY DEF RepoInv, RepoTypes
<1>3. rjobs' = RemoveAt(rjobs, j)
  BY <1>1, EndsAre
<1>4. ToSet(rjobs') \subseteq ToSet(rjobs)
  BY <1>2, <1>3, ListChanges DEF ListLoses
<1>5. DOMAIN repos' = DOMAIN repos /\ \A x \in DOMAIN repos : x # z => repos'[x] = repos[x]
  BY <1>1, <1>2
<1>6. \A p : (NotDeleted(p) => NotDeleted(p)' /\ p # z) /\ (R!LiveRepo(p) /\ p # z => R!LiveRepo(p)')
  BY <1>1, <1>4, <1>5 DEF NotDeleted, R!LiveRepo
<1>7. ASSUME ~race' PROVE ReposStay'
  <2>1. ReposStay
    BY <1>1, <1>7 DEF KeepInv
  <2>2. ASSUME NEW i \in DOMAIN rels, rels[i].live, rels[i].repo # 0
        PROVE  R!LiveRepo(rels[i].repo)' /\ NotDeleted(rels[i].repo)'
    <3> PICK p : p = rels[i].repo
      OBVIOUS
    <3>1. R!LiveRepo(p) /\ NotDeleted(p)
      BY <2>1, <2>2 DEF ReposStay
    <3>2. R!LiveRepo(p)' /\ NotDeleted(p)'
      BY <1>6, <3>1
    <3> QED BY <1>1, <3>2
  <2>3. ASSUME NEW m \in ToSet(jobs), m.stage = "insert" PROVE NotDeleted(m.repo)'
    BY <1>6, <2>1, <2>3 DEF ReposStay
  <2> QED BY <1>1, <2>2, <2>3 DEF ReposStay
<1> QED BY <1>7 DEF KeepInv

\* Steps of tasks and of the synchronisation.
LEMMA KeepTaskSteps ==
  ASSUME KeepInv, ReleaseInv, store' \in [Apps -> R!HelmStatus],
         \/ \E j \in DOMAIN jobs : \/ R!InsertRelease(j) \/ R!Install(j) \/ R!CreateEnds(j)
                                   \/ R!Uninstall(j) \/ R!DeleteEnds(j)
         \/ \E r \in DOMAIN rels : R!DeleteRelease(r)
         \/ R!ListReleases \/ R!SyncReleases
  PROVE  KeepInv'
<1>1. /\ RelTypes /\ rels \in Seq(RelType) /\ jobs \in Seq(RelJobType)
      /\ \A j \in DOMAIN jobs : jobs[j] \in ToSet(jobs) /\ jobs[j] \in RelJobType
  BY PlaceFacts DEF ReleaseInv, RelTypes
<1>2. UNCHANGED <<repos, rjobs, race>>
  BY DEF R!InsertRelease, R!Install, R!CreateEnds, R!Uninstall, R!DeleteEnds, R!DeleteRelease,
     R!ListReleases, R!SyncReleases, R!repoSide
<1> DEFINE RowsFit == \A r \in DOMAIN rels' : (rels'[r].live /\ rels'[r].repo # 0) =>
             \/ \E s \in DOMAIN rels : rels[s].live /\ rels[s].repo = rels'[r].repo
             \/ \E k \in ToSet(jobs) :
                  k.stage = "insert" /\ k.repo = rels'[r].repo /\ R!LiveRepo(k.repo)
           JobsFit == \A k \in ToSet(jobs') : k.stage = "insert" => k \in ToSet(jobs)
<1>3. RowsFit /\ JobsFit => KeepInv'
  <2> HIDE DEF KeepInv
  <2> QED BY <1>2, KeepReleases
<1>4. rels' = rels => RowsFit
  OBVIOUS
<1>5. jobs' = jobs => JobsFit
  OBVIOUS
<1>6. ASSUME NEW j \in DOMAIN jobs, jobs' = RemoveAt(jobs, j) PROVE JobsFit
  BY <1>1, <1>6, ListChanges DEF ListLoses
<1>7. ASSUME NEW j \in DOMAIN jobs, NEW e \in RelJobType, jobs' = [jobs EXCEPT ![j] = e],
             e.stage # "insert"
      PROVE  JobsFit
  <2>1. ListTurns(jobs, [jobs EXCEPT ![j] = e], jobs[j], e)
    BY <1>1, ListChanges
  <2>2. ToSet(jobs') \subseteq ToSet(jobs) \cup {e}
    BY <1>7, <2>1 DEF ListTurns
  <2> QED BY <1>7, <2>2
<1>8. ASSUME NEW r \in DOMAIN rels, NEW e \in RelType, rels' = [rels EXCEPT ![r] = e],
             e.repo = rels[r].repo, e.live => rels[r].live
      PROVE  RowsFit
  <2>1. DOMAIN rels' = DOMAIN rels /\ \A s \in DOMAIN rels : rels'[s] = IF s = r THEN e ELSE rels[s]
    BY <1>1, <1>8
  <2> QED BY <1>8, <2>1
<1>9. ASSUME NEW j \in DOMAIN jobs, R!InsertRelease(j) PROVE KeepInv'
  <2>1. CASE rels' = rels /\ jobs' = RemoveAt(jobs, j)
    BY <1>3, <1>4, <1>6, <2>1
  <2>2. ASSUME NEW x \in RelType, NEW e \in RelJobType,
               rels' = Append(rels, x), jobs' = [jobs EXCEPT ![j] = e],
               jobs[j].stage = "insert", e.stage = "call",
               x.repo = jobs[j].repo, R!LiveRepo(x.repo)
        PROVE  KeepInv'
    <3>1. /\ DOMAIN rels' = DOMAIN rels \cup {Len(rels) + 1}
          /\ \A s \in DOMAIN rels : rels'[s] = rels[s]
          /\ rels'[Len(rels) + 1] = x
      BY <1>1, <2>2, AppendFacts
    <3>2. RowsFit
      BY <1>1, <2>2, <3>1
    <3>3. JobsFit
      BY <1>7, <2>2
    <3> QED BY <1>3, <3>2, <3>3
  <2>3. \/ rels' = rels /\ jobs' = RemoveAt(jobs, j)
        \/ \E x \in RelType, e \in RelJobType :
             /\ rels' = Append(rels, x) /\ jobs' = [jobs EXCEPT ![j] = e]
             /\ jobs[j].stage = "insert" /\ e.stage = "call"
             /\ x.repo = jobs[j].repo /\ R!LiveRepo(x.repo)
    <3> HIDE DEF ReleaseInv
    <3> QED BY <1>9, InsertReleaseStep
  <2> HIDE DEF RowsFit, JobsFit
  <2> QED BY <2>1, <2>2, <2>3
<1>10. ASSUME NEW j \in DOMAIN jobs, R!Install(j) \/ R!Uninstall(j) PROVE KeepInv'
  <2>1. PICK s \in {"done", "failed"} : rels' = rels /\ jobs' = [jobs EXCEPT ![j].stage = s]
    BY <1>10 DEF R!Install, R!Uninstall, R!JobStage
  <2>2. s \in {"insert", "call", "done", "failed"} /\ s # "insert"
    BY <2>1
  <2>3. PICK e \in RelJobType :
          /\ e = [jobs[j] EXCEPT !.stage = s] /\ e.kind = jobs[j].kind /\ e.row = jobs[j].row
          /\ e.name = jobs[j].name /\ e.repo = jobs[j].repo /\ e.stage = s
    <3>1. jobs[j] \in RelJobType
      BY <1>1
    <3> QED BY ONLY <2>2, <3>1, TaskTurned, Zenon
  <2>4. jobs' = [jobs EXCEPT ![j] = e]
    BY <2>1, <2>3
  <2>5. JobsFit
    BY <1>7, <2>2, <2>3, <2>4
  <2> QED BY <1>3, <1>4, <2>1, <2>5
<1>11. ASSUME NEW j \in DOMAIN jobs, R!CreateEnds(j) \/ R!DeleteEnds(j) PROVE KeepInv'
  <2>1. /\ jobs' = RemoveAt(jobs, j) /\ jobs[j].row # 0
        /\ \E e \in RelType : /\ rels' = [rels EXCEPT ![jobs[j].row] = e]
                              /\ e.repo = rels[jobs[j].row].repo
                              /\ e.live => rels[jobs[j].row].live
    BY <1>11, TaskEndSteps
  <2>2. jobs[j].row \in DOMAIN rels
    BY <1>1, <2>1 DEF RelTypes
  <2>3. RowsFit
    BY <1>8, <2>1, <2>2
  <2> QED BY <1>3, <1>6, <2>1, <2>3
<1>12. ASSUME NEW r \in DOMAIN rels, R!DeleteRelease(r) PROVE KeepInv'
  <2>1. /\ \E e \in RelJobType : jobs' = Append(jobs, e) /\ e.stage = "call"
        /\ \E x \in RelType : rels' = [rels EXCEPT ![r] = x] /\ x.repo = rels[r].repo
                              /\ x.live = rels[r].live
    BY <1>12, DeleteReleaseStep
  <2>2. RowsFit
    BY <1>8, <2>1
  <2>3. JobsFit
    BY <1>1, <2>1, ListChanges DEF ListGains
  <2> QED BY <1>3, <2>2, <2>3
<1>13. ASSUME R!ListReleases PROVE KeepInv'
  <2>1. rels' = rels /\ jobs' = jobs
    BY <1>13 DEF R!ListReleases
  <2> QED BY <1>3, <1>4, <1>5, <2>1
<1>14. ASSUME R!SyncReleases PROVE KeepInv'
  <2>1. Synced(rels, rels') /\ jobs' = jobs
    BY <1>14, SyncReleasesStep
  <2>2. ASSUME NEW r \in DOMAIN rels', rels'[r].live, rels'[r].repo # 0
        PROVE  \E s \in DOMAIN rels : rels[s].live /\ rels[s].repo = rels'[r].repo
    <3>1. CASE r \in DOMAIN rels
      BY <2>1, <2>2, <3>1 DEF Synced
    <3>2. CASE r \notin DOMAIN rels
      <4>1. \E n \in R!Added : rels'[r] = NewRow(n)
        BY <2>1, <2>2, <3>2 DEF Synced
      <4> QED BY <2>2, <4>1 DEF NewRow
    <3> QED BY <3>1, <3>2
  <2>3. RowsFit
    BY <2>2
  <2> QED BY <1>3, <1>5, <2>1, <2>3
<1> QED BY <1>9, <1>10, <1>11, <1>12, <1>13, <1>14

\* A release is created from a repository that no request deletes.
LEMMA KeepCreateRelease ==
  ASSUME KeepInv, ReleaseInv, store' \in [Apps -> R!HelmStatus], NEW n \in RelNames, NEW p \in Nat,
         R!CreateRelease(n, p)
  PROVE  KeepInv'
<1>1. /\ jobs \in Seq(RelJobType) /\ race \in BOOLEAN
  BY DEF ReleaseInv, RelTypes
<1>2. /\ UNCHANGED <<repos, rjobs, rels>>
      /\ race' = (race \/ \E i \in DOMAIN rjobs : rjobs[i].kind = "delete" /\ rjobs[i].row = p)
  BY DEF R!CreateRelease, R!repoSide
<1>3. PICK e \in RelJobType : jobs' = Append(jobs, e) /\ e.repo = p
  BY CreateReleaseStep
<1>4. ToSet(jobs') = ToSet(jobs) \cup {e}
  BY <1>1, <1>3, ListChanges DEF ListGains
<1>5. ~race' => ~race /\ NotDeleted(p)
  BY <1>1, <1>2 DEF NotDeleted, ToSet
<1> HIDE DEF KeepInv, ReleaseInv
<1> QED BY <1>2, <1>3, <1>4, <1>5, KeepReleases

\* Every step keeps it.
LEMMA KeepNextHolds ==
  ASSUME KeepInv, RepoInv, ReleaseInv, [AppNext]_appVars
  PROVE  KeepInv'
<1>1. CASE ComponentStep \/ UNCHANGED appVars
  <2>1. UNCHANGED <<rels, jobs, race, repos, rjobs>>
    BY <1>1 DEF ComponentStep, appVars
  <2>2. \A p : (NotDeleted(p) => NotDeleted(p)') /\ (R!LiveRepo(p) => R!LiveRepo(p)')
    BY <2>1 DEF NotDeleted, R!LiveRepo
  <2> HIDE DEF KeepInv
  <2> QED BY <2>1, <2>2, KeepStands
<1>2. CASE ReleaseStep
  <2>1. store' \in [Apps -> R!HelmStatus] /\ R!RelNext
    BY <1>2 DEF ReleaseStep
  <2>2. CASE \/ \E n \in Repos, d \in Domains : R!CreateRepo(n, d)
             \/ \E r \in DOMAIN repos : R!PerformSync(r)
             \/ R!ListRepos \/ R!Restart
             \/ \E r \in todo : R!RefreshOne(r)
             \/ \E j \in DOMAIN rjobs : \/ R!AddLoad(j) \/ R!AddFails(j) \/ R!AddWrite(j)
                                        \/ R!InsertRepo(j) \/ R!RemoveLoad(j) \/ R!RemoveWrite(j)
    <3>1. \A p : (NotDeleted(p) => NotDeleted(p)') /\ (R!LiveRepo(p) => R!LiveRepo(p)')
      BY <2>2, RepoSideQuiet
    <3>2. UNCHANGED <<rels, jobs, race>>
      BY <2>2 DEF R!CreateRepo, R!PerformSync, R!ListRepos, R!Restart, R!RefreshOne, R!AddLoad,
         R!AddFails, R!AddWrite, R!InsertRepo, R!RemoveLoad, R!RemoveWrite, R!releaseSide
    <3> HIDE DEF KeepInv
    <3> QED BY <3>1, <3>2, KeepStands
  <2>3. CASE \E r \in DOMAIN repos : R!DeleteRepo(r)
    BY <2>3, KeepDeleteRepo
  <2>4. CASE \E j \in DOMAIN rjobs : R!RemoveRow(j)
    BY <2>4, KeepRemoveRow
  <2>5. CASE \E n \in RelNames, p \in DOMAIN repos : R!CreateRelease(n, p)
    BY <2>1, <2>5, KeepCreateRelease, RepoFits
  <2>6. CASE \/ \E j \in DOMAIN jobs : \/ R!InsertRelease(j) \/ R!Install(j) \/ R!CreateEnds(j)
                                       \/ R!Uninstall(j) \/ R!DeleteEnds(j)
             \/ \E r \in DOMAIN rels : R!DeleteRelease(r)
             \/ R!ListReleases \/ R!SyncReleases
    BY <2>1, <2>6, KeepTaskSteps
  <2> QED BY <2>1, <2>2, <2>3, <2>4, <2>5, <2>6 DEF R!RelNext
<1> QED BY <1>1, <1>2 DEF AppNext

\* At the start there is no release.
LEMMA KeepInitHolds ==
  ASSUME AppInit
  PROVE  KeepInv
<1>1. DOMAIN rels = {} /\ ToSet(jobs) = {}
  BY DEF AppInit, R!RelInit, ToSet
<1> QED BY <1>1 DEF KeepInv, ReposStay

\* It explains the property.
LEMMA KeepInvKeeps ==
  ASSUME KeepInv, ReleaseInv
  PROVE  ReleaseKeepsRepo
<1>1. race \in BOOLEAN
  BY DEF ReleaseInv, RelTypes
<1> QED BY <1>1 DEF KeepInv, ReposStay, ReleaseKeepsRepo, R!ReleaseKeepsRepo

\* Releases and repositories: whichever requests, refreshes, synchronisations, restarts and
\* faults come in between, repositories.yaml matches the repositories, a release keeps the
\* repository of its chart and its row tells what helm has (repos.go, release.go,
\* pkg/helm), unless one of the faults that the history names has happened.
THEOREM ReleasesAreSound == AppSpec => []ReleasesSound
<1> DEFINE IInv == RepoInv /\ ReleaseInv /\ KeepInv
<1>1. AppInit => IInv
  BY RepoInitHolds, ReleaseInitHolds, KeepInitHolds
<1>2. IInv /\ [AppNext]_appVars => IInv'
  <2>1. ASSUME IInv, [AppNext]_appVars PROVE IInv'
    BY <2>1, RepoNextHolds, ReleaseNextHolds, KeepNextHolds
  <2> QED BY <2>1
<1>3. IInv => ReleasesSound
  BY RepoInvMatches, ReleaseInvTells, KeepInvKeeps DEF ReleasesSound
<1> QED BY <1>1, <1>2, <1>3, PTL DEF AppSpec
============================================================================
