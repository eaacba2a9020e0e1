------------------------------- MODULE KeyPairs -------------------------------
(***************************************************************************)
(* The certificates of a cluster: four key-pair rows, each tied to the     *)
(* cluster by a joint row, made one after the other by the create task and *)
(* removed one after the other by the delete task, both under the lock of  *)
(* the cluster, while machine prepare tasks read them, and callers of      *)
(* GetKubeconfig sign with the first of them, without it                   *)
(* (pkg/models/x509_keypair.go, clusterx509keypairs.go, clusters.go and    *)
(* pkg/utils/certificates).  Keys are numbers.                             *)
(***************************************************************************)
EXTENDS Naturals, Sequences, FiniteSets

CONSTANTS MaxKeyFaults

VARIABLES kps,      \* key-pair rows: [id, user, cert, key]
          ties,     \* joint rows: [kp, user]
          cluster,  \* "creating", "ready", "failed", "deleting", "gone"
          at,       \* position in the work of the task that holds the lock
          kpTodo,   \* key pairs the deletion listed
          reader,   \* a prepare task: [next, got] while it reads the group
          lost,     \* ghost: rows no joint row leads to, after a failure
          conf,     \* the kubeconfig stored in the cluster's row
          signed,   \* kubeconfigs callers of GetKubeconfig made and did not store yet
          keyFaults

Users == <<"ca", "etcd", "proxy", "sa">>
NoReader == [next |-> 0, got |-> {}]
NoConf == [ca |-> <<>>, cert |-> <<>>, key |-> 0]
CallerKeys == {11, 12}
-----------------------------------------------------------------------------
(* Certificates.  An encoded block has a type; one that holds a certificate *)
(* says whose public key it binds, who signed it and what it is good for.   *)

Pem(type, pub, signer, ca, usages) ==
  [type |-> type, pub |-> pub, signer |-> signer, ca |-> ca, usages |-> usages]

NewSelfSignedCACert(key) == Pem("CERTIFICATE", key, key, TRUE, {})

\* Both are called without a pair, so they always generate one.
GetOrGenerateCACert(key) == [cert |-> NewSelfSignedCACert(key), key |-> key]
GetOrGenerateServiceAccountKeys(key) == [cert |-> Pem("PUBLIC KEY", key, 0, FALSE, {}), key |-> key]

\* A block of another type does not parse as a certificate.
DecodeCertPEM(block) ==
  IF block.type = "CERTIFICATE" THEN [err |-> FALSE, cert |-> block] ELSE [err |-> TRUE, cert |-> <<>>]

\* The hash of the public key, which nodes that join compare with.
GenerateCertificateHash(block) ==
  LET d == DecodeCertPEM(block)
  IN IF d.err THEN [err |-> TRUE, hash |-> 0] ELSE [err |-> FALSE, hash |-> d.cert.pub]

\* A request without a name, a usage or a duration is refused.
NewSignedCert(cfg, key, caKey) ==
  IF cfg.name = "" \/ cfg.usages = {} \/ cfg.years = 0 THEN [err |-> TRUE, cert |-> <<>>]
  ELSE [err |-> FALSE, cert |-> Pem("CERTIFICATE", key, caKey, FALSE, cfg.usages)]

NewKubeconfigV2(cfg, key, caCert, caKey) ==
  LET s == NewSignedCert(cfg, key, caKey)
  IN IF s.err THEN NoConf ELSE [ca |-> caCert, cert |-> s.cert, key |-> key]

NewKubeconfig(key, caCert, caKey) ==
  NewKubeconfigV2([name |-> "kubernetes-admin", usages |-> {"client"}, years |-> 100], key, caCert, caKey)

\* ValidateCreateData: the service account's block is a bare public key.
ValidPair(user, kp) == user # "sa" => ~DecodeCertPEM(kp.cert).err
-----------------------------------------------------------------------------

KpInit ==
  /\ kps = {} /\ ties = {} /\ cluster = "creating" /\ at = [user |-> 1, made |-> FALSE]
  /\ kpTodo = {} /\ reader = NoReader /\ lost = {} /\ keyFaults = 0
  /\ conf = NoConf /\ signed = {}

Fault == keyFaults < MaxKeyFaults /\ keyFaults' = keyFaults + 1 /\ UNCHANGED <<conf, signed>>
Step == UNCHANGED <<keyFaults, conf, signed>>
NoWork == [user |-> 0, made |-> FALSE]

\* createKeyPair: the row, then the joint row.  The first failure ends
\* GenerateCertificates, and with it the create task, as failed.
CreateRow ==
  /\ cluster = "creating" /\ ~at.made
  /\ LET u == Users[at.user]
         kp == IF u = "sa" THEN GetOrGenerateServiceAccountKeys(at.user) ELSE GetOrGenerateCACert(at.user)
     IN /\ ValidPair(u, kp)
        /\ kps' = kps \cup {[id |-> at.user, user |-> u, cert |-> kp.cert, key |-> kp.key]}
  /\ at' = [at EXCEPT !.made = TRUE]
  /\ Step /\ UNCHANGED <<ties, cluster, kpTodo, reader, lost>>

AttachKeypair ==
  /\ cluster = "creating" /\ at.made
  /\ ties' = ties \cup {[kp |-> at.user, user |-> Users[at.user]]}
  /\ IF at.user = Len(Users) THEN cluster' = "ready" /\ at' = NoWork
     ELSE cluster' = cluster /\ at' = [user |-> at.user + 1, made |-> FALSE]
  /\ Step /\ UNCHANGED <<kps, kpTodo, reader, lost>>

GenerateFails ==
  /\ cluster = "creating" /\ Fault
  /\ cluster' = "failed" /\ at' = NoWork
  /\ lost' = IF at.made THEN lost \cup {at.user} ELSE lost
  /\ UNCHANGED <<kps, ties, kpTodo, reader>>

\* DeleteKeyPairsByCluster lists the rows the joint rows lead to; a failure
\* leaves the cluster for another attempt.
DeleteStart ==
  /\ cluster \in {"ready", "failed"}
  /\ cluster' = "deleting" /\ kpTodo' = {k \in kps : \E t \in ties : t.kp = k.id}
  /\ at' = NoWork /\ Step /\ UNCHANGED <<kps, ties, reader, lost>>

Detach ==
  /\ cluster = "deleting" /\ kpTodo # {} /\ at = NoWork
  /\ \E k \in kpTodo :
       /\ ties' = {t \in ties : t.kp # k.id}
       /\ at' = [user |-> k.id, made |-> TRUE]
  /\ Step /\ UNCHANGED <<kps, cluster, kpTodo, reader, lost>>

DeleteRow ==
  /\ cluster = "deleting" /\ at # NoWork
  /\ kps' = {k \in kps : k.id # at.user} /\ kpTodo' = {k \in kpTodo : k.id # at.user}
  /\ at' = NoWork /\ Step /\ UNCHANGED <<ties, cluster, reader, lost>>

DeleteFails ==
  /\ cluster = "deleting" /\ Fault
  /\ cluster' = "failed" /\ kpTodo' = {} /\ at' = NoWork
  /\ lost' = IF at = NoWork THEN lost ELSE lost \cup {at.user}
  /\ UNCHANGED <<kps, ties, reader>>

RealDelete ==
  /\ cluster = "deleting" /\ kpTodo = {}
  /\ cluster' = "gone" /\ Step /\ UNCHANGED <<kps, ties, at, kpTodo, reader, lost>>

\* GetCertificatesGroup reads one pair after the other; a missing joint row
\* or key-pair row is an error.
Read ==
  /\ cluster # "creating" /\ reader.next < Len(Users)
  /\ LET u == Users[reader.next + 1]
         found == {k \in kps : \E t \in ties : t.user = u /\ t.kp = k.id}
     IN reader' = IF found = {} THEN [next |-> 5, got |-> {}]
                  ELSE [next |-> reader.next + 1, got |-> reader.got \cup found]
  /\ Step /\ UNCHANGED <<kps, ties, cluster, at, kpTodo, lost>>

ReadAgain ==
  /\ reader.next >= Len(Users) /\ reader' = NoReader
  /\ Step /\ UNCHANGED <<kps, ties, cluster, at, kpTodo, lost>>

\* GetKubeconfig: the stored one, or a new one signed with the key of the CA
\* pair, stored in a step of its own.
GetKubeconfigByCerts(k) ==
  /\ cluster # "gone" /\ conf = NoConf /\ \A c \in signed : c.key # k
  /\ \E p \in kps :
       /\ p.user = "ca" /\ (\E t \in ties : t.user = "ca" /\ t.kp = p.id) /\ ~DecodeCertPEM(p.cert).err
       /\ signed' = signed \cup {NewKubeconfig(k, p.cert, p.key)}
  /\ UNCHANGED <<kps, ties, cluster, at, kpTodo, reader, lost, conf, keyFaults>>

SetKubeconfig ==
  /\ cluster # "gone"
  /\ \E c \in signed : conf' = c /\ signed' = signed \ {c}
  /\ UNCHANGED <<kps, ties, cluster, at, kpTodo, reader, lost, keyFaults>>

KpNext == CreateRow \/ AttachKeypair \/ GenerateFails \/ DeleteStart \/ Detach \/ DeleteRow
          \/ DeleteFails \/ RealDelete \/ Read \/ ReadAgain
          \/ (\E k \in CallerKeys : GetKubeconfigByCerts(k)) \/ SetKubeconfig
keyAll == <<kps, ties, cluster, at, kpTodo, reader, lost, conf, signed, keyFaults>>
-----------------------------------------------------------------------------
\* A prepare task gets the four pairs, one of each user, or an error: never
\* an incomplete or doubled group, also while a deletion removes them.
GroupComplete ==
  /\ reader.next = Len(Users) => {k.user : k \in reader.got} = {Users[i] : i \in 1..4} /\ Cardinality(reader.got) = 4
  /\ cluster = "ready" => \A i \in 1..4 : Cardinality({t \in ties : t.user = Users[i]}) = 1

\* A cluster that is gone left no joint row; a key-pair row it left behind is
\* one whose attaching or whose removal after the detaching failed, which no
\* later deletion can find.
KeysDrained ==
  cluster = "gone" => ties = {} /\ {k.id : k \in kps} \subseteq lost

\* Whichever of the overlapping callers stored it last, the administrator's
\* certificate is for the key beside it, and is signed by the authority the
\* kubeconfig trusts, the one whose hash the machines that join are given.
KubeconfigTrusted ==
  conf # NoConf =>
    /\ conf.cert.pub = conf.key /\ conf.cert.signer = conf.ca.pub
    /\ conf.ca.ca /\ ~conf.cert.ca /\ "client" \in conf.cert.usages
    /\ \A k \in reader.got : k.user = "ca" =>
         GenerateCertificateHash(k.cert) = [err |-> FALSE, hash |-> conf.ca.pub]

KeyPairsSound == GroupComplete /\ KeysDrained /\ KubeconfigTrusted
=============================================================================
