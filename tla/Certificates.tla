---------------------------- MODULE Certificates ----------------------------
(***************************************************************************)
(* The certificates of a cluster through "rke up": generated once, backed  *)
(* up on the first etcd host before anything else is deployed, copied to   *)
(* every host by a container called cert-deployer, written to the          *)
(* cluster's secrets at the end, and on the next run fetched from there or *)
(* recovered from the backup (cluster/certificates.go, cluster/state.go,   *)
(* pki/).                                                                  *)
(*                                                                         *)
(* Of a certificate the model keeps the CA that signed it (a number        *)
(* counting the CAs made so far), the run in which it was signed, the key  *)
(* it was signed for and the key that lies next to it, each a run number   *)
(* too: a certificate signed anew is told from the one it replaces, and a  *)
(* key from that of another certificate of the same name.  "client" stands *)
(* for the certificates of the node, the admin, the controller manager,    *)
(* the scheduler and the proxy, which are made with the CA and never       *)
(* again.  Whom a certificate names is a matter of ClusterUp.              *)
(*                                                                         *)
(* The goroutines that write secrets and state retry for ever; the call    *)
(* that started them gives up after a timeout.  They die with the rke      *)
(* command, but live on when ClusterUp is called by a program that goes    *)
(* on (it is exported, with dialer factories as parameters).               *)
(***************************************************************************)
EXTENDS Integers, Sequences

CONSTANTS
    Hosts,
    HostOrder,   \* the order of cluster.yml
    Control,     \* the control plane hosts
    Configs,     \* configurations: sets of etcd hosts
    MaxRuns,     \* bound on the number of runs, and so of CAs
    MaxFaults    \* bound on errors, crashes, reboots and API restarts

ASSUME CertificatesAssumption ==
    /\ HostOrder \in Seq(Hosts)
    /\ \A h \in Hosts : \E i \in DOMAIN HostOrder : HostOrder[i] = h
    /\ Configs \subseteq (SUBSET Hosts) \ {{}}
    /\ Control \subseteq Hosts /\ Control # {}
    /\ Hosts \cap {"ca", "api", "client", "state"} = {}
    /\ MaxRuns \in Nat /\ MaxFaults \in Nat

\* An etcd host's address names its certificate (GetEtcdCrtName).
Names == {"ca", "api", "client"} \cup Hosts

\* crt is 0 without the certificate file, key without the key file.
None == [crt |-> 0, at |-> 0, pub |-> 0, key |-> 0]

\* GenerateSignedCertAndKey in a run, with a reused key or one of the run.
SignedBy(ca, run, key) == [crt |-> ca, at |-> run, pub |-> key, key |-> key]

NoCerts == [n \in Names |-> None]

FirstOf(c) ==
    HostOrder[CHOOSE i \in DOMAIN HostOrder :
        /\ HostOrder[i] \in c
        /\ \A j \in 1..(i - 1) : HostOrder[j] \notin c]

NoDeployer == [st |-> "absent", env |-> NoCerts, dest |-> "ssl"]

\* A certificate of a CA, with its own key.
Signed(x, ca) == x # None /\ x.crt = ca /\ x.pub = x.key

\* What the kubeconfig on rke's machine is good for.
NoFile == 0
Unusable == -1

VARIABLES
    \* the hosts
    tmp,        \* tmp[h]: certificates in the backup directory
    ssl,        \* ssl[h]: certificates in /etc/kubernetes/ssl
    deployer,   \* deployer[h]: the cert-deployer container
    apiCA,      \* CA the API servers have loaded, 0 while there are none
    apiEtcd,    \* etcd hosts in their command line (--etcd-servers)
    \* the cluster
    secrets,    \* certificates saved as secrets
    state,      \* configuration saved in the config map
    \* rke
    kube,       \* CA of the local kubeconfig, NoFile or Unusable
    pc, certs,
    conf, cur,  \* configured and fetched etcd hosts, {} where there is none
    group,      \* hosts whose doRunDeployer has not looked for a left-over
    waiting,    \* hosts whose doRunDeployer waits for its container
    writers,    \* goroutines that have yet to write: what, and with which CA
    leaked,     \* the same, of runs that have returned
    late,       \* secrets, or "state", that such a goroutine wrote over last
    result,
    \* the environment
    embedded,   \* ClusterUp is called by a program that goes on
    made,       \* CAs made so far
    runs, faults,
    torn,       \* a deployer was killed, or read past while it was writing
    reissued    \* a run took up another CA than the one being saved, or put
                \* the backup of a new CA next to files of an older one

hostVars == <<tmp, ssl, deployer, apiCA, apiEtcd>>
savedVars == <<secrets, state, late>>
procVars == <<kube, conf, cur, certs, group, waiting, writers>>
envVars == <<leaked, embedded, made, runs, torn, reissued>>
vars == <<hostVars, savedVars, procVars, envVars, pc, result, faults>>

Init ==
    /\ tmp = [h \in Hosts |-> NoCerts] /\ ssl = [h \in Hosts |-> NoCerts]
    /\ deployer = [h \in Hosts |-> NoDeployer]
    /\ apiCA = 0 /\ apiEtcd = {}
    /\ secrets = NoCerts /\ state = {}
    /\ kube = NoFile
    /\ pc = "idle" /\ conf = {} /\ cur = {} /\ certs = NoCerts
    /\ group = {} /\ waiting = {} /\ writers = {}
    /\ leaked = {} /\ late = {}
    /\ result = "none"
    /\ embedded \in BOOLEAN
    /\ made = 0 /\ runs = 0 /\ faults = 0
    /\ torn = FALSE /\ reissued = FALSE

-----------------------------------------------------------------------------
(* Control flow.                                                            *)

Fault == faults < MaxFaults /\ faults' = faults + 1

Goto(stage) == pc' = stage /\ UNCHANGED <<result, faults>>

\* ClusterUp returns.  Goroutines that still retry die with the process, or
\* stay behind.
Return(how) ==
    /\ pc' = "idle" /\ result' = how
    /\ cur' = {} /\ certs' = NoCerts
    /\ group' = {} /\ waiting' = {} /\ writers' = {}
    /\ leaked' = IF embedded THEN leaked \cup writers ELSE {}

Fail ==
    /\ Return("err")
    /\ conf' = {}
    /\ UNCHANGED <<kube, embedded, made, runs, reissued>>

\* A call fails, or rke dies, between any two steps.
Abort ==
    /\ pc # "idle"
    /\ Fault /\ Fail
    /\ UNCHANGED <<hostVars, savedVars, torn>>

StartUp(c) ==
    /\ pc = "idle" /\ runs < MaxRuns
    /\ pc' = "state" /\ result' = "none"
    /\ runs' = runs + 1
    /\ conf' = c
    /\ UNCHANGED <<hostVars, savedVars, kube, cur, certs, group, waiting,
                   writers, leaked, embedded, made, faults, torn, reissued>>

-----------------------------------------------------------------------------
(* GetClusterState.                                                         *)

\* The API server takes a client, and the client the API server, of its CA.
Answers(ca) == apiCA # 0 /\ ca = apiCA

\* getClusterCerts asks for these secrets, by the etcd hosts of the fetched
\* state.
CertNames(etcdHosts) == {"ca", "api", "client"} \cup etcdHosts

\* Mutant of RegenerateAPICertificate: the key is not reused for signing.
RegenerateAPICertificateNewKey(crts) ==
    [crts EXCEPT !["api"] =
        [SignedBy(crts["ca"].crt, runs, runs) EXCEPT !.key = crts["api"].key]]

\* regenerateAPICertificate: signed anew by the CA, with the old key.
RegenerateAPICertificate(crts) ==
    [crts EXCEPT !["api"] = SignedBy(crts["ca"].crt, runs, crts["api"].key)]

\* Nothing to ask, no answer in time or no config map: the cluster is new.
NoState ==
    /\ pc = "state"
    /\ \/ kube = NoFile /\ UNCHANGED faults
       \/ kube # NoFile /\ ~(Answers(kube) /\ state # {}) /\ UNCHANGED faults
       \/ kube # NoFile /\ Answers(kube) /\ state # {} /\ Fault
    /\ pc' = "auth"
    /\ UNCHANGED <<hostVars, savedVars, procVars, envVars, result>>

GetClusterState ==
    /\ pc = "state"
    /\ Answers(kube) /\ state # {}
    /\ \/ /\ \A n \in CertNames(state) : secrets[n] # None
          /\ cur' = state
          /\ certs' = RegenerateAPICertificate(
                [n \in Names |-> IF n \in CertNames(state) THEN secrets[n]
                                 ELSE None])
          /\ Goto("reconcile")
          /\ UNCHANGED <<kube, conf, group, waiting, writers, envVars>>
       \/ /\ \E n \in CertNames(state) : secrets[n] = None
          /\ Fail
          /\ UNCHANGED <<faults, torn>>
    /\ UNCHANGED <<hostVars, savedVars>>

-----------------------------------------------------------------------------
(* SetUpAuthentication without a state.                                     *)

\* What reading the backup file by file may find while a deployer writes it.
Readable(h) ==
    LET d == deployer[h] IN
    [n \in Names |->
        IF d.st = "running" /\ d.dest = "tmp" /\ d.env[n] # None
        THEN {tmp[h][n], d.env[n]} ELSE {tmp[h][n]}]

Overwritten(h) == \E n \in Names : Readable(h)[n] # {tmp[h][n]}

\* What is saved, or may still be by a goroutine left behind; by another CA.
Saved ==
    {secrets[n] : n \in {m \in Names : secrets[m] # None}}
    \cup {w.val : w \in {x \in leaked : x.obj # "state"}}
Clash(ca) == \E x \in Saved : x.crt # ca

\* FetchCertificatesFromHost reads the certificates in the order of a map and
\* gives up at the first gap: there is no backup if it is a certificate, an
\* error if it is a key.
FetchCertificatesFromHost(found) ==
    LET noCrt == \E n \in CertNames(conf) : found[n].crt = 0
        noKey == \E n \in CertNames(conf) : found[n].crt # 0 /\ found[n].key = 0
    IN  {out \in {"none", "err", "ok"} :
            CASE out = "none" -> noCrt
              [] out = "err"  -> noKey
              [] out = "ok"   -> ~noCrt /\ ~noKey}

RecoverBackup ==
    /\ pc = "auth"
    /\ LET first == FirstOf(conf) IN
       \E found \in [Names -> UNION {Readable(first)[n] : n \in Names}] :
          /\ \A n \in Names : found[n] \in Readable(first)[n]
          /\ torn' = (torn \/ Overwritten(first))
          /\ \/ /\ "ok" \in FetchCertificatesFromHost(found)
                /\ certs' = [n \in Names |-> IF n \in CertNames(conf)
                                             THEN found[n] ELSE None]
                /\ reissued' = (reissued \/ Clash(found["ca"].crt))
                /\ group' = Hosts
                /\ Goto("hosts")
                /\ UNCHANGED <<kube, conf, cur, waiting, writers, leaked,
                               embedded, made, runs>>
             \/ /\ "none" \in FetchCertificatesFromHost(found)
                /\ Goto("generate")
                /\ UNCHANGED <<kube, conf, cur, certs, group, waiting, writers,
                               leaked, embedded, made, runs, reissued>>
             \/ /\ "err" \in FetchCertificatesFromHost(found)
                /\ Fail
                /\ UNCHANGED faults
    /\ UNCHANGED <<hostVars, savedVars>>

\* StartCertificatesGeneration: a new CA and everything signed by it; the
\* backup is the next thing rke does.
GenerateCerts ==
    /\ pc = "generate"
    /\ made' = made + 1
    /\ certs' = [n \in Names |-> IF n \in CertNames(conf) 
                                 THEN SignedBy(made', runs, runs) ELSE None]
    /\ LET first == FirstOf(conf) IN
       /\ group' = {first}
       /\ reissued' = \/ reissued \/ Clash(made')
                      \/ \E n \in Names \ CertNames(conf) : tmp[first][n] # None
    /\ Goto("backup")
    /\ UNCHANGED <<hostVars, savedVars, kube, conf, cur, waiting, writers,
                   leaked, embedded, runs, torn>>

-----------------------------------------------------------------------------
(* reconcileEtcd: certificates of new etcd hosts.                           *)

\* RegenerateEtcdCertificate: with a new key.
RegenerateEtcdCertificate(crts, h) ==
    [crts EXCEPT ![h] = SignedBy(crts["ca"].crt, runs, runs)]

\* One certificate per new host, all before the first is deployed.  The map
\* is the one the configured cluster holds too.
ReconcileEtcdCerts ==
    /\ pc = "reconcile"
    /\ certs' = [n \in Names |->
                    IF n \in conf \ cur THEN RegenerateEtcdCertificate(certs, n)[n]
                    ELSE certs[n]]
    /\ group' = conf \ cur
    /\ Goto("members")
    /\ UNCHANGED <<hostVars, savedVars, kube, conf, cur, waiting, writers,
                   envVars>>

-----------------------------------------------------------------------------
(* doRunDeployer.                                                           *)

\* The names a call passes and where they go: everything to the backup
\* (DeployCertificatesOnHost to TempCertPath) and to a new etcd member, what
\* its roles need to a host of the cluster (DeployCertificatesOnPlaneHost).
PlaneNames(h) ==
    {"ca", "client"} \cup (IF h \in Control THEN {"api"} ELSE {})
    \cup (IF h \in conf THEN conf ELSE {})

DeployNames(h) == IF pc = "hosts" THEN PlaneNames(h) ELSE CertNames(conf)

EnvFor(h) == [n \in Names |-> IF n \in DeployNames(h) THEN certs[n] ELSE None]

\* Mutant of StartDeployer: a left-over container is started once more.
StartDeployerReuse(h) ==
    /\ h \in group
    /\ IF deployer[h].st = "absent"
       THEN deployer' = [deployer EXCEPT ![h] =
                [st |-> "running", env |-> EnvFor(h),
                 dest |-> IF pc = "backup" THEN "tmp" ELSE "ssl"]]
       ELSE deployer' = [deployer EXCEPT ![h].st = "running"]
    /\ group' = group \ {h}
    /\ waiting' = waiting \cup {h}
    /\ UNCHANGED <<tmp, ssl, apiCA, apiEtcd, savedVars, kube, conf, cur, certs, writers,
                   envVars, pc, result, faults>>

\* A left-over container is removed, which fails while it runs; then a new one
\* is created and started.  New members are served one after the other.
StartDeployer(h) ==
    /\ h \in group
    /\ pc = "members" => waiting = {}
    /\ \/ /\ deployer[h].st # "running"
          /\ deployer' = [deployer EXCEPT ![h] =
                [st |-> "running", env |-> EnvFor(h),
                 dest |-> IF pc = "backup" THEN "tmp" ELSE "ssl"]]
          /\ group' = group \ {h}
          /\ waiting' = waiting \cup {h}
          /\ UNCHANGED <<kube, conf, cur, certs, writers, envVars, pc, result>>
       \/ /\ deployer[h].st = "running"
          /\ Fail
          /\ UNCHANGED <<deployer, torn>>
    /\ UNCHANGED <<tmp, ssl, apiCA, apiEtcd, savedVars, faults>>

\* The container has stopped, however: it is removed and the call returns.
DeployerDone(h) ==
    /\ h \in waiting
    /\ deployer[h].st = "exited"
    /\ deployer' = [deployer EXCEPT ![h] = NoDeployer]
    /\ waiting' = waiting \ {h}
    /\ UNCHANGED <<tmp, ssl, apiCA, apiEtcd, savedVars, kube, conf, cur, certs, group,
                   writers, envVars, pc, result, faults>>

Written(old, env, names) ==
    [n \in Names |-> IF n \in names THEN env[n] ELSE old[n]]

\* The certificate without the key.
HalfWritten(old, env, n) == [old EXCEPT ![n] = [env[n] EXCEPT !.key = old[n].key]]

Into(h, new) ==
    IF deployer[h].dest = "tmp"
    THEN tmp' = [tmp EXCEPT ![h] = new] /\ UNCHANGED ssl
    ELSE ssl' = [ssl EXCEPT ![h] = new] /\ UNCHANGED tmp

Target(h) == IF deployer[h].dest = "tmp" THEN tmp[h] ELSE ssl[h]
Payload(h) == {n \in Names : deployer[h].env[n] # None}

\* External: the container writes the files it was given and exits,
DeployerExits(h) ==
    /\ deployer[h].st = "running"
    /\ deployer' = [deployer EXCEPT ![h].st = "exited"]
    /\ Into(h, Written(Target(h), deployer[h].env, Payload(h)))
    /\ UNCHANGED <<apiCA, apiEtcd, savedVars, procVars, envVars, pc, result, faults>>

\* in the order of its environment, which is that of the name lists,
EnvOrder == <<"ca", "api", "client">> \o HostOrder

\* or is killed before file k of it, perhaps after the certificate and before
\* the key.
DeployerKilled(h) ==
    /\ deployer[h].st = "running"
    /\ Fault
    /\ deployer' = [deployer EXCEPT ![h].st = "exited"]
    /\ \E k \in DOMAIN EnvOrder :
          LET names == {EnvOrder[i] : i \in 1..(k - 1)} \cap Payload(h)
              new   == Written(Target(h), deployer[h].env, names)
          IN  /\ EnvOrder[k] \in Payload(h)
              /\ \/ Into(h, new)
                 \/ Into(h, HalfWritten(new, deployer[h].env, EnvOrder[k]))
    /\ torn' = TRUE
    /\ UNCHANGED <<apiCA, apiEtcd, savedVars, procVars, leaked, embedded, made, runs,
                   reissued, pc, result>>

-----------------------------------------------------------------------------
(* After the backup, SetUpHosts, DeployControlPlane and SaveClusterState.   *)

Deployed == group = {} /\ waiting = {}

BackedUp ==
    /\ pc \in {"backup", "members"} /\ Deployed
    /\ group' = Hosts
    /\ Goto("hosts")
    /\ UNCHANGED <<hostVars, savedVars, kube, conf, cur, certs, waiting, writers,
                   envVars>>

\* The errgroup of SetUpHosts is done: the admin's kubeconfig goes to disk.
DeployAdminConfig ==
    /\ pc = "hosts" /\ Deployed
    /\ kube' = IF Signed(certs["client"], certs["ca"].crt)
               THEN certs["ca"].crt ELSE Unusable
    /\ Goto("control")
    /\ UNCHANGED <<hostVars, savedVars, conf, cur, certs, group, waiting,
                   writers, envVars>>

WritersFor(objs) == {[obj |-> n, val |-> certs[n], ca |-> kube] : n \in objs}
StateWriter == [obj |-> "state", etcd |-> conf, ca |-> kube]

\* API servers that do not run, or run with other etcd hosts in their command
\* line, are started anew and load the CA on their host; then SaveClusterState starts a goroutine per certificate.
DeployControlPlane ==
    /\ pc = "control"
    /\ apiCA' = IF apiCA # 0 /\ apiEtcd = conf THEN apiCA
                ELSE ssl[CHOOSE h \in Control : TRUE]["ca"].crt
    /\ apiEtcd' = conf
    /\ writers' = WritersFor({n \in Names : certs[n] # None})
    /\ Goto("save_certs")
    /\ UNCHANGED <<tmp, ssl, deployer, savedVars, kube, conf, cur, certs, group,
                   waiting, envVars>>

\* UpdateSecret or UpdateConfigMap of a retrying goroutine goes through.
Write(w) ==
    /\ Answers(w.ca)
    /\ IF w.obj = "state"
       THEN state' = w.etcd /\ UNCHANGED secrets
       ELSE secrets' = [secrets EXCEPT ![w.obj] = w.val] /\ UNCHANGED state

WriterSucceeds(w) ==
    /\ w \in writers
    /\ Write(w)
    /\ writers' = writers \ {w}
    /\ late' = late \ {w.obj}
    /\ UNCHANGED <<hostVars, kube, conf, cur, certs, group, waiting, envVars, pc,
                   result, faults>>

LeakedWriterSucceeds(w) ==
    /\ w \in leaked
    /\ Write(w)
    /\ leaked' = leaked \ {w}
    /\ late' = IF UNCHANGED <<secrets, state>> THEN late ELSE late \cup {w.obj}
    /\ UNCHANGED <<hostVars, procVars, embedded, made, runs, torn, reissued, pc,
                   result, faults>>

\* Mutant of SaveClusterCerts: does not wait for the errgroup.
SaveClusterCertsNoWait ==
    /\ pc = "save_certs"
    /\ writers' = writers \cup {StateWriter}
    /\ Goto("save_state")
    /\ UNCHANGED <<hostVars, savedVars, kube, conf, cur, certs, group, waiting,
                   envVars>>

\* saveClusterCerts returns nil: saveStateToKubernetes begins.
SaveClusterCerts ==
    /\ pc = "save_certs" /\ writers = {}
    /\ writers' = {StateWriter}
    /\ Goto("save_state")
    /\ UNCHANGED <<hostVars, savedVars, kube, conf, cur, certs, group, waiting,
                   envVars>>

SaveState ==
    /\ pc = "save_state" /\ writers = {}
    /\ Return("up")
    /\ UNCHANGED <<hostVars, savedVars, kube, conf, embedded, made, runs, torn,
                   reissued, faults>>

\* time.After: some goroutine has not written.  Without a fault only because
\* the API server does not answer.
SaveTimeout ==
    /\ pc \in {"save_certs", "save_state"} /\ writers # {}
    /\ \/ Answers(kube) /\ Fault
       \/ ~Answers(kube) /\ UNCHANGED faults
    /\ Fail
    /\ UNCHANGED <<hostVars, savedVars, torn>>

\* External: the API servers' hosts reboot and they load what is on disk.
ApiRestarts ==
    /\ apiCA # 0 /\ Fault
    /\ apiCA' = ssl[CHOOSE h \in Control : TRUE]["ca"].crt
    /\ UNCHANGED <<tmp, ssl, deployer, apiEtcd, savedVars, procVars, envVars, pc,
                   result>>

-----------------------------------------------------------------------------
RkeStep ==
    \/ NoState \/ GetClusterState \/ RecoverBackup \/ GenerateCerts
    \/ ReconcileEtcdCerts
    \/ \E h \in Hosts : StartDeployer(h) \/ DeployerDone(h)
    \/ BackedUp \/ DeployAdminConfig \/ DeployControlPlane
    \/ \E w \in writers : WriterSucceeds(w)
    \/ SaveClusterCerts \/ SaveState \/ SaveTimeout

Next ==
    \/ \E c \in Configs : StartUp(c)
    \/ RkeStep \/ Abort
    \/ \E w \in leaked : LeakedWriterSucceeds(w)
    \/ \E h \in Hosts : DeployerExits(h) \/ DeployerKilled(h)
    \/ ApiRestarts

CertSpec == Init /\ [][Next]_vars

-----------------------------------------------------------------------------
\* A saved state never promises a certificate that is not saved: otherwise no
\* later run could read the state, and every "rke up" would fail.
SecretsCoverState ==
    \A n \in CertNames(state) : state # {} => secrets[n] # None

Consistent(crts, names) ==
    \A n \in names : Signed(crts[n], crts["ca"].crt)

\* What a run is about to deploy is complete for the configured etcd hosts and
\* of one CA, key by key, after any crashes and late writes of earlier runs.
\* Excused are a killed or raced deployer, and a run that went on with another
\* CA than the saved one or mixed two in the backup, which is never emptied.
OneCA ==
    (pc \in {"backup", "members", "hosts", "control"} /\ ~torn /\ ~reissued)
    => Consistent(certs, CertNames(conf))

\* After a successful run every host has the certificates that are saved in
\* the cluster, those renewed by this very run included, and the saved state is
\* the run's configuration.  A goroutine of an earlier run of an embedding
\* program may have put an older certificate or state in place (late), but
\* only one of the same CA, with its own key.
DeployedIsSaved ==
    (result = "up" /\ ~torn /\ ~reissued) =>
        /\ \A h \in Hosts : \A n \in PlaneNames(h) :
              /\ n \notin late => ssl[h][n] = secrets[n]
              /\ Signed(secrets[n], ssl[h]["ca"].crt)
        /\ "state" \notin late => state = conf
=============================================================================
