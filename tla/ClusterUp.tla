------------------------------ MODULE ClusterUp ------------------------------
(***************************************************************************)
(* "rke up" and "rke remove" over a set of hosts: ClusterUp and            *)
(* ClusterRemove of cmd/, the reconciler (cluster/reconcile.go), the       *)
(* planes (services/*plane.go, services/etcd.go) and the saved state       *)
(* (cluster/state.go).                                                     *)
(*                                                                         *)
(* rke keeps no state of its own between two runs: what it knows of the    *)
(* previous run is the configuration it stored in the cluster, reached     *)
(* through the local kubeconfig.  A run compares that configuration with   *)
(* cluster.yml, takes services down host by host, deploys, and stores the  *)
(* new configuration half way through.                                     *)
(*                                                                         *)
(* Sequential code over the services of one host is one step that may stop *)
(* after any prefix of them; errgroups are sets of such steps in any order.*)
(* The life of a single container is the subject of DockerContainer; here  *)
(* a service is on a host or not.  Of the certificates the model keeps     *)
(* which configuration they were generated for.  Port checks, image pulls, *)
(* RBAC, network and add-on manifests only succeed or fail.  Docker, SSH,  *)
(* etcd and the kubelet are external.                                      *)
(***************************************************************************)
EXTENDS Naturals, Sequences, FiniteSets

CONSTANTS
    Hosts,      \* the machines
    HostOrder,  \* HostOrder[h]: the position of h in cluster.yml
    Configs,    \* the configurations the operator may ask for
    MaxRuns,    \* bound on the number of rke invocations
    MaxFaults   \* bound on the number of errors and crashes

Roles == {"etcd", "controlplane", "worker"}
Services == {"etcd", "api", "controller", "scheduler",
             "kubelet", "kubeproxy", "nginx", "sidekick"}
Dirs == {"etcd", "ssl", "cni"}

NoHost == "nohost"
NoConfig == [h \in Hosts |-> {}]

\* The hosts of a role (InvertIndexHosts).
Plane(c, role) == {h \in Hosts : role \in c[h]}
ControlHosts(c) == Plane(c, "controlplane")
EtcdHosts(c) == Plane(c, "etcd")
HostsOf(c) == {h \in Hosts : c[h] # {}}

\* A list of hosts is the set of its members: every list is in the order of
\* cluster.yml, so that its first and its last member are determined.
FirstHost(S) == CHOOSE h \in S : \A g \in S : HostOrder[h] <= HostOrder[g]
LastHost(S) == CHOOSE h \in S : \A g \in S : HostOrder[g] <= HostOrder[h]

\* ValidateCluster: at least one control plane and one etcd host.
ValidateCluster(c) ==
    /\ \E h \in Hosts : "controlplane" \in c[h]
    /\ \E h \in Hosts : "etcd" \in c[h]

ASSUME ConfigsAssumption ==
    /\ Configs \subseteq [Hosts -> SUBSET Roles]
    /\ \A c \in Configs : ValidateCluster(c)
    /\ IsFiniteSet(Hosts)
    /\ HostOrder \in [Hosts -> 1..Cardinality(Hosts)]
    /\ \A g, h \in Hosts : HostOrder[g] = HostOrder[h] => g = h
    /\ NoHost \notin Hosts
    /\ MaxRuns \in Nat /\ MaxFaults \in Nat

VARIABLES
    \* the hosts
    ctr,        \* ctr[h]: services deployed on h
    files,      \* files[h]: directories RKE's services left on h
    backup,     \* backup[h]: configuration the certificates backed up on h
                \* were generated for, or NoConfig
    trusted,    \* hosts whose API server's certificate names them
    proxyTo,    \* proxyTo[h]: CP_HOSTS of the nginx-proxy last run on h
    proxied,    \* hosts whose port 6443 is nginx-proxy's
    \* the cluster's own state, kept in etcd
    members,    \* etcd members
    nodes,      \* hosts with a Node object
    joined,     \* hosts whose running kubelet has registered its Node
    saved,      \* configuration in the cluster-state config map, or NoConfig
    \* the machine rke runs on
    kubeconf,   \* address in the local kubeconfig, NoHost if there is no file
    \* the rke process
    pc,         \* stage it is in
    todo,       \* hosts left in the current loop
    group,      \* hosts left in the current errgroup
    failed,     \* an errgroup member returned an error
    conf,       \* roles in cluster.yml (kubeCluster)
    cur,        \* roles in the fetched state (currentCluster), or NoConfig
    admin,      \* address in the kubeconfig SetUpHosts will write
    sans,       \* hosts named in the API certificate SetUpHosts will deploy
    \* history
    runs, faults,
    result,     \* how the last run ended: "none", "up", "removed" or "err"
    warned,     \* hosts whose clean-up was given up with a warning
    swallowed,  \* hosts on which RemoveControlPlane returned nil on an error
    untracked,  \* hosts touched by a run that did not get to save its state
    interrupted,\* hosts of the previous state when such a run reconciled it
    lost        \* some host has been untracked

hostVars == <<ctr, proxied, files, backup, trusted, proxyTo>>
clusterVars == <<members, nodes, joined, saved>>
procVars == <<todo, group, failed, conf, cur, admin, sans>>
history == <<runs, warned, swallowed, untracked, interrupted, lost>>
vars == <<hostVars, clusterVars, kubeconf, pc, procVars, history, faults,
          result>>

Init ==
    /\ ctr = [h \in Hosts |-> {}]
    /\ files = [h \in Hosts |-> {}]
    /\ backup = [h \in Hosts |-> NoConfig] /\ trusted = {}
    /\ proxyTo = [h \in Hosts |-> {}] /\ proxied = {}
    /\ members = {} /\ nodes = {} /\ joined = {}
    /\ saved = NoConfig
    /\ kubeconf = NoHost
    /\ pc = "idle"
    /\ todo = {} /\ group = {} /\ failed = FALSE
    /\ conf = NoConfig /\ cur = NoConfig
    /\ admin = NoHost /\ sans = {}
    /\ runs = 0 /\ faults = 0 /\ result = "none"
    /\ warned = {} /\ swallowed = {} /\ untracked = {} /\ interrupted = {}
    /\ lost = FALSE

-----------------------------------------------------------------------------
(* External: etcd answers with a majority, the API server with etcd.         *)

Alive == {h \in members : "etcd" \in ctr[h] /\ "etcd" \in files[h]}
EtcdUp == 2 * Cardinality(Alive) > Cardinality(members)
ApiServes(h) == "api" \in ctr[h] /\ h \notin proxied /\ EtcdUp

\* nginx-proxy and the API server use the host's network: port 6443 belongs to
\* the one that was there first, and to the other when that one has gone.
Port6443 ==
    proxied' = {h \in Hosts : "nginx" \in ctr'[h]
                              /\ ("api" \notin ctr'[h] \/ h \in proxied)}

\* What 127.0.0.1:6443 on h leads to serves.
ReachesApi(h) ==
    ApiServes(h) \/ (h \in proxied /\ \E a \in proxyTo[h] : ApiServes(a))

\* rke's client verifies the name it connects to.
ApiUp(h) == h # NoHost /\ ApiServes(h) /\ h \in trusted

-----------------------------------------------------------------------------
(* Control flow.                                                            *)

Goto(stage) == pc' = stage /\ UNCHANGED <<result, faults>>

\* Stages after which a run has stored its configuration.
AfterSave == {"worker_etcd", "worker_control", "worker_worker", "sync"}

\* rke loses track of the hosts, until a later run saves them again.
LoseTrack(hosts) ==
    /\ untracked' = untracked \cup hosts
    /\ lost' = (lost \/ hosts # {})

\* The run ends with an error.  Unless it got to save its state, the next run
\* will not know which hosts this one has touched.
Fail ==
    /\ pc' = "idle"
    /\ result' = "err"
    /\ todo' = {} /\ group' = {} /\ failed' = FALSE
    /\ LoseTrack(IF pc \in AfterSave THEN {} ELSE HostsOf(conf))
    /\ interrupted' = IF pc \in AfterSave THEN interrupted
                      ELSE interrupted \cup HostsOf(saved)
    /\ UNCHANGED <<conf, cur, admin, sans, runs, warned, swallowed>>

FailIf(fault) ==
    /\ fault => faults < MaxFaults
    /\ faults' = IF fault THEN faults + 1 ELSE faults
    /\ Fail

\* rke is killed, or a call that changes nothing fails, at any stage.
Abort ==
    /\ pc # "idle"
    /\ FailIf(TRUE)
    /\ UNCHANGED <<hostVars, clusterVars, kubeconf>>

StartUp(c) ==
    /\ pc = "idle" /\ runs < MaxRuns
    /\ conf' = c
    /\ runs' = runs + 1
    /\ pc' = "state" /\ result' = "none"
    /\ cur' = NoConfig
    /\ UNCHANGED <<hostVars, clusterVars, kubeconf, todo, group, failed, admin,
                   sans, faults, warned, swallowed, untracked,
                   interrupted, lost>>

-----------------------------------------------------------------------------
(* GetClusterState.                                                         *)

\* rebuildLocalAdminConfig: the first control plane host that answers, or the
\* last one tried.
FirstWorking(cps) ==
    LET up == {h \in cps : ApiUp(h)}
    IN  IF up = {} THEN LastHost(cps) ELSE FirstHost(up)

\* No kubeconfig, or no answer in time, and the cluster counts as new.
GetClusterState ==
    /\ pc = "state"
    /\ kubeconf' = IF kubeconf = NoHost \/ ApiUp(kubeconf) THEN kubeconf
                   ELSE FirstWorking(ControlHosts(conf))
    /\ \/ /\ cur' = IF ApiUp(kubeconf') THEN saved ELSE NoConfig
          /\ UNCHANGED faults
       \/ /\ kubeconf' # NoHost /\ faults < MaxFaults
          /\ faults' = faults + 1
          /\ cur' = NoConfig
    /\ LoseTrack(IF cur' = NoConfig THEN HostsOf(saved) ELSE {})
    /\ pc' = "auth"
    /\ UNCHANGED <<hostVars, clusterVars, todo, group, failed, conf, admin,
                   sans, runs, warned, swallowed, interrupted,
                   result>>

\* Mutant of GetToDeleteHosts: the configured hosts are not looked up.
GetToDeleteHostsAll(role) == Plane(cur, role)

\* What reconciling takes a role from, and gives it to.
GetToDeleteHosts(role) == Plane(cur, role) \ Plane(conf, role)

GetToAddHosts(role) == Plane(conf, role) \ Plane(cur, role)

\* reconcileControl: the host behind the kubeconfig goes last, because the
\* deletions of the others need its API server.
SelfLast(list, self) ==
    IF list \subseteq {self} THEN self ELSE FirstHost(list \ {self})

\* cleanUpHosts: the control hosts, the workers, the etcd hosts.  To clean a
\* host again, for another of its roles, changes nothing.
ByPlane(list) ==
    LET control == list \cap ControlHosts(conf)
        worker  == list \cap Plane(conf, "worker")
    IN  FirstHost(IF control # {} THEN control
              ELSE IF worker # {} THEN worker ELSE list)

\* Mutant of Current: every loop in the order of cluster.yml.
CurrentInOrder == FirstHost(todo)

\* The host the current loop is at.
Current ==
    IF pc \in {"control_node", "control_host"} THEN SelfLast(todo, kubeconf)
    ELSE IF pc = "rm_clean" THEN ByPlane(todo)
    ELSE FirstHost(todo)

\* Mutant of UseFetchedCertificates: the new state is saved before the old one
\* has been reconciled.
SaveBeforeReconcile ==
    /\ pc = "auth" /\ cur # NoConfig
    /\ sans' = ControlHosts(conf)
    /\ todo' = GetToDeleteHosts("etcd")
    /\ saved' = conf
    /\ Goto("etcd_member")
    /\ UNCHANGED <<hostVars, members, nodes, joined, kubeconf, group, failed,
                   conf, cur, admin, history>>

\* SetUpAuthentication with a fetched state: its certificates, of which
\* GetClusterState has renewed the API server's for the configured control
\* plane.  ReconcileCluster begins.
UseFetchedCertificates ==
    /\ pc = "auth" /\ cur # NoConfig
    /\ sans' = ControlHosts(conf)
    /\ todo' = GetToDeleteHosts("etcd")
    /\ Goto("etcd_member")
    /\ UNCHANGED <<hostVars, clusterVars, kubeconf, group, failed, conf, cur,
                   admin, history>>

\* A backup is complete if it holds a certificate for every etcd host.
FetchCertificatesFromHost(h) ==
    backup[h] # NoConfig /\ EtcdHosts(conf) \subseteq EtcdHosts(backup[h])

\* SetUpAuthentication without a state: the backup on the first etcd host if
\* it covers all etcd hosts, or else a new set with a new CA, whose kubeconfig
\* names the first control plane host.  ReconcileCluster then returns at once.
RecoverOrGenerate ==
    /\ pc = "auth" /\ cur = NoConfig
    /\ LET first == FirstHost(EtcdHosts(conf))
           from  == IF FetchCertificatesFromHost(first) THEN backup[first]
                    ELSE conf
       IN  /\ backup' = [backup EXCEPT ![first] = from]
           /\ sans' = ControlHosts(from)
           /\ admin' = FirstHost(ControlHosts(from))
    /\ group' = HostsOf(conf)
    /\ Goto("certs")
    /\ UNCHANGED <<ctr, proxied, files, trusted, proxyTo, clusterVars,
                   kubeconf, todo, failed, conf, cur, history>>

-----------------------------------------------------------------------------
(* Taking a plane down on one host (reconcileHost).                          *)

WorkerPlane == <<"kubelet", "kubeproxy", "nginx", "sidekick">>

\* Mutants of RemoveWorkerPlane: force is ignored; the kubelet is left running.
RemoveWorkerPlaneNoForce(roles, force) ==
    IF "controlplane" \in roles THEN <<>> ELSE WorkerPlane

RemoveWorkerPlaneKeepsKubelet(roles, force) ==
    IF "controlplane" \in roles /\ ~force THEN <<>> ELSE Tail(WorkerPlane)

\* Mutant of RemoveControlPlane: the scheduler is forgotten.
RemoveControlPlaneNoScheduler(roles) ==
    <<"api", "controller">> \o
    (IF "worker" \in roles THEN <<>>
     ELSE <<"kubelet", "kubeproxy", "sidekick">>)

\* The services RemoveWorkerPlane, RemoveControlPlane and RemoveEtcdPlane take
\* down, in their order, by the roles the host has in the fetched state.
RemoveWorkerPlane(roles, force) ==
    IF "controlplane" \in roles /\ ~force THEN <<>> ELSE WorkerPlane

RemoveControlPlane(roles) ==
    <<"api", "controller", "scheduler">> \o
    (IF "worker" \in roles THEN <<>>
     ELSE <<"kubelet", "kubeproxy", "sidekick">>)

RemoveEtcdPlane(roles, force) ==
    <<"etcd">> \o
    (IF {"worker", "controlplane"} \subseteq roles /\ ~force
     THEN <<>> ELSE WorkerPlane)

\* Services whose failed removal RemoveControlPlane answers with nil.
Swallowed(plane) ==
    IF plane = "controlplane" THEN {"controller", "kubeproxy"} ELSE {}

\* CleanUpEtcdHost, CleanUpWorkerHost and CleanUpControlHost.
CleanUpPaths(plane, roles) ==
    CASE plane = "etcd" ->
           IF roles \cap {"worker", "controlplane"} # {} THEN {"etcd"}
           ELSE {"etcd", "ssl"}
      [] plane = "worker" ->
           IF "controlplane" \in roles THEN {} ELSE {"ssl", "cni"}
      [] plane = "controlplane" ->
           IF "worker" \in roles THEN {} ELSE {"ssl", "cni"}

Take(seq, k) == {seq[i] : i \in 1..k}

\* The first k services of the list are gone from h.
TakeDown(h, list, k) ==
    /\ ctr' = [ctr EXCEPT ![h] = @ \ Take(list, k)]
    /\ Port6443
    /\ joined' = IF "kubelet" \in Take(list, k) THEN joined \ {h} ELSE joined

Stops(list, k, plane) == k < Len(list) /\ list[k + 1] \in Swallowed(plane)

\* reconcileHost: remove the services, then the directories.  An error is only
\* warned about; RemoveControlPlane hides some errors even from that.  Or rke
\* is killed on the way.
ReconcileHost(h, plane, list, next) ==
    /\ \E k \in 0..Len(list) :
          LET cleaned == [files EXCEPT ![h] = @ \ CleanUpPaths(plane, cur[h])]
              NextHost ==
                  /\ pc' = next
                  /\ todo' = todo \ {Current}
                  /\ UNCHANGED <<group, failed, conf, cur, admin, sans, runs,
                                 untracked, interrupted, lost, result>>
          IN
          /\ TakeDown(h, list, k)
          /\ \/ /\ k = Len(list)
                /\ files' = cleaned
                /\ NextHost
                /\ UNCHANGED <<faults, warned, swallowed>>
             \/ /\ Stops(list, k, plane)
                /\ faults < MaxFaults /\ faults' = faults + 1
                /\ files' = cleaned
                /\ swallowed' = swallowed \cup {h}
                /\ NextHost
                /\ UNCHANGED warned
             \/ /\ ~Stops(list, k, plane)
                /\ faults < MaxFaults /\ faults' = faults + 1
                /\ warned' = warned \cup {h}
                /\ NextHost
                /\ UNCHANGED <<files, swallowed>>
             \/ FailIf(TRUE) /\ UNCHANGED files
    /\ UNCHANGED <<backup, trusted, proxyTo, members, nodes, saved, kubeconf>>

\* hosts.DeleteNode: nothing to do for a host with another role; otherwise the
\* API server behind the kubeconfig must answer.
DeleteNodeWorks(hasAnotherRole) == hasAnotherRole \/ ApiUp(kubeconf)
NodesAfterDelete(h, hasAnotherRole) ==
    IF hasAnotherRole THEN nodes ELSE nodes \ {h}

-----------------------------------------------------------------------------
(* reconcileEtcd.                                                           *)

\* RemoveEtcdMember, through the etcd hosts that stay.
CanRemoveMember(h) ==
    EtcdUp /\ h \in members /\ \E e \in Alive : "etcd" \in conf[e]

\* A host whose member cannot be removed is skipped with a warning.
ReconcileEtcdMember ==
    /\ pc = "etcd_member" /\ todo # {}
    /\ LET h == Current IN
       \/ /\ CanRemoveMember(h)
          /\ members' = members \ {h}
          /\ Goto("etcd_node")
          /\ UNCHANGED <<todo, warned>>
       \/ /\ IF CanRemoveMember(h)
             THEN faults < MaxFaults /\ faults' = faults + 1
             ELSE UNCHANGED faults
          /\ warned' = warned \cup {h}
          /\ todo' = todo \ {Current}
          /\ UNCHANGED <<members, pc, result>>
    /\ UNCHANGED <<hostVars, nodes, joined, saved, kubeconf, group, failed,
                   conf, cur, admin, sans, runs, swallowed, untracked,
                   interrupted, lost>>

ReconcileEtcdNode ==
    /\ pc = "etcd_node"
    /\ LET h == Current
           other == "controlplane" \in cur[h]
       IN
       \/ /\ DeleteNodeWorks(other)
          /\ nodes' = NodesAfterDelete(h, other)
          /\ Goto("etcd_host")
          /\ UNCHANGED <<todo, warned>>
       \/ /\ IF DeleteNodeWorks(other)
             THEN faults < MaxFaults /\ faults' = faults + 1
             ELSE UNCHANGED faults
          /\ warned' = warned \cup {h}
          /\ todo' = todo \ {Current}
          /\ pc' = "etcd_member"
          /\ UNCHANGED <<nodes, result>>
    /\ UNCHANGED <<hostVars, members, joined, saved, kubeconf, group, failed,
                   conf, cur, admin, sans, runs, swallowed, untracked,
                   interrupted, lost>>

ReconcileEtcdHost ==
    /\ pc = "etcd_host"
    /\ LET h == Current IN
       ReconcileHost(h, "etcd", RemoveEtcdPlane(cur[h], FALSE), "etcd_member")

EtcdDeleted ==
    /\ pc = "etcd_member" /\ todo = {}
    /\ todo' = GetToAddHosts("etcd")
    /\ Goto("etcd_add")
    /\ UNCHANGED <<hostVars, clusterVars, kubeconf, group, failed, conf, cur,
                   admin, sans, history>>

\* One new member: its certificates, then AddEtcdMember, unless rke is killed in
\* between, then ReloadEtcdCluster over the members that are not waiting to be
\* added.
CanAddMember(h) ==
    EtcdUp /\ h \notin members /\ \E e \in Alive : "etcd" \in conf[e]

AddEtcdMember ==
    /\ pc = "etcd_add" /\ todo # {}
    /\ LET h == Current IN
       /\ files' = [files EXCEPT ![h] = @ \cup {"ssl"}]
       /\ \/ /\ CanAddMember(h)
             /\ members' = members \cup {h}
             /\ Goto("etcd_reload")
             /\ UNCHANGED <<procVars, history>>
          \/ /\ FailIf(CanAddMember(h))
             /\ UNCHANGED members
    /\ UNCHANGED <<ctr, proxied, backup, trusted, proxyTo, nodes, joined,
                   saved, kubeconf>>

ReadyHosts == EtcdHosts(conf) \ (todo \ {Current})

\* What a loop over the list has done when it stops: any initial part.
LoopPrefixes(list) ==
    {S \in SUBSET list :
        \A g \in S : \A h \in list \ S : HostOrder[g] < HostOrder[h]}

ReloadEtcdCluster ==
    /\ pc = "etcd_reload"
    /\ UNCHANGED <<proxied, backup, trusted, proxyTo, clusterVars, kubeconf>>
    /\ \E run \in LoopPrefixes(ReadyHosts) :
          /\ ctr' = [h \in Hosts |-> IF h \in run THEN ctr[h] \cup {"etcd"}
                                     ELSE ctr[h]]
          /\ files' = [h \in Hosts |-> IF h \in run THEN files[h] \cup {"etcd"}
                                       ELSE files[h]]
          /\ \/ /\ run = ReadyHosts /\ EtcdUp'
                /\ todo' = todo \ {Current}
                /\ Goto("etcd_add")
                /\ UNCHANGED <<group, failed, conf, cur, admin, sans, history>>
             \/ /\ run = ReadyHosts /\ ~EtcdUp'
                /\ FailIf(FALSE)
             \/ /\ run # ReadyHosts
                /\ FailIf(TRUE)

EtcdAdded ==
    /\ pc = "etcd_add" /\ todo = {}
    /\ todo' = GetToDeleteHosts("worker")
    /\ Goto("worker_node")
    /\ UNCHANGED <<hostVars, clusterVars, kubeconf, group, failed, conf, cur,
                   admin, sans, history>>

-----------------------------------------------------------------------------
(* reconcileWorker.  The host loses the role in the fetched state first.     *)

ReconcileWorkerNode ==
    /\ pc = "worker_node" /\ todo # {}
    /\ LET h == Current
           other == "controlplane" \in cur[h]
       IN
       \/ /\ DeleteNodeWorks(other)
          /\ cur' = [cur EXCEPT ![h] = @ \ {"worker"}]
          /\ nodes' = NodesAfterDelete(h, other)
          /\ Goto("worker_host")
          /\ UNCHANGED <<todo, group, failed, conf, admin, sans, history>>
       \/ /\ ~DeleteNodeWorks(other)
          /\ FailIf(FALSE)
          /\ UNCHANGED nodes
    /\ UNCHANGED <<hostVars, members, joined, saved, kubeconf>>

ReconcileWorkerHost ==
    /\ pc = "worker_host"
    /\ LET h == Current IN
       ReconcileHost(h, "worker", RemoveWorkerPlane(cur[h], FALSE),
                     "worker_node")

WorkersDeleted ==
    /\ pc = "worker_node" /\ todo = {}
    /\ todo' = GetToDeleteHosts("controlplane")
    /\ Goto("control_node")
    /\ UNCHANGED <<hostVars, clusterVars, kubeconf, group, failed, conf, cur,
                   admin, sans, history>>

ReconcileControlNode ==
    /\ pc = "control_node" /\ todo # {}
    /\ LET h == Current
           other == "worker" \in cur[h]
       IN
       \/ /\ DeleteNodeWorks(other)
          /\ nodes' = NodesAfterDelete(h, other)
          /\ Goto("control_host")
          /\ UNCHANGED <<procVars, history>>
       \/ /\ ~DeleteNodeWorks(other)
          /\ FailIf(FALSE)
          /\ UNCHANGED nodes
    /\ UNCHANGED <<hostVars, members, joined, saved, kubeconf>>

ReconcileControlHost ==
    /\ pc = "control_host"
    /\ LET h == Current IN
       ReconcileHost(h, "controlplane", RemoveControlPlane(cur[h]),
                     "control_node")

\* rebuildLocalAdminConfig, at the end of reconcileControl.
ControlDeleted ==
    /\ pc = "control_node" /\ todo = {}
    /\ kubeconf' = FirstWorking(ControlHosts(conf))
    /\ admin' = kubeconf'
    /\ group' = HostsOf(conf)
    /\ Goto("certs")
    /\ UNCHANGED <<hostVars, clusterVars, todo, failed, conf, cur, sans,
                   history>>

-----------------------------------------------------------------------------
(* Deployment.  A member of an errgroup deploys a prefix of its services;    *)
(* Wait returns when all have returned, with an error if one failed.         *)

Deploy(h, before, list) ==
    /\ group' = group \ {h}
    /\ \E k \in 0..Len(list) :
          /\ ctr' = [ctr EXCEPT ![h] = before \cup Take(list, k)]
          /\ Port6443
          /\ \/ /\ k = Len(list)
                /\ UNCHANGED <<faults, failed>>
             \/ /\ k < Len(list)
                /\ faults < MaxFaults /\ faults' = faults + 1
                /\ failed' = TRUE

Wait(stage, next) ==
    /\ pc = stage /\ group = {}
    /\ \/ /\ failed
          /\ FailIf(FALSE)
       \/ /\ ~failed
          /\ next

\* SetUpHosts: certificates on every host, then the kubeconfig on disk.
DeployCertificates(h) ==
    /\ pc = "certs" /\ h \in group
    /\ group' = group \ {h}
    /\ \/ /\ files' = [files EXCEPT ![h] = @ \cup {"ssl"}]
          /\ UNCHANGED <<failed, faults>>
       \/ /\ faults < MaxFaults /\ faults' = faults + 1
          /\ failed' = TRUE
          /\ UNCHANGED files
    /\ UNCHANGED <<ctr, proxied, backup, trusted, proxyTo, clusterVars,
                   kubeconf, pc, todo, conf, cur, admin, sans, history,
                   result>>

CertificatesDeployed ==
    /\ Wait("certs",
            /\ Goto("etcd_run")
            /\ todo' = EtcdHosts(conf)
            /\ UNCHANGED <<group, failed, conf, cur, admin, sans, history>>)
    /\ kubeconf' = IF failed THEN kubeconf ELSE admin
    /\ UNCHANGED <<hostVars, clusterVars>>

\* RunEtcdPlane, host by host.  The first start of a fresh cluster makes the
\* configured hosts its members.
RunEtcd ==
    /\ pc = "etcd_run" /\ todo # {}
    /\ LET h == Current IN
       /\ ctr' = [ctr EXCEPT ![h] = @ \cup {"etcd"}]
       /\ files' = [files EXCEPT ![h] = @ \cup {"etcd"}]
    /\ members' = IF members = {} THEN EtcdHosts(conf)
                  ELSE members
    /\ todo' = todo \ {Current}
    /\ UNCHANGED <<proxied, backup, trusted, proxyTo, nodes, joined, saved,
                   kubeconf, pc, group, failed, conf, cur, admin, sans,
                   history, faults, result>>

EtcdRunning ==
    /\ pc = "etcd_run" /\ todo = {}
    /\ group' = ControlHosts(conf)
    /\ Goto("control_run")
    /\ UNCHANGED <<hostVars, clusterVars, kubeconf, todo, failed, conf, cur,
                   admin, sans, history>>

ControlServices == <<"sidekick", "api", "controller", "scheduler">>

\* doDeployControlHost: a worker's nginx-proxy makes room for the API server,
\* whose health check asks whatever answers on port 6443 of the host.  An API
\* server that starts here takes the certificate deployed by this run.
DoDeployControlHost(h) ==
    /\ pc = "control_run" /\ h \in group
    /\ LET before == ctr[h] \ IF "worker" \in conf[h] THEN {"nginx"} ELSE {}
           own    == "nginx" \notin before \/ h \notin proxied
           healthy == IF own THEN EtcdUp
                      ELSE \E a \in proxyTo[h] : ApiServes(a)
       IN  \/ healthy /\ Deploy(h, before, ControlServices)
           \/ /\ ~healthy
              /\ ctr' = [ctr EXCEPT ![h] = before \cup {"sidekick", "api"}]
              /\ Port6443
              /\ group' = group \ {h}
              /\ failed' = TRUE
              /\ UNCHANGED faults
    /\ trusted' = IF "api" \in ctr[h] \/ "api" \notin ctr'[h] THEN trusted
                  ELSE IF h \in sans THEN trusted \cup {h} ELSE trusted \ {h}
    /\ UNCHANGED <<files, backup, proxyTo, clusterVars, kubeconf, pc, todo,
                   conf, cur, admin, sans, history, result>>

ControlRunning ==
    /\ Wait("control_run",
            Goto("save") /\ UNCHANGED <<procVars, history>>)
    /\ UNCHANGED <<hostVars, clusterVars, kubeconf>>

MasterServices == {"api", "controller", "scheduler"}
NodeServices == {"kubelet", "kubeproxy", "sidekick"}

\* Nothing on the host but services that hosts of these roles may have.
Fits(h, roles) ==
    /\ "etcd" \in ctr[h] => "etcd" \in roles
    /\ MasterServices \cap ctr[h] # {} => "controlplane" \in roles
    /\ NodeServices \cap ctr[h] # {} => roles # {}
    /\ "nginx" \in ctr[h] =>
          /\ roles # {}
          /\ "controlplane" \in roles => "etcd" \in roles
          /\ "controlplane" \in roles => "worker" \notin roles

\* What is saved accounts for all there is on the host, and a kubelet that has
\* registered still has its Node: no excuse applies to the host any more.
Recovered == {h \in Hosts : Fits(h, conf[h]) /\ (h \in joined => h \in nodes)}

\* ApplyAuthzResources and SaveClusterState, both through the API server.
SaveClusterState ==
    /\ pc = "save"
    /\ \/ /\ ApiUp(kubeconf)
          /\ saved' = conf
          /\ group' = EtcdHosts(conf)
          /\ Goto("worker_etcd")
          /\ warned' = warned \ Recovered
          /\ swallowed' = swallowed \ Recovered
          /\ untracked' = untracked \ Recovered
          /\ interrupted' = interrupted \ Recovered
          /\ UNCHANGED <<todo, failed, conf, cur, admin, sans, runs, lost>>
       \/ /\ ~ApiUp(kubeconf)
          /\ FailIf(FALSE)
          /\ UNCHANGED saved
    /\ UNCHANGED <<hostVars, members, nodes, joined, kubeconf>>

\* Mutant of WorkerServices: the test for the control plane inverted.
WorkerServicesInverted(roles) ==
    (IF "controlplane" \in roles THEN <<"nginx">> ELSE <<>>) \o
    <<"sidekick", "kubelet", "kubeproxy">>

\* doDeployWorkerPlane, on all hosts of one role at a time.
WorkerServices(roles) ==
    (IF "controlplane" \in roles THEN <<>> ELSE <<"nginx">>) \o
    <<"sidekick", "kubelet", "kubeproxy">>

WorkerStages == [worker_etcd |-> "etcd", worker_control |-> "controlplane",
                 worker_worker |-> "worker"]

\* Mutant of DoDeployWorkerPlane: an nginx-proxy that runs keeps the control
\* plane it was given.
DoDeployWorkerPlaneKeepsProxy(h) ==
    /\ pc \in DOMAIN WorkerStages /\ h \in group
    /\ Deploy(h, ctr[h], WorkerServices(conf[h]))
    /\ files' = IF "kubelet" \in ctr'[h]
                THEN [files EXCEPT ![h] = @ \cup {"cni"}] ELSE files
    /\ proxyTo' = IF "nginx" \in ctr'[h] \ ctr[h]
                  THEN [proxyTo EXCEPT ![h] = ControlHosts(conf)] ELSE proxyTo
    /\ UNCHANGED <<backup, trusted, clusterVars, kubeconf, pc, todo, conf, cur,
                   admin, sans, history, result>>

DoDeployWorkerPlane(h) ==
    /\ pc \in DOMAIN WorkerStages /\ h \in group
    /\ Deploy(h, ctr[h], WorkerServices(conf[h]))
    /\ files' = IF "kubelet" \in ctr'[h]
                THEN [files EXCEPT ![h] = @ \cup {"cni"}] ELSE files
    /\ proxyTo' = IF "controlplane" \notin conf[h] /\ "nginx" \in ctr'[h]
                  THEN [proxyTo EXCEPT ![h] = ControlHosts(conf)] ELSE proxyTo
    /\ UNCHANGED <<backup, trusted, clusterVars, kubeconf, pc, todo, conf, cur,
                   admin, sans, history, result>>

WorkerStageDone(stage, next) ==
    /\ Wait(stage,
            /\ Goto(next)
            /\ group' = IF next = "sync" THEN HostsOf(conf)
                        ELSE {h \in Hosts : WorkerStages[next] \in conf[h]}
            /\ UNCHANGED <<todo, failed, conf, cur, admin, sans, history>>)
    /\ UNCHANGED <<hostVars, clusterVars, kubeconf>>

\* DeployNetworkPlugin, SyncLabelsAndTaints and DeployAddons go through the
\* API server; a host without a Node object is passed over in silence.
FinishUp ==
    /\ pc = "sync"
    /\ \/ /\ ApiUp(kubeconf)
          /\ pc' = "idle" /\ result' = "up"
          /\ group' = {}
          /\ UNCHANGED <<todo, failed, conf, cur, admin, sans, history,
                         faults>>
       \/ /\ ~ApiUp(kubeconf)
          /\ FailIf(FALSE)
    /\ UNCHANGED <<hostVars, clusterVars, kubeconf>>

\* External: a kubelet registers its Node once after it starts.
KubeletRegisters(h) ==
    /\ "kubelet" \in ctr[h] /\ "ssl" \in files[h]
    /\ h \notin joined
    /\ ReachesApi(h)
    /\ nodes' = nodes \cup {h}
    /\ joined' = joined \cup {h}
    /\ UNCHANGED <<hostVars, members, saved, kubeconf, pc, procVars, history,
                   faults, result>>

-----------------------------------------------------------------------------
(* rke remove: ClusterRemove.  It works from cluster.yml alone.              *)

StartRemove ==
    /\ pc = "idle" /\ runs < MaxRuns /\ conf # NoConfig
    /\ runs' = runs + 1
    /\ pc' = "rm_worker" /\ result' = "none"
    /\ todo' = Plane(conf, "worker")
    /\ LoseTrack(IF saved = conf THEN {} ELSE Hosts)
    /\ UNCHANGED <<hostVars, clusterVars, kubeconf, group, failed, conf, cur,
                   admin, sans, faults, warned, swallowed, interrupted>>

\* One host of a Remove*Plane loop.  An error RemoveControlPlane swallows ends
\* the loop over the hosts too.
RemovePlaneHost(stage, plane, list) ==
    /\ pc = stage /\ todo # {}
    /\ \E k \in 0..Len(list) :
          /\ TakeDown(Current, list, k)
          /\ \/ /\ k = Len(list)
                /\ todo' = todo \ {Current}
                /\ UNCHANGED <<pc, result, faults, swallowed, group, failed,
                               conf, cur, admin, sans, runs, warned, untracked,
                               interrupted, lost>>
             \/ /\ Stops(list, k, plane)
                /\ faults < MaxFaults /\ faults' = faults + 1
                /\ swallowed' = swallowed \cup todo
                /\ todo' = {}
                /\ UNCHANGED <<pc, result, group, failed, conf, cur, admin,
                               sans, runs, warned, untracked,
                               interrupted, lost>>
             \/ /\ k < Len(list) /\ ~Stops(list, k, plane)
                /\ FailIf(TRUE)
    /\ UNCHANGED <<files, backup, trusted, proxyTo, members, nodes, saved,
                   kubeconf>>

RemovePlanes ==
    LET roles == conf[Current] IN
    \/ RemovePlaneHost("rm_worker", "worker", RemoveWorkerPlane(roles, TRUE))
    \/ RemovePlaneHost("rm_control", "controlplane", RemoveControlPlane(roles))
    \/ RemovePlaneHost("rm_etcd", "etcd", RemoveEtcdPlane(roles, TRUE))

RemoveStageDone(stage, next, list) ==
    /\ pc = stage /\ todo = {}
    /\ todo' = list
    /\ Goto(next)
    /\ UNCHANGED <<hostVars, clusterVars, kubeconf, group, failed, conf, cur,
                   admin, sans, history>>

\* cleanUpHosts, CleanUpAll on every host of every plane.  With the last copy
\* of etcd's data the cluster's own state is gone.
CleanUpHost ==
    /\ pc = "rm_clean" /\ todo # {}
    /\ files' = [files EXCEPT ![Current] = {}]
    /\ backup' = [backup EXCEPT ![Current] = NoConfig]
    /\ IF \A h \in Hosts : "etcd" \notin files'[h]
       THEN members' = {} /\ nodes' = {} /\ saved' = NoConfig
       ELSE UNCHANGED <<members, nodes, saved>>
    /\ todo' = todo \ {Current}
    /\ UNCHANGED <<ctr, proxied, trusted, proxyTo, joined, kubeconf, pc, group,
                   failed, conf, cur, admin, sans, history, faults, result>>

\* RemoveAdminConfig, then success.
FinishRemove ==
    /\ pc = "rm_clean" /\ todo = {}
    /\ kubeconf' = NoHost
    /\ pc' = "idle" /\ result' = "removed"
    /\ UNCHANGED <<hostVars, clusterVars, procVars, history, faults>>

-----------------------------------------------------------------------------
Reconcile ==
    \/ ReconcileEtcdMember \/ ReconcileEtcdNode \/ ReconcileEtcdHost
    \/ EtcdDeleted \/ AddEtcdMember \/ ReloadEtcdCluster \/ EtcdAdded
    \/ ReconcileWorkerNode \/ ReconcileWorkerHost \/ WorkersDeleted
    \/ ReconcileControlNode \/ ReconcileControlHost \/ ControlDeleted

DeployPlanes ==
    \/ CertificatesDeployed \/ RunEtcd \/ EtcdRunning \/ ControlRunning
    \/ SaveClusterState
    \/ \E h \in Hosts : \/ DeployCertificates(h) \/ DoDeployControlHost(h)
                        \/ DoDeployWorkerPlane(h)
    \/ WorkerStageDone("worker_etcd", "worker_control")
    \/ WorkerStageDone("worker_control", "worker_worker")
    \/ WorkerStageDone("worker_worker", "sync")
    \/ FinishUp

ClusterRemove ==
    \/ RemovePlanes
    \/ RemoveStageDone("rm_worker", "rm_control", ControlHosts(conf))
    \/ RemoveStageDone("rm_control", "rm_etcd", EtcdHosts(conf))
    \/ RemoveStageDone("rm_etcd", "rm_clean", HostsOf(conf))
    \/ CleanUpHost \/ FinishRemove

RkeStep ==
    \/ GetClusterState \/ UseFetchedCertificates \/ RecoverOrGenerate
    \/ Reconcile \/ DeployPlanes \/ ClusterRemove

Next ==
    \/ \E c \in Configs : StartUp(c)
    \/ StartRemove
    \/ RkeStep
    \/ Abort
    \/ \E h \in Hosts : KubeletRegisters(h)

Spec == Init /\ [][Next]_vars

\* rke is sequential but for its errgroups, all of whose members run.  It waits
\* for services and for etcd with a timeout; the containers it waits for without
\* one (WaitForContainer) are taken to exit.  A kubelet keeps trying to register.
FairSpec ==
    /\ Spec
    /\ WF_vars(RkeStep)
    /\ \A h \in Hosts : WF_vars(KubeletRegisters(h))

-----------------------------------------------------------------------------
(* Properties.                                                              *)

\* Hosts about which rke has lost, or given up, its knowledge.
Excused == warned \cup swallowed \cup untracked

\* The services a host of these roles must run.
Required(roles) ==
    (IF "etcd" \in roles THEN {"etcd"} ELSE {}) \cup
    (IF "controlplane" \in roles THEN {"api", "controller", "scheduler"}
     ELSE {"nginx"}) \cup
    {"sidekick", "kubelet", "kubeproxy"}

\* Every configured host has the services of all its roles, its certificates
\* and, for etcd, its data.
PlanesComplete ==
    \A h \in HostsOf(conf) :
        /\ Required(conf[h]) \subseteq ctr[h]
        /\ "ssl" \in files[h]
        /\ "etcd" \in conf[h] => "etcd" \in files[h]

\* No host has a service of a role it does not have.
NoStrayServices ==
    \A h \in Hosts \ Excused :
        /\ conf[h] = {} => ctr[h] = {}
        /\ "etcd" \in ctr[h] => "etcd" \in conf[h]
        /\ ctr[h] \cap {"api", "controller", "scheduler"} # {}
              => "controlplane" \in conf[h]

\* A control host that is no worker keeps the nginx-proxy it had as an etcd
\* host, and with it the port its API server needs.
PortTaken(h) ==
    /\ {"controlplane", "worker"} \cap conf[h] = {"controlplane"}
    /\ "nginx" \in ctr[h]

\* A successful "rke up", whatever was removed on the way and whatever failed
\* in earlier runs, leaves every configured host complete, and no service of a
\* role a host no longer has, except where a clean-up failed or a run died
\* before saving state.  Each control host's API server has its port, but for
\* an etcd host promoted without becoming a worker.
HostsAsConfigured ==
    result = "up" =>
        /\ PlanesComplete
        /\ NoStrayServices
        /\ \A h \in ControlHosts(conf) \ Excused : ApiServes(h) \/ PortTaken(h)

\* At every moment, between and within runs, a host on which RKE's services
\* run is known: it is in the saved state or in the configuration of the run
\* in progress, or one of the excuses applies.
HostsTracked ==
    \A h \in Hosts \ Excused :
        ctr[h] # {} => saved[h] # {} \/ (pc # "idle" /\ conf[h] # {})

\* While "rke up" reconciles, a host whose roles do not change keeps all its
\* services, its certificates and its data.
UnchangedHostsKept ==
    [][\A h \in Hosts :
          (/\ pc \notin {"idle", "state", "auth"}
           /\ saved[h] = conf[h] /\ conf[h] # {} /\ cur # NoConfig
           /\ pc \notin {"rm_worker", "rm_control", "rm_etcd", "rm_clean"})
          => ctr[h] \subseteq ctr'[h] /\ files[h] \subseteq files'[h]]_vars

\* Without errors and crashes every "rke up" that makes a cluster, or keeps one
\* etcd host of it, goes through, as long as rke has known all hosts: reconciling
\* never takes away what its own next step needs (an etcd majority, the API
\* server behind the kubeconfig).  The exceptions are a promoted etcd host whose
\* health check still asks the old control plane, and certificates from an old
\* backup: API servers they do not name, a kubeconfig for a host that is gone.
ReconfigureSucceeds ==
    [][(/\ faults' = 0 /\ ~lost
        /\ result # "err" /\ result' = "err")
       => \/ saved # NoConfig /\ EtcdHosts(saved) \cap EtcdHosts(conf) = {}
          \/ \E h \in ControlHosts(conf) : PortTaken(h)
          \/ ~(ControlHosts(saved) \subseteq trusted)
          \/ saved = NoConfig /\ kubeconf \notin ControlHosts(conf)]_vars

\* After a successful "rke up" every configured host has a Node or a kubelet
\* that has yet to register, unless its clean-up failed in some run or a run
\* that was taking it out of the cluster was interrupted.
NodesRegistered ==
    result = "up" =>
        \A h \in HostsOf(conf) \ (Excused \cup interrupted) :
            h \in nodes \/ h \notin joined

\* A successful "rke remove" of the configuration that is deployed leaves no
\* service on any host, earlier members of the cluster included, and no
\* directory on the configured hosts.
RemoveComplete ==
    result = "removed" =>
        \A h \in Hosts \ Excused :
            ctr[h] = {} /\ (conf[h] # {} => files[h] = {})

\* Every host of a successful "rke up" becomes a Node, unless the operator runs
\* rke again first: its kubelet was started again if its Node was deleted, and
\* leads to an API server that serves, itself or through nginx-proxy.
NodesAppear ==
    result = "up" ~>
        \/ pc # "idle"
        \/ \A h \in HostsOf(conf) \ (Excused \cup interrupted) : h \in nodes
=============================================================================
