# RKE in TLA+

RKE builds and maintains a Kubernetes cluster from a `cluster.yml`: `rke up`
connects to the hosts over SSH, runs every Kubernetes component as a Docker
container, and, when a cluster is already there, reconciles it with the file;
`rke remove` takes it all down. The program has no database of its own. What it
knows of its earlier runs is a config map in the cluster it manages, a backup
of the certificates on one host, a kubeconfig beside `cluster.yml`, and whatever
containers and directories it finds on the hosts. Errors, kills and reruns are
its normal life, and they are what this project is about.

## 1. Inventory

| Component | State | Operations | What is hard |
|---|---|---|---|
| Containers (`docker/docker.go`) | a container and a parked `old-` container per service and host; local images | run, rolling update, remove | every API call can fail or be the last; a rerun starts from any intermediate state |
| Host clean-up (`hosts/hosts.go`) | directories on a host; the `kube-cleaner` container | `CleanUp*` | built on "run container", which reuses what it finds |
| Host lists (`hosts/hosts.go`, `cluster/reconcile.go`) | none | to-delete, to-add, rotation | a slice rotated in place while it is ranged over |
| Reconciler (`cluster/reconcile.go`) | fetched state against `cluster.yml` | etcd, worker, control plane | each step uses the etcd majority and the API server that the previous ones left |
| Planes (`services/*.go`) | services on hosts | run, remove per role; health checks | roles share hosts, services and a port; one goroutine per role entry; swallowed errors |
| Tunnels (`hosts/tunnel.go`, `hosts/dialer.go`) | connections | connect, check Docker's version | hosts are checked once, before the first is changed, and may go away after |
| Etcd membership (`services/etcd.go`) | members in etcd; flags of its containers; data directories | add, remove, reload | two views of the cluster that a crash or a skipped step lets drift apart; majority during every change |
| Cluster state (`cluster/state.go`) | config map | get, save | saved half way through a run; a timeout makes the cluster look new; the writing goroutine outlives it |
| Certificates (`cluster/certificates.go`, `pki/`) | secrets, backup on the first etcd host, files on hosts | generate, back up, recover, renew, deploy, save | three copies, written at different times by containers and goroutines that can be cut off; a recovered backup is for an older configuration |
| Add-ons and network plug-in (`cluster/addons.go`, `k8s/job.go`) | config map and job per add-on | store, create job, wait | a job reads its config map late and is never deleted; the next run meets it in any state |
| Node objects (`k8s/node.go`) | labels, taints | delete, label, taint | optimistic concurrency with kubelets; Nodes that are not there yet |
| Port checks (`cluster/network.go`) | listener containers | deploy, check, remove | listeners of failed runs; hosts believed to serve that do not |
| Templates, RBAC, CLI | rendered text | | not modelled, see section 8 |

Interaction: `cmd/up.go` calls, in this order, get state, port checks,
authentication, reconcile, set up hosts, control plane (etcd first), **save
state**, worker plane, network plug-in, sync labels and taints, add-ons. All of
them use the container operations on the hosts, and from "get state" on the API
server behind the kubeconfig, which is itself one of the services being moved.

PROJECT.json lists the hazards found, each at its line, and the properties that
watch it.

## 2. Modules

| Module | Models | Composed with |
|---|---|---|
| `DockerContainer` | one container name on one host, one step per Docker API call | |
| `ServiceSlot` | what `docker.go` promises about one service: the abstract specification | implemented by `DockerContainer` |
| `HostCleaner` | `Host.CleanUp` and its callers' path lists | extends `DockerContainer` |
| `HostLists` | list computations on slices | `MCClusterUp` compares them with the sets of `ClusterUp` |
| `ClusterUp` | `rke up` and `rke remove` over several hosts, host by host | |
| `EtcdCluster` | forming, growing and shrinking the etcd cluster | |
| `Planes` | deploying and upgrading the planes, call by call | |
| `NodeSync` | Node objects, labels and taints over several runs | |
| `PortCheck` | `CheckClusterPorts` over several runs | |
| `Certificates` | certificates and saved state over several runs | |
| `Addons` | network plug-in and add-ons over several runs | |
| `MC*` | constants for TLC | |
| `*Proofs` | theorems and their proofs: one each for `DockerContainer` (with the refinement of `ServiceSlot` and the clean-up), `ClusterUp`, `EtcdCluster`, `Planes`, `NodeSync`, `PortCheck`, `Certificates`, `Addons` | extends the module it is about |

### DockerContainer

`st[n]` is the Docker status of the container called `svc` (kubelet, say) and of
`old` (old-kubelet); `cfg[n]` what it was created from. `pc` names the next API
call; `RunInspect ... RunRestart` are `DoRunContainer`, `RollList ...
RollRemove` are `DoRollingUpdateContainer` with `StopRenameContainer` spelt out,
`RemoveInspect ...` are `DoRemoveContainer`. `Abort` stands for an API error or
the death of rke before any call. Docker is external: create refuses a taken
name or a missing image, remove refuses a running container, rename refuses a
taken name, a daemon restart revives started containers with policy `always`.
`pullImage` throws its stream away, so a pull may "succeed" without the image.

`seen`, `disturbed` and `everRan` are history: what the inspect found, whether
something outside rke touched the host during the call, and whether the service
has run since rke last set out to remove it.

`ServiceSlot` says the same without API calls. A service has at most one
generation running (`serving`), one made ready (`prepared`), and the ones that
have run and can be run again (`kept`). A call may stop the service, start what
is kept or prepared, and give up at any point; but it gives up a generation that
has run only when the one asked for has run too (`Replace`), or for a removal
(`Discard`), and it succeeds only with what it was asked for running, or the
service gone (`Succeed`). The refinement mapping reads `serving` and `prepared`
off the container called `svc` and `kept` off both names, so the parked
container of an interrupted update is what keeps the promise.

### HostCleaner

`CleanUp(c)` calls `DoRunContainer` (the steps of `DockerContainer`), waits for
the container and removes it. The container's command *is* the set of
directories it deletes, so a left-over container with another command is
visible.

### ClusterUp

A service is on a host or not (`ctr`), a directory is there or not (`files`).
Sequential code over the services of one host is one step that may stop after
any prefix; goroutines of an errgroup are separate steps in any order with
`Wait` behind them. External parts: a majority of `members` running with their
data makes etcd answer, an API server needs etcd, rke's client also needs its
name in the server's certificate (`trusted`), a kubelet registers its Node once
per start. Port 6443 is the API server's or nginx-proxy's, whichever came
first (`proxied`), and nginx-proxy forwards to the hosts it was created with
(`proxyTo`). `warned`, `swallowed`, `untracked` and `interrupted` record, per
host, why rke may have lost track of it; the invariants exempt exactly those
hosts, and section 3 says what the exemptions cost. The excuse of a host ends
when a run saves a configuration that accounts for all that is on it and its
kubelet has its Node (`Recovered` in `SaveClusterState`). `lost` says that there
ever was an untracked host, which is what `ReconfigureSucceeds` has to rule out:
the backup and the kubeconfig of such a run stay. rke may be killed inside a
removal and between the certificates of a new etcd member and its addition.

`GetClusterState` covers the rebuilt kubeconfig and the fetch with its timeout;
`UseFetchedCertificates` and `RecoverOrGenerate` are `SetUpAuthentication`;
`Reconcile*` the three reconcilers; `DeployCertificates ... FinishUp` the rest
of `up.go`; `StartRemove ... FinishRemove` are `cluster/remove.go`.

All lists of hosts are in the order of `cluster.yml` (`HostOrder`), so the hosts
left in a loop are a set, `todo`, and `Current` says whose turn it is: the first
one; for the control plane the host behind the kubeconfig comes last
(`SelfLast`); in `cleanUpHosts` it goes plane by plane (`ByPlane`). That the code
gets there with nested loops over slices and a rotation in place is the matter of
`HostLists`: `ListsAssumption` of `MCClusterUp` has TLC compare the two for every
pair of lists and every place of the kubeconfig's host.

### EtcdCluster

Etcd's own view (`memb`, per cluster; a cluster is identified by the set of
hosts that bootstrapped it) is kept apart from what rke deploys (`ctr[h]`: the
initial cluster and its state in the flags) and from what is on disk (`data[h]`:
cluster and member id). `GetClusterState`, `RemoveEtcdMember`, `ReconcileHost`,
`AddEtcdMember`, `ReloadHost`, `CheckHealth`, `RunEtcdPlane` and
`SaveClusterState` follow `reconcileEtcd` and `services/etcd.go`; updating a
container is one step with the outcomes `DockerContainer` allows (`RunOk`,
`RunBroken`). External, from etcd 3.0 with the options of `buildEtcdConfig`:
`Boot` with `MayBootstrap` (a fresh member with state "new") and `MayJoin`
(state "existing": the initial cluster must be the membership its peers report),
`Quorum`, and the members API, which refuses a second member of the same peer
URL and does not check whether a change costs the majority. `astray` records
that a run went on with a view of etcd that etcd does not share: the state could
not be fetched though there is a cluster, or a member was not removed and its
host passed over. A removal may also take effect with its answer lost;
`RemoveEtcdMember` then asks the next host with the id it has (`mID`), and etcd's
client takes "already removed" for success, so that the host is passed over only
if no other configured host answers. `hasty` records that a run began before the
members of the run before had all come up. The
hosts left to delete, add, reload or run are sets; `HostOrder` is the place of a
host in `cluster.yml`, and each loop takes the first one left (`First`).

### Planes

One goroutine per entry of a role list (`task[e]`), one step per Docker call;
`Inspect ... RollRemove` are the calls of `DoRunContainer` and
`DoRollingUpdateContainer`, `RunSidekick` and `RemoveNginxProxy` what their names
say (`DoRemoveContainer` call by call), `RunHealthcheck` the ten attempts. `Wait` is `errgrp.Wait`: control hosts,
then the worker services of etcd, control and worker hosts. `ParseAndTunnel` is
`ParseCluster` with its validation of roles, and `TunnelHosts`. A process takes
its port some time after its container was started, if the port is free
(`Serve`); a health check asks the port, not the container. A machine may go out
of reach at any time (`MachineChanges`), between two calls of a goroutine too,
and come back (`MachineReturns`); Docker itself is changed only between runs.
`struck` records the
hosts on which a call failed, the run was killed or somebody stopped a service,
`raced` those where a role is listed twice, `excused` the services found stopped.

### NodeSync

A Node has a set of labels and a *list* of taints. `stale` says that somebody
wrote the Node since rke read it, which is all that matters of resource
versions. Heartbeats, `kubectl` users and registering kubelets interfere without
bound; a sync makes `Tries` attempts. `ToDelLabels` and `ToDelTaints` come from
the difference to the saved state, as in `syncLabels` and the reconcilers.
`getUniqueHostList` ranges over a Go map, so the hosts are synced in any order:
`todo` is a set, and `NextHost` takes any member of it into `host`. `missed` are
the hosts whose Node a sync did not find. `lost` are the hosts whose Node may
carry labels that no saved state tells of: those of a run that died after it
saved, and those that left the cluster while their Node could not be deleted
(`reconcileEtcd` only warns) and so meet their old labels if they return.

### PortCheck

The eleven errgroups of `CheckClusterPorts` run in the order of `After`. A port
answers if a deployed service or a listener has it. The rest of the run is
reduced to what it does to ports and to the saved state. A checker container
that dies before it prints makes its check pass (`unseen`), since only its output
is looked at.

### Certificates

A certificate is the CA that signed it, the run that issued it, the key it was
issued for, and the key that lies beside it: one renewed by a later run is
another certificate, and a certificate with somebody else's key is visible. It
lives in three places: the
backup directory of the first etcd host (`tmp`), `/etc/kubernetes/ssl` of every
host (`ssl`) and the cluster's secrets (`secrets`). `StartDeployer`,
`DeployerExits` and `DeployerDone` are `doRunDeployer`: remove a left-over
`cert-deployer`, start one with the certificates in its environment, and wait
for it, host by host in an errgroup. The container itself is external;
`DeployerKilled` stops it after any file, between a certificate and its key too.

`NoState`, `GetClusterState`, `RecoverBackup` and `GenerateCerts` are the ways
to a set of certificates in `SetUpAuthentication`, `ReconcileEtcdCerts` renews
those of the etcd hosts, `BackedUp ... DeployControlPlane` follow `up.go`, and
`SaveClusterCerts`, `SaveState` and `SaveTimeout` are the saves with their
goroutines (`writers`). `ClusterUp` is exported: `embedded` says that a program
that goes on has called it, so that goroutines left by a timeout (`leaked`) are
still there in the next run; with the command they die. What such a goroutine
has written over a newer secret or state is in `late` until it is written again.
An API server loads the CA when it is created, when its host restarts, and when
it is replaced because the etcd hosts in its command line change (`apiEtcd`). A
backup in which one certificate and another's key are missing is "none" or an
error, depending on the order of a Go map. `torn` and `reissued`
record the two excuses of the invariants: a deployer was cut off or read past
while it wrote; or a run took up another CA than the one saved or about to be
saved by a goroutine left behind (`Clash`), or put the backup of a new CA into a
directory that still holds files of an older one. The backup directory is never
emptied, so that with three hosts a later run can recover a mixture; two hosts
do not show it.

### Addons

`Manifest(a)` is the version `cluster.yml` asks for; `cmap[a]` what is in the
config map, `applied[a]` what the job's pod has applied. `StoreAddonConfigMap`,
`ApplyK8sSystemJob` and `EnsureJobCompleted` (with its bounded retries) are
`doAddonDeploy`, in the order of `AddonOrder`; `todo` holds the positions the run
has still to do, `Current` is the first of them. `JobRuns`, `JobCompletes` and
`JobFails` are Kubernetes, at any time, between runs too. `abandoned` records
the add-ons whose run ended before their job did.

## 3. Runs

| Run | Instance | Distinct states | Result |
|---|---|---|---|
| `docker_safety` | 2 images, 2 commands, 3 faults, 1 daemon restart | 310,800 | pass |
| `docker_upgrade_livelock` | 2 images, 2 faults | | `UpgradeLands` violated |
| `cleaner_safety` | the 4 path sets of the code, 2 faults, 1 restart | 139,288 | pass |
| `up_all_pairs` | all 36 two-host configurations and 6 three-host ones, 2 runs, no faults | 156,629 | pass |
| `up_faults` | 5 two-host configurations, 3 runs, 2 faults | 1,798,679 | pass |
| `etcd_cluster` | 3 hosts, 3 runs, 2 faults | 604,627 | pass |
| `planes` | 2 hosts, 6 configurations, 3 runs, 1 fault | 1,750,990 | pass |
| `node_sync` | 2 hosts, 4 configurations, 3 runs, 2 attempts | 876,417 | pass |
| `node_taint_removed` | the same, 2 runs | | `Schedulable` violated |
| `port_check` | 3 hosts, 4 configurations, any firewall, 3 runs, 2 faults | 1,734,816 | pass |
| `certificates` | 2 hosts, an etcd host that joins and leaves, 3 runs, 2 faults | 3,625,513 | pass |
| `addons` | 4 configurations, 2 attempts, 3 runs, 2 faults | 189,606 | pass |

What the passing runs show:

* **Containers.** `OneGeneration`: the old and the new container never run at
  the same time (until a daemon restart). `NeverLost`: no failure loses the last
  container that has run. `RunHonest`: a run left alone that found nothing or a
  running container succeeds only with what was asked for. `ServiceRecovers`:
  reruns bring the service back. `KeepsPromise`: every step is one that
  `ServiceSlot` allows.
* **Clean-up.** `FreshCleanUpCleans`: without a left-over cleaner, success means
  the directories are gone. `CleanUpReturns`: no clean-up hangs.
* **Cluster.** `HostsAsConfigured`: after a successful `up` each host has the
  services of its roles and no others, with an API server that can be reached.
  `ReconfigureSucceeds`: without faults, every `up` that makes a cluster or keeps
  an etcd host of it goes through, so the order of deletions never cuts off the
  API server or the majority it needs. `NodesRegistered`, `UnchangedHostsKept`:
  the Nodes are those configured, and hosts whose roles do not change are left in
  peace. `HostsTracked`: no host with services is forgotten without one of the
  recorded excuses. `RemoveComplete`: what `remove` leaves. `NodesAppear`: every
  host of a successful `up` becomes a Node in the end, its kubelet having been
  started again where its Node was deleted, with a way to a serving API server.
* **Etcd.** `OneQuorum`: never two clusters side by side. `MembersIntact`: while
  the membership changes, every member has its data or is about to get it, but
  for those on hosts an earlier run left unfit (`Residue`) and, during a reload,
  new members added before. `ViewShared`: without faults the fetched state is
  etcd's membership, and every removal is carried out. `CleanRunSucceeds`: which
  left-overs can make a faultless run fail. `MembersJoin`: a success declared on
  one healthy member is followed by all configured hosts in one cluster. All
  but `OneQuorum` are for runs that begin when etcd has come up (not `hasty`).
* **Planes.** `AsConfigured`: success means every service runs in the configured
  version with the configured peers, and serves. `CleanRunSucceeds`: goroutines
  and errgroups do not get in each other's way. `OthersFinished`: a failure on
  one host leaves no other half done. `UnchangedNotRestarted`: a rerun
  interrupts nothing that runs as configured. All of them hold although a machine
  may go away after its tunnel was set up, and come back before the run ends.
* **Nodes.** `LabelsAsConfigured`, `EtcdTainted`: what a successful sync
  guarantees of a Node it found. `ForeignKept`: nobody else's
  write is undone. `RunsEnd`: bounded retries end under unbounded interference.
* **Ports.** `PassMeansOpen`: a passed check means open connections, but
  for a check whose container died before it printed. `ListenersRemoved`: and no
  listener left on the hosts of its plane, those of earlier runs included. `NoFalseAlarm`: a
  working network passes, unless a run was cut off after reconciling.
* **Certificates.** `SecretsCoverState`: a saved state never names an etcd host
  whose certificate is not saved, so it can always be read back. `OneCA`: what a
  run deploys is complete and of one CA, whichever earlier runs died where.
  `DeployedIsSaved`: after success each host has exactly the certificates that
  are in the secrets, and the saved state is the run's own; what a goroutine of an
  earlier run wrote late is at least of the same CA, with its own key.
* **Add-ons.** `AppliedAsCreated`: although every run overwrites the config map
  that a job reads late, an add-on that no run walked away from is applied in
  the version of the run that created its job. `InOrder`: the network plug-in
  and the DNS come first.

What the violation runs show (quotations are in PROJECT.json):

1. A left-over `old-` container makes every later upgrade of the service fail.
2. `doSyncTaints` removes a taint at the index of the wrong list.

Found on the way and not given a run (each is an exemption in a property, with
which the property holds and without which TLC finds the case):

* after a run that stopped between saving its state and starting the kubelets,
  the hosts of the saved state get no listeners, and adding a node fails the
  port check until a run without new hosts is made (`cluster/network.go:255`):
  `NoFalseAlarm`;
* a job that exists counts as applied (`k8s/job.go:28`): after a run that gave up
  waiting, the next one reports success with the job pending or failed;
  `AppliedAsCreated` speaks of add-ons no run has walked away from;
* a run that cannot fetch the state, though etcd has data on the hosts, starts
  new members with the state "new": two etcd clusters; so does a host asked back
  after a removal that was cut off; both are `astray` or `Residue`;
* a removal that was passed over with a warning (`services/etcd.go:160`) leaves
  a member that no run removes any more; the member added next never joins,
  though `rke up` succeeds, because its flags and etcd's membership differ;
* a run that dies between adding a member and starting it leaves a member
  without a name: adding it again is refused for ever, and removing it is not
  possible, as members are looked up by name (`services/etcd.go:148`);
* the next member is added as soon as one member is healthy
  (`services/etcd.go:184`), whether or not the one added before has started:
  during a reload several new members may be missing (`MembersIntact`);
* a member left stopped by a failed update is not started before the membership
  is changed, so that removing another one can cost the majority; and a host
  removed while its data stayed behind does not come up when it is asked back:
  both are `Residue`;
* exchanging all etcd hosts at once fails: requests go through configured hosts
  only;
* a role listed twice passes the validation, and its two goroutines race on one
  host: without any error, an `old-` container can be left that blocks later
  upgrades, or the run waits for ever in `WaitForContainer`;
* all API servers are upgraded at the same time, as control hosts form one
  errgroup, so the cluster is without one for a moment;
* the health check of an API server can be answered by another host's, through
  an nginx-proxy on its port;
* options kept in the Entrypoint (most of them, `ExtraArgs` too) never reach a
  container that runs (`docker/docker.go:296`);
* a stopped container is restarted without comparing its configuration, and
  `DoRemoveContainer` leaves `old-` containers;
* a left-over `kube-cleaner` is rerun with its old paths (`hosts/hosts.go:103`),
  so a clean-up can report success without deleting its directories, or delete
  certificates it should keep: `FreshCleanUpCleans` holds without a left-over;
* `RemoveControlPlane` answers two of its errors with nil
  (`services/controlplane.go:38`, `:57`): the hosts are in `swallowed`;
* an etcd host that becomes a control host without the worker role keeps
  nginx-proxy on port 6443 (`services/controlplane.go:70`), and its API server
  does not serve: `PortTaken` in `ClusterUp` and `Planes`;
* the backup on an etcd host is not deleted with its role, only by `rke remove`
  of a configuration that names the host: a new cluster begun there takes it up,
  with API servers it does not name and a kubeconfig for a host that may no
  longer be a control host, and then fails (`cluster/certificates.go:26`): the
  last two exceptions of `ReconfigureSucceeds`;
* a backup cut off between a certificate and its key makes recovery fail in
  every later run that finds no state (`pki/deploy.go`): these are `torn`;
* when another program embeds `ClusterUp`, a goroutine of a timed-out save may
  overwrite the state of a later run (`cluster/state.go`), or put an older
  certificate, of the kube-apiserver say, over the deployed one
  (`cluster/certificates.go:141`): these are `late` in `DeployedIsSaved`;
* a checker container that is killed prints nothing, and the port check passes
  (`cluster/network.go:456`): `unseen` in `PassMeansOpen`;
* a listener left by a failed run is removed from hosts of its own plane only;
  on a host that has moved to another plane it keeps the port that kubelet or
  nginx-proxy needs (`cluster/network.go:350`): `ListenersRemoved`;
* a run that begins before the last one's members have come up may roll the
  container of a member that has never started, with flags it cannot join with:
  `hasty` in `MembersIntact`, `ViewShared`, `CleanRunSucceeds` and `MembersJoin`;
* a changed add-on is stored in its config map and never applied, as its job
  exists: `AppliedAsCreated` speaks of the run that created the job;
* an etcd host that leaves while its Node cannot be deleted
  (`cluster/reconcile.go`, only a warning) and comes back keeps labels that were
  taken out of `cluster.yml` meanwhile: `lost`;
* the NoExecute taint of an etcd host that became a worker stays if the run that
  would have removed it died after saving;
* `SyncTaints` dereferences nil when its attempts run out.

## 4. Bounds

Faults and reruns are the dimension that matters. Two or three faults reach
"fail, fail again in the recovery, succeed"; three `up` runs reach "build, change
and die, change again". Two hosts suffice for every sharing and moving of roles;
the third host is there for the order of control plane deletions (one that
stays, two that go), for a node that joins beside an old worker, and for an etcd
cluster that grows from one to three members, where the majority changes.
`planes` has one fault per behaviour, as every call of every goroutine is a place
for it; the second and third run then meet what it left. The services somebody
may stop (`Stoppable`) are the API server, the kubelet and nginx-proxy, one of each
kind: the others are run and checked as these are. `Tries` is 6
and the add-ons' `Retries` 5 in the code; 2 is enough for a first failure, a
success after it and giving up.
`MaxRuns`, `MaxFaults` and `MaxRestarts` bound the models, not the code. With
`MaxRuns` used up a model stops, hence `CHECK_DEADLOCK FALSE`; in
`docker_safety` it is there because rke may wait for ever for a container that
a daemon restart has revived.

## 5. Fairness

Only rke's own steps are fair (`CallStep`, `RkeStep`): its code is sequential,
its goroutines are all scheduled, and it waits with timeouts. The exception is
`WaitForContainer` (`docker/docker.go:276`): `DockerContainer` and `Planes` have
rke wait for ever there if the container does not exit; `ClusterUp`, where a
removal is one step, takes it that the container does. In `EtcdCluster` Docker
also restarts an etcd that can come up until it serves (restart policy `always`).
`DockerContainer!FairSpec` also lets the operator rerun `rke up` for
ever, which is what `ServiceRecovers` and `UpgradeLands` are about. In
`HostCleaner` a running `rm -rf` ends. In `ClusterUp` kubelets register. Nothing
is assumed of heartbeats or operators in `NodeSync`, nor of jobs in `Addons`.
`Certificates`, `Planes`, `PortCheck` and the faulty runs of `ClusterUp` check
safety only and assume nothing.

## 6. Proofs

All theorems are about the specification TLC runs, for every value of its
constants: any number of hosts, configurations, runs, faults and retries. The
only hypotheses are the assumptions named in the modules, which TLC evaluates on
every run: bounds are naturals, configurations are well-formed, the names used as
"none" are not hosts. Hosts need not be finitely many, except where the code's
order of hosts is used (`FirstOf` in `Certificates`, `First` in `EtcdCluster`,
`FirstHost` and `LastHost` in `ClusterUp`).

| Module | Theorems | Inductive invariant |
|---|---|---|
| `DockerContainerProofs` | `TypeCorrect`, `OneGenerationHolds`, `NeverLostHolds`, `RunHonestHolds`, `KeepsPromiseHolds` (the refinement); `FreshCleanUpCleansHolds` (of `HostCleaner`) | `TypeOK /\ CallInv /\ ParkedInv /\ NeverLost /\ RunHonest`; `CleanInv` |
| `ClusterUpProofs` | `HostsTrackedHolds`, `HostsAsConfiguredHolds`, `NodesRegisteredHolds`, `RemoveCompleteHolds`, `UnchangedHostsKeptHolds`; `ReconfigureSucceedsHolds` | `UpInv`; `UpInv /\ ReachInv` |
| `AddonsProofs` | `AppliedAsCreatedHolds`, `InOrderHolds` | `AddonInv` |
| `CertificatesProofs` | `SecretsCoverStateHolds`, `OneCAHolds`, `DeployedIsSavedHolds` | `CertInv` |
| `PortCheckProofs` | `PassMeansOpenHolds`, `ListenersRemovedHolds`, `NoFalseAlarmHolds` | `PortInv` |
| `NodeSyncProofs` | `LabelsAsConfiguredHolds`, `EtcdTaintedHolds`, `ForeignKeptHolds` | `NodeInv` |
| `EtcdClusterProofs` | `OneQuorumHolds`, `MembersIntactHolds`, `CleanRunSucceedsHolds`, `ViewSharedHolds` | `EtcdClusterInv`, `FaultFree` |
| `PlanesProofs` | `OthersFinishedHolds`, `UnchangedNotRestartedHolds`; `AsConfiguredHolds`, `CleanRunSucceedsHolds` | `PlanesInv`; `PlanesInv /\ UpInv` |

TLC found each invariant to hold on the instance of the run (the `UpInv` of
`Planes` on one with fewer runs) before it was proved. Each of its conjuncts has
a lemma for the step, with one case per action. What the strengthenings say, and
why the property is not inductive without:

* **Containers.** `CallInv` is what each call has established by each of its
  steps (the container about to be renamed has run; the one about to be started
  was created from the configuration asked for), `ParkedInv` that a parked
  container has been started and then stopped. For the refinement, `CallInv` also
  says which call a step belongs to; a step that changes what is served, prepared
  or kept is then matched with one action of `ServiceSlot`, all others stutter.
* **Clean-up.** `PathInv` and `FreshInv`: the container of an undisturbed clean-up
  has the paths asked for, and after it has exited they are gone.
* **Cluster, whatever fails.** The properties speak of the end of a run, or of
  hosts at rest; between them a run passes through every mixture of the old and
  the new configuration. `BoundInv` says for each stage what a host without an
  excuse may run: the saved roles less what the loops have taken down
  (`LoopFits`), the configured ones while planes are deployed (`DeployFits`), the
  configured ones less what `remove` has taken down (`RemoveFits`). The loops
  decide by the *fetched* roles, which the worker loop changes under way, so
  `LoopInv` says how far `cur` is from the saved state at each point.
  `CompleteInv` is the other bound, what is there by now. `NodeInv` names the only
  moment when a registered kubelet has no Node: between `DeleteNode` and the
  removal of the kubelet on the host a loop is at, provided that the host really
  loses its kubelet. `ProxyInv` is about nginx-proxy and port 6443.
  `UnchangedHostsKept` is then a step property: what a step takes down belongs to
  a role that `LoopInv` says is lost.
* **Cluster, when nothing fails.** `ReconfigureSucceeds` needs to know what every
  step relies on. `MembershipInv` gives etcd's members exactly, from the work
  list: first the saved ones less those already removed, then the configured ones
  less those still to be added; all of them run, so there is a majority whatever
  their number. `AccessInv` keeps a trusted API server behind the kubeconfig until
  the last control host is deleted, and says which certificate an API server has
  that is deployed next. `SettledInv` is what a run leaves to the next,
  `QuietInv` that nothing is skipped unless all etcd hosts are exchanged at once.
* **Add-ons.** `RunInv` says which jobs are complete by the position a run is at,
  `JobInv` that a job that has not run and was not abandoned finds its own version
  in the config map, since the run that would overwrite it still waits.
* **Certificates.** `BaseInv` is about the saving goroutines: whoever has yet to
  write a state has its certificates in the secrets already (`CoverInv`), and
  what a run has written is in place, or `late` (`LatestInv`). `OneCAInv` ties the backup,
  the deployers on their way to it, the secrets and the goroutines to one CA;
  `DeployInv` and `UpInv` follow the certificates to the hosts and to the end of
  the run. The proof of `OneCA` failed for the former meaning of `reissued`, which
  did not see the mixture described under Certificates in section 2.
* **Ports.** `OpenInv`, `ClearInv` and `AnswerInv` say, stage by stage and host by
  host, which connections have been found open, which listeners are gone, and
  which ports answer; `ServiceInv` what the saved state says of services that run.
* **Nodes.** `CopyInv`: rke's copy of a Node differs from it only as the sync
  wants, unless `stale`. `UserInv`: the labels on a Node that `cluster.yml` could
  have put there are in the saved state, unless `lost`. `SyncedInv`: hosts
  already synced stay so while the others' turn comes.
* **Etcd.** `OneCluster`: the data directories and the flags of the containers
  that would found a cluster name one and the same (`Claims`), as long as no
  run's view was wrong; `OneQuorum` follows from it without counting majorities.
  What makes it inductive is that rke's view *is* right: `IdleInv`, `FirstRun`,
  `Membership` and `FlagsInv` say at every stage which hosts are members, in
  terms of the work list of the stage, and which flags the containers of hosts
  without data have. `PeerInv` is the delicate part: while flags are being
  reloaded, the members that still have the old ones are a minority, so that a
  member with the new ones is left to join through. `NamesInv` (a majority has
  published its names) is why a member to be removed is found by name, and
  `FaultFree` why, without faults, nothing else is ever in a run's way.
* **Planes, hosts left alone.** The argument is about one *calm* host, neither
  `struck` nor `raced`. There a single goroutine works at a time
  (`OneGoroutine`), so what it found out about its container still holds at its
  next call: `StepOK` gives the state of the container, of its parked predecessor
  and of the sidekick at each step, and every other service is `Settled`. Each
  Docker call has one lemma (`...Effect`): what it leaves alone (`Frame`), and
  that on a calm host it prepares the next step or settles the service, and
  spares what runs as configured.
* **Planes, what a run achieves.** `AsConfigured` and `CleanRunSucceeds` are about
  every host, whatever earlier runs left there and however many goroutines are
  at work on it. A health check passed proves little: the next errgroup, or the
  second goroutine of a role listed twice, may replace the container. So `UpInv`
  speaks of services that are *due* (some entry of a stage entered has to see to
  them, without an error or an excuse so far): once a goroutine has looked at
  such a service it runs or somebody is about to start it (`RunsInv`), once
  brought up it is as configured or somebody is about to replace it
  (`WantedInv`), and where nobody races, once gone on from it keeps its port
  (`ServesInv`). With the last errgroup over there is nobody left.
  `ProxyInv` and `OldInv` say which process can have the port instead, `CleanInv`
  what the calls of a run without faults find, and `FailInv` that what hindered
  such a run is still there at its end. Here each Docker call has a lemma
  `...Deed`: it gives up over an obstacle, looks, works on the container,
  finishes the service or passes on to the next.

Proof attempts corrected the models in seven places: the order of hosts in
`NodeSync` was fixed and is now any; `lost` did not cover a host that leaves with
its Node; `reissued` did not cover the mixed backup; `MembersIntact` took it that at most one member is
missing, and `CleanRunSucceeds` of `EtcdCluster` overlooked stopped members, both
refuted on larger instances; and in `Planes` a machine that came back after a run
had failed over it took away the reason for that failure (a second fault, which
the instance of the run does not have), so a change of a machine now ends the
claim that the last run was `clean`; and `ReconfigureSucceeds` was stated of the
state after a run, with no regard to what earlier runs had left, and fails in a
third run, for instance with an old backup: it is now a property of the step
that ends the run, names the backup's two exceptions, and covers first runs too.
TLC finds it to hold, beside the instances of the runs, on three runs over all
two-host configurations.

## 7. State of the project

All components that keep state are modelled, and every safety property the
passing runs check is also a theorem, `OneQuorum` for runs that are not `hasty`.
What TLC checks alone is liveness, and `OneQuorum` after a `hasty` run.

## 8. Not modelled

The manifests in `templates/` and the RBAC resources (static text; that they are
applied, in which order and version, is in `Addons`); defaults, the interactive
configuration (`cmd/config.go`) and validations that compare one option with
constants; SSH keys, TLS and cryptography; two nodes with the same address; the
thin wrappers of the Kubernetes client; the command line; vendored code.
`rke up --local` is a cluster of one host. Image pre-pull, `rke version` and the
reading of files and logs change nothing on the hosts.

Liveness (`ServiceRecovers`, `CleanUpReturns`, `MembersJoin`, `NodesAppear` of
`ClusterUp` and `RunsEnd` of `NodeSync`) is checked by TLC only: the prover has no rules for
fairness. So is `ListsAssumption`: the list computations (`HostLists`) filter
sequences with `SelectSeq`, which is recursive, and what they return for every
input would need induction over data.
