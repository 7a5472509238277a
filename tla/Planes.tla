------------------------------- MODULE Planes -------------------------------
(***************************************************************************)
(* How "rke up" brings the services of the control and worker planes to    *)
(* the configured version on all hosts: ParseCluster, TunnelHosts,         *)
(* RunControlPlane and RunWorkerPlane with doDeployControlHost,            *)
(* doDeployWorkerPlane and the run functions of services/.                 *)
(*                                                                         *)
(* Every entry of a host's role list gets a goroutine of its own, which    *)
(* makes the Docker calls of its services in turn and polls the health     *)
(* check of each.  Each call is a step, so that goroutines interleave at   *)
(* the calls.  An errgroup ends when all its goroutines have; the control  *)
(* hosts form one, then the etcd, control and worker hosts one each.       *)
(*                                                                         *)
(* Between two runs no host loses a role: taking services down is the      *)
(* subject of ClusterUp.  Etcd is up (EtcdCluster), certificates are in    *)
(* place (Certificates), and a pull belongs to the call that follows it    *)
(* (DockerContainer).  Docker and the services' processes are external.    *)
(***************************************************************************)
EXTENDS Naturals, FiniteSets, Sequences

CONSTANTS
    Hosts,      \* the machines
    Configs,    \* cluster.yml: version, roles, ignore_docker_version
    Stoppable,  \* services that somebody may stop
    MaxRuns,    \* bound on the number of "rke up"
    MaxFaults   \* bound on errors, crashes and interference

Roles == {"etcd", "controlplane", "worker"}

\* The services with a container that runs, and the one that only lends its
\* volumes.
Running == {"api", "controller", "scheduler", "kubelet", "kubeproxy", "nginx"}
Services == Running \cup {"sidekick"}

\* The name a rolling update parks the previous container of a service under.
OldName == [api |-> "old-kube-api", controller |-> "old-kube-controller",
            scheduler |-> "old-scheduler", kubelet |-> "old-kubelet",
            kubeproxy |-> "old-kube-proxy", nginx |-> "old-nginx-proxy"]
Names == Services \cup {OldName[s] : s \in Running}

\* How often the role is on the host's list in cluster.yml (InvertIndexHosts).
Times(c, role) ==
    [h \in Hosts |-> Cardinality({i \in DOMAIN c.roles[h] :
                                     c.roles[h][i] = role})]
Is(c, h, role) == \E i \in DOMAIN c.roles[h] : c.roles[h][i] = role
HostsOf(c) == {h \in Hosts : c.roles[h] # <<>>}

\* Errgroup members: host, role, and how many entries of it came before.
Entries == Hosts \X Roles \X {1, 2}

ASSUME PlanesAssumption ==
    /\ \A c \in Configs : /\ c.version \in Nat \ {0}
                          /\ c.roles \in [Hosts -> Seq(STRING)]
                          /\ c.ignore \in BOOLEAN
                          /\ \A r \in Roles : \A h \in Hosts :
                                Times(c, r)[h] <= 2
    /\ Stoppable \subseteq Running
    /\ MaxRuns \in Nat /\ MaxFaults \in Nat

VARIABLES
    ctr,        \* ctr[h][n]: the container called n on h
    serving,    \* serving[h]: containers whose process has its port
    machine,    \* machine[h]: "ok", "down", or "old" (unsupported Docker)
    pc,         \* stage of the run
    conf,       \* cluster.yml of the run
    task,       \* task[e]: what the goroutine of entry e has left to do
    failed,     \* a goroutine of the errgroup returned an error
    \* history
    runs, faults,
    clean,      \* no error, crash or interference in this run
    result,     \* how the last run ended
    struck,     \* hosts with a failed call or a run killed at work on them
    raced,      \* hosts on which two goroutines of one errgroup worked
    excused     \* services found stopped, or stopped by others, in this run

hostVars == <<ctr, serving, machine>>
vars == <<hostVars, pc, conf, task, failed, runs, faults, clean, result,
          struck, raced, excused>>

NoContainer == [st |-> "absent", version |-> 0, cmd |-> {}]
Done == [ops |-> <<>>, step |-> "done"]
NoConfig == [version |-> 1, roles |-> [h \in Hosts |-> <<>>], ignore |-> FALSE]

Init ==
    /\ ctr = [h \in Hosts |-> [n \in Names |-> NoContainer]]
    /\ serving = [h \in Hosts |-> {}]
    /\ machine = [h \in Hosts |-> "ok"]
    /\ pc = "idle" /\ conf = NoConfig
    /\ task = [e \in Entries |-> Done] /\ failed = FALSE
    /\ runs = 0 /\ faults = 0 /\ clean = TRUE /\ result = "none"
    /\ struck = {} /\ raced = {} /\ excused = {}

\* The goroutines of the errgroup that have not returned.
AtWork == {e \in Entries : task[e] # Done}

-----------------------------------------------------------------------------
(* External: processes and their ports.                                     *)

\* Every service has a port of its own on the host, except that the API server
\* and nginx-proxy share 6443.
Rivals ==
    [s \in Running |->
        LET port == IF s \in {"api", "nginx"} THEN {"api", "nginx"} ELSE {s}
        IN  port \cup {OldName[p] : p \in port}]

\* The container called n, which is of service s, runs and its port is free.
CanServe(h, s, n) ==
    /\ ctr[h][n].st = "running"
    /\ Rivals[s] \cap serving[h] = {}

Serve(h, s, n) ==
    /\ CanServe(h, s, n)
    /\ serving' = [serving EXCEPT ![h] = @ \cup {n}]
    /\ UNCHANGED <<ctr, machine, pc, conf, task, failed, runs, faults, clean,
                   result, struck, raced, excused>>

\* What GET /healthz finds on the port of s: the service, whichever container
\* it is in, or for the API server another one behind nginx-proxy.
Healthy(h, s) ==
    \/ {s, OldName[s]} \cap serving[h] # {}
    \/ /\ s = "api" /\ "nginx" \in serving[h]
       /\ \E a \in Hosts \cap ctr[h]["nginx"].cmd : "api" \in serving[a]

-----------------------------------------------------------------------------
(* A run.                                                                   *)

Fault == faults < MaxFaults /\ faults' = faults + 1 /\ clean' = FALSE
NoFault == UNCHANGED <<faults, clean>>

End(how) ==
    /\ pc' = "idle" /\ result' = how
    /\ task' = [e \in Entries |-> Done] /\ failed' = FALSE

StartUp(c) ==
    /\ pc = "idle" /\ runs < MaxRuns
    /\ \A h \in Hosts : \A r \in Roles : Is(conf, h, r) => Is(c, h, r)
    /\ pc' = "parse" /\ conf' = c
    /\ runs' = runs + 1
    /\ clean' = TRUE /\ result' = "none" /\ excused' = {}
    /\ UNCHANGED <<hostVars, task, failed, faults, struck, raced>>

\* Both InvertIndexHosts and validateHostsOptions see to it.
RolesKnown(c) ==
    \A h \in Hosts : \A i \in DOMAIN c.roles[h] : c.roles[h][i] \in Roles

ValidateCluster(c) ==
    /\ RolesKnown(c)
    /\ \E h \in Hosts : Is(c, h, "controlplane")
    /\ \E h \in Hosts : Is(c, h, "etcd")

\* SSH, and the Docker socket behind it.
DialDocker(h) == machine[h] # "down"

CheckDockerVersion(h) == machine[h] = "old" => conf.ignore

TunnelUp(h) == DialDocker(h) /\ CheckDockerVersion(h)

TunnelHosts == \A h \in HostsOf(conf) : TunnelUp(h)

-----------------------------------------------------------------------------
(* What a goroutine does.                                                   *)

\* Mutant of ControlOps: nginx-proxy is left where it is.
ControlOpsKeepProxy(h) == <<"sidekick", "api", "controller", "scheduler">>

\* doDeployControlHost.
ControlOps(h) ==
    (IF Is(conf, h, "worker") THEN <<"remove_nginx">> ELSE <<>>) \o
    <<"sidekick", "api", "controller", "scheduler">>

\* doDeployWorkerPlane.
WorkerOps(h) ==
    (IF Is(conf, h, "controlplane") THEN <<>> ELSE <<"nginx">>) \o
    <<"sidekick", "kubelet", "kubeproxy">>

Begin(ops) ==
    [ops |-> ops,
     step |-> CASE ops = <<>> -> "done"
                [] ops # <<>> /\ Head(ops) = "remove_nginx" -> "rm_inspect"
                [] ops # <<>> /\ Head(ops) = "sidekick" -> "sidekick_list"
                [] OTHER -> "inspect"]

\* Mutant of Members: no Wait between the etcd and the control hosts.
MembersTogether(stage) ==
    {e \in Entries :
        /\ e[3] <= Times(conf, e[2])[e[1]]
        /\ e[2] \in CASE stage = "control" -> {"controlplane"}
                      [] stage = "worker_etcd" -> {"etcd", "controlplane"}
                      [] stage = "worker_control" -> {}
                      [] stage = "worker_worker" -> {"worker"}}

\* The entries the errgroup of a stage has a goroutine for.
Members(stage) ==
    {e \in Entries :
        /\ e[3] <= Times(conf, e[2])[e[1]]
        /\ e[2] = CASE stage = "control" -> "controlplane"
                    [] stage = "worker_etcd" -> "etcd"
                    [] stage = "worker_control" -> "controlplane"
                    [] stage = "worker_worker" -> "worker"}

After == [parse |-> "control", control |-> "worker_etcd",
          worker_etcd |-> "worker_control", worker_control |-> "worker_worker",
          worker_worker |-> "end"]

Enter(stage) ==
    /\ pc' = stage
    /\ task' = [e \in Entries |->
                   IF e \notin Members(stage) THEN Done
                   ELSE Begin(IF stage = "control" THEN ControlOps(e[1])
                              ELSE WorkerOps(e[1]))]
    /\ raced' = raced \cup {h \in Hosts : \E r \in Roles :
                                             <<h, r, 2>> \in Members(stage)}
    /\ UNCHANGED <<failed, result>>

ParseAndTunnel ==
    /\ pc = "parse"
    /\ \/ /\ ValidateCluster(conf) /\ TunnelHosts
          /\ Enter("control")
       \/ /\ ~(ValidateCluster(conf) /\ TunnelHosts)
          /\ End("err")
          /\ UNCHANGED raced
    /\ NoFault
    /\ UNCHANGED <<hostVars, conf, runs, struck, excused>>

\* Mutant of Wait: the first error ends the run.
WaitFirstError ==
    /\ pc \in DOMAIN After \ {"parse"}
    /\ failed \/ AtWork = {}
    /\ IF failed THEN End("err") /\ UNCHANGED raced
       ELSE IF After[pc] = "end" THEN End("up") /\ UNCHANGED raced
       ELSE Enter(After[pc])
    /\ NoFault
    /\ UNCHANGED <<hostVars, conf, runs, struck, excused>>

\* errgrp.Wait.
Wait ==
    /\ pc \in DOMAIN After \ {"parse"}
    /\ AtWork = {}
    /\ IF failed THEN End("err") /\ UNCHANGED raced
       ELSE IF After[pc] = "end" THEN End("up") /\ UNCHANGED raced
       ELSE Enter(After[pc])
    /\ NoFault
    /\ UNCHANGED <<hostVars, conf, runs, struck, excused>>

-----------------------------------------------------------------------------
(* One Docker call of the goroutine of entry e.                             *)

\* The image and the Cmd the run functions ask for.  Of the Cmds only that of
\* the API server (--etcd-servers) and that of nginx-proxy (CP_HOSTS) follow
\* the hosts; in them an entry listed twice is there twice.  The authorization
\* mode, also in a Cmd, stays as it is; most options are in the Entrypoint,
\* which IsContainerUpgradable does not compare.
Listed(role) == {h \in Hosts : Is(conf, h, role)} \cup
                {<<h, 2>> : h \in {x \in Hosts : Times(conf, role)[x] = 2}}

BuildKubeAPIConfig == [version |-> conf.version, cmd |-> Listed("etcd")]
BuildKubeControllerConfig == [version |-> conf.version, cmd |-> {}]
BuildSchedulerConfig == [version |-> conf.version, cmd |-> {}]
BuildKubeletConfig == [version |-> conf.version, cmd |-> {}]
BuildKubeproxyConfig == [version |-> conf.version, cmd |-> {}]
BuildNginxProxyConfig == [version |-> 1, cmd |-> Listed("controlplane")]
BuildSidekickConfig == [version |-> 1, cmd |-> {}]

Want(s) ==
    CASE s = "api" -> BuildKubeAPIConfig
      [] s = "controller" -> BuildKubeControllerConfig
      [] s = "scheduler" -> BuildSchedulerConfig
      [] s = "kubelet" -> BuildKubeletConfig
      [] s = "kubeproxy" -> BuildKubeproxyConfig
      [] s = "nginx" -> BuildNginxProxyConfig
      [] s = "sidekick" -> BuildSidekickConfig
AsWanted(h, s) ==
    ctr[h][s].version = Want(s).version /\ ctr[h][s].cmd = Want(s).cmd
Create(s, status) ==
    [st |-> status, version |-> Want(s).version, cmd |-> Want(s).cmd]

Svc(e) == IF Head(task[e].ops) = "remove_nginx" THEN "nginx"
          ELSE Head(task[e].ops)
Ctr(e) == ctr[e[1]][Svc(e)]

Goto(e, step) ==
    /\ task' = [task EXCEPT ![e].step = step]
    /\ NoFault
    /\ UNCHANGED <<failed, struck>>

NextOp(e) ==
    /\ task' = [task EXCEPT ![e] = Begin(Tail(task[e].ops))]
    /\ NoFault
    /\ UNCHANGED <<failed, struck>>

\* The goroutine returns an error: of a call that cannot work, or a fault.
Fails(e) ==
    /\ task' = [task EXCEPT ![e] = Done]
    /\ failed' = TRUE

Refused(e) == Fails(e) /\ NoFault /\ UNCHANGED struck

SetCtr(e, new) ==
    /\ ctr' = [ctr EXCEPT ![e[1]][Svc(e)] = new]
    /\ serving' = IF new.st = "running" THEN serving
                  ELSE [serving EXCEPT ![e[1]] = @ \ {Svc(e)}]

Kept == UNCHANGED <<ctr, serving>>

\* After DoRunContainer comes the health check, but for nginx-proxy.
RunDone(e) == IF Svc(e) = "nginx" THEN NextOp(e) ELSE Goto(e, "check")

At(e, step) == task[e].step = step
Others == <<machine, pc, conf, runs, result, raced, excused>>

\* DoRunContainer.  A container that does not run is started as it is.
Inspect(e) ==
    /\ At(e, "inspect")
    /\ \/ /\ Ctr(e).st = "absent"
          /\ Goto(e, "create")
          /\ Kept /\ UNCHANGED excused
       \/ /\ Ctr(e).st = "running"
          /\ Goto(e, "compare")
          /\ Kept /\ UNCHANGED excused
       \/ /\ Ctr(e).st \in {"created", "exited"}
          /\ Goto(e, "restart")
          /\ excused' = excused \cup {<<e[1], Svc(e)>>}
          /\ Kept
    /\ UNCHANGED <<machine, pc, conf, runs, result, raced>>

\* The start is by id: it follows a container that has been renamed meanwhile.
Restart(e) ==
    /\ At(e, "restart") \/ At(e, "restart_old")
    /\ LET n == IF At(e, "restart") THEN Svc(e) ELSE OldName[Svc(e)] IN
       \/ ctr[e[1]][n].st = "absent" /\ Refused(e) /\ Kept
       \/ /\ ctr[e[1]][n].st # "absent"
          /\ ctr' = [ctr EXCEPT ![e[1]][n].st = "running"]
          /\ RunDone(e)
          /\ UNCHANGED serving
    /\ UNCHANGED Others

\* Mutant of Compare: whatever runs is rolled.
CompareAlways(e) ==
    /\ At(e, "compare")
    /\ Goto(e, "list")
    /\ Kept /\ UNCHANGED Others

\* IsContainerUpgradable.
Compare(e) ==
    /\ At(e, "compare")
    /\ CASE Ctr(e).st = "absent" -> Refused(e)
         [] Ctr(e).st # "absent" /\ AsWanted(e[1], Svc(e)) -> RunDone(e)
         [] OTHER -> Goto(e, "list")
    /\ Kept /\ UNCHANGED Others

\* DoRollingUpdateContainer: nothing to do for a container that has stopped.
RollList(e) ==
    /\ At(e, "list")
    /\ IF Ctr(e).st = "running" THEN Goto(e, "stop") ELSE RunDone(e)
    /\ Kept /\ UNCHANGED Others

\* A container that was never started is not changed by stopping it.
Stopped(c) == IF c.st = "created" THEN c ELSE [c EXCEPT !.st = "exited"]

RollStop(e) ==
    /\ At(e, "stop")
    /\ \/ Ctr(e).st = "absent" /\ Refused(e) /\ Kept
       \/ /\ Ctr(e).st # "absent"
          /\ SetCtr(e, Stopped(Ctr(e)))
          /\ Goto(e, "wait")
    /\ UNCHANGED Others

\* WaitForContainer has no timeout, and an error of it is not passed on.
RollWait(e) ==
    /\ At(e, "wait") /\ Ctr(e).st # "running"
    /\ Goto(e, IF Ctr(e).st = "absent" THEN "roll_create" ELSE "rename")
    /\ Kept /\ UNCHANGED Others

Parked(e) == ctr[e[1]][OldName[Svc(e)]]

RollRename(e) ==
    /\ At(e, "rename")
    /\ LET ok == Ctr(e).st # "absent" /\ Parked(e).st = "absent" IN
       \/ ~ok /\ Refused(e) /\ Kept
       \/ /\ ok
          /\ ctr' = [ctr EXCEPT ![e[1]][Svc(e)] = NoContainer,
                                ![e[1]][OldName[Svc(e)]] = Ctr(e)]
          /\ serving' = [serving EXCEPT ![e[1]] = @ \ {Svc(e)}]
          /\ task' = [o \in Entries |->
                        CASE o = e -> [task[o] EXCEPT !.step = "roll_create"]
                          [] /\ o \in AtWork \ {e} /\ o[1] = e[1]
                             /\ At(o, "restart") /\ Svc(o) = Svc(e)
                             -> [task[o] EXCEPT !.step = "restart_old"]
                          [] OTHER -> task[o]]
          /\ NoFault
          /\ UNCHANGED <<failed, struck>>
    /\ UNCHANGED Others

\* A name can be used once, and VolumesFrom needs the sidekick.
CreateContainer(e) ==
    /\ At(e, "create") \/ At(e, "roll_create")
    /\ LET ok == /\ Ctr(e).st = "absent"
                 /\ Svc(e) # "nginx" => ctr[e[1]]["sidekick"].st # "absent"
       IN
       \/ ~ok /\ Refused(e) /\ Kept
       \/ /\ ok
          /\ SetCtr(e, Create(Svc(e), "created"))
          /\ Goto(e, IF At(e, "create") THEN "start" ELSE "roll_start")
    /\ UNCHANGED Others

StartContainer(e) ==
    /\ At(e, "start") \/ At(e, "roll_start")
    /\ \/ Ctr(e).st = "absent" /\ Refused(e) /\ Kept
       \/ /\ Ctr(e).st # "absent"
          /\ SetCtr(e, [Ctr(e) EXCEPT !.st = "running"])
          /\ IF At(e, "start") THEN RunDone(e) ELSE Goto(e, "drop")
    /\ UNCHANGED Others

\* A container that runs is not removed.
RollRemove(e) ==
    /\ At(e, "drop")
    /\ \/ Parked(e).st \in {"absent", "running"} /\ Refused(e) /\ Kept
       \/ /\ Parked(e).st \notin {"absent", "running"}
          /\ ctr' = [ctr EXCEPT ![e[1]][OldName[Svc(e)]] = NoContainer]
          /\ RunDone(e)
          /\ UNCHANGED serving
    /\ UNCHANGED Others

-----------------------------------------------------------------------------
(* The other operations of a goroutine.                                     *)

\* runSidekick.
RunSidekick(e) ==
    /\ \/ /\ At(e, "sidekick_list")
          /\ IF Ctr(e).st = "absent" THEN Goto(e, "sidekick_create")
             ELSE NextOp(e)
          /\ Kept
       \/ /\ At(e, "sidekick_create") /\ Ctr(e).st = "absent"
          /\ SetCtr(e, Create("sidekick", "created"))
          /\ NextOp(e)
       \/ /\ At(e, "sidekick_create") /\ Ctr(e).st # "absent"
          /\ Refused(e)
          /\ Kept
    /\ UNCHANGED Others

\* removeNginxProxy: inspect, stop, remove.
RemoveNginxProxy(e) ==
    /\ \/ /\ At(e, "rm_inspect")
          /\ IF Ctr(e).st = "absent" THEN NextOp(e) ELSE Goto(e, "rm_stop")
          /\ Kept
       \/ /\ At(e, "rm_stop") /\ Ctr(e).st # "absent"
          /\ SetCtr(e, Stopped(Ctr(e)))
          /\ Goto(e, "rm")
       \/ /\ At(e, "rm") /\ Ctr(e).st \notin {"absent", "running"}
          /\ SetCtr(e, NoContainer)
          /\ NextOp(e)
       \/ /\ \/ At(e, "rm_stop") /\ Ctr(e).st = "absent"
             \/ At(e, "rm") /\ Ctr(e).st \in {"absent", "running"}
          /\ Refused(e)
          /\ Kept
    /\ UNCHANGED Others

\* No process is starting and no other goroutine is about to change that:
\* ten attempts of the health check find what one would.
Quiet(e) ==
    /\ \A h \in Hosts : \A s \in Running :
          ~CanServe(h, s, s) /\ ~CanServe(h, s, OldName[s])
    /\ \A o \in AtWork \ {e} : At(o, "check")

\* runHealthcheck: up to ten attempts.
RunHealthcheck(e) ==
    /\ At(e, "check")
    /\ \/ /\ Healthy(e[1], Svc(e))
          /\ NextOp(e)
       \/ /\ ~Healthy(e[1], Svc(e)) /\ Fails(e)
          /\ IF Quiet(e) THEN NoFault /\ UNCHANGED struck
             ELSE Fault /\ struck' = struck \cup {e[1]}
    /\ Kept /\ UNCHANGED Others

\* A call fails and has changed nothing: by a fault of its own, or because the
\* machine has gone since its tunnel was set up.
CallFails(e) ==
    /\ \/ DialDocker(e[1]) /\ Fault
       \/ ~DialDocker(e[1]) /\ clean' = FALSE /\ UNCHANGED faults
    /\ Fails(e)
    /\ struck' = struck \cup {e[1]}
    /\ Kept /\ UNCHANGED Others

\* The Docker client and the health check's dialer are those of the tunnel.
TaskStep(e) ==
    /\ DialDocker(e[1])
    /\ \/ Inspect(e) \/ Restart(e) \/ Compare(e) \/ RollList(e) \/ RollStop(e)
       \/ RollWait(e) \/ RollRename(e) \/ CreateContainer(e) \/ StartContainer(e)
       \/ RollRemove(e) \/ RunSidekick(e) \/ RemoveNginxProxy(e)
       \/ RunHealthcheck(e)

-----------------------------------------------------------------------------
(* Interference.                                                            *)

\* rke is killed with all its goroutines.
Abort ==
    /\ pc # "idle"
    /\ Fault /\ End("err")
    /\ struck' = struck \cup {e[1] : e \in AtWork}
    /\ UNCHANGED <<hostVars, conf, runs, raced, excused>>

\* Somebody stops a service.
ServiceStops(h, s) ==
    /\ Fault
    /\ s \in Stoppable /\ ctr[h][s].st = "running"
    /\ ctr' = [ctr EXCEPT ![h][s].st = "exited"]
    /\ serving' = [serving EXCEPT ![h] = @ \ {s}]
    /\ struck' = struck \cup {h}
    /\ excused' = excused \cup {<<h, s>>}
    /\ UNCHANGED <<machine, pc, conf, task, failed, runs, result, raced>>

\* At any time a machine goes out of reach, its containers unharmed, and between
\* two runs it may get another Docker.
MachineChanges(h) ==
    /\ Fault
    /\ \E m \in {"down", "old"} \ {machine[h]} :
          /\ m = "old" => pc = "idle"
          /\ machine' = [machine EXCEPT ![h] = m]
    /\ UNCHANGED <<ctr, serving, pc, conf, task, failed, runs, result, struck,
                   raced, excused>>

\* It is put right, again at any time.
MachineReturns(h) ==
    /\ machine[h] # "ok" /\ machine' = [machine EXCEPT ![h] = "ok"]
    /\ clean' = FALSE
    /\ UNCHANGED <<ctr, serving, pc, conf, task, failed, runs, faults, result,
                   struck, raced, excused>>

-----------------------------------------------------------------------------
Next ==
    \/ \E c \in Configs : StartUp(c)
    \/ ParseAndTunnel \/ Wait
    \/ \E e \in AtWork : TaskStep(e) \/ CallFails(e)
    \/ Abort
    \/ \E h \in Hosts : \/ \E s \in Running :
                              \/ Serve(h, s, s) \/ Serve(h, s, OldName[s])
                              \/ ServiceStops(h, s)
                        \/ MachineChanges(h) \/ MachineReturns(h)

Spec == Init /\ [][Next]_vars

-----------------------------------------------------------------------------
(* Properties.                                                              *)

\* The services a configured host must run.
Required(h) ==
    (IF Is(conf, h, "controlplane") THEN {"api", "controller", "scheduler"}
     ELSE {"nginx"}) \cup {"kubelet", "kubeproxy"}

\* A promoted etcd host that is no worker keeps nginx-proxy on the API
\* server's port.
PortTaken(h) ==
    /\ Is(conf, h, "controlplane") /\ ~Is(conf, h, "worker")
    /\ ctr[h]["nginx"].st # "absent"

\* An interrupted update has left its old-<service> on the host.
LeftOver(h) == \E s \in Running : ctr[h][OldName[s]].st # "absent"

\* After a successful run every service of every configured host runs in the
\* configured version, with the configured peers, and serves; but for those
\* that the run found stopped (and started as they were) or somebody stopped
\* meanwhile; and on a promoted etcd host, or where a role was listed twice,
\* another container may have the port.
AsConfigured ==
    result = "up" =>
        \A h \in HostsOf(conf) : \A s \in Required(h) :
            \/ <<h, s>> \in excused
            \/ /\ ctr[h][s].st = "running" /\ AsWanted(h, s)
               /\ \/ s \in serving[h]
                  \/ s = "nginx" \/ h \in raced
                  \/ s = "api" /\ PortTaken(h)

\* A run without faults of its own goes through: its goroutines do not get in
\* each other's way, although a host with several roles is in several
\* errgroups.  It may fail over an invalid configuration, a machine out of
\* reach, an old-<service> left behind, a taken port, or a role listed twice.
CleanRunSucceeds ==
    (result = "err" /\ clean)
    => \/ ~ValidateCluster(conf)
       \/ \E h \in HostsOf(conf) :
             \/ ~TunnelUp(h) \/ LeftOver(h) \/ PortTaken(h)
             \/ h \in raced

\* A failure on one host never leaves another one half done: where all calls
\* went through, every container runs and nothing is left of an update.
OthersFinished ==
    pc = "idle" =>
        \A h \in Hosts \ (struck \cup raced) :
            ~LeftOver(h) /\ \A s \in Running :
                               ctr[h][s].st \in {"absent", "running"}

\* No run touches a container that runs as configured, on any host where
\* nobody interferes and no role is listed twice: rerunning "rke up" interrupts
\* nothing.
UnchangedNotRestarted ==
    [][pc # "idle" =>
        \A h \in HostsOf(conf) \ (struck' \cup raced) : \A s \in Required(h) :
            (ctr[h][s].st = "running" /\ AsWanted(h, s))
            => ctr'[h][s] = ctr[h][s]]_vars
=============================================================================
