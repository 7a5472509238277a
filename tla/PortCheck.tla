------------------------------ MODULE PortCheck ------------------------------
(***************************************************************************)
(* CheckClusterPorts of cluster/network.go.  Before "rke up" changes       *)
(* anything it starts listener containers on the ports the services will   *)
(* use, connects to them from the hosts that will need them, and removes   *)
(* them again.  A run that adds no host to a plane skips all of this; one  *)
(* that does starts listeners on the new hosts only, counting on the       *)
(* services of the others to answer, and then checks every host.           *)
(*                                                                         *)
(* A port is named by the plane whose service listens on it: etcd's client *)
(* and peer ports, the API server's and the kubelet's.  The rest of a run  *)
(* deploys the services, saving the state half way.                        *)
(***************************************************************************)
EXTENDS Naturals

CONSTANTS
    Hosts,      \* the machines
    Configs,    \* the roles of the hosts, as the operator may configure them
    MaxRuns,    \* bound on the number of "rke up" runs
    MaxFaults   \* bound on errors and crashes

Planes == {"etcd", "controlplane", "worker"}
NoConfig == [h \in Hosts |-> {}]

ASSUME PortAssumption ==
    /\ Configs \subseteq [Hosts -> SUBSET Planes]
    /\ MaxRuns \in Nat /\ MaxFaults \in Nat

VARIABLES
    listener,  \* listener[h][p]: the container for port p on h
    serves,    \* serves[h]: ports on which h's deployed services listen
    blocked,   \* pairs of hosts between which a firewall stops connections
    saved,     \* roles in the saved cluster state
    pc,        \* stage of the run
    group,     \* hosts left in the current errgroup
    failed,    \* a member of it returned an error
    conf, cur, \* roles in cluster.yml and in the fetched state
    checked,   \* the run has gone through the checks
    alarm,     \* a check of this run failed on a connection no firewall stops
    unseen,    \* checks of this run, by stage and host, that died unfinished
    runs, faults,
    result,
    cut        \* a run ended between reconciling and having deployed workers

netVars == <<listener, serves, blocked>>
vars == <<netVars, saved, pc, group, failed, conf, cur, checked, alarm, unseen,
          runs, faults, result, cut>>

On(plane, c) == {h \in Hosts : plane \in c[h]}
HostsOf(c) == {h \in Hosts : c[h] # {}}

\* The hosts a firewall may separate; a host always reaches itself.
Pairs == {p \in Hosts \X Hosts : p[1] # p[2]}

Init ==
    /\ listener = [h \in Hosts |-> [p \in Planes |-> "absent"]]
    /\ serves = [h \in Hosts |-> {}]
    /\ blocked \in SUBSET Pairs
    /\ saved = NoConfig /\ conf = NoConfig /\ cur = NoConfig
    /\ pc = "idle" /\ group = {} /\ failed = FALSE
    /\ checked = FALSE /\ alarm = FALSE /\ unseen = {}
    /\ runs = 0 /\ faults = 0 /\ result = "none" /\ cut = FALSE

-----------------------------------------------------------------------------
(* The stages of CheckClusterPorts, each an errgroup over the hosts of a     *)
(* plane of cluster.yml.                                                    *)

\* deployTCPPortListeners
DeployStages == [deploy_etcd |-> "etcd", deploy_control |-> "controlplane",
                 deploy_worker |-> "worker"]

\* runServicePortChecks: from the hosts of one plane to the port of another.
CheckStages ==
    [etcd_etcd      |-> <<"etcd", "etcd">>,
     control_etcd   |-> <<"controlplane", "etcd">>,
     worker_etcd    |-> <<"worker", "etcd">>,
     control_worker |-> <<"controlplane", "worker">>,
     worker_control |-> <<"worker", "controlplane">>]

\* removeTCPPortListeners
RemoveStages == [remove_etcd |-> "etcd", remove_control |-> "controlplane",
                 remove_worker |-> "worker"]

\* The order of the stages.
After ==
    [deploy_etcd |-> "deploy_control", deploy_control |-> "deploy_worker",
     deploy_worker |-> "etcd_etcd", etcd_etcd |-> "control_etcd",
     control_etcd |-> "worker_etcd", worker_etcd |-> "control_worker",
     control_worker |-> "worker_control", worker_control |-> "api_port",
     remove_etcd |-> "remove_control", remove_control |-> "remove_worker",
     remove_worker |-> "reconcile"]

\* Mutant of NewHosts: the control plane is forgotten.
NewHostsNoControl(plane) ==
    IF cur = NoConfig THEN On(plane, conf)
    ELSE IF plane = "controlplane" THEN {} ELSE On(plane, conf) \ On(plane, cur)

\* The hosts that need a listener: all of a new cluster, else the added ones.
NewHosts(plane) ==
    IF cur = NoConfig THEN On(plane, conf) ELSE On(plane, conf) \ On(plane, cur)

\* Mutant of GroupOf: listeners are removed from new hosts only.
GroupOfNew(stage) ==
    IF stage \in DOMAIN DeployStages THEN NewHosts(DeployStages[stage])
    ELSE IF stage \in DOMAIN RemoveStages THEN NewHosts(RemoveStages[stage])
    ELSE IF stage \in DOMAIN CheckStages THEN On(CheckStages[stage][1], conf)
    ELSE {}

\* The hosts on which the goroutines of a stage work.
GroupOf(stage) ==
    IF stage \in DOMAIN DeployStages THEN NewHosts(DeployStages[stage])
    ELSE IF stage \in DOMAIN RemoveStages THEN On(RemoveStages[stage], conf)
    ELSE IF stage \in DOMAIN CheckStages THEN On(CheckStages[stage][1], conf)
    ELSE {}

Enter(stage) == pc' = stage /\ group' = GroupOf(stage)

EndRun(how) ==
    /\ pc' = "idle" /\ result' = how
    /\ group' = {} /\ failed' = FALSE
    /\ cut' = (cut \/ (pc \in {"deploy_control_plane", "deploy_workers"}
                        /\ how = "err"))

-----------------------------------------------------------------------------
(* A run.                                                                   *)

\* The fetched state may be lost, and the cluster then counts as new.
StartUp(c) ==
    /\ pc = "idle" /\ runs < MaxRuns
    /\ runs' = runs + 1
    /\ conf' = c
    /\ \/ cur' = saved /\ UNCHANGED faults
       \/ /\ saved # NoConfig /\ faults < MaxFaults
          /\ faults' = faults + 1
          /\ cur' = NoConfig
    /\ checked' = FALSE /\ alarm' = FALSE /\ unseen' = {}
    /\ result' = "none"
    /\ pc' = "ports"
    /\ UNCHANGED <<netVars, saved, group, failed, cut>>

\* "No hosts added existing cluster, skipping port check"
CheckClusterPorts ==
    /\ pc = "ports"
    /\ IF cur # NoConfig /\ \A p \in Planes : NewHosts(p) = {}
       THEN Enter("reconcile") /\ UNCHANGED checked
       ELSE Enter("deploy_etcd") /\ checked' = TRUE
    /\ UNCHANGED <<netVars, saved, failed, conf, cur, alarm, unseen, runs,
                   faults, result, cut>>

\* deployListener: a listener that is there is used; one that cannot bind its
\* port stays created, and the service that has the port will answer.
DeployListener(h) ==
    /\ pc \in DOMAIN DeployStages /\ h \in group
    /\ LET p == DeployStages[pc] IN
       \/ /\ listener' = [listener EXCEPT ![h][p] =
                             IF p \in serves[h] THEN "created" ELSE "running"]
          /\ UNCHANGED <<failed, faults>>
       \/ /\ faults < MaxFaults /\ faults' = faults + 1
          /\ failed' = TRUE
          /\ listener' = [listener EXCEPT ![h][p] =
                             IF @ = "absent" THEN "created" ELSE @]
    /\ group' = group \ {h}
    /\ UNCHANGED <<serves, blocked, saved, pc, conf, cur, checked, alarm,
                   unseen, runs, result, cut>>

Answers(h, port) == port \in serves[h] \/ listener[h][port] = "running"
Reaches(h, t, port) == <<h, t>> \notin blocked /\ Answers(t, port)
Deaf(h, port) == \E t \in On(port, conf) :
                     <<h, t>> \notin blocked /\ ~Answers(t, port)

\* Mutant of CheckPorts: one reachable host of the plane is enough.
CheckPortsAny(h) ==
    /\ pc \in DOMAIN CheckStages /\ h \in group
    /\ LET port == CheckStages[pc][2] IN
       failed' = (failed \/ \A t \in On(port, conf) : ~Reaches(h, t, port))
    /\ group' = group \ {h}
    /\ UNCHANGED <<netVars, saved, pc, conf, cur, checked, alarm, unseen, runs,
                   faults, result, cut>>

\* checkPlaneTCPPortsFromHost: the checker container tries every host of the
\* plane and prints those that do not answer.  One that dies before it has
\* printed anything passes: its exit code is not looked at.  A single etcd host
\* needs no check of itself.
CheckPorts(h) ==
    /\ pc \in DOMAIN CheckStages /\ h \in group
    /\ LET port == CheckStages[pc][2]
           bad  == \E t \in On(port, conf) : ~Reaches(h, t, port)
           skip == pc = "etcd_etcd" /\ On("etcd", conf) = {h}
       IN
       \/ /\ failed' = (failed \/ (bad /\ ~skip))
          /\ alarm' = (alarm \/ (Deaf(h, port) /\ ~skip))
          /\ UNCHANGED <<faults, unseen>>
       \/ /\ faults < MaxFaults /\ faults' = faults + 1
          /\ failed' = TRUE
          /\ UNCHANGED <<alarm, unseen>>
       \/ /\ ~skip
          /\ faults < MaxFaults /\ faults' = faults + 1
          /\ unseen' = unseen \cup {<<pc, h>>}
          /\ UNCHANGED <<failed, alarm>>
    /\ group' = group \ {h}
    /\ UNCHANGED <<netVars, saved, pc, conf, cur, checked, runs, result, cut>>

\* checkKubeAPIPort, from the machine rke runs on.
CheckKubeAPIPort ==
    /\ pc = "api_port"
    /\ LET bad == \E h \in On("controlplane", conf) :
                     ~Answers(h, "controlplane") IN
       /\ alarm' = (alarm \/ bad)
       /\ \/ /\ ~bad
             /\ Enter("remove_etcd")
             /\ UNCHANGED <<failed, result, cut>>
          \/ bad /\ EndRun("err")
    /\ UNCHANGED <<netVars, saved, conf, cur, checked, unseen, runs, faults>>

RemoveListener(h) ==
    /\ pc \in DOMAIN RemoveStages /\ h \in group
    /\ \/ /\ listener' = [listener EXCEPT ![h][RemoveStages[pc]] = "absent"]
          /\ UNCHANGED <<failed, faults>>
       \/ /\ faults < MaxFaults /\ faults' = faults + 1
          /\ failed' = TRUE
          /\ UNCHANGED listener
    /\ group' = group \ {h}
    /\ UNCHANGED <<serves, blocked, saved, pc, conf, cur, checked, alarm,
                   unseen, runs, result, cut>>

\* errgroup.Wait: all goroutines are done, and one error fails the run.
Wait ==
    /\ pc \in DOMAIN After /\ group = {}
    /\ \/ /\ failed /\ EndRun("err")
       \/ /\ ~failed /\ Enter(After[pc])
          /\ UNCHANGED <<failed, result, cut>>
    /\ UNCHANGED <<netVars, saved, conf, cur, checked, alarm, unseen, runs,
                   faults>>

\* The rest of the run.  Reconciliation takes down the service of a role a
\* host has lost, and with it the host's kubelet and nginx-proxy unless its
\* other roles keep them (ReconcileHost in ClusterUp).
TakenDown(h) ==
    LET had   == cur[h]
        lost  == had \ conf[h]
        nodes == \/ lost \cap {"worker"} # {} /\ "controlplane" \notin had
                 \/ /\ "etcd" \in lost
                    /\ ~({"worker", "controlplane"} \subseteq had)
                 \/ "controlplane" \in lost /\ "worker" \notin had \cap conf[h]
    IN  lost \cup (IF nodes THEN {"worker", "controlplane"} ELSE {})

Reconcile ==
    /\ pc = "reconcile"
    /\ serves' = IF cur = NoConfig THEN serves
                 ELSE [h \in Hosts |-> IF conf[h] = {} THEN {}
                                       ELSE serves[h] \ TakenDown(h)]
    /\ Enter("deploy_control_plane")
    /\ UNCHANGED <<listener, blocked, saved, failed, conf, cur, checked, alarm,
                   unseen, runs, faults, result, cut>>

\* A service whose port a forgotten listener holds does not come up.
Clash(h, ports) ==
    \E p \in ports \ serves[h] : listener[h][p] = "running"

\* Etcd and the control plane are deployed and the state is saved.
DeployControlPlane ==
    /\ pc = "deploy_control_plane"
    /\ \/ /\ \A h \in Hosts : ~Clash(h, conf[h] \ {"worker"})
          /\ serves' = [h \in Hosts |-> serves[h] \cup (conf[h] \ {"worker"})]
          /\ saved' = conf
          /\ Enter("deploy_workers")
          /\ UNCHANGED <<failed, result, cut>>
       \/ /\ \E h \in Hosts : Clash(h, conf[h] \ {"worker"})
          /\ EndRun("err")
          /\ UNCHANGED <<serves, saved>>
    /\ UNCHANGED <<listener, blocked, conf, cur, checked, alarm, unseen, runs,
                   faults>>

\* Every host gets a kubelet and, without an API server, nginx-proxy.
DeployWorkerPlane ==
    /\ pc = "deploy_workers"
    /\ LET clash == {h \in HostsOf(conf) :
                        Clash(h, {"worker", "controlplane"})} IN
       /\ serves' = [h \in Hosts |->
                        IF h \in HostsOf(conf) \ clash
                        THEN serves[h] \cup {"worker", "controlplane"}
                        ELSE serves[h]]
       /\ EndRun(IF clash # {} THEN "err" ELSE "ok")
    /\ UNCHANGED <<listener, blocked, saved, conf, cur, checked, alarm, unseen,
                   runs, faults>>

\* rke is killed, or another step of the run fails.
Abort ==
    /\ pc # "idle"
    /\ faults < MaxFaults /\ faults' = faults + 1
    /\ EndRun("err")
    /\ UNCHANGED <<netVars, saved, conf, cur, checked, alarm, unseen, runs>>

\* The operator opens the firewall between two runs.
OpenFirewall ==
    /\ pc = "idle" /\ blocked # {}
    /\ blocked' = {}
    /\ UNCHANGED <<listener, serves, saved, pc, group, failed, conf, cur,
                   checked, alarm, unseen, runs, faults, result, cut>>

-----------------------------------------------------------------------------
RkeStep ==
    \/ CheckClusterPorts \/ Wait \/ CheckKubeAPIPort
    \/ \E h \in Hosts : DeployListener(h) \/ CheckPorts(h) \/ RemoveListener(h)
    \/ Reconcile \/ DeployControlPlane \/ DeployWorkerPlane

Next ==
    \/ \E c \in Configs : StartUp(c)
    \/ RkeStep \/ Abort \/ OpenFirewall

Spec == Init /\ [][Next]_vars

-----------------------------------------------------------------------------
(* Properties.                                                              *)

\* A run that went through the checks starts deploying only if every
\* connection its services need is open: between etcd hosts, from control and
\* worker hosts to etcd, and both ways between control hosts and workers.  The
\* connections of a host are in doubt only in a check whose container died.
PassMeansOpen ==
    (pc = "reconcile" /\ checked) =>
        \A s \in DOMAIN CheckStages :
            \A h \in On(CheckStages[s][1], conf) :
              <<s, h>> \notin unseen =>
                \A t \in On(CheckStages[s][2], conf) : <<h, t>> \notin blocked

\* Then, too, no listener of a plane is left on the hosts of that plane, those
\* left by earlier failed runs included.  (A listener left on a host that has
\* since moved to another plane is not removed, and still holds the port that
\* the host's kubelet or nginx-proxy needs.)
ListenersRemoved ==
    (pc = "reconcile" /\ checked) =>
        \A p \in Planes : \A h \in On(p, conf) : listener[h][p] = "absent"

\* The checks never mistake a working network for a broken one, as long as no
\* run was cut off between reconciling and having deployed the workers.
NoFalseAlarm == alarm => cut
=============================================================================
